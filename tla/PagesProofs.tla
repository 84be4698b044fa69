------------------------------ MODULE PagesProofs -----------------------------
(***************************************************************************)
(* The pages of a browser, whose requests overtake each other and fail:    *)
(* the lists, the lesson player, the course editor, and the bell that      *)
(* counts notifications.  Each keeps its own variables, so a behaviour of  *)
(* the platform is one of each page: the lemmas called ...Apart say so,    *)
(* and the rest of a section speaks of that page alone.                    *)
(***************************************************************************)
EXTENDS Platform, FiniteSetTheorems, WellFoundedInduction, SequenceTheorems, TLAPS

-----------------------------------------------------------------------------
(* The pages with lists.  Once the newest load is answered, its answer is  *)
(* that of the stored rows, unless a change is between its two requests or *)
(* failed there: a change that is complete asks for a load of its own.  So *)
(* when that load has landed the list is right, or a flag tells why not.   *)

LoadRecords(Q, A) == [query : Q, mine : BOOLEAN, served : BOOLEAN, answer : A]
LoadsAreListed == \E Q, A : loads \in Seq(LoadRecords(Q, A))

Directory == page = "feed" /\ query.kind = "any"
Between == op.step = "password" \/ warned
Newest == loads[Len(loads)]

Changes(R, K, Q) == [step : {"write", "password", "load"}, row : R, to : K, secret : BOOLEAN,
                     inForm : BOOLEAN, query : Q]
ChangeKnown ==
    \/ op = P!Idle
    \/ \E R, K, Q : op \in Changes(R, K, Q)
\* In a feed a publication may have been stored without a load.
Blamed == page = "feed" /\ error
NewestIsFresh ==
    /\ ready /\ ~Directory /\ ~landed => loads # <<>>
    /\ loads # <<>> /\ ~landed /\ ~Between /\ ~Blamed /\ Newest.served
         => Newest.answer = P!Answer(Newest.query)
LandedIsShown ==
    ready /\ ~Directory /\ landed /\ ~overtaken /\ ~error /\ ~Between => list = P!Answer(query)

\* A change has at most one load of its own, and only once it is complete.
OneMine ==
    /\ \A k \in DOMAIN loads : loads[k].mine => op.step = "load"
    /\ \A j, k \in DOMAIN loads : loads[j].mine /\ loads[k].mine => j = k

PagesInv == LoadsAreListed /\ OneMine /\ ChangeKnown /\ NewestIsFresh /\ LandedIsShown

-----------------------------------------------------------------------------
LEMMA SameAnswers ==
    ASSUME UNCHANGED <<page, rows>>
    PROVE  \A q : P!Answer(q)' = P!Answer(q)
BY DEF P!Answer, P!Listed, P!AuditRows, P!UserRows, P!UserPages, P!TabRows, P!Matching, P!Rank

LEMMA AskFacts ==
    ASSUME LoadsAreListed, NEW q, NEW mine \in BOOLEAN, P!Ask(q, mine)
    PROVE  /\ LoadsAreListed' /\ loads' # <<>> /\ ~Newest'.served
           /\ ~landed' /\ ~warned' /\ overtaken' = overtaken
           /\ OneMine /\ op' = op /\ ~mine => OneMine'
           /\ OneMine /\ op.step # "load" /\ op'.step = "load" => OneMine'
<1>1. PICK Q, A : loads \in Seq(LoadRecords(Q, A))
  BY DEF LoadsAreListed
<1> DEFINE fresh == P!Request(q, mine)
           R == LoadRecords(Q \cup {q}, A \cup {P!Unanswered})
<1>2. loads' = Append(loads, fresh) /\ ~landed' /\ ~warned' /\ overtaken' = overtaken
  BY DEF P!Ask
<1>3. fresh \in R /\ ~fresh.served /\ fresh.mine = mine
  BY DEF P!Request, LoadRecords
<1>4. loads \in Seq(R)
  <2>1. LoadRecords(Q, A) \subseteq R
    BY DEF LoadRecords
  <2> HIDE DEF R
  <2> QED BY <1>1, <2>1
<1> HIDE DEF fresh, R
<1>5. loads' \in Seq(R) /\ Len(loads') = Len(loads) + 1 /\ loads'[Len(loads) + 1] = fresh
      /\ Len(loads) \in Nat
  BY <1>2, <1>3, <1>4
<1>6. LoadsAreListed'
  BY <1>5 DEF LoadsAreListed, R
<1>7. loads' # <<>>
  BY <1>5
<1>8. ~Newest'.served
  BY <1>3, <1>5 DEF Newest
<1>9. /\ DOMAIN loads = 1 .. Len(loads) /\ DOMAIN loads' = 1 .. Len(loads) + 1
      /\ \A k \in DOMAIN loads : loads'[k] = loads[k]
  BY <1>2, <1>3, <1>4
<1>10. /\ OneMine /\ op' = op /\ ~mine => OneMine'
       /\ OneMine /\ op.step # "load" /\ op'.step = "load" => OneMine'
  <2>1. \A k \in DOMAIN loads' : k \in DOMAIN loads \/ k = Len(loads) + 1
    BY <1>5, <1>9
  <2>2. \A k \in DOMAIN loads' : loads'[k].mine
             => (k \in DOMAIN loads /\ loads[k].mine) \/ (k = Len(loads) + 1 /\ mine)
    BY <1>3, <1>5, <1>9, <2>1
  <2> QED BY <2>2 DEF OneMine
<1> QED BY <1>2, <1>6, <1>7, <1>8, <1>10

\* An answer is that of the rows stored now.
LEMMA ServedFacts ==
    ASSUME LoadsAreListed, NEW i, P!Served(i)
    PROVE  /\ LoadsAreListed' /\ loads' # <<>> /\ loads # <<>>
           /\ UNCHANGED <<page, rows, query, ready, list, error, op, landed, overtaken, warned>>
           /\ Newest' = Newest \/ Newest'.answer = P!Answer(Newest'.query)
           /\ OneMine => OneMine'
<1>1. PICK Q, A : loads \in Seq(LoadRecords(Q, A))
  BY DEF LoadsAreListed
<1> DEFINE a == P!Answer(loads[i].query)
           fresh == [loads[i] EXCEPT !.served = TRUE, !.answer = a]
           R == LoadRecords(Q, A \cup {a})
<1>2. /\ i \in DOMAIN loads /\ loads' = [loads EXCEPT ![i] = fresh]
      /\ UNCHANGED <<page, rows, query, ready, list, error, op, landed, overtaken, warned>>
  BY DEF P!Served, P!ghosts
<1>3. loads[i] \in LoadRecords(Q, A)
  BY <1>1, <1>2
<1>4. fresh \in R /\ fresh.answer = a /\ fresh.query = loads[i].query
      /\ fresh.mine = loads[i].mine
  <2> HIDE DEF a
  <2> QED BY <1>3 DEF LoadRecords
<1>5. loads \in Seq(R)
  <2>1. LoadRecords(Q, A) \subseteq R
    BY DEF LoadRecords
  <2> HIDE DEF R
  <2> QED BY <1>1, <2>1
<1> HIDE DEF fresh, R
<1>6. /\ loads' \in Seq(R) /\ Len(loads') = Len(loads) /\ loads'[i] = fresh
      /\ i \in 1 .. Len(loads) /\ Len(loads) \in Nat
      /\ \A k \in 1 .. Len(loads) : k # i => loads'[k] = loads[k]
  BY <1>2, <1>4, <1>5
<1>7. LoadsAreListed'
  BY <1>6 DEF LoadsAreListed, R
<1>8. loads' # <<>> /\ loads # <<>>
  BY <1>6
<1>9. Newest' = Newest \/ Newest'.answer = P!Answer(Newest'.query)
  <2>1. CASE i = Len(loads)
    <3>1. Newest' = fresh
      BY <1>6, <2>1 DEF Newest
    <3> QED BY <1>4, <3>1 DEF a
  <2>2. CASE i # Len(loads)
    <3>1. Newest' = Newest
      BY <1>6, <2>2 DEF Newest
    <3> QED BY <3>1
  <2> QED BY <2>1, <2>2
<1>10. OneMine => OneMine'
  <2>1. /\ DOMAIN loads' = DOMAIN loads /\ \A k \in DOMAIN loads : loads'[k].mine = loads[k].mine
        /\ op' = op
    BY <1>2, <1>4, <1>5, <1>6
  <2> QED BY <2>1 DEF OneMine
<1> QED BY <1>2, <1>7, <1>8, <1>9, <1>10

\* A load that ends leaves the newest one the newest, unless it is that one.
LEMMA EndedFacts ==
    ASSUME LoadsAreListed, NEW i \in DOMAIN loads, P!Ended(i)
    PROVE  /\ LoadsAreListed' /\ loads # <<>>
           /\ op' \in {op, P!Idle}
           /\ landed' = (landed \/ i = Len(loads))
           /\ i # Len(loads) => loads' # <<>> /\ Newest' = Newest
           /\ OneMine => OneMine' /\ (op' = op \/ op.step = "load")
<1>1. PICK Q, A : loads \in Seq(LoadRecords(Q, A))
  BY DEF LoadsAreListed
<1> DEFINE R == LoadRecords(Q, A)
           n == Len(loads)
<1>2. /\ loads' = SubSeq(loads, 1, i - 1) \o SubSeq(loads, i + 1, n)
      /\ op' = (IF loads[i].mine THEN P!Idle ELSE op) /\ landed' = (landed \/ i = n)
  BY DEF P!Ended, P!RemoveAt
<1> HIDE DEF R
<1>3. loads \in Seq(R) /\ n \in Nat /\ i \in 1 .. n
  BY <1>1 DEF R
<1> DEFINE before == SubSeq(loads, 1, i - 1)
           after == SubSeq(loads, i + 1, n)
<1> HIDE DEF n
<1>4. /\ before \in Seq(R) /\ Len(before) = i - 1
      /\ after \in Seq(R) /\ Len(after) = n - i
      /\ \A k \in 1 .. n - i : after[k] = loads[i + k]
      /\ \A k \in 1 .. i - 1 : before[k] = loads[k]
  <2>1. /\ n = Len(loads) /\ \A k \in 1 .. n : loads[k] \in R
        /\ \A k \in i + 1 .. n : k \in 1 .. n
    BY <1>3 DEF n
  <2>2. before \in Seq(R) /\ Len(before) = i - 1
    BY <1>3, <2>1
  <2>3. after \in Seq(R) /\ Len(after) = n - i
    BY <1>3, <2>1
  <2>4. ASSUME NEW k \in 1 .. n - i PROVE after[k] = loads[i + k]
    <3>1. n \in Int /\ i \in Int /\ k \in Int /\ 1 <= k /\ k <= n - i
      BY <1>3
    <3>2. k \in 1 .. n - (i + 1) + 1 /\ (i + 1) + k - 1 = i + k /\ i + 1 \in Int
      BY <3>1
    <3>3. \A j \in i + 1 .. n : loads[j] \in R
      BY <2>1
    <3> QED BY <3>1, <3>2, <3>3, SubSeqProperties
  <2>5. ASSUME NEW k \in 1 .. i - 1 PROVE before[k] = loads[k]
    <3>1. k \in 1 .. (i - 1) - 1 + 1 /\ 1 + k - 1 = k /\ i - 1 \in Int
          /\ \A j \in 1 .. i - 1 : j \in 1 .. n
      BY <1>3
    <3> QED BY <2>1, <3>1, SubSeqProperties
  <2> QED BY <2>2, <2>3, <2>4, <2>5
<1> HIDE DEF before, after
<1>5. /\ loads' \in Seq(R) /\ Len(loads') = n - 1
      /\ \A k \in 1 .. n - 1 : loads'[k] = IF k < i THEN loads[k] ELSE loads[k + 1]
  <2>1. loads' = before \o after
    BY <1>2 DEF before, after
  <2>2. loads' \in Seq(R) /\ Len(loads') = (i - 1) + (n - i)
    <3>1. before \o after \in Seq(R) /\ Len(before \o after) = Len(before) + Len(after)
      BY <1>4, ConcatProperties
    <3> QED BY <1>3, <1>4, <2>1, <3>1
  <2>3. ASSUME NEW k \in 1 .. n - 1 PROVE loads'[k] = IF k < i THEN loads[k] ELSE loads[k + 1]
    <3>1. k \in 1 .. (i - 1) + (n - i)
      BY <1>3
    <3>2. loads'[k] = IF k <= i - 1 THEN before[k] ELSE after[k - (i - 1)]
      BY <1>4, <2>1, <3>1, ConcatProperties
    <3>3. CASE k < i
      BY <1>3, <1>4, <3>2, <3>3
    <3>4. CASE ~(k < i)
      <4>1. k - (i - 1) \in 1 .. n - i /\ i + (k - (i - 1)) = k + 1 /\ ~(k <= i - 1)
        BY <1>3, <3>4
      <4> QED BY <1>4, <3>2, <3>4, <4>1
    <3> QED BY <3>3, <3>4
  <2> QED BY <1>3, <2>2, <2>3
<1>6. LoadsAreListed'
  BY <1>5 DEF LoadsAreListed, R
<1>7. i # n => loads' # <<>> /\ Newest' = Newest
  BY <1>3, <1>5 DEF Newest, n
<1>8. loads # <<>>
  BY <1>3 DEF n
<1>9. ASSUME OneMine PROVE OneMine' /\ (op' = op \/ op.step = "load")
  <2>1. DOMAIN loads = 1 .. n /\ DOMAIN loads' = 1 .. n - 1
    BY <1>3, <1>5 DEF n
  <2>2. \A k \in DOMAIN loads' : \E j \in DOMAIN loads :
             j # i /\ loads'[k] = loads[j] /\ j = IF k < i THEN k ELSE k + 1
    BY <1>3, <1>5, <2>1
  <2>3. CASE loads[i].mine
    <3>1. \A k \in DOMAIN loads' : ~loads'[k].mine
      BY <1>9, <2>2, <2>3 DEF OneMine
    <3> QED BY <1>9, <2>3, <3>1 DEF OneMine
  <2>4. CASE ~loads[i].mine
    <3>1. op' = op
      BY <1>2, <2>4
    <3>2. \A k \in DOMAIN loads' : loads'[k].mine => op.step = "load"
      BY <1>9, <2>2 DEF OneMine
    <3>3. ASSUME NEW j \in DOMAIN loads', NEW k \in DOMAIN loads', loads'[j].mine, loads'[k].mine
          PROVE  j = k
      <4>1. (IF j < i THEN j ELSE j + 1) = (IF k < i THEN k ELSE k + 1)
        BY <1>9, <2>2, <3>3 DEF OneMine
      <4> QED BY <1>3, <2>1, <4>1
    <3> QED BY <3>1, <3>2, <3>3 DEF OneMine
  <2> QED BY <2>3, <2>4
<1>10. op' \in {op, P!Idle}
  BY <1>2
<1> QED BY <1>2, <1>6, <1>7, <1>8, <1>9, <1>10 DEF n

-----------------------------------------------------------------------------
(* What the person, the timer and the change in progress do.               *)

\* Nothing the list depends on changes; a change may be sent or an error told.
PageRests ==
    /\ UNCHANGED <<page, rows, query, ready, loads, list, landed, overtaken>>
    /\ op' = op \/ (op = P!Idle /\ op'.step = "write")
    /\ (warned' <=> warned) /\ (error => error')
    /\ ChangeKnown'

\* The query changes, and the list is asked for if it can be.
QueryChanges ==
    /\ UNCHANGED <<page, rows, ready, list, op>>
    /\ page = "feed" => (error' <=> error)
    /\ \E q : q # query /\ P!Effect(q)

LEMMA SendFacts ==
    ASSUME NEW r, NEW to, NEW secret \in BOOLEAN, NEW inForm \in BOOLEAN,
           P!Send(r, to, secret, inForm), error' = error
    PROVE  PageRests
<1>1. /\ op = P!Idle
      /\ op' = [step |-> "write", row |-> r, to |-> to, secret |-> secret,
                inForm |-> inForm, query |-> query]
      /\ UNCHANGED <<page, rows, query, ready, list, loads, landed, overtaken, warned>>
  BY DEF P!Send, P!Unbusy, P!NoAsk, P!ghosts
<1>2. op'.step = "write"
  BY <1>1
<1>3. op' \in Changes({r}, {to}, {query})
  BY <1>1 DEF Changes
<1>4. ChangeKnown'
  BY <1>3 DEF ChangeKnown
<1> QED BY <1>1, <1>2, <1>4 DEF PageRests

LEMMA FromRowFacts ==
    ASSUME NEW r, NEW to, P!FromRow(r, to)
    PROVE  PageRests
BY SendFacts DEF P!FromRow

LEMMA FromFormFacts ==
    ASSUME NEW secrets \in SUBSET BOOLEAN, P!FromForm(secrets)
    PROVE  PageRests
<1>1. PICK secret \in secrets : \E r, to : P!Send(r, to, secret, TRUE)
  BY DEF P!FromForm
<1>2. error' = error /\ secret \in BOOLEAN
  BY DEF P!FromForm
<1> QED BY <1>1, <1>2, SendFacts

LEMMA FormFacts ==
    ASSUME ChangeKnown, (\E r : P!Opens(r)) \/ P!Closes \/ P!Types
    PROVE  PageRests
<1>1. /\ UNCHANGED <<page, rows, query, ready, loads, list, landed, overtaken, warned>>
      /\ op' = op /\ error' = error
  BY DEF P!Opens, P!Closes, P!Types, P!NoAsk, P!ghosts
<1>2. ChangeKnown'
  BY <1>1 DEF ChangeKnown
<1> QED BY <1>1, <1>2 DEF PageRests

LEMMA AsksFacts ==
    ASSUME NEW q, P!Asks(q)
    PROVE  QueryChanges
BY DEF P!Asks, P!ErrorWhenAsked, QueryChanges

LEMMA TurnsFacts ==
    ASSUME NEW to, P!Turns(to)
    PROVE  QueryChanges
BY AsksFacts DEF P!Turns

\* On every page the person sends a change, opens a form or changes the query.
LEMMA PersonFacts ==
    ASSUME ChangeKnown,
           \/ P!Users \/ P!School \/ P!Catalog \/ P!Schools \/ P!Link \/ P!Audit
           \/ P!Feed \/ P!Tab
    PROVE  PageRests \/ QueryChanges
<1>1. CASE P!Users
  <2>1. P!UsersForm \in SUBSET BOOLEAN
    BY DEF P!UsersForm
  <2>2. CASE P!UsersFilter \/ P!UsersTurn
    BY <2>2, AsksFacts, TurnsFacts DEF P!UsersFilter, P!UsersTurn
  <2>3. CASE P!UsersOpen \/ P!UsersSubmit \/ P!UsersRemove
    BY <2>1, <2>3, FormFacts, FromFormFacts, FromRowFacts
       DEF P!UsersOpen, P!UsersSubmit, P!UsersRemove
  <2> QED BY <1>1, <2>2, <2>3 DEF P!Users
<1>2. CASE P!School
  <2>1. P!SchoolForm \in SUBSET BOOLEAN
    BY DEF P!SchoolForm
  <2>2. CASE P!SchoolFilter \/ P!SchoolTurn
    BY <2>2, AsksFacts, TurnsFacts DEF P!SchoolFilter, P!SchoolTurn
  <2>3. CASE P!SchoolOpen \/ P!SchoolSubmit \/ P!SchoolRemove
    BY <2>1, <2>3, FormFacts, FromFormFacts, FromRowFacts
       DEF P!SchoolOpen, P!SchoolSubmit, P!SchoolRemove
  <2> QED BY <1>2, <2>2, <2>3 DEF P!School
<1>3. CASE P!Catalog
  <2>1. {FALSE} \in SUBSET BOOLEAN
    OBVIOUS
  <2>2. CASE P!CatalogRename
    BY <2>1, <2>2, FormFacts, FromFormFacts DEF P!CatalogRename
  <2>3. CASE P!CatalogCreate
    BY <2>1, <2>3, SendFacts DEF P!CatalogCreate
  <2>4. CASE P!CatalogStatus \/ P!CatalogDelete
    BY <2>4, FromRowFacts DEF P!CatalogStatus, P!CatalogDelete
  <2> QED BY <1>3, <2>2, <2>3, <2>4 DEF P!Catalog
<1>4. CASE P!Schools
  <2>1. P!SchoolsForm \in SUBSET BOOLEAN
    BY DEF P!SchoolsForm
  <2> QED BY <1>4, <2>1, FormFacts, FromFormFacts, FromRowFacts
          DEF P!Schools, P!SchoolsOpen, P!SchoolsSubmit, P!SchoolsRemove
<1>5. CASE P!Link
  BY <1>5, FromRowFacts DEF P!Link, P!Toggle
<1>6. CASE P!Audit
  BY <1>6, AsksFacts, TurnsFacts DEF P!Audit, P!AuditFilter, P!AuditTurn
<1>7. CASE P!Feed
  BY <1>7, AsksFacts DEF P!Feed, P!FeedVisit
<1>8. CASE P!Tab
  BY <1>8, AsksFacts DEF P!Tab, P!TabFilter
<1> QED BY <1>1, <1>2, <1>3, <1>4, <1>5, <1>6, <1>7, <1>8

\* The text becomes the query, if it is another one.
LEMMA TimerFacts ==
    ASSUME ChangeKnown, P!TimerFires
    PROVE  PageRests \/ QueryChanges
<1> DEFINE q == [query EXCEPT !.text = typed.text, !.at = 1]
<1>1. P!Effect(q) /\ UNCHANGED <<page, rows, ready, list, error, op>>
  BY DEF P!TimerFires
<1>2. CASE q # query
  <2> HIDE DEF q
  <2> QED BY <1>1, <1>2 DEF QueryChanges
<1>3. CASE q = query
  <2>1. UNCHANGED <<query, loads, landed, overtaken, warned>>
    <3> HIDE DEF q
    <3> QED BY <1>1, <1>3 DEF P!Effect, P!NoAsk, P!ghosts
  <2> QED BY <1>1, <2>1 DEF PageRests, ChangeKnown
<1> QED BY <1>2, <1>3

-----------------------------------------------------------------------------
LEMMA RestKeeps ==
    ASSUME PagesInv, PageRests
    PROVE  PagesInv'
<1>1. /\ LoadsAreListed /\ OneMine /\ NewestIsFresh /\ LandedIsShown /\ ChangeKnown'
      /\ UNCHANGED <<page, rows, query, ready, loads, list, landed, overtaken>>
      /\ op' = op \/ (op = P!Idle /\ op'.step = "write")
      /\ (warned' <=> warned) /\ (error => error')
  BY DEF PagesInv, PageRests
<1>2. \A q : P!Answer(q)' = P!Answer(q)
  BY <1>1, SameAnswers
<1>3. (Between' <=> Between) /\ Newest' = Newest /\ (Directory' <=> Directory)
  <2>1. P!Idle.step # "password"
    BY DEF P!Idle
  <2> QED BY <1>1, <2>1 DEF Between, Newest, Directory
<1>4. NewestIsFresh'
  <2>1. ~Blamed' => ~Blamed
    BY <1>1 DEF Blamed
  <2> QED BY <1>1, <1>2, <1>3, <2>1 DEF NewestIsFresh
<1>5. LandedIsShown'
  BY <1>1, <1>2, <1>3 DEF LandedIsShown
<1>6. LoadsAreListed' /\ OneMine'
  <2>1. P!Idle.step # "load"
    BY DEF P!Idle
  <2> QED BY <1>1, <2>1 DEF LoadsAreListed, OneMine
<1> QED BY <1>1, <1>4, <1>5, <1>6 DEF PagesInv

\* A new load, or the stage before one: what is shown is not claimed to be current.
LEMMA AskingKeeps ==
    ASSUME LoadsAreListed', OneMine', ChangeKnown', loads' # <<>>, ~Newest'.served, ~landed'
    PROVE  PagesInv'
BY DEF PagesInv, NewestIsFresh, LandedIsShown

LEMMA QueryKeeps ==
    ASSUME PagesInv, QueryChanges
    PROVE  PagesInv'
<1>1. PICK q : q # query /\ P!Effect(q)
  BY DEF QueryChanges
<1>2. /\ UNCHANGED <<page, rows, ready, list, op>> /\ query' = q
      /\ LoadsAreListed /\ OneMine /\ ChangeKnown /\ NewestIsFresh /\ ChangeKnown'
  BY <1>1 DEF QueryChanges, PagesInv, P!Effect, ChangeKnown
<1>3. CASE ready /\ ~Directory'
  <2>1. P!Ask(q, FALSE)
    BY <1>1, <1>2, <1>3 DEF P!Effect, Directory
  <2> QED BY <1>2, <2>1, AskFacts, AskingKeeps
<1>4. CASE ~(ready /\ ~Directory')
  <2>1. UNCHANGED <<loads, landed, overtaken, warned>>
    BY <1>1, <1>2, <1>4 DEF P!Effect, Directory, P!NoAsk, P!ghosts
  <2>2. \A r : P!Answer(r)' = P!Answer(r)
    BY <1>2, SameAnswers
  <2>3. (Between' <=> Between) /\ Newest' = Newest
    BY <1>2, <2>1 DEF Between, Newest
  <2>7. Blamed' <=> Blamed
    BY <1>2 DEF QueryChanges, Blamed
  <2>4. NewestIsFresh'
    BY <2>7, <1>2, <1>4, <2>1, <2>2, <2>3 DEF NewestIsFresh
  <2>5. LandedIsShown'
    BY <1>2, <1>4 DEF LandedIsShown
  <2>6. LoadsAreListed' /\ OneMine'
    BY <1>2, <2>1 DEF LoadsAreListed, OneMine
  <2> QED BY <1>2, <2>4, <2>5, <2>6 DEF PagesInv
<1> QED BY <1>3, <1>4

\* The institution of the person is known, and the page loads, or not.
LEMMA SchoolKeeps ==
    ASSUME PagesInv, P!SchoolKnown \/ P!SchoolUnknown
    PROVE  PagesInv'
<1>1. /\ LoadsAreListed /\ OneMine /\ NewestIsFresh /\ ~ready
      /\ UNCHANGED <<page, rows, query, list, op>> /\ ChangeKnown'
  BY DEF PagesInv, ChangeKnown, P!SchoolKnown, P!SchoolUnknown
<1>2. CASE P!SchoolKnown
  <2>1. P!Ask(query, FALSE)
    BY <1>2 DEF P!SchoolKnown
  <2> QED BY <1>1, <2>1, AskFacts, AskingKeeps
<1>3. CASE P!SchoolUnknown
  <2>1. UNCHANGED <<ready, loads, landed, overtaken, warned>>
    BY <1>3 DEF P!SchoolUnknown, P!ghosts
  <2>2. \A r : P!Answer(r)' = P!Answer(r)
    BY <1>1, SameAnswers
  <2>3. (Between' <=> Between) /\ Newest' = Newest
    BY <1>1, <2>1 DEF Between, Newest
  <2>4. NewestIsFresh' /\ LandedIsShown'
    BY <1>1, <1>3, <2>1, <2>2, <2>3 DEF P!SchoolUnknown, NewestIsFresh, LandedIsShown, Blamed
  <2>5. LoadsAreListed' /\ OneMine'
    BY <1>1, <2>1 DEF LoadsAreListed, OneMine
  <2> QED BY <1>1, <2>4, <2>5 DEF PagesInv
<1> QED BY <1>2, <1>3

LEMMA ServedKeeps ==
    ASSUME PagesInv, NEW i, P!Served(i)
    PROVE  PagesInv'
<1>1. /\ LoadsAreListed /\ OneMine /\ ChangeKnown /\ NewestIsFresh /\ LandedIsShown
  BY DEF PagesInv
<1>2. /\ LoadsAreListed' /\ OneMine' /\ loads' # <<>> /\ loads # <<>>
      /\ UNCHANGED <<page, rows, query, ready, list, error, op, landed, overtaken, warned>>
      /\ Newest' = Newest \/ Newest'.answer = P!Answer(Newest'.query)
  BY <1>1, ServedFacts
<1>3. \A q : P!Answer(q)' = P!Answer(q)
  BY <1>2, SameAnswers
<1>4. (Between' <=> Between) /\ (Directory' <=> Directory) /\ ChangeKnown'
  BY <1>1, <1>2 DEF Between, Directory, ChangeKnown
<1>7. Blamed' <=> Blamed
  BY <1>2 DEF Blamed
<1>5. NewestIsFresh'
  BY <1>1, <1>2, <1>3, <1>4, <1>7 DEF NewestIsFresh
<1>6. LandedIsShown'
  BY <1>1, <1>2, <1>3, <1>4 DEF LandedIsShown
<1> QED BY <1>2, <1>4, <1>5, <1>6 DEF PagesInv

\* The end of a load: a change that waits between its requests has none.
LEMMA EndKeeps ==
    ASSUME PagesInv, NEW i \in DOMAIN loads, P!Ended(i),
           UNCHANGED <<page, rows, query, ready, warned>>, Blamed => error'
    PROVE  /\ LoadsAreListed' /\ OneMine' /\ ChangeKnown' /\ NewestIsFresh'
           /\ (Between' <=> Between) /\ (Directory' <=> Directory)
           /\ landed' = (landed \/ i = Len(loads)) /\ loads # <<>>
           /\ op' = op \/ op.step = "load"
<1>1. /\ LoadsAreListed /\ OneMine /\ ChangeKnown /\ NewestIsFresh
  BY DEF PagesInv
<1>2. /\ LoadsAreListed' /\ OneMine' /\ loads # <<>>
      /\ op' \in {op, P!Idle}
      /\ landed' = (landed \/ i = Len(loads))
      /\ i # Len(loads) => loads' # <<>> /\ Newest' = Newest
      /\ op' = op \/ op.step = "load"
  BY <1>1, EndedFacts
<1>3. \A q : P!Answer(q)' = P!Answer(q)
  BY SameAnswers
<1>4. (Between' <=> Between) /\ (Directory' <=> Directory)
  <2>1. P!Idle.step = "none"
    BY DEF P!Idle
  <2> QED BY <1>2, <2>1 DEF Between, Directory
<1>5. ChangeKnown'
  BY <1>1, <1>2 DEF ChangeKnown
<1>6. NewestIsFresh'
  <2>1. ~Blamed' => ~Blamed
    BY DEF Blamed
  <2> QED BY <1>1, <1>2, <1>3, <1>4, <2>1 DEF NewestIsFresh
<1> QED BY <1>2, <1>4, <1>5, <1>6

\* The answer of the newest load is what there is; any other is flagged.
LEMMA LandsKeeps ==
    ASSUME PagesInv, NEW i, P!Lands(i)
    PROVE  PagesInv'
<1>1. /\ NewestIsFresh /\ LandedIsShown
  BY DEF PagesInv
<1>2. /\ i \in DOMAIN loads /\ loads[i].served /\ list' = loads[i].answer /\ P!Ended(i)
      /\ overtaken' = (landed \/ i # Len(loads) \/ loads[i].query # query)
      /\ UNCHANGED <<page, rows, query, ready, warned>> /\ (Blamed <=> error')
  BY DEF P!Lands, Blamed
<1>3. /\ LoadsAreListed' /\ OneMine' /\ ChangeKnown' /\ NewestIsFresh'
      /\ (Between' <=> Between) /\ (Directory' <=> Directory) /\ loads # <<>>
  BY <1>2, EndKeeps
<1>4. \A q : P!Answer(q)' = P!Answer(q)
  BY <1>2, SameAnswers
<1>5. ASSUME ~overtaken', ~Between, ~error' PROVE list' = P!Answer(query)
  <2>1. ~landed /\ loads[i] = Newest /\ Newest.query = query
    BY <1>2, <1>5 DEF Newest
  <2> QED BY <1>1, <1>2, <1>3, <1>5, <2>1 DEF NewestIsFresh
<1>6. LandedIsShown'
  BY <1>2, <1>3, <1>4, <1>5 DEF LandedIsShown
<1> QED BY <1>3, <1>6 DEF PagesInv

LEMMA LoadFailsKeeps ==
    ASSUME PagesInv, NEW i, P!LoadFails(i)
    PROVE  PagesInv'
<1>1. /\ i \in DOMAIN loads /\ P!Ended(i) /\ error'
      /\ UNCHANGED <<page, rows, query, ready, warned>>
  BY DEF P!LoadFails
<1>2. LoadsAreListed' /\ OneMine' /\ ChangeKnown' /\ NewestIsFresh'
  BY <1>1, EndKeeps
<1>3. LandedIsShown'
  BY <1>1 DEF LandedIsShown
<1> QED BY <1>2, <1>3 DEF PagesInv

-----------------------------------------------------------------------------
(* A change in progress.                                                   *)

\* The change is complete, and the list is asked for.
LEMMA ReloadKeeps ==
    ASSUME PagesInv, op.step \in {"write", "password"}, P!Reload, UNCHANGED page
    PROVE  PagesInv'
<1>1. LoadsAreListed /\ OneMine /\ ChangeKnown
  BY DEF PagesInv
<1>2. op' = [op EXCEPT !.step = "load"] /\ P!Ask(op.query, TRUE)
  BY DEF P!Reload
<1>3. PICK R, K, Q : op \in Changes(R, K, Q)
  <2>1. P!Idle.step = "none"
    BY DEF P!Idle
  <2> QED BY <1>1, <2>1 DEF ChangeKnown
<1>4. op' \in Changes(R, K, Q) /\ op'.step = "load" /\ op'.inForm = op.inForm
  BY <1>2, <1>3 DEF Changes
<1>5. ChangeKnown'
  <2>1. P!Idle.step = "none"
    BY DEF P!Idle
  <2> QED BY <1>1, <1>4, <2>1 DEF ChangeKnown
<1>6. /\ LoadsAreListed' /\ loads' # <<>> /\ ~Newest'.served /\ ~landed' /\ OneMine'
  BY <1>1, <1>2, <1>4, AskFacts
<1> QED BY <1>5, <1>6, AskingKeeps

\* It failed half way: the list is flagged.
LEMMA HalfKeeps ==
    ASSUME PagesInv, P!GiveUp(TRUE), UNCHANGED <<page, query, ready>>, op.step \in {"write", "password"}
    PROVE  PagesInv'
<1>1. LoadsAreListed /\ OneMine /\ NewestIsFresh
  BY DEF PagesInv
<1>2. op' = P!Idle /\ warned' /\ UNCHANGED <<loads, landed, overtaken>>
  BY DEF P!GiveUp
<1>3. LoadsAreListed' /\ OneMine'
  BY <1>1, <1>2 DEF LoadsAreListed, OneMine
<1>4. NewestIsFresh' /\ LandedIsShown' /\ ChangeKnown'
  BY <1>1, <1>2 DEF NewestIsFresh, LandedIsShown, Between, Directory, ChangeKnown
<1> QED BY <1>3, <1>4 DEF PagesInv

LEMMA StoresKeeps ==
    ASSUME PagesInv, P!Stores
    PROVE  PagesInv'
<1>1. /\ LoadsAreListed /\ OneMine /\ ChangeKnown /\ NewestIsFresh
  BY DEF PagesInv
<1>2. op.step = "write" /\ UNCHANGED <<page, query, ready, list>>
  BY DEF P!Stores
<1>3. CASE op' = [op EXCEPT !.step = "password"] /\ P!NoAsk
  <2>1. PICK R, K, Q : op \in Changes(R, K, Q)
    <3>1. P!Idle.step = "none"
      BY DEF P!Idle
    <3> QED BY <1>1, <1>2, <3>1 DEF ChangeKnown
  <2>2. op' \in Changes(R, K, Q) /\ op'.step = "password" /\ op'.inForm = op.inForm
    BY <1>3, <2>1 DEF Changes
  <2>3. ChangeKnown'
    <3>1. P!Idle.step = "none"
      BY DEF P!Idle
    <3> QED BY <1>1, <1>2, <2>2, <3>1 DEF ChangeKnown
  <2>4. UNCHANGED <<loads, landed, overtaken, warned>>
    BY <1>3 DEF P!NoAsk, P!ghosts
  <2>5. LoadsAreListed' /\ OneMine'
    BY <1>1, <1>2, <2>4 DEF LoadsAreListed, OneMine
  <2>6. NewestIsFresh' /\ LandedIsShown'
    BY <1>1, <1>2, <2>2, <2>4 DEF NewestIsFresh, LandedIsShown, Between, Directory
  <2> QED BY <2>3, <2>5, <2>6 DEF PagesInv
<1>4. CASE P!Reload
  BY <1>2, <1>4, ReloadKeeps
<1>5. CASE P!GiveUp(TRUE)
  BY <1>2, <1>5, HalfKeeps
<1> QED BY <1>3, <1>4, <1>5 DEF P!Stores

LEMMA SetsPasswordKeeps ==
    ASSUME PagesInv, P!SetsPassword
    PROVE  PagesInv'
BY ReloadKeeps, HalfKeeps DEF P!SetsPassword

\* A change that is refused leaves the list as current as it was.
LEMMA RefusesKeeps ==
    ASSUME PagesInv, P!Refuses
    PROVE  PagesInv'
<1>1. /\ LoadsAreListed /\ OneMine /\ ChangeKnown /\ NewestIsFresh /\ LandedIsShown
  BY DEF PagesInv
<1>2. /\ op.step = "write" /\ op' = P!Idle /\ P!Told
      /\ UNCHANGED <<page, rows, query, ready, list, loads, landed, overtaken>>
      /\ (warned' <=> warned)
  BY DEF P!Refuses, P!GiveUp
<1>3. P!Idle.step = "none"
  BY DEF P!Idle
<1>4. \A q : P!Answer(q)' = P!Answer(q)
  BY <1>2, SameAnswers
<1>5. (Between' <=> Between) /\ (Directory' <=> Directory) /\ ChangeKnown' /\ Newest' = Newest
  BY <1>2, <1>3 DEF Between, Directory, ChangeKnown, Newest
<1>6. LoadsAreListed' /\ OneMine'
  BY <1>1, <1>2 DEF LoadsAreListed, OneMine
<1>7. NewestIsFresh'
  <2>1. ~Blamed' => ~Blamed
    BY <1>2 DEF P!Told, Blamed
  <2> QED BY <1>1, <1>2, <1>4, <1>5, <2>1 DEF NewestIsFresh
<1>8. LandedIsShown'
  <2>1. ~error' => ~error
    BY <1>2 DEF P!Told
  <2> QED BY <1>1, <1>2, <1>4, <1>5, <2>1 DEF LandedIsShown
<1> QED BY <1>5, <1>6, <1>7, <1>8 DEF PagesInv

-----------------------------------------------------------------------------
(* Publishing in a feed.                                                   *)

\* The error of a load that failed is cleared, and remembered.
LEMMA PublishKeeps ==
    ASSUME PagesInv, P!FeedPublish
    PROVE  PagesInv'
<1>1. /\ UNCHANGED <<page, rows, query, ready, loads, list, op, landed, overtaken>>
      /\ error' = FALSE /\ warned' = (warned \/ error)
  BY DEF P!FeedPublish
<1>2. LoadsAreListed /\ OneMine /\ ChangeKnown /\ NewestIsFresh
  BY DEF PagesInv
<1>3. ChangeKnown'
  BY <1>1, <1>2 DEF ChangeKnown
<1>4. CASE ~error
  BY <1>1, <1>3, <1>4, RestKeeps DEF PageRests
<1>5. CASE error
  <2>1. Between' /\ (Directory' <=> Directory)
    BY <1>1, <1>5 DEF Between, Directory
  <2>2. NewestIsFresh' /\ LandedIsShown'
    BY <1>1, <1>2, <2>1 DEF NewestIsFresh, LandedIsShown
  <2>3. LoadsAreListed' /\ OneMine'
    BY <1>1, <1>2 DEF LoadsAreListed, OneMine
  <2> QED BY <1>3, <2>2, <2>3 DEF PagesInv
<1> QED BY <1>4, <1>5

\* A publication loads the list, or there is an error.
LEMMA PublishedKeeps ==
    ASSUME PagesInv, NEW p, P!Published(p)
    PROVE  PagesInv'
<1>1. LoadsAreListed /\ OneMine /\ ChangeKnown /\ NewestIsFresh
  BY DEF PagesInv
<1>2. /\ UNCHANGED <<page, query, ready, list, op>> /\ page = "feed"
      /\ P!Ask(p.query, FALSE) \/ (error' = TRUE /\ P!NoAsk)
  BY DEF P!Published
<1>3. ChangeKnown'
  BY <1>1, <1>2 DEF ChangeKnown
<1>4. CASE P!Ask(p.query, FALSE)
  <2>1. LoadsAreListed' /\ OneMine' /\ loads' # <<>> /\ ~Newest'.served /\ ~landed'
    BY <1>1, <1>2, <1>4, AskFacts
  <2> QED BY <1>3, <2>1, AskingKeeps
<1>5. CASE error' = TRUE /\ P!NoAsk
  <2>1. UNCHANGED <<loads, landed, overtaken, warned>>
    BY <1>5 DEF P!NoAsk, P!ghosts
  <2>2. Blamed' /\ (Directory' <=> Directory)
    BY <1>2, <1>5 DEF Blamed, Directory
  <2>3. NewestIsFresh' /\ LandedIsShown'
    BY <1>1, <1>2, <1>5, <2>1, <2>2 DEF NewestIsFresh, LandedIsShown
  <2>4. LoadsAreListed' /\ OneMine'
    BY <1>1, <1>2, <2>1 DEF LoadsAreListed, OneMine
  <2> QED BY <1>3, <2>3, <2>4 DEF PagesInv
<1> QED BY <1>2, <1>4, <1>5

\* A refused publication leaves the list as current as it was.
LEMMA NotPublishedKeeps ==
    ASSUME PagesInv, NEW p, P!NotPublished(p)
    PROVE  PagesInv'
<1>1. UNCHANGED <<page, rows, query, ready, loads, list, op, landed, overtaken, warned>>
  BY DEF P!NotPublished, P!NoAsk, P!ghosts
<1>3. error => error'
  <2>1. error' = TRUE \/ error' = error
    BY DEF P!NotPublished
  <2> QED BY <2>1
<1>2. ChangeKnown'
  BY <1>1 DEF PagesInv, ChangeKnown
<1> QED BY <1>1, <1>2, <1>3, RestKeeps DEF PageRests

LEMMA PagesStep ==
    ASSUME PagesInv, P!ListNext
    PROVE  PagesInv'
<1>1. ChangeKnown
  BY DEF PagesInv
<1>2. ASSUME NEW i, P!Served(i) \/ P!Lands(i) \/ P!LoadFails(i)
      PROVE  PagesInv'
  BY <1>2, ServedKeeps, LandsKeeps, LoadFailsKeeps
<1>3. CASE P!Stores \/ P!Refuses \/ P!SetsPassword
  BY <1>3, StoresKeeps, RefusesKeeps, SetsPasswordKeeps
<1>4. CASE P!SchoolKnown \/ P!SchoolUnknown
  BY <1>4, SchoolKeeps
<1>5. CASE P!Types \/ P!Closes
  BY <1>1, <1>5, FormFacts, RestKeeps
<1>6. CASE P!TimerFires
  BY <1>1, <1>6, TimerFacts, RestKeeps, QueryKeeps
<1>7. CASE \/ P!Users \/ P!School \/ P!Catalog \/ P!Schools \/ P!Link \/ P!Audit
           \/ P!Feed \/ P!Tab
  BY <1>1, <1>7, PersonFacts, RestKeeps, QueryKeeps
<1>8. CASE P!FeedPublish
  BY <1>8, PublishKeeps
<1>9. ASSUME NEW p, P!Published(p) \/ P!NotPublished(p)
      PROVE  PagesInv'
  BY <1>9, PublishedKeeps, NotPublishedKeeps
<1> QED BY <1>2, <1>3, <1>4, <1>5, <1>6, <1>7, <1>8, <1>9 DEF P!ListNext

LEMMA PagesStart ==
    ASSUME P!ListInit
    PROVE  PagesInv
<1> DEFINE first == P!Request(P!FirstQuery, FALSE)
           R == LoadRecords({P!FirstQuery}, {P!Unanswered})
<1>1. /\ query = P!FirstQuery /\ ready = (page # "school") /\ op = P!Idle
      /\ ~landed /\ ~warned
      /\ loads = IF P!OpensLoading THEN <<first>> ELSE <<>>
  BY DEF P!ListInit
<1>2. first \in R /\ ~first.served /\ ~first.mine
  BY DEF P!Request, LoadRecords
<1>3. P!FirstQuery.kind = "any"
  BY DEF P!FirstQuery
<1> HIDE DEF first, R
<1>4. loads \in Seq(R) /\ \A k \in DOMAIN loads : loads[k] = first
  BY <1>1, <1>2
<1>5. LoadsAreListed /\ OneMine
  BY <1>2, <1>4 DEF LoadsAreListed, R, OneMine
<1>6. loads # <<>> => Newest = first
  BY <1>1 DEF Newest
<1>7. ready /\ ~Directory => loads # <<>>
  BY <1>1, <1>3, <1>4 DEF Directory, P!OpensLoading
<1>8. NewestIsFresh /\ LandedIsShown /\ ChangeKnown
  BY <1>1, <1>2, <1>6, <1>7 DEF NewestIsFresh, LandedIsShown, ChangeKnown
<1> QED BY <1>5, <1>8 DEF PagesInv

LEMMA PagesApart ==
    PlatformSafe => P!ListInit /\ [][P!ListNext]_pageVars
<1>1. PlatformInit => P!ListInit
  BY DEF PlatformInit
<1>2. [PlatformNext]_platformVars => [P!ListNext]_pageVars
  <2>1. Runs("pages") /\ P!ListNext /\ Only("pages") => P!ListNext
    OBVIOUS
  <2> QED BY <2>1 DEF PlatformNext, Only, pageVars, platformVars
<1> QED BY <1>1, <1>2, PTL DEF PlatformSafe

\* For any rows, filters and page size, and however many loads overlap and land in
\* any order: a page at rest shows what is stored for its filters, unless it says
\* there is an error, an answer came late or for an earlier filter, a change failed
\* between its two requests, or a publication took the error of a failed load away
\* (UsuariosPageClient.tsx and the other lists, CommunityFeed.tsx:187).
THEOREM ListsAreCurrent == PlatformSafe => []ListIsCurrent
<1>1. P!ListInit => PagesInv
  BY PagesStart
<1>2. PagesInv /\ [P!ListNext]_pageVars => PagesInv'
  <2>1. CASE P!ListNext
    BY <2>1, PagesStep
  <2>2. ASSUME PagesInv, UNCHANGED pageVars
        PROVE  PagesInv'
    <3>1. PageRests
      BY <2>2 DEF pageVars, PageRests, PagesInv, ChangeKnown
    <3> QED BY <2>2, <3>1, RestKeeps
  <2> QED BY <2>1, <2>2
<1>3. PagesInv => ListIsCurrent
  <2>1. P!Idle.step = "none"
    BY DEF P!Idle
  <2> QED BY <2>1 DEF PagesInv, NewestIsFresh, LandedIsShown, Between, Directory,
                      ListIsCurrent, P!ListIsCurrent, P!Settled
<1> QED BY <1>1, <1>2, <1>3, PagesApart, PTL

-----------------------------------------------------------------------------
(* The types of the pages with lists.  A query asks for a page from 1 on,  *)
(* and a change is of a row, into a kind of row or away.                   *)

ListLoads == LoadRecords(P!Queries, P!Answers)
ListForms == [open : BOOLEAN, row : Rows \cup {P!New}, bad : BOOLEAN]
RowStates == Kinds \cup {"none"}
ListChanges == Changes(Rows, RowStates, P!Queries) \cup {P!Idle}

QueryTyped ==
    /\ query \in P!Queries /\ ready \in BOOLEAN /\ loads \in Seq(ListLoads)
    /\ landed \in BOOLEAN /\ overtaken \in BOOLEAN /\ warned \in BOOLEAN
ShownTyped == list \in P!Answers /\ error \in BOOLEAN
WorkTyped == form \in ListForms /\ op \in ListChanges
Posts == [row : Rows, query : {q \in P!Queries : q.kind \in Kinds}]
TypingTyped == typed \in [text : BOOLEAN, timer : BOOLEAN] /\ posting \subseteq Posts
RowsTyped == page \in P!ListPageNames /\ rows \in [Rows -> RowStates]
ListTyped ==
    /\ RowsTyped /\ QueryTyped /\ ShownTyped /\ WorkTyped /\ TypingTyped
    /\ acts \in 0 .. MaxActs

LEMMA SameRowCount ==
    \A s : P!Cardinality(s) = Cardinality(s) /\ (P!IsFiniteSet(s) <=> IsFiniteSet(s))
<1>1. \A s : P!Cardinality(s) = Cardinality(s)
  BY DEF P!Cardinality, Cardinality
<1>2. \A s : P!IsFiniteSet(s) <=> IsFiniteSet(s)
  BY DEF P!IsFiniteSet, IsFiniteSet
<1> QED BY <1>1, <1>2

LEMMA PagesAreNatural ==
    ASSUME NEW n \in Nat, NEW m \in Nat \ {0}
    PROVE  (n + m - 1) \div m \in Nat
  OBVIOUS

LEMMA NoAnswerTyped == P!ListConstants => P!Unanswered \in P!Answers /\ P!FirstQuery \in P!Queries
<1>1. P!FirstQuery \in P!Queries
  BY DEF P!FirstQuery, P!Queries
<1>2. <<>> \in [{} -> Kinds]
  OBVIOUS
<1>3. <<>> \in UNION {[s -> Kinds] : s \in SUBSET Rows}
  BY <1>2
<1> QED BY <1>1, <1>3 DEF P!Unanswered, P!Answers

LEMMA AnswerTyped ==
    ASSUME P!ListConstants, RowsTyped, NEW q \in P!Queries
    PROVE  P!Answer(q) \in P!Answers
<1> DEFINE told == [r \in P!Listed(q) |-> rows[r]]
           number == IF page \in P!Paged THEN P!UserPages(q) ELSE 1
<1>1. P!Listed(q) \in SUBSET Rows /\ \A r \in P!Listed(q) : rows[r] \in Kinds
  <2>1. \A x : P!Matching(x) \in SUBSET Rows /\ \A r \in P!Matching(x) : rows[r] \in Kinds
    BY DEF P!Matching, RowsTyped, RowStates
  <2>2. \A x : P!UserRows(x) \subseteq P!Matching(x)
    BY DEF P!UserRows
  <2>4. P!TabRows(q) \subseteq P!Matching(q)
    BY DEF P!TabRows
  <2>3. \E x : P!Listed(q) \subseteq P!Matching(x)
    BY <2>2, <2>4 DEF P!Listed, P!AuditRows
  <2> QED BY <2>1, <2>3
<1>2. told \in UNION {[s -> Kinds] : s \in SUBSET Rows}
  <2>1. told \in [P!Listed(q) -> Kinds]
    <3> HIDE DEF P!Listed
    <3> QED BY <1>1
  <2> QED BY <1>1, <2>1
<1>3. number \in Nat
  <2>1. P!Matching(q) \in SUBSET Rows
    BY DEF P!Matching
  <2>2. P!Cardinality(P!Matching(q)) \in Nat
    BY <2>1, SameRowCount, FS_Subset, FS_CardinalityType DEF P!ListConstants
  <2>3. (P!Cardinality(P!Matching(q)) + PageSize - 1) \div PageSize \in Nat
    BY <2>2, PagesAreNatural DEF P!ListConstants
  <2> QED BY <2>3 DEF P!UserPages
<1>4. P!Answer(q) = [of |-> q, rows |-> told, pages |-> number]
  BY DEF P!Answer
<1> HIDE DEF told, number
<1> QED BY <1>2, <1>3, <1>4 DEF P!Answers

LEMMA ShorterIsListed ==
    ASSUME NEW R, NEW s \in Seq(R), NEW i \in DOMAIN s
    PROVE  P!RemoveAt(s, i) \in Seq(R)
<1>1. /\ Len(s) \in Nat /\ i \in 1 .. Len(s) /\ \A k \in 1 .. Len(s) : s[k] \in R
      /\ \A k \in i + 1 .. Len(s) : k \in 1 .. Len(s)
  OBVIOUS
<1>2. SubSeq(s, 1, i - 1) \in Seq(R)
  BY <1>1
<1>3. SubSeq(s, i + 1, Len(s)) \in Seq(R)
  BY <1>1
<1> QED BY <1>2, <1>3, ConcatProperties DEF P!RemoveAt

LEMMA AskTyped ==
    ASSUME P!ListConstants, QueryTyped, NEW q \in P!Queries, NEW mine \in BOOLEAN, P!Ask(q, mine)
    PROVE  /\ loads' \in Seq(ListLoads)
           /\ landed' \in BOOLEAN /\ overtaken' \in BOOLEAN /\ warned' \in BOOLEAN
<1>1. P!Request(q, mine) \in ListLoads
  BY NoAnswerTyped DEF P!Request, ListLoads, LoadRecords
<1>2. loads' = Append(loads, P!Request(q, mine)) /\ loads \in Seq(ListLoads)
  BY DEF P!Ask, QueryTyped
<1>3. loads' \in Seq(ListLoads)
  BY <1>1, <1>2
<1> QED BY <1>3 DEF P!Ask, QueryTyped

LEMMA EffectTyped ==
    ASSUME P!ListConstants, QueryTyped, NEW q \in P!Queries, P!Effect(q), ready' = ready
    PROVE  QueryTyped'
  BY AskTyped DEF P!Effect, P!NoAsk, P!ghosts, QueryTyped

-----------------------------------------------------------------------------
\* What a person does: the query changes, a form opens, or a change is sent.
Turning == \E q \in P!Queries : P!Asks(q) /\ UNCHANGED typed
Opening == \E r \in Rows \cup {P!New} : P!Opens(r)
Sending == \E r \in Rows, to \in RowStates, secret \in BOOLEAN, inForm \in BOOLEAN :
              P!Send(r, to, secret, inForm) /\ form' \in ListForms /\ error' \in BOOLEAN

LEMMA QueryFields ==
    ASSUME NEW K, NEW B, NEW A, NEW d \in [kind : K, text : B, at : A],
           NEW k \in K, NEW b \in B, NEW a \in A
    PROVE  /\ [d EXCEPT !.kind = k] \in [kind : K, text : B, at : A]
           /\ [d EXCEPT !.kind = k, !.at = a] \in [kind : K, text : B, at : A]
           /\ [d EXCEPT !.text = b, !.at = a] \in [kind : K, text : B, at : A]
           /\ [d EXCEPT !.at = a] \in [kind : K, text : B, at : A]
OBVIOUS

LEMMA QueriesFrom ==
    ASSUME QueryTyped
    PROVE  /\ \A k \in Kinds \cup {"any"} : /\ [query EXCEPT !.kind = k, !.at = 1] \in P!Queries
                                            /\ [query EXCEPT !.kind = k] \in P!Queries
           /\ \A b \in BOOLEAN : [query EXCEPT !.text = b, !.at = 1] \in P!Queries
           /\ \A to \in {query.at - 1, query.at + 1} :
                 to >= 1 => [query EXCEPT !.at = to] \in P!Queries
<1> DEFINE K == Kinds \cup {"any"}
           Q(k, b, a) == /\ [query EXCEPT !.kind = k] \in P!Queries
                         /\ [query EXCEPT !.kind = k, !.at = a] \in P!Queries
                         /\ [query EXCEPT !.text = b, !.at = a] \in P!Queries
                         /\ [query EXCEPT !.at = a] \in P!Queries
<1>1. query \in [kind : K, text : BOOLEAN, at : Nat \ {0}]
  BY DEF QueryTyped, P!Queries
<1>2. \A k \in K, b \in BOOLEAN, a \in Nat \ {0} : Q(k, b, a)
  BY <1>1, QueryFields, Zenon DEF P!Queries
<1>3. 1 \in Nat \ {0} /\ TRUE \in BOOLEAN /\ "any" \in K
  OBVIOUS
<1>4. \A to \in {query.at - 1, query.at + 1} : to >= 1 => to \in Nat \ {0}
  <2>1. query.at \in Nat
    BY <1>1
  <2> QED BY <2>1
<1> QED BY <1>2, <1>3, <1>4, Zenon

LEMMA TurnsTyped ==
    ASSUME QueryTyped, NEW to, P!Turns(to)
    PROVE  Turning
<1>1. to \in {query.at - 1, query.at + 1} /\ to >= 1 /\ P!Asks([query EXCEPT !.at = to])
      /\ UNCHANGED typed
  BY DEF P!Turns
<1>2. [query EXCEPT !.at = to] \in P!Queries
  BY <1>1, QueriesFrom
<1> QED BY <1>1, <1>2 DEF Turning

LEMMA FiltersTyped ==
    ASSUME QueryTyped, NEW k \in Kinds \cup {"any"}, UNCHANGED typed,
           P!Asks([query EXCEPT !.kind = k, !.at = 1]) \/ P!Asks([query EXCEPT !.kind = k])
    PROVE  Turning
<1>1. /\ [query EXCEPT !.kind = k, !.at = 1] \in P!Queries
      /\ [query EXCEPT !.kind = k] \in P!Queries
  BY QueriesFrom
<1> QED BY <1>1 DEF Turning

LEMMA TableRows ==
    ASSUME ShownTyped
    PROVE  P!Shown \subseteq Rows
<1>1. list.rows \in UNION {[s -> Kinds] : s \in SUBSET Rows}
  BY DEF ShownTyped, P!Answers
<1> QED BY <1>1 DEF P!Shown

LEMMA FromRowTyped ==
    ASSUME ShownTyped, WorkTyped, NEW r \in Rows, NEW to \in RowStates, P!FromRow(r, to)
    PROVE  Sending
  BY DEF P!FromRow, Sending, ShownTyped, WorkTyped

LEMMA FromFormTyped ==
    ASSUME RowsTyped, ShownTyped, WorkTyped, NEW secrets \in SUBSET BOOLEAN, P!FromForm(secrets)
    PROVE  Sending
<1>1. PICK r \in IF form.row = P!New THEN P!Free ELSE {form.row} :
         \E to \in Kinds, secret \in secrets : P!Send(r, to, secret, TRUE)
  BY DEF P!FromForm
<1>2. r \in Rows
  BY <1>1 DEF P!Free, WorkTyped, ListForms
<1>3. form' \in ListForms /\ error' \in BOOLEAN
  BY DEF P!FromForm, WorkTyped, ListForms, ShownTyped
<1>4. Kinds \subseteq RowStates
  BY DEF RowStates
<1> QED BY <1>1, <1>2, <1>3, <1>4 DEF Sending

LEMMA PersonTyped ==
    ASSUME P!ListConstants, ListTyped,
           \/ P!Users \/ P!School \/ P!Catalog \/ P!Schools \/ P!Link \/ P!Audit
           \/ P!Feed \/ P!Tab
    PROVE  P!Act /\ (Turning \/ Opening \/ Sending)
<1>1. /\ RowsTyped /\ QueryTyped /\ ShownTyped /\ WorkTyped
      /\ P!Shown \subseteq Rows /\ P!Free \subseteq Rows
      /\ Kinds \subseteq RowStates /\ "none" \in RowStates
  BY TableRows DEF ListTyped, P!Free, RowStates
<1>2. \A r \in P!Shown \cup {P!New} : P!Opens(r) => Opening
  BY <1>1 DEF Opening
<1>3. \A r \in P!Shown, to \in RowStates : P!FromRow(r, to) => Sending
  BY <1>1, FromRowTyped
<1>4. \A s \in SUBSET BOOLEAN : P!FromForm(s) => Sending
  BY <1>1, FromFormTyped
<1>5. CASE P!Users
  <2>1. P!UsersForm \in SUBSET BOOLEAN
    BY DEF P!UsersForm
  <2>2. CASE P!UsersFilter \/ P!UsersTurn
    BY <1>1, <1>5, <2>2, FiltersTyped, TurnsTyped DEF P!Users, P!UsersFilter, P!UsersTurn
  <2>3. CASE P!UsersOpen \/ P!UsersSubmit \/ P!UsersRemove
    BY <1>1, <1>2, <1>3, <1>4, <1>5, <2>1, <2>3
       DEF P!Users, P!UsersOpen, P!UsersSubmit, P!UsersRemove, P!UsersTable
  <2> QED BY <1>5, <2>2, <2>3 DEF P!Users
<1>6. CASE P!School
  <2>1. P!SchoolForm \in SUBSET BOOLEAN
    BY DEF P!SchoolForm
  <2>2. CASE P!SchoolFilter \/ P!SchoolTurn
    BY <1>1, <1>6, <2>2, FiltersTyped, TurnsTyped DEF P!School, P!SchoolFilter, P!SchoolTurn
  <2>3. CASE P!SchoolOpen \/ P!SchoolSubmit \/ P!SchoolRemove
    BY <1>1, <1>2, <1>3, <1>4, <1>6, <2>1, <2>3
       DEF P!School, P!SchoolOpen, P!SchoolSubmit, P!SchoolRemove, P!SchoolTable
  <2> QED BY <1>6, <2>2, <2>3 DEF P!School
<1>7. CASE P!Catalog
  <2>1. {FALSE} \in SUBSET BOOLEAN
    OBVIOUS
  <2>2. CASE P!CatalogRename
    BY <1>2, <1>4, <1>7, <2>1, <2>2 DEF P!Catalog, P!CatalogRename, P!CatalogCategories
  <2>3. CASE P!CatalogCreate
    <3>1. \E r \in P!Free, k \in Kinds : P!Send(r, k, FALSE, FALSE)
      BY <2>3 DEF P!CatalogCreate
    <3>2. form' \in ListForms /\ error' \in BOOLEAN
      BY <1>1, <2>3 DEF P!CatalogCreate, WorkTyped, ShownTyped
    <3> QED BY <1>1, <1>7, <3>1, <3>2 DEF P!Catalog, Sending
  <2>4. CASE P!CatalogStatus \/ P!CatalogDelete
    BY <1>1, <1>3, <1>7, <2>4 DEF P!Catalog, P!CatalogStatus, P!CatalogDelete, P!CatalogCourses,
                                  P!CatalogCategories
  <2> QED BY <1>7, <2>2, <2>3, <2>4 DEF P!Catalog
<1>8. CASE P!Schools
  <2>1. P!SchoolsForm \in SUBSET BOOLEAN
    BY DEF P!SchoolsForm
  <2> QED BY <1>1, <1>2, <1>3, <1>4, <1>8, <2>1
             DEF P!Schools, P!SchoolsOpen, P!SchoolsSubmit, P!SchoolsRemove, P!SchoolsTable
<1>9. CASE P!Link
  BY <1>1, <1>3, <1>9 DEF P!Link, P!Toggle, P!LinkTable
<1>10. CASE P!Audit
  BY <1>1, <1>10, FiltersTyped, TurnsTyped DEF P!Audit, P!AuditFilter, P!AuditTurn
<1>11. CASE P!Feed
  BY <1>1, <1>11, FiltersTyped DEF P!Feed, P!FeedVisit
<1>12. CASE P!Tab
  BY <1>1, <1>12, FiltersTyped DEF P!Tab, P!TabFilter
<1> QED BY <1>5, <1>6, <1>7, <1>8, <1>9, <1>10, <1>11, <1>12

LEMMA ActTyped == P!ListConstants /\ ListTyped /\ P!Act => acts' \in 0 .. MaxActs
  BY DEF P!ListConstants, ListTyped, P!Act

LEMMA PersonKeepsTypes ==
    ASSUME P!ListConstants, ListTyped, P!Act, Turning \/ Opening \/ Sending, UNCHANGED posting
    PROVE  ListTyped'
<1>1. acts' \in 0 .. MaxActs
  BY ActTyped
<1>2. CASE Turning
  <2>1. PICK q \in P!Queries : P!Asks(q) /\ UNCHANGED typed
    BY <1>2 DEF Turning
  <2>2. QueryTyped'
    BY <2>1, EffectTyped DEF P!Asks, ListTyped
  <2>3. error' \in BOOLEAN
    BY <2>1 DEF P!Asks, P!ErrorWhenAsked, ListTyped, ShownTyped
  <2> QED BY <1>1, <2>1, <2>2, <2>3
             DEF P!Asks, ListTyped, RowsTyped, ShownTyped, WorkTyped, TypingTyped
<1>3. CASE Opening
  <2>1. PICK r \in Rows \cup {P!New} : P!Opens(r)
    BY <1>3 DEF Opening
  <2>2. form' \in ListForms
    BY <2>1 DEF P!Opens, ListForms
  <2> QED BY <1>1, <2>1, <2>2 DEF P!Opens, P!NoAsk, P!ghosts, ListTyped, RowsTyped, QueryTyped,
                                  ShownTyped, WorkTyped, TypingTyped
<1>4. CASE Sending
  <2>1. PICK r \in Rows, to \in RowStates, secret \in BOOLEAN, inForm \in BOOLEAN :
           P!Send(r, to, secret, inForm) /\ form' \in ListForms /\ error' \in BOOLEAN
    BY <1>4 DEF Sending
  <2>2. op' \in ListChanges
    BY <2>1 DEF P!Send, ListChanges, Changes, ListTyped, QueryTyped
  <2> QED BY <1>1, <2>1, <2>2 DEF P!Send, P!NoAsk, P!ghosts, ListTyped, RowsTyped, QueryTyped,
                                  ShownTyped, WorkTyped, TypingTyped
<1> QED BY <1>2, <1>3, <1>4

-----------------------------------------------------------------------------
\* A load is answered, lands or fails.
LEMMA EndedTyped ==
    ASSUME ListTyped, NEW i \in DOMAIN loads, P!Ended(i)
    PROVE  loads' \in Seq(ListLoads) /\ op' \in ListChanges /\ landed' \in BOOLEAN
<1>1. loads \in Seq(ListLoads)
  BY DEF ListTyped, QueryTyped
<1>2. loads' \in Seq(ListLoads)
  BY <1>1, ShorterIsListed DEF P!Ended
<1> QED BY <1>2 DEF P!Ended, ListTyped, WorkTyped, ListChanges

LEMMA LoadsKeepTypes ==
    ASSUME P!ListConstants, ListTyped, NEW i, P!Served(i) \/ P!Lands(i) \/ P!LoadFails(i),
           UNCHANGED posting
    PROVE  ListTyped'
<1>1. i \in DOMAIN loads /\ loads \in Seq(ListLoads)
  BY DEF P!Served, P!Lands, P!LoadFails, ListTyped, QueryTyped
<1>2. loads[i] \in ListLoads
  BY <1>1
<1>3. CASE P!Served(i)
  <2> DEFINE a == P!Answer(loads[i].query)
             fresh == [loads[i] EXCEPT !.served = TRUE, !.answer = a]
  <2>1. a \in P!Answers
    BY <1>2, AnswerTyped DEF ListLoads, LoadRecords, ListTyped
  <2> HIDE DEF a
  <2>2. fresh \in ListLoads
    BY <1>2, <2>1 DEF ListLoads, LoadRecords
  <2>3. loads' = [loads EXCEPT ![i] = fresh]
    BY <1>3 DEF P!Served, a
  <2> HIDE DEF fresh
  <2>4. loads' \in Seq(ListLoads)
    BY <1>1, <2>2, <2>3
  <2> QED BY <1>3, <2>4 DEF P!Served, P!ghosts, ListTyped, RowsTyped, QueryTyped, ShownTyped,
                            WorkTyped, TypingTyped
<1>4. CASE P!Lands(i)
  <2>1. loads' \in Seq(ListLoads) /\ op' \in ListChanges /\ landed' \in BOOLEAN
    BY <1>1, <1>4, EndedTyped DEF P!Lands
  <2>2. list' \in P!Answers /\ error' \in BOOLEAN /\ overtaken' \in BOOLEAN
    BY <1>2, <1>4 DEF P!Lands, ListLoads, LoadRecords, ListTyped, ShownTyped, QueryTyped
  <2> QED BY <1>4, <2>1, <2>2 DEF P!Lands, ListTyped, RowsTyped, QueryTyped, ShownTyped,
                                  WorkTyped, TypingTyped
<1>5. CASE P!LoadFails(i)
  <2>1. loads' \in Seq(ListLoads) /\ op' \in ListChanges /\ landed' \in BOOLEAN
    BY <1>1, <1>5, EndedTyped DEF P!LoadFails
  <2> QED BY <1>5, <2>1 DEF P!LoadFails, ListTyped, RowsTyped, QueryTyped, ShownTyped,
                            WorkTyped, TypingTyped
<1> QED BY <1>3, <1>4, <1>5

\* A change goes on: it stores, fails, or is complete and loads the list again.
LEMMA ChangeGoesOn ==
    ASSUME P!ListConstants, ListTyped, op \in Changes(Rows, RowStates, P!Queries),
           \/ P!Reload
           \/ P!GiveUp(TRUE)
           \/ P!GiveUp(FALSE)
           \/ op' = [op EXCEPT !.step = "password"] /\ UNCHANGED <<form, error>> /\ P!NoAsk
    PROVE  /\ op' \in ListChanges /\ form' \in ListForms /\ error' \in BOOLEAN
           /\ loads' \in Seq(ListLoads)
           /\ landed' \in BOOLEAN /\ overtaken' \in BOOLEAN /\ warned' \in BOOLEAN
<1>1. /\ op.inForm \in BOOLEAN /\ op.query \in P!Queries
      /\ [op EXCEPT !.step = "password"] \in ListChanges
      /\ [op EXCEPT !.step = "load"] \in ListChanges /\ P!Idle \in ListChanges
  BY DEF Changes, ListChanges
<1>2. /\ form \in ListForms /\ [form EXCEPT !.bad = TRUE] \in ListForms /\ P!Closed \in ListForms
      /\ error \in BOOLEAN /\ QueryTyped
  BY DEF ListTyped, WorkTyped, ListForms, P!Closed, ShownTyped
<1>3. CASE P!Reload
  <2>1. /\ loads' \in Seq(ListLoads)
        /\ landed' \in BOOLEAN /\ overtaken' \in BOOLEAN /\ warned' \in BOOLEAN
    BY <1>1, <1>2, <1>3, AskTyped DEF P!Reload
  <2> QED BY <1>1, <1>2, <1>3, <2>1 DEF P!Reload, P!FormEnds, P!InForm
<1>4. CASE P!GiveUp(TRUE) \/ P!GiveUp(FALSE)
  BY <1>1, <1>2, <1>4 DEF P!GiveUp, P!Told, P!InForm, QueryTyped
<1>5. CASE op' = [op EXCEPT !.step = "password"] /\ UNCHANGED <<form, error>> /\ P!NoAsk
  BY <1>1, <1>2, <1>5 DEF P!NoAsk, P!ghosts, QueryTyped
<1> QED BY <1>3, <1>4, <1>5

LEMMA ChangesKeepTypes ==
    ASSUME P!ListConstants, ListTyped, P!Stores \/ P!Refuses \/ P!SetsPassword,
           UNCHANGED posting
    PROVE  ListTyped'
<1>1. op \in Changes(Rows, RowStates, P!Queries)
  <2>1. op.step \in {"write", "password"}
    BY DEF P!Stores, P!Refuses, P!SetsPassword
  <2>2. op # P!Idle
    BY <2>1 DEF P!Idle
  <2> QED BY <2>2 DEF ListTyped, WorkTyped, ListChanges
<1>2. \/ P!Reload
      \/ P!GiveUp(TRUE)
      \/ P!GiveUp(FALSE)
      \/ op' = [op EXCEPT !.step = "password"] /\ UNCHANGED <<form, error>> /\ P!NoAsk
  BY DEF P!Stores, P!Refuses, P!SetsPassword
<1>3. /\ op' \in ListChanges /\ form' \in ListForms /\ error' \in BOOLEAN
      /\ loads' \in Seq(ListLoads)
      /\ landed' \in BOOLEAN /\ overtaken' \in BOOLEAN /\ warned' \in BOOLEAN
  BY <1>1, <1>2, ChangeGoesOn
<1>4. rows' \in [Rows -> RowStates]
  BY <1>1 DEF P!Stores, P!Refuses, P!SetsPassword, ListTyped, RowsTyped, Changes
<1>5. UNCHANGED <<page, query, typed, ready, list, acts>>
  BY DEF P!Stores, P!Refuses, P!SetsPassword
<1> QED BY <1>3, <1>4, <1>5 DEF ListTyped, RowsTyped, QueryTyped, ShownTyped, WorkTyped, TypingTyped

\* A publication begins, is stored or is not.
LEMMA PublishingKeepsTypes ==
    ASSUME P!ListConstants, ListTyped,
           P!FeedPublish \/ \E p \in posting : P!Published(p) \/ P!NotPublished(p)
    PROVE  ListTyped'
<1> USE DEF ListTyped, RowsTyped, QueryTyped, ShownTyped, WorkTyped, TypingTyped
<1>1. CASE P!FeedPublish
  <2>1. PICK r \in Rows : posting' = posting \cup {[row |-> r, query |-> query]}
    BY <1>1 DEF P!FeedPublish, P!Free
  <2>2. query \in {q \in P!Queries : q.kind \in Kinds}
    BY <1>1 DEF P!FeedPublish, P!Queries
  <2>3. posting' \subseteq Posts
    BY <2>1, <2>2 DEF Posts
  <2> QED BY <1>1, <2>3, ActTyped DEF P!FeedPublish
<1>2. ASSUME NEW p \in posting, P!Published(p) \/ P!NotPublished(p)
      PROVE  ListTyped'
  <2>1. p \in Posts /\ posting' \subseteq Posts
    BY <1>2 DEF P!Published, P!NotPublished
  <2>2. p.row \in Rows /\ p.query \in P!Queries /\ p.query.kind \in RowStates
    BY <2>1 DEF Posts, RowStates
  <2>3. CASE P!Published(p)
    <3>1. rows' \in [Rows -> RowStates]
      BY <2>2, <2>3 DEF P!Published
    <3>2. QueryTyped' /\ error' \in BOOLEAN
      BY <2>2, <2>3, AskTyped DEF P!Published, P!NoAsk, P!ghosts
    <3> QED BY <2>1, <2>3, <3>1, <3>2 DEF P!Published
  <2>4. CASE P!NotPublished(p)
    BY <2>1, <2>4 DEF P!NotPublished, P!NoAsk, P!ghosts
  <2> QED BY <1>2, <2>3, <2>4
<1> QED BY <1>1, <1>2

\* What leaves the publications in progress alone.
LEMMA QuietKeepsTypes ==
    ASSUME P!ListConstants, ListTyped, [P!ListNext]_pageVars, UNCHANGED posting
    PROVE  ListTyped'
<1> USE DEF RowsTyped, QueryTyped, ShownTyped, WorkTyped, TypingTyped
<1>1. CASE P!Types
  <2>1. typed' \in [text : BOOLEAN, timer : BOOLEAN]
    BY <1>1 DEF P!Types, ListTyped
  <2> QED BY <1>1, <2>1, ActTyped DEF P!Types, P!NoAsk, P!ghosts, ListTyped
<1>2. CASE P!TimerFires
  <2>1. [query EXCEPT !.text = typed.text, !.at = 1] \in P!Queries
    BY QueriesFrom DEF ListTyped
  <2>2. QueryTyped'
    BY <1>2, <2>1, EffectTyped DEF P!TimerFires, ListTyped
  <2>3. typed' \in [text : BOOLEAN, timer : BOOLEAN]
    BY <1>2 DEF P!TimerFires, ListTyped
  <2> QED BY <1>2, <2>2, <2>3 DEF P!TimerFires, ListTyped
<1>3. CASE P!Closes
  <2>1. form' \in ListForms
    BY <1>3 DEF P!Closes, P!Closed, ListForms
  <2> QED BY <1>3, <2>1, ActTyped DEF P!Closes, P!NoAsk, P!ghosts, ListTyped
<1>4. CASE P!SchoolKnown
  <2>1. QueryTyped'
    BY <1>4, AskTyped DEF P!SchoolKnown, ListTyped
  <2> QED BY <1>4, <2>1 DEF P!SchoolKnown, ListTyped
<1>5. CASE P!SchoolUnknown
  BY <1>5 DEF P!SchoolUnknown, P!ghosts, ListTyped
<1>6. CASE UNCHANGED pageVars
  BY <1>6 DEF pageVars, ListTyped
<1>7. CASE P!FeedPublish \/ \E p \in posting : P!Published(p) \/ P!NotPublished(p)
  BY <1>7, PublishingKeepsTypes
<1> QED BY <1>1, <1>2, <1>3, <1>4, <1>5, <1>6, <1>7, PersonTyped, PersonKeepsTypes, LoadsKeepTypes,
           ChangesKeepTypes DEF P!ListNext

LEMMA PagesKeepTypes ==
    ASSUME P!ListConstants, ListTyped, [P!ListNext]_pageVars
    PROVE  ListTyped'
<1>7. CASE P!FeedPublish \/ \E p \in posting : P!Published(p) \/ P!NotPublished(p)
  BY <1>7, PublishingKeepsTypes
<1>8. CASE UNCHANGED pageVars \/ UNCHANGED posting
  <2>1. UNCHANGED posting
    BY <1>8 DEF pageVars
  <2> QED BY <2>1, QuietKeepsTypes
<1> QED BY <1>7, <1>8 DEF P!ListNext

LEMMA ListsStartTyped == P!ListConstants /\ P!ListInit => ListTyped
<1> SUFFICES ASSUME P!ListConstants, P!ListInit
             PROVE  ListTyped
  OBVIOUS
<1>1. P!Request(P!FirstQuery, FALSE) \in ListLoads
  BY NoAnswerTyped DEF P!Request, ListLoads, LoadRecords
<1> DEFINE first == P!Request(P!FirstQuery, FALSE)
<1>2. loads \in Seq(ListLoads)
  <2>1. first \in ListLoads
    BY <1>1
  <2>2. loads = <<>> \/ loads = <<first>>
    BY DEF P!ListInit
  <2> HIDE DEF first
  <2>3. CASE loads = <<>>
    BY <2>3
  <2>4. CASE loads = <<first>>
    <3>1. <<first>> \in [1 .. 1 -> ListLoads]
      BY <2>1
    <3> QED BY <2>1, <2>4, <3>1
  <2> QED BY <2>2, <2>3, <2>4
<1>3. QueryTyped /\ ShownTyped
  BY <1>2, NoAnswerTyped DEF P!ListInit, QueryTyped, ShownTyped
<1>4. WorkTyped /\ TypingTyped
  BY DEF P!ListInit, WorkTyped, TypingTyped, ListForms, P!Closed, ListChanges
<1>5. RowsTyped /\ acts \in 0 .. MaxActs
  BY DEF P!ListInit, P!ListConstants, RowsTyped, RowStates
<1> QED BY <1>3, <1>4, <1>5 DEF ListTyped

\* A page asks for pages of a list from the first on, in filters it has, and changes rows
\* that exist, whatever answers overtake each other (UsuariosPageClient.tsx and the others).
LEMMA ListTypesHold == PlatformSafe => []P!ListTypeOK
<1>1. P!ListConstants
  BY PlatformConstants
<1>2. ListTyped => P!ListTypeOK
  <2> SUFFICES ASSUME ListTyped
               PROVE  P!ListTypeOK
    OBVIOUS
  <2>1. \A i \in DOMAIN loads : loads[i] \in LoadRecords(P!Queries, P!Answers)
    BY DEF ListTyped, QueryTyped, ListLoads
  <2>2. \A i \in DOMAIN loads : /\ loads[i].query \in P!Queries
                                /\ loads[i].mine \in BOOLEAN /\ loads[i].served \in BOOLEAN
                                /\ loads[i].answer \in P!Answers
    BY <2>1 DEF LoadRecords
  <2>3. op.step \in {"none", "write", "password", "load"}
    BY DEF ListTyped, WorkTyped, ListChanges, Changes, P!Idle
  <2>4. posting \subseteq [row : Rows, query : P!Queries]
    BY DEF ListTyped, TypingTyped, Posts
  <2> QED BY <2>2, <2>3, <2>4 DEF ListTyped, RowsTyped, QueryTyped, ShownTyped, WorkTyped, TypingTyped,
                            RowStates, ListForms, P!ListTypeOK
<1> QED BY <1>1, <1>2, ListsStartTyped, PagesKeepTypes, PagesApart, PTL

-----------------------------------------------------------------------------
(* The lesson player.  A mark the server lacks is in unsent or is being    *)
(* reported; a lesson the server has is among the browser's marks and on   *)
(* the rings of a loaded page, or in behind, or an answer that tells of it *)
(* is about to land.                                                       *)

FetchSteps == {"lesson", "progress", "sync", "playback", "ask", "land"}
FetchRecords == [kind : {"load", "report", "modules"}, step : FetchSteps,
                 lesson : Y!Lessons \cup {Y!Nowhere}, mount : Nat,
                 answer : SUBSET Y!Lessons, known : BOOLEAN, ready : BOOLEAN]
PlayerPages == [at : Y!Lessons \cup {Y!Nowhere, "course"}, mount : Nat, loaded : BOOLEAN,
                status : {"none", "processing", "ready", "failed"}, url : BOOLEAN,
                reported : BOOLEAN, ring : SUBSET Y!Lessons]

\* A request is on its way for a lesson, of a page that is not newer than the one
\* open; what it knows of the record was the record, and a report that was answered
\* was stored.
FetchKnows(c) ==
    /\ c \in FetchRecords
    /\ c.mount <= opened
    /\ (c.kind = "report") <=> (c.step \in {"ask", "land"})
    /\ c.kind = "modules" => c.step = "lesson"
    /\ c.kind # "modules" => c.lesson \in Y!Lessons
    /\ c.kind # "modules" /\ Y!Mounted(c) => player.at \in Y!Lessons
    /\ c.known => c.answer \subseteq done
    /\ c.step = "progress" => c.answer = {}
    /\ c.step = "land" => c.lesson \in done

PlayerKnows ==
    /\ done \subseteq Y!Lessons
    /\ media \in [Y!Lessons -> {"processing", "ready", "failed"}]
    /\ local \in [Y!ToSet(Modules) -> SUBSET Y!Lessons]
    /\ imported \in BOOLEAN
    /\ unsent \subseteq Y!Lessons /\ behind \subseteq Y!Lessons
    /\ opened \in Nat /\ player.mount = opened
    /\ player \in PlayerPages
    /\ player.loaded => player.at \in Y!Lessons
    /\ \A c \in fetches : FetchKnows(c)

\* Lessons whose report is on its way, and those whose report was stored.
Asked == {c.lesson : c \in {d \in fetches : d.step = "ask"}}
Landing == {c.lesson : c \in {d \in fetches : d.step = "land"}}

MarksAreSent ==
    /\ (Y!Marks \cup player.ring) \ done \subseteq unsent \cup Asked
    /\ player.reported => player.at \in done \cup unsent \cup Asked
RecordIsShown ==
    /\ done \ Y!Marks \subseteq behind \cup Landing
    /\ player.loaded => done \ player.ring \subseteq behind \cup Landing

PlayerInv == PlayerKnows /\ MarksAreSent /\ RecordIsShown

-----------------------------------------------------------------------------
LEMMA ModuleOfLesson ==
    ASSUME NEW l \in Y!Lessons
    PROVE  Y!ModuleOf(l) \in Y!ToSet(Modules) /\ l \in Y!ToSet(Playlist[Y!ModuleOf(l)])
BY DEF Y!ModuleOf, Y!Lessons

\* Marking a lesson in the browser adds it to the marks.
LEMMA MarkFacts ==
    ASSUME PlayerKnows, NEW l \in Y!Lessons, local' = Y!MarkedLocally(l)
    PROVE  /\ local' \in [Y!ToSet(Modules) -> SUBSET Y!Lessons]
           /\ Y!Marks' = Y!Marks \cup {l}
<1>1. Y!ModuleOf(l) \in Y!ToSet(Modules)
  BY ModuleOfLesson
<1>2. local \in [Y!ToSet(Modules) -> SUBSET Y!Lessons]
  BY DEF PlayerKnows
<1>3. local' = [local EXCEPT ![Y!ModuleOf(l)] = @ \cup {l}]
  BY DEF Y!MarkedLocally
<1> QED BY <1>1, <1>2, <1>3 DEF Y!Marks

\* The record of the server replaces the marks of every module.
LEMMA OverwrittenFacts ==
    ASSUME NEW W \in SUBSET Y!Lessons
    PROVE  /\ Y!Overwritten(W) \in [Y!ToSet(Modules) -> SUBSET Y!Lessons]
           /\ UNION {Y!Overwritten(W)[m] : m \in Y!ToSet(Modules)} = W
BY ModuleOfLesson DEF Y!Overwritten

\* The old marks are looked for under the ids of lessons, where there are none.
LEMMA NothingUnderLessons ==
    ASSUME Y!PlayerConstants, NEW l \in Y!Lessons
    PROVE  Y!MarksUnder(Y!KeysOfImport(l)) = {}
<1>1. Y!KeysOfImport(l) \subseteq Y!Lessons
  BY ModuleOfLesson DEF Y!KeysOfImport, Y!Lessons
<1> QED BY <1>1 DEF Y!MarksUnder, Y!PlayerConstants

LEMMA FirstInIsIn ==
    ASSUME NEW X, NEW s \in Seq(X), NEW W, NEW i \in DOMAIN s, s[i] \in W
    PROVE  Y!FirstIn(s, W) \in W /\ Y!FirstIn(s, W) \in Y!ToSet(s)
<1> DEFINE I == {k \in DOMAIN s : s[k] \in W}
<1>1. I \subseteq Nat /\ I # {} /\ DOMAIN s = 1 .. Len(s)
  OBVIOUS
<1>2. PICK x \in I : \A y \in I : <<y, x>> \notin OpToRel(<, Nat)
  <2> HIDE DEF I
  <2> QED BY <1>1, NatLessThanWellFounded, WFMin
<1>3. \A y \in I : x <= y
  <2>1. ASSUME NEW y \in I PROVE ~(y < x)
    <3> HIDE DEF I
    <3>1. x \in Nat /\ y \in Nat /\ <<y, x>> \notin OpToRel(<, Nat)
      BY <1>1, <1>2, Zenon
    <3> QED BY <3>1, Zenon DEF OpToRel
  <2>2. \A y \in I : y \in Nat
    BY <1>1
  <2> QED BY <2>1, <2>2
<1>4. Y!Min(I) \in I
  <2> HIDE DEF I
  <2> QED BY <1>3 DEF Y!Min
<1> QED BY <1>4 DEF Y!FirstIn, Y!ToSet

\* The course page goes on to a lesson of the course.
LEMMA PickedLesson ==
    ASSUME Y!PlayerConstants, Y!Lessons # {}
    PROVE  Y!Continue(Y!FirstIn(Modules, {m \in Y!ToSet(Modules) : Playlist[m] # <<>>}))
               \in Y!Lessons
<1> DEFINE filled == {m \in Y!ToSet(Modules) : Playlist[m] # <<>>}
           m0 == Y!FirstIn(Modules, filled)
           open == Y!ToSet(Playlist[m0]) \ local[m0]
<1> SUFFICES Y!Continue(m0) \in Y!Lessons
  OBVIOUS
<1>1. PICK l \in Y!Lessons : TRUE
  OBVIOUS
<1>2. PICK m \in Y!ToSet(Modules) : l \in Y!ToSet(Playlist[m])
  BY DEF Y!Lessons
<1>3. m \in filled
  BY <1>2 DEF Y!ToSet
<1>4. PICK i \in DOMAIN Modules : Modules[i] = m
  BY <1>2 DEF Y!ToSet
<1>5. m0 \in filled
  <2> HIDE DEF filled
  <2> QED BY <1>3, <1>4, FirstInIsIn DEF Y!PlayerConstants
<1>6. m0 \in Y!ToSet(Modules) /\ Playlist[m0] \in Seq(Y!Lessons) /\ Playlist[m0] # <<>>
  BY <1>5 DEF Y!PlayerConstants
<1> HIDE DEF m0
<1>7. CASE open # {}
  <2>1. PICK k \in DOMAIN Playlist[m0] : Playlist[m0][k] \in open
    BY <1>7 DEF Y!ToSet
  <2>2. Y!FirstIn(Playlist[m0], open) \in Y!ToSet(Playlist[m0])
    <3> HIDE DEF open
    <3> QED BY <1>6, <2>1, FirstInIsIn
  <2> QED BY <1>6, <1>7, <2>2 DEF Y!Continue, Y!Lessons
<1>8. CASE open = {}
  <2>1. Y!Continue(m0) = Playlist[m0][Len(Playlist[m0])]
    BY <1>8 DEF Y!Continue, Y!Last
  <2>2. Len(Playlist[m0]) \in DOMAIN Playlist[m0]
    BY <1>6
  <2> QED BY <1>6, <2>1, <2>2
<1> QED BY <1>7, <1>8

-----------------------------------------------------------------------------
\* What a request knows stays true when the page moves on: the record only grows, and
\* the page is the same, at a lesson, or a newer one.
LEMMA FetchStillKnows ==
    ASSUME PlayerKnows, NEW c, FetchKnows(c), done \subseteq done',
           \/ opened' = opened /\ player'.mount = player.mount
                /\ player'.at \in {player.at} \cup Y!Lessons
           \/ opened' = opened + 1 /\ player'.mount = opened + 1
    PROVE  FetchKnows(c)'
<1>1. /\ c \in FetchRecords /\ c.mount \in Nat /\ opened \in Nat /\ c.mount <= opened
      /\ player.mount = opened
  BY DEF FetchKnows, FetchRecords, PlayerKnows
<1>2. c.mount <= opened'
  BY <1>1
<1>3. c.kind # "modules" /\ c.mount = player'.mount => player'.at \in Y!Lessons
  BY <1>1 DEF FetchKnows, Y!Mounted
<1>4. (c.known => c.answer \subseteq done') /\ (c.step = "land" => c.lesson \in done')
  BY DEF FetchKnows
<1> QED BY <1>1, <1>2, <1>3, <1>4 DEF FetchKnows, Y!Mounted

\* A request that went a step further.
LEMMA FetchMovesOn ==
    ASSUME PlayerKnows, NEW c \in fetches, NEW d \in FetchRecords, FetchKnows(c)',
           d.kind = c.kind, d.lesson = c.lesson, d.mount = c.mount,
           (d.kind = "report") <=> (d.step \in {"ask", "land"}),
           d.kind = "modules" => d.step = "lesson",
           d.known => d.answer \subseteq done',
           d.step = "progress" => d.answer = {},
           d.step = "land" => d.lesson \in done'
    PROVE  FetchKnows(d)'
BY DEF FetchKnows, Y!Mounted

\* A request the page sends from a lesson.
LEMMA FetchFromLesson ==
    ASSUME PlayerKnows, player.at \in Y!Lessons, UNCHANGED <<done, opened>>,
           player'.mount = player.mount, player'.at = player.at,
           NEW k \in {"load", "report"}, NEW s \in {"lesson", "playback", "ask"},
           (k = "report") <=> (s = "ask")
    PROVE  \A f : f = Y!Fetch(k, s, player.at) => FetchKnows(f)'
<1> DEFINE f == Y!Fetch(k, s, player.at)
<1>1. f = [kind |-> k, step |-> s, lesson |-> player.at, mount |-> player.mount,
           answer |-> {}, known |-> FALSE, ready |-> FALSE]
  BY DEF Y!Fetch
<1>3. f \in FetchRecords
  BY <1>1 DEF FetchRecords, FetchSteps, PlayerKnows
<1>4. /\ f.kind = k /\ f.step = s /\ f.lesson = player.at /\ f.mount = player.mount
      /\ ~f.known /\ f.answer = {}
  BY <1>1
<1>5. f.mount = opened /\ opened' = opened /\ opened \in Nat
  BY <1>4 DEF PlayerKnows
<1> HIDE DEF f
<1>6. \A g : g = f => FetchKnows(g)'
  BY <1>3, <1>4, <1>5 DEF FetchKnows, Y!Mounted
<1> QED BY <1>6 DEF f

LEMMA PageFields ==
    ASSUME PlayerKnows
    PROVE  /\ player.at \in Y!Lessons \cup {Y!Nowhere, "course"} /\ player.mount \in Nat
           /\ player.ring \subseteq Y!Lessons
           /\ \A c \in fetches : /\ c.mount \in Nat /\ c.answer \subseteq Y!Lessons
                                 /\ c.kind # "modules" => c.lesson \in Y!Lessons
BY DEF PlayerKnows, PlayerPages, FetchKnows, FetchRecords

LEMMA MarksAreLessons ==
    ASSUME PlayerKnows
    PROVE  Y!Marks \subseteq Y!Lessons
BY DEF PlayerKnows, Y!Marks

\* A new page has nothing of the old one.
LEMMA MountFacts ==
    ASSUME PlayerKnows, NEW at, Y!Mount(at)
    PROVE  /\ opened' = opened + 1
           /\ player' = [Y!NoPage EXCEPT !.at = at, !.mount = opened + 1]
           /\ player'.at = at /\ player'.mount = opened + 1 /\ ~player'.loaded
           /\ ~player'.reported /\ player'.ring = {}
           /\ at \in Y!Lessons \cup {"course"} => player' \in PlayerPages
<1>1. /\ opened \in Nat /\ opened' = opened + 1
      /\ player' = [Y!NoPage EXCEPT !.at = at, !.mount = opened + 1]
  BY DEF Y!Mount, PlayerKnows
<1>2. player' = [at |-> at, mount |-> opened + 1, loaded |-> FALSE, status |-> "none",
                 url |-> FALSE, reported |-> FALSE, ring |-> {}]
  BY <1>1 DEF Y!NoPage
<1>3. opened + 1 \in Nat
  BY <1>1
<1>4. at \in Y!Lessons \cup {"course"} => player' \in PlayerPages
  BY <1>2, <1>3 DEF PlayerPages
<1>5. /\ player'.at = at /\ player'.mount = opened + 1 /\ ~player'.loaded
      /\ ~player'.reported /\ player'.ring = {}
  BY <1>2
<1> QED BY <1>1, <1>4, <1>5

\* The first request of a page is that of its number.
LEMMA FirstFetchRecord ==
    ASSUME NEW k, NEW l, NEW m, NEW n, NEW g, NEW f,
           g = [kind |-> k, step |-> "lesson", lesson |-> l, mount |-> m,
                answer |-> {}, known |-> FALSE, ready |-> FALSE],
           f = [g EXCEPT !.mount = n]
    PROVE  f = [kind |-> k, step |-> "lesson", lesson |-> l, mount |-> n,
                answer |-> {}, known |-> FALSE, ready |-> FALSE]
OBVIOUS

LEMMA FirstFetch ==
    ASSUME NEW k, NEW l, NEW n
    PROVE  [Y!Fetch(k, "lesson", l) EXCEPT !.mount = n]
             = [kind |-> k, step |-> "lesson", lesson |-> l, mount |-> n,
                answer |-> {}, known |-> FALSE, ready |-> FALSE]
<1> DEFINE m == player.mount
           g == Y!Fetch(k, "lesson", l)
           f == [g EXCEPT !.mount = n]
<1>1. g = [kind |-> k, step |-> "lesson", lesson |-> l, mount |-> m,
           answer |-> {}, known |-> FALSE, ready |-> FALSE]
  BY DEF Y!Fetch
<1>2. f = [g EXCEPT !.mount = n]
  OBVIOUS
<1>3. f = [kind |-> k, step |-> "lesson", lesson |-> l, mount |-> n,
           answer |-> {}, known |-> FALSE, ready |-> FALSE]
  <2> HIDE DEF m, g, f
  <2> QED BY <1>1, <1>2, FirstFetchRecord
<1> QED BY <1>3

LEMMA OpensKnow ==
    ASSUME PlayerKnows, Y!OpenLesson \/ Y!OpenCourse
    PROVE  /\ PlayerKnows' /\ UNCHANGED <<done, local, unsent, behind>>
           /\ ~player'.loaded /\ ~player'.reported /\ player'.ring = {}
           /\ fetches \subseteq fetches'
<1>1. PICK at \in Y!Lessons \cup {"course"}, k \in {"load", "modules"},
           l \in Y!Lessons \cup {Y!Nowhere} :
        /\ Y!Mount(at)
        /\ fetches' = fetches \cup {[Y!Fetch(k, "lesson", l) EXCEPT !.mount = opened + 1]}
        /\ k = "load" => at = l /\ l \in Y!Lessons
  <2>1. CASE Y!OpenLesson
    BY <2>1 DEF Y!OpenLesson
  <2>2. CASE Y!OpenCourse
    BY <2>2 DEF Y!OpenCourse
  <2> QED BY <2>1, <2>2
<1>2. UNCHANGED <<done, media, local, imported, unsent, behind>>
  BY DEF Y!OpenLesson, Y!OpenCourse
<1> DEFINE f == [Y!Fetch(k, "lesson", l) EXCEPT !.mount = opened + 1]
<1>3. f = [kind |-> k, step |-> "lesson", lesson |-> l, mount |-> opened + 1,
           answer |-> {}, known |-> FALSE, ready |-> FALSE]
  BY FirstFetch
<1>n. opened + 1 \in Nat /\ opened \in Nat
  BY DEF PlayerKnows
<1>4. f \in FetchRecords /\ f.kind = k /\ f.step = "lesson" /\ f.lesson = l
      /\ f.mount = opened + 1 /\ ~f.known /\ opened \in Nat
  BY <1>3, <1>n DEF FetchRecords, FetchSteps
<1> HIDE DEF f
<1>5. opened' = opened + 1 /\ player'.at = at /\ player'.mount = opened + 1
      /\ player' \in PlayerPages /\ ~player'.loaded
  BY <1>1, MountFacts
<1>6. \A g : g = f => FetchKnows(g)'
  BY <1>1, <1>4, <1>5 DEF FetchKnows, Y!Mounted
<1>7. \A c \in fetches : FetchKnows(c)'
  BY <1>2, <1>5, FetchStillKnows DEF PlayerKnows
<1>8. \A c \in fetches' : FetchKnows(c)'
  BY <1>1, <1>6, <1>7 DEF f
<1>9. PlayerKnows'
  BY <1>2, <1>4, <1>5, <1>8 DEF PlayerKnows
<1> QED BY <1>1, <1>2, <1>9, MountFacts

-----------------------------------------------------------------------------
\* A step of the page that is open, or of one of its requests.
PageStays ==
    /\ opened' = opened /\ player'.mount = player.mount
    /\ player'.at \in {player.at} \cup Y!Lessons
    /\ player' \in PlayerPages /\ (player'.loaded => player'.at \in Y!Lessons)
RecordStays ==
    /\ done \subseteq done' /\ done' \subseteq Y!Lessons
    /\ media' \in [Y!Lessons -> {"processing", "ready", "failed"}]
    /\ local' \in [Y!ToSet(Modules) -> SUBSET Y!Lessons]
    /\ imported' \in BOOLEAN
    /\ unsent' \subseteq Y!Lessons /\ behind' \subseteq Y!Lessons

LEMMA StillKnows ==
    ASSUME PlayerKnows, PageStays, RecordStays, \A f \in fetches' : f \in fetches \/ FetchKnows(f)'
    PROVE  PlayerKnows'
<1>1. \A f \in fetches : FetchKnows(f)'
  BY FetchStillKnows DEF PlayerKnows, PageStays, RecordStays
<1>2. opened' \in Nat /\ player'.mount = opened'
  BY DEF PlayerKnows, PageStays
<1> QED BY <1>1, <1>2 DEF PlayerKnows, PageStays, RecordStays

LEMMA MovedKnows ==
    ASSUME PlayerKnows, PageStays, RecordStays, NEW c \in fetches, NEW d \in FetchRecords,
           Y!Moved(c, d), d.kind = c.kind, d.lesson = c.lesson, d.mount = c.mount,
           (d.kind = "report") <=> (d.step \in {"ask", "land"}),
           d.kind = "modules" => d.step = "lesson",
           d.known => d.answer \subseteq done',
           d.step = "progress" => d.answer = {},
           d.step = "land" => d.lesson \in done'
    PROVE  PlayerKnows'
<1>1. FetchKnows(c)'
  BY FetchStillKnows DEF PlayerKnows, PageStays, RecordStays
<1>2. FetchKnows(d)'
  BY <1>1, FetchMovesOn
<1> QED BY <1>2, StillKnows DEF Y!Moved

LEMMA EndedKnows ==
    ASSUME PlayerKnows, PageStays, RecordStays, NEW c \in fetches, Y!Ends(c)
    PROVE  PlayerKnows'
BY StillKnows DEF Y!Ends

LEMMA SameRecord ==
    ASSUME PlayerKnows, UNCHANGED <<done, media, local, imported, unsent, behind>>
    PROVE  RecordStays
BY DEF PlayerKnows, RecordStays

LEMMA SamePage ==
    ASSUME PlayerKnows, UNCHANGED <<player, opened>>
    PROVE  PageStays
BY DEF PlayerKnows, PageStays

\* What a request is, and what it is a step further.
LEMMA FetchFields ==
    ASSUME PlayerKnows, NEW c \in fetches
    PROVE  /\ c \in FetchRecords /\ FetchKnows(c) /\ c.answer \subseteq Y!Lessons
           /\ c.step \in FetchSteps /\ c.mount \in Nat /\ c.step # "import"
           /\ c.kind # "modules" => c.lesson \in Y!Lessons
BY DEF PlayerKnows, FetchKnows, FetchRecords, FetchSteps

LEMMA Stepped ==
    ASSUME NEW c \in FetchRecords, NEW s \in FetchSteps,
           NEW d, d = [c EXCEPT !.step = s]
    PROVE  /\ d \in FetchRecords /\ d.kind = c.kind /\ d.lesson = c.lesson
           /\ d.mount = c.mount /\ d.step = s /\ d.answer = c.answer /\ d.known = c.known
BY DEF FetchRecords

LEMMA SteppedWith ==
    ASSUME NEW c \in FetchRecords, NEW s \in FetchSteps, NEW a \in SUBSET Y!Lessons,
           NEW d, d = [c EXCEPT !.step = s, !.answer = a]
    PROVE  /\ d \in FetchRecords /\ d.kind = c.kind /\ d.lesson = c.lesson
           /\ d.mount = c.mount /\ d.step = s /\ d.answer = a /\ d.known = c.known
BY DEF FetchRecords

-----------------------------------------------------------------------------
(* Loading, step by step.                                                  *)

LEMMA PickKnows ==
    ASSUME PlayerKnows, Y!PlayerConstants, NEW c \in fetches, Y!PickLesson(c)
    PROVE  /\ PlayerKnows' /\ ~player'.loaded /\ ~player'.reported /\ player'.ring = {}
           /\ c.step = "lesson" /\ fetches \ {c} \subseteq fetches'
<1> DEFINE l == Y!Continue(Y!FirstIn(Modules, {m \in Y!ToSet(Modules) : Playlist[m] # <<>>}))
           f == Y!Fetch("load", "lesson", l)
<1>1. /\ c.kind = "modules" /\ Y!Lessons # {} /\ Y!Moved(c, f)
      /\ player' = [Y!NoPage EXCEPT !.at = l, !.mount = player.mount]
      /\ UNCHANGED <<done, media, local, imported, opened, losses, unsent, behind>>
  BY DEF Y!PickLesson
<1>2. l \in Y!Lessons
  BY <1>1, PickedLesson
<1> HIDE DEF l
<1>3. player' = [at |-> l, mount |-> player.mount, loaded |-> FALSE, status |-> "none",
                 url |-> FALSE, reported |-> FALSE, ring |-> {}]
  BY <1>1 DEF Y!NoPage
<1>4. player.mount \in Nat /\ opened = player.mount
  BY DEF PlayerKnows
<1>5. player' \in PlayerPages
  BY <1>2, <1>3, <1>4 DEF PlayerPages
<1>6. /\ player'.at = l /\ player'.mount = player.mount /\ ~player'.loaded
      /\ ~player'.reported /\ player'.ring = {}
  BY <1>3
<1>7. PageStays
  BY <1>1, <1>2, <1>5, <1>6 DEF PageStays
<1>8. RecordStays
  BY <1>1, SameRecord
<1>9. f = [kind |-> "load", step |-> "lesson", lesson |-> l, mount |-> player.mount,
           answer |-> {}, known |-> FALSE, ready |-> FALSE]
  BY DEF Y!Fetch
<1>10. /\ f \in FetchRecords /\ f.kind = "load" /\ f.step = "lesson" /\ f.lesson = l
       /\ f.mount = opened /\ ~f.known
  <2>1. \A n : n = player.mount => f = [kind |-> "load", step |-> "lesson", lesson |-> l,
                 mount |-> n, answer |-> {}, known |-> FALSE, ready |-> FALSE]
    BY <1>9
  <2>2. PICK n \in Nat : n = player.mount
    BY <1>4
  <2>3. f = [kind |-> "load", step |-> "lesson", lesson |-> l, mount |-> n,
             answer |-> {}, known |-> FALSE, ready |-> FALSE]
    BY <2>1, <2>2
  <2> HIDE DEF f
  <2>4. f \in FetchRecords
    BY <1>2, <2>3 DEF FetchRecords, FetchSteps
  <2> QED BY <1>4, <2>2, <2>3, <2>4
<1>11. c.step = "lesson"
  BY <1>1, FetchFields DEF FetchKnows
<1>m. fetches' = (fetches \ {c}) \cup {f}
  BY <1>1 DEF Y!Moved
<1> HIDE DEF f
<1>12. \A g : g = f => FetchKnows(g)'
  BY <1>1, <1>2, <1>4, <1>6, <1>10 DEF FetchKnows, Y!Mounted
<1>13. \A g \in fetches' : g \in fetches \/ FetchKnows(g)'
  BY <1>12, <1>m
<1> QED BY <1>6, <1>7, <1>8, <1>11, <1>13, <1>m, StillKnows

LEMMA LoadLessonKnows ==
    ASSUME PlayerKnows, Y!PlayerConstants, NEW c \in fetches, Y!LoadLesson(c)
    PROVE  /\ PlayerKnows' /\ c.step = "lesson" /\ fetches \ {c} \subseteq fetches'
           /\ player'.ring \in {player.ring, Y!Marks} /\ player'.at = player.at
           /\ player'.reported = player.reported
           /\ player'.ring = player.ring => player'.loaded = player.loaded \/ player'.ring = Y!Marks
<1>1. /\ c.kind = "load" /\ c.step = "lesson" /\ c.lesson \in Y!Lessons
      /\ c \in FetchRecords /\ FetchKnows(c)
  BY FetchFields DEF Y!LoadLesson
<1>2. Y!MarksUnder(Y!KeysOfImport(c.lesson)) = {}
  BY <1>1, NothingUnderLessons
<1> DEFINE plays == media[c.lesson] = "ready"
           d == [c EXCEPT !.step = "progress", !.answer = {}, !.ready = plays]
<1>3. Y!Moved(c, d) /\ imported' = TRUE
  BY <1>2, Zenon DEF Y!LoadLesson
<1>4. UNCHANGED <<done, media, local, opened, losses, unsent, behind>>
  BY DEF Y!LoadLesson
<1>5. player' = IF Y!Mounted(c)
                THEN [player EXCEPT !.loaded = TRUE, !.status = media[c.lesson], !.ring = Y!Marks]
                ELSE player
  BY DEF Y!LoadLesson
<1>6. /\ player \in PlayerPages /\ media[c.lesson] \in {"processing", "ready", "failed"}
      /\ Y!Marks \subseteq Y!Lessons
      /\ Y!Mounted(c) => player.at \in Y!Lessons
  BY <1>1, MarksAreLessons DEF PlayerKnows, FetchKnows
<1>7. /\ player' \in PlayerPages /\ player'.at = player.at /\ player'.mount = player.mount
      /\ player'.reported = player.reported
      /\ (player'.loaded = player.loaded /\ player'.ring = player.ring) \/ player'.ring = Y!Marks
      /\ player'.loaded => player.loaded \/ Y!Mounted(c)
  <2>1. CASE Y!Mounted(c)
    BY <1>5, <1>6, <2>1 DEF PlayerPages
  <2>2. CASE ~Y!Mounted(c)
    BY <1>5, <1>6, <2>2
  <2> QED BY <2>1, <2>2
<1>8. PageStays
  BY <1>4, <1>6, <1>7 DEF PageStays, PlayerKnows
<1>9. RecordStays
  BY <1>3, <1>4 DEF RecordStays, PlayerKnows
<1>10. /\ d \in FetchRecords /\ d.kind = c.kind /\ d.lesson = c.lesson /\ d.mount = c.mount
       /\ d.step = "progress" /\ d.answer = {}
  <2>1. c \in FetchRecords /\ {} \in SUBSET Y!Lessons /\ "progress" \in FetchSteps
    BY <1>1 DEF FetchSteps
  <2>2. plays \in BOOLEAN
    OBVIOUS
  <2> HIDE DEF d, plays
  <2>3. d = [c EXCEPT !.step = "progress", !.answer = {}, !.ready = plays]
    BY DEF d
  <2> QED BY <2>1, <2>2, <2>3 DEF FetchRecords
<1> HIDE DEF d
<1>11. PlayerKnows'
  BY <1>1, <1>3, <1>8, <1>9, <1>10, MovedKnows
<1> QED BY <1>1, <1>3, <1>7, <1>11 DEF Y!Moved

LEMMA ProgressKnows ==
    ASSUME PlayerKnows, NEW c \in fetches, Y!Progress(c)
    PROVE  /\ PlayerKnows' /\ c.step = "progress" /\ fetches \ {c} \subseteq fetches'
           /\ UNCHANGED <<done, local, player, unsent, behind>>
<1>1. /\ c.step = "progress" /\ c.answer = {} /\ c.kind # "report" /\ c.kind # "modules"
      /\ c \in FetchRecords
  BY FetchFields DEF Y!Progress, FetchKnows
<1>2. UNCHANGED <<done, media, local, imported, player, opened, losses, unsent, behind>>
  BY <1>1 DEF Y!Progress
<1> DEFINE d == [c EXCEPT !.step = "sync", !.answer = done, !.known = TRUE]
<1>3. Y!Moved(c, d)
  BY <1>1 DEF Y!Progress
<1>4. /\ d \in FetchRecords /\ d.kind = c.kind /\ d.lesson = c.lesson /\ d.mount = c.mount
      /\ d.step = "sync" /\ d.answer = done
  <2>1. done \in SUBSET Y!Lessons /\ "sync" \in FetchSteps
    BY DEF FetchSteps, PlayerKnows
  <2> HIDE DEF d
  <2>2. d = [c EXCEPT !.step = "sync", !.answer = done, !.known = TRUE]
    BY DEF d
  <2> QED BY <1>1, <2>1, <2>2 DEF FetchRecords
<1> HIDE DEF d
<1>5. PlayerKnows'
  BY <1>1, <1>2, <1>3, <1>4, MovedKnows, SamePage, SameRecord
<1> QED BY <1>1, <1>2, <1>3, <1>5 DEF Y!Moved

LEMMA SyncKnows ==
    ASSUME PlayerKnows, NEW c \in fetches, Y!Sync(c)
    PROVE  /\ PlayerKnows' /\ c.step = "sync" /\ fetches \ {c} \subseteq fetches'
           /\ UNCHANGED <<done, unsent>>
           /\ player'.at = player.at /\ player'.reported = player.reported
           /\ player'.loaded = player.loaded
           /\ \/ c.known /\ c.answer \subseteq done /\ Y!Marks' = c.answer
                   /\ (player'.ring = c.answer \/ player'.ring = player.ring)
                   /\ done \ c.answer \subseteq behind'
                   /\ (player'.ring = player.ring => behind \subseteq behind' \/ player'.ring = c.answer)
              \/ UNCHANGED <<local, behind>> /\ player'.ring \in {player.ring, Y!Marks}
<1>1. /\ c.step = "sync" /\ c.kind # "report" /\ c.kind # "modules" /\ c \in FetchRecords
      /\ c.answer \in SUBSET Y!Lessons /\ (c.known => c.answer \subseteq done)
      /\ c.known \in BOOLEAN /\ c.ready \in BOOLEAN
  BY FetchFields DEF Y!Sync, FetchKnows, FetchRecords, FetchSteps
<1>2. UNCHANGED <<done, media, opened, losses, unsent>>
  BY DEF Y!Sync
<1>3. /\ local' = IF c.known THEN Y!Overwritten(c.answer) ELSE local
      /\ imported' \in BOOLEAN
      /\ behind' = IF ~c.known THEN behind
                   ELSE IF Y!Mounted(c) THEN done \ c.answer ELSE behind \cup (done \ c.answer)
  BY DEF Y!Sync, PlayerKnows
<1>4. player' = IF ~Y!Mounted(c) THEN player
                ELSE [player EXCEPT !.ring = IF c.known THEN c.answer ELSE Y!Marks,
                                    !.url = @ /\ c.ready]
  BY DEF Y!Sync
<1>5. player \in PlayerPages /\ Y!Marks \subseteq Y!Lessons
  BY MarksAreLessons DEF PlayerKnows
<1> DEFINE rings == IF c.known THEN c.answer ELSE Y!Marks
           url == player.url /\ c.ready
<1>6. /\ player' \in PlayerPages /\ player'.at = player.at /\ player'.mount = player.mount
      /\ player'.reported = player.reported /\ player'.loaded = player.loaded
      /\ player'.ring = IF Y!Mounted(c) THEN rings ELSE player.ring
  <2>1. rings \in SUBSET Y!Lessons /\ url \in BOOLEAN
    BY <1>1, <1>5
  <2>2. CASE Y!Mounted(c)
    <3>1. player' = [player EXCEPT !.ring = rings, !.url = url]
      BY <1>4, <1>5, <2>2 DEF PlayerPages
    <3> HIDE DEF rings, url
    <3> QED BY <1>5, <2>1, <2>2, <3>1 DEF PlayerPages
  <2>3. CASE ~Y!Mounted(c)
    BY <1>4, <1>5, <2>3
  <2> QED BY <2>2, <2>3
<1>7. local' \in [Y!ToSet(Modules) -> SUBSET Y!Lessons] /\ (c.known => Y!Marks' = c.answer)
  <2>1. CASE c.known
    BY <1>1, <1>3, <2>1, OverwrittenFacts DEF Y!Marks
  <2>2. CASE ~c.known
    BY <1>3, <2>2 DEF PlayerKnows
  <2> QED BY <2>1, <2>2
<1>8. PageStays
  BY <1>2, <1>6 DEF PageStays, PlayerKnows
<1>9. RecordStays
  BY <1>1, <1>2, <1>3, <1>7 DEF RecordStays, PlayerKnows
<1>10. PlayerKnows' /\ fetches \ {c} \subseteq fetches'
  <2>1. CASE Y!Mounted(c) /\ c.ready
    <3> DEFINE d == [c EXCEPT !.step = "playback", !.answer = {}, !.known = FALSE]
    <3>1. Y!Moved(c, d)
      BY <2>1 DEF Y!Sync
    <3>2. /\ d \in FetchRecords /\ d.kind = c.kind /\ d.lesson = c.lesson
          /\ d.mount = c.mount /\ d.step = "playback" /\ ~d.known
      <4>1. {} \in SUBSET Y!Lessons /\ "playback" \in FetchSteps
        BY DEF FetchSteps
      <4> HIDE DEF d
      <4>2. d = [c EXCEPT !.step = "playback", !.answer = {}, !.known = FALSE]
        BY DEF d
      <4> QED BY <1>1, <4>1, <4>2 DEF FetchRecords
    <3> HIDE DEF d
    <3> QED BY <1>1, <1>8, <1>9, <3>1, <3>2, MovedKnows DEF Y!Moved
  <2>2. CASE ~(Y!Mounted(c) /\ c.ready)
    <3>1. Y!Ends(c)
      BY <2>2 DEF Y!Sync
    <3> QED BY <1>8, <1>9, <3>1, EndedKnows DEF Y!Ends
  <2> QED BY <2>1, <2>2
<1>11. \/ c.known /\ c.answer \subseteq done /\ Y!Marks' = c.answer
            /\ (player'.ring = c.answer \/ player'.ring = player.ring)
            /\ done \ c.answer \subseteq behind'
            /\ (player'.ring = player.ring => behind \subseteq behind' \/ player'.ring = c.answer)
       \/ UNCHANGED <<local, behind>> /\ player'.ring \in {player.ring, Y!Marks}
  <2>1. CASE c.known
    BY <1>1, <1>3, <1>6, <1>7, <2>1
  <2>2. CASE ~c.known
    BY <1>3, <1>6, <2>2
  <2> QED BY <2>1, <2>2
<1> QED BY <1>1, <1>2, <1>6, <1>10, <1>11

LEMMA PlaybackKnows ==
    ASSUME PlayerKnows, NEW c \in fetches, Y!Playback(c)
    PROVE  /\ PlayerKnows' /\ c.step = "playback" /\ fetches \ {c} \subseteq fetches'
           /\ UNCHANGED <<done, local, unsent, behind>>
           /\ player'.at = player.at /\ player'.reported = player.reported
           /\ player'.loaded = player.loaded /\ player'.ring = player.ring
<1>1. /\ c.step = "playback" /\ Y!Ends(c)
      /\ player' = IF Y!Mounted(c) THEN [player EXCEPT !.url = TRUE] ELSE player
      /\ UNCHANGED <<done, media, local, imported, opened, losses, unsent, behind>>
  BY DEF Y!Playback
<1>2. player \in PlayerPages
  BY DEF PlayerKnows
<1>3. /\ player' \in PlayerPages /\ player'.at = player.at /\ player'.mount = player.mount
      /\ player'.reported = player.reported /\ player'.loaded = player.loaded
      /\ player'.ring = player.ring
  <2>1. CASE Y!Mounted(c)
    BY <1>1, <1>2, <2>1 DEF PlayerPages
  <2>2. CASE ~Y!Mounted(c)
    BY <1>1, <1>2, <2>2
  <2> QED BY <2>1, <2>2
<1>4. PageStays
  BY <1>1, <1>3 DEF PageStays, PlayerKnows
<1> QED BY <1>1, <1>3, <1>4, EndedKnows, SameRecord DEF Y!Ends

LEMMA LoadFailsKnows ==
    ASSUME PlayerKnows, NEW c \in fetches, Y!LoadFails(c)
    PROVE  /\ PlayerKnows' /\ c.step \notin {"ask", "land"} /\ fetches \ {c} \subseteq fetches'
           /\ UNCHANGED <<done, local, player, unsent, behind>>
<1>1. /\ c.kind # "report" /\ c.step \notin {"ask", "land"} /\ c.step # "import"
      /\ c \in FetchRecords /\ FetchKnows(c)
  BY FetchFields DEF Y!LoadFails, FetchKnows
<1>2. UNCHANGED <<done, media, local, imported, player, opened, unsent, behind>>
  BY DEF Y!LoadFails
<1>3. PageStays /\ RecordStays
  BY <1>2, SamePage, SameRecord
<1>4. CASE c.step = "progress"
  <2> DEFINE d == [c EXCEPT !.step = "sync"]
  <2>1. Y!Moved(c, d)
    BY <1>4 DEF Y!LoadFails
  <2>2. c.answer \in SUBSET Y!Lessons /\ c.known \in BOOLEAN /\ c.answer = {}
    BY <1>1, <1>4 DEF FetchRecords, FetchKnows
  <2>3. /\ d \in FetchRecords /\ d.kind = c.kind /\ d.lesson = c.lesson
        /\ d.mount = c.mount /\ d.step = "sync" /\ d.answer = {}
    <3>1. "sync" \in FetchSteps
      BY DEF FetchSteps
    <3> HIDE DEF d
    <3>2. d = [c EXCEPT !.step = "sync"]
      BY DEF d
    <3> QED BY <1>1, <2>2, <3>1, <3>2, Stepped
  <2> HIDE DEF d
  <2>4. c.kind # "modules"
    BY <1>1, <1>4 DEF FetchKnows
  <2> QED BY <1>1, <1>2, <1>3, <2>1, <2>3, <2>4, MovedKnows DEF Y!Moved
<1>5. CASE c.step # "progress"
  <2>1. Y!Ends(c)
    BY <1>1, <1>5 DEF Y!LoadFails
  <2> QED BY <1>1, <1>2, <1>3, <2>1, EndedKnows DEF Y!Ends
<1> QED BY <1>4, <1>5

LEMMA RequestsKnow ==
    ASSUME PlayerKnows, Y!Poll \/ Y!RefreshPlayback
    PROVE  /\ PlayerKnows' /\ fetches \subseteq fetches'
           /\ UNCHANGED <<done, local, player, unsent, behind>>
<1>1. /\ player.loaded
      /\ UNCHANGED <<done, media, local, imported, player, opened, losses, unsent, behind>>
  BY DEF Y!Poll, Y!RefreshPlayback
<1>2. PICK s \in {"lesson", "playback"} :
        fetches' = fetches \cup {Y!Fetch("load", s, player.at)}
  BY DEF Y!Poll, Y!RefreshPlayback
<1>3. player.at \in Y!Lessons
  BY <1>1 DEF PlayerKnows
<1>4. \A f : f = Y!Fetch("load", s, player.at) => FetchKnows(f)'
  BY <1>1, <1>3, FetchFromLesson
<1> QED BY <1>1, <1>2, <1>4, StillKnows, SamePage, SameRecord

-----------------------------------------------------------------------------
(* Watching.                                                               *)

\* Reading the rings again, or marking the lesson on them, is of the same page.
LEMMA RungPage ==
    ASSUME PlayerKnows, NEW R \in SUBSET Y!Lessons, player' = [player EXCEPT !.ring = R]
    PROVE  /\ player' \in PlayerPages /\ player'.at = player.at /\ player'.mount = player.mount
           /\ player'.reported = player.reported /\ player'.loaded = player.loaded
           /\ player'.ring = R
BY DEF PlayerKnows, PlayerPages

LEMMA ReportedPage ==
    ASSUME PlayerKnows, NEW R \in SUBSET Y!Lessons,
           player' = [player EXCEPT !.reported = TRUE, !.ring = R]
    PROVE  /\ player' \in PlayerPages /\ player'.at = player.at /\ player'.mount = player.mount
           /\ player'.reported /\ player'.loaded = player.loaded
           /\ player'.ring = R
BY DEF PlayerKnows, PlayerPages

\* What watching does: the lesson is marked on the page and in the browser, and was
\* reported before or is reported now; or it is only reported.
WatchesKnow ==
    /\ PlayerKnows' /\ UNCHANGED <<done, unsent, behind>> /\ fetches \subseteq fetches'
    /\ player'.at = player.at /\ player'.loaded = player.loaded
    /\ player'.reported
    /\ player.reported \/ player.at \in Asked'
    /\ \/ Y!Marks' = Y!Marks \cup {player.at}
       \/ Y!Marks' = Y!Marks
    /\ player'.ring \in {player.ring, Y!Marks \cup {player.at}}

LEMMA ReportKnows ==
    ASSUME PlayerKnows, player.at \in Y!Lessons, Y!Report, UNCHANGED <<done, opened>>,
           player'.at = player.at, player'.mount = player.mount
    PROVE  /\ \A f \in fetches' : f \in fetches \/ FetchKnows(f)'
           /\ player.at \in Asked' /\ fetches \subseteq fetches'
<1> DEFINE f == Y!Fetch("report", "ask", player.at)
<1>1. fetches' = fetches \cup {f}
  BY DEF Y!Report
<1>2. \A g : g = f => FetchKnows(g)'
  BY FetchFromLesson
<1>3. f.step = "ask" /\ f.lesson = player.at
  BY DEF Y!Fetch
<1> HIDE DEF f
<1>4. player.at \in Asked'
  BY <1>1, <1>3 DEF Asked
<1> QED BY <1>1, <1>2, <1>4

LEMMA WatchingKnows ==
    ASSUME PlayerKnows, Y!Watches
    PROVE  WatchesKnow
<1>1. /\ Y!Playing /\ player.loaded /\ player.at \in Y!Lessons /\ player \in PlayerPages
      /\ UNCHANGED <<done, media, imported, opened, losses, unsent, behind>>
      /\ player.ring \in SUBSET Y!Lessons /\ Y!Marks \subseteq Y!Lessons
      /\ local \in [Y!ToSet(Modules) -> SUBSET Y!Lessons]
  BY PageFields, MarksAreLessons DEF PlayerKnows, Y!Watches, Y!Playing
<1>2. CASE player.reported
  <2>1. local' = Y!MarkedLocally(player.at) /\ UNCHANGED fetches
    BY <1>2 DEF Y!Watches, Y!MarksIt
  <2>2. /\ local' \in [Y!ToSet(Modules) -> SUBSET Y!Lessons]
        /\ Y!Marks' = Y!Marks \cup {player.at}
    BY <1>1, <2>1, MarkFacts
  <2>3. PICK R \in {player.ring, Y!Marks \cup {player.at}} :
          player' = [player EXCEPT !.ring = R]
    <3>1. player' = [player EXCEPT !.ring = IF player.at \in Y!Marks THEN @
                                            ELSE Y!Marks \cup {player.at}]
      BY <1>2 DEF Y!Watches, Y!MarksIt
    <3> QED BY <1>1, <3>1 DEF PlayerPages
  <2>4. /\ player' \in PlayerPages /\ player'.at = player.at /\ player'.mount = player.mount
        /\ player'.reported = player.reported /\ player'.loaded = player.loaded
        /\ player'.ring = R
    BY <1>1, <2>3, RungPage
  <2>5. PageStays /\ RecordStays
    BY <1>1, <2>2, <2>4 DEF PageStays, RecordStays, PlayerKnows
  <2>6. PlayerKnows'
    BY <2>1, <2>5, StillKnows
  <2> QED BY <1>1, <1>2, <2>1, <2>2, <2>3, <2>4, <2>6 DEF WatchesKnow
<1>3. CASE ~player.reported
  <2>1. Y!Report /\ player' = [player EXCEPT !.reported = TRUE] /\ UNCHANGED local
    BY <1>3 DEF Y!Watches
  <2>2. /\ player' \in PlayerPages /\ player'.at = player.at /\ player'.mount = player.mount
        /\ player'.reported /\ player'.loaded = player.loaded
        /\ player'.ring = player.ring
    BY <1>1, <2>1 DEF PlayerPages
  <2>3. PageStays /\ RecordStays
    BY <1>1, <2>1, <2>2 DEF PageStays, RecordStays, PlayerKnows
  <2>4. /\ \A f \in fetches' : f \in fetches \/ FetchKnows(f)'
        /\ player.at \in Asked' /\ fetches \subseteq fetches'
    BY <1>1, <2>1, <2>2, ReportKnows
  <2>5. PlayerKnows'
    BY <2>3, <2>4, StillKnows
  <2>6. Y!Marks' = Y!Marks
    BY <2>1 DEF Y!Marks
  <2> QED BY <1>1, <2>2, <2>4, <2>5, <2>6 DEF WatchesKnow
<1> QED BY <1>2, <1>3

LEMMA WatchingToEndKnows ==
    ASSUME PlayerKnows, Y!WatchesToEnd
    PROVE  WatchesKnow
<1>1. /\ Y!Playing /\ player.loaded /\ player.at \in Y!Lessons /\ player \in PlayerPages
      /\ UNCHANGED <<done, media, imported, opened, losses, unsent, behind>>
      /\ player.ring \in SUBSET Y!Lessons /\ Y!Marks \subseteq Y!Lessons
  BY PageFields, MarksAreLessons DEF PlayerKnows, Y!WatchesToEnd, Y!Playing
<1>2. local' = Y!MarkedLocally(player.at)
  BY DEF Y!WatchesToEnd
<1>3. /\ local' \in [Y!ToSet(Modules) -> SUBSET Y!Lessons]
      /\ Y!Marks' = Y!Marks \cup {player.at}
  BY <1>1, <1>2, MarkFacts
<1>4. PICK R \in {player.ring, Y!Marks \cup {player.at}} :
        player' = [player EXCEPT !.reported = TRUE, !.ring = R]
  <2>1. player' = [player EXCEPT !.reported = TRUE,
                                 !.ring = IF player.at \in Y!Marks THEN @
                                          ELSE Y!Marks \cup {player.at}]
    BY DEF Y!WatchesToEnd
  <2> QED BY <1>1, <2>1 DEF PlayerPages
<1>5. /\ player' \in PlayerPages /\ player'.at = player.at /\ player'.mount = player.mount
      /\ player'.reported /\ player'.loaded = player.loaded
      /\ player'.ring = R
  BY <1>1, <1>4, ReportedPage
<1>6. PageStays /\ RecordStays
  BY <1>1, <1>3, <1>5 DEF PageStays, RecordStays, PlayerKnows
<1>7. CASE player.reported
  <2>1. UNCHANGED fetches
    BY <1>7 DEF Y!WatchesToEnd
  <2>2. PlayerKnows'
    BY <1>6, <2>1, StillKnows
  <2> QED BY <1>1, <1>3, <1>4, <1>5, <1>7, <2>1, <2>2 DEF WatchesKnow
<1>8. CASE ~player.reported
  <2>1. Y!Report
    BY <1>8 DEF Y!WatchesToEnd
  <2>2. /\ \A f \in fetches' : f \in fetches \/ FetchKnows(f)'
        /\ player.at \in Asked' /\ fetches \subseteq fetches'
    BY <1>1, <1>5, <2>1, ReportKnows
  <2>3. PlayerKnows'
    BY <1>6, <2>2, StillKnows
  <2> QED BY <1>1, <1>3, <1>4, <1>5, <2>2, <2>3 DEF WatchesKnow
<1> QED BY <1>7, <1>8

LEMMA StoreReportKnows ==
    ASSUME PlayerKnows, NEW c \in fetches, Y!StoreReport(c)
    PROVE  /\ PlayerKnows' /\ UNCHANGED <<local, player, unsent, behind>>
           /\ done' = done \cup {c.lesson} /\ c.step = "ask" /\ c.lesson \in Landing'
           /\ fetches \ {c} \subseteq fetches'
<1>1. /\ c.kind = "report" /\ c.step = "ask" /\ c \in FetchRecords /\ c.lesson \in Y!Lessons
      /\ done' = done \cup {c.lesson} /\ (c.known => c.answer \subseteq done)
      /\ UNCHANGED <<media, local, imported, player, opened, losses, unsent, behind>>
  BY FetchFields DEF Y!StoreReport, FetchKnows
<1> DEFINE d == [c EXCEPT !.step = "land"]
<1>2. Y!Moved(c, d)
  BY DEF Y!StoreReport
<1>3. /\ d \in FetchRecords /\ d.kind = c.kind /\ d.lesson = c.lesson
      /\ d.mount = c.mount /\ d.step = "land" /\ d.answer = c.answer /\ d.known = c.known
  <2>1. c \in FetchRecords /\ "land" \in FetchSteps
    BY <1>1 DEF FetchSteps
  <2> HIDE DEF d
  <2>2. d = [c EXCEPT !.step = "land"]
    BY DEF d
  <2> QED BY <2>1, <2>2 DEF FetchRecords
<1> HIDE DEF d
<1>4. PageStays /\ RecordStays
  BY <1>1, SamePage DEF RecordStays, PlayerKnows
<1>5. PlayerKnows'
  BY <1>1, <1>2, <1>3, <1>4, MovedKnows
<1>6. c.lesson \in Landing'
  BY <1>2, <1>3 DEF Landing, Y!Moved
<1> QED BY <1>1, <1>2, <1>5, <1>6 DEF Y!Moved

\* The end of a report: the lesson is marked in the browser, and on its page.
LEMMA ReportEndsKnow ==
    ASSUME PlayerKnows, NEW c \in fetches, Y!ReportLands(c) \/ Y!ReportFails(c)
    PROVE  /\ PlayerKnows' /\ UNCHANGED done /\ fetches' = fetches \ {c}
           /\ c.lesson \in done \cup unsent' /\ unsent \subseteq unsent'
           /\ unsent' \subseteq unsent \cup {c.lesson}
           /\ player'.at = player.at /\ player'.reported = player.reported
           /\ player'.loaded = player.loaded
           /\ Y!Marks' = Y!Marks \cup {c.lesson}
           /\ \/ player'.ring = Y!Marks \cup {c.lesson} /\ behind \ {c.lesson} \subseteq behind'
              \/ player'.ring = player.ring /\ behind \subseteq behind'
                   /\ c.lesson \in behind' \cup player.ring
<1>1. /\ c.kind = "report" /\ c.lesson \in Y!Lessons /\ (c.step = "land" => c.lesson \in done)
  BY FetchFields DEF Y!ReportLands, Y!ReportFails, FetchKnows
<1>2. /\ Y!Ends(c) /\ local' = Y!MarkedLocally(c.lesson)
      /\ player' = IF Y!Mounted(c) THEN [player EXCEPT !.ring = Y!Marks \cup {c.lesson}] ELSE player
      /\ behind' = IF Y!Mounted(c) THEN behind \ {c.lesson}
                   ELSE behind \cup ({c.lesson} \ player.ring)
      /\ UNCHANGED <<done, media, imported, opened>>
  BY DEF Y!ReportLands, Y!ReportFails
<1>3. /\ c.lesson \in done \cup unsent' /\ unsent \subseteq unsent'
      /\ unsent' \subseteq unsent \cup {c.lesson}
  BY <1>1 DEF Y!ReportLands, Y!ReportFails
<1>4. /\ local' \in [Y!ToSet(Modules) -> SUBSET Y!Lessons]
      /\ Y!Marks' = Y!Marks \cup {c.lesson}
  BY <1>1, <1>2, MarkFacts
<1>5. Y!Marks \cup {c.lesson} \in SUBSET Y!Lessons
  BY <1>1, MarksAreLessons
<1>6. /\ player' \in PlayerPages /\ player'.at = player.at /\ player'.mount = player.mount
      /\ player'.reported = player.reported /\ player'.loaded = player.loaded
      /\ player'.ring = IF Y!Mounted(c) THEN Y!Marks \cup {c.lesson} ELSE player.ring
  <2>1. CASE Y!Mounted(c)
    BY <1>2, <1>5, <2>1, RungPage
  <2>2. CASE ~Y!Mounted(c)
    BY <1>2, <2>2 DEF PlayerKnows
  <2> QED BY <2>1, <2>2
<1>7. PageStays /\ RecordStays
  BY <1>1, <1>2, <1>3, <1>4, <1>6 DEF PageStays, RecordStays, PlayerKnows
<1>8. PlayerKnows'
  BY <1>2, <1>7, EndedKnows
<1> QED BY <1>2, <1>3, <1>4, <1>6, <1>8 DEF Y!Ends

LEMMA ElsewhereKnows ==
    ASSUME PlayerKnows, Y!WatchedElsewhere \/ Y!VideoProcessed
    PROVE  /\ PlayerKnows' /\ UNCHANGED <<local, player, fetches, unsent>>
           /\ done \subseteq done' /\ behind \subseteq behind' /\ done' \ done \subseteq behind'
<1>1. UNCHANGED <<local, imported, player, fetches, opened, losses, unsent>>
  BY DEF Y!WatchedElsewhere, Y!VideoProcessed
<1>2. /\ done \subseteq done' /\ behind \subseteq behind' /\ done' \ done \subseteq behind'
      /\ done' \subseteq Y!Lessons /\ behind' \subseteq Y!Lessons
      /\ media' \in [Y!Lessons -> {"processing", "ready", "failed"}]
  BY DEF PlayerKnows, Y!WatchedElsewhere, Y!VideoProcessed
<1>3. PageStays /\ RecordStays
  BY <1>1, <1>2, SamePage DEF RecordStays, PlayerKnows
<1> QED BY <1>1, <1>2, <1>3, StillKnows

-----------------------------------------------------------------------------
(* What is kept of the marks and of the record.                            *)

\* The other requests are still on their way.
LEMMA Carried ==
    ASSUME NEW c, fetches \ {c} \subseteq fetches'
    PROVE  /\ \A l \in Asked : l \in Asked' \/ (c.step = "ask" /\ l = c.lesson)
           /\ \A l \in Landing : l \in Landing' \/ (c.step = "land" /\ l = c.lesson)
BY DEF Asked, Landing

LEMMA AllCarried ==
    ASSUME fetches \subseteq fetches'
    PROVE  Asked \subseteq Asked' /\ Landing \subseteq Landing'
BY DEF Asked, Landing

\* A new page has no rings yet; a page that is not changed keeps them.
LEMMA NewPageKeeps ==
    ASSUME MarksAreSent, RecordIsShown, UNCHANGED <<done, local, unsent, behind>>,
           Asked \subseteq Asked', Landing \subseteq Landing',
           \/ ~player'.loaded /\ ~player'.reported /\ player'.ring = {}
           \/ player'.at = player.at /\ player'.reported = player.reported
                /\ (player'.loaded => player.loaded \/ player'.ring = Y!Marks)
                /\ player'.ring \in {player.ring, Y!Marks}
    PROVE  MarksAreSent' /\ RecordIsShown'
<1>1. Y!Marks' = Y!Marks
  BY DEF Y!Marks
<1> QED BY <1>1 DEF MarksAreSent, RecordIsShown

LEMMA SyncKeeps ==
    ASSUME PlayerInv, NEW c \in fetches, Y!Sync(c)
    PROVE  PlayerInv'
<1>1. PlayerKnows /\ MarksAreSent /\ RecordIsShown
  BY DEF PlayerInv
<1>2. /\ PlayerKnows' /\ c.step = "sync" /\ fetches \ {c} \subseteq fetches'
      /\ UNCHANGED <<done, unsent>>
      /\ player'.at = player.at /\ player'.reported = player.reported
      /\ player'.loaded = player.loaded
  BY <1>1, SyncKnows
<1>3. Asked \subseteq Asked' /\ Landing \subseteq Landing'
  BY <1>2, Carried
<1>4. CASE /\ c.known /\ c.answer \subseteq done /\ Y!Marks' = c.answer
           /\ (player'.ring = c.answer \/ player'.ring = player.ring)
           /\ done \ c.answer \subseteq behind'
           /\ (player'.ring = player.ring => behind \subseteq behind' \/ player'.ring = c.answer)
  <2>1. MarksAreSent'
    BY <1>1, <1>2, <1>3, <1>4 DEF MarksAreSent
  <2>2. RecordIsShown'
    BY <1>1, <1>2, <1>3, <1>4 DEF RecordIsShown
  <2> QED BY <1>2, <2>1, <2>2 DEF PlayerInv
<1>5. CASE UNCHANGED <<local, behind>> /\ player'.ring \in {player.ring, Y!Marks}
  BY <1>1, <1>2, <1>3, <1>5, NewPageKeeps DEF PlayerInv
<1> QED BY <1>1, <1>4, <1>5, SyncKnows

LEMMA WatchingKeeps ==
    ASSUME PlayerInv, Y!Watches \/ Y!WatchesToEnd
    PROVE  PlayerInv'
<1>1. PlayerKnows /\ MarksAreSent /\ RecordIsShown /\ WatchesKnow
  BY WatchingKnows, WatchingToEndKnows DEF PlayerInv
<1>2. Asked \subseteq Asked' /\ Landing \subseteq Landing'
  BY <1>1, AllCarried DEF WatchesKnow
<1>3. player.at \in done \cup unsent \cup Asked'
  BY <1>1, <1>2 DEF WatchesKnow, MarksAreSent
<1>4. MarksAreSent'
  BY <1>1, <1>2, <1>3 DEF WatchesKnow, MarksAreSent
<1>5. RecordIsShown'
  BY <1>1, <1>2 DEF WatchesKnow, RecordIsShown
<1> QED BY <1>1, <1>4, <1>5 DEF WatchesKnow, PlayerInv

LEMMA StoreReportKeeps ==
    ASSUME PlayerInv, NEW c \in fetches, Y!StoreReport(c)
    PROVE  PlayerInv'
<1>1. PlayerKnows /\ MarksAreSent /\ RecordIsShown
  BY DEF PlayerInv
<1>2. /\ PlayerKnows' /\ UNCHANGED <<local, player, unsent, behind>>
      /\ done' = done \cup {c.lesson} /\ c.step = "ask" /\ c.lesson \in Landing'
      /\ fetches \ {c} \subseteq fetches'
  BY <1>1, StoreReportKnows
<1>3. Asked \subseteq Asked' \cup {c.lesson} /\ Landing \subseteq Landing'
  BY <1>2, Carried
<1>4. Y!Marks' = Y!Marks
  BY <1>2 DEF Y!Marks
<1>5. MarksAreSent'
  BY <1>1, <1>2, <1>3, <1>4 DEF MarksAreSent
<1>6. RecordIsShown'
  BY <1>1, <1>2, <1>3, <1>4 DEF RecordIsShown
<1> QED BY <1>2, <1>5, <1>6 DEF PlayerInv

LEMMA ReportEndsKeeps ==
    ASSUME PlayerInv, NEW c \in fetches, Y!ReportLands(c) \/ Y!ReportFails(c)
    PROVE  PlayerInv'
<1>1. PlayerKnows /\ MarksAreSent /\ RecordIsShown
  BY DEF PlayerInv
<1>2. /\ PlayerKnows' /\ UNCHANGED done /\ fetches' = fetches \ {c}
      /\ c.lesson \in done \cup unsent' /\ unsent \subseteq unsent'
      /\ player'.at = player.at /\ player'.reported = player.reported
      /\ player'.loaded = player.loaded
      /\ Y!Marks' = Y!Marks \cup {c.lesson}
      /\ \/ player'.ring = Y!Marks \cup {c.lesson} /\ behind \ {c.lesson} \subseteq behind'
         \/ player'.ring = player.ring /\ behind \subseteq behind'
              /\ c.lesson \in behind' \cup player.ring
  BY <1>1, ReportEndsKnow
<1>3. Asked \subseteq Asked' \cup {c.lesson} /\ Landing \subseteq Landing' \cup {c.lesson}
  BY <1>2, Carried
<1>4. MarksAreSent'
  BY <1>1, <1>2, <1>3 DEF MarksAreSent
<1>5. RecordIsShown'
  BY <1>1, <1>2, <1>3 DEF RecordIsShown
<1> QED BY <1>2, <1>4, <1>5 DEF PlayerInv

LEMMA ElsewhereKeeps ==
    ASSUME PlayerInv, Y!WatchedElsewhere \/ Y!VideoProcessed
    PROVE  PlayerInv'
<1>1. PlayerKnows /\ MarksAreSent /\ RecordIsShown
  BY DEF PlayerInv
<1>2. /\ PlayerKnows' /\ UNCHANGED <<local, player, fetches, unsent>>
      /\ done \subseteq done' /\ behind \subseteq behind' /\ done' \ done \subseteq behind'
  BY <1>1, ElsewhereKnows
<1>3. Asked \subseteq Asked' /\ Landing \subseteq Landing' /\ Y!Marks' = Y!Marks
  BY <1>2, AllCarried DEF Y!Marks
<1>4. MarksAreSent'
  BY <1>1, <1>2, <1>3 DEF MarksAreSent
<1>5. RecordIsShown'
  BY <1>1, <1>2, <1>3 DEF RecordIsShown
<1> QED BY <1>2, <1>4, <1>5 DEF PlayerInv

\* The steps that leave the record and the browser's marks alone.
LEMMA QuietKeeps ==
    ASSUME PlayerInv, Y!PlayerConstants, Y!PlayerNext,
           \/ Y!OpenLesson \/ Y!OpenCourse \/ Y!Poll \/ Y!RefreshPlayback
           \/ \E c \in fetches : \/ Y!PickLesson(c) \/ Y!LoadLesson(c) \/ Y!Progress(c)
                                 \/ Y!Playback(c) \/ Y!LoadFails(c)
    PROVE  PlayerInv'
<1>1. PlayerKnows /\ MarksAreSent /\ RecordIsShown
  BY DEF PlayerInv
<1>2. CASE Y!OpenLesson \/ Y!OpenCourse
  BY <1>1, <1>2, OpensKnow, AllCarried, NewPageKeeps DEF PlayerInv
<1>3. CASE Y!Poll \/ Y!RefreshPlayback
  BY <1>1, <1>3, RequestsKnow, AllCarried, NewPageKeeps DEF PlayerInv
<1>4. ASSUME NEW c \in fetches, Y!PickLesson(c)
      PROVE  PlayerInv'
  <2>1. /\ PlayerKnows' /\ ~player'.loaded /\ ~player'.reported /\ player'.ring = {}
        /\ c.step = "lesson" /\ fetches \ {c} \subseteq fetches'
    BY <1>1, <1>4, PickKnows
  <2>2. Asked \subseteq Asked' /\ Landing \subseteq Landing'
    BY <2>1, Carried
  <2>3. UNCHANGED <<done, local, unsent, behind>>
    BY <1>4 DEF Y!PickLesson
  <2> QED BY <1>1, <2>1, <2>2, <2>3, NewPageKeeps DEF PlayerInv
<1>5. ASSUME NEW c \in fetches, Y!LoadLesson(c)
      PROVE  PlayerInv'
  <2>1. /\ PlayerKnows' /\ c.step = "lesson" /\ fetches \ {c} \subseteq fetches'
        /\ player'.ring \in {player.ring, Y!Marks} /\ player'.at = player.at
        /\ player'.reported = player.reported
        /\ player'.ring = player.ring => player'.loaded = player.loaded \/ player'.ring = Y!Marks
    BY <1>1, <1>5, LoadLessonKnows
  <2>2. Asked \subseteq Asked' /\ Landing \subseteq Landing'
    BY <2>1, Carried
  <2>3. UNCHANGED <<done, local, unsent, behind>>
    BY <1>5 DEF Y!LoadLesson
  <2> QED BY <1>1, <2>1, <2>2, <2>3, NewPageKeeps DEF PlayerInv
<1>6. ASSUME NEW c \in fetches, Y!Progress(c) \/ Y!LoadFails(c)
      PROVE  PlayerInv'
  <2>1. /\ PlayerKnows' /\ c.step \notin {"ask", "land"} /\ fetches \ {c} \subseteq fetches'
        /\ UNCHANGED <<done, local, player, unsent, behind>>
    BY <1>1, <1>6, ProgressKnows, LoadFailsKnows
  <2>2. Asked \subseteq Asked' /\ Landing \subseteq Landing'
    BY <2>1, Carried
  <2> QED BY <1>1, <2>1, <2>2, NewPageKeeps DEF PlayerInv
<1>7. ASSUME NEW c \in fetches, Y!Playback(c)
      PROVE  PlayerInv'
  <2>1. /\ PlayerKnows' /\ c.step = "playback" /\ fetches \ {c} \subseteq fetches'
        /\ UNCHANGED <<done, local, unsent, behind>>
        /\ player'.at = player.at /\ player'.reported = player.reported
        /\ player'.loaded = player.loaded /\ player'.ring = player.ring
    BY <1>1, <1>7, PlaybackKnows
  <2>2. Asked \subseteq Asked' /\ Landing \subseteq Landing'
    BY <2>1, Carried
  <2> QED BY <1>1, <2>1, <2>2, NewPageKeeps DEF PlayerInv
<1> QED BY <1>2, <1>3, <1>4, <1>5, <1>6, <1>7

LEMMA PlayerStep ==
    ASSUME PlayerInv, Y!PlayerConstants, Y!PlayerNext
    PROVE  PlayerInv'
<1>1. CASE Y!Watches \/ Y!WatchesToEnd
  BY <1>1, WatchingKeeps
<1>2. CASE Y!WatchedElsewhere \/ Y!VideoProcessed
  BY <1>2, ElsewhereKeeps
<1>3. ASSUME NEW c \in fetches, Y!Sync(c) \/ Y!StoreReport(c) \/ Y!ReportLands(c) \/ Y!ReportFails(c)
      PROVE  PlayerInv'
  BY <1>3, SyncKeeps, StoreReportKeeps, ReportEndsKeeps
<1> QED BY <1>1, <1>2, <1>3, QuietKeeps DEF Y!PlayerNext

LEMMA PlayerStarts ==
    ASSUME Y!PlayerConstants, Y!PlayerInit
    PROVE  PlayerInv
<1>1. /\ done = {} /\ imported = FALSE /\ player = Y!NoPage /\ fetches = {} /\ opened = 0
      /\ unsent = Legacy /\ behind = {} /\ Legacy \subseteq Y!Lessons
      /\ media = [l \in Y!Lessons |-> IF l \in Processing THEN "processing" ELSE "ready"]
      /\ local = [m \in Y!ToSet(Modules) |-> Legacy \cap Y!ToSet(Playlist[m])]
  BY DEF Y!PlayerInit, Y!PlayerConstants
<1>2. player \in PlayerPages /\ ~player.loaded /\ ~player.reported /\ player.ring = {}
      /\ player.mount = 0
  BY <1>1 DEF Y!NoPage, PlayerPages
<1>3. local \in [Y!ToSet(Modules) -> SUBSET Y!Lessons] /\ Y!Marks \subseteq Legacy
  BY <1>1 DEF Y!Marks
<1>4. media \in [Y!Lessons -> {"processing", "ready", "failed"}]
  BY <1>1
<1>5. PlayerKnows
  BY <1>1, <1>2, <1>3, <1>4 DEF PlayerKnows
<1>6. MarksAreSent /\ RecordIsShown
  BY <1>1, <1>2, <1>3 DEF MarksAreSent, RecordIsShown
<1> QED BY <1>5, <1>6 DEF PlayerInv

LEMMA PlayerShows ==
    ASSUME PlayerInv
    PROVE  Y!RingsAreTrue
<1>1. fetches = {} => Asked = {} /\ Landing = {}
  BY DEF Asked, Landing
<1> QED BY <1>1 DEF PlayerInv, MarksAreSent, RecordIsShown, Y!RingsAreTrue

LEMMA PlayerApart ==
    PlatformSafe => Y!PlayerInit /\ [][Y!PlayerNext]_playerVars
<1>1. PlatformInit => Y!PlayerInit
  BY DEF PlatformInit
<1>2. [PlatformNext]_platformVars => [Y!PlayerNext]_playerVars
  <2>1. Runs("player") /\ Y!PlayerNext /\ Only("player") => Y!PlayerNext
    OBVIOUS
  <2> QED BY <2>1 DEF PlatformNext, Only, playerVars, platformVars
<1> QED BY <1>1, <1>2, PTL DEF PlatformSafe

LEMMA PlayerAlways == PlatformSafe => []PlayerInv
<1>1. Y!PlayerConstants
  BY PlatformConstants
<1>2. Y!PlayerInit => PlayerInv
  BY <1>1, PlayerStarts
<1>3. PlayerInv /\ [Y!PlayerNext]_playerVars => PlayerInv'
  <2>1. CASE Y!PlayerNext
    BY <1>1, <2>1, PlayerStep
  <2>2. ASSUME PlayerInv, UNCHANGED playerVars
        PROVE  PlayerInv'
    <3>1. Asked' = Asked /\ Landing' = Landing /\ Y!Marks' = Y!Marks
      BY <2>2 DEF playerVars, Asked, Landing, Y!Marks
    <3>2. PlayerKnows'
      BY <2>2 DEF playerVars, PlayerInv, PlayerKnows, FetchKnows, Y!Mounted
    <3> QED BY <2>2, <3>1, <3>2 DEF playerVars, PlayerInv, MarksAreSent, RecordIsShown
  <2> QED BY <2>1, <2>2
<1> QED BY <1>2, <1>3, PlayerApart, PTL

\* For any course, and any number of pages, requests in progress and requests that
\* fail: when nothing is on its way, the rings of a loaded page show no lesson the
\* server lacks, unless its report failed or its mark is an old one, and lack no
\* lesson the server has, unless it was watched elsewhere, or its answer came to a
\* page that was left or after that of an older load (LessonView.tsx,
\* lesson-progress.ts).
THEOREM RingsAreTheRecord == PlatformSafe => []RingsAreTrue
<1>1. PlayerInv => RingsAreTrue
  BY PlayerShows DEF RingsAreTrue
<1> QED BY <1>1, PlayerAlways, PTL

\* A player is at a lesson of the course, or at none, and a request tells of lessons
\* of the course only (LessonView.tsx, lesson-progress.ts).
LEMMA PlayerTypesHold == PlatformSafe => []Y!PlayerTypeOK
<1>1. PlayerInv => Y!PlayerTypeOK
  <2> SUFFICES ASSUME PlayerInv
               PROVE  Y!PlayerTypeOK
    OBVIOUS
  <2>1. player.at \in Y!Lessons \cup {Y!Nowhere, "course"} /\ player.ring \subseteq Y!Lessons
    BY DEF PlayerInv, PlayerKnows, PlayerPages
  <2>2. \A c \in fetches : c.kind \in {"load", "report", "modules"} /\ c.answer \subseteq Y!Lessons
    BY DEF PlayerInv, PlayerKnows, FetchKnows, FetchRecords
  <2> QED BY <2>1, <2>2 DEF PlayerInv, PlayerKnows, Y!PlayerTypeOK
<1> QED BY <1>1, PlayerAlways, PTL

-----------------------------------------------------------------------------
(* The course editor.  What the page shows is what the server has, or the  *)
(* change in progress will load it again, or a flag tells why not; and a   *)
(* paper's questions are its own wherever they are: stored, in an answer   *)
(* on its way, on the page, in the form and in the change that saves it.   *)

ErrandSteps == {"course", "patch", "cover", "update", "post", "remove", "upload", "delete",
                "reprocess", "move", "write", "discard", "compose", "other", "read", "land"}
BundleFields == {"shown", "media", "papers"}

Has(t, x) == \E k \in DOMAIN t : t[k] = x

\* The reload of a change is read and then lands, after all that it changes; the
\* creation of a course and the writing of a paper come first.
Ordered(t) ==
    /\ t \in Seq(ErrandSteps)
    /\ \A k \in DOMAIN t :
         /\ t[k] = "read" => k + 1 \in DOMAIN t /\ t[k + 1] = "land"
         /\ t[k] = "land" => k = 1 \/ t[k - 1] = "read"
         /\ \A j \in DOMAIN t : t[k] = "land" /\ j > k => t[j] = "cover"
         /\ t[k] \in {"course", "write"} => k = 1
         /\ t[k] \notin {"read", "land", "cover"} => \E j \in DOMAIN t : j > k /\ t[j] = "land"

\* An answer that tells what there is.
Current(b) ==
    /\ b.shown \in E!Listings
    /\ \A u \in E!Present : b.media[u].asset = video[u].asset
    /\ b.papers = [d \in E!LivePapers |-> content[d]]

\* The papers of an answer, and what a form or a change holds, are each paper's own.
OwnBundle(b) ==
    /\ DOMAIN b = BundleFields /\ DOMAIN b.papers \subseteq E!Papers
    /\ \A d \in DOMAIN b.papers : d \in mixed \/ b.papers[d] = d
Own(x) == x.late \/ x.of \in mixed \/ x.holds \in {x.of, E!Blank}

RowsKnown ==
    /\ made \in Nat /\ excess \in Nat /\ made <= 1 + excess
    /\ ~pane.course => made <= excess
    /\ DOMAIN rank = Units /\ DOMAIN video = Units /\ DOMAIN content = E!Papers
    /\ \A u \in Units : DOMAIN video[u] = {"asset", "status"}
    /\ E!PapersAreOwn
PaneKnown(p) ==
    /\ DOMAIN p = {"course", "shared", "loading", "quizLoading", "form", "seen"}
    /\ DOMAIN p.form = {"of", "asset", "holds", "late"}
    /\ p.form.of \in E!Papers => Own(p.form)
    /\ OwnBundle(p.seen)
ErrandKnown(e) ==
    /\ DOMAIN e = {"todo", "of", "holds", "late", "asset", "ids", "got", "begun"}
    /\ Ordered(e.todo)
    /\ Has(e.todo, "course") => ~pane.course
    /\ Has(e.todo, "write") => e.of \in E!Papers /\ Own(e)
    /\ OwnBundle(e.got)
    /\ e.todo # <<>> /\ Head(e.todo) = "land" => Current(e.got)
ReadKnown(r) ==
    /\ DOMAIN r = {"kind", "of", "got", "old"}
    /\ OwnBundle(r.got)
    /\ r.kind = "quiz" => r.of \in E!Papers
    /\ r.kind # "quiz" /\ r.got # E!Unread /\ ~r.old => Current(r.got)

\* A change that has begun shows what it did when its reload lands.
Waiting(e) == e.begun /\ Has(e.todo, "land")
PageShows ==
    pane.course /\ ~pane.loading /\ ~blurred /\ ~Waiting(errand) => Current(pane.seen)

EditorInv ==
    /\ RowsKnown /\ PaneKnown(pane) /\ ErrandKnown(errand) /\ PageShows
    /\ \A r \in reads : ReadKnown(r)

-----------------------------------------------------------------------------
LEMMA TailOrdered ==
    ASSUME NEW t, Ordered(t), t # <<>>
    PROVE  /\ Ordered(Tail(t))
           /\ \A x : Has(Tail(t), x) => Has(t, x)
           /\ \A x : Has(t, x) => x = Head(t) \/ Has(Tail(t), x)
           /\ ~Has(Tail(t), "course") /\ ~Has(Tail(t), "write")
           /\ Head(t) \notin {"read", "land", "cover"} => Has(Tail(t), "land")
           /\ Head(t) = "read" => Tail(t) # <<>> /\ Head(Tail(t)) = "land"
           /\ Head(t) # "read" /\ Tail(t) # <<>> => Head(Tail(t)) # "land"
           /\ Head(t) = "land" => ~Has(Tail(t), "land")
           /\ Len(t) = 1 <=> Tail(t) = <<>>
           /\ Tail(t) = <<>> => Head(t) \in {"land", "cover"}
           /\ Head(t) \in ErrandSteps
<1> DEFINE u == Tail(t)
           n == Len(t)
<1>1. /\ t \in Seq(ErrandSteps) /\ n \in Nat /\ n >= 1 /\ DOMAIN t = 1 .. n
      /\ u \in Seq(ErrandSteps) /\ DOMAIN u = 1 .. n - 1 /\ Len(u) = n - 1
      /\ \A k \in 1 .. n - 1 : u[k] = t[k + 1]
      /\ Head(t) = t[1] /\ (u # <<>> => Head(u) = u[1])
  BY DEF Ordered
<1>2. Len(t) = 1 <=> u = <<>>
  BY <1>1
<1> HIDE DEF u, n
<1>3. \A k \in 1 .. n : k = 1 \/ (k - 1 \in 1 .. n - 1 /\ t[k] = u[k - 1])
  BY <1>1
<1>4. \A k \in 1 .. n - 1 : k + 1 \in 1 .. n /\ u[k] = t[k + 1] /\ k + 1 # 1
  BY <1>1
<1>5. \A k \in DOMAIN t :
         /\ t[k] = "read" => k + 1 \in DOMAIN t /\ t[k + 1] = "land"
         /\ t[k] = "land" => k = 1 \/ t[k - 1] = "read"
         /\ \A j \in DOMAIN t : t[k] = "land" /\ j > k => t[j] = "cover"
         /\ t[k] \in {"course", "write"} => k = 1
         /\ t[k] \notin {"read", "land", "cover"} => \E j \in DOMAIN t : j > k /\ t[j] = "land"
  BY DEF Ordered
<1>6. Ordered(u)
  <2>1. ASSUME NEW k \in DOMAIN u
        PROVE  /\ u[k] = "read" => k + 1 \in DOMAIN u /\ u[k + 1] = "land"
               /\ u[k] = "land" => k = 1 \/ u[k - 1] = "read"
               /\ \A j \in DOMAIN u : u[k] = "land" /\ j > k => u[j] = "cover"
               /\ u[k] \in {"course", "write"} => k = 1
               /\ u[k] \notin {"read", "land", "cover"} => \E j \in DOMAIN u : j > k /\ u[j] = "land"
    <3>1. k \in 1 .. n - 1 /\ k + 1 \in DOMAIN t /\ u[k] = t[k + 1] /\ k \in Nat
      BY <1>1, <1>4
    <3>2. u[k] = "read" => k + 1 \in DOMAIN u /\ u[k + 1] = "land"
      <4>1. t[k + 1] = "read" => (k + 1) + 1 \in 1 .. n /\ t[(k + 1) + 1] = "land"
        BY <1>1, <1>5, <3>1
      <4> QED BY <1>1, <3>1, <4>1
    <3>3. u[k] = "land" => k = 1 \/ u[k - 1] = "read"
      <4>1. t[k + 1] = "land" => t[k] = "read"
        BY <1>5, <3>1
      <4>2. k # 1 => k - 1 \in 1 .. n - 1 /\ u[k - 1] = t[k]
        BY <1>1, <3>1
      <4> QED BY <3>1, <4>1, <4>2
    <3>4. ASSUME NEW j \in DOMAIN u, u[k] = "land", j > k PROVE u[j] = "cover"
      <4>1. j + 1 \in DOMAIN t /\ u[j] = t[j + 1] /\ j + 1 > k + 1
        BY <1>1, <1>4, <3>1, <3>4
      <4> QED BY <1>5, <3>1, <3>4, <4>1
    <3>5. u[k] \notin {"course", "write"}
      <4>1. k + 1 # 1
        BY <3>1
      <4> QED BY <1>5, <3>1, <4>1
    <3>6. ASSUME u[k] \notin {"read", "land", "cover"}
          PROVE  \E j \in DOMAIN u : j > k /\ u[j] = "land"
      <4>1. PICK j \in DOMAIN t : j > k + 1 /\ t[j] = "land"
        BY <1>5, <3>1, <3>6
      <4>2. j - 1 \in DOMAIN u /\ j - 1 > k /\ u[j - 1] = "land"
        BY <1>1, <3>1, <4>1
      <4> QED BY <4>2
    <3> QED BY <3>2, <3>3, <3>4, <3>5, <3>6
  <2> QED BY <1>1, <2>1 DEF Ordered
<1>7. (\A x : Has(u, x) => Has(t, x)) /\ (\A x : Has(t, x) => x = Head(t) \/ Has(u, x))
  <2>1. ASSUME NEW x, Has(u, x) PROVE Has(t, x)
    <3>1. PICK k \in 1 .. n - 1 : u[k] = x
      BY <1>1, <2>1 DEF Has
    <3>2. k + 1 \in DOMAIN t /\ t[k + 1] = x
      BY <1>1, <1>4, <3>1
    <3> QED BY <3>2 DEF Has
  <2>2. ASSUME NEW x, Has(t, x) PROVE x = Head(t) \/ Has(u, x)
    <3>1. PICK k \in 1 .. n : t[k] = x
      BY <1>1, <2>2 DEF Has
    <3>2. k = 1 \/ (k - 1 \in DOMAIN u /\ u[k - 1] = x)
      BY <1>1, <1>3, <3>1
    <3> QED BY <1>1, <3>1, <3>2 DEF Has
  <2> QED BY <2>1, <2>2
<1>8. ~Has(u, "course") /\ ~Has(u, "write")
  <2>1. ASSUME NEW k \in DOMAIN u PROVE u[k] \notin {"course", "write"}
    <3>1. k + 1 \in DOMAIN t /\ u[k] = t[k + 1] /\ k + 1 # 1
      BY <1>1, <1>4
    <3> QED BY <1>5, <3>1
  <2> QED BY <2>1 DEF Has
<1>e. 1 \in DOMAIN t /\ 1 + 1 = 2
  BY <1>1
<1>9. Head(t) \notin {"read", "land", "cover"} => Has(u, "land")
  <2>1. ASSUME Head(t) \notin {"read", "land", "cover"} PROVE Has(u, "land")
    <3>1. PICK j \in DOMAIN t : j > 1 /\ t[j] = "land"
      BY <1>1, <1>e, <1>5, <2>1
    <3>2. j - 1 \in DOMAIN u /\ u[j - 1] = "land"
      BY <1>1, <1>3, <3>1
    <3> QED BY <3>2 DEF Has
  <2> QED BY <2>1
<1>10. Head(t) = "read" => u # <<>> /\ Head(u) = "land"
  <2>1. ASSUME t[1] = "read" PROVE 2 \in DOMAIN t /\ t[2] = "land"
    BY <1>e, <1>5, <2>1
  <2>2. t[1] = "read" => 1 \in DOMAIN u /\ u[1] = "land"
    BY <1>1, <2>1
  <2> QED BY <1>1, <2>2
<1>11. Head(t) # "read" /\ u # <<>> => Head(u) # "land"
  <2>1. ASSUME u # <<>>, Head(u) = "land" PROVE t[1] = "read"
    <3>1. 1 \in 1 .. n - 1 /\ 2 \in DOMAIN t /\ t[2] = "land"
      BY <1>1, <1>2, <2>1 DEF n
    <3> QED BY <1>5, <3>1
  <2> QED BY <1>1, <2>1
<1>12. Head(t) = "land" => ~Has(u, "land")
  <2>1. ASSUME t[1] = "land", NEW k \in DOMAIN u PROVE u[k] # "land"
    <3>1. k + 1 \in DOMAIN t /\ k + 1 > 1 /\ u[k] = t[k + 1] /\ 1 \in DOMAIN t
      BY <1>1, <1>4
    <3> QED BY <1>5, <2>1, <3>1
  <2> QED BY <1>1, <2>1 DEF Has
<1>13. u = <<>> => Head(t) \in {"land", "cover"}
  BY <1>9, <1>10 DEF Has
<1>14. Head(t) \in ErrandSteps
  BY <1>1
<1> QED BY <1>2, <1>6, <1>7, <1>8, <1>9, <1>10, <1>11, <1>12, <1>13, <1>14 DEF u

-----------------------------------------------------------------------------
(* The changes the author can make.                                        *)

Doings == ErrandSteps \ {"read", "land"}
Later == Doings \ {"course", "write"}

\* A change starts with something it does.
Starts(t, x) == Ordered(t) /\ t # <<>> /\ Head(t) = x

LEMMA OrderedThree ==
    ASSUME NEW x \in Doings,
           NEW t \in Seq(ErrandSteps), Len(t) = 3,
           t[1] = x, t[2] = "read", t[3] = "land"
    PROVE  Starts(t, x)
<1>1. /\ DOMAIN t = 1 .. 3
      /\ \A k \in DOMAIN t : k = 1 \/ k = 2 \/ k = 3
      /\ 1 \in DOMAIN t /\ 2 \in DOMAIN t /\ 3 \in DOMAIN t
      /\ t # <<>> /\ Head(t) = x
  OBVIOUS
<1> QED BY <1>1 DEF Ordered, Starts, Doings, Later

LEMMA OrderedFour ==
    ASSUME NEW x \in Doings, NEW y \in Later,
           NEW t \in Seq(ErrandSteps), Len(t) = 4,
           t[1] = x, t[2] = y, t[3] = "read", t[4] = "land"
    PROVE  Starts(t, x)
<1>1. /\ DOMAIN t = 1 .. 4
      /\ \A k \in DOMAIN t : k = 1 \/ k = 2 \/ k = 3 \/ k = 4
      /\ 1 \in DOMAIN t /\ 2 \in DOMAIN t /\ 3 \in DOMAIN t /\ 4 \in DOMAIN t
      /\ t # <<>> /\ Head(t) = x
  OBVIOUS
<1> QED BY <1>1 DEF Ordered, Starts, Doings, Later

LEMMA OrderedFive ==
    ASSUME NEW x \in Doings, NEW y \in Later, NEW z \in Later,
           NEW t \in Seq(ErrandSteps), Len(t) = 5,
           t[1] = x, t[2] = y, t[3] = z, t[4] = "read", t[5] = "land"
    PROVE  Starts(t, x)
<1>1. /\ DOMAIN t = 1 .. 5
      /\ \A k \in DOMAIN t : k = 1 \/ k = 2 \/ k = 3 \/ k = 4 \/ k = 5
      /\ 1 \in DOMAIN t /\ 2 \in DOMAIN t /\ 3 \in DOMAIN t /\ 4 \in DOMAIN t /\ 5 \in DOMAIN t
      /\ t # <<>> /\ Head(t) = x
  OBVIOUS
<1> QED BY <1>1 DEF Ordered, Starts, Doings, Later

LEMMA OrderedCreation ==
    ASSUME NEW x \in {"course"},
           NEW t \in Seq(ErrandSteps), Len(t) = 4,
           t[1] = x, t[2] = "read", t[3] = "land", t[4] = "cover"
    PROVE  Starts(t, x)
<1>1. /\ DOMAIN t = 1 .. 4
      /\ \A k \in DOMAIN t : k = 1 \/ k = 2 \/ k = 3 \/ k = 4
      /\ 1 \in DOMAIN t /\ 2 \in DOMAIN t /\ 3 \in DOMAIN t /\ 4 \in DOMAIN t
      /\ t # <<>> /\ Head(t) = x
  OBVIOUS
<1> QED BY <1>1 DEF Ordered, Starts, Doings, Later

LEMMA Joined ==
    ASSUME NEW s \in Seq(ErrandSteps), NEW t \in Seq(ErrandSteps)
    PROVE  /\ s \o t \in Seq(ErrandSteps) /\ Len(s \o t) = Len(s) + Len(t)
           /\ \A k \in Nat : k >= 1 /\ k <= Len(s) => (s \o t)[k] = s[k]
           /\ \A k \in Nat : k >= 1 /\ k <= Len(t) => (s \o t)[Len(s) + k] = t[k]
<1>1. /\ s \o t \in Seq(ErrandSteps) /\ Len(s \o t) = Len(s) + Len(t)
      /\ \A k \in 1 .. Len(s) + Len(t) :
            (s \o t)[k] = IF k <= Len(s) THEN s[k] ELSE t[k - Len(s)]
  BY ConcatProperties
<1>2. Len(s) \in Nat /\ Len(t) \in Nat
  OBVIOUS
<1>3. ASSUME NEW k \in Nat, k >= 1, k <= Len(s) PROVE (s \o t)[k] = s[k]
  BY <1>1, <1>2, <1>3
<1>4. ASSUME NEW k \in Nat, k >= 1, k <= Len(t) PROVE (s \o t)[Len(s) + k] = t[k]
  <2>1. Len(s) + k \in 1 .. Len(s) + Len(t) /\ ~(Len(s) + k <= Len(s))
        /\ (Len(s) + k) - Len(s) = k
    BY <1>2, <1>4
  <2> QED BY <1>1, <2>1
<1> QED BY <1>1, <1>3, <1>4

LEMMA Pieces ==
    ASSUME NEW x \in ErrandSteps, NEW y \in ErrandSteps
    PROVE  /\ <<>> \in Seq(ErrandSteps) /\ Len(<<>>) = 0
           /\ <<x>> \in Seq(ErrandSteps) /\ Len(<<x>>) = 1 /\ <<x>>[1] = x
           /\ <<x, y>> \in Seq(ErrandSteps) /\ Len(<<x, y>>) = 2
           /\ <<x, y>>[1] = x /\ <<x, y>>[2] = y
OBVIOUS


\* Two chains of known lengths, one after the other.
LEMMA JoinedLen ==
    ASSUME NEW s \in Seq(ErrandSteps), NEW t \in Seq(ErrandSteps), NEW a \in Nat, NEW b \in Nat,
           Len(s) = a, Len(t) = b
    PROVE  s \o t \in Seq(ErrandSteps) /\ Len(s \o t) = a + b
  BY Joined

LEMMA JoinedFirst ==
    ASSUME NEW s \in Seq(ErrandSteps), NEW t \in Seq(ErrandSteps), NEW k \in Nat,
           k >= 1, k <= Len(s)
    PROVE  (s \o t)[k] = s[k]
  BY Joined

LEMMA JoinedSecond ==
    ASSUME NEW s \in Seq(ErrandSteps), NEW t \in Seq(ErrandSteps), NEW k \in Nat, NEW i,
           k >= 1, k <= Len(t), i = Len(s) + k
    PROVE  (s \o t)[i] = t[k]
  BY Joined

LEMMA StartsOne ==
    ASSUME NEW x \in Doings
    PROVE  Starts(<<x>> \o E!Reload, x)
<1> DEFINE s == <<x>>
           R == E!Reload
           t == s \o R
<1>1. /\ s \in Seq(ErrandSteps) /\ Len(s) = 1 /\ s[1] = x
      /\ R \in Seq(ErrandSteps) /\ Len(R) = 2 /\ R[1] = "read" /\ R[2] = "land"
  BY Pieces DEF E!Reload, Doings, ErrandSteps
<1> HIDE DEF s, R
<1>2. t \in Seq(ErrandSteps) /\ Len(t) = 3 /\ t[1] = x /\ t[2] = "read" /\ t[3] = "land"
  BY <1>1, Joined
<1> HIDE DEF t
<1>3. Starts(t, x)
  BY <1>2, OrderedThree
<1> QED BY <1>3 DEF t, s, R

\* Small numbers, for the lemmas above.
LEMMA Small ==
    /\ 0 \in Nat /\ 1 \in Nat /\ 2 \in Nat /\ 3 \in Nat
    /\ 1 >= 1 /\ 1 <= 1 /\ 1 <= 2 /\ 2 >= 1 /\ 2 <= 2 /\ 3 >= 1 /\ 3 <= 3 /\ 1 <= 3 /\ 2 <= 3
    /\ 2 = 1 + 1 /\ 3 = 1 + 2 /\ 4 = 3 + 1 /\ 3 = 3 + 0
    OBVIOUS

\* The reload after a beginning of n requests.
LEMMA ThenReload ==
    ASSUME NEW q \in Seq(ErrandSteps), NEW n \in Nat, Len(q) = n
    PROVE  /\ q \o E!Reload \in Seq(ErrandSteps) /\ Len(q \o E!Reload) = n + 2
           /\ \A k \in 1 .. n : (q \o E!Reload)[k] = q[k]
           /\ (q \o E!Reload)[n + 1] = "read" /\ (q \o E!Reload)[n + 2] = "land"
<1> DEFINE R == E!Reload
<1>1. R \in Seq(ErrandSteps) /\ Len(R) = 2 /\ R[1] = "read" /\ R[2] = "land"
  BY Pieces DEF E!Reload, ErrandSteps
<1> HIDE DEF R
<1>2. q \o R \in Seq(ErrandSteps) /\ Len(q \o R) = n + 2
  BY <1>1, Small, JoinedLen, Zenon
<1>3. ASSUME NEW k \in 1 .. n PROVE (q \o R)[k] = q[k]
  <2>1. k \in Nat /\ k >= 1 /\ k <= Len(q)
    OBVIOUS
  <2> QED BY <1>1, <2>1, JoinedFirst, Zenon
<1>4. (q \o R)[n + 1] = R[1] /\ (q \o R)[n + 2] = R[2]
  <2>1. \A k \in Nat : k >= 1 /\ k <= Len(R) => (q \o R)[Len(q) + k] = R[k]
    BY <1>1, Joined, Zenon
  <2> DEFINE t == q \o R
  <2> HIDE DEF t
  <2>2. \A k \in Nat : k >= 1 /\ k <= 2 => t[n + k] = R[k]
    BY <1>1, <2>1 DEF t
  <2>3. t[n + 1] = R[1]
    BY <2>2
  <2>4. t[n + 2] = R[2]
    BY <2>2
  <2> QED BY <2>3, <2>4 DEF t
<1> QED BY <1>1, <1>2, <1>3, <1>4 DEF R

\* It reads and then lands, at the places given.
LEMMA ReloadAt ==
    ASSUME NEW q \in Seq(ErrandSteps), NEW n \in Nat, Len(q) = n, NEW t, t = q \o E!Reload
    PROVE  /\ t \in Seq(ErrandSteps) /\ Len(t) = n + 2
           /\ \A k \in 1 .. n : t[k] = q[k]
           /\ t[n + 1] = "read" /\ t[n + 2] = "land"
  BY ThenReload, Zenon

LEMMA StartsMore ==
    ASSUME NEW x \in Doings, NEW p \in Seq(Later), Len(p) <= 2
    PROVE  Starts(<<x>> \o p \o E!Reload, x)
<1> DEFINE s == <<x>>
           q == s \o p
           t == q \o E!Reload
<1>1. s \in Seq(ErrandSteps) /\ Len(s) = 1 /\ s[1] = x
  BY Pieces DEF Doings, ErrandSteps
<1>2. p \in Seq(ErrandSteps) /\ Len(p) \in Nat /\ \A k \in 1 .. Len(p) : p[k] \in Later
  BY DEF Later, Doings
<1> HIDE DEF s
<1>3. q \in Seq(ErrandSteps) /\ Len(q) = 1 + Len(p)
  BY <1>1, <1>2, Small, JoinedLen, Zenon
<1>4. q[1] = x
  <2>1. q[1] = s[1]
    BY <1>1, <1>2, Small, JoinedFirst, Zenon
  <2> QED BY <1>1, <2>1
<1>e. 2 = Len(s) + 1 /\ 3 = Len(s) + 2
  BY <1>1
<1>5. 1 <= Len(p) => q[2] = p[1]
  BY <1>1, <1>2, <1>e, Small, JoinedSecond, Zenon
<1>6. 2 <= Len(p) => q[3] = p[2]
  BY <1>1, <1>2, <1>e, Small, JoinedSecond, Zenon
<1>7. Len(p) = 0 \/ Len(p) = 1 \/ Len(p) = 2
  <2> DEFINE n == Len(p)
  <2>1. n \in Nat /\ n <= 2
    BY <1>2
  <2> HIDE DEF n
  <2>2. n = 0 \/ n = 1 \/ n = 2
    BY <2>1
  <2> QED BY <2>2 DEF n
<1>8. \A n \in Nat : Len(q) = n =>
         /\ t \in Seq(ErrandSteps) /\ Len(t) = n + 2
         /\ \A k \in 1 .. n : t[k] = q[k]
         /\ t[n + 1] = "read" /\ t[n + 2] = "land"
  <2> HIDE DEF q
  <2> QED BY <1>3, ReloadAt, Zenon
<1> HIDE DEF q, t
<1>9. CASE Len(p) = 0
  <2>1. Len(q) = 1
    BY <1>3, <1>9
  <2>2. /\ t \in Seq(ErrandSteps) /\ Len(t) = 1 + 2 /\ \A k \in 1 .. 1 : t[k] = q[k]
        /\ t[1 + 1] = "read" /\ t[1 + 2] = "land"
    BY <1>8, <2>1, Small, Zenon
  <2>3. Starts(t, x)
    <3>1. Len(t) = 3 /\ t[1] = x /\ t[2] = "read" /\ t[3] = "land"
      BY <1>4, <2>2
    <3> QED BY <2>2, <3>1, OrderedThree
  <2> QED BY <2>3 DEF t, q, s
<1>10. CASE Len(p) = 1
  <2>1. Len(q) = 2 /\ q[2] = p[1] /\ p[1] \in Later
    BY <1>2, <1>3, <1>5, <1>10
  <2>2. /\ t \in Seq(ErrandSteps) /\ Len(t) = 2 + 2 /\ \A k \in 1 .. 2 : t[k] = q[k]
        /\ t[2 + 1] = "read" /\ t[2 + 2] = "land"
    BY <1>8, <2>1, Small, Zenon
  <2>3. Starts(t, x)
    <3>1. Len(t) = 4 /\ t[1] = x /\ t[2] = p[1] /\ t[3] = "read" /\ t[4] = "land"
      BY <1>4, <2>1, <2>2
    <3> QED BY <2>1, <2>2, <3>1, OrderedFour
  <2> QED BY <2>3 DEF t, q, s
<1>11. CASE Len(p) = 2
  <2>1. /\ Len(q) = 3 /\ q[2] = p[1] /\ q[3] = p[2]
        /\ p[1] \in Later /\ p[2] \in Later
    BY <1>2, <1>3, <1>5, <1>6, <1>11
  <2>2. /\ t \in Seq(ErrandSteps) /\ Len(t) = 3 + 2 /\ \A k \in 1 .. 3 : t[k] = q[k]
        /\ t[3 + 1] = "read" /\ t[3 + 2] = "land"
    BY <1>8, <2>1, Small, Zenon
  <2>3. Starts(t, x)
    <3>1. /\ Len(t) = 5 /\ t[1] = x /\ t[2] = p[1] /\ t[3] = p[2]
          /\ t[4] = "read" /\ t[5] = "land"
      BY <1>4, <2>1, <2>2
    <3> QED BY <2>1, <2>2, <3>1, OrderedFive
  <2> QED BY <2>3 DEF t, q, s
<1> QED BY <1>7, <1>9, <1>10, <1>11

LEMMA StartsCreation ==
    ASSUME NEW image \in {<<>>, <<"cover">>}
    PROVE  Starts(<<"course">> \o E!Reload \o image, "course")
<1> DEFINE x == "course"
           s == <<x>>
           q == s \o E!Reload
           t == q \o image
<1>1. s \in Seq(ErrandSteps) /\ Len(s) = 1 /\ s[1] = x /\ x \in Doings /\ x \in {"course"}
  BY Pieces DEF Doings, ErrandSteps
<1>2. image \in Seq(ErrandSteps) /\ (Len(image) = 0 \/ (Len(image) = 1 /\ image[1] = "cover"))
  <2>1. <<"cover">> \in Seq(ErrandSteps) /\ Len(<<"cover">>) = 1 /\ <<"cover">>[1] = "cover"
    BY Pieces DEF ErrandSteps
  <2>2. <<>> \in Seq(ErrandSteps) /\ Len(<<>>) = 0
    BY Pieces DEF ErrandSteps
  <2> QED BY <2>1, <2>2, Zenon
<1> HIDE DEF s, x
<1>3. q \in Seq(ErrandSteps) /\ Len(q) = 3 /\ q[1] = x /\ q[2] = "read" /\ q[3] = "land"
  <2>1. /\ q \in Seq(ErrandSteps) /\ Len(q) = 1 + 2
        /\ \A k \in 1 .. 1 : q[k] = s[k]
        /\ q[1 + 1] = "read" /\ q[1 + 2] = "land"
    BY <1>1, Small, ThenReload, Zenon
  <2> HIDE DEF q
  <2> QED BY <1>1, <2>1
<1> HIDE DEF q
<1>4. t[1] = q[1] /\ t[2] = q[2] /\ t[3] = q[3]
  BY <1>2, <1>3, Small, JoinedFirst, Zenon
<1>5. CASE Len(image) = 0
  <2>1. t \in Seq(ErrandSteps) /\ Len(t) = 3 + 0
    <3>1. image \in Seq(ErrandSteps) /\ q \in Seq(ErrandSteps)
      BY <1>2, <1>3
    <3>2. q \o image \in Seq(ErrandSteps) /\ Len(q \o image) = Len(q) + Len(image)
      BY <3>1, Joined, Zenon
    <3>3. Len(q) + Len(image) = 3 + 0
      BY <1>3, <1>5
    <3> QED BY <3>2, <3>3, Zenon
  <2> HIDE DEF t
  <2>2. Starts(t, x)
    BY <1>1, <1>3, <1>4, <2>1, OrderedThree
  <2> QED BY <2>2 DEF t, q, s, x
<1>6. CASE Len(image) = 1 /\ image[1] = "cover"
  <2>1. t \in Seq(ErrandSteps) /\ Len(t) = 3 + 1
    BY <1>2, <1>3, <1>6, Small, JoinedLen, Zenon
  <2>2. t[4] = image[1]
    <3>1. 1 \in Nat /\ 1 >= 1 /\ 1 <= Len(image) /\ 4 = Len(q) + 1
      BY <1>3, <1>6
    <3> QED BY <1>2, <1>3, <3>1, JoinedSecond, Zenon
  <2> HIDE DEF t
  <2>3. Starts(t, x)
    BY <1>1, <1>3, <1>4, <1>6, <2>1, <2>2, OrderedCreation
  <2> QED BY <2>3 DEF t, q, s, x
<1> QED BY <1>2, <1>5, <1>6

-----------------------------------------------------------------------------
(* What is known of an answer, a form or a change stays known.             *)

Kept == /\ rank' = rank /\ content' = content
        /\ \A u \in Units : video'[u].asset = video[u].asset

LEMMA CurrentStays ==
    ASSUME NEW b, Kept
    PROVE  Current(b)' <=> Current(b)
  BY DEF Kept, Current, E!Listings, E!Present, E!LivePapers

LEMMA OwnStays ==
    ASSUME NEW b, mixed \subseteq mixed'
    PROVE  (OwnBundle(b) => OwnBundle(b)') /\ (Own(b) => Own(b)')
  BY DEF OwnBundle, Own

LEMMA UnreadIsOwn == OwnBundle(E!Unread)
  BY DEF OwnBundle, E!Unread, BundleFields

LEMMA NoErrandKnown == ErrandKnown(E!NoErrand) /\ ~Waiting(E!NoErrand) /\ E!NoErrand.todo = <<>>
<1>1. /\ E!NoErrand.todo = <<>> /\ E!NoErrand.got = E!Unread /\ ~E!NoErrand.begun
      /\ DOMAIN E!NoErrand = {"todo", "of", "holds", "late", "asset", "ids", "got", "begun"}
  BY DEF E!NoErrand
<1>2. Ordered(<<>>) /\ \A x : ~Has(<<>>, x)
  BY DEF Ordered, Has
<1> QED BY <1>1, <1>2, UnreadIsOwn DEF ErrandKnown, Waiting

\* A change at its start.
LEMMA NewErrandKnown ==
    ASSUME NEW e, NEW x \in Doings, Starts(e.todo, x),
           DOMAIN e = {"todo", "of", "holds", "late", "asset", "ids", "got", "begun"},
           e.got = E!Unread,
           x = "course" => ~pane.course,
           x = "write" => e.of \in E!Papers /\ Own(e)
    PROVE  ErrandKnown(e)
<1> DEFINE t == e.todo
<1>1. t \in Seq(ErrandSteps) /\ t # <<>> /\ Head(t) = x /\ Ordered(t)
  BY DEF Starts, Ordered
<1>2. \A y \in {"course", "write"} : Has(t, y) => y = x
  <2> SUFFICES ASSUME NEW y \in {"course", "write"}, NEW k \in DOMAIN t, t[k] = y PROVE y = x
    BY DEF Has
  <2>1. k = 1
    BY <1>1 DEF Ordered
  <2> QED BY <1>1, <2>1
<1> HIDE DEF t
<1>3. x # "land"
  BY DEF Doings
<1> QED BY <1>1, <1>2, <1>3, UnreadIsOwn DEF ErrandKnown, t

LEMMA BundleKnown ==
    ASSUME RowsKnown, NEW s \in E!Listings
    PROVE  OwnBundle(E!Bundle(s)) /\ Current(E!Bundle(s))
<1> DEFINE b == E!Bundle(s)
<1>1. /\ b.shown = s /\ b.media = video /\ b.papers = [d \in E!LivePapers |-> content[d]]
      /\ DOMAIN b = BundleFields
  BY DEF E!Bundle, BundleFields
<1> HIDE DEF b
<1>2. ASSUME NEW d \in E!LivePapers PROVE d \in E!Papers /\ (d \in mixed \/ content[d] = d)
  <2>1. d \in E!Papers /\ content[d] \notin {E!Unmade, E!Gone}
    BY DEF E!LivePapers
  <2> QED BY <2>1 DEF RowsKnown, E!PapersAreOwn
<1>3. DOMAIN b.papers = E!LivePapers /\ \A d \in E!LivePapers : b.papers[d] = content[d]
  BY <1>1
<1>4. OwnBundle(b)
  BY <1>1, <1>2, <1>3 DEF OwnBundle
<1>5. Current(b)
  BY <1>1 DEF Current
<1> QED BY <1>4, <1>5 DEF b

\* What the author does, and what happens to reads and the form: nothing the
\* server has, nothing the page shows.
LEMMA AuthorKeeps ==
    ASSUME EditorInv, E!OnPage, NEW p, NEW e, pane' = p, errand' = e,
           PaneKnown(p), p.course = pane.course, p.loading = pane.loading, p.seen = pane.seen,
           e = errand \/ (~E!Busy /\ ErrandKnown(e) /\ ~e.begun),
           \A r \in reads' : r \in reads \/ ReadKnown(r)
    PROVE  EditorInv'
<1>1. /\ UNCHANGED <<made, rank, video, content, excess, mixed, blurred>> /\ Kept
  BY DEF E!OnPage, Kept
<1>2. RowsKnown'
  BY <1>1 DEF EditorInv, RowsKnown, E!PapersAreOwn
<1>3. PaneKnown(p)' /\ (PaneKnown(pane))'
  BY <1>1 DEF PaneKnown, OwnBundle, Own
<1>4. \A b : Current(b)' <=> Current(b)
  BY <1>1, CurrentStays
<1>5. \A b : (OwnBundle(b)' <=> OwnBundle(b)) /\ (Own(b)' <=> Own(b))
  BY <1>1 DEF OwnBundle, Own
<1>6. ErrandKnown(e)
  BY DEF EditorInv
<1>7. (ErrandKnown(errand))'
  BY <1>4, <1>5, <1>6 DEF ErrandKnown
<1>8. PageShows'
  <2>1. Waiting(e) \/ ~Waiting(errand)
    <3>1. CASE e = errand
      BY <3>1
    <3>2. CASE ~E!Busy
      <4>1. errand.todo = <<>>
        BY <3>2 DEF E!Busy
      <4>2. \A x : ~Has(<<>>, x)
        BY DEF Has
      <4> QED BY <4>1, <4>2 DEF Waiting
    <3> QED BY <3>1, <3>2
  <2>2. (Waiting(errand))' <=> Waiting(e)
    BY DEF Waiting
  <2> QED BY <1>1, <1>4, <2>1, <2>2 DEF EditorInv, PageShows
<1>9. \A r \in reads' : ReadKnown(r)
  BY DEF EditorInv
<1>10. \A r \in reads' : ReadKnown(r)'
  BY <1>4, <1>5, <1>9 DEF ReadKnown
<1> QED BY <1>2, <1>3, <1>7, <1>8, <1>10 DEF EditorInv

-----------------------------------------------------------------------------
(* The author's acts.                                                      *)

ErrandFields == {"todo", "of", "holds", "late", "asset", "ids", "got", "begun"}

\* A change is started; the page and its reads stay.
LEMMA ActKeeps ==
    ASSUME EditorInv, E!OnPage, UNCHANGED <<pane, reads>>, ~E!Busy,
           NEW e, errand' = e, NEW x \in Doings, Starts(e.todo, x),
           DOMAIN e = ErrandFields, e.got = E!Unread, e.begun = FALSE,
           x = "course" => ~pane.course,
           x = "write" => e.of \in E!Papers /\ Own(e)
    PROVE  EditorInv'
<1>1. ErrandKnown(e)
  BY NewErrandKnown DEF ErrandFields
<1>2. PaneKnown(pane) /\ \A r \in reads' : r \in reads
  BY DEF EditorInv
<1> QED BY <1>1, <1>2, AuthorKeeps

LEMMA SaveKeeps ==
    ASSUME EditorInv, E!SaveBasics
    PROVE  EditorInv'
<1>1. ~E!Busy /\ E!OnPage /\ UNCHANGED <<pane, reads>>
  BY DEF E!SaveBasics, E!Ready
<1>2. PICK image \in {<<>>, <<"cover">>} :
         errand' = [E!NoErrand EXCEPT !.todo = IF pane.course THEN <<"patch">> \o image \o E!Reload
                                               ELSE <<"course">> \o E!Reload \o image]
  BY DEF E!SaveBasics, E!Acts
<1>3. ASSUME NEW t, errand' = [E!NoErrand EXCEPT !.todo = t], NEW x \in {"patch", "course"},
             Starts(t, x), x = "course" => ~pane.course
      PROVE  EditorInv'
  <2> DEFINE e == [E!NoErrand EXCEPT !.todo = t]
  <2>1. e.todo = t /\ DOMAIN e = ErrandFields /\ e.got = E!Unread /\ e.begun = FALSE
    BY DEF E!NoErrand, ErrandFields
  <2>2. errand' = e
    BY <1>3
  <2> HIDE DEF e
  <2>3. x \in Doings /\ x # "write" /\ Starts(e.todo, x)
    BY <1>3, <2>1 DEF Doings, ErrandSteps
  <2> QED BY <1>1, <1>3, <2>1, <2>2, <2>3, ActKeeps
<1>4. CASE pane.course
  <2>1. "patch" \in Doings /\ image \in Seq(Later) /\ Len(image) <= 2
    <3>1. <<>> \in Seq(Later) /\ Len(<<>>) <= 2
      OBVIOUS
    <3>2. <<"cover">> \in Seq(Later) /\ Len(<<"cover">>) <= 2
      BY DEF Later, Doings, ErrandSteps
    <3>3. "patch" \in Doings
      BY DEF Doings, ErrandSteps
    <3> QED BY <3>1, <3>2, <3>3, Zenon
  <2>2. Starts(<<"patch">> \o image \o E!Reload, "patch")
    BY <2>1, StartsMore, Zenon
  <2>3. errand' = [E!NoErrand EXCEPT !.todo = <<"patch">> \o image \o E!Reload]
    BY <1>2, <1>4, Zenon
  <2> QED BY <1>3, <1>4, <2>2, <2>3, Zenon
<1>5. CASE ~pane.course
  <2>1. Starts(<<"course">> \o E!Reload \o image, "course")
    BY StartsCreation, Zenon
  <2>2. errand' = [E!NoErrand EXCEPT !.todo = <<"course">> \o E!Reload \o image]
    BY <1>2, <1>5, Zenon
  <2> QED BY <1>3, <1>5, <2>1, <2>2, Zenon
<1> QED BY <1>4, <1>5

LEMMA SubmitLessonKeeps ==
    ASSUME EditorInv, E!SubmitLesson
    PROVE  EditorInv'
<1>1. ~E!Busy /\ E!OnPage /\ UNCHANGED <<pane, reads>>
  BY DEF E!SubmitLesson, E!Ready
<1> DEFINE x == IF pane.form.of = "new" THEN "post" ELSE "update"
<1>2. PICK file \in BOOLEAN :
         errand' = [E!NoErrand EXCEPT !.of = pane.form.of, !.asset = pane.form.asset,
                                      !.todo = <<x>> \o E!Swap(file) \o E!Reload]
  BY DEF E!SubmitLesson, E!Acts
<1>3. x \in Doings /\ x \notin {"course", "write"}
  BY DEF Doings, ErrandSteps
<1> HIDE DEF x
<1>4. E!Swap(file) \in Seq(Later) /\ Len(E!Swap(file)) <= 2
  <2>1. <<>> \in Seq(Later) /\ Len(<<>>) <= 2
    OBVIOUS
  <2>2. "upload" \in Later /\ "remove" \in Later
    BY DEF Later, Doings, ErrandSteps
  <2>3. <<"upload">> \in Seq(Later) /\ Len(<<"upload">>) <= 2
    BY <2>2
  <2>4. <<"remove", "upload">> \in Seq(Later) /\ Len(<<"remove", "upload">>) <= 2
    BY <2>2
  <2>5. E!Swap(file) \in {<<>>, <<"upload">>, <<"remove", "upload">>}
    BY DEF E!Swap
  <2> QED BY <2>1, <2>3, <2>4, <2>5, Zenon
<1> DEFINE t == <<x>> \o E!Swap(file) \o E!Reload
           e == [E!NoErrand EXCEPT !.of = pane.form.of, !.asset = pane.form.asset, !.todo = t]
<1>5. Starts(t, x)
  BY <1>3, <1>4, StartsMore, Zenon
<1> HIDE DEF t
<1>6. errand' = e
  BY <1>2 DEF t
<1>7. e.todo = t /\ DOMAIN e = ErrandFields /\ e.got = E!Unread /\ e.begun = FALSE
  BY DEF E!NoErrand, ErrandFields
<1> HIDE DEF e
<1> QED BY <1>1, <1>3, <1>5, <1>6, <1>7, ActKeeps

LEMMA SubmitPaperKeeps ==
    ASSUME EditorInv, E!SubmitPaper
    PROVE  EditorInv'
<1> DEFINE t == <<"write">> \o E!Reload
           e == [E!NoErrand EXCEPT !.todo = t, !.of = pane.form.of,
                                   !.holds = pane.form.holds, !.late = pane.form.late]
<1>1. /\ ~E!Busy /\ E!OnPage /\ UNCHANGED <<pane, reads>> /\ errand' = e
      /\ pane.form.of \in E!Papers
  BY DEF E!SubmitPaper, E!Ready, E!Acts
<1>2. "write" \in Doings
  BY DEF Doings, ErrandSteps
<1>3. Starts(t, "write")
  BY <1>2, StartsOne
<1> HIDE DEF t
<1>4. /\ e.todo = t /\ DOMAIN e = ErrandFields /\ e.got = E!Unread /\ e.begun = FALSE
      /\ e.of = pane.form.of /\ e.holds = pane.form.holds /\ e.late = pane.form.late
  BY DEF E!NoErrand, ErrandFields
<1> HIDE DEF e
<1>5. Own(e)
  BY <1>1, <1>4 DEF EditorInv, PaneKnown, Own
<1> QED BY <1>1, <1>2, <1>3, <1>4, <1>5, ActKeeps

\* Buttons: one request and the reload.
LEMMA ButtonKeeps ==
    ASSUME EditorInv, E!OnPage, UNCHANGED <<pane, reads>>, ~E!Busy,
           NEW x \in Doings, x \notin {"course", "write"}, NEW e, errand' = e,
           e.todo = <<x>> \o E!Reload,
           DOMAIN e = ErrandFields, e.got = E!Unread, e.begun = FALSE
    PROVE  EditorInv'
<1>1. Starts(e.todo, x)
  BY StartsOne, Zenon
<1> QED BY <1>1, ActKeeps

LEMMA PressKeeps ==
    ASSUME EditorInv, E!PressRow \/ E!PressPaper \/ E!PressOther
    PROVE  EditorInv'
<1>1. ~E!Busy /\ E!OnPage /\ UNCHANGED <<pane, reads>>
  BY DEF E!PressRow, E!PressPaper, E!PressOther, E!Free, E!Ready
<1>2. \E x \in {"delete", "remove", "reprocess", "move", "discard", "compose", "other"} : \E a, b, c :
          errand' = [E!NoErrand EXCEPT !.todo = <<x>> \o E!Reload, !.of = a, !.asset = b, !.ids = c]
  <2> DEFINE n == E!NoErrand
             Made3(x, a, b, c) == [n EXCEPT !.todo = <<x>> \o E!Reload, !.of = a, !.asset = b, !.ids = c]
  <2>1. CASE E!PressOther
    <3>1. errand' = Made3("other", n.of, n.asset, n.ids)
      BY <2>1 DEF E!PressOther, E!Acts, E!NoErrand
    <3> QED BY <3>1
  <2>2. CASE E!PressPaper
    <3>1. PICK d \in (DOMAIN pane.seen.papers) \cup E!Papers : E!Discard(d) \/ E!Compose(d)
      BY <2>2 DEF E!PressPaper
    <3>2. CASE E!Discard(d)
      <4>1. errand' = Made3("discard", d, n.asset, n.ids)
        BY <3>2 DEF E!Discard, E!Acts, E!NoErrand
      <4> QED BY <4>1
    <3>3. CASE E!Compose(d)
      <4>1. errand' = Made3("compose", d, n.asset, n.ids)
        BY <3>3 DEF E!Compose, E!Acts, E!NoErrand
      <4> QED BY <4>1
    <3> QED BY <3>1, <3>2, <3>3
  <2>3. CASE E!PressRow
    <3>1. PICK u \in Units : E!DeleteUnit(u) \/ E!ChangeVideo(u) \/ E!MoveUnit(u)
      BY <2>3 DEF E!PressRow
    <3>2. CASE E!DeleteUnit(u)
      <4>1. errand' = Made3("delete", u, n.asset, n.ids)
        BY <3>2 DEF E!DeleteUnit, E!Acts, E!NoErrand
      <4> QED BY <4>1
    <3>3. CASE E!ChangeVideo(u)
      <4>1. PICK step \in {"remove", "reprocess"} :
               errand' = [E!NoErrand EXCEPT !.todo = <<step>> \o E!Reload, !.of = u,
                                            !.asset = pane.seen.media[u].asset]
        BY <3>3 DEF E!ChangeVideo, E!Acts
      <4>2. errand' = Made3(step, u, pane.seen.media[u].asset, n.ids)
        BY <4>1 DEF E!NoErrand
      <4> QED BY <4>2
    <3>4. CASE E!MoveUnit(u)
      <4>1. \E c : errand' = [E!NoErrand EXCEPT !.todo = <<"move">> \o E!Reload, !.ids = c]
        BY <3>4 DEF E!MoveUnit, E!Acts
      <4>2. PICK c : errand' = [E!NoErrand EXCEPT !.todo = <<"move">> \o E!Reload, !.ids = c]
        BY <4>1
      <4>3. errand' = Made3("move", n.of, n.asset, c)
        BY <4>2 DEF E!NoErrand
      <4> QED BY <4>3
    <3> QED BY <3>1, <3>2, <3>3, <3>4
  <2> QED BY <2>1, <2>2, <2>3
<1>x. PICK x \in {"delete", "remove", "reprocess", "move", "discard", "compose", "other"} :
         \E a, b, c : errand' = [E!NoErrand EXCEPT !.todo = <<x>> \o E!Reload, !.of = a, !.asset = b, !.ids = c]
  BY <1>2
<1>3. PICK a, b, c :
          errand' = [E!NoErrand EXCEPT !.todo = <<x>> \o E!Reload, !.of = a, !.asset = b, !.ids = c]
  BY <1>x
<1> DEFINE t == <<x>> \o E!Reload
           e == [E!NoErrand EXCEPT !.todo = t, !.of = a, !.asset = b, !.ids = c]
<1> HIDE DEF t
<1>4. errand' = e
  BY <1>3 DEF t
<1>5. e.todo = t /\ DOMAIN e = ErrandFields /\ e.got = E!Unread /\ e.begun = FALSE
  BY DEF E!NoErrand, ErrandFields
<1>6. x \in Doings /\ x \notin {"course", "write"}
  BY DEF Doings, ErrandSteps
<1> HIDE DEF e
<1>7. e.todo = <<x>> \o E!Reload
  BY <1>5 DEF t
<1> QED BY <1>1, <1>4, <1>5, <1>6, <1>7, ButtonKeeps

-----------------------------------------------------------------------------
(* Forms, and what is read beside a change.                                *)

PaneFields == {"course", "shared", "loading", "quizLoading", "form", "seen"}
FormFields == {"of", "asset", "holds", "late"}

\* A page that differs in its form only.
LEMMA FormKeeps ==
    ASSUME EditorInv, E!OnPage, UNCHANGED errand, NEW p, pane' = p,
           DOMAIN p = PaneFields, p.course = pane.course, p.loading = pane.loading,
           p.seen = pane.seen,
           DOMAIN p.form = FormFields, p.form.of \in E!Papers => Own(p.form),
           \A r \in reads' : r \in reads \/ ReadKnown(r)
    PROVE  EditorInv'
<1>1. PaneKnown(p)
  BY DEF EditorInv, PaneKnown, PaneFields, FormFields
<1> QED BY <1>1, AuthorKeeps

LEMMA NoFormKnown ==
    /\ DOMAIN E!NoForm = FormFields /\ E!NoForm.of = "none" /\ E!NoForm.holds = E!Blank
    /\ E!NoForm.late = FALSE /\ Own(E!NoForm)
  BY DEF E!NoForm, FormFields, Own

\* A quiz's questions are asked for.
LEMMA AskedKnown ==
    ASSUME NEW d, NEW k, k = "quiz" => d \in E!Papers
    PROVE  ReadKnown([kind |-> k, of |-> d, got |-> E!Unread, old |-> FALSE])
<1> DEFINE r == [kind |-> k, of |-> d, got |-> E!Unread, old |-> FALSE]
<1>1. /\ DOMAIN r = {"kind", "of", "got", "old"} /\ r.kind = k /\ r.of = d /\ r.got = E!Unread
      /\ r.old = FALSE
  OBVIOUS
<1> HIDE DEF r
<1>2. ReadKnown(r)
  BY <1>1, UnreadIsOwn DEF ReadKnown
<1> QED BY <1>2 DEF r

LEMMA OpenFormKeeps ==
    ASSUME EditorInv, E!OpenLessonForm \/ E!OpenNewForm \/ E!Cancel
    PROVE  EditorInv'
<1>1. PaneKnown(pane)
  BY DEF EditorInv
<1>2. PICK f, b : /\ pane' = [pane EXCEPT !.form = f, !.quizLoading = b]
                  /\ DOMAIN f = FormFields /\ Own(f)
                  /\ E!OnPage /\ UNCHANGED <<errand, reads>>
  <2>1. CASE E!OpenLessonForm
    <3>1. PICK u \in Units : pane' = [pane EXCEPT !.form = [E!NoForm EXCEPT !.of = u,
                                                 !.asset = pane.seen.media[u].asset]]
      BY <2>1 DEF E!OpenLessonForm
    <3> DEFINE f == [E!NoForm EXCEPT !.of = u, !.asset = pane.seen.media[u].asset]
    <3>2. DOMAIN f = FormFields /\ f.holds = E!Blank
      BY DEF E!NoForm, FormFields
    <3>3. pane' = [pane EXCEPT !.form = f]
      BY <3>1
    <3> HIDE DEF f
    <3>4. pane' = [pane EXCEPT !.form = f, !.quizLoading = pane.quizLoading]
      BY <1>1, <3>3 DEF PaneKnown
    <3>5. E!OnPage /\ UNCHANGED <<errand, reads>>
      BY <2>1 DEF E!OpenLessonForm
    <3> QED BY <3>2, <3>4, <3>5 DEF Own
  <2>2. CASE E!OpenNewForm
    <3> DEFINE f == [E!NoForm EXCEPT !.of = "new"]
    <3>2. DOMAIN f = FormFields /\ f.holds = E!Blank
      BY DEF E!NoForm, FormFields
    <3>3. pane' = [pane EXCEPT !.form = f]
      BY <2>2 DEF E!OpenNewForm
    <3> HIDE DEF f
    <3>4. pane' = [pane EXCEPT !.form = f, !.quizLoading = pane.quizLoading]
      BY <1>1, <3>3 DEF PaneKnown
    <3>5. E!OnPage /\ UNCHANGED <<errand, reads>>
      BY <2>2 DEF E!OpenNewForm
    <3> QED BY <3>2, <3>4, <3>5 DEF Own
  <2>3. CASE E!Cancel
    BY <2>3, NoFormKnown DEF E!Cancel
  <2> QED BY <2>1, <2>2, <2>3
<1> DEFINE p == [pane EXCEPT !.form = f, !.quizLoading = b]
<1>3. /\ DOMAIN p = PaneFields /\ p.course = pane.course /\ p.loading = pane.loading
      /\ p.seen = pane.seen /\ p.form = f
  BY <1>1 DEF PaneKnown, PaneFields
<1>4. pane' = p
  BY <1>2
<1> HIDE DEF p
<1> QED BY <1>2, <1>3, <1>4, FormKeeps

LEMMA OpenPaperKeeps ==
    ASSUME EditorInv, E!OpenPaper
    PROVE  EditorInv'
<1>1. PaneKnown(pane)
  BY DEF EditorInv
<1>2. PICK d \in DOMAIN pane.seen.papers :
         IF d \in QuizPapers
         THEN /\ pane' = [pane EXCEPT !.form = [E!NoForm EXCEPT !.of = d], !.quizLoading = TRUE]
              /\ reads' = reads \cup {[kind |-> "quiz", of |-> d, got |-> E!Unread, old |-> FALSE]}
         ELSE /\ pane' = [pane EXCEPT !.form = [E!NoForm EXCEPT !.of = d, !.holds = pane.seen.papers[d]]]
              /\ UNCHANGED reads
  BY DEF E!OpenPaper
<1>3. E!OnPage /\ UNCHANGED errand
  BY DEF E!OpenPaper
<1>4. d \in E!Papers /\ (d \in mixed \/ pane.seen.papers[d] = d)
  BY <1>1 DEF PaneKnown, OwnBundle
<1>5. \A r \in reads' : r \in reads \/ ReadKnown(r)
  BY <1>2, <1>4, AskedKnown
<1>6. CASE d \in QuizPapers
  <2> DEFINE f == [E!NoForm EXCEPT !.of = d]
             p == [pane EXCEPT !.form = f, !.quizLoading = TRUE]
  <2>1. DOMAIN f = FormFields /\ f.holds = E!Blank
    BY DEF E!NoForm, FormFields
  <2>2. pane' = p
    BY <1>2, <1>6
  <2> HIDE DEF f
  <2>3. /\ DOMAIN p = PaneFields /\ p.course = pane.course /\ p.loading = pane.loading
        /\ p.seen = pane.seen /\ p.form = f
    BY <1>1 DEF PaneKnown, PaneFields
  <2> HIDE DEF p
  <2> QED BY <1>3, <1>5, <2>1, <2>2, <2>3, FormKeeps DEF Own
<1>7. CASE d \notin QuizPapers
  <2> DEFINE f == [E!NoForm EXCEPT !.of = d, !.holds = pane.seen.papers[d]]
             p == [pane EXCEPT !.form = f]
  <2>1. DOMAIN f = FormFields /\ f.of = d /\ f.holds = pane.seen.papers[d]
    BY DEF E!NoForm, FormFields
  <2>2. pane' = p
    BY <1>2, <1>7
  <2> HIDE DEF f
  <2>3. /\ DOMAIN p = PaneFields /\ p.course = pane.course /\ p.loading = pane.loading
        /\ p.seen = pane.seen /\ p.form = f
    BY <1>1 DEF PaneKnown, PaneFields
  <2>4. Own(f)
    BY <1>4, <2>1 DEF Own
  <2> HIDE DEF p
  <2> QED BY <1>3, <1>5, <2>1, <2>2, <2>3, <2>4, FormKeeps
<1> QED BY <1>6, <1>7

LEMMA PollKeeps ==
    ASSUME EditorInv, E!Poll
    PROVE  EditorInv'
<1>1. /\ reads' = reads \cup {[kind |-> "poll", of |-> "none", got |-> E!Unread, old |-> FALSE]}
      /\ UNCHANGED <<pane, errand>> /\ E!OnPage
  BY DEF E!Poll
<1>2. \A r \in reads' : r \in reads \/ ReadKnown(r)
  BY <1>1, AskedKnown
<1>3. PaneKnown(pane)
  BY DEF EditorInv
<1> QED BY <1>1, <1>2, <1>3, AuthorKeeps

LEMMA ReadAnsweredKeeps ==
    ASSUME EditorInv, NEW r \in reads, E!ReadAnswered(r)
    PROVE  EditorInv'
<1>1. PICK s \in E!Listings : reads' = (reads \ {r}) \cup {[r EXCEPT !.got = E!Bundle(s)]}
  BY DEF E!ReadAnswered
<1>2. /\ r.kind # "quiz" /\ UNCHANGED <<pane, errand>> /\ E!OnPage
  BY DEF E!ReadAnswered
<1> DEFINE b == E!Bundle(s)
           q == [r EXCEPT !.got = b]
<1>3. OwnBundle(b) /\ Current(b)
  BY BundleKnown DEF EditorInv
<1> HIDE DEF b
<1>4. DOMAIN q = {"kind", "of", "got", "old"} /\ q.kind = r.kind /\ q.got = b
  BY DEF EditorInv, ReadKnown
<1> HIDE DEF q
<1>5. ReadKnown(q)
  BY <1>2, <1>3, <1>4 DEF ReadKnown
<1>6. \A x \in reads' : x \in reads \/ ReadKnown(x)
  BY <1>1, <1>5 DEF q, b
<1>7. PaneKnown(pane)
  BY DEF EditorInv
<1> QED BY <1>2, <1>6, <1>7, AuthorKeeps

LEMMA QuizLandsKeeps ==
    ASSUME EditorInv, NEW r \in reads, E!QuizLands(r)
    PROVE  EditorInv'
<1>1. PaneKnown(pane) /\ RowsKnown
  BY DEF EditorInv
<1>2. /\ r.of \in E!LivePapers /\ reads' = reads \ {r} /\ UNCHANGED errand /\ E!OnPage
  BY DEF E!QuizLands
<1> DEFINE fills == pane.form.of \in QuizPapers \/ (pane.shared /\ pane.form.of \in Tasks)
           filled == [pane.form EXCEPT !.holds = content[r.of], !.late = pane.form.of # r.of]
           f == IF fills THEN filled ELSE pane.form
           p == [pane EXCEPT !.quizLoading = FALSE, !.form = f]
<1>3. pane' = p
  BY DEF E!QuizLands
<1>4. r.of \in mixed \/ content[r.of] = r.of
  BY <1>1, <1>2 DEF RowsKnown, E!PapersAreOwn, E!LivePapers
<1>5. /\ DOMAIN filled = FormFields /\ filled.of = pane.form.of /\ filled.holds = content[r.of]
      /\ filled.late = (pane.form.of # r.of)
  BY <1>1 DEF PaneKnown, FormFields
<1> HIDE DEF filled, fills
<1>6. Own(filled)
  <2>1. CASE pane.form.of = r.of
    BY <1>4, <1>5, <2>1 DEF Own
  <2>2. CASE pane.form.of # r.of
    BY <1>5, <2>2 DEF Own
  <2> QED BY <2>1, <2>2
<1>7. DOMAIN f = FormFields /\ (f.of \in E!Papers => Own(f))
  <2>1. CASE fills
    BY <1>5, <1>6, <2>1
  <2>2. CASE ~fills
    BY <1>1, <2>2 DEF PaneKnown, FormFields
  <2> QED BY <2>1, <2>2
<1> HIDE DEF f
<1>8. /\ DOMAIN p = PaneFields /\ p.course = pane.course /\ p.loading = pane.loading
      /\ p.seen = pane.seen /\ p.form = f
  BY <1>1 DEF PaneKnown, PaneFields
<1> HIDE DEF p
<1> QED BY <1>2, <1>3, <1>7, <1>8, FormKeeps

\* Steps that store nothing: an answer lands or fails, a change goes on or stops.
LEMMA StoreKeeps ==
    ASSUME EditorInv, UNCHANGED <<made, rank, video, content, excess, mixed>>,
           NEW p, NEW e, pane' = p, errand' = e,
           PaneKnown(p), p.course <=> pane.course, ErrandKnown(e),
           p.course /\ ~p.loading /\ ~blurred' /\ ~Waiting(e) => Current(p.seen),
           \A r \in reads' : ReadKnown(r)
    PROVE  EditorInv'
<1>1. Kept
  BY DEF Kept
<1>2. RowsKnown'
  BY DEF EditorInv, RowsKnown, E!PapersAreOwn
<1>3. (PaneKnown(pane))'
  BY DEF PaneKnown, OwnBundle, Own
<1>4. \A b : Current(b)' <=> Current(b)
  BY <1>1, CurrentStays
<1>5. \A b : (OwnBundle(b)' <=> OwnBundle(b)) /\ (Own(b)' <=> Own(b))
  BY DEF OwnBundle, Own
<1>6. (ErrandKnown(errand))'
  BY <1>4, <1>5 DEF ErrandKnown
<1>7. PageShows'
  <2>1. (Waiting(errand))' <=> Waiting(e)
    BY DEF Waiting
  <2> QED BY <1>4, <2>1 DEF PageShows
<1>8. \A r \in reads' : ReadKnown(r)'
  BY <1>4, <1>5 DEF ReadKnown
<1> QED BY <1>2, <1>3, <1>6, <1>7, <1>8 DEF EditorInv

LEMMA ReadFailsKeeps ==
    ASSUME EditorInv, NEW r \in reads, E!ReadFails(r)
    PROVE  EditorInv'
<1>1. PaneKnown(pane) /\ ErrandKnown(errand) /\ PageShows
  BY DEF EditorInv
<1>2. /\ reads' = reads \ {r} /\ blurred' = (blurred \/ r.kind = "boot")
      /\ UNCHANGED <<made, rank, video, content, errand, excess, mixed>>
  BY DEF E!ReadFails
<1>3. \A q \in reads' : ReadKnown(q)
  BY <1>2 DEF EditorInv
<1>4. CASE r.kind = "quiz"
  <2> DEFINE f == IF pane.form.of \in QuizPapers \/ pane.shared THEN E!NoForm ELSE pane.form
             p == [pane EXCEPT !.quizLoading = FALSE, !.form = f]
  <2>1. pane' = p
    BY <1>4 DEF E!ReadFails
  <2>2. DOMAIN f = FormFields /\ (f.of \in E!Papers => Own(f))
    BY <1>1, NoFormKnown DEF PaneKnown, FormFields
  <2> HIDE DEF f
  <2>3. /\ DOMAIN p = PaneFields /\ p.course = pane.course /\ p.loading = pane.loading
        /\ p.seen = pane.seen /\ p.form = f
    BY <1>1 DEF PaneKnown, PaneFields
  <2> HIDE DEF p
  <2>4. PaneKnown(p)
    BY <1>1, <2>2, <2>3 DEF PaneKnown, PaneFields, FormFields
  <2>5. p.course /\ ~p.loading /\ ~blurred' /\ ~Waiting(errand) => Current(p.seen)
    BY <1>1, <1>2, <2>3 DEF PageShows
  <2> QED BY <1>1, <1>2, <1>3, <2>1, <2>3, <2>4, <2>5, StoreKeeps
<1>5. CASE r.kind # "quiz"
  <2> DEFINE l == pane.loading /\ r.kind # "boot"
             p == [pane EXCEPT !.loading = l]
  <2>1. pane' = p
    BY <1>5 DEF E!ReadFails
  <2>2. r.kind # "boot" => (l <=> pane.loading)
    OBVIOUS
  <2> HIDE DEF l
  <2>3. /\ DOMAIN p = PaneFields /\ p.course = pane.course /\ p.loading = l
        /\ p.seen = pane.seen /\ p.form = pane.form
    BY <1>1 DEF PaneKnown, PaneFields
  <2> HIDE DEF p
  <2>4. PaneKnown(p)
    BY <1>1, <2>3 DEF PaneKnown, PaneFields
  <2>5. p.course /\ ~p.loading /\ ~blurred' /\ ~Waiting(errand) => Current(p.seen)
    BY <1>1, <1>2, <2>2, <2>3 DEF PageShows
  <2> QED BY <1>1, <1>2, <1>3, <2>1, <2>3, <2>4, <2>5, StoreKeeps
<1> QED BY <1>4, <1>5

LEMMA ReadLandsKeeps ==
    ASSUME EditorInv, NEW r \in reads, E!ReadLands(r)
    PROVE  EditorInv'
<1>1. PaneKnown(pane) /\ ErrandKnown(errand) /\ PageShows /\ ReadKnown(r)
  BY DEF EditorInv
<1>2. /\ reads' = reads \ {r} /\ blurred' = (blurred \/ r.old)
      /\ r.kind # "quiz" /\ r.got # E!Unread
      /\ UNCHANGED <<made, rank, video, content, errand, excess, mixed>>
  BY DEF E!ReadLands
<1>3. \A q \in reads' : ReadKnown(q)
  BY <1>2 DEF EditorInv
<1>4. OwnBundle(r.got) /\ (~blurred' => Current(r.got))
  BY <1>1, <1>2 DEF ReadKnown
<1>5. CASE r.kind = "boot"
  <2> DEFINE p == [pane EXCEPT !.seen = r.got, !.loading = FALSE]
  <2>1. pane' = p
    BY <1>5 DEF E!ReadLands
  <2>2. /\ DOMAIN p = PaneFields /\ p.course = pane.course /\ p.seen = r.got /\ p.form = pane.form
    BY <1>1 DEF PaneKnown, PaneFields
  <2> HIDE DEF p
  <2>3. PaneKnown(p)
    BY <1>1, <1>4, <2>2 DEF PaneKnown, PaneFields
  <2>4. p.course /\ ~p.loading /\ ~blurred' /\ ~Waiting(errand) => Current(p.seen)
    BY <1>4, <2>2
  <2> QED BY <1>1, <1>2, <1>3, <2>1, <2>2, <2>3, <2>4, StoreKeeps
<1>6. CASE r.kind # "boot"
  <2> DEFINE b == [pane.seen EXCEPT !.shown = r.got.shown, !.media = r.got.media]
             p == [pane EXCEPT !.seen = b]
  <2>1. pane' = p
    <3>1. pane' = [pane EXCEPT !.seen.shown = r.got.shown, !.seen.media = r.got.media]
      BY <1>6 DEF E!ReadLands
    <3> QED BY <1>1, <3>1 DEF PaneKnown
  <2>2. /\ DOMAIN b = BundleFields /\ b.shown = r.got.shown /\ b.media = r.got.media
        /\ b.papers = pane.seen.papers
    BY <1>1 DEF PaneKnown, OwnBundle, BundleFields
  <2> HIDE DEF b
  <2>3. /\ DOMAIN p = PaneFields /\ p.course = pane.course /\ p.loading = pane.loading
        /\ p.seen = b /\ p.form = pane.form
    BY <1>1 DEF PaneKnown, PaneFields
  <2> HIDE DEF p
  <2>4. OwnBundle(b)
    BY <1>1, <2>2 DEF PaneKnown, OwnBundle
  <2>5. PaneKnown(p)
    BY <1>1, <2>3, <2>4 DEF PaneKnown, PaneFields
  <2>6. p.course /\ ~p.loading /\ ~blurred' /\ ~Waiting(errand) => Current(p.seen)
    <3> SUFFICES ASSUME p.course, ~p.loading, ~blurred', ~Waiting(errand) PROVE Current(b)
      BY <2>3
    <3>1. Current(pane.seen) /\ Current(r.got)
      BY <1>1, <1>2, <1>4, <2>3 DEF PageShows
    <3> QED BY <2>2, <3>1 DEF Current
  <2> QED BY <1>1, <1>2, <1>3, <2>1, <2>3, <2>5, <2>6, StoreKeeps
<1> QED BY <1>5, <1>6

-----------------------------------------------------------------------------
(* The reload of a change.                                                 *)

LEMMA ReloadReadKeeps ==
    ASSUME EditorInv, E!ReloadRead
    PROVE  EditorInv'
<1> DEFINE t == errand.todo
<1>1. /\ PaneKnown(pane) /\ ErrandKnown(errand) /\ PageShows /\ RowsKnown
      /\ \A r \in reads : ReadKnown(r)
  BY DEF EditorInv
<1>2. PICK s \in E!Listings : errand' = [errand EXCEPT !.todo = Tail(t), !.got = E!Bundle(s)]
  BY DEF E!ReloadRead
<1>3. /\ t # <<>> /\ Head(t) = "read"
      /\ UNCHANGED <<made, rank, video, content, pane, reads, excess, mixed, blurred>>
  BY DEF E!ReloadRead, E!Busy, E!Step
<1> DEFINE b == E!Bundle(s)
           u == Tail(t)
           e == [errand EXCEPT !.todo = u, !.got = b]
<1>4. OwnBundle(b) /\ Current(b)
  BY <1>1, BundleKnown
<1>5. Ordered(t)
  BY <1>1 DEF ErrandKnown
<1>6. /\ Ordered(u) /\ ~Has(u, "course") /\ ~Has(u, "write")
      /\ \A x : Has(t, x) => x = Head(t) \/ Has(u, x)
  BY <1>3, <1>5, TailOrdered
<1>7. errand' = e
  BY <1>2
<1> HIDE DEF b, u
<1>8. DOMAIN e = ErrandFields /\ e.todo = u /\ e.got = b /\ e.begun = errand.begun
  BY <1>1 DEF ErrandKnown, ErrandFields
<1> HIDE DEF e
<1>9. ErrandKnown(e)
  BY <1>4, <1>6, <1>8 DEF ErrandKnown, ErrandFields
<1>10. ~Waiting(e) => ~Waiting(errand)
  BY <1>3, <1>6, <1>8 DEF Waiting
<1>11. pane.course /\ ~pane.loading /\ ~blurred' /\ ~Waiting(e) => Current(pane.seen)
  BY <1>1, <1>3, <1>10 DEF PageShows
<1> QED BY <1>1, <1>3, <1>7, <1>9, <1>11, StoreKeeps

LEMMA ReloadLandsKeeps ==
    ASSUME EditorInv, E!ReloadLands
    PROVE  EditorInv'
<1> DEFINE t == errand.todo
           u == Tail(t)
           e == IF Len(t) = 1 THEN E!NoErrand ELSE [errand EXCEPT !.todo = u]
           f == IF E!Closes("land", <<>>) THEN E!NoForm ELSE pane.form
           c == E!KnowsCourse("land")
           p == [pane EXCEPT !.course = c, !.seen = errand.got, !.form = f]
<1>1. /\ PaneKnown(pane) /\ ErrandKnown(errand) /\ PageShows
      /\ \A r \in reads : ReadKnown(r)
  BY DEF EditorInv
<1>2. /\ t # <<>> /\ Head(t) = "land" /\ errand' = e /\ pane' = p
      /\ UNCHANGED <<made, rank, video, content, reads, excess, mixed>>
  BY DEF E!ReloadLands, E!Busy, E!Step
<1>3. Ordered(t) /\ OwnBundle(errand.got) /\ Current(errand.got)
  BY <1>1, <1>2 DEF ErrandKnown
<1>4. /\ Ordered(u) /\ ~Has(u, "course") /\ ~Has(u, "write")
      /\ u # <<>> => Head(u) # "land"
  BY <1>2, <1>3, TailOrdered
<1>5. ErrandKnown(e)
  <2> DEFINE d == [errand EXCEPT !.todo = u]
  <2> HIDE DEF u
  <2>1. DOMAIN d = ErrandFields /\ d.todo = u /\ d.got = errand.got
    BY <1>1 DEF ErrandKnown, ErrandFields
  <2> HIDE DEF d
  <2>2. ErrandKnown(d)
    BY <1>3, <1>4, <2>1 DEF ErrandKnown, ErrandFields
  <2> QED BY <2>2, NoErrandKnown DEF d
<1>6. c <=> pane.course
  BY DEF E!KnowsCourse
<1>7. DOMAIN f = FormFields /\ (f.of \in E!Papers => Own(f))
  BY <1>1, NoFormKnown DEF PaneKnown, FormFields
<1> HIDE DEF e, f, c
<1>8. DOMAIN p = PaneFields /\ p.course = c /\ p.seen = errand.got /\ p.form = f
  BY <1>1 DEF PaneKnown, PaneFields
<1> HIDE DEF p
<1>9. PaneKnown(p)
  BY <1>3, <1>7, <1>8 DEF PaneKnown, PaneFields, FormFields
<1>10. p.course /\ ~p.loading /\ ~blurred' /\ ~Waiting(e) => Current(p.seen)
  BY <1>3, <1>8
<1>11. /\ p.course <=> pane.course
       /\ \A r \in reads' : ReadKnown(r)
       /\ errand' = e /\ pane' = p
  BY <1>1, <1>2, <1>6, <1>8
<1> QED BY <1>2, <1>5, <1>9, <1>10, <1>11, StoreKeeps

-----------------------------------------------------------------------------
(* The requests of a change, and the worker.                               *)

\* A request stores nothing of another paper, unless a late answer put it there.
LEMMA EffectFacts ==
    ASSUME RowsKnown, NEW x, E!Accepted(x), E!Effect(x),
           x = "write" => errand.of \in E!Papers /\ Own(errand)
    PROVE  /\ mixed \subseteq mixed' /\ E!PapersAreOwn'
           /\ DOMAIN rank' = Units /\ DOMAIN video' = Units /\ DOMAIN content' = E!Papers
           /\ \A u \in Units : DOMAIN video'[u] = {"asset", "status"}
           /\ made' = IF x = "course" THEN made + 1 ELSE made
           /\ x = "cover" => Kept
<1> DEFINE o == errand.of
<1>1. /\ DOMAIN rank = Units /\ DOMAIN video = Units /\ DOMAIN content = E!Papers
      /\ \A u \in Units : DOMAIN video[u] = {"asset", "status"}
      /\ \A d \in E!Papers \ mixed : content[d] \in {d, E!Unmade, E!Gone}
  BY DEF RowsKnown, E!PapersAreOwn
<1>2. mixed' = IF x = "write" /\ errand.late THEN mixed \cup {o} ELSE mixed
  BY DEF E!Effect
<1>3. mixed \subseteq mixed'
  BY <1>2
<1>4. DOMAIN rank' = Units
  <2>1. \/ \E u, n : rank' = [rank EXCEPT ![u] = n]
        \/ rank' = E!Reordered(errand.ids)
        \/ rank' = rank
    BY DEF E!Effect
  <2> QED BY <1>1, <2>1 DEF E!Reordered
<1>5. DOMAIN video' = Units /\ \A u \in Units : DOMAIN video'[u] = {"asset", "status"}
  <2>1. \/ \E u, n, s : video' = [video EXCEPT ![u] = E!Asset(n, s)]
        \/ video' = [video EXCEPT ![o].status = "processing"]
        \/ video' = video
    BY DEF E!Effect
  <2>2. ASSUME NEW u, NEW n, NEW s, video' = [video EXCEPT ![u] = E!Asset(n, s)]
        PROVE  DOMAIN video' = Units /\ \A w \in Units : DOMAIN video'[w] = {"asset", "status"}
    BY <1>1, <2>2 DEF E!Asset
  <2>3. ASSUME video' = [video EXCEPT ![o].status = "processing"]
        PROVE  DOMAIN video' = Units /\ \A w \in Units : DOMAIN video'[w] = {"asset", "status"}
    BY <1>1, <2>3
  <2> QED BY <1>1, <2>1, <2>2, <2>3
<1>6. DOMAIN content' = E!Papers /\ E!PapersAreOwn'
  <2>1. CASE x = "write"
    <3>1. content' = [content EXCEPT ![o] = errand.holds] /\ errand.holds # E!Blank /\ Own(errand)
          /\ o \in E!Papers
      BY <2>1 DEF E!Effect, E!Accepted
    <3>2. o \in mixed' \/ errand.holds = o
      BY <1>2, <2>1, <3>1 DEF Own
    <3> QED BY <1>1, <1>3, <3>1, <3>2 DEF E!PapersAreOwn
  <2>2. CASE x = "compose"
    <3>1. content' = [content EXCEPT ![o] = o]
      BY <2>2 DEF E!Effect
    <3> QED BY <1>1, <1>3, <3>1 DEF E!PapersAreOwn
  <2>3. CASE x = "discard"
    <3>1. content' = [content EXCEPT ![o] = E!Gone]
      BY <2>3 DEF E!Effect
    <3> QED BY <1>1, <1>3, <3>1 DEF E!PapersAreOwn
  <2>4. CASE x \notin {"write", "compose", "discard"}
    <3>1. content' = content
      BY <2>4 DEF E!Effect
    <3> QED BY <1>1, <1>3, <3>1 DEF E!PapersAreOwn
  <2> QED BY <2>1, <2>2, <2>3, <2>4
<1>7. made' = IF x = "course" THEN made + 1 ELSE made
  BY DEF E!Effect
<1>8. x = "cover" => Kept
  BY DEF E!Effect, Kept
<1> QED BY <1>3, <1>4, <1>5, <1>6, <1>7, <1>8

\* After a request was done: the reads beside it are out of date, the change has
\* not landed, and the page shows what there is or the flags tell why not.
LEMMA EffectKeeps ==
    ASSUME EditorInv, NEW x, E!Accepted(x), E!Effect(x),
           x = "write" => errand.of \in E!Papers /\ Own(errand),
           NEW p, NEW e, pane' = p, errand' = e, PaneKnown(p),
           excess' \in Nat, made' <= 1 + excess', ~p.course => made' <= excess',
           DOMAIN e = ErrandFields, Ordered(e.todo), ~Has(e.todo, "course"), ~Has(e.todo, "write"),
           OwnBundle(e.got), e.todo # <<>> => Head(e.todo) # "land",
           p.course /\ ~p.loading /\ ~blurred' /\ ~Waiting(e) => Kept /\ Current(p.seen),
           \A r \in reads' : r \in E!Aged \/ r = E!Boot
    PROVE  EditorInv'
<1>1. RowsKnown /\ \A r \in reads : ReadKnown(r)
  BY DEF EditorInv
<1>2. /\ mixed \subseteq mixed' /\ E!PapersAreOwn'
      /\ DOMAIN rank' = Units /\ DOMAIN video' = Units /\ DOMAIN content' = E!Papers
      /\ \A u \in Units : DOMAIN video'[u] = {"asset", "status"}
      /\ made' = IF x = "course" THEN made + 1 ELSE made
  BY <1>1, EffectFacts
<1>3. RowsKnown'
  <2>1. made \in Nat
    BY <1>1 DEF RowsKnown
  <2>2. made' \in Nat
    BY <1>2, <2>1
  <2>3. excess' \in Nat /\ made' <= 1 + excess' /\ (~pane'.course => made' <= excess')
    OBVIOUS
  <2> QED BY <1>2, <2>2, <2>3 DEF RowsKnown
<1>4. \A b : (OwnBundle(b) => OwnBundle(b)') /\ (Own(b) => Own(b)')
  BY <1>2, OwnStays
<1>5. (PaneKnown(pane))'
  BY <1>4 DEF PaneKnown
<1>6. (ErrandKnown(errand))'
  BY <1>4 DEF ErrandKnown, ErrandFields
<1>7. PageShows'
  <2>1. (Waiting(errand))' <=> Waiting(e)
    BY DEF Waiting
  <2> SUFFICES ASSUME p.course, ~p.loading, ~blurred', ~Waiting(e)
               PROVE  Current(p.seen)'
    BY <2>1 DEF PageShows
  <2>2. Kept /\ Current(p.seen)
    OBVIOUS
  <2> QED BY <2>2, CurrentStays
<1>8. ASSUME NEW r \in reads' PROVE ReadKnown(r)'
  <2>1. CASE r \in E!Aged
    <3>1. PICK q \in reads : r = [q EXCEPT !.old = q.old \/ q.got # E!Unread]
      BY <2>1 DEF E!Aged
    <3> DEFINE aged == q.old \/ q.got # E!Unread
    <3>2. ReadKnown(q)
      BY <1>1
    <3>3. r = [q EXCEPT !.old = aged]
      BY <3>1
    <3> HIDE DEF aged
    <3>4. /\ DOMAIN r = {"kind", "of", "got", "old"} /\ r.kind = q.kind /\ r.of = q.of
          /\ r.got = q.got /\ r.old = aged
      BY <3>2, <3>3 DEF ReadKnown
    <3>5. r.got # E!Unread => r.old
      BY <3>4 DEF aged
    <3> QED BY <1>4, <3>2, <3>4, <3>5 DEF ReadKnown
  <2>2. CASE r = E!Boot
    <3>1. /\ DOMAIN r = {"kind", "of", "got", "old"} /\ r.kind = "boot" /\ r.got = E!Unread
      BY <2>2 DEF E!Boot
    <3> QED BY <1>4, <3>1, UnreadIsOwn DEF ReadKnown
  <2> QED BY <2>1, <2>2
<1> QED BY <1>3, <1>5, <1>6, <1>7, <1>8 DEF EditorInv

LEMMA StepDoneKeeps ==
    ASSUME EditorInv, E!StepDone
    PROVE  EditorInv'
<1> DEFINE t == errand.todo
           u == Tail(t)
           x == E!Step
           o == IF x = "post" THEN E!NewUnit ELSE errand.of
           d == [errand EXCEPT !.todo = u, !.begun = TRUE, !.of = o]
           e == IF Len(t) = 1 THEN E!NoErrand ELSE d
           f == IF E!Closes(x, u) THEN E!NoForm ELSE pane.form
           c == E!KnowsCourse(x)
           l == pane.loading \/ x = "course"
           p == [pane EXCEPT !.course = c, !.loading = l, !.form = f]
<1>1. /\ RowsKnown /\ PaneKnown(pane) /\ ErrandKnown(errand) /\ PageShows
  BY DEF EditorInv
<1>2. /\ t # <<>> /\ x = Head(t) /\ x \notin {"read", "land"} /\ E!Accepted(x) /\ E!Effect(x)
      /\ pane' = p /\ UNCHANGED <<excess, blurred>>
      /\ \A r \in reads' : r \in E!Aged \/ r = E!Boot
  <2>1. {"read", "land"} \subseteq E!ToSet(E!Reload)
    <3>1. 1 \in DOMAIN E!Reload /\ 2 \in DOMAIN E!Reload /\ E!Reload[1] = "read" /\ E!Reload[2] = "land"
      BY DEF E!Reload
    <3> QED BY <3>1 DEF E!ToSet
  <2> QED BY <2>1 DEF E!StepDone, E!Busy, E!Step
<1>3. errand' = e
  <2>1. errand' = IF Len(errand.todo) = 1 THEN E!NoErrand
                  ELSE [errand EXCEPT !.todo = Tail(@), !.begun = TRUE,
                                      !.of = IF E!Step = "post" THEN E!NewUnit ELSE @]
    BY DEF E!StepDone
  <2> QED BY <2>1
<1>4. /\ Ordered(u) /\ ~Has(u, "course") /\ ~Has(u, "write")
      /\ \A y : Has(t, y) => y = x \/ Has(u, y)
      /\ u # <<>> => Head(u) # "land"
      /\ x # "cover" => Has(u, "land")
      /\ Len(t) = 1 <=> u = <<>>
      /\ Has(t, x)
  <2>1. Ordered(t)
    BY <1>1 DEF ErrandKnown
  <2>2. Has(t, x)
    <3>1. 1 \in DOMAIN t /\ t[1] = Head(t)
      BY <1>2, <2>1 DEF Ordered
    <3> QED BY <1>2, <3>1 DEF Has
  <2> HIDE DEF t, x
  <2> QED BY <1>2, <2>1, <2>2, TailOrdered
<1>5. x = "course" => ~pane.course
  BY <1>1, <1>4 DEF ErrandKnown
<1>6. x = "write" => errand.of \in E!Papers /\ Own(errand)
  BY <1>1, <1>4 DEF ErrandKnown
<1>7. c <=> pane.course \/ x = "course"
  BY DEF E!KnowsCourse
<1>8. DOMAIN f = FormFields /\ (f.of \in E!Papers => Own(f))
  BY <1>1, NoFormKnown DEF PaneKnown, FormFields
<1> HIDE DEF u, x, o, f, c
<1>9. /\ DOMAIN d = ErrandFields /\ d.todo = u /\ d.begun = TRUE /\ d.got = errand.got
  BY <1>1 DEF ErrandKnown, ErrandFields
<1> HIDE DEF d
<1>10. /\ DOMAIN e = ErrandFields /\ Ordered(e.todo) /\ ~Has(e.todo, "course") /\ ~Has(e.todo, "write")
       /\ OwnBundle(e.got) /\ (e.todo # <<>> => Head(e.todo) # "land")
  <2>1. CASE Len(t) = 1
    <3>1. e = E!NoErrand
      BY <2>1
    <3>2. ErrandKnown(e) /\ e.todo = <<>>
      BY <3>1, NoErrandKnown
    <3>3. \A y : ~Has(<<>>, y)
      BY DEF Has
    <3> QED BY <3>2, <3>3 DEF ErrandKnown, ErrandFields
  <2>2. CASE Len(t) # 1
    <3>1. e = d
      BY <2>2
    <3> QED BY <1>1, <1>4, <1>9, <3>1 DEF ErrandKnown
  <2> QED BY <2>1, <2>2
<1>11. ~Waiting(e) => x = "cover" /\ ~Waiting(errand)
  <2> SUFFICES ASSUME ~Waiting(e) PROVE x = "cover" /\ ~Waiting(errand)
    OBVIOUS
  <2>1. ~Has(u, "land")
    <3> SUFFICES ASSUME Has(u, "land") PROVE FALSE
      OBVIOUS
    <3>1. u # <<>>
      BY DEF Has
    <3>2. e = d
      BY <1>4, <3>1
    <3> QED BY <1>9, <3>2 DEF Waiting
  <2>2. x = "cover"
    BY <1>4, <2>1
  <2>3. ~Has(t, "land")
    BY <1>4, <2>1, <2>2
  <2> QED BY <2>2, <2>3 DEF Waiting
<1> HIDE DEF e
<1>12. /\ DOMAIN p = PaneFields /\ p.course = c /\ p.loading = l /\ p.seen = pane.seen /\ p.form = f
  BY <1>1 DEF PaneKnown, PaneFields
<1> HIDE DEF p
<1>13. PaneKnown(p)
  BY <1>1, <1>8, <1>12 DEF PaneKnown, PaneFields, FormFields
<1>14. x = "cover" => Kept
  BY <1>1, <1>2, <1>6, EffectFacts
<1>15. p.course /\ ~p.loading /\ ~blurred' /\ ~Waiting(e) => Kept /\ Current(p.seen)
  BY <1>1, <1>2, <1>7, <1>11, <1>12, <1>14 DEF PageShows
<1>16. made' = IF x = "course" THEN made + 1 ELSE made
  BY <1>1, <1>2, <1>6, EffectFacts
<1>17. excess' \in Nat /\ made' <= 1 + excess' /\ (~p.course => made' <= excess')
  <2>1. made \in Nat /\ excess \in Nat /\ made <= 1 + excess /\ (~pane.course => made <= excess)
    BY <1>1 DEF RowsKnown
  <2>2. excess' = excess
    BY <1>2
  <2>3. CASE x = "course"
    BY <1>5, <1>7, <1>12, <1>16, <2>1, <2>2, <2>3
  <2>4. CASE x # "course"
    BY <1>7, <1>12, <1>16, <2>1, <2>2, <2>4
  <2> QED BY <2>3, <2>4
<1> QED BY <1>2, <1>3, <1>6, <1>10, <1>13, <1>15, <1>17, EffectKeeps

LEMMA StepFailsKeeps ==
    ASSUME EditorInv, E!StepFails
    PROVE  EditorInv'
<1> DEFINE x == E!Step
<1>1. /\ RowsKnown /\ PaneKnown(pane) /\ ErrandKnown(errand) /\ PageShows
      /\ \A r \in reads : ReadKnown(r)
  BY DEF EditorInv
<1>2. errand' = E!NoErrand /\ pane' = pane /\ errand.todo # <<>> /\ x = Head(errand.todo)
  BY DEF E!StepFails, E!Busy, E!Step
<1>3. ErrandKnown(E!NoErrand) /\ ~Waiting(E!NoErrand) /\ E!NoErrand.todo = <<>>
  BY NoErrandKnown
<1> HIDE DEF x
<1>4. CASE /\ UNCHANGED <<made, rank, video, content, mixed, excess, reads>>
           /\ blurred' = (blurred \/ errand.begun)
  <2>1. pane.course /\ ~pane.loading /\ ~blurred' /\ ~Waiting(E!NoErrand) => Current(pane.seen)
    BY <1>1, <1>4 DEF PageShows, Waiting
  <2>2. \A r \in reads' : ReadKnown(r)
    BY <1>1, <1>4
  <2> QED BY <1>1, <1>2, <1>3, <1>4, <2>1, <2>2, StoreKeeps
<1>5. CASE /\ E!Accepted(x) /\ E!Effect(x) /\ excess' = (IF x = "course" THEN excess + 1 ELSE excess)
           /\ blurred' = TRUE /\ reads' = E!Aged
  <2>1. Has(errand.todo, x)
    <3>1. errand.todo \in Seq(ErrandSteps)
      BY <1>1 DEF ErrandKnown, Ordered
    <3>2. 1 \in DOMAIN errand.todo /\ errand.todo[1] = Head(errand.todo)
      BY <1>2, <3>1
    <3> QED BY <1>2, <3>2 DEF Has
  <2>2. x = "write" => errand.of \in E!Papers /\ Own(errand)
    BY <1>1, <2>1 DEF ErrandKnown
  <2>3. made' = IF x = "course" THEN made + 1 ELSE made
    BY <1>1, <1>5, <2>2, EffectFacts
  <2>4. excess' \in Nat /\ made' <= 1 + excess' /\ (~pane.course => made' <= excess')
    <3>1. made \in Nat /\ excess \in Nat /\ made <= 1 + excess /\ (~pane.course => made <= excess)
      BY <1>1 DEF RowsKnown
    <3>2. CASE x = "course"
      BY <1>5, <2>3, <3>1, <3>2
    <3>3. CASE x # "course"
      BY <1>5, <2>3, <3>1, <3>3
    <3> QED BY <3>2, <3>3
  <2> DEFINE e == E!NoErrand
  <2>5. \A y : ~Has(e.todo, y)
    BY <1>3 DEF Has
  <2>6. DOMAIN e = ErrandFields /\ Ordered(e.todo) /\ OwnBundle(e.got) /\ e.todo = <<>>
    BY <1>3 DEF ErrandKnown, ErrandFields
  <2> HIDE DEF e
  <2>7. \A r \in reads' : r \in E!Aged \/ r = E!Boot
    BY <1>5
  <2>8. errand' = e
    BY <1>2 DEF e
  <2> QED BY <1>1, <1>2, <1>5, <2>2, <2>4, <2>5, <2>6, <2>7, <2>8, EffectKeeps
<1> QED BY <1>4, <1>5 DEF E!StepFails, x

LEMMA TranscodedKeeps ==
    ASSUME EditorInv, E!Transcoded
    PROVE  EditorInv'
<1>1. PICK u \in Units : video' = [video EXCEPT ![u].status = "ready"]
  BY DEF E!Transcoded
<1>2. UNCHANGED <<made, rank, content, pane, errand, reads, excess, mixed, blurred>>
  BY DEF E!Transcoded
<1>3. DOMAIN video = Units /\ \A w \in Units : DOMAIN video[w] = {"asset", "status"}
  BY DEF EditorInv, RowsKnown
<1>4. /\ DOMAIN video' = Units /\ \A w \in Units : DOMAIN video'[w] = {"asset", "status"}
      /\ \A w \in Units : video'[w].asset = video[w].asset
  BY <1>1, <1>3
<1>5. Kept
  BY <1>2, <1>4 DEF Kept
<1>6. \A b : Current(b)' <=> Current(b)
  BY <1>5, CurrentStays
<1>7. \A b : (OwnBundle(b)' <=> OwnBundle(b)) /\ (Own(b)' <=> Own(b))
  BY <1>2 DEF OwnBundle, Own
<1>8. RowsKnown'
  BY <1>2, <1>4 DEF EditorInv, RowsKnown, E!PapersAreOwn
<1>9. (PaneKnown(pane))'
  BY <1>2, <1>7 DEF EditorInv, PaneKnown
<1>10. (ErrandKnown(errand))'
  BY <1>2, <1>6, <1>7 DEF EditorInv, ErrandKnown
<1>11. PageShows'
  BY <1>2, <1>6 DEF EditorInv, PageShows, Waiting
<1>12. \A r \in reads' : ReadKnown(r)'
  BY <1>2, <1>6, <1>7 DEF EditorInv, ReadKnown
<1> QED BY <1>8, <1>9, <1>10, <1>11, <1>12 DEF EditorInv

-----------------------------------------------------------------------------
LEMMA EditorStarts ==
    ASSUME E!EditorInit
    PROVE  EditorInv
<1>1. /\ pane \in [course : BOOLEAN, shared : BOOLEAN, loading : BOOLEAN, quizLoading : {FALSE},
                   form : {E!NoForm}, seen : {E!Unread}]
      /\ pane.loading = pane.course /\ made = 0 /\ excess = 0 /\ errand = E!NoErrand
      /\ reads \subseteq {E!Boot}
  BY DEF E!EditorInit
<1>2. /\ DOMAIN rank = Units /\ DOMAIN video = Units /\ DOMAIN content = E!Papers
      /\ \A u \in Units : DOMAIN video[u] = {"asset", "status"}
      /\ \A d \in E!Papers : content[d] \in {d, E!Unmade}
  BY DEF E!EditorInit, E!Asset
<1>3. RowsKnown
  BY <1>1, <1>2 DEF RowsKnown, E!PapersAreOwn
<1>4. PaneKnown(pane)
  <2>1. DOMAIN pane = PaneFields /\ pane.form = E!NoForm /\ pane.seen = E!Unread
    BY <1>1 DEF PaneFields
  <2> QED BY <2>1, NoFormKnown, UnreadIsOwn DEF PaneKnown, PaneFields, FormFields
<1>5. ErrandKnown(errand)
  BY <1>1, NoErrandKnown
<1>6. PageShows
  BY <1>1 DEF PageShows
<1>7. \A r \in reads : ReadKnown(r)
  BY <1>1, AskedKnown DEF E!Boot
<1> QED BY <1>3, <1>4, <1>5, <1>6, <1>7 DEF EditorInv

LEMMA EditorApart ==
    PlatformSafe => E!EditorInit /\ [][E!EditorNext]_editorVars
<1>1. PlatformInit => E!EditorInit
  BY DEF PlatformInit
<1>2. [PlatformNext]_platformVars => [E!EditorNext]_editorVars
  <2>1. Runs("editor") /\ E!EditorNext /\ Only("editor") => E!EditorNext
    OBVIOUS
  <2> QED BY <2>1 DEF PlatformNext, Only, editorVars, platformVars
<1> QED BY <1>1, <1>2, PTL DEF PlatformSafe

LEMMA EditorAlways == PlatformSafe => []EditorInv
<1>1. E!EditorInit => EditorInv
  BY EditorStarts
<1>2. EditorInv /\ [E!EditorNext]_editorVars => EditorInv'
  <2>1. ASSUME EditorInv, E!EditorNext
        PROVE  EditorInv'
    <3>1. CASE E!SaveBasics \/ E!OpenLessonForm \/ E!OpenNewForm \/ E!OpenPaper \/ E!Cancel
      BY <2>1, <3>1, SaveKeeps, OpenFormKeeps, OpenPaperKeeps
    <3>2. CASE E!SubmitLesson \/ E!SubmitPaper \/ E!PressRow \/ E!PressPaper \/ E!PressOther
      BY <2>1, <3>2, SubmitLessonKeeps, SubmitPaperKeeps, PressKeeps
    <3>3. CASE E!StepDone \/ E!ReloadRead \/ E!ReloadLands \/ E!StepFails \/ E!Transcoded \/ E!Poll
      BY <2>1, <3>3, StepDoneKeeps, ReloadReadKeeps, ReloadLandsKeeps, StepFailsKeeps,
         TranscodedKeeps, PollKeeps
    <3>4. CASE \E r \in reads : E!ReadAnswered(r) \/ E!ReadLands(r) \/ E!QuizLands(r) \/ E!ReadFails(r)
      BY <2>1, <3>4, ReadAnsweredKeeps, ReadLandsKeeps, QuizLandsKeeps, ReadFailsKeeps
    <3> QED BY <2>1, <3>1, <3>2, <3>3, <3>4 DEF E!EditorNext
  <2>2. ASSUME EditorInv, UNCHANGED editorVars
        PROVE  EditorInv'
    <3>1. UNCHANGED <<made, rank, video, content, pane, errand, reads, excess, mixed, blurred>>
      BY <2>2 DEF editorVars
    <3>2. \A b : Current(b)' <=> Current(b)
      BY <3>1, CurrentStays DEF Kept
    <3>3. \A b : (OwnBundle(b)' <=> OwnBundle(b)) /\ (Own(b)' <=> Own(b))
      BY <3>1 DEF OwnBundle, Own
    <3>4. RowsKnown' /\ (PaneKnown(pane))'
      BY <2>2, <3>1, <3>3 DEF EditorInv, RowsKnown, E!PapersAreOwn, PaneKnown
    <3>5. (ErrandKnown(errand))' /\ PageShows'
      BY <2>2, <3>1, <3>2, <3>3 DEF EditorInv, ErrandKnown, PageShows, Waiting
    <3>6. \A r \in reads' : ReadKnown(r)'
      BY <2>2, <3>1, <3>2, <3>3 DEF EditorInv, ReadKnown
    <3> QED BY <3>4, <3>5, <3>6 DEF EditorInv
  <2> QED BY <2>1, <2>2
<1> QED BY <1>1, <1>2, EditorApart, PTL

\* For any lessons, papers and bounds: however requests fail and answers overtake
\* each other, the creation form makes one course and one more only for each lost
\* answer, a paper keeps its own questions unless a late answer fell into its form,
\* and a page at rest shows what the server has, unless a change failed halfway or
\* an older answer landed last (CourseEditor, CourseView).
THEOREM EditorsAreFaithful == PlatformSafe => []EditorIsFaithful
<1>1. EditorInv => EditorIsFaithful
  <2> SUFFICES ASSUME EditorInv PROVE E!OneCourse /\ E!PapersAreOwn /\ E!PageIsCurrent
    BY DEF EditorIsFaithful, E!EditorIsFaithful
  <2>1. E!OneCourse /\ E!PapersAreOwn
    BY DEF EditorInv, RowsKnown, E!OneCourse
  <2>2. ~E!Busy => ~Waiting(errand)
    <3>1. \A y : ~Has(<<>>, y)
      BY DEF Has
    <3> QED BY <3>1 DEF E!Busy, Waiting
  <2>3. E!PageIsCurrent
    BY <2>2 DEF EditorInv, PageShows, E!PageIsCurrent, Current
  <2> QED BY <2>1, <2>3
<1> QED BY <1>1, EditorAlways, PTL

-----------------------------------------------------------------------------
(* Types of the editor: a position is a natural number because a course    *)
(* has finitely many lessons, and what a form or a change holds is blank   *)
(* or the questions of a paper.                                            *)

Targets == Units \cup E!Papers \cup {"new", "none"}

BundleTyped(b) == DOMAIN b.shown \subseteq Nat /\ \A d \in DOMAIN b.papers : b.papers[d] \in E!Papers
FormTyped(f) == f.of \in Targets /\ f.holds \in E!Contents
ErrandTyped(e) ==
    e.of \in Targets /\ e.holds \in E!Contents /\ DOMAIN e.ids \subseteq Nat /\ BundleTyped(e.got)

StoredTyped ==
    /\ rank \in [Units -> Nat \cup {E!Deleted}]
    /\ content \in [E!Papers -> E!Papers \cup {E!Unmade, E!Gone}]
    /\ mixed \subseteq E!Papers
    /\ \A u \in Units : video[u].status \in {"none", "processing", "ready"}
CountsTyped ==
    deeds \in 0 .. MaxDeeds /\ slips \in 0 .. MaxSlips /\ excess \in 0 .. slips /\ blurred \in BOOLEAN

EditorTyped ==
    /\ StoredTyped /\ CountsTyped
    /\ FormTyped(pane.form) /\ BundleTyped(pane.seen) /\ ErrandTyped(errand)
    /\ \A r \in reads : BundleTyped(r.got)

-----------------------------------------------------------------------------
\* Finitely many numbers have a largest.
LEMMA LargestOfMany ==
    ASSUME NEW U, IsFiniteSet(U), U # {}, NEW f, \A u \in U : f[u] \in Nat
    PROVE  \E m \in U : \A u \in U : f[u] <= f[m]
<1> DEFINE Top(A) == \E m \in A : \A u \in A : f[u] <= f[m]
           Bad == {A \in SUBSET U : A # {} /\ ~Top(A)}
<1>1. SUFFICES ASSUME Bad # {}
               PROVE  FALSE
  OBVIOUS
<1>2. IsWellFoundedOn(StrictSubsetOrdering(U), SUBSET U)
  BY FS_FiniteSubsetsOfFinite, FS_StrictSubsetOrderingWellFounded
<1>3. PICK A \in Bad : \A B \in Bad : <<B, A>> \notin StrictSubsetOrdering(U)
  <2>1. Bad \subseteq SUBSET U
    OBVIOUS
  <2> HIDE DEF Bad
  <2> QED BY <1>1, <1>2, <2>1, WFMin
<1>4. PICK a \in A : TRUE
  OBVIOUS
<1> DEFINE B == A \ {a}
<1>5. A \in SUBSET U /\ ~Top(A) /\ B \in SUBSET U /\ B \subseteq A /\ B # A
  BY <1>4
<1>6. \A u \in A : f[u] \in Nat
  BY <1>5
<1>7. B \notin Bad
  BY <1>3, <1>5 DEF StrictSubsetOrdering
<1>8. B = {} \/ Top(B)
  BY <1>5, <1>7
<1>9. CASE B = {}
  <2>1. \A u \in A : f[u] <= f[a]
    BY <1>6, <1>9
  <2> QED BY <1>4, <1>5, <2>1
<1>10. CASE Top(B)
  <2>1. PICK m \in B : \A u \in B : f[u] <= f[m]
    BY <1>10
  <2>2. CASE f[a] <= f[m]
    <3>1. \A u \in A : f[u] <= f[m]
      BY <2>1, <2>2
    <3> QED BY <1>5, <2>1, <3>1
  <2>3. CASE ~(f[a] <= f[m])
    <3>1. f[m] \in Nat /\ f[a] \in Nat
      BY <1>6, <2>1, <1>4
    <3>2. \A u \in A : f[u] <= f[a]
      <4>1. ASSUME NEW u \in B PROVE f[u] <= f[a]
        <5>1. f[u] \in Nat /\ f[u] <= f[m]
          BY <1>6, <2>1
        <5> QED BY <2>3, <3>1, <5>1
      <4> QED BY <3>1, <4>1
    <3> QED BY <1>4, <1>5, <3>2
  <2> QED BY <2>2, <2>3
<1> QED BY <1>8, <1>9, <1>10

\* A new lesson goes behind those there are.
LEMMA NextRankTyped ==
    ASSUME E!EditorConstants, StoredTyped
    PROVE  E!NextRank \in Nat
<1> DEFINE Placed == {0} \cup {rank[u] : u \in E!Present}
<1>1. IsFiniteSet(E!Present)
  <2>1. IsFiniteSet(Units)
    BY DEF E!EditorConstants, E!IsFiniteSet, IsFiniteSet
  <2> QED BY <2>1, FS_Subset DEF E!Present
<1>2. \A u \in E!Present : rank[u] \in Nat
  BY DEF StoredTyped, E!Present, E!Deleted
<1>3. Placed \subseteq Nat
  BY <1>2
<1>4. \E r \in Placed : \A u \in E!Present : rank[u] <= r
  <2>1. CASE E!Present = {}
    BY <2>1
  <2>2. CASE E!Present # {}
    <3>1. PICK m \in E!Present : \A u \in E!Present : rank[u] <= rank[m]
      BY <1>1, <1>2, <2>2, LargestOfMany
    <3> QED BY <3>1
  <2> QED BY <2>1, <2>2
<1>5. (CHOOSE r \in Placed : \A u \in E!Present : rank[u] <= r) \in Nat
  BY <1>3, <1>4
<1> QED BY <1>5 DEF E!NextRank

\* What a request stores.
LEMMA EffectTypes ==
    ASSUME E!EditorConstants, RowsKnown, StoredTyped, NEW x, E!Accepted(x), E!Effect(x),
           x = "write" => errand.of \in E!Papers, errand.holds \in E!Contents,
           DOMAIN errand.ids \subseteq Nat
    PROVE  StoredTyped'
<1> DEFINE o == errand.of
           Ranks == Nat \cup {E!Deleted}
           States == {"none", "processing", "ready"}
           Texts == E!Papers \cup {E!Unmade, E!Gone}
<1>1. rank \in [Units -> Ranks] /\ content \in [E!Papers -> Texts] /\ mixed \subseteq E!Papers
      /\ \A u \in Units : video[u].status \in States
  BY DEF StoredTyped
<1>2. DOMAIN video = Units /\ \A u \in Units : DOMAIN video[u] = {"asset", "status"}
  BY DEF RowsKnown
<1>3. rank' \in [Units -> Ranks]
  <2>1. CASE x = "post"
    <3>1. rank' = [rank EXCEPT ![E!NewUnit] = E!NextRank]
      BY <2>1 DEF E!Effect
    <3>2. E!NextRank \in Ranks
      BY NextRankTyped
    <3> QED BY <1>1, <3>1, <3>2
  <2>2. CASE x = "delete"
    <3>1. rank' = [rank EXCEPT ![o] = E!Deleted] /\ E!Deleted \in Ranks
      BY <2>2 DEF E!Effect
    <3> QED BY <1>1, <3>1
  <2>3. CASE x = "move"
    <3>1. rank' = E!Reordered(errand.ids)
      BY <2>3 DEF E!Effect
    <3>2. ASSUME NEW u \in Units, u \in E!ToSet(errand.ids)
          PROVE  (CHOOSE k \in DOMAIN errand.ids : errand.ids[k] = u) \in Ranks
      <4>1. \E k \in DOMAIN errand.ids : errand.ids[k] = u
        BY <3>2 DEF E!ToSet
      <4> QED BY <4>1
    <3> QED BY <1>1, <3>1, <3>2 DEF E!Reordered
  <2>4. CASE x \notin {"post", "delete", "move"}
    <3>1. rank' = rank
      BY <2>4 DEF E!Effect
    <3> QED BY <1>1, <3>1
  <2> QED BY <2>1, <2>2, <2>3, <2>4
<1>4. \A u \in Units : video'[u].status \in States
  <2>1. \/ \E u, n : video' = [video EXCEPT ![u] = E!Asset(n, "none")]
        \/ \E u, n : video' = [video EXCEPT ![u] = E!Asset(n, "processing")]
        \/ video' = [video EXCEPT ![o].status = "processing"]
        \/ video' = video
    BY DEF E!Effect
  <2>2. ASSUME NEW u, NEW n, NEW s \in States, video' = [video EXCEPT ![u] = E!Asset(n, s)]
        PROVE  \A w \in Units : video'[w].status \in States
    BY <1>1, <1>2, <2>2 DEF E!Asset
  <2>3. ASSUME video' = [video EXCEPT ![o].status = "processing"]
        PROVE  \A w \in Units : video'[w].status \in States
    BY <1>1, <1>2, <2>3
  <2> QED BY <1>1, <2>1, <2>2, <2>3
<1>5. content' \in [E!Papers -> Texts]
  <2>1. CASE x = "write"
    <3>1. content' = [content EXCEPT ![o] = errand.holds] /\ errand.holds # E!Blank
      BY <2>1 DEF E!Effect, E!Accepted
    <3>2. errand.holds \in Texts
      BY <3>1 DEF E!Contents
    <3> QED BY <1>1, <3>1, <3>2
  <2>2. CASE x = "compose"
    <3>1. content' = [content EXCEPT ![o] = o]
      BY <2>2 DEF E!Effect
    <3> QED BY <1>1, <3>1
  <2>3. CASE x = "discard"
    <3>1. content' = [content EXCEPT ![o] = E!Gone]
      BY <2>3 DEF E!Effect
    <3> QED BY <1>1, <3>1
  <2>4. CASE x \notin {"write", "compose", "discard"}
    <3>1. content' = content
      BY <2>4 DEF E!Effect
    <3> QED BY <1>1, <3>1
  <2> QED BY <2>1, <2>2, <2>3, <2>4
<1>6. mixed' \subseteq E!Papers
  BY <1>1 DEF E!Effect
<1> QED BY <1>3, <1>4, <1>5, <1>6 DEF StoredTyped

\* What the author asks for is kept in a change with its own target and contents.
LEMMA ActTypes ==
    ASSUME E!EditorConstants, EditorTyped, E!Ready, E!OnPage, UNCHANGED <<pane, reads>>,
           NEW e, E!Acts(e), ErrandTyped(e)
    PROVE  EditorTyped'
<1>1. deeds' \in 0 .. MaxDeeds
  BY DEF E!Acts, E!Ready, E!EditorConstants, EditorTyped, CountsTyped
<1>2. errand' = e
  BY DEF E!Acts
<1> QED BY <1>1, <1>2 DEF E!OnPage, EditorTyped, StoredTyped, CountsTyped

LEMMA ErrandMade ==
    ASSUME NEW o \in Targets, NEW h \in E!Contents, NEW t, NEW l, NEW a, NEW i, DOMAIN i \subseteq Nat
    PROVE  /\ ErrandTyped([E!NoErrand EXCEPT !.todo = t])
           /\ ErrandTyped([E!NoErrand EXCEPT !.of = o, !.asset = a, !.todo = t])
           /\ ErrandTyped([E!NoErrand EXCEPT !.todo = t, !.of = o, !.asset = a])
           /\ ErrandTyped([E!NoErrand EXCEPT !.todo = t, !.of = o, !.holds = h, !.late = l])
           /\ ErrandTyped([E!NoErrand EXCEPT !.todo = t, !.of = o])
           /\ ErrandTyped([E!NoErrand EXCEPT !.todo = t, !.ids = i])
<1>1. BundleTyped(E!Unread) /\ "none" \in Targets /\ E!Blank \in E!Contents
      /\ DOMAIN <<>> \subseteq Nat
  BY DEF BundleTyped, E!Unread, Targets, E!Contents
<1>2. \A e : e.of \in Targets /\ e.holds \in E!Contents /\ e.got = E!Unread
             /\ (e.ids = i \/ e.ids = <<>>) => ErrandTyped(e)
  BY <1>1 DEF ErrandTyped
<1> DEFINE e1 == [E!NoErrand EXCEPT !.todo = t]
           e2 == [E!NoErrand EXCEPT !.of = o, !.asset = a, !.todo = t]
           e3 == [E!NoErrand EXCEPT !.todo = t, !.of = o, !.asset = a]
           e4 == [E!NoErrand EXCEPT !.todo = t, !.of = o, !.holds = h, !.late = l]
           e5 == [E!NoErrand EXCEPT !.todo = t, !.of = o]
           e6 == [E!NoErrand EXCEPT !.todo = t, !.ids = i]
<1>3. \A e \in {e1, e2, e3, e5, e6} : e.holds = E!Blank
  BY DEF E!NoErrand
<1>4. e4.holds = h
  BY DEF E!NoErrand
<1>5. e1.of = "none" /\ e6.of = "none" /\ \A e \in {e2, e3, e4, e5} : e.of = o
  BY DEF E!NoErrand
<1>6. e6.ids = i /\ \A e \in {e1, e2, e3, e4, e5} : e.ids = <<>>
  BY DEF E!NoErrand
<1>7. \A e \in {e1, e2, e3, e4, e5, e6} : e.got = E!Unread
  BY DEF E!NoErrand
<1> HIDE DEF e1, e2, e3, e4, e5, e6
<1>8. \A e \in {e1, e2, e3, e4, e5, e6} : ErrandTyped(e)
  BY <1>1, <1>2, <1>3, <1>4, <1>5, <1>6, <1>7
<1> QED BY <1>8 DEF e1, e2, e3, e4, e5, e6

LEMMA PressTypes ==
    ASSUME E!EditorConstants, EditorInv, EditorTyped,
           E!SaveBasics \/ E!SubmitLesson \/ E!SubmitPaper \/ E!PressRow \/ E!PressPaper
           \/ E!PressOther
    PROVE  EditorTyped'
<1>1. pane.form.of \in Targets /\ pane.form.holds \in E!Contents /\ E!Blank \in E!Contents
  BY DEF EditorTyped, FormTyped, E!Contents
<1>2. DOMAIN pane.seen.papers \subseteq E!Papers /\ DOMAIN pane.seen.shown \subseteq Nat
      /\ DOMAIN <<>> \subseteq Nat
  BY DEF EditorInv, PaneKnown, OwnBundle, EditorTyped, BundleTyped
<1>3. \A u \in Units : u \in Targets
  BY DEF Targets
<1>4. \A d \in E!Papers : d \in Targets
  BY DEF Targets
<1>5. PICK e : E!Acts(e) /\ ErrandTyped(e)
  <2>1. CASE E!SaveBasics
    <3>1. \E t : E!Acts([E!NoErrand EXCEPT !.todo = t])
      BY <2>1 DEF E!SaveBasics
    <3> QED BY <1>1, <1>2, <3>1, ErrandMade
  <2>2. CASE E!SubmitLesson
    <3>1. \E t : E!Acts([E!NoErrand EXCEPT !.of = pane.form.of, !.asset = pane.form.asset, !.todo = t])
      BY <2>2 DEF E!SubmitLesson
    <3>2. \A t, a : ErrandTyped([E!NoErrand EXCEPT !.of = pane.form.of, !.asset = a, !.todo = t])
      BY <1>1, <1>2, ErrandMade
    <3> QED BY <3>1, <3>2
  <2>3. CASE E!SubmitPaper
    <3>1. \E t : E!Acts([E!NoErrand EXCEPT !.todo = t, !.of = pane.form.of,
                             !.holds = pane.form.holds, !.late = pane.form.late])
      BY <2>3 DEF E!SubmitPaper
    <3>2. \A t, l : ErrandTyped([E!NoErrand EXCEPT !.todo = t, !.of = pane.form.of,
                                     !.holds = pane.form.holds, !.late = l])
      BY <1>1, <1>2, ErrandMade
    <3> QED BY <3>1, <3>2
  <2>4. CASE E!PressRow
    <3>1. PICK u \in Units : E!DeleteUnit(u) \/ E!ChangeVideo(u) \/ E!MoveUnit(u)
      BY <2>4 DEF E!PressRow
    <3>2. \/ \E t : E!Acts([E!NoErrand EXCEPT !.todo = t, !.of = u])
          \/ \E t, a : E!Acts([E!NoErrand EXCEPT !.todo = t, !.of = u, !.asset = a])
          \/ \E t, i : /\ E!Acts([E!NoErrand EXCEPT !.todo = t, !.ids = i])
                       /\ DOMAIN i = DOMAIN pane.seen.shown
      <4>1. CASE E!DeleteUnit(u)
        BY <4>1 DEF E!DeleteUnit
      <4>2. CASE E!ChangeVideo(u)
        BY <4>2 DEF E!ChangeVideo
      <4>3. CASE E!MoveUnit(u)
        <5> DEFINE s == pane.seen.shown
                   j == CHOOSE k \in DOMAIN s : s[k] = u
                   ids == [s EXCEPT ![j] = s[j - 1], ![j - 1] = u]
        <5>1. E!Acts([E!NoErrand EXCEPT !.todo = <<"move">> \o E!Reload, !.ids = ids])
          BY <4>3 DEF E!MoveUnit
        <5>2. DOMAIN ids = DOMAIN s
          OBVIOUS
        <5> HIDE DEF ids, j
        <5> QED BY <5>1, <5>2
      <4> QED BY <3>1, <4>1, <4>2, <4>3
    <3> QED BY <1>1, <1>2, <1>3, <3>2, ErrandMade
  <2>5. CASE E!PressPaper
    <3>1. PICK d \in E!Papers : E!Discard(d) \/ E!Compose(d)
      BY <1>2, <2>5 DEF E!PressPaper
    <3>2. \E t : E!Acts([E!NoErrand EXCEPT !.todo = t, !.of = d])
      BY <3>1 DEF E!Discard, E!Compose
    <3> QED BY <1>1, <1>2, <1>4, <3>2, ErrandMade
  <2>6. CASE E!PressOther
    <3>1. \E t : E!Acts([E!NoErrand EXCEPT !.todo = t])
      BY <2>6 DEF E!PressOther
    <3> QED BY <1>1, <1>2, <3>1, ErrandMade
  <2> QED BY <2>1, <2>2, <2>3, <2>4, <2>5, <2>6
<1>6. E!Ready /\ E!OnPage /\ UNCHANGED <<pane, reads>>
  BY DEF E!SaveBasics, E!SubmitLesson, E!SubmitPaper, E!PressRow, E!PressPaper, E!PressOther, E!Free
<1> QED BY <1>5, <1>6, ActTypes

-----------------------------------------------------------------------------
\* The forms, and the reads beside a change.
LEMMA PaneTypes ==
    ASSUME EditorTyped, E!OnPage, UNCHANGED errand, deeds' \in 0 .. MaxDeeds,
           FormTyped(pane.form)', BundleTyped(pane.seen)',
           \A r \in reads' : r \in reads \/ BundleTyped(r.got)
    PROVE  EditorTyped'
  BY DEF E!OnPage, EditorTyped, StoredTyped, CountsTyped

LEMMA OneMore ==
    ASSUME E!EditorConstants, EditorTyped, E!Ready, deeds' = deeds + 1
    PROVE  deeds' \in 0 .. MaxDeeds
  BY DEF E!Ready, E!EditorConstants, EditorTyped, CountsTyped

\* An answer tells of the rows there are.
LEMMA BundleMade ==
    ASSUME E!EditorConstants, StoredTyped, NEW s \in E!Listings
    PROVE  BundleTyped(E!Bundle(s))
<1>1. IsFiniteSet(E!Present)
  <2>1. IsFiniteSet(Units)
    BY DEF E!EditorConstants, E!IsFiniteSet, IsFiniteSet
  <2> QED BY <2>1, FS_Subset DEF E!Present
<1>2. E!Cardinality(E!Present) = Cardinality(E!Present)
  BY DEF E!Cardinality, Cardinality
<1>3. E!Cardinality(E!Present) \in Nat
  BY <1>1, <1>2, FS_CardinalityType
<1>4. DOMAIN s = 1 .. E!Cardinality(E!Present)
  BY DEF E!Listings, E!SetToSeqs
<1>5. DOMAIN s \subseteq Nat
  BY <1>3, <1>4
<1>6. \A d \in E!LivePapers : content[d] \in E!Papers
  BY DEF StoredTyped, E!LivePapers
<1> DEFINE b == E!Bundle(s)
<1>7. b.shown = s /\ b.papers = [d \in E!LivePapers |-> content[d]]
  BY DEF E!Bundle
<1> HIDE DEF b
<1>8. BundleTyped(b)
  BY <1>5, <1>6, <1>7 DEF BundleTyped
<1> QED BY <1>8 DEF b

LEMMA FormTypes ==
    ASSUME E!EditorConstants, EditorInv, EditorTyped,
           E!OpenLessonForm \/ E!OpenNewForm \/ E!OpenPaper \/ E!Cancel \/ E!Poll
    PROVE  EditorTyped'
<1>1. /\ E!OnPage /\ UNCHANGED errand
      /\ (E!Ready /\ deeds' = deeds + 1) \/ UNCHANGED deeds
  BY DEF E!OpenLessonForm, E!OpenNewForm, E!OpenPaper, E!Cancel, E!Poll, E!Free
<1>2. deeds' \in 0 .. MaxDeeds
  BY <1>1, OneMore DEF EditorTyped, CountsTyped
<1>3. DOMAIN pane = PaneFields /\ pane.seen.papers = pane.seen.papers
      /\ DOMAIN pane.seen.papers \subseteq E!Papers
  BY DEF EditorInv, PaneKnown, OwnBundle, PaneFields
<1>4. FormTyped(pane.form) /\ BundleTyped(pane.seen) /\ E!Blank \in E!Contents
      /\ BundleTyped(E!Unread)
  BY DEF EditorTyped, E!Contents, BundleTyped, E!Unread
<1>5. \A r \in reads' : r \in reads \/ BundleTyped(r.got)
  <2>1. \A k, d : [kind |-> k, of |-> d, got |-> E!Unread, old |-> FALSE].got = E!Unread
    OBVIOUS
  <2>2. \/ reads' = reads
        \/ \E k, d : reads' = reads \cup {[kind |-> k, of |-> d, got |-> E!Unread, old |-> FALSE]}
    BY DEF E!OpenLessonForm, E!OpenNewForm, E!OpenPaper, E!Cancel, E!Poll
  <2>3. \A r \in reads' : r \in reads \/ r.got = E!Unread
    BY <2>1, <2>2
  <2> QED BY <1>4, <2>3
<1>6. \A f : (f.of \in Targets /\ f.holds \in E!Contents) => FormTyped(f)
  BY DEF FormTyped
<1>7. \E f : /\ FormTyped(f)
             /\ \/ \E b : pane' = [pane EXCEPT !.form = f, !.quizLoading = b]
                \/ pane' = [pane EXCEPT !.form = f]
                \/ pane' = pane
  <2>1. CASE E!OpenLessonForm
    <3>1. PICK u \in Units : pane' = [pane EXCEPT !.form = [E!NoForm EXCEPT !.of = u,
                                                 !.asset = pane.seen.media[u].asset]]
      BY <2>1 DEF E!OpenLessonForm
    <3> DEFINE f == [E!NoForm EXCEPT !.of = u, !.asset = pane.seen.media[u].asset]
    <3>2. f.of = u /\ f.holds = E!Blank
      BY DEF E!NoForm
    <3>3. pane' = [pane EXCEPT !.form = f]
      BY <3>1
    <3> HIDE DEF f
    <3>4. FormTyped(f)
      BY <1>4, <3>2 DEF FormTyped, Targets
    <3> QED BY <3>3, <3>4
  <2>2. CASE E!OpenNewForm
    <3> DEFINE f == [E!NoForm EXCEPT !.of = "new"]
    <3>2. f.of = "new" /\ f.holds = E!Blank
      BY DEF E!NoForm
    <3>3. pane' = [pane EXCEPT !.form = f]
      BY <2>2 DEF E!OpenNewForm
    <3> HIDE DEF f
    <3>4. FormTyped(f)
      BY <1>4, <3>2 DEF FormTyped, Targets
    <3> QED BY <3>3, <3>4
  <2>3. CASE E!OpenPaper
    <3>1. PICK d \in DOMAIN pane.seen.papers :
            \/ pane' = [pane EXCEPT !.form = [E!NoForm EXCEPT !.of = d], !.quizLoading = TRUE]
            \/ pane' = [pane EXCEPT !.form = [E!NoForm EXCEPT !.of = d, !.holds = pane.seen.papers[d]]]
      BY <2>3 DEF E!OpenPaper
    <3>2. d \in Targets /\ pane.seen.papers[d] \in E!Contents
      BY <1>3, <1>4 DEF Targets, BundleTyped, E!Contents
    <3> DEFINE f == [E!NoForm EXCEPT !.of = d]
               g == [E!NoForm EXCEPT !.of = d, !.holds = pane.seen.papers[d]]
    <3>3. f.of = d /\ f.holds = E!Blank /\ g.of = d /\ g.holds = pane.seen.papers[d]
      BY DEF E!NoForm
    <3>4. pane' = [pane EXCEPT !.form = f, !.quizLoading = TRUE] \/ pane' = [pane EXCEPT !.form = g]
      BY <3>1
    <3> HIDE DEF f, g
    <3>5. FormTyped(f) /\ FormTyped(g)
      BY <1>4, <3>2, <3>3 DEF FormTyped
    <3>6. CASE pane' = [pane EXCEPT !.form = f, !.quizLoading = TRUE]
      BY <3>5, <3>6, Zenon
    <3>7. CASE pane' = [pane EXCEPT !.form = g]
      BY <3>5, <3>7, Zenon
    <3> QED BY <3>4, <3>6, <3>7
  <2>4. CASE E!Cancel
    <3>1. FormTyped(E!NoForm)
      BY <1>4, NoFormKnown DEF FormTyped, Targets
    <3>2. PICK b : pane' = [pane EXCEPT !.form = E!NoForm, !.quizLoading = b]
      <4>1. pane' = [pane EXCEPT !.form = E!NoForm, !.quizLoading = @ /\ ~pane.shared]
        BY <2>4 DEF E!Cancel
      <4>2. pane' = [pane EXCEPT !.form = E!NoForm, !.quizLoading = pane.quizLoading /\ ~pane.shared]
        BY <4>1, Zenon
      <4> QED BY <4>2, Zenon
    <3> QED BY <3>1, <3>2, Zenon
  <2>5. CASE E!Poll
    BY <1>4, <2>5 DEF E!Poll
  <2> QED BY <2>1, <2>2, <2>3, <2>4, <2>5
<1>8. pane'.seen = pane.seen /\ FormTyped(pane'.form)
  <2>1. PICK f : /\ FormTyped(f)
                 /\ \/ \E b : pane' = [pane EXCEPT !.form = f, !.quizLoading = b]
                    \/ pane' = [pane EXCEPT !.form = f]
                    \/ pane' = pane
    BY <1>7
  <2>2. pane'.seen = pane.seen /\ pane'.form \in {f, pane.form}
    BY <1>3, <2>1 DEF PaneFields
  <2> QED BY <1>4, <2>1, <2>2
<1> QED BY <1>1, <1>2, <1>4, <1>5, <1>8, PaneTypes

\* An answer lands: on the page, or the questions in the form.
LEMMA ReadTypes ==
    ASSUME E!EditorConstants, EditorInv, EditorTyped, NEW r \in reads,
           E!ReadAnswered(r) \/ E!ReadLands(r) \/ E!QuizLands(r) \/ E!ReadFails(r)
    PROVE  EditorTyped'
<1>1. DOMAIN pane = PaneFields /\ DOMAIN pane.form = FormFields /\ DOMAIN pane.seen = BundleFields
      /\ DOMAIN r = {"kind", "of", "got", "old"}
  BY DEF EditorInv, PaneKnown, OwnBundle, ReadKnown, PaneFields, FormFields
<1>2. FormTyped(pane.form) /\ BundleTyped(pane.seen) /\ BundleTyped(r.got) /\ FormTyped(E!NoForm)
  BY NoFormKnown DEF EditorTyped, FormTyped, Targets, E!Contents
<1>3. CASE E!ReadAnswered(r)
  <2>1. PICK s \in E!Listings : reads' = (reads \ {r}) \cup {[r EXCEPT !.got = E!Bundle(s)]}
    BY <1>3 DEF E!ReadAnswered
  <2>2. BundleTyped(E!Bundle(s))
    BY BundleMade DEF EditorTyped
  <2>3. [r EXCEPT !.got = E!Bundle(s)].got = E!Bundle(s)
    BY <1>1
  <2>4. \A q \in reads' : q \in reads \/ BundleTyped(q.got)
    BY <2>1, <2>2, <2>3
  <2>5. E!OnPage /\ UNCHANGED <<errand, deeds, pane>>
    BY <1>3 DEF E!ReadAnswered
  <2> QED BY <1>2, <2>4, <2>5, PaneTypes DEF EditorTyped, CountsTyped
<1>4. CASE E!ReadLands(r)
  <2>1. pane' = [pane EXCEPT !.seen = r.got, !.loading = FALSE]
        \/ pane' = [pane EXCEPT !.seen.shown = r.got.shown, !.seen.media = r.got.media]
    BY <1>4 DEF E!ReadLands
  <2>2. pane'.form = pane.form
    BY <1>1, <2>1 DEF PaneFields
  <2>3. \/ pane'.seen = r.got
        \/ pane'.seen.shown = r.got.shown /\ pane'.seen.papers = pane.seen.papers
    BY <1>1, <2>1 DEF PaneFields, BundleFields
  <2>4. BundleTyped(pane'.seen)
    BY <1>2, <2>3 DEF BundleTyped
  <2>5. /\ UNCHANGED <<rank, video, content, errand, deeds, slips, excess, mixed>>
        /\ reads' \subseteq reads
    BY <1>4 DEF E!ReadLands
  <2>6. blurred' \in BOOLEAN
    BY <1>4 DEF E!ReadLands
  <2> QED BY <1>2, <2>2, <2>4, <2>5, <2>6 DEF EditorTyped, StoredTyped, CountsTyped
<1>5. CASE E!QuizLands(r)
  <2>1. content[r.of] \in E!Papers
    BY <1>5 DEF E!QuizLands, E!LivePapers, EditorTyped, StoredTyped
  <2>2. PICK f : /\ pane' = [pane EXCEPT !.quizLoading = FALSE, !.form = f]
                 /\ f = pane.form \/ \E l : f = [pane.form EXCEPT !.holds = content[r.of], !.late = l]
    BY <1>1, <1>5 DEF E!QuizLands, PaneFields
  <2>3. f.of = pane.form.of /\ f.holds \in {pane.form.holds, content[r.of]}
    BY <1>1, <2>2 DEF FormFields
  <2>4. FormTyped(f)
    BY <1>2, <2>1, <2>3 DEF FormTyped, E!Contents
  <2>5. pane'.form = f /\ pane'.seen = pane.seen
    BY <1>1, <2>2 DEF PaneFields
  <2>6. E!OnPage /\ UNCHANGED <<errand, deeds>> /\ reads' \subseteq reads
    BY <1>5 DEF E!QuizLands
  <2> QED BY <1>2, <2>4, <2>5, <2>6, PaneTypes DEF EditorTyped, CountsTyped
<1>6. CASE E!ReadFails(r)
  <2>1. pane'.seen = pane.seen /\ pane'.form \in {pane.form, E!NoForm}
    <3>1. \/ pane' = [pane EXCEPT !.quizLoading = FALSE, !.form = E!NoForm]
          \/ pane' = [pane EXCEPT !.quizLoading = FALSE, !.form = pane.form]
          \/ \E b : pane' = [pane EXCEPT !.loading = b]
      BY <1>1, <1>6 DEF E!ReadFails, PaneFields
    <3> QED BY <1>1, <3>1 DEF PaneFields
  <2>2. slips' \in 0 .. MaxSlips /\ (slips' = slips \/ slips' = slips + 1) /\ blurred' \in BOOLEAN
    BY <1>6 DEF E!ReadFails, E!EditorConstants, EditorTyped, CountsTyped
  <2>3. excess' \in 0 .. slips'
    BY <1>6, <2>2 DEF E!ReadFails, EditorTyped, CountsTyped
  <2>4. /\ UNCHANGED <<rank, video, content, errand, deeds, mixed>>
        /\ reads' \subseteq reads
    BY <1>6 DEF E!ReadFails
  <2> QED BY <1>2, <2>1, <2>2, <2>3, <2>4 DEF EditorTyped, StoredTyped, CountsTyped
<1> QED BY <1>3, <1>4, <1>5, <1>6

-----------------------------------------------------------------------------
\* The requests of a change.
LEMMA HeldTyped ==
    ASSUME EditorTyped
    PROVE  /\ errand.of \in Targets /\ errand.holds \in E!Contents
           /\ DOMAIN errand.ids \subseteq Nat /\ BundleTyped(errand.got)
           /\ ErrandTyped(E!NoErrand) /\ FormTyped(E!NoForm) /\ FormTyped(pane.form)
<1>1. BundleTyped(E!Unread) /\ "none" \in Targets /\ E!Blank \in E!Contents
      /\ DOMAIN <<>> \subseteq Nat
  BY DEF BundleTyped, E!Unread, Targets, E!Contents
<1>2. ErrandTyped(E!NoErrand)
  BY <1>1 DEF ErrandTyped, E!NoErrand
<1> QED BY <1>1, <1>2, NoFormKnown DEF EditorTyped, ErrandTyped, FormTyped

\* What a request of a change does to the rows.
LEMMA StepTypes ==
    ASSUME E!EditorConstants, EditorInv, EditorTyped, E!Busy, E!Accepted(E!Step), E!Effect(E!Step)
    PROVE  StoredTyped'
<1>1. errand.todo # <<>> /\ E!Step = Head(errand.todo) /\ errand.todo \in Seq(ErrandSteps)
  BY DEF E!Busy, E!Step, EditorInv, ErrandKnown, Ordered
<1>2. Has(errand.todo, E!Step)
  BY <1>1 DEF Has
<1>3. E!Step = "write" => errand.of \in E!Papers
  BY <1>2 DEF EditorInv, ErrandKnown
<1> QED BY <1>3, HeldTyped, EffectTypes DEF EditorInv, EditorTyped

LEMMA StepDoneTypes ==
    ASSUME E!EditorConstants, EditorInv, EditorTyped, E!StepDone
    PROVE  EditorTyped'
<1>1. DOMAIN pane = PaneFields /\ DOMAIN errand = ErrandFields
      /\ \A r \in reads : DOMAIN r = {"kind", "of", "got", "old"}
  BY DEF EditorInv, PaneKnown, ErrandKnown, ReadKnown, PaneFields, ErrandFields
<1>2. StoredTyped'
  BY StepTypes DEF E!StepDone
<1>3. CountsTyped'
  BY DEF E!StepDone, EditorTyped, CountsTyped
<1>4. ErrandTyped(errand')
  <2>1. \/ errand' = E!NoErrand
        \/ errand' = [errand EXCEPT !.todo = Tail(@), !.begun = TRUE,
                                    !.of = IF E!Step = "post" THEN E!NewUnit ELSE @]
    BY DEF E!StepDone
  <2>2. E!Step = "post" => E!NewUnit \in Targets
    <3>1. E!Step = "post" => \E u \in Units : rank[u] = 0
      BY DEF E!StepDone, E!Accepted
    <3> QED BY <3>1 DEF E!NewUnit, Targets
  <2>3. CASE errand' # E!NoErrand
    <3> DEFINE o == IF E!Step = "post" THEN E!NewUnit ELSE errand.of
    <3>1. errand' = [errand EXCEPT !.todo = Tail(@), !.begun = TRUE, !.of = o]
      BY <2>1, <2>3
    <3>2. o \in Targets
      BY <2>2, HeldTyped
    <3> HIDE DEF o
    <3>3. /\ errand'.of = o /\ errand'.holds = errand.holds /\ errand'.ids = errand.ids
          /\ errand'.got = errand.got
      BY <1>1, <3>1 DEF ErrandFields
    <3> QED BY <3>2, <3>3, HeldTyped DEF ErrandTyped
  <2> QED BY <2>3, HeldTyped
<1>5. FormTyped(pane'.form) /\ BundleTyped(pane'.seen)
  <2>1. PICK c, b, f : /\ pane' = [pane EXCEPT !.course = c, !.loading = b, !.form = f]
                       /\ f \in {E!NoForm, pane.form}
    <3> DEFINE c == E!KnowsCourse(E!Step)
               b == pane.loading \/ E!Step = "course"
               f == IF E!Closes(E!Step, Tail(errand.todo)) THEN E!NoForm ELSE pane.form
    <3>1. pane' = [pane EXCEPT !.course = c, !.loading = b, !.form = f]
      BY Zenon DEF E!StepDone
    <3>2. f \in {E!NoForm, pane.form}
      OBVIOUS
    <3> HIDE DEF c, b, f
    <3> QED BY <3>1, <3>2
  <2>2. pane'.form = f /\ pane'.seen = pane.seen
    BY <1>1, <2>1 DEF PaneFields
  <2> QED BY <2>1, <2>2, HeldTyped DEF EditorTyped
<1>6. \A r \in reads' : BundleTyped(r.got)
  <2>1. \A r \in E!Aged : \E q \in reads : r.got = q.got
    <3> SUFFICES ASSUME NEW r \in E!Aged
                 PROVE  \E q \in reads : r.got = q.got
      OBVIOUS
    <3>1. PICK q \in reads : r = [q EXCEPT !.old = @ \/ q.got # E!Unread]
      BY DEF E!Aged
    <3>2. r.got = q.got
      BY <1>1, <3>1
    <3> QED BY <3>2
  <2>2. BundleTyped(E!Boot.got)
    BY DEF E!Boot, BundleTyped, E!Unread
  <2>3. reads' \subseteq E!Aged \cup {E!Boot}
    BY DEF E!StepDone
  <2> QED BY <2>1, <2>2, <2>3 DEF EditorTyped
<1> QED BY <1>2, <1>3, <1>4, <1>5, <1>6 DEF EditorTyped

LEMMA ReloadTypes ==
    ASSUME E!EditorConstants, EditorInv, EditorTyped, E!ReloadRead \/ E!ReloadLands
    PROVE  EditorTyped'
<1>1. DOMAIN pane = PaneFields /\ DOMAIN errand = ErrandFields
  BY DEF EditorInv, PaneKnown, ErrandKnown, PaneFields, ErrandFields
<1>2. UNCHANGED <<rank, video, content, reads, deeds, slips, excess, mixed>>
      /\ blurred' \in {blurred, FALSE}
  BY DEF E!ReloadRead, E!ReloadLands
<1>3. ErrandTyped(errand') /\ FormTyped(pane'.form) /\ BundleTyped(pane'.seen)
  <2>1. CASE E!ReloadRead
    <3>1. PICK s \in E!Listings : errand' = [errand EXCEPT !.todo = Tail(@), !.got = E!Bundle(s)]
      BY <2>1 DEF E!ReloadRead
    <3>2. /\ errand'.of = errand.of /\ errand'.holds = errand.holds /\ errand'.ids = errand.ids
          /\ errand'.got = E!Bundle(s)
      BY <1>1, <3>1 DEF ErrandFields
    <3>3. BundleTyped(E!Bundle(s)) /\ BundleTyped(pane.seen)
      BY BundleMade DEF EditorTyped
    <3>4. pane' = pane
      BY <2>1 DEF E!ReloadRead
    <3> QED BY <3>2, <3>3, <3>4, HeldTyped DEF ErrandTyped
  <2>2. CASE E!ReloadLands
    <3>1. errand' = E!NoErrand \/ errand' = [errand EXCEPT !.todo = Tail(@)]
      BY <2>2 DEF E!ReloadLands
    <3>2. errand' = [errand EXCEPT !.todo = Tail(@)] =>
            /\ errand'.of = errand.of /\ errand'.holds = errand.holds /\ errand'.ids = errand.ids
            /\ errand'.got = errand.got
      BY <1>1 DEF ErrandFields
    <3>3. ErrandTyped(errand')
      BY <3>1, <3>2, HeldTyped DEF ErrandTyped
    <3>4. PICK c, f : /\ pane' = [pane EXCEPT !.course = c, !.seen = errand.got, !.form = f]
                      /\ f \in {E!NoForm, pane.form}
      <4> DEFINE c == E!KnowsCourse(E!Step)
                 f == IF E!Closes(E!Step, <<>>) THEN E!NoForm ELSE pane.form
      <4>1. pane' = [pane EXCEPT !.course = c, !.seen = errand.got, !.form = f]
        BY <2>2, Zenon DEF E!ReloadLands
      <4>2. f \in {E!NoForm, pane.form}
        OBVIOUS
      <4> HIDE DEF c, f
      <4> QED BY <4>1, <4>2
    <3>5. pane'.form = f /\ pane'.seen = errand.got
      BY <1>1, <3>4 DEF PaneFields
    <3> QED BY <3>3, <3>4, <3>5, HeldTyped
  <2> QED BY <2>1, <2>2
<1>4. StoredTyped' /\ CountsTyped' /\ \A r \in reads' : BundleTyped(r.got)
  BY <1>2 DEF EditorTyped, StoredTyped, CountsTyped
<1> QED BY <1>3, <1>4 DEF EditorTyped

LEMMA StepFailsTypes ==
    ASSUME E!EditorConstants, EditorInv, EditorTyped, E!StepFails
    PROVE  EditorTyped'
<1>1. errand' = E!NoErrand /\ pane' = pane /\ deeds' = deeds
  BY DEF E!StepFails
<1>2. slips' \in 0 .. MaxSlips /\ excess' \in 0 .. slips' /\ blurred' \in BOOLEAN
  <2>1. \/ slips' = slips
        \/ slips < MaxSlips /\ slips' = slips + 1
    BY DEF E!StepFails
  <2>2. excess' = excess \/ (excess' = excess + 1 /\ slips' = slips + 1)
    BY DEF E!StepFails
  <2>3. slips \in 0 .. MaxSlips /\ excess \in 0 .. slips /\ MaxSlips \in Nat
    BY DEF E!EditorConstants, EditorTyped, CountsTyped
  <2>4. blurred' \in BOOLEAN
    BY DEF E!StepFails
  <2> QED BY <2>1, <2>2, <2>3, <2>4
<1>3. StoredTyped'
  <2>1. \/ E!Busy /\ E!Accepted(E!Step) /\ E!Effect(E!Step)
        \/ UNCHANGED <<rank, video, content, mixed>>
    BY DEF E!StepFails
  <2> QED BY <2>1, StepTypes DEF EditorTyped, StoredTyped
<1>4. \A r \in reads' : BundleTyped(r.got)
  <2>1. \A r \in reads : DOMAIN r = {"kind", "of", "got", "old"}
    BY DEF EditorInv, ReadKnown
  <2>2. \A r \in E!Aged : \E q \in reads : r.got = q.got
    <3> SUFFICES ASSUME NEW r \in E!Aged
                 PROVE  \E q \in reads : r.got = q.got
      OBVIOUS
    <3>1. PICK q \in reads : r = [q EXCEPT !.old = @ \/ q.got # E!Unread]
      BY DEF E!Aged
    <3>2. r.got = q.got
      BY <2>1, <3>1
    <3> QED BY <3>2
  <2>3. reads' = reads \/ reads' = E!Aged
    BY DEF E!StepFails
  <2> QED BY <2>2, <2>3 DEF EditorTyped
<1> QED BY <1>1, <1>2, <1>3, <1>4, HeldTyped DEF EditorTyped, CountsTyped

LEMMA TranscodedTypes ==
    ASSUME EditorInv, EditorTyped, E!Transcoded
    PROVE  EditorTyped'
<1>1. PICK u \in Units : video' = [video EXCEPT ![u].status = "ready"]
  BY DEF E!Transcoded
<1>2. DOMAIN video = Units /\ \A w \in Units : DOMAIN video[w] = {"asset", "status"}
  BY DEF EditorInv, RowsKnown
<1>3. \A w \in Units : video'[w].status \in {"none", "processing", "ready"}
  BY <1>1, <1>2 DEF EditorTyped, StoredTyped
<1>4. UNCHANGED <<rank, content, pane, errand, reads, deeds, slips, excess, mixed, blurred>>
  BY DEF E!Transcoded
<1> QED BY <1>3, <1>4 DEF EditorTyped, StoredTyped, CountsTyped

LEMMA EditorStartsTyped ==
    ASSUME E!EditorConstants, E!EditorInit
    PROVE  EditorTyped
<1>1. StoredTyped
  <2>1. \A u \in Units : rank[u] \in {0, 1} /\ DOMAIN rank = Units
    BY DEF E!EditorInit
  <2>2. rank \in [Units -> Nat \cup {E!Deleted}]
    <3>1. rank = [u \in Units |-> rank[u]]
      BY DEF E!EditorInit
    <3> QED BY <2>1, <3>1
  <2>3. content \in [E!Papers -> E!Papers \cup {E!Unmade, E!Gone}]
    BY DEF E!EditorInit
  <2>4. \A u \in Units : video[u].status \in {"none", "processing", "ready"}
    BY DEF E!EditorInit, E!Asset
  <2> QED BY <2>2, <2>3, <2>4 DEF StoredTyped, E!EditorInit
<1>2. CountsTyped
  <2>1. deeds = 0 /\ slips = 0 /\ excess = 0 /\ blurred = FALSE
    BY DEF E!EditorInit
  <2>2. MaxDeeds \in Nat /\ MaxSlips \in Nat
    BY DEF E!EditorConstants
  <2>3. 0 \in 0 .. MaxDeeds /\ 0 \in 0 .. MaxSlips /\ 0 \in 0 .. 0
    BY <2>2
  <2>4. deeds \in 0 .. MaxDeeds /\ slips \in 0 .. MaxSlips /\ excess \in 0 .. slips
    BY <2>1, <2>3
  <2>5. blurred \in BOOLEAN
    BY <2>1
  <2> QED BY <2>4, <2>5 DEF CountsTyped
<1>3. BundleTyped(E!Unread) /\ "none" \in Targets /\ E!Blank \in E!Contents
      /\ DOMAIN <<>> \subseteq Nat
  BY DEF BundleTyped, E!Unread, Targets, E!Contents
<1>4. pane.form = E!NoForm /\ pane.seen = E!Unread /\ errand = E!NoErrand
  BY DEF E!EditorInit
<1>5. ErrandTyped(E!NoErrand)
  BY <1>3 DEF ErrandTyped, E!NoErrand
<1>6. FormTyped(E!NoForm)
  BY <1>3, NoFormKnown DEF FormTyped
<1>7. \A r \in reads : BundleTyped(r.got)
  <2>1. E!Boot.got = E!Unread /\ reads \subseteq {E!Boot}
    BY DEF E!Boot, E!EditorInit
  <2> QED BY <1>3, <2>1
<1> QED BY <1>1, <1>2, <1>3, <1>4, <1>5, <1>6, <1>7 DEF EditorTyped

\* A course's lessons have positions, its papers the questions of papers, and the forms
\* and changes of its author lessons and papers there are (CourseEditor, CourseView).
LEMMA EditorTypesHold == PlatformSafe => []E!EditorTypeOK
<1>1. E!EditorConstants
  BY PlatformConstants
<1>2. E!EditorInit => EditorTyped
  BY <1>1, EditorStartsTyped
<1>3. EditorInv /\ EditorTyped /\ [E!EditorNext]_editorVars => EditorTyped'
  <2>1. ASSUME EditorInv, EditorTyped, E!EditorNext
        PROVE  EditorTyped'
    <3>1. CASE E!SaveBasics \/ E!SubmitLesson \/ E!SubmitPaper \/ E!PressRow \/ E!PressPaper
               \/ E!PressOther
      BY <1>1, <2>1, <3>1, PressTypes
    <3>2. CASE E!OpenLessonForm \/ E!OpenNewForm \/ E!OpenPaper \/ E!Cancel \/ E!Poll
      BY <1>1, <2>1, <3>2, FormTypes
    <3>3. CASE E!StepDone \/ E!ReloadRead \/ E!ReloadLands \/ E!StepFails \/ E!Transcoded
      BY <1>1, <2>1, <3>3, StepDoneTypes, ReloadTypes, StepFailsTypes, TranscodedTypes
    <3>4. CASE \E r \in reads : E!ReadAnswered(r) \/ E!ReadLands(r) \/ E!QuizLands(r) \/ E!ReadFails(r)
      BY <1>1, <2>1, <3>4, ReadTypes
    <3> QED BY <2>1, <3>1, <3>2, <3>3, <3>4 DEF E!EditorNext
  <2>2. ASSUME EditorTyped, UNCHANGED editorVars
        PROVE  EditorTyped'
    BY <2>2 DEF editorVars, EditorTyped, StoredTyped, CountsTyped
  <2> QED BY <2>1, <2>2
<1>4. EditorInv /\ EditorTyped => E!EditorTypeOK
  <2> SUFFICES ASSUME EditorInv, EditorTyped
               PROVE  E!EditorTypeOK
    OBVIOUS
  <2>1. made \in Nat /\ deeds \in 0 .. MaxDeeds /\ slips \in 0 .. MaxSlips /\ blurred \in BOOLEAN
    BY DEF EditorInv, RowsKnown, EditorTyped, CountsTyped
  <2>2. excess \in 0 .. MaxSlips
    <3>1. slips \in 0 .. MaxSlips /\ excess \in 0 .. slips /\ MaxSlips \in Nat
      BY <1>1 DEF E!EditorConstants, EditorTyped, CountsTyped
    <3> QED BY <3>1
  <2> QED BY <2>1, <2>2 DEF EditorTyped, StoredTyped, FormTyped, ErrandTyped, Targets, E!EditorTypeOK
<1> QED BY <1>2, <1>3, <1>4, EditorAlways, EditorApart, PTL

-----------------------------------------------------------------------------
(* Notifications: the badge is a count of its own, moved by each answer.   *)

BellCounts == 0 .. Cardinality(Notes)
BellAsks == [client : N!Clients,
             kind : {"count", "list", "read", "remove", "read_all", "remove_all"},
             note : Notes \cup {0}, served : BOOLEAN, items : N!Items, count : BellCounts, at : Nat]
BellStates == [open : BOOLEAN, items : N!Items, badge : BellCounts]

BellInv ==
    /\ note \in [Notes -> {"none", "unread", "read", "removed"}]
    /\ allowed \in BOOLEAN /\ sending \in {"no", "find", "create"}
    /\ asks \subseteq BellAsks
    /\ bell \in BellStates /\ panel \in N!Items
    /\ bellActs \in 0 .. MaxBellActs /\ failures \in 0 .. MaxFailures

\* Each instance has the counting of finite sets under its own name.
LEMMA SameCount ==
    \A s : N!Cardinality(s) = Cardinality(s) /\ (N!IsFiniteSet(s) <=> IsFiniteSet(s))
<1>1. \A s : N!Cardinality(s) = Cardinality(s)
  BY DEF N!Cardinality, Cardinality
<1>2. \A s : N!IsFiniteSet(s) <=> IsFiniteSet(s)
  BY DEF N!IsFiniteSet, IsFiniteSet
<1> QED BY <1>1, <1>2

LEMMA FewNotes ==
    ASSUME N!NotificationConstants
    PROVE  /\ Cardinality(Notes) \in Nat
           /\ \A s \in SUBSET Notes : N!Cardinality(s) \in BellCounts
<1>1. IsFiniteSet(Notes)
  BY SameCount DEF N!NotificationConstants
<1>2. Cardinality(Notes) \in Nat
  BY <1>1, FS_CardinalityType
<1>3. ASSUME NEW s \in SUBSET Notes
      PROVE  Cardinality(s) \in 0 .. Cardinality(Notes)
  <2>1. IsFiniteSet(s) /\ Cardinality(s) <= Cardinality(Notes)
    BY <1>1, FS_Subset
  <2>2. Cardinality(s) \in Nat
    BY <2>1, FS_CardinalityType
  <2> QED BY <1>2, <2>1, <2>2
<1> QED BY <1>2, <1>3, SameCount DEF BellCounts

\* What is done to a list of notifications leaves a list of notifications; its unread
\* ones are at most all there are.
LEMMA ItemsFacts ==
    ASSUME N!NotificationConstants, NEW m \in N!Items
    PROVE  /\ DOMAIN m \subseteq Notes /\ N!UnreadIn(m) \in BellCounts
           /\ \A n : N!ReadIn(m, n) \in N!Items /\ N!Without(m, n) \in N!Items
           /\ N!AllRead(m) \in N!Items
<1>1. PICK s \in SUBSET Notes : m \in [s -> {"read", "unread"}]
  BY DEF N!Items
<1>2. N!UnreadIn(m) \in BellCounts
  <2> DEFINE unseen == {n \in DOMAIN m : m[n] = "unread"}
  <2>1. unseen \in SUBSET Notes
    BY <1>1
  <2>2. N!UnreadIn(m) = N!Cardinality(unseen)
    BY DEF N!UnreadIn
  <2> QED BY <2>1, <2>2, FewNotes
<1>3. ASSUME NEW n
      PROVE  N!ReadIn(m, n) \in N!Items /\ N!Without(m, n) \in N!Items
  <2>1. N!ReadIn(m, n) \in [s -> {"read", "unread"}]
    BY <1>1 DEF N!ReadIn
  <2>2. N!Without(m, n) \in [s \ {n} -> {"read", "unread"}]
    BY <1>1 DEF N!Without
  <2>3. s \ {n} \in SUBSET Notes
    OBVIOUS
  <2> QED BY <2>1, <2>2, <2>3 DEF N!Items
<1>4. N!AllRead(m) \in [s -> {"read", "unread"}]
  BY <1>1 DEF N!AllRead
<1>5. N!AllRead(m) \in N!Items
  BY <1>4 DEF N!Items
<1> QED BY <1>1, <1>2, <1>3, <1>5

LEMMA NoItemsFacts == N!NotificationConstants => N!NoItems \in N!Items /\ 0 \in BellCounts
<1>1. N!NoItems \in [{} -> {"read", "unread"}]
  BY DEF N!NoItems
<1>2. N!NoItems \in N!Items
  BY <1>1 DEF N!Items
<1> QED BY <1>2, FewNotes DEF BellCounts

\* A new request, and one that was answered from the rows.
LEMMA AskedFacts ==
    ASSUME N!NotificationConstants, BellInv, NEW c \in N!Clients,
           NEW k \in {"count", "list", "read", "remove", "read_all", "remove_all"},
           NEW n \in Notes \cup {0}
    PROVE  N!Ask(c, k, n) \in BellAsks /\ [N!Ask(c, k, n) EXCEPT !.at = 0] \in BellAsks
<1> DEFINE asked == N!Ask(c, k, n)
<1>1. bellActs \in Nat /\ N!NoItems \in N!Items /\ 0 \in BellCounts
  BY NoItemsFacts DEF BellInv, N!NotificationConstants
<1>2. asked \in BellAsks
  BY <1>1 DEF N!Ask, BellAsks
<1> HIDE DEF asked
<1>3. [asked EXCEPT !.at = 0] \in BellAsks
  BY <1>2 DEF BellAsks
<1> QED BY <1>2, <1>3 DEF asked

LEMMA AnsweredFacts ==
    ASSUME N!NotificationConstants, BellInv, NEW q \in asks
    PROVE  N!Answered(q) \in BellAsks
<1>1. \A limit : [n \in N!Newest(limit) |-> note[n]] \in N!Items
  <2> SUFFICES ASSUME NEW limit
               PROVE  [n \in N!Newest(limit) |-> note[n]] \in N!Items
    OBVIOUS
  <2>1. N!Newest(limit) \in SUBSET Notes
    BY DEF N!Newest, N!Kept
  <2>2. \A n \in N!Newest(limit) : note[n] \in {"read", "unread"}
    BY DEF N!Newest, N!Kept
  <2> HIDE DEF N!Newest
  <2>3. [n \in N!Newest(limit) |-> note[n]] \in [N!Newest(limit) -> {"read", "unread"}]
    BY <2>2
  <2> QED BY <2>1, <2>3 DEF N!Items
<1>2. N!Cardinality(N!Unread) \in BellCounts
  <2>1. N!Unread \in SUBSET Notes
    BY DEF N!Unread
  <2> QED BY <2>1, FewNotes
<1> DEFINE rowsOf == IF q.kind # "list" THEN N!NoItems
                     ELSE [n \in N!Newest(IF q.client = "bell" THEN BellLimit ELSE PanelLimit)
                             |-> note[n]]
           number == IF q.kind = "count" THEN N!Cardinality(N!Unread) ELSE 0
<1>3. rowsOf \in N!Items /\ number \in BellCounts
  BY <1>1, <1>2, NoItemsFacts
<1>4. N!Answered(q) = [q EXCEPT !.served = TRUE, !.items = rowsOf, !.count = number]
  BY DEF N!Answered
<1>5. q \in BellAsks
  BY DEF BellInv
<1> HIDE DEF rowsOf, number
<1> QED BY <1>3, <1>4, <1>5 DEF BellAsks

LEMMA AfterFacts ==
    ASSUME BellInv, NEW q \in asks
    PROVE  N!After(q) \in [Notes -> {"none", "unread", "read", "removed"}]
  BY DEF BellInv, BellAsks, N!After

\* An answer that lands on a list of the page, or moves the badge.
LEMMA LandingFacts ==
    ASSUME N!NotificationConstants, BellInv, NEW q \in asks
    PROVE  /\ \A m \in N!Items : N!Shown(q, m) \in N!Items
           /\ N!Badge(q) \in BellCounts
<1>1. q \in BellAsks /\ q.items \in N!Items /\ q.count \in BellCounts
  BY DEF BellInv, BellAsks
<1>2. ASSUME NEW m \in N!Items
      PROVE  N!Shown(q, m) \in N!Items
  <2>1. /\ N!ReadIn(m, q.note) \in N!Items /\ N!Without(m, q.note) \in N!Items
        /\ N!AllRead(m) \in N!Items /\ N!NoItems \in N!Items
    BY ItemsFacts, NoItemsFacts
  <2> QED BY <1>1, <2>1 DEF N!Shown
<1>3. Cardinality(Notes) \in Nat
  BY FewNotes
<1>4. bell.badge \in BellCounts /\ N!Less(bell.badge) \in BellCounts /\ 0 \in BellCounts
  BY <1>3 DEF BellInv, BellStates, BellCounts, N!Less
<1>5. N!UnreadIn(q.items) \in BellCounts
  BY <1>1, ItemsFacts
<1>6. N!Badge(q) \in BellCounts
  BY <1>1, <1>4, <1>5 DEF N!Badge
<1> QED BY <1>2, <1>6

\* A request the person makes.
LEMMA DoesKeeps ==
    ASSUME N!NotificationConstants, BellInv, NEW c \in N!Clients,
           NEW k \in {"list", "read", "remove", "read_all", "remove_all"},
           NEW n \in Notes \cup {0}, N!Does(c, k, n), bell' \in BellStates
    PROVE  BellInv'
<1>1. N!Ask(c, k, n) \in BellAsks
  BY AskedFacts
<1>2. bellActs' \in 0 .. MaxBellActs
  BY DEF N!Does, BellInv, N!NotificationConstants
<1>3. asks' \subseteq BellAsks
  BY <1>1 DEF N!Does, BellInv
<1> QED BY <1>2, <1>3 DEF N!Does, BellInv

LEMMA PersonActsKeeps ==
    ASSUME N!NotificationConstants, BellInv, N!Open \/ N!BellActs \/ N!PanelActs
    PROVE  BellInv'
<1>1. bell \in BellStates /\ bell.items \in N!Items /\ panel \in N!Items
  BY DEF BellInv, BellStates
<1>2. DOMAIN bell.items \subseteq Notes /\ DOMAIN panel \subseteq Notes
  BY <1>1, ItemsFacts
<1>3. "bell" \in N!Clients /\ "panel" \in N!Clients
  BY DEF N!Clients
<1>4. CASE N!Open
  <2>1. N!Does("bell", "list", 0) /\ bell' = [bell EXCEPT !.open = TRUE]
    BY <1>4 DEF N!Open
  <2>2. bell' \in BellStates
    BY <1>1, <2>1 DEF BellStates
  <2> QED BY <1>3, <2>1, <2>2, DoesKeeps
<1>5. CASE N!BellActs
  <2>1. bell' \in BellStates
    BY <1>1, <1>5 DEF N!BellActs
  <2>2. \E k \in {"list", "read", "remove", "read_all", "remove_all"}, n \in Notes \cup {0} :
           N!Does("bell", k, n)
    BY <1>2, <1>5 DEF N!BellActs
  <2> QED BY <1>3, <2>1, <2>2, DoesKeeps
<1>6. CASE N!PanelActs
  <2>1. bell' \in BellStates
    BY <1>1, <1>6 DEF N!PanelActs
  <2>2. \E k \in {"list", "read", "remove", "read_all", "remove_all"}, n \in Notes \cup {0} :
           N!Does("panel", k, n)
    BY <1>2, <1>6 DEF N!PanelActs
  <2> QED BY <1>3, <2>1, <2>2, DoesKeeps
<1> QED BY <1>4, <1>5, <1>6

LEMMA BellStep ==
    ASSUME N!NotificationConstants, BellInv, [N!NotificationsNext]_bellVars
    PROVE  BellInv'
<1>1. CASE N!SendBegins \/ N!FindStudents \/ N!CreateRows \/ N!SendFails \/ N!Leave
  <2>1. CASE N!SendBegins \/ N!FindStudents \/ N!Leave
    BY <2>1 DEF BellInv, N!SendBegins, N!FindStudents, N!Leave
  <2>2. CASE N!CreateRows
    BY <2>2 DEF BellInv, N!CreateRows
  <2>3. CASE N!SendFails
    <3>1. failures' \in 0 .. MaxFailures
      BY <2>3 DEF BellInv, N!SendFails, N!NotificationConstants
    <3> QED BY <2>3, <3>1 DEF BellInv, N!SendFails
  <2> QED BY <1>1, <2>1, <2>2, <2>3
<1>2. ASSUME NEW q \in asks, N!Serve(q)
      PROVE  BellInv'
  <2>1. N!Answered(q) \in BellAsks
    BY AnsweredFacts
  <2>2. asks' \subseteq BellAsks
    BY <1>2, <2>1 DEF N!Serve, BellInv
  <2> QED BY <1>2, <2>2, AfterFacts DEF N!Serve, BellInv
<1>3. ASSUME NEW q \in asks, N!BellLands(q)
      PROVE  BellInv'
  <2>1. bell \in BellStates /\ bell.items \in N!Items /\ bell.open \in BOOLEAN
    BY DEF BellInv, BellStates
  <2>2. N!Shown(q, bell.items) \in N!Items /\ N!Badge(q) \in BellCounts
    BY <2>1, LandingFacts
  <2>3. bell' \in BellStates
    BY <1>3, <2>1, <2>2 DEF N!BellLands, BellStates
  <2> QED BY <1>3, <2>3 DEF N!BellLands, BellInv
<1>4. ASSUME NEW q \in asks, N!PanelLands(q)
      PROVE  BellInv'
  <2>1. panel' \in N!Items
    BY <1>4, LandingFacts DEF N!PanelLands, BellInv
  <2> QED BY <1>4, <2>1 DEF N!PanelLands, BellInv
<1>5. ASSUME NEW q \in asks, N!AskFails(q)
      PROVE  BellInv'
  <2>1. failures' \in 0 .. MaxFailures
    BY <1>5 DEF N!AskFails, BellInv, N!NotificationConstants
  <2>2. bell' \in BellStates
    BY <1>5 DEF N!AskFails, BellInv, BellStates
  <2> QED BY <1>5, <2>1, <2>2 DEF N!AskFails, BellInv
<1>6. CASE N!Poll
  <2>1. [N!Ask("bell", "count", 0) EXCEPT !.at = 0] \in BellAsks
    BY AskedFacts DEF N!Clients
  <2> QED BY <1>6, <2>1 DEF N!Poll, N!PollStarts, BellInv
<1>7. CASE N!Close
  <2>1. bell' \in BellStates
    BY <1>7 DEF N!Close, BellInv, BellStates
  <2> QED BY <1>7, <2>1 DEF N!Close, BellInv
<1>8. CASE UNCHANGED bellVars
  BY <1>8 DEF bellVars, BellInv
<1> QED BY <1>1, <1>2, <1>3, <1>4, <1>5, <1>6, <1>7, <1>8, PersonActsKeeps
        DEF N!NotificationsNext, N!Answering

LEMMA BellStarts == N!NotificationConstants /\ N!NotificationsInit => BellInv
<1> SUFFICES ASSUME N!NotificationConstants, N!NotificationsInit
             PROVE  BellInv
  OBVIOUS
<1>1. N!Ask("bell", "count", 0) \in BellAsks
  BY NoItemsFacts DEF N!Ask, N!Clients, BellAsks, N!NotificationsInit
<1> QED BY <1>1, NoItemsFacts DEF BellInv, N!NotificationsInit, BellStates, N!NotificationConstants

LEMMA BellApart ==
    PlatformSafe => N!NotificationsInit /\ [][N!NotificationsNext]_bellVars
<1>1. PlatformInit => N!NotificationsInit
  BY DEF PlatformInit
<1>2. [PlatformNext]_platformVars => [N!NotificationsNext]_bellVars
  <2>1. Runs("bell") /\ N!NotificationsNext /\ Only("bell") => N!NotificationsNext
    OBVIOUS
  <2> QED BY <2>1 DEF PlatformNext, Only, bellVars, platformVars
<1> QED BY <1>1, <1>2, PTL DEF PlatformSafe

LEMMA BellAlways == PlatformSafe => []BellInv
<1>1. N!NotificationConstants
  BY PlatformConstants
<1> QED BY <1>1, BellStarts, BellStep, BellApart, PTL

\* In whatever order answers land on the bell and on the page, the badge stays within the
\* number of notifications (NotificationBell.tsx lowers it by one per answer, not below 0).
LEMMA BellTyped == PlatformSafe => []N!NotificationsTypeOK
<1>1. BellInv => N!NotificationsTypeOK
  BY SameCount DEF BellInv, N!NotificationsTypeOK, BellAsks, BellStates, BellCounts
<1> QED BY <1>1, BellAlways, PTL

\* Only polls are in progress, and those that are answered tell of the rows there are.
PollsTell ==
    \A q \in asks : q.kind = "count" /\ (q.served => q.count = N!Cardinality(N!Unread))

LEMMA PollsStep ==
    ASSUME BellInv, PollsTell, N!NotificationsNext, UNCHANGED <<note, bellActs>>
    PROVE  PollsTell' /\ bell'.badge \in {bell.badge, N!Cardinality(N!Unread)}
<1> DEFINE right == N!Cardinality(N!Unread)
<1>1. N!Cardinality(N!Unread)' = right
  BY DEF N!Unread
<1>2. bell \in BellStates /\ bellActs \in Nat
  BY DEF BellInv
<1> HIDE DEF right
<1>3. asks' \subseteq asks => PollsTell'
  BY <1>1 DEF PollsTell, right
<1>4. CASE N!SendBegins \/ N!FindStudents \/ N!CreateRows \/ N!SendFails \/ N!Leave
  <2>1. UNCHANGED <<asks, bell>>
    BY <1>4 DEF N!SendBegins, N!FindStudents, N!CreateRows, N!SendFails, N!Leave
  <2> QED BY <1>3, <2>1
<1>5. ASSUME NEW q \in asks, N!Serve(q)
      PROVE  PollsTell' /\ bell'.badge \in {bell.badge, N!Cardinality(N!Unread)}
  <2>1. q.kind = "count" /\ q \in BellAsks
    BY DEF PollsTell, BellInv
  <2>2. N!Answered(q).kind = "count" /\ N!Answered(q).count = right
    BY <2>1 DEF N!Answered, BellAsks, right
  <2>3. asks' = (asks \ {q}) \cup {N!Answered(q)} /\ bell' = bell
    BY <1>5 DEF N!Serve
  <2>4. PollsTell'
    BY <1>1, <2>2, <2>3 DEF PollsTell, right
  <2> QED BY <2>3, <2>4
<1>6. ASSUME NEW q \in asks, N!BellLands(q)
      PROVE  PollsTell' /\ bell'.badge \in {bell.badge, N!Cardinality(N!Unread)}
  <2>1. q.kind = "count" /\ q.count = right
    BY <1>6 DEF PollsTell, N!BellLands, right
  <2>2. bell'.badge = right
    BY <1>6, <2>1 DEF N!BellLands, N!Badge
  <2> QED BY <1>3, <1>6, <2>2 DEF N!BellLands, right
<1>7. ASSUME NEW q \in asks, N!PanelLands(q)
      PROVE  PollsTell' /\ bell'.badge \in {bell.badge, N!Cardinality(N!Unread)}
  BY <1>3, <1>7 DEF N!PanelLands
<1>8. ASSUME NEW q \in asks, N!AskFails(q)
      PROVE  PollsTell' /\ bell'.badge \in {bell.badge, N!Cardinality(N!Unread)}
  <2>1. q.kind = "count"
    BY DEF PollsTell
  <2> QED BY <1>3, <1>8, <2>1 DEF N!AskFails
<1>9. CASE N!Poll
  <2> DEFINE q == [N!Ask("bell", "count", 0) EXCEPT !.at = 0]
  <2>1. q.kind = "count" /\ q.served = FALSE
    BY DEF N!Ask
  <2>2. asks' = asks \cup {q} /\ bell' = bell
    BY <1>9 DEF N!Poll, N!PollStarts
  <2> HIDE DEF q
  <2>3. PollsTell'
    BY <1>1, <2>1, <2>2 DEF PollsTell, right
  <2> QED BY <2>2, <2>3
<1>10. CASE N!Close
  <2>1. bell'.badge = bell.badge /\ asks' = asks
    BY <1>2, <1>10 DEF N!Close, BellStates
  <2> QED BY <1>3, <2>1
<1>11. CASE N!Open \/ N!BellActs \/ N!PanelActs
  <2>1. bellActs' = bellActs + 1
    BY <1>11 DEF N!Open, N!BellActs, N!PanelActs, N!Does
  <2> QED BY <1>2, <2>1
<1> QED BY <1>4, <1>5, <1>6, <1>7, <1>8, <1>9, <1>10, <1>11
        DEF N!NotificationsNext, N!Answering

\* For any notifications and requests: while no row changes and the person does nothing,
\* and only polls are in progress that tell of the rows there are, this stays so, and the
\* badge moves only to the number of unread notifications.  So one such poll that lands
\* sets it right (the interval in NotificationBell.tsx; that a poll lands is what
\* BadgeCatchesUp adds).
THEOREM BadgeFollowsPolls ==
    PlatformSafe =>
        [][PollsTell /\ UNCHANGED <<note, bellActs>> =>
             PollsTell' /\ bell'.badge \in {bell.badge, N!Cardinality(N!Unread)}]_bellVars
<1>1. N!NotificationConstants
  BY PlatformConstants
<1>2. BellInv /\ [N!NotificationsNext]_bellVars =>
        [PollsTell /\ UNCHANGED <<note, bellActs>> =>
           PollsTell' /\ bell'.badge \in {bell.badge, N!Cardinality(N!Unread)}]_bellVars
  BY PollsStep
<1> QED BY <1>1, <1>2, BellAlways, BellApart, PTL
=============================================================================
