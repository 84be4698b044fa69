------------------------------ MODULE ListPages ------------------------------
(***************************************************************************)
(* The pages that show a list loaded from the API and load it again after  *)
(* every change: users, catalogue, institutions, links, audit, the home    *)
(* panels, the feed of a community and the lesson's community tab.  One    *)
(* page, one person at work.  Every load is a request of its own: nothing  *)
(* cancels an earlier one, and answers land in any order.  What a filter   *)
(* looks at (role, school, status, course) is the row's kind.              *)
(***************************************************************************)
EXTENDS Naturals, Sequences, FiniteSets, SequencesExt

CONSTANTS
    Rows,           \* identities a row may get, 1 .. n in the order of listing
    Kinds,
    InitialRows,    \* the stored rows when the page opens
    Found,          \* the rows the searched text is in
    PageSize,
    TabSize,        \* rows the lesson's tab shows of an answer
    MaxActs,        \* bound on what the person does
    MaxLoads        \* bound on the loads in progress

ListConstants ==
    /\ Rows \subseteq Nat \ {0} /\ IsFiniteSet(Rows)
    /\ "none" \notin Kinds /\ "any" \notin Kinds
    /\ InitialRows \in [Rows -> Kinds \cup {"none"}]
    /\ Found \subseteq Rows
    /\ PageSize \in Nat \ {0} /\ TabSize \in Nat /\ MaxActs \in Nat

VARIABLES
    page,       \* the page that is open
    rows,       \* the stored rows
    query,      \* what the list is asked for
    typed,      \* the search box, and whether its timer runs
    ready,      \* the page knows its institution
    loads,      \* requests in progress, oldest first
    list,       \* the answer shown
    error,
    form,       \* the form that is open, and the error in it
    op,         \* the change in progress (busy)
    posting,    \* the publications in progress: the feed has no busy
    acts,
    landed,     \* ghost: the answer of the newest load has landed
    overtaken,  \* ghost: the list shown is not that of the newest load, or not of the query
    warned      \* ghost: an error that may be gone has told that the list is behind

listVars == <<page, rows, query, typed, ready, loads, list, error, form, op, posting,
              acts, landed, overtaken, warned>>
ghosts == <<landed, overtaken, warned>>

ListPageNames == {"users", "school", "catalog", "schools", "link", "audit", "master",
                  "institution", "feed", "tab"}
Paged == {"users", "school", "audit"}

Queries == [kind : Kinds \cup {"any"}, text : BOOLEAN, at : Nat \ {0}]
FirstQuery == [kind |-> "any", text |-> FALSE, at |-> 1]

New == 0
Closed == [open |-> FALSE, row |-> New, bad |-> FALSE]
Idle == [step |-> "none"]

-----------------------------------------------------------------------------
(* The API.                                                                *)

Matching(q) == {r \in Rows : /\ rows[r] # "none"
                             /\ q.kind \in {"any", rows[r]}
                             /\ q.text => r \in Found}
Rank(r, s) == Cardinality({x \in s : x < r})

\* One page of what matches; the other lists are whole.
UserRows(q) == {r \in Matching(q) : Rank(r, Matching(q)) \div PageSize = q.at - 1}
UserPages(q) == IF Matching(q) = {} THEN 1
                ELSE (Cardinality(Matching(q)) + PageSize - 1) \div PageSize
AuditRows(q) == UserRows([q EXCEPT !.text = FALSE])
TabRows(q) == {r \in Matching(q) : Rank(r, Matching(q)) < TabSize}

Listed(q) == CASE page = "audit" -> AuditRows(q)
               [] page \in Paged \ {"audit"} -> UserRows(q)
               [] page = "tab" -> TabRows(q)
               [] OTHER -> Matching(q)
Answer(q) == [of |-> q,
              rows |-> [r \in Listed(q) |-> rows[r]],
              pages |-> IF page \in Paged THEN UserPages(q) ELSE 1]

-----------------------------------------------------------------------------
(* Loading.                                                                *)

Unanswered == [of |-> FirstQuery, rows |-> <<>>, pages |-> 0]
Request(q, mine) == [query |-> q, mine |-> mine, served |-> FALSE, answer |-> Unanswered]

\* A load of q begins; a load that belongs to a change ends it.
Ask(q, mine) ==
    /\ loads' = Append(loads, Request(q, mine))
    /\ landed' = FALSE
    /\ warned' = FALSE
    /\ UNCHANGED overtaken

NoAsk == UNCHANGED <<loads, ghosts>>

\* The effect of a changed query.  On the school's page load does nothing
\* until the institution is known; the directory of communities asks nothing.
Effect(q) ==
    /\ query' = q
    /\ IF q = query \/ ~ready \/ (page = "feed" /\ q.kind = "any")
       THEN NoAsk ELSE Ask(q, FALSE)

\* The lesson's tab clears its error when it begins to load.
ErrorWhenAsked == page # "tab" /\ error

Served(i) ==
    /\ i \in DOMAIN loads
    /\ ~loads[i].served
    /\ loads' = [loads EXCEPT ![i] = [@ EXCEPT !.served = TRUE, !.answer = Answer(loads[i].query)]]
    /\ UNCHANGED <<page, rows, query, typed, ready, list, error, form, op, acts, ghosts>>

Ended(i) ==
    /\ loads' = RemoveAt(loads, i)
    /\ op' = IF loads[i].mine THEN Idle ELSE op
    /\ landed' = (landed \/ i = Len(loads))

\* The answer is shown whatever the query is by now.
Lands(i) ==
    /\ i \in DOMAIN loads
    /\ loads[i].served
    /\ list' = loads[i].answer
    /\ error' = (page = "feed" /\ error)
    /\ overtaken' = (landed \/ i # Len(loads) \/ loads[i].query # query)
    /\ Ended(i)
    /\ UNCHANGED <<page, rows, query, typed, ready, form, acts, warned>>

LoadFails(i) ==
    /\ i \in DOMAIN loads
    /\ error' = TRUE
    /\ Ended(i)
    /\ UNCHANGED <<page, rows, query, typed, ready, list, form, acts, overtaken, warned>>

-----------------------------------------------------------------------------
(* Changing.                                                               *)

Act == acts < MaxActs /\ Len(loads) < MaxLoads /\ acts' = acts + 1
Free == {r \in Rows : rows[r] = "none"}
Unbusy == op = Idle

\* A change is sent; the load that will follow it is the one of this moment.
Send(r, to, secret, inForm) ==
    /\ Unbusy
    /\ op' = [step |-> "write", row |-> r, to |-> to, secret |-> secret,
              inForm |-> inForm, query |-> query]
    /\ UNCHANGED <<page, rows, query, typed, ready, list>>
    /\ NoAsk

\* The rename of a category tells its errors at the top of the page (run).
InForm == op.inForm /\ page # "catalog"
FormEnds == IF op.inForm THEN Closed ELSE form

\* Reload, if the list were left as it is.
ReloadForgotten ==
    /\ op' = Idle
    /\ form' = FormEnds
    /\ error' = (error /\ InForm)
    /\ NoAsk

\* The change is complete: the form closes and the list is loaded again.
Reload ==
    /\ op' = [op EXCEPT !.step = "load"]
    /\ form' = FormEnds
    /\ error' = (error /\ InForm)
    /\ Ask(op.query, TRUE)

\* An error is told in the form, or at the top of the page.
Told == IF InForm
        THEN form' = [form EXCEPT !.bad = TRUE] /\ UNCHANGED error
        ELSE error' = TRUE /\ UNCHANGED form
GiveUp(stored) ==
    /\ op' = Idle
    /\ Told
    /\ warned' = (warned \/ stored)
    /\ UNCHANGED <<loads, landed, overtaken>>

Stores ==
    /\ op.step = "write"
    /\ rows' = [rows EXCEPT ![op.row] = op.to]
    /\ \/ /\ op.secret
          /\ op' = [op EXCEPT !.step = "password"]
          /\ UNCHANGED <<form, error>>
          /\ NoAsk
       \/ ~op.secret /\ Reload
       \/ GiveUp(TRUE)
    /\ UNCHANGED <<page, query, typed, ready, list, acts>>

Refuses ==
    /\ op.step = "write"
    /\ GiveUp(FALSE)
    /\ UNCHANGED <<page, rows, query, typed, ready, list, acts>>

\* The second request of a change with a new password.
SetsPassword ==
    /\ op.step = "password"
    /\ Reload \/ GiveUp(TRUE)
    /\ UNCHANGED <<page, rows, query, typed, ready, list, acts>>

OnPage == ~form.open
Shown == DOMAIN list.rows

Opens(r) ==
    /\ OnPage
    /\ form' = [open |-> TRUE, row |-> r, bad |-> FALSE]
    /\ UNCHANGED <<page, rows, query, typed, ready, list, error, op>>
    /\ NoAsk

\* Cancel works while a change is in progress, too.
Closes ==
    /\ form.open
    /\ form' = Closed
    /\ Act
    /\ UNCHANGED <<page, rows, query, typed, ready, list, error, op>>
    /\ NoAsk

\* What the form is sent with: the new row, or the row it was opened on.
FromForm(secrets) ==
    /\ form.open
    /\ \E r \in IF form.row = New THEN Free ELSE {form.row} :
         \E to \in Kinds, secret \in secrets : Send(r, to, secret, TRUE)
    /\ form' = [form EXCEPT !.bad = FALSE]
    /\ UNCHANGED error

FromRow(r, to) ==
    /\ OnPage
    /\ Send(r, to, FALSE, FALSE)
    /\ UNCHANGED <<form, error>>

Asks(q) ==
    /\ OnPage
    /\ q # query
    /\ Effect(q)
    /\ error' = ErrorWhenAsked
    /\ UNCHANGED <<page, rows, ready, list, form, op>>

Turns(to) ==
    /\ list.pages > 1
    /\ to \in {query.at - 1, query.at + 1}
    /\ to >= 1 /\ (to > query.at => to <= list.pages)
    /\ Asks([query EXCEPT !.at = to])
    /\ UNCHANGED typed

-----------------------------------------------------------------------------
(* The search box: the text becomes the query 350 ms after the last key.   *)

Types ==
    /\ page \in {"users", "school"}
    /\ OnPage /\ Act
    /\ typed' = [text |-> ~typed.text, timer |-> TRUE]
    /\ UNCHANGED <<page, rows, query, ready, list, error, form, op>>
    /\ NoAsk

TimerFires ==
    /\ typed.timer
    /\ Len(loads) < MaxLoads
    /\ typed' = [typed EXCEPT !.timer = FALSE]
    /\ Effect([query EXCEPT !.text = typed.text, !.at = 1])
    /\ UNCHANGED <<page, rows, ready, list, error, form, op, acts>>

-----------------------------------------------------------------------------
(* UsuariosPageClient                                                      *)

UsersFilter == \E k \in Kinds \cup {"any"} :
                  /\ Asks([query EXCEPT !.kind = k, !.at = 1])
                  /\ UNCHANGED typed
UsersTurn == Turns(query.at - 1) \/ Turns(query.at + 1)
\* The rows have the buttons; only the form of an account that exists can
\* carry a new password for it.
UsersTable == Shown
UsersForm == IF form.row = New THEN {FALSE} ELSE BOOLEAN
UsersOpen == Opens(New) \/ \E r \in UsersTable : Opens(r)
UsersSubmit == FromForm(UsersForm)
UsersRemove == \E r \in UsersTable : FromRow(r, "none")

Users ==
    /\ page = "users" /\ Act
    /\ \/ UsersFilter
       \/ UsersTurn
       \/ UsersOpen
       \/ UsersSubmit
       \/ UsersRemove

-----------------------------------------------------------------------------
(* InstituicaoUsuariosPageClient: the same, in the first institution of    *)
(* the person, once it is known.                                           *)

SchoolKnown ==
    /\ page = "school" /\ ~ready /\ ~error
    /\ ready' = TRUE
    /\ Ask(query, FALSE)
    /\ UNCHANGED <<page, rows, query, typed, list, error, form, op, acts>>

SchoolUnknown ==
    /\ page = "school" /\ ~ready /\ ~error
    /\ error' = TRUE
    /\ UNCHANGED <<page, rows, query, typed, ready, loads, list, form, op, acts, ghosts>>

SchoolFilter == \E k \in Kinds \cup {"any"} :
                   /\ Asks([query EXCEPT !.kind = k, !.at = 1])
                   /\ UNCHANGED typed
SchoolTurn == Turns(query.at - 1) \/ Turns(query.at + 1)
SchoolTable == Shown
SchoolForm == IF form.row = New THEN {FALSE} ELSE BOOLEAN
SchoolOpen == (ready /\ Opens(New)) \/ \E r \in SchoolTable : Opens(r)
SchoolSubmit == ready /\ FromForm(SchoolForm)
SchoolRemove == \E r \in SchoolTable : FromRow(r, "none")

School ==
    /\ page = "school" /\ Act
    /\ \/ SchoolFilter
       \/ SchoolTurn
       \/ SchoolOpen
       \/ SchoolSubmit
       \/ SchoolRemove

-----------------------------------------------------------------------------
(* CatalogPageClient: courses and categories are the rows; its filters     *)
(* choose among the rows shown.  Whether a course shown uses a category is *)
(* left open.                                                              *)

CatalogCourses == Shown
CatalogCategories == Shown
CatalogRename == (\E r \in CatalogCategories : Opens(r)) \/ FromForm({FALSE})
CatalogCreate ==
    /\ OnPage
    /\ \E r \in Free, k \in Kinds : Send(r, k, FALSE, FALSE)
    /\ UNCHANGED <<form, error>>
CatalogStatus == \E r \in CatalogCourses : \E k \in Kinds \ {list.rows[r]} : FromRow(r, k)
CatalogDelete == \E r \in CatalogCourses \cup CatalogCategories : FromRow(r, "none")

Catalog ==
    /\ page = "catalog" /\ Act
    /\ \/ CatalogRename
       \/ CatalogCreate
       \/ CatalogStatus
       \/ CatalogDelete

(* InstituicoesPageClient                                                  *)
SchoolsTable == Shown
SchoolsForm == {FALSE}
SchoolsOpen == Opens(New) \/ \E r \in SchoolsTable : Opens(r)
SchoolsSubmit == FromForm(SchoolsForm)
SchoolsRemove == \E r \in SchoolsTable : FromRow(r, "none")

Schools ==
    /\ page = "schools" /\ Act
    /\ SchoolsOpen \/ SchoolsSubmit \/ SchoolsRemove

(* VincularPageClient: what the checkbox sends depends on the link shown.  *)
LinkTable == Shown
Toggle == \E r \in LinkTable : \E k \in Kinds \ {list.rows[r]} : FromRow(r, k)

Link == page = "link" /\ Act /\ Toggle

(* AuditoriaPageClient                                                     *)
AuditFilter == \E k \in Kinds \cup {"any"} :
                  /\ Asks([query EXCEPT !.kind = k, !.at = 1])
                  /\ UNCHANGED typed
AuditTurn == Turns(query.at - 1) \/ Turns(query.at + 1)

Audit == page = "audit" /\ Act /\ (AuditFilter \/ AuditTurn)

-----------------------------------------------------------------------------
(* CommunityFeed: the course of the address is the query; the directory is *)
(* the page without one.  LessonCommunityTab: the posts of the course, or  *)
(* of the lesson only.                                                     *)

FeedVisit == \E k \in Kinds \cup {"any"} :
                /\ Asks([query EXCEPT !.kind = k])
                /\ UNCHANGED typed

Feed == page = "feed" /\ Act /\ FeedVisit

\* onCreate clears the error, also that of a load that had failed.
FeedPublish ==
    /\ page = "feed" /\ Act
    /\ query.kind # "any"
    /\ \E r \in Free \ {p.row : p \in posting} :
          posting' = posting \cup {[row |-> r, query |-> query]}
    /\ error' = FALSE
    /\ warned' = (warned \/ error)
    /\ UNCHANGED <<page, rows, query, typed, ready, loads, list, form, op, landed, overtaken>>

\* Stored, and the course it was for is loaded again, or the answer is lost.
Published(p) ==
    /\ page = "feed"
    /\ posting' = posting \ {p}
    /\ rows' = [rows EXCEPT ![p.row] = p.query.kind]
    /\ \/ Ask(p.query, FALSE) /\ UNCHANGED error
       \/ error' = TRUE /\ NoAsk
    /\ UNCHANGED <<page, query, typed, ready, list, form, op, acts>>

\* An error, but for language that is not allowed, which is told in a notice.
NotPublished(p) ==
    /\ page = "feed"
    /\ posting' = posting \ {p}
    /\ error' \in {TRUE, error}
    /\ NoAsk
    /\ UNCHANGED <<page, rows, query, typed, ready, list, form, op, acts>>

TabFilter == \E k \in Kinds \cup {"any"} :
                /\ Asks([query EXCEPT !.kind = k])
                /\ UNCHANGED typed

Tab == page = "tab" /\ Act /\ TabFilter

-----------------------------------------------------------------------------
(* Every page loads when it opens; MasterHomeClient and                    *)
(* InstituicaoHomeClient do nothing else.                                  *)
OpensLoading == page \notin {"school", "feed"}

ListInit ==
    /\ page \in ListPageNames
    /\ rows = InitialRows
    /\ query = FirstQuery
    /\ typed = [text |-> FALSE, timer |-> page \in {"users", "school"}]
    /\ ready = (page # "school")
    /\ loads = IF OpensLoading
               THEN <<Request(FirstQuery, FALSE)>> ELSE <<>>
    /\ list = Unanswered
    /\ error = FALSE
    /\ form = Closed
    /\ op = Idle /\ posting = {}
    /\ acts = 0
    /\ landed = FALSE /\ overtaken = FALSE /\ warned = FALSE

ListNext ==
    \/ /\ \/ \E i \in 1 .. MaxLoads : Served(i) \/ Lands(i) \/ LoadFails(i)
          \/ Stores \/ Refuses \/ SetsPassword
          \/ Types \/ TimerFires \/ Closes
          \/ SchoolKnown \/ SchoolUnknown
          \/ Users \/ School \/ Catalog \/ Schools \/ Link \/ Audit \/ Feed \/ Tab
       /\ UNCHANGED posting
    \/ FeedPublish
    \/ \E p \in posting : Published(p) \/ NotPublished(p)

ListSpec == ListInit /\ [][ListNext]_listVars

-----------------------------------------------------------------------------
Answers == [of : Queries, rows : UNION {[s -> Kinds] : s \in SUBSET Rows}, pages : Nat]

ListTypeOK ==
    /\ page \in ListPageNames
    /\ rows \in [Rows -> Kinds \cup {"none"}]
    /\ query \in Queries
    /\ typed \in [text : BOOLEAN, timer : BOOLEAN]
    /\ ready \in BOOLEAN /\ error \in BOOLEAN
    /\ \A i \in DOMAIN loads : /\ loads[i].query \in Queries
                               /\ loads[i].mine \in BOOLEAN /\ loads[i].served \in BOOLEAN
                               /\ loads[i].answer \in Answers
    /\ list \in Answers
    /\ form \in [open : BOOLEAN, row : Rows \cup {New}, bad : BOOLEAN]
    /\ op.step \in {"none", "write", "password", "load"}
    /\ posting \subseteq [row : Rows, query : Queries]
    /\ acts \in 0 .. MaxActs
    /\ landed \in BOOLEAN /\ overtaken \in BOOLEAN /\ warned \in BOOLEAN

Settled == loads = <<>> /\ op = Idle /\ ready

(* A page at rest without an error shows what is stored for the filters it *)
(* shows, except after an answer that came late or for an earlier filter,  *)
(* or when the person was told by an error that is no longer shown: of a   *)
(* change that failed with a part of it stored (an account without its new *)
(* password: the form tells, the list is not loaded), or of a load that    *)
(* failed, before a publication cleared the error and was refused for its  *)
(* language with none of its own (CommunityFeed.tsx:187, 200-203).         *)
ListIsCurrent ==
    (Settled /\ ~error /\ ~overtaken /\ ~warned /\ ~(page = "feed" /\ query.kind = "any"))
        => list = Answer(query)
=============================================================================
