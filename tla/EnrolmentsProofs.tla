--------------------------- MODULE EnrolmentsProofs ---------------------------
(***************************************************************************)
(* What the services keep about accounts, schools and enrolments that were *)
(* never raced, for any number of people, schools and requests and any     *)
(* sequence of calls.                                                      *)
(*                                                                         *)
(* The argument is that of a lock, which the code does not have: the       *)
(* ghost held says what a request has read or will write, and a user or a  *)
(* school that two requests come to hold is raced.  So while a thing is    *)
(* not raced, what a request has read about it stays true until the        *)
(* request has written (NobodyInterferes), and the checks of the request   *)
(* hold when it writes (RequestKnows).                                     *)
(***************************************************************************)
EXTENDS Enrolments, TLAPS

Locals == [ids: (SUBSET Schools) \cup {{None}}, class: SUBSET Users, role: Roles, sets: BOOLEAN]

\* What a request holds and another works on is raced.
RacedIsKnown ==
    \A q, r \in Requests : q # r => held[q] \cap Busy(r) \subseteq raced

\* The chain of statements a request is in belongs to its call.
CallFits(r) ==
    /\ pc[r] = "schools" => call[r].op \in {"create", "update"}
    /\ pc[r] = "create" => call[r].op = "create"
    /\ pc[r] \in {"current", "update"} => call[r].op = "update"
    /\ pc[r] = "linkrow" => call[r].op = "unlink"
    /\ pc[r] = "access" => call[r].op \in {"enrol", "remove"}
    /\ pc[r] = "members" => call[r].op = "enrol"

\* The actor still is who he was when the request authenticated, his schools
\* exist, and who enrols himself is a student.
ActorKnown(r) == InFlight(r) =>
    /\ call[r].actor \notin raced =>
          Serving(call[r].actor) /\ user[call[r].actor].role = who[r].role
    /\ who[r].scope \ raced \subseteq school
    /\ call[r].op = "enrol" /\ call[r].source = "SELF" =>
          who[r].role = "ALUNO" /\ call[r].user \in held[r]

\* The account that is changed or deleted.
AccountKnown(r) ==
    LET u == call[r].user
        changes == pc[r] \in {"schools", "update"} /\ call[r].op = "update"
        deletes == pc[r] \in {"masters", "delete"}
    IN  /\ changes \/ deletes =>
              /\ u \in held[r]
              /\ u \notin raced => /\ user[u].state = "live"
                                   /\ user[u].role = "ADM_MASTER" => who[r].role = "ADM_MASTER"
        /\ changes =>
              /\ u \notin raced /\ ~loc[r].sets => loc[r].role = user[u].role
              /\ (u = call[r].actor \/ loc[r].ids = {None}) => ~loc[r].sets
              /\ u = call[r].actor => call[r].active # FALSE
        /\ deletes => u # call[r].actor

\* The schools an account is given.
SchoolsKnown(r) ==
    /\ pc[r] = "create" => call[r].user \in held[r]
    /\ pc[r] \in {"create", "update"} /\ loc[r].ids # {None} =>
          loc[r].ids \subseteq held[r] \cap Schools /\ loc[r].ids \ raced \subseteq school

\* The school that is closed, receives the course or loses it.
SchoolKnown(r) ==
    LET s == call[r].school IN
    /\ pc[r] \in {"close", "students", "link", "unlink"} => s \in held[r] \cap Schools
    /\ pc[r] = "close" /\ s \notin raced => MembersOf(s) = {}
    /\ pc[r] \in {"students", "link"} /\ s \notin raced => s \in school
    /\ pc[r] = "link" =>
          /\ loc[r].class \subseteq held[r]
          /\ \A u \in loc[r].class \ raced : member[u][s] = "ALUNO"

\* The person who is enrolled, and where.
StudentKnown(r) ==
    LET u == call[r].user IN
    /\ pc[r] \in {"open", "join", "offer", "again", "links", "enrol"} => u \in held[r]
    /\ pc[r] \in {"open", "join", "offer", "again"} /\ u \notin raced =>
          user[u].state = "live" /\ user[u].role = "ALUNO"
    /\ pc[r] \in {"join", "offer", "again"} =>
          Open \in held[r] /\ (Open \notin raced => Open \in school)
    /\ pc[r] \in {"offer", "again"} /\ u \notin raced => member[u][Open] = "ALUNO"
    /\ pc[r] \in {"links", "enrol"} =>
          /\ loc[r].ids \subseteq held[r] \cap Schools
          /\ u \notin raced => \A s \in loc[r].ids : member[u][s] = "ALUNO"
    /\ pc[r] = "enrol" => loc[r].ids \ raced \subseteq Linked

\* The enrolment that is removed has a row; rows are never deleted.
RemovalKnown(r) ==
    pc[r] = "remove" =>
        /\ loc[r].ids \subseteq Schools
        /\ \A s \in loc[r].ids : enrolled[call[r].user][s] # None

RequestKnows(r) ==
    /\ CallFits(r) /\ ActorKnown(r) /\ AccountKnown(r) /\ SchoolsKnown(r)
    /\ SchoolKnown(r) /\ StudentKnown(r) /\ RemovalKnown(r)

Rows == Row \cup {None}

DataTypes ==
    /\ user \in [Users -> Accounts] /\ school \subseteq Schools
    /\ member \in [Users -> [Schools -> Roles \cup {None}]]
    /\ link \in [Schools -> {"none", "off", "on"}]
    /\ enrolled \in [Users -> [Schools -> Rows]]
    /\ split \subseteq Users

\* A request goes on to its next statement.
Goes(q) ==
    /\ InFlight(q)
    /\ \E step \in Steps \ {"idle"} : Go(q, step)
    /\ \/ \E things \in SUBSET (Users \cup Schools) : Hold(q, things)
       \/ UNCHANGED <<held, raced>>
    /\ loc' \in [Requests -> Locals]
    /\ \A r \in Requests \ {q} : loc'[r] = loc[r]

\* The other requests are where they were.
Elsewhere(q) ==
    /\ raced \subseteq raced'
    /\ \A r \in Requests \ {q} :
          /\ pc'[r] = pc[r] /\ call'[r] = call[r] /\ who'[r] = who[r]
          /\ loc'[r] = loc[r] /\ held'[r] = held[r]

\* A request writes what it holds: other accounts keep their row and their
\* memberships, other schools stay, with their link and no new member, and the
\* row of an enrolment stays.
WritesHeld(q) ==
    /\ \A u \in Users \ held[q] : user'[u] = user[u] /\ member'[u] = member[u]
    /\ \A s \in Schools \ held[q] :
          /\ link'[s] = link[s]
          /\ s \in school => s \in school'
          /\ \A u \in Users : member[u][s] = None => member'[u][s] = None
    /\ \A u \in Users, s \in Schools : enrolled[u][s] # None => enrolled'[u][s] # None

ControlTypes ==
    /\ pc \in [Requests -> Steps]
    /\ call \in [Requests -> Inputs \cup {None}]
    /\ who \in [Requests -> [role: Roles, scope: SUBSET Schools]]
    /\ loc \in [Requests -> Locals]
    /\ calls \in 0..MaxCalls
    /\ held \in [Requests -> SUBSET (Users \cup Schools)]
    /\ raced \subseteq Users \cup Schools
    /\ \A r \in Requests : InFlight(r) => call[r] \in Inputs

IInv ==
    /\ TypeOK /\ RacedIsKnown
    /\ \A r \in Requests : RequestKnows(r)
    /\ MembersBelong /\ RolesAgree /\ MasterRemains

-----------------------------------------------------------------------------
LEMMA Initially == Init => IInv
<1> SUFFICES ASSUME Init PROVE IInv
  OBVIOUS
<1> USE Constants DEF Init
<1>1. TypeOK
  <2>1. who \in [Requests -> [role: Roles, scope: SUBSET Schools]]
    <3>1. Nobody \in [role: Roles, scope: SUBSET Schools]
      BY DEF Nobody, Roles
    <3> QED BY <3>1
  <2>2. loc \in [Requests -> Locals]
    <3>1. NoLocals \in Locals
      BY DEF NoLocals, Locals, Roles
    <3> QED BY <3>1
  <2> QED BY <2>1, <2>2 DEF TypeOK, Steps, InFlight, Locals
<1>2. RacedIsKnown
  BY DEF RacedIsKnown
<1>3. \A r \in Requests : RequestKnows(r)
  BY DEF RequestKnows, CallFits, ActorKnown, AccountKnown, SchoolsKnown, SchoolKnown,
         StudentKnown, RemovalKnown, InFlight
<1>4. MembersBelong /\ RolesAgree
  BY DEF MembersBelong, RolesAgree, Linked
<1>5. MasterRemains
  BY DEF MasterRemains, Serving
<1> QED
  BY <1>1, <1>2, <1>3, <1>4, <1>5 DEF IInv

-----------------------------------------------------------------------------
(* The types of what a request and its call hold. *)

LEMMA InputFields ==
    ASSUME NEW i \in Inputs
    PROVE  /\ i.op \in Ops /\ i.actor \in Users /\ i.user \in Users
           /\ i.school \in Schools \cup {None} /\ i.role \in Roles \cup {None}
           /\ i.active \in BOOLEAN \cup {None}
           /\ i.ids \in (SUBSET Schools) \cup {{None}}
           /\ i.source \in {"ASSIGNED", "SELF"}
           /\ i.op = "create" => i.role \in Roles
           /\ i.op \in {"close", "link", "unlink"} => i.school \in Schools
           /\ i.op = "enrol" /\ i.source = "SELF" => i.user = i.actor
BY Constants DEF Calls

LEMMA RequestFields ==
    ASSUME TypeOK, NEW r \in Requests
    PROVE  /\ who[r].role \in Roles /\ who[r].scope \subseteq Schools
           /\ loc[r] \in Locals
           /\ loc[r].role \in Roles /\ loc[r].class \subseteq Users
           /\ loc[r].sets \in BOOLEAN /\ loc[r].ids \in (SUBSET Schools) \cup {{None}}
           /\ held[r] \subseteq Users \cup Schools
           /\ InFlight(r) => call[r] \in Inputs
BY DEF TypeOK, Locals

LEMMA UserFields ==
    ASSUME TypeOK, NEW u \in Users
    PROVE  /\ user[u] \in Accounts
           /\ user[u].state \in {"absent", "live", "deleted"}
           /\ user[u].active \in BOOLEAN /\ user[u].role \in Roles
BY DEF TypeOK, Accounts

LEMMA HoldFacts ==
    ASSUME TypeOK, NEW q \in Requests, NEW things \in SUBSET (Users \cup Schools), Hold(q, things)
    PROVE  /\ held' \in [Requests -> SUBSET (Users \cup Schools)]
           /\ held'[q] = held[q] \cup things
           /\ \A r \in Requests \ {q} : held'[r] = held[r]
           /\ raced' \subseteq Users \cup Schools /\ raced \subseteq raced'
           /\ \A r \in Requests \ {q} : things \cap Busy(r) \subseteq raced'
<1>1. held \in [Requests -> SUBSET (Users \cup Schools)] /\ raced \subseteq Users \cup Schools
  BY DEF TypeOK
<1>2. /\ held' = [held EXCEPT ![q] = @ \cup things]
      /\ raced' = raced \cup (things \cap UNION {Busy(r) : r \in Requests \ {q}})
  BY DEF Hold
<1>3. /\ held' \in [Requests -> SUBSET (Users \cup Schools)]
      /\ held'[q] = held[q] \cup things
      /\ \A r \in Requests \ {q} : held'[r] = held[r]
  BY <1>1, <1>2
<1>4. raced' \subseteq Users \cup Schools /\ raced \subseteq raced'
  BY <1>1, <1>2
<1>5. \A r \in Requests \ {q} : things \cap Busy(r) \subseteq raced'
  BY <1>2
<1> QED
  BY <1>3, <1>4, <1>5

LEMMA EndFacts ==
    ASSUME TypeOK, NEW q \in Requests, End(q)
    PROVE  /\ pc' \in [Requests -> Steps] /\ pc'[q] = "idle"
           /\ call' \in [Requests -> Inputs \cup {None}]
           /\ who' \in [Requests -> [role: Roles, scope: SUBSET Schools]]
           /\ loc' \in [Requests -> Locals]
           /\ held' \in [Requests -> SUBSET (Users \cup Schools)] /\ held'[q] = {}
           /\ \A r \in Requests \ {q} :
                 /\ pc'[r] = pc[r] /\ call'[r] = call[r] /\ who'[r] = who[r]
                 /\ loc'[r] = loc[r] /\ held'[r] = held[r]
           /\ raced' = raced /\ calls' = calls
<1>1. Nobody \in [role: Roles, scope: SUBSET Schools]
  BY DEF Nobody, Roles
<1>2. NoLocals \in Locals
  BY DEF NoLocals, Locals, Roles
<1>3. who \in [Requests -> [role: Roles, scope: SUBSET Schools]] /\ loc \in [Requests -> Locals]
  BY DEF TypeOK, Locals
<1> QED
  BY <1>1, <1>2, <1>3 DEF TypeOK, End, Steps

-----------------------------------------------------------------------------
(* A step of a request ends it or takes it on to its next statement. *)

LEMMA RequestSteps ==
    ASSUME TypeOK, NEW q \in Requests, CallFits(q),
           AccountStep(q) \/ SchoolStep(q) \/ EnrolmentStep(q) \/ Die(q)
    PROVE  End(q) \/ Goes(q)
<1> USE DEF Stop
<1>1. loc \in [Requests -> Locals]
  BY DEF TypeOK, Locals
<1>2. /\ loc[q] = [ids |-> loc[q].ids, class |-> loc[q].class, role |-> loc[q].role,
                    sets |-> loc[q].sets]
  BY <1>1 DEF Locals
<1>3. /\ call[q] \in Inputs => call[q].op \in Ops
      /\ call[q] \in Inputs => call[q].user \in Users
      /\ call[q] \in Inputs => call[q].ids \in (SUBSET Schools) \cup {{None}}
      /\ call[q] \in Inputs => call[q].role \in Roles \cup {None}
  BY InputFields
<1>4. ASSUME CheckSchools(q) PROVE End(q) \/ Goes(q)
  <2>1. call[q] \in Inputs /\ InFlight(q)
    BY <1>4, RequestFields DEF CheckSchools, InFlight
  <2>2. CASE Stop(q)
    BY <2>2
  <2>3. CASE ~Stop(q)
    <3>1. call[q].op \in {"create", "update"} /\ (call[q].op = "create" => call[q].role \in Roles)
      BY <1>4, <2>1, InputFields DEF CheckSchools, CallFits
    <3>2. \A asked, role : NormalIds(q, role, asked) \subseteq SUBSET Schools
      BY RequestFields DEF NormalIds, TypeOK
    <3>3. \E ids, role : /\ ids \in SUBSET Schools /\ role \in Roles
                         /\ loc' = [loc EXCEPT ![q] = [@ EXCEPT !.ids = ids, !.role = role]]
                         /\ Hold(q, {call[q].user} \cup ids) /\ Go(q, call[q].op)
      <4> DEFINE role == IF call[q].op = "create" THEN call[q].role ELSE loc[q].role
                 asked == IF call[q].op = "create" THEN call[q].ids ELSE loc[q].ids
                 normal == IF MayManageRole(q, role) THEN NormalIds(q, role, asked) ELSE {}
      <4>1. normal \subseteq SUBSET Schools /\ role \in Roles
        BY <3>1, <3>2, RequestFields
      <4>2. PICK ids \in normal :
               /\ loc' = [loc EXCEPT ![q] = [@ EXCEPT !.ids = ids, !.role = role]]
               /\ Hold(q, {call[q].user} \cup ids) /\ Go(q, call[q].op)
        BY <1>4, <2>3 DEF CheckSchools
      <4> HIDE DEF role, normal
      <4> QED BY <4>1, <4>2
    <3>4. PICK ids, role : /\ ids \in SUBSET Schools /\ role \in Roles
                           /\ loc' = [loc EXCEPT ![q] = [@ EXCEPT !.ids = ids, !.role = role]]
                           /\ Hold(q, {call[q].user} \cup ids) /\ Go(q, call[q].op)
      BY <3>3
    <3>5. /\ loc' \in [Requests -> Locals]
          /\ \A r \in Requests \ {q} : loc'[r] = loc[r]
      BY <3>4, <1>1 DEF Locals
    <3>6. \E step \in Steps \ {"idle"} : Go(q, step)
      BY <3>1, <3>4 DEF Steps
    <3>7. \E things \in SUBSET (Users \cup Schools) : Hold(q, things)
      BY <3>4, <2>1, <1>3
    <3> QED BY <3>5, <3>6, <3>7, <2>1 DEF Goes
  <2> QED BY <2>2, <2>3
<1>5. ASSUME CreateUser(q) PROVE End(q) \/ Goes(q)
  BY <1>5 DEF CreateUser
<1>6. ASSUME ReadCurrent(q) PROVE End(q) \/ Goes(q)
  <2> DEFINE u == call[q].user
             next == IF call[q].role = None THEN user[u].role ELSE call[q].role
             ids == IF call[q].ids = {None} /\ call[q].role # None
                    THEN MembershipsOf(u) ELSE call[q].ids
  <2>1. call[q] \in Inputs /\ InFlight(q)
    BY <1>6, RequestFields DEF ReadCurrent, InFlight
  <2>2. next \in Roles /\ ids \in (SUBSET Schools) \cup {{None}} /\ u \in Users
    BY <2>1, <1>3, UserFields DEF MembershipsOf
  <2>3. Stop(q) \/ (/\ loc' = [loc EXCEPT ![q] = [@ EXCEPT !.ids = ids, !.role = next,
                                         !.sets = next # user[u].role]]
                    /\ Hold(q, {u}) /\ Go(q, IF ids = {None} THEN "update" ELSE "schools"))
    BY <1>6 DEF ReadCurrent
  <2> HIDE DEF u, next, ids
  <2>4. CASE Stop(q)
    BY <2>4
  <2>5. CASE ~Stop(q)
    <3>1. /\ loc' \in [Requests -> Locals]
          /\ \A r \in Requests \ {q} : loc'[r] = loc[r]
      BY <2>2, <2>3, <2>5, <1>1 DEF Locals
    <3>2. \E step \in Steps \ {"idle"} : Go(q, step)
      BY <2>3, <2>5 DEF Steps
    <3>3. \E things \in SUBSET (Users \cup Schools) : Hold(q, things)
      BY <2>3, <2>2, <2>5
    <3> QED BY <3>1, <3>2, <3>3, <2>1 DEF Goes
  <2> QED BY <2>4, <2>5
<1>7. ASSUME UpdateUser(q) PROVE End(q) \/ Goes(q)
  BY <1>7 DEF UpdateUser
<1>8. ASSUME ReadVictim(q) PROVE End(q) \/ Goes(q)
  BY <1>8, <1>1, <1>2, <1>3, RequestFields DEF ReadVictim, Goes, InFlight, Steps, Locals
<1>9. ASSUME CountMasters(q) PROVE End(q) \/ Goes(q)
  BY <1>9, <1>1, <1>2, <1>3, RequestFields DEF CountMasters, Goes, InFlight, Steps, Locals
<1>10. ASSUME DeleteUser(q) PROVE End(q) \/ Goes(q)
  BY <1>10 DEF DeleteUser
<1>11. ASSUME CountMembers(q) PROVE End(q) \/ Goes(q)
  BY <1>11, <1>1 DEF CountMembers, TypeOK, Goes, InFlight, Steps
<1>12. ASSUME CloseSchool(q) PROVE End(q) \/ Goes(q)
  BY <1>12 DEF CloseSchool
<1>13. ASSUME FindInstitution(q) PROVE End(q) \/ Goes(q)
  BY <1>13, <1>1 DEF FindInstitution, TypeOK, Goes, InFlight, Steps
<1>14. ASSUME ReadStudents(q) PROVE End(q) \/ Goes(q)
  BY <1>14, <1>1, <1>2, <1>3, RequestFields DEF ReadStudents, StudentsOf, Goes, InFlight, Steps, Locals
<1>15. ASSUME LinkCourse(q) PROVE End(q) \/ Goes(q)
  BY <1>15 DEF LinkCourse
<1>16. ASSUME FindLink(q) PROVE End(q) \/ Goes(q)
  BY <1>16, <1>1, <1>3, RequestFields, InputFields DEF FindLink, CallFits, Goes, InFlight, Steps
<1>17. ASSUME UnlinkCourse(q) PROVE End(q) \/ Goes(q)
  BY <1>17 DEF UnlinkCourse
<1>18. ASSUME CheckAccess(q) PROVE End(q) \/ Goes(q)
  BY <1>18, <1>1, <1>2, <1>3, RequestFields DEF CheckAccess, Goes, InFlight, Steps, Locals
<1>19. ASSUME ReadMemberships(q) PROVE End(q) \/ Goes(q)
  BY <1>19, <1>1, <1>2, <1>3, RequestFields DEF ReadMemberships, StudentsOf, Goes, InFlight, Steps, Locals
<1>20. ASSUME EnsureOpen(q) PROVE End(q) \/ Goes(q)
  BY <1>20, <1>1, Constants DEF EnsureOpen, Goes, InFlight, Steps
<1>21. ASSUME JoinOpen(q) PROVE End(q) \/ Goes(q)
  BY <1>21, <1>1, <1>2, <1>3, RequestFields DEF JoinOpen, Goes, InFlight, Steps, Locals
<1>22. ASSUME OfferOpen(q) PROVE End(q) \/ Goes(q)
  BY <1>22, <1>1, <1>2, <1>3, RequestFields DEF OfferOpen, Goes, InFlight, Steps, Locals
<1>23. ASSUME ReadOpen(q) PROVE End(q) \/ Goes(q)
  BY <1>23, <1>1, <1>2, Constants DEF ReadOpen, Goes, InFlight, Steps, Locals
<1>24. ASSUME FindTarget(q) PROVE End(q) \/ Goes(q)
  BY <1>24, <1>1, <1>2, <1>3, RequestFields DEF FindTarget, Linked, Goes, InFlight, Steps, Locals
<1>25. ASSUME EnrolStudent(q) PROVE End(q) \/ Goes(q)
  BY <1>25 DEF EnrolStudent
<1>26. ASSUME FindEnrolment(q) PROVE End(q) \/ Goes(q)
  BY <1>26, <1>1, <1>2, <1>3, RequestFields DEF FindEnrolment, LiveEnrolments, Goes, InFlight, Steps, Locals
<1>27. ASSUME RemoveEnrolment(q) PROVE End(q) \/ Goes(q)
  BY <1>27 DEF RemoveEnrolment
<1>28. ASSUME Die(q) PROVE End(q) \/ Goes(q)
  BY <1>28 DEF Die
<1> QED
  BY <1>4, <1>5, <1>6, <1>7, <1>8, <1>9, <1>10, <1>11, <1>12, <1>13, <1>14,
     <1>15, <1>16, <1>17, <1>18, <1>19, <1>20, <1>21, <1>22, <1>23, <1>24,
     <1>25, <1>26, <1>27, <1>28
     DEF AccountStep, SchoolStep, EnrolmentStep

LEMMA GoesFacts ==
    ASSUME TypeOK, NEW q \in Requests, Goes(q)
    PROVE  /\ ControlTypes' /\ InFlight(q)' /\ Elsewhere(q) /\ UNCHANGED <<call, who, calls, split>>
           /\ held[q] \subseteq held'[q]
           /\ \A r \in Requests \ {q} : (held'[q] \ held[q]) \cap Busy(r) \subseteq raced'
<1>1. PICK step \in Steps \ {"idle"} : Go(q, step)
  BY DEF Goes
<1>2. pc' = [pc EXCEPT ![q] = step] /\ UNCHANGED <<call, who, calls, split>>
  BY <1>1 DEF Go
<1>3. /\ held' \in [Requests -> SUBSET (Users \cup Schools)]
      /\ raced' \subseteq Users \cup Schools /\ raced \subseteq raced'
      /\ held[q] \subseteq held'[q]
      /\ \A r \in Requests \ {q} : held'[r] = held[r]
      /\ \A r \in Requests \ {q} : (held'[q] \ held[q]) \cap Busy(r) \subseteq raced'
  <2>1. CASE \E things \in SUBSET (Users \cup Schools) : Hold(q, things)
    <3>1. PICK things \in SUBSET (Users \cup Schools) : Hold(q, things)
      BY <2>1
    <3> QED BY <3>1, HoldFacts
  <2>2. CASE UNCHANGED <<held, raced>>
    BY <2>2 DEF TypeOK
  <2> QED BY <2>1, <2>2 DEF Goes
<1>4. /\ loc' \in [Requests -> Locals] /\ InFlight(q)
      /\ \A r \in Requests \ {q} : loc'[r] = loc[r]
  BY DEF Goes
<1>5. pc' \in [Requests -> Steps] /\ pc'[q] # "idle" /\ \A r \in Requests \ {q} : pc'[r] = pc[r]
  BY <1>2 DEF TypeOK
<1>6. \A r \in Requests : InFlight(r)' => call'[r] \in Inputs
  BY <1>2, <1>4, <1>5 DEF TypeOK, InFlight
<1>7. ControlTypes'
  BY <1>2, <1>3, <1>4, <1>5, <1>6 DEF TypeOK, ControlTypes
<1>8. Elsewhere(q) /\ InFlight(q)'
  BY <1>2, <1>3, <1>4, <1>5 DEF Elsewhere, InFlight
<1> QED
  BY <1>2, <1>3, <1>7, <1>8

LEMMA EndTypes ==
    ASSUME TypeOK, NEW q \in Requests, End(q)
    PROVE  ControlTypes' /\ Elsewhere(q) /\ ~InFlight(q)'
<1>1. \A r \in Requests : InFlight(r)' => call'[r] \in Inputs
  BY EndFacts DEF TypeOK, InFlight
<1>2. calls' \in 0..MaxCalls /\ raced' \subseteq Users \cup Schools
  BY EndFacts DEF TypeOK
<1> QED
  BY EndFacts, <1>1, <1>2 DEF ControlTypes, Elsewhere, InFlight

LEMMA StartFacts ==
    ASSUME TypeOK, NEW q \in Requests, NEW i \in Inputs, Start(q, i)
    PROVE  /\ ControlTypes' /\ Elsewhere(q)
           /\ call'[q] = i /\ pc'[q] = FirstStep[i.op]
           /\ who'[q] = [role |-> user[i.actor].role, scope |-> MembershipsOf(i.actor)]
           /\ held'[q] = IF i.source = "SELF" THEN {i.user} ELSE {}
           /\ \A r \in Requests \ {q} :
                 /\ held'[q] \cap Busy(r) \subseteq raced'
                 /\ ({i.actor} \cup MembershipsOf(i.actor)) \cap held[r] \subseteq raced'
<1> DEFINE own == IF i.source = "SELF" THEN {i.user} ELSE {}
           relied == {i.actor} \cup MembershipsOf(i.actor)
           now == [role |-> user[i.actor].role, scope |-> MembershipsOf(i.actor)]
<1>1. i.actor \in Users /\ own \subseteq Users
  BY InputFields
<1>2. now \in [role: Roles, scope: SUBSET Schools]
  BY <1>1, UserFields DEF MembershipsOf
<1>3. FirstStep[i.op] \in Steps
  BY DEF Start, FirstStep, Steps
<1>4. relied \subseteq Users \cup Schools
  BY <1>1 DEF MembershipsOf
<1>5. /\ calls' = calls + 1 /\ calls < MaxCalls
      /\ call' = [call EXCEPT ![q] = i] /\ who' = [who EXCEPT ![q] = now]
      /\ pc' = [pc EXCEPT ![q] = FirstStep[i.op]]
      /\ held' = [held EXCEPT ![q] = own] /\ loc' = loc
      /\ raced' = raced \cup (own \cap UNION {Busy(r) : r \in Requests \ {q}})
                        \cup (relied \cap UNION {held[r] : r \in Requests \ {q}})
  BY DEF Start
<1> HIDE DEF own, relied, now
<1>6. call' \in [Requests -> Inputs \cup {None}] /\ pc' \in [Requests -> Steps]
  BY <1>3, <1>5 DEF TypeOK
<1>7. who' \in [Requests -> [role: Roles, scope: SUBSET Schools]] /\ loc' \in [Requests -> Locals]
  BY <1>2, <1>5 DEF TypeOK, Locals
<1>8. calls' \in 0..MaxCalls
  BY <1>5, Constants DEF TypeOK
<1>9. held' \in [Requests -> SUBSET (Users \cup Schools)] /\ raced' \subseteq Users \cup Schools
  BY <1>1, <1>4, <1>5 DEF TypeOK
<1>10. \A r \in Requests : InFlight(r)' => call'[r] \in Inputs
  BY <1>5 DEF TypeOK, InFlight
<1>11. Elsewhere(q)
  BY <1>5 DEF TypeOK, Elsewhere
<1>12. /\ call'[q] = i /\ pc'[q] = FirstStep[i.op] /\ who'[q] = now /\ held'[q] = own
  BY <1>5 DEF TypeOK
<1>13. \A r \in Requests \ {q} : own \cap Busy(r) \subseteq raced' /\ relied \cap held[r] \subseteq raced'
  BY <1>5
<1>14. ControlTypes'
  BY <1>6, <1>7, <1>8, <1>9, <1>10 DEF ControlTypes
<1> QED
  BY <1>11, <1>12, <1>13, <1>14 DEF own, relied, now

LEMMA RegisterFacts ==
    ASSUME TypeOK, NEW i \in Inputs, Register(i)
    PROVE  /\ ControlTypes' /\ raced \subseteq raced'
           /\ UNCHANGED <<school, member, link, enrolled, pc, call, who, loc, held, split>>
           /\ i.user \in Users /\ user[i.user].state = "absent"
           /\ user' = [user EXCEPT ![i.user] = [state |-> "live", active |-> TRUE, role |-> "ALUNO"]]
           /\ \A r \in Requests : i.user \in held[r] => i.user \in raced'
<1>1. i.user \in Users
  BY InputFields
<1>2. /\ UNCHANGED <<school, member, link, enrolled, pc, call, who, loc, held, split>>
      /\ calls' = calls + 1 /\ calls < MaxCalls /\ user[i.user].state = "absent"
      /\ raced' = raced \cup ({i.user} \cap UNION {held[r] : r \in Requests})
      /\ user' = [user EXCEPT ![i.user] = [state |-> "live", active |-> TRUE, role |-> "ALUNO"]]
  BY DEF Register
<1>3. calls' \in 0..MaxCalls
  BY <1>2, Constants DEF TypeOK
<1>4. raced' \subseteq Users \cup Schools /\ raced \subseteq raced'
  BY <1>1, <1>2 DEF TypeOK
<1>5. ControlTypes'
  BY <1>2, <1>3, <1>4 DEF TypeOK, ControlTypes, InFlight, Locals
<1>6. \A r \in Requests : i.user \in held[r] => i.user \in raced'
  BY <1>2
<1> QED
  BY <1>1, <1>2, <1>4, <1>5, <1>6

-----------------------------------------------------------------------------
(* Types of the rows. *)

LEMMA EnrolTypes ==
    ASSUME enrolled \in [Users -> [Schools -> Rows]], NEW class, NEW s,
           NEW source \in {"ASSIGNED", "SELF"}, Enrol(class, s, source)
    PROVE  /\ enrolled' \in [Users -> [Schools -> Rows]]
           /\ \A u \in Users, t \in Schools :
                 enrolled[u][t] # None => enrolled'[u][t] # None
<1>1. \A row \in Rows : Upserted(row, source) \in Rows \ {None}
  <2>1. ASSUME NEW row \in Rows PROVE Upserted(row, source) \in Row
    <3>1. CASE row = None
      BY <3>1 DEF Row, Upserted
    <3>2. CASE row \in Row
      BY <3>2 DEF Row, Upserted
    <3> QED BY <3>1, <3>2 DEF Rows
  <2> QED BY <2>1, Constants DEF Rows
<1>2. ASSUME NEW u \in Users
      PROVE  /\ [enrolled[u] EXCEPT ![s] = Upserted(@, source)] \in [Schools -> Rows]
             /\ \A t \in Schools : enrolled[u][t] # None =>
                   [enrolled[u] EXCEPT ![s] = Upserted(@, source)][t] # None
  BY <1>1
<1> QED
  BY <1>2 DEF Enrol

LEMMA DataTypesKept ==
    ASSUME TypeOK, NEW q \in Requests, CallFits(q), RemovalKnown(q),
           AccountStep(q) \/ SchoolStep(q) \/ EnrolmentStep(q) \/ Die(q)
    PROVE  DataTypes'
<1> USE DEF Stop
<1>1. DataTypes
  BY DEF TypeOK, DataTypes, Rows
<1>2. /\ InFlight(q) => call[q] \in Inputs
      /\ loc[q].role \in Roles /\ loc[q].class \subseteq Users
      /\ loc[q].ids \in (SUBSET Schools) \cup {{None}}
      /\ held[q] \subseteq Users \cup Schools
  BY RequestFields
<1>3. /\ call[q] \in Inputs => call[q].user \in Users
      /\ call[q] \in Inputs => call[q].active \in BOOLEAN \cup {None}
      /\ call[q] \in Inputs => call[q].source \in {"ASSIGNED", "SELF"}
  BY InputFields
<1>4. UNCHANGED <<data, split>> => DataTypes'
  BY <1>1 DEF data, DataTypes
<1>5. ASSUME CheckSchools(q) PROVE DataTypes'
  BY <1>5, <1>4 DEF CheckSchools, Go
<1>6. ASSUME CreateUser(q) PROVE DataTypes'
  <2>1. call[q].user \in Users
    BY <1>6, <1>2, <1>3 DEF CreateUser, InFlight
  <2>2. CASE Stop(q)
    BY <2>2, <1>4
  <2>3. CASE ~Stop(q)
    <3> DEFINE u == call[q].user
               new == [state |-> "live", active |-> TRUE, role |-> loc[q].role]
               rows == [s \in Schools |-> IF s \in loc[q].ids THEN loc[q].role ELSE None]
    <3>1. /\ user' = [user EXCEPT ![u] = new] /\ member' = [member EXCEPT ![u] = rows]
          /\ UNCHANGED <<school, link, enrolled, split>>
      BY <1>6, <2>3 DEF CreateUser
    <3>2. new \in Accounts /\ rows \in [Schools -> Roles \cup {None}]
      BY <1>2 DEF Accounts
    <3> HIDE DEF new, rows
    <3> QED BY <3>1, <3>2, <1>1 DEF DataTypes
  <2> QED BY <2>2, <2>3
<1>7. ASSUME ReadCurrent(q) PROVE DataTypes'
  BY <1>7, <1>4 DEF ReadCurrent, Go
<1>8. ASSUME UpdateUser(q) PROVE DataTypes'
  <2> DEFINE u == call[q].user
             rows == [s \in Schools |-> Synced(q, s)]
             active == IF call[q].active = None THEN user[u].active ELSE call[q].active
             role == IF loc[q].sets THEN loc[q].role ELSE user[u].role
  <2>1. u \in Users /\ call[q].active \in BOOLEAN \cup {None}
    BY <1>8, <1>2, <1>3 DEF UpdateUser, InFlight
  <2>2. active \in BOOLEAN /\ role \in Roles
    BY <2>1, <1>2, UserFields
  <2>3. user' = [user EXCEPT ![u] = [@ EXCEPT !.active = active, !.role = role]]
    BY <1>8 DEF UpdateUser
  <2>4. rows \in [Schools -> Roles \cup {None}]
    BY <2>1, <1>1, <1>2 DEF Synced, DataTypes
  <2>5. /\ member' \in {member, [member EXCEPT ![u] = rows]}
        /\ split' \in {split, split \cup {u}} /\ UNCHANGED <<school, link, enrolled>>
    BY <1>8 DEF UpdateUser
  <2> HIDE DEF u, rows, active, role
  <2>6. user' \in [Users -> Accounts]
    BY <2>1, <2>2, <2>3, <1>1 DEF DataTypes, Accounts
  <2> QED BY <2>1, <2>4, <2>5, <2>6, <1>1 DEF DataTypes
<1>9. ASSUME ReadVictim(q) PROVE DataTypes'
  BY <1>9, <1>4 DEF ReadVictim, Go
<1>10. ASSUME CountMasters(q) PROVE DataTypes'
  BY <1>10, <1>4 DEF CountMasters, Go
<1>11. ASSUME DeleteUser(q) PROVE DataTypes'
  <2> DEFINE u == call[q].user
  <2>1. u \in Users
    BY <1>11, <1>2, <1>3 DEF DeleteUser, InFlight
  <2>2. /\ user' = [user EXCEPT ![u].state = "deleted"]
        /\ member' = [member EXCEPT ![u] = [s \in Schools |-> None]]
        /\ UNCHANGED <<school, link, enrolled, split>>
    BY <1>11 DEF DeleteUser
  <2> HIDE DEF u
  <2>3. user' \in [Users -> Accounts]
    BY <2>1, <2>2, <1>1 DEF DataTypes, Accounts
  <2> QED BY <2>1, <2>2, <2>3, <1>1 DEF DataTypes
<1>12. ASSUME CountMembers(q) PROVE DataTypes'
  BY <1>12, <1>4 DEF CountMembers, Go
<1>13. ASSUME CloseSchool(q) PROVE DataTypes'
  BY <1>13, <1>1 DEF CloseSchool, DataTypes
<1>14. ASSUME FindInstitution(q) PROVE DataTypes'
  BY <1>14, <1>4 DEF FindInstitution, Go
<1>15. ASSUME ReadStudents(q) PROVE DataTypes'
  BY <1>15, <1>4 DEF ReadStudents, Go
<1>16. ASSUME LinkCourse(q) PROVE DataTypes'
  <2>1. Enrol(loc[q].class, call[q].school, "ASSIGNED") /\ link' = [link EXCEPT ![call[q].school] = "on"]
        /\ UNCHANGED <<user, school, member, split>>
    BY <1>16 DEF LinkCourse
  <2>2. enrolled' \in [Users -> [Schools -> Rows]]
    BY <2>1, <1>1, EnrolTypes DEF DataTypes
  <2> QED BY <2>1, <2>2, <1>1 DEF DataTypes
<1>17. ASSUME FindLink(q) PROVE DataTypes'
  BY <1>17, <1>4 DEF FindLink, Go
<1>18. ASSUME UnlinkCourse(q) PROVE DataTypes'
  BY <1>18, <1>1 DEF UnlinkCourse, DataTypes
<1>19. ASSUME CheckAccess(q) PROVE DataTypes'
  BY <1>19, <1>4 DEF CheckAccess, Go
<1>20. ASSUME ReadMemberships(q) PROVE DataTypes'
  BY <1>20, <1>4 DEF ReadMemberships, Go
<1>21. ASSUME EnsureOpen(q) PROVE DataTypes'
  BY <1>21, <1>1, Constants DEF EnsureOpen, DataTypes, Go
<1>22. ASSUME JoinOpen(q) PROVE DataTypes'
  <2>1. call[q].user \in Users
    BY <1>22, <1>2, <1>3 DEF JoinOpen, InFlight
  <2>2. member' = [member EXCEPT ![call[q].user][Open] = "ALUNO"]
        /\ UNCHANGED <<user, school, link, enrolled, split>>
    BY <1>22 DEF JoinOpen, Go
  <2> QED BY <2>1, <2>2, <1>1, Constants DEF DataTypes, Roles
<1>23. ASSUME OfferOpen(q) PROVE DataTypes'
  BY <1>23, <1>1, Constants DEF OfferOpen, DataTypes, Go
<1>24. ASSUME ReadOpen(q) PROVE DataTypes'
  BY <1>24, <1>4 DEF ReadOpen, Go
<1>25. ASSUME FindTarget(q) PROVE DataTypes'
  BY <1>25, <1>4 DEF FindTarget, Go
<1>26. ASSUME EnrolStudent(q) PROVE DataTypes'
  <2>1. PICK s \in loc[q].ids : Enrol({call[q].user}, s, call[q].source)
    BY <1>26 DEF EnrolStudent
  <2>2. UNCHANGED <<user, school, member, link, split>>
    BY <1>26 DEF EnrolStudent
  <2>3. call[q].source \in {"ASSIGNED", "SELF"}
    BY <1>26, <1>2, <1>3 DEF EnrolStudent, InFlight
  <2>4. enrolled' \in [Users -> [Schools -> Rows]]
    BY <2>1, <2>3, <1>1, EnrolTypes DEF DataTypes
  <2> QED BY <2>2, <2>4, <1>1 DEF DataTypes
<1>27. ASSUME FindEnrolment(q) PROVE DataTypes'
  BY <1>27, <1>4 DEF FindEnrolment, Go
<1>28. ASSUME RemoveEnrolment(q) PROVE DataTypes'
  <2>1. PICK s \in loc[q].ids : enrolled' = [enrolled EXCEPT ![call[q].user][s].live = FALSE]
    BY <1>28 DEF RemoveEnrolment
  <2>2. UNCHANGED <<user, school, member, link, split>>
    BY <1>28 DEF RemoveEnrolment
  <2>3. enrolled[call[q].user][s] # None /\ s \in Schools /\ call[q].user \in Users
    BY <1>28, <2>1, <1>2, <1>3 DEF RemoveEnrolment, RemovalKnown, InFlight
  <2>4. \A row \in Rows : row # None => [row EXCEPT !.live = FALSE] \in Rows
    BY DEF Rows, Row
  <2>5. enrolled \in [Users -> [Schools -> Rows]]
    BY <1>1 DEF DataTypes
  <2>6. enrolled' \in [Users -> [Schools -> Rows]]
    BY <2>1, <2>3, <2>4, <2>5
  <2> QED BY <2>2, <2>6, <1>1 DEF DataTypes
<1>29. ASSUME Die(q) PROVE DataTypes'
  BY <1>29, <1>4 DEF Die, Go
<1> QED
  BY <1>5, <1>6, <1>7, <1>8, <1>9, <1>10, <1>11, <1>12, <1>13, <1>14,
     <1>15, <1>16, <1>17, <1>18, <1>19, <1>20, <1>21, <1>22, <1>23, <1>24,
     <1>25, <1>26, <1>27, <1>28, <1>29
     DEF AccountStep, SchoolStep, EnrolmentStep

-----------------------------------------------------------------------------
(* A request writes only what it holds, and what two requests work on is raced. *)

LEMMA OnlyHeldIsWritten ==
    ASSUME TypeOK, NEW q \in Requests, RequestKnows(q),
           AccountStep(q) \/ SchoolStep(q) \/ EnrolmentStep(q) \/ Die(q)
    PROVE  WritesHeld(q)
<1> USE DEF Stop
<1>1. DataTypes
  BY DEF TypeOK, DataTypes, Rows
<1>2. /\ InFlight(q) => call[q] \in Inputs
      /\ loc[q].class \subseteq Users
      /\ loc[q].ids \in (SUBSET Schools) \cup {{None}}
  BY RequestFields
<1>3. /\ call[q] \in Inputs => call[q].user \in Users
      /\ call[q] \in Inputs => call[q].source \in {"ASSIGNED", "SELF"}
  BY InputFields
<1>4. UNCHANGED data => WritesHeld(q)
  BY DEF data, WritesHeld
<1>5. None \notin Roles /\ None \notin Schools
  BY Constants
<1>6. ASSUME CheckSchools(q) PROVE WritesHeld(q)
  BY <1>6, <1>4 DEF CheckSchools
<1>7. ASSUME CreateUser(q) PROVE WritesHeld(q)
  <2>1. call[q].user \in Users /\ call[q].user \in held[q]
    BY <1>7, <1>2, <1>3 DEF CreateUser, InFlight, RequestKnows, SchoolsKnown
  <2>2. CASE Stop(q)
    BY <2>2, <1>4
  <2>3. CASE ~Stop(q)
    <3> DEFINE u == call[q].user
               rows == [s \in Schools |-> IF s \in loc[q].ids THEN loc[q].role ELSE None]
    <3>1. /\ user' = [user EXCEPT ![u] = [state |-> "live", active |-> TRUE, role |-> loc[q].role]]
          /\ member' = [member EXCEPT ![u] = rows]
          /\ UNCHANGED <<school, link, enrolled>>
      BY <1>7, <2>3 DEF CreateUser
    <3>2. \A s \in Schools \ held[q] : rows[s] = None
      BY <1>7, <1>5, <1>2 DEF CreateUser, RequestKnows, SchoolsKnown
    <3> HIDE DEF rows
    <3> QED BY <2>1, <3>1, <3>2, <1>1 DEF DataTypes, WritesHeld
  <2> QED BY <2>2, <2>3
<1>8. ASSUME ReadCurrent(q) PROVE WritesHeld(q)
  BY <1>8, <1>4 DEF ReadCurrent
<1>9. ASSUME UpdateUser(q) PROVE WritesHeld(q)
  <2> DEFINE u == call[q].user
             rows == [s \in Schools |-> Synced(q, s)]
  <2>1. u \in Users /\ u \in held[q]
    BY <1>9, <1>2, <1>3 DEF UpdateUser, InFlight, RequestKnows, AccountKnown, CallFits
  <2>2. /\ \A v \in Users \ {u} : user'[v] = user[v]
        /\ UNCHANGED <<school, link, enrolled>>
    BY <1>9, <1>1 DEF UpdateUser, DataTypes
  <2>3. \/ member' = member
        \/ loc[q].ids # {None} /\ member' = [member EXCEPT ![u] = rows]
    BY <1>9 DEF UpdateUser
  <2>4. loc[q].ids # {None} => \A s \in Schools \ held[q] : member[u][s] = None => rows[s] = None
    BY <1>9, <1>5, <1>2 DEF UpdateUser, RequestKnows, SchoolsKnown, Synced
  <2> HIDE DEF rows, u
  <2> QED BY <2>1, <2>2, <2>3, <2>4, <1>1 DEF DataTypes, WritesHeld
<1>10. ASSUME ReadVictim(q) PROVE WritesHeld(q)
  BY <1>10, <1>4 DEF ReadVictim
<1>11. ASSUME CountMasters(q) PROVE WritesHeld(q)
  BY <1>11, <1>4 DEF CountMasters
<1>12. ASSUME DeleteUser(q) PROVE WritesHeld(q)
  <2>1. call[q].user \in Users /\ call[q].user \in held[q]
    BY <1>12, <1>2, <1>3 DEF DeleteUser, InFlight, RequestKnows, AccountKnown
  <2> QED BY <1>12, <2>1, <1>1 DEF DeleteUser, DataTypes, WritesHeld
<1>13. ASSUME CountMembers(q) PROVE WritesHeld(q)
  BY <1>13, <1>4 DEF CountMembers
<1>14. ASSUME CloseSchool(q) PROVE WritesHeld(q)
  BY <1>14, <1>1 DEF CloseSchool, DataTypes, WritesHeld, RequestKnows, SchoolKnown
<1>15. ASSUME FindInstitution(q) PROVE WritesHeld(q)
  BY <1>15, <1>4 DEF FindInstitution
<1>16. ASSUME ReadStudents(q) PROVE WritesHeld(q)
  BY <1>16, <1>4 DEF ReadStudents
<1>17. ASSUME LinkCourse(q) PROVE WritesHeld(q)
  <2>1. Enrol(loc[q].class, call[q].school, "ASSIGNED") /\ link' = [link EXCEPT ![call[q].school] = "on"]
        /\ UNCHANGED <<user, school, member>>
    BY <1>17 DEF LinkCourse
  <2>2. \A u \in Users, s \in Schools : enrolled[u][s] # None => enrolled'[u][s] # None
    BY <2>1, <1>1, EnrolTypes DEF DataTypes
  <2>3. call[q].school \in held[q]
    BY <1>17 DEF LinkCourse, RequestKnows, SchoolKnown
  <2> QED BY <2>1, <2>2, <2>3, <1>1 DEF DataTypes, WritesHeld
<1>18. ASSUME FindLink(q) PROVE WritesHeld(q)
  BY <1>18, <1>4 DEF FindLink
<1>19. ASSUME UnlinkCourse(q) PROVE WritesHeld(q)
  BY <1>19, <1>1 DEF UnlinkCourse, DataTypes, WritesHeld, RequestKnows, SchoolKnown
<1>20. ASSUME CheckAccess(q) PROVE WritesHeld(q)
  BY <1>20, <1>4 DEF CheckAccess
<1>21. ASSUME ReadMemberships(q) PROVE WritesHeld(q)
  BY <1>21, <1>4 DEF ReadMemberships
<1>22. ASSUME EnsureOpen(q) PROVE WritesHeld(q)
  BY <1>22, <1>1 DEF EnsureOpen, DataTypes, WritesHeld
<1>23. ASSUME JoinOpen(q) PROVE WritesHeld(q)
  <2>1. call[q].user \in Users /\ call[q].user \in held[q] /\ Open \in held[q]
    BY <1>23, <1>2, <1>3 DEF JoinOpen, InFlight, RequestKnows, StudentKnown
  <2>2. /\ member' = [member EXCEPT ![call[q].user][Open] = "ALUNO"]
        /\ UNCHANGED <<user, school, link, enrolled>>
    BY <1>23 DEF JoinOpen
  <2> QED BY <2>1, <2>2, <1>1, Constants DEF DataTypes, WritesHeld
<1>24. ASSUME OfferOpen(q) PROVE WritesHeld(q)
  BY <1>24, <1>1, Constants DEF OfferOpen, DataTypes, WritesHeld, RequestKnows, StudentKnown
<1>25. ASSUME ReadOpen(q) PROVE WritesHeld(q)
  BY <1>25, <1>4 DEF ReadOpen
<1>26. ASSUME FindTarget(q) PROVE WritesHeld(q)
  BY <1>26, <1>4 DEF FindTarget
<1>27. ASSUME EnrolStudent(q) PROVE WritesHeld(q)
  <2>1. PICK s \in loc[q].ids : Enrol({call[q].user}, s, call[q].source)
    BY <1>27 DEF EnrolStudent
  <2>2. UNCHANGED <<user, school, member, link>>
    BY <1>27 DEF EnrolStudent
  <2>3. call[q].source \in {"ASSIGNED", "SELF"}
    BY <1>27, <1>2, <1>3 DEF EnrolStudent, InFlight
  <2>4. \A u \in Users, t \in Schools : enrolled[u][t] # None => enrolled'[u][t] # None
    BY <2>1, <2>3, <1>1, EnrolTypes DEF DataTypes
  <2> QED BY <2>2, <2>4 DEF WritesHeld
<1>28. ASSUME FindEnrolment(q) PROVE WritesHeld(q)
  BY <1>28, <1>4 DEF FindEnrolment
<1>29. ASSUME RemoveEnrolment(q) PROVE WritesHeld(q)
  <2>1. PICK s \in loc[q].ids : enrolled' = [enrolled EXCEPT ![call[q].user][s].live = FALSE]
    BY <1>29 DEF RemoveEnrolment
  <2>2. UNCHANGED <<user, school, member, link>>
    BY <1>29 DEF RemoveEnrolment
  <2>3. enrolled[call[q].user][s] # None /\ s \in Schools /\ call[q].user \in Users
    BY <1>29, <2>1, <1>2, <1>3 DEF RemoveEnrolment, RequestKnows, RemovalKnown, InFlight
  <2>4. \A row \in Rows : row # None => [row EXCEPT !.live = FALSE] # None
    BY Constants DEF Rows, Row
  <2>5. enrolled \in [Users -> [Schools -> Rows]]
    BY <1>1 DEF DataTypes
  <2>6. \A u \in Users, t \in Schools : enrolled[u][t] # None => enrolled'[u][t] # None
    BY <2>1, <2>3, <2>4, <2>5
  <2> QED BY <2>2, <2>6 DEF WritesHeld
<1>30. ASSUME Die(q) PROVE WritesHeld(q)
  BY <1>30, <1>4 DEF Die
<1> QED
  BY <1>6, <1>7, <1>8, <1>9, <1>10, <1>11, <1>12, <1>13, <1>14, <1>15,
     <1>16, <1>17, <1>18, <1>19, <1>20, <1>21, <1>22, <1>23, <1>24, <1>25,
     <1>26, <1>27, <1>28, <1>29, <1>30
     DEF AccountStep, SchoolStep, EnrolmentStep

LEMMA RacedKept ==
    ASSUME TypeOK, RacedIsKnown, \A r \in Requests : RequestKnows(r), [Next]_vars
    PROVE  RacedIsKnown'
<1>1. ASSUME NEW q \in Requests, Elsewhere(q),
             \A r \in Requests \ {q} :
                /\ held'[q] \cap Busy(r) \subseteq raced'
                /\ Busy(q)' \cap held[r] \subseteq raced'
      PROVE  RacedIsKnown'
  <2>1. \A r \in Requests \ {q} : Busy(r)' = Busy(r) /\ held'[r] = held[r]
    BY <1>1 DEF Elsewhere, Busy, InFlight
  <2>2. raced \subseteq raced'
    BY <1>1 DEF Elsewhere
  <2> QED BY <1>1, <2>1, <2>2 DEF RacedIsKnown
<1>2. ASSUME NEW q \in Requests,
             AccountStep(q) \/ SchoolStep(q) \/ EnrolmentStep(q) \/ Die(q)
      PROVE  RacedIsKnown'
  <2>1. CASE End(q)
    <3>1. held'[q] = {} /\ Busy(q)' = {} /\ Elsewhere(q)
      BY <2>1, EndFacts, EndTypes DEF Busy
    <3> QED BY <3>1, <1>1
  <2>2. CASE Goes(q)
    <3>1. /\ Elsewhere(q) /\ InFlight(q) /\ InFlight(q)' /\ UNCHANGED <<call, who>>
          /\ \A r \in Requests \ {q} : (held'[q] \ held[q]) \cap Busy(r) \subseteq raced'
      BY <2>2, GoesFacts DEF Goes
    <3>2. Busy(q)' = held'[q] \cup {call[q].actor} \cup who[q].scope
      BY <3>1 DEF Busy, InFlight
    <3>3. Busy(q) = held[q] \cup {call[q].actor} \cup who[q].scope
      BY <3>1 DEF Busy
    <3>4. ASSUME NEW r \in Requests \ {q}
          PROVE  held'[q] \cap Busy(r) \subseteq raced' /\ Busy(q)' \cap held[r] \subseteq raced'
      <4>1. raced \subseteq raced' /\ held[r] \subseteq Busy(r)
        BY <3>1 DEF Elsewhere, Busy
      <4>2. held[q] \cap Busy(r) \subseteq raced /\ held[r] \cap Busy(q) \subseteq raced
        BY DEF RacedIsKnown
      <4> QED BY <3>1, <3>2, <3>3, <4>1, <4>2
    <3> QED BY <3>1, <3>4, <1>1
  <2> QED BY <1>2, <2>1, <2>2, RequestSteps DEF RequestKnows
<1>3. ASSUME NEW q \in Requests, NEW i \in Inputs, Start(q, i)
      PROVE  RacedIsKnown'
  <2> DEFINE own == IF i.source = "SELF" THEN {i.user} ELSE {}
             relied == {i.actor} \cup MembershipsOf(i.actor)
  <2>1. /\ Elsewhere(q) /\ held'[q] = own
        /\ Busy(q)' \subseteq own \cup relied
    <3>1. Elsewhere(q) /\ held'[q] = own /\ call'[q] = i
      BY <1>3, StartFacts
    <3>2. who'[q].scope = MembershipsOf(i.actor)
      <4>1. who'[q] = [role |-> user[i.actor].role, scope |-> MembershipsOf(i.actor)]
        BY <1>3, StartFacts
      <4> QED BY <4>1
    <3>3. Busy(q)' \subseteq held'[q] \cup {call'[q].actor} \cup who'[q].scope
      BY DEF Busy
    <3> HIDE DEF own
    <3> QED BY <3>1, <3>2, <3>3
  <2>2. ASSUME NEW r \in Requests \ {q}
        PROVE  held'[q] \cap Busy(r) \subseteq raced' /\ Busy(q)' \cap held[r] \subseteq raced'
    <3>1. held'[q] \cap Busy(r) \subseteq raced' /\ relied \cap held[r] \subseteq raced'
      BY <1>3, StartFacts
    <3>2. held[r] \subseteq Busy(r)
      BY DEF Busy
    <3> HIDE DEF own, relied
    <3> QED BY <2>1, <3>1, <3>2
  <2> QED BY <2>1, <2>2, <1>1
<1>4. ASSUME NEW i \in Inputs, Register(i)
      PROVE  RacedIsKnown'
  BY <1>4, RegisterFacts DEF RacedIsKnown, Busy, InFlight
<1>5. CASE UNCHANGED vars
  BY <1>5 DEF vars, RacedIsKnown, Busy, InFlight
<1> QED
  BY <1>2, <1>3, <1>4, <1>5 DEF Next

-----------------------------------------------------------------------------
(* While a thing is not raced, what another request has read of it stays true. *)

LEMMA NobodyInterferes ==
    ASSUME TypeOK, RacedIsKnown, [Next]_vars,
           \A r \in Requests : RequestKnows(r),
           NEW q \in Requests, Elsewhere(q),
           WritesHeld(q) \/ UNCHANGED data,
           NEW r \in Requests \ {q}
    PROVE  RequestKnows(r)'
<1>1. /\ pc'[r] = pc[r] /\ call'[r] = call[r] /\ who'[r] = who[r]
      /\ loc'[r] = loc[r] /\ held'[r] = held[r] /\ raced \subseteq raced'
  BY DEF Elsewhere
<1>2. /\ \A u \in Users \cap Busy(r) : u \notin raced' =>
            user'[u] = user[u] /\ member'[u] = member[u]
      /\ \A s \in Schools \cap Busy(r) : s \notin raced' =>
            /\ link'[s] = link[s]
            /\ s \in school => s \in school'
            /\ \A u \in Users : member[u][s] = None => member'[u][s] = None
      /\ \A u \in Users, s \in Schools : enrolled[u][s] # None => enrolled'[u][s] # None
  <2>1. CASE UNCHANGED data
    BY <2>1 DEF data
  <2>2. CASE WritesHeld(q)
    <3>1. held[q] \cap Busy(r) \subseteq raced
      BY DEF RacedIsKnown
    <3> QED BY <1>1, <2>2, <3>1 DEF WritesHeld
  <2> QED BY <2>1, <2>2
<1>3. /\ held[r] \subseteq Busy(r)
      /\ InFlight(r) => call[r].actor \in Busy(r) /\ who[r].scope \subseteq Busy(r)
  BY DEF Busy
<1>4. /\ InFlight(r) => call[r].actor \in Users /\ call[r].user \in Users
      /\ who[r].scope \subseteq Schools /\ loc[r].class \subseteq Users
  BY RequestFields, InputFields
<1>5. InFlight(r)' = InFlight(r)
  BY <1>1 DEF InFlight
<1>6. CallFits(r)'
  BY <1>1 DEF RequestKnows, CallFits
<1>7. ActorKnown(r)'
  <2> DEFINE a == call[r].actor
  <2>1. ASSUME InFlight(r), a \notin raced'
        PROVE  user'[a].state = "live" /\ user'[a].active /\ user'[a].role = who[r].role
    <3>1. user'[a] = user[a] /\ a \notin raced
      BY <2>1, <1>1, <1>2, <1>3, <1>4
    <3>2. user[a].state = "live" /\ user[a].active /\ user[a].role = who[r].role
      BY <2>1, <3>1 DEF RequestKnows, ActorKnown, Serving
    <3> QED BY <3>1, <3>2
  <2>2. ASSUME InFlight(r)
        PROVE  who[r].scope \ raced' \subseteq school'
    <3>1. who[r].scope \ raced \subseteq school
      BY <2>2 DEF RequestKnows, ActorKnown
    <3> QED BY <2>2, <3>1, <1>1, <1>2, <1>3, <1>4
  <2>3. InFlight(r) /\ call[r].op = "enrol" /\ call[r].source = "SELF" =>
           who[r].role = "ALUNO" /\ call[r].user \in held[r]
    BY DEF RequestKnows, ActorKnown
  <2> HIDE DEF a
  <2>4. /\ InFlight(r)' => InFlight(r)
        /\ call'[r].actor = a /\ call'[r] = call[r] /\ who'[r] = who[r] /\ held'[r] = held[r]
    BY <1>1, <1>5 DEF a
  <2> QED BY <2>1, <2>2, <2>3, <2>4 DEF ActorKnown, Serving
<1>8. AccountKnown(r)'
  <2> DEFINE u == call[r].user
             changes == pc[r] \in {"schools", "update"} /\ call[r].op = "update"
             deletes == pc[r] \in {"masters", "delete"}
  <2>1. changes \/ deletes => u \in held[r] /\ u \in Users
    BY <1>4 DEF RequestKnows, AccountKnown, InFlight
  <2>2. (changes \/ deletes) /\ u \notin raced' => user'[u] = user[u] /\ u \notin raced
    BY <2>1, <1>1, <1>2, <1>3
  <2>3. AccountKnown(r)
    BY DEF RequestKnows
  <2> QED BY <1>1, <2>1, <2>2, <2>3 DEF AccountKnown
<1>9. SchoolsKnown(r)'
  BY <1>1, <1>2, <1>3, <1>4, <1>5 DEF RequestKnows, SchoolsKnown
<1>10. SchoolKnown(r)'
  <2>1. pc[r] = "close" /\ call[r].school \notin raced' /\ call[r].school \in held[r] \cap Schools
           => MembersOf(call[r].school)' = {}
    BY <1>1, <1>2, <1>3 DEF RequestKnows, SchoolKnown, MembersOf
  <2> QED BY <1>1, <1>2, <1>3, <1>4, <2>1 DEF RequestKnows, SchoolKnown
<1>11. StudentKnown(r)'
  BY <1>1, <1>2, <1>3, <1>4, <1>5, Constants DEF RequestKnows, StudentKnown, Linked, InFlight
<1>12. RemovalKnown(r)'
  <2>1. \A u \in Users, s \in Schools : enrolled[u][s] # None => enrolled'[u][s] # None
    BY <1>2
  <2>2. RemovalKnown(r) /\ (pc[r] = "remove" => call[r].user \in Users)
    BY <1>4 DEF RequestKnows, InFlight
  <2> QED BY <1>1, <2>1, <2>2 DEF RemovalKnown
<1> QED
  BY <1>6, <1>7, <1>8, <1>9, <1>10, <1>11, <1>12 DEF RequestKnows

-----------------------------------------------------------------------------
(* What a request knows after its own step. *)

LEMMA IdleKnows ==
    ASSUME TypeOK, NEW q \in Requests, End(q)
    PROVE  RequestKnows(q)'
<1>1. pc'[q] = "idle"
  BY EndFacts
<1> QED
  BY <1>1 DEF RequestKnows, CallFits, ActorKnown, AccountKnown, SchoolsKnown, SchoolKnown,
              StudentKnown, RemovalKnown, InFlight

LEMMA ActorStays ==
    ASSUME TypeOK, NEW q \in Requests, ActorKnown(q), Goes(q), UNCHANGED user, school \subseteq school'
    PROVE  ActorKnown(q)'
<1>1. /\ UNCHANGED <<call, who>> /\ held[q] \subseteq held'[q] /\ raced \subseteq raced' /\ InFlight(q)
  BY GoesFacts DEF Elsewhere, Goes
<1> QED
  BY <1>1 DEF ActorKnown, Serving

LEMMA GoFields ==
    ASSUME TypeOK, NEW q \in Requests
    PROVE  /\ \A step : Go(q, step) => pc'[q] = step
           /\ UNCHANGED loc => loc'[q] = loc[q]
           /\ \A ids : loc' = [loc EXCEPT ![q].ids = ids] =>
                 loc'[q].ids = ids /\ loc'[q].role = loc[q].role /\ loc'[q].sets = loc[q].sets
           /\ \A class : loc' = [loc EXCEPT ![q].class = class] => loc'[q].class = class
           /\ \A ids, role : loc' = [loc EXCEPT ![q] = [@ EXCEPT !.ids = ids, !.role = role]] =>
                 loc'[q].ids = ids /\ loc'[q].role = role /\ loc'[q].sets = loc[q].sets
<1>1. pc \in [Requests -> Steps] /\ loc \in [Requests -> Locals]
  BY DEF TypeOK, Locals
<1>2. \A step : Go(q, step) => pc'[q] = step
  BY <1>1 DEF Go
<1>3. \A ids : loc' = [loc EXCEPT ![q].ids = ids] =>
         loc'[q].ids = ids /\ loc'[q].role = loc[q].role /\ loc'[q].sets = loc[q].sets
  BY <1>1 DEF Locals
<1>4. \A class : loc' = [loc EXCEPT ![q].class = class] => loc'[q].class = class
  BY <1>1 DEF Locals
<1>5. \A ids, role : loc' = [loc EXCEPT ![q] = [@ EXCEPT !.ids = ids, !.role = role]] =>
         loc'[q].ids = ids /\ loc'[q].role = role /\ loc'[q].sets = loc[q].sets
  BY <1>1 DEF Locals
<1> QED
  BY <1>2, <1>3, <1>4, <1>5

LEMMA HoldOne ==
    ASSUME TypeOK, NEW q \in Requests, NEW x \in Users \cup Schools, Hold(q, {x})
    PROVE  x \in held'[q]
<1>1. held' = [held EXCEPT ![q] = @ \cup {x}]
  BY DEF Hold
<1> QED
  BY <1>1 DEF TypeOK

LEMMA HoldMore ==
    ASSUME TypeOK, NEW q \in Requests, NEW x, NEW more, Hold(q, {x} \cup more)
    PROVE  x \in held'[q] /\ more \subseteq held'[q]
<1>1. held' = [held EXCEPT ![q] = @ \cup ({x} \cup more)]
  BY DEF Hold
<1> QED
  BY <1>1 DEF TypeOK

LEMMA StepKnows ==
    ASSUME TypeOK, NEW q \in Requests, Goes(q), RequestKnows(q),
           UNCHANGED user, school \subseteq school',
           pc'[q] \in {"schools", "create", "update", "members"} => CallFits(q)',
           pc'[q] \in {"schools", "update", "masters", "delete"} => AccountKnown(q)',
           pc'[q] \in {"create", "update"} => SchoolsKnown(q)',
           pc'[q] \in {"close", "students", "link", "unlink"} => SchoolKnown(q)',
           pc'[q] \in {"open", "join", "offer", "again", "links", "enrol"} => StudentKnown(q)',
           pc'[q] = "remove" => RemovalKnown(q)',
           pc'[q] \notin {"idle", "current", "linkrow", "access"}
    PROVE  RequestKnows(q)'
<1>1. CallFits(q)'
  BY DEF CallFits
<1>2. ActorKnown(q)'
  BY ActorStays DEF RequestKnows
<1>3. AccountKnown(q)'
  BY DEF AccountKnown
<1>4. SchoolsKnown(q)'
  BY DEF SchoolsKnown
<1>5. SchoolKnown(q)'
  BY DEF SchoolKnown
<1>6. StudentKnown(q)'
  BY DEF StudentKnown
<1>7. RemovalKnown(q)'
  BY DEF RemovalKnown
<1> QED
  BY <1>1, <1>2, <1>3, <1>4, <1>5, <1>6, <1>7 DEF RequestKnows

LEMMA OwnStepKnows ==
    ASSUME TypeOK, NEW q \in Requests, RequestKnows(q),
           AccountStep(q) \/ SchoolStep(q) \/ EnrolmentStep(q) \/ Die(q)
    PROVE  RequestKnows(q)'
<1> SUFFICES ASSUME ~End(q) PROVE RequestKnows(q)'
  BY IdleKnows
<1> USE DEF Stop
<1>1. Goes(q)
  BY RequestSteps DEF RequestKnows
<1>2. /\ call'[q] = call[q] /\ who'[q] = who[q] /\ call[q] \in Inputs
      /\ held[q] \subseteq held'[q] /\ raced \subseteq raced' /\ InFlight(q)
  BY <1>1, GoesFacts, RequestFields DEF Elsewhere, Goes
<1>3. /\ call[q].user \in Users /\ call[q].actor \in Users /\ call[q].op \in Ops
      /\ loc[q].ids \in (SUBSET Schools) \cup {{None}} /\ who[q].scope \subseteq Schools
      /\ school \subseteq Schools
  BY <1>2, InputFields, RequestFields DEF TypeOK
<1>4. None \notin Schools /\ None \notin Roles /\ Open \in Schools
  BY Constants
<1>5. ASSUME CheckSchools(q) PROVE RequestKnows(q)'
  <2> DEFINE role == IF call[q].op = "create" THEN call[q].role ELSE loc[q].role
             asked == IF call[q].op = "create" THEN call[q].ids ELSE loc[q].ids
             normal == IF MayManageRole(q, role) THEN NormalIds(q, role, asked) ELSE {}
  <2>1. PICK ids \in normal : /\ loc' = [loc EXCEPT ![q] = [@ EXCEPT !.ids = ids, !.role = role]]
                              /\ Hold(q, {call[q].user} \cup ids)
                              /\ Go(q, call[q].op) /\ UNCHANGED data
    BY <1>5 DEF CheckSchools
  <2>2. call[q].op \in {"create", "update"} /\ pc[q] = "schools"
    BY <1>5 DEF CheckSchools, RequestKnows, CallFits
  <2>3. ids \subseteq Schools /\ ids \ raced \subseteq school
    BY <1>2, <1>3 DEF RequestKnows, ActorKnown, NormalIds
  <2>4. /\ pc'[q] = call[q].op /\ UNCHANGED <<user, school>>
        /\ loc'[q].ids = ids /\ loc'[q].role = role /\ loc'[q].sets = loc[q].sets
        /\ call[q].user \in held'[q] /\ ids \subseteq held'[q]
    <3> HIDE DEF role, normal
    <3>1. call[q].user \in held'[q] /\ ids \subseteq held'[q]
      BY <2>1, HoldMore
    <3>2. pc'[q] = call[q].op /\ UNCHANGED <<user, school>>
      BY <2>1, GoFields DEF data
    <3>3. loc'[q].ids = ids /\ loc'[q].role = role /\ loc'[q].sets = loc[q].sets
      BY <2>1, GoFields
    <3> QED BY <3>1, <3>2, <3>3
  <2>5. call[q].op = "update" => role = loc[q].role
    BY <1>3
  <2> HIDE DEF role, asked, normal
  <2>6. pc'[q] = "update" => AccountKnown(q)'
    <3>1. ids # {None}
      BY <1>4, <2>3
    <3> QED BY <1>2, <2>2, <2>4, <2>5, <3>1 DEF RequestKnows, AccountKnown
  <2>7. SchoolsKnown(q)'
    BY <1>2, <2>3, <2>4 DEF SchoolsKnown
  <2>8. CallFits(q)'
    BY <1>2, <2>2, <2>4 DEF CallFits
  <2> QED BY <1>1, <2>2, <2>4, <2>6, <2>7, <2>8, StepKnows
<1>6. ASSUME CreateUser(q) PROVE RequestKnows(q)'
  BY <1>6 DEF CreateUser
<1>7. ASSUME ReadCurrent(q) PROVE RequestKnows(q)'
  <2> DEFINE u == call[q].user
             next == IF call[q].role = None THEN user[u].role ELSE call[q].role
             ids == IF call[q].ids = {None} /\ call[q].role # None
                    THEN MembershipsOf(u) ELSE call[q].ids
  <2>1. /\ pc[q] = "current" /\ user[u].state = "live" /\ NotOnOneself(q)
        /\ MayManageRole(q, user[u].role)
        /\ loc' = [loc EXCEPT ![q] = [@ EXCEPT !.ids = ids, !.role = next,
                              !.sets = next # user[u].role]]
        /\ Hold(q, {u}) /\ Go(q, IF ids = {None} THEN "update" ELSE "schools") /\ UNCHANGED data
    BY <1>7 DEF ReadCurrent
  <2>2. ids = {None} => call[q].role = None
    BY <1>4 DEF MembershipsOf
  <2>3. u = call[q].actor => next = user[u].role /\ call[q].active # FALSE
    BY <2>1 DEF NotOnOneself
  <2>4. user[u].role = "ADM_MASTER" => who[q].role = "ADM_MASTER"
    BY <2>1 DEF MayManageRole
  <2>5. call[q].op = "update"
    BY <2>1 DEF RequestKnows, CallFits
  <2> HIDE DEF ids
  <2>6. /\ pc'[q] = (IF ids = {None} THEN "update" ELSE "schools") /\ UNCHANGED <<user, school>>
        /\ loc'[q].ids = ids /\ loc'[q].role = next /\ loc'[q].sets = (next # user[u].role)
        /\ u \in held'[q]
    <3> HIDE DEF next
    <3>1. u \in held'[q]
      BY <1>3, <2>1, HoldOne
    <3>2. pc'[q] = (IF ids = {None} THEN "update" ELSE "schools") /\ UNCHANGED <<user, school>>
      BY <2>1, GoFields DEF data
    <3>3. loc'[q].ids = ids /\ loc'[q].role = next /\ loc'[q].sets = (next # user[u].role)
      <4> DEFINE sets == next # user[u].role
      <4>1. loc' = [loc EXCEPT ![q] = [@ EXCEPT !.ids = ids, !.role = next, !.sets = sets]]
        BY <2>1
      <4> HIDE DEF sets
      <4>2. loc'[q].ids = ids /\ loc'[q].role = next /\ loc'[q].sets = sets
        BY <4>1 DEF TypeOK
      <4> QED BY <4>2 DEF sets
    <3> QED BY <3>1, <3>2, <3>3
  <2>7. ids = {None} => next = user[u].role
    BY <2>2
  <2> HIDE DEF next
  <2>8. AccountKnown(q)'
    BY <1>2, <2>1, <2>3, <2>4, <2>5, <2>6, <2>7 DEF AccountKnown
  <2>9. SchoolsKnown(q)'
    BY <2>6 DEF SchoolsKnown
  <2>10. CallFits(q)'
    BY <1>2, <2>5, <2>6 DEF CallFits
  <2> QED BY <1>1, <2>6, <2>8, <2>9, <2>10, StepKnows
<1>8. ASSUME UpdateUser(q) PROVE RequestKnows(q)'
  BY <1>8 DEF UpdateUser
<1>9. ASSUME ReadVictim(q) PROVE RequestKnows(q)'
  <2>1. /\ pc[q] = "victim" /\ Hold(q, {call[q].user}) /\ UNCHANGED <<user, school, loc>>
        /\ call[q].user # call[q].actor /\ user[call[q].user].state = "live"
        /\ user[call[q].user].role = "ADM_MASTER" => who[q].role = "ADM_MASTER"
        /\ \E step \in {"masters", "delete"} : Go(q, step)
    BY <1>9 DEF ReadVictim, MayManageRole, data
  <2>2. call[q].user \in held'[q] /\ pc'[q] \in {"masters", "delete"}
    BY <1>3, <2>1, HoldOne, GoFields
  <2>3. AccountKnown(q)'
    BY <1>2, <2>1, <2>2 DEF AccountKnown
  <2> QED BY <1>1, <2>1, <2>2, <2>3, StepKnows
<1>10. ASSUME CountMasters(q) PROVE RequestKnows(q)'
  <2>1. pc[q] = "masters" /\ pc'[q] = "delete" /\ UNCHANGED <<user, school>>
    BY <1>10, GoFields DEF CountMasters, data
  <2>2. AccountKnown(q)'
    BY <1>2, <2>1 DEF RequestKnows, AccountKnown
  <2> QED BY <1>1, <2>1, <2>2, StepKnows
<1>11. ASSUME DeleteUser(q) PROVE RequestKnows(q)'
  BY <1>11 DEF DeleteUser
<1>12. ASSUME CountMembers(q) PROVE RequestKnows(q)'
  <2>1. /\ call[q].school \in school /\ MembersOf(call[q].school) = {} /\ Hold(q, {call[q].school})
        /\ pc'[q] = "close" /\ UNCHANGED <<user, school, member>>
    BY <1>12, GoFields DEF CountMembers, data
  <2>2. call[q].school \in held'[q] \cap Schools
    BY <1>3, <2>1, HoldOne
  <2>3. SchoolKnown(q)'
    BY <1>2, <2>1, <2>2 DEF SchoolKnown, MembersOf
  <2> QED BY <1>1, <2>1, <2>3, StepKnows
<1>13. ASSUME CloseSchool(q) PROVE RequestKnows(q)'
  BY <1>13 DEF CloseSchool
<1>14. ASSUME FindInstitution(q) PROVE RequestKnows(q)'
  <2>1. /\ call[q].school \in school /\ Hold(q, {call[q].school})
        /\ pc'[q] = "students" /\ UNCHANGED <<user, school>>
    BY <1>14, GoFields DEF FindInstitution, data
  <2>2. call[q].school \in held'[q] \cap Schools
    BY <1>3, <2>1, HoldOne
  <2>3. SchoolKnown(q)'
    BY <1>2, <2>1, <2>2 DEF SchoolKnown
  <2> QED BY <1>1, <2>1, <2>3, StepKnows
<1>15. ASSUME ReadStudents(q) PROVE RequestKnows(q)'
  <2> DEFINE class == StudentsOf(call[q].school)
  <2>1. /\ pc[q] = "students" /\ loc' = [loc EXCEPT ![q].class = class] /\ Hold(q, class)
        /\ pc'[q] = "link" /\ UNCHANGED <<user, school, member>>
    BY <1>15, GoFields DEF ReadStudents, data
  <2>2. class \subseteq Users /\ \A u \in class : member[u][call[q].school] = "ALUNO"
    BY DEF StudentsOf
  <2> HIDE DEF class
  <2>3. loc'[q].class = class /\ class \subseteq held'[q]
    <3>1. held'[q] = held[q] \cup class
      BY <2>1, <2>2, HoldFacts
    <3>2. loc'[q].class = class
      BY <2>1, GoFields
    <3> QED BY <3>1, <3>2
  <2>4. SchoolKnown(q)'
    BY <1>2, <2>1, <2>2, <2>3 DEF RequestKnows, SchoolKnown
  <2> QED BY <1>1, <2>1, <2>4, StepKnows
<1>16. ASSUME LinkCourse(q) PROVE RequestKnows(q)'
  BY <1>16 DEF LinkCourse
<1>17. ASSUME FindLink(q) PROVE RequestKnows(q)'
  <2>1. /\ pc[q] = "linkrow" /\ Hold(q, {call[q].school})
        /\ pc'[q] = "unlink" /\ UNCHANGED <<user, school>>
    BY <1>17, GoFields DEF FindLink, data
  <2>2. call[q].school \in Schools
    BY <1>2, <2>1, InputFields DEF RequestKnows, CallFits
  <2>3. call[q].school \in held'[q]
    BY <2>1, <2>2, HoldOne
  <2>4. SchoolKnown(q)'
    BY <1>2, <2>1, <2>2, <2>3 DEF SchoolKnown
  <2> QED BY <1>1, <2>1, <2>4, StepKnows
<1>18. ASSUME UnlinkCourse(q) PROVE RequestKnows(q)'
  BY <1>18 DEF UnlinkCourse
<1>19. ASSUME CheckAccess(q) PROVE RequestKnows(q)'
  <2>1. /\ pc'[q] = (IF call[q].op = "enrol" THEN "members" ELSE "enrolled")
        /\ UNCHANGED <<user, school>>
    BY <1>19, GoFields DEF CheckAccess, data
  <2>2. CallFits(q)'
    BY <1>2, <2>1 DEF CallFits
  <2> QED BY <1>1, <2>1, <2>2, StepKnows
<1>20. ASSUME ReadMemberships(q) PROVE RequestKnows(q)'
  <2> DEFINE u == call[q].user
             found == {s \in Schools : u \in StudentsOf(s) /\ call[q].school \in {None, s}}
             allowed == {s \in found : who[q].role = "ADM_INSTITUICAO" => InScope(q, s)}
             free == found = {} /\ call[q].source = "SELF"
  <2>1. /\ pc[q] = "members" /\ loc' = [loc EXCEPT ![q].ids = allowed]
        /\ Hold(q, {u} \cup allowed) /\ Go(q, IF free THEN "open" ELSE "links") /\ UNCHANGED data
    BY <1>20 DEF ReadMemberships
  <2>2. allowed \subseteq Schools /\ \A s \in allowed : member[u][s] = "ALUNO"
    BY DEF StudentsOf
  <2>3. free => /\ u = call[q].actor /\ who[q].role = "ALUNO" /\ u \in held[q]
                /\ u \notin raced => user[u].state = "live" /\ user[u].role = "ALUNO"
    BY <1>2, <2>1, InputFields DEF RequestKnows, CallFits, ActorKnown, Serving
  <2> HIDE DEF allowed, free
  <2>4. /\ pc'[q] = (IF free THEN "open" ELSE "links") /\ UNCHANGED <<user, school, member>>
        /\ loc'[q].ids = allowed /\ u \in held'[q] /\ allowed \subseteq held'[q]
    <3> QED BY <2>1, HoldMore, GoFields DEF data
  <2>5. StudentKnown(q)'
    BY <1>2, <2>2, <2>3, <2>4 DEF StudentKnown
  <2> QED BY <1>1, <2>4, <2>5, StepKnows
<1>21. ASSUME EnsureOpen(q) PROVE RequestKnows(q)'
  <2>1. /\ pc[q] = "open" /\ school' = school \cup {Open} /\ Hold(q, {Open})
        /\ pc'[q] = "join" /\ UNCHANGED <<user, member>>
    BY <1>21, GoFields DEF EnsureOpen
  <2>2. Open \in held'[q]
    BY <1>4, <2>1, HoldOne
  <2>3. StudentKnown(q)'
    BY <1>2, <2>1, <2>2 DEF RequestKnows, StudentKnown
  <2> QED BY <1>1, <2>1, <2>3, StepKnows
<1>22. ASSUME JoinOpen(q) PROVE RequestKnows(q)'
  <2>1. /\ pc[q] = "join" /\ member' = [member EXCEPT ![call[q].user][Open] = "ALUNO"]
        /\ pc'[q] = "offer" /\ UNCHANGED <<user, school>>
    BY <1>22, GoFields DEF JoinOpen
  <2>2. member'[call[q].user][Open] = "ALUNO"
    BY <1>3, <1>4, <2>1 DEF TypeOK
  <2>3. StudentKnown(q)'
    BY <1>2, <2>1, <2>2 DEF RequestKnows, StudentKnown
  <2> QED BY <1>1, <2>1, <2>3, StepKnows
<1>23. ASSUME OfferOpen(q) PROVE RequestKnows(q)'
  <2>1. pc[q] = "offer" /\ pc'[q] = "again" /\ UNCHANGED <<user, school, member>>
    BY <1>23, GoFields DEF OfferOpen
  <2>2. StudentKnown(q)'
    BY <1>2, <2>1 DEF RequestKnows, StudentKnown
  <2> QED BY <1>1, <2>1, <2>2, StepKnows
<1>24. ASSUME ReadOpen(q) PROVE RequestKnows(q)'
  <2>1. /\ pc[q] = "again" /\ loc' = [loc EXCEPT ![q].ids = {Open}]
        /\ pc'[q] = "links" /\ UNCHANGED <<user, school, member>>
    BY <1>24, GoFields DEF ReadOpen, data
  <2>2. loc'[q].ids = {Open}
    BY <2>1, GoFields
  <2>3. StudentKnown(q)'
    BY <1>2, <1>4, <2>1, <2>2 DEF RequestKnows, StudentKnown
  <2> QED BY <1>1, <2>1, <2>3, StepKnows
<1>25. ASSUME FindTarget(q) PROVE RequestKnows(q)'
  <2>1. PICK s \in loc[q].ids \cap Linked : loc' = [loc EXCEPT ![q].ids = {s}]
    BY <1>25 DEF FindTarget
  <2>2. pc[q] = "links" /\ pc'[q] = "enrol" /\ UNCHANGED <<user, school, member, link>>
    BY <1>25, GoFields DEF FindTarget, data
  <2>3. loc'[q].ids = {s}
    BY <2>1, GoFields
  <2>4. StudentKnown(q)'
    BY <1>2, <2>1, <2>2, <2>3 DEF RequestKnows, StudentKnown, Linked
  <2> QED BY <1>1, <2>2, <2>4, StepKnows
<1>26. ASSUME EnrolStudent(q) PROVE RequestKnows(q)'
  BY <1>26 DEF EnrolStudent
<1>27. ASSUME FindEnrolment(q) PROVE RequestKnows(q)'
  <2>1. PICK s \in LiveEnrolments(call[q].user) : loc' = [loc EXCEPT ![q].ids = {s}]
    BY <1>27 DEF FindEnrolment
  <2>2. pc'[q] = "remove" /\ UNCHANGED <<user, school, enrolled>>
    BY <1>27, GoFields DEF FindEnrolment, data
  <2>3. loc'[q].ids = {s}
    BY <2>1, GoFields
  <2>5. s \in Schools /\ enrolled[call[q].user][s] # None
    BY <2>1 DEF LiveEnrolments
  <2>4. RemovalKnown(q)'
    BY <1>2, <2>2, <2>3, <2>5 DEF RemovalKnown
  <2> QED BY <1>1, <2>2, <2>4, StepKnows
<1>28. ASSUME RemoveEnrolment(q) PROVE RequestKnows(q)'
  BY <1>28 DEF RemoveEnrolment
<1>29. ASSUME Die(q) PROVE RequestKnows(q)'
  BY <1>29 DEF Die
<1> QED
  BY <1>5, <1>6, <1>7, <1>8, <1>9, <1>10, <1>11, <1>12, <1>13, <1>14,
     <1>15, <1>16, <1>17, <1>18, <1>19, <1>20, <1>21, <1>22, <1>23, <1>24,
     <1>25, <1>26, <1>27, <1>28, <1>29
     DEF AccountStep, SchoolStep, EnrolmentStep

LEMMA StartKnows ==
    ASSUME TypeOK, MembersBelong, NEW q \in Requests, NEW i \in Inputs, Start(q, i)
    PROVE  RequestKnows(q)' /\ UNCHANGED data
<1>1. /\ UNCHANGED data /\ i.op \in DOMAIN FirstStep /\ Authentic(i)
  BY DEF Start
<1>2. UNCHANGED <<user, school, member, link, enrolled>>
  BY <1>1 DEF data
<1>3. /\ call'[q] = i /\ pc'[q] = FirstStep[i.op] /\ raced \subseteq raced'
      /\ who'[q] = [role |-> user[i.actor].role, scope |-> MembershipsOf(i.actor)]
      /\ held'[q] = IF i.source = "SELF" THEN {i.user} ELSE {}
  BY StartFacts DEF Elsewhere
<1>4. who'[q].role = user[i.actor].role /\ who'[q].scope = MembershipsOf(i.actor)
  BY <1>3
<1>5. i.actor \in Users /\ i.user \in Users
  BY InputFields
<1>6. /\ pc'[q] \in {"schools", "current", "victim", "empty", "institution", "linkrow", "access"}
      /\ pc'[q] = "schools" => i.op = "create"
      /\ pc'[q] = "current" => i.op = "update"
      /\ pc'[q] = "linkrow" => i.op = "unlink"
      /\ pc'[q] = "access" => i.op \in {"enrol", "remove"}
  BY <1>1, <1>3 DEF FirstStep
<1>7. CallFits(q)'
  BY <1>3, <1>6 DEF CallFits
<1>8. ActorKnown(q)'
  <2>1. Serving(i.actor)'
    BY <1>1, <1>2 DEF Authentic, Serving
  <2>2. MembershipsOf(i.actor) \ raced' \subseteq school'
    BY <1>2, <1>3, <1>5 DEF MembersBelong, MembershipsOf
  <2>3. i.op = "enrol" /\ i.source = "SELF" => user[i.actor].role = "ALUNO" /\ i.user \in held'[q]
    BY <1>1, <1>3 DEF Authentic, Admitted
  <2> QED BY <1>2, <1>3, <1>4, <2>1, <2>2, <2>3 DEF ActorKnown, Serving
<1>9. AccountKnown(q)' /\ SchoolsKnown(q)' /\ SchoolKnown(q)' /\ StudentKnown(q)' /\ RemovalKnown(q)'
  BY <1>3, <1>6 DEF AccountKnown, SchoolsKnown, SchoolKnown, StudentKnown, RemovalKnown
<1> QED
  BY <1>1, <1>7, <1>8, <1>9 DEF RequestKnows

(* A registration takes a name that only a request which creates the same account
   may hold, so it changes nothing that another request has read. *)
LEMMA RegisterKnows ==
    ASSUME TypeOK, NEW i \in Inputs, Register(i), NEW r \in Requests, RequestKnows(r)
    PROVE  RequestKnows(r)'
<1> DEFINE n == i.user
<1>1. /\ UNCHANGED <<school, member, link, enrolled, pc, call, who, loc, held, split>>
      /\ n \in Users /\ user[n].state = "absent" /\ raced \subseteq raced'
      /\ \A u \in Users \ {n} : user'[u] = user[u]
      /\ n \in held[r] => n \in raced'
  BY RegisterFacts DEF TypeOK
<1>2. /\ InFlight(r) => call[r].actor \in Users /\ call[r].user \in Users
  BY RequestFields, InputFields
<1>3. CallFits(r)' /\ SchoolsKnown(r)' /\ RemovalKnown(r)'
  BY <1>1 DEF RequestKnows, CallFits, SchoolsKnown, RemovalKnown
<1>4. SchoolKnown(r)'
  BY <1>1 DEF RequestKnows, SchoolKnown, MembersOf
<1>5. ActorKnown(r)'
  <2> DEFINE a == call[r].actor
  <2>1. ASSUME InFlight(r), a \notin raced'
        PROVE  user'[a].state = "live" /\ user'[a].active /\ user'[a].role = who[r].role
    <3>1. user[a].state = "live" /\ user[a].active /\ user[a].role = who[r].role
      BY <1>1, <2>1 DEF RequestKnows, ActorKnown, Serving
    <3>2. user'[a] = user[a]
      BY <1>1, <1>2, <2>1, <3>1
    <3> QED BY <3>1, <3>2
  <2>2. InFlight(r) => /\ who[r].scope \ raced \subseteq school
                       /\ call[r].op = "enrol" /\ call[r].source = "SELF" =>
                             who[r].role = "ALUNO" /\ call[r].user \in held[r]
    BY DEF RequestKnows, ActorKnown
  <2> HIDE DEF a
  <2>3. InFlight(r)' = InFlight(r) /\ call'[r].actor = a
    BY <1>1 DEF InFlight, a
  <2> QED BY <1>1, <2>1, <2>2, <2>3 DEF ActorKnown, Serving
<1>6. AccountKnown(r)'
  <2> DEFINE u == call[r].user
  <2>1. (pc[r] \in {"schools", "update"} /\ call[r].op = "update") \/ pc[r] \in {"masters", "delete"}
           => u \in held[r] /\ (u \notin raced' => user'[u] = user[u])
    BY <1>1, <1>2 DEF RequestKnows, AccountKnown, InFlight
  <2>2. AccountKnown(r)
    BY DEF RequestKnows
  <2> QED BY <1>1, <2>1, <2>2 DEF AccountKnown
<1>7. StudentKnown(r)'
  <2> DEFINE u == call[r].user
  <2>1. pc[r] \in {"open", "join", "offer", "again", "links", "enrol"}
           => u \in held[r] /\ (u \notin raced' => user'[u] = user[u])
    BY <1>1, <1>2 DEF RequestKnows, StudentKnown, InFlight
  <2>2. StudentKnown(r)
    BY DEF RequestKnows
  <2> QED BY <1>1, <2>1, <2>2 DEF StudentKnown, Linked
<1> QED
  BY <1>3, <1>4, <1>5, <1>6, <1>7 DEF RequestKnows

LEMMA RequestsKnow ==
    ASSUME TypeOK, RacedIsKnown, \A r \in Requests : RequestKnows(r), MembersBelong, [Next]_vars
    PROVE  \A r \in Requests : RequestKnows(r)'
<1> SUFFICES ASSUME NEW r \in Requests PROVE RequestKnows(r)'
  OBVIOUS
<1>1. ASSUME NEW q \in Requests,
             AccountStep(q) \/ SchoolStep(q) \/ EnrolmentStep(q) \/ Die(q)
      PROVE  RequestKnows(r)'
  <2>1. WritesHeld(q) /\ RequestKnows(q)'
    BY <1>1, OnlyHeldIsWritten, OwnStepKnows
  <2>2. Elsewhere(q)
    BY <1>1, RequestSteps, EndTypes, GoesFacts DEF RequestKnows
  <2>3. CASE r # q
    BY <2>1, <2>2, <2>3, NobodyInterferes
  <2> QED BY <2>1, <2>3
<1>2. ASSUME NEW q \in Requests, NEW i \in Inputs, Start(q, i)
      PROVE  RequestKnows(r)'
  <2>1. RequestKnows(q)' /\ UNCHANGED data /\ Elsewhere(q)
    BY <1>2, StartKnows, StartFacts
  <2>2. CASE r # q
    BY <2>1, <2>2, NobodyInterferes
  <2> QED BY <2>1, <2>2
<1>3. ASSUME NEW i \in Inputs, Register(i) PROVE RequestKnows(r)'
  BY <1>3, RegisterKnows
<1>4. CASE UNCHANGED vars
  <2> USE <1>4 DEF vars
  <2>1. CallFits(r)' = CallFits(r) /\ ActorKnown(r)' = ActorKnown(r)
    BY DEF CallFits, ActorKnown, InFlight, Serving
  <2>2. AccountKnown(r)' = AccountKnown(r) /\ SchoolsKnown(r)' = SchoolsKnown(r)
    BY DEF AccountKnown, SchoolsKnown
  <2>3. SchoolKnown(r)' = SchoolKnown(r)
    BY DEF SchoolKnown, MembersOf
  <2>4. StudentKnown(r)' = StudentKnown(r) /\ RemovalKnown(r)' = RemovalKnown(r)
    BY DEF StudentKnown, RemovalKnown, Linked
  <2> QED BY <2>1, <2>2, <2>3, <2>4 DEF RequestKnows
<1> QED
  BY <1>1, <1>2, <1>3, <1>4 DEF Next

-----------------------------------------------------------------------------
(* The invariants of the rows. *)

LEMMA TypesKept ==
    ASSUME TypeOK, \A r \in Requests : RequestKnows(r), [Next]_vars
    PROVE  TypeOK'
<1>1. DataTypes' /\ ControlTypes' => TypeOK'
  BY DEF DataTypes, ControlTypes, TypeOK, Rows, Locals
<1>2. ASSUME NEW q \in Requests,
             AccountStep(q) \/ SchoolStep(q) \/ EnrolmentStep(q) \/ Die(q)
      PROVE  TypeOK'
  <2>1. DataTypes'
    BY <1>2, DataTypesKept DEF RequestKnows
  <2>2. ControlTypes'
    BY <1>2, RequestSteps, EndTypes, GoesFacts DEF RequestKnows
  <2> QED BY <2>1, <2>2, <1>1
<1>3. ASSUME NEW q \in Requests, NEW i \in Inputs, Start(q, i)
      PROVE  TypeOK'
  <2>1. DataTypes'
    BY <1>3 DEF Start, TypeOK, DataTypes, Rows, data
  <2> QED BY <1>1, <1>3, <2>1, StartFacts
<1>4. ASSUME NEW i \in Inputs, Register(i) PROVE TypeOK'
  <2>1. [state |-> "live", active |-> TRUE, role |-> "ALUNO"] \in Accounts
    BY DEF Accounts, Roles
  <2>2. user' \in [Users -> Accounts]
    BY <1>4, <2>1, RegisterFacts DEF TypeOK
  <2>3. DataTypes'
    BY <1>4, <2>2, RegisterFacts DEF TypeOK, DataTypes, Rows
  <2> QED BY <1>1, <1>4, <2>3, RegisterFacts
<1>5. CASE UNCHANGED vars
  BY <1>5 DEF vars, TypeOK, InFlight
<1> QED
  BY <1>2, <1>3, <1>4, <1>5 DEF Next

(* What a statement may count on: the request that makes it holds what it says. *)
LEMMA StepFacts ==
    ASSUME TypeOK, NEW q \in Requests, RequestKnows(q),
           AccountStep(q) \/ SchoolStep(q) \/ EnrolmentStep(q) \/ Die(q)
    PROVE  /\ raced \subseteq raced'
           /\ call[q] \in Inputs /\ call[q].user \in Users /\ call[q].actor \in Users
           /\ call[q].active \in BOOLEAN \cup {None}
           /\ CallFits(q) /\ ActorKnown(q) /\ AccountKnown(q) /\ SchoolsKnown(q)
           /\ SchoolKnown(q) /\ StudentKnown(q) /\ InFlight(q)
<1>1. raced \subseteq raced' /\ InFlight(q)
  <2>1. CASE End(q)
    <3>1. InFlight(q)
      BY DEF AccountStep, SchoolStep, EnrolmentStep, Die, InFlight, CheckSchools, CreateUser,
             ReadCurrent, UpdateUser, ReadVictim, CountMasters, DeleteUser, CountMembers,
             CloseSchool, FindInstitution, ReadStudents, LinkCourse, FindLink, UnlinkCourse,
             CheckAccess, ReadMemberships, EnsureOpen, JoinOpen, OfferOpen, ReadOpen,
             FindTarget, EnrolStudent, FindEnrolment, RemoveEnrolment
    <3> QED BY <2>1, <3>1, EndTypes DEF Elsewhere
  <2>2. CASE Goes(q)
    BY <2>2, GoesFacts DEF Elsewhere, Goes
  <2> QED BY <2>1, <2>2, RequestSteps DEF RequestKnows
<1> QED
  BY <1>1, RequestFields, InputFields DEF RequestKnows

LEMMA MembersStillBelong ==
    ASSUME TypeOK, MembersBelong, NEW q \in Requests, RequestKnows(q),
           AccountStep(q) \/ SchoolStep(q) \/ EnrolmentStep(q) \/ Die(q)
    PROVE  MembersBelong'
<1> USE DEF Stop
<1>1. /\ raced \subseteq raced' /\ call[q].user \in Users
      /\ user \in [Users -> Accounts] /\ member \in [Users -> [Schools -> Roles \cup {None}]]
      /\ link \in [Schools -> {"none", "off", "on"}]
  BY StepFacts DEF TypeOK
<1>2. UNCHANGED <<user, member, link>> /\ school \subseteq school' => MembersBelong'
  BY <1>1 DEF MembersBelong, Linked
<1>3. UNCHANGED data => MembersBelong'
  BY <1>2 DEF data
<1>4. Open \in Schools /\ None \notin Roles /\ None \notin Schools
  BY Constants
<1>5. ASSUME CheckSchools(q) PROVE MembersBelong'
  BY <1>5, <1>3 DEF CheckSchools
<1>6. ASSUME CreateUser(q) PROVE MembersBelong'
  <2> DEFINE u == call[q].user
             rows == [s \in Schools |-> IF s \in loc[q].ids THEN loc[q].role ELSE None]
  <2>1. CASE Stop(q)
    BY <2>1, <1>3
  <2>2. CASE ~Stop(q)
    <3>1. /\ user' = [user EXCEPT ![u] = [state |-> "live", active |-> TRUE, role |-> loc[q].role]]
          /\ member' = [member EXCEPT ![u] = rows] /\ UNCHANGED <<school, link>>
      BY <1>6, <2>2 DEF CreateUser
    <3>2. \A s \in Schools : rows[s] # None => s \in raced \/ s \in school
      BY <1>6, <1>4, StepFacts DEF CreateUser, SchoolsKnown
    <3> HIDE DEF rows, u
    <3>3. \A v \in Users, s \in Schools : member'[v][s] # None =>
             (v = u /\ rows[s] # None) \/ (v # u /\ member[v][s] # None)
      BY <1>1, <3>1 DEF u
    <3>4. user'[u].state = "live" /\ \A v \in Users \ {u} : user'[v] = user[v]
      BY <1>1, <3>1 DEF u
    <3> QED BY <1>1, <3>1, <3>2, <3>3, <3>4 DEF MembersBelong, Linked
  <2> QED BY <2>1, <2>2
<1>7. ASSUME ReadCurrent(q) PROVE MembersBelong'
  BY <1>7, <1>3 DEF ReadCurrent
<1>8. ASSUME UpdateUser(q) PROVE MembersBelong'
  <2> DEFINE u == call[q].user
             rows == [s \in Schools |-> Synced(q, s)]
  <2>1. /\ UNCHANGED <<school, link>> /\ \A v \in Users : user'[v].state = user[v].state
    BY <1>8, <1>1 DEF UpdateUser, Accounts
  <2>2. \/ member' = member
        \/ loc[q].ids # {None} /\ member' = [member EXCEPT ![u] = rows]
    BY <1>8 DEF UpdateUser
  <2>3. u \notin raced => user[u].state = "live"
    BY <1>8, StepFacts DEF UpdateUser, AccountKnown, CallFits
  <2>4. loc[q].ids # {None} => \A s \in Schools : rows[s] # None =>
            s \in raced \/ s \in school \/ member[u][s] # None
    BY <1>8, <1>4, StepFacts DEF UpdateUser, SchoolsKnown, Synced
  <2> HIDE DEF rows, u
  <2>5. \A v \in Users, s \in Schools : member'[v][s] # None =>
           \/ member[v][s] # None
           \/ v = u /\ (s \in raced \/ s \in school)
    BY <1>1, <2>2, <2>4 DEF u
  <2> QED BY <1>1, <2>1, <2>3, <2>5 DEF MembersBelong, Linked
<1>9. ASSUME ReadVictim(q) PROVE MembersBelong'
  BY <1>9, <1>3 DEF ReadVictim
<1>10. ASSUME CountMasters(q) PROVE MembersBelong'
  BY <1>10, <1>3 DEF CountMasters
<1>11. ASSUME DeleteUser(q) PROVE MembersBelong'
  <2> DEFINE u == call[q].user
  <2>1. /\ \A v \in Users \ {u} : user'[v] = user[v] /\ member'[v] = member[v]
        /\ \A s \in Schools : member'[u][s] = None
        /\ UNCHANGED <<school, link>>
    BY <1>11, <1>1 DEF DeleteUser
  <2> HIDE DEF u
  <2> QED BY <1>1, <2>1 DEF MembersBelong, Linked
<1>12. ASSUME CountMembers(q) PROVE MembersBelong'
  BY <1>12, <1>3 DEF CountMembers
<1>13. ASSUME CloseSchool(q) PROVE MembersBelong'
  <2> DEFINE s == call[q].school
  <2>1. /\ school' = school \ {s} /\ link' = [link EXCEPT ![s] = "none"]
        /\ UNCHANGED <<user, member>>
    BY <1>13 DEF CloseSchool
  <2>2. s \in Schools /\ (s \notin raced => \A u \in Users : member[u][s] = None)
    BY <1>13, StepFacts DEF CloseSchool, SchoolKnown, MembersOf
  <2> HIDE DEF s
  <2> QED BY <1>1, <2>1, <2>2 DEF MembersBelong, Linked
<1>14. ASSUME FindInstitution(q) PROVE MembersBelong'
  BY <1>14, <1>3 DEF FindInstitution
<1>15. ASSUME ReadStudents(q) PROVE MembersBelong'
  BY <1>15, <1>3 DEF ReadStudents
<1>16. ASSUME LinkCourse(q) PROVE MembersBelong'
  <2> DEFINE s == call[q].school
  <2>1. link' = [link EXCEPT ![s] = "on"] /\ UNCHANGED <<user, school, member>>
    BY <1>16 DEF LinkCourse
  <2>2. s \notin raced => s \in school
    BY <1>16, StepFacts DEF LinkCourse, SchoolKnown
  <2> HIDE DEF s
  <2> QED BY <1>1, <2>1, <2>2 DEF MembersBelong, Linked
<1>17. ASSUME FindLink(q) PROVE MembersBelong'
  BY <1>17, <1>3 DEF FindLink
<1>18. ASSUME UnlinkCourse(q) PROVE MembersBelong'
  <2> DEFINE s == call[q].school
  <2>1. link' = [link EXCEPT ![s] = "off"] /\ UNCHANGED <<user, school, member>>
    BY <1>18 DEF UnlinkCourse
  <2> HIDE DEF s
  <2> QED BY <1>1, <2>1 DEF MembersBelong, Linked
<1>19. ASSUME CheckAccess(q) PROVE MembersBelong'
  BY <1>19, <1>3 DEF CheckAccess
<1>20. ASSUME ReadMemberships(q) PROVE MembersBelong'
  BY <1>20, <1>3 DEF ReadMemberships
<1>21. ASSUME EnsureOpen(q) PROVE MembersBelong'
  BY <1>21, <1>2 DEF EnsureOpen
<1>22. ASSUME JoinOpen(q) PROVE MembersBelong'
  <2> DEFINE u == call[q].user
  <2>1. member' = [member EXCEPT ![u][Open] = "ALUNO"] /\ UNCHANGED <<user, school, link>>
    BY <1>22 DEF JoinOpen
  <2>2. (u \notin raced => user[u].state = "live") /\ (Open \notin raced => Open \in school)
    BY <1>22, StepFacts DEF JoinOpen, StudentKnown
  <2> HIDE DEF u
  <2>3. \A v \in Users, s \in Schools : member'[v][s] # None =>
           (v = u /\ s = Open) \/ member[v][s] # None
    BY <1>1, <2>1
  <2> QED BY <1>1, <2>1, <2>2, <2>3 DEF MembersBelong, Linked
<1>23. ASSUME OfferOpen(q) PROVE MembersBelong'
  <2>1. link' = [link EXCEPT ![Open] = "on"] /\ UNCHANGED <<user, school, member>>
    BY <1>23 DEF OfferOpen
  <2>2. Open \notin raced => Open \in school
    BY <1>23, StepFacts DEF OfferOpen, StudentKnown
  <2> QED BY <1>1, <2>1, <2>2 DEF MembersBelong, Linked
<1>24. ASSUME ReadOpen(q) PROVE MembersBelong'
  BY <1>24, <1>3 DEF ReadOpen
<1>25. ASSUME FindTarget(q) PROVE MembersBelong'
  BY <1>25, <1>3 DEF FindTarget
<1>26. ASSUME EnrolStudent(q) PROVE MembersBelong'
  BY <1>26, <1>2 DEF EnrolStudent
<1>27. ASSUME FindEnrolment(q) PROVE MembersBelong'
  BY <1>27, <1>3 DEF FindEnrolment
<1>28. ASSUME RemoveEnrolment(q) PROVE MembersBelong'
  BY <1>28, <1>2 DEF RemoveEnrolment
<1>29. ASSUME Die(q) PROVE MembersBelong'
  BY <1>29, <1>3 DEF Die
<1> QED
  BY <1>5, <1>6, <1>7, <1>8, <1>9, <1>10, <1>11, <1>12, <1>13, <1>14,
     <1>15, <1>16, <1>17, <1>18, <1>19, <1>20, <1>21, <1>22, <1>23, <1>24,
     <1>25, <1>26, <1>27, <1>28, <1>29
     DEF AccountStep, SchoolStep, EnrolmentStep

LEMMA RolesStillAgree ==
    ASSUME TypeOK, RolesAgree, NEW q \in Requests, RequestKnows(q),
           AccountStep(q) \/ SchoolStep(q) \/ EnrolmentStep(q) \/ Die(q)
    PROVE  RolesAgree'
<1> USE DEF Stop
<1>1. /\ raced \subseteq raced' /\ call[q].user \in Users
      /\ user \in [Users -> Accounts] /\ member \in [Users -> [Schools -> Roles \cup {None}]]
  BY StepFacts DEF TypeOK
<1>2. UNCHANGED <<user, member, split>> => RolesAgree'
  BY <1>1 DEF RolesAgree
<1>3. UNCHANGED data /\ UNCHANGED split => RolesAgree'
  BY <1>2 DEF data
<1>4. ASSUME CheckSchools(q) PROVE RolesAgree'
  BY <1>4, <1>3 DEF CheckSchools, Go
<1>5. ASSUME CreateUser(q) PROVE RolesAgree'
  <2> DEFINE u == call[q].user
             rows == [s \in Schools |-> IF s \in loc[q].ids THEN loc[q].role ELSE None]
  <2>1. CASE Stop(q)
    BY <2>1, <1>3
  <2>2. CASE ~Stop(q)
    <3>1. /\ user' = [user EXCEPT ![u] = [state |-> "live", active |-> TRUE, role |-> loc[q].role]]
          /\ member' = [member EXCEPT ![u] = rows] /\ UNCHANGED split
      BY <1>5, <2>2 DEF CreateUser
    <3>2. \A s \in Schools : rows[s] \in {None, loc[q].role}
      OBVIOUS
    <3> HIDE DEF rows, u
    <3>3. \A v \in Users \ {u} : user'[v] = user[v] /\ member'[v] = member[v]
      BY <1>1, <3>1 DEF u
    <3>4. user'[u].role = loc[q].role /\ member'[u] = rows
      BY <1>1, <3>1 DEF u
    <3> QED BY <1>1, <3>1, <3>2, <3>3, <3>4 DEF RolesAgree
  <2> QED BY <2>1, <2>2
<1>6. ASSUME ReadCurrent(q) PROVE RolesAgree'
  BY <1>6, <1>3 DEF ReadCurrent, Go
<1>7. ASSUME UpdateUser(q) PROVE RolesAgree'
  <2> DEFINE u == call[q].user
             rows == [s \in Schools |-> Synced(q, s)]
             role == IF loc[q].sets THEN loc[q].role ELSE user[u].role
             stale == \E s \in Schools : member'[u][s] \notin {None, user'[u].role} /\ ~InScope(q, s)
  <2>1. \A v \in Users \ {u} : user'[v] = user[v] /\ member'[v] = member[v]
    BY <1>7, <1>1 DEF UpdateUser
  <2>2. split' = IF stale THEN split \cup {u} ELSE split
    BY <1>7 DEF UpdateUser
  <2>3. user'[u].role = role
    BY <1>7, <1>1 DEF UpdateUser, Accounts
  <2>4. u \notin raced => role = loc[q].role
    BY <1>7, StepFacts DEF UpdateUser, AccountKnown, CallFits
  <2>5. CASE loc[q].ids = {None}
    <3>1. member' = member
      BY <1>7, <2>5 DEF UpdateUser
    <3>2. u \notin raced => role = user[u].role
      BY <1>7, <2>5, StepFacts DEF UpdateUser, AccountKnown, CallFits
    <3> HIDE DEF u, role, stale
    <3> QED BY <1>1, <2>1, <2>2, <2>3, <3>1, <3>2 DEF RolesAgree
  <2>6. CASE loc[q].ids # {None}
    <3>1. member' = [member EXCEPT ![u] = rows]
      BY <1>7, <2>6 DEF UpdateUser
    <3>2. \A s \in Schools : member'[u][s] = Synced(q, s)
      BY <1>1, <3>1
    <3>3. \A s \in Schools : Synced(q, s) \in {None, loc[q].role} \/ ~InScope(q, s)
      BY DEF Synced
    <3>4. u \notin raced /\ u \notin split' =>
             \A s \in Schools : member'[u][s] \in {None, user'[u].role}
      BY <2>2, <2>3, <2>4, <3>2, <3>3
    <3> HIDE DEF u, role, stale
    <3> QED BY <1>1, <2>1, <2>2, <3>4 DEF RolesAgree
  <2> QED BY <2>5, <2>6
<1>8. ASSUME ReadVictim(q) PROVE RolesAgree'
  BY <1>8, <1>3 DEF ReadVictim, Go
<1>9. ASSUME CountMasters(q) PROVE RolesAgree'
  BY <1>9, <1>3 DEF CountMasters, Go
<1>10. ASSUME DeleteUser(q) PROVE RolesAgree'
  <2> DEFINE u == call[q].user
  <2>1. /\ \A v \in Users \ {u} : user'[v] = user[v] /\ member'[v] = member[v]
        /\ \A s \in Schools : member'[u][s] = None
        /\ UNCHANGED split
    BY <1>10, <1>1 DEF DeleteUser
  <2> HIDE DEF u
  <2> QED BY <1>1, <2>1 DEF RolesAgree
<1>11. ASSUME CountMembers(q) PROVE RolesAgree'
  BY <1>11, <1>3 DEF CountMembers, Go
<1>12. ASSUME CloseSchool(q) PROVE RolesAgree'
  BY <1>12, <1>2 DEF CloseSchool
<1>13. ASSUME FindInstitution(q) PROVE RolesAgree'
  BY <1>13, <1>3 DEF FindInstitution, Go
<1>14. ASSUME ReadStudents(q) PROVE RolesAgree'
  BY <1>14, <1>3 DEF ReadStudents, Go
<1>15. ASSUME LinkCourse(q) PROVE RolesAgree'
  BY <1>15, <1>2 DEF LinkCourse
<1>16. ASSUME FindLink(q) PROVE RolesAgree'
  BY <1>16, <1>3 DEF FindLink, Go
<1>17. ASSUME UnlinkCourse(q) PROVE RolesAgree'
  BY <1>17, <1>2 DEF UnlinkCourse
<1>18. ASSUME CheckAccess(q) PROVE RolesAgree'
  BY <1>18, <1>3 DEF CheckAccess, Go
<1>19. ASSUME ReadMemberships(q) PROVE RolesAgree'
  BY <1>19, <1>3 DEF ReadMemberships, Go
<1>20. ASSUME EnsureOpen(q) PROVE RolesAgree'
  BY <1>20, <1>2 DEF EnsureOpen, Go
<1>21. ASSUME JoinOpen(q) PROVE RolesAgree'
  <2> DEFINE u == call[q].user
  <2>1. member' = [member EXCEPT ![u][Open] = "ALUNO"] /\ UNCHANGED <<user, split>>
    BY <1>21 DEF JoinOpen, Go
  <2>2. u \notin raced => user[u].role = "ALUNO"
    BY <1>21, StepFacts DEF JoinOpen, StudentKnown
  <2> HIDE DEF u
  <2>3. \A v \in Users, s \in Schools :
           (v = u /\ member'[v][s] = "ALUNO") \/ member'[v][s] = member[v][s]
    BY <1>1, <2>1
  <2> QED BY <1>1, <2>1, <2>2, <2>3 DEF RolesAgree
<1>22. ASSUME OfferOpen(q) PROVE RolesAgree'
  BY <1>22, <1>2 DEF OfferOpen, Go
<1>23. ASSUME ReadOpen(q) PROVE RolesAgree'
  BY <1>23, <1>3 DEF ReadOpen, Go
<1>24. ASSUME FindTarget(q) PROVE RolesAgree'
  BY <1>24, <1>3 DEF FindTarget, Go
<1>25. ASSUME EnrolStudent(q) PROVE RolesAgree'
  BY <1>25, <1>2 DEF EnrolStudent
<1>26. ASSUME FindEnrolment(q) PROVE RolesAgree'
  BY <1>26, <1>3 DEF FindEnrolment, Go
<1>27. ASSUME RemoveEnrolment(q) PROVE RolesAgree'
  BY <1>27, <1>2 DEF RemoveEnrolment
<1>28. ASSUME Die(q) PROVE RolesAgree'
  BY <1>28, <1>3 DEF Die
<1> QED
  BY <1>4, <1>5, <1>6, <1>7, <1>8, <1>9, <1>10, <1>11, <1>12, <1>13, <1>14,
     <1>15, <1>16, <1>17, <1>18, <1>19, <1>20, <1>21, <1>22, <1>23, <1>24,
     <1>25, <1>26, <1>27, <1>28
     DEF AccountStep, SchoolStep, EnrolmentStep

(* Only a master is changed by a master, who is another or keeps his role. *)
LEMMA MasterStays ==
    ASSUME TypeOK, MasterRemains, NEW q \in Requests, RequestKnows(q),
           AccountStep(q) \/ SchoolStep(q) \/ EnrolmentStep(q) \/ Die(q)
    PROVE  MasterRemains'
<1> USE DEF Stop
<1> DEFINE u == call[q].user
           a == call[q].actor
           remains == \E m \in Users : user'[m].state = "live" /\ user'[m].active
                                       /\ user'[m].role = "ADM_MASTER"
<1> SUFFICES ASSUME raced' \cap Users = {} PROVE remains
  BY DEF MasterRemains, Serving
<1>1. /\ u \in Users \ raced /\ a \in Users \ raced /\ raced \cap Users = {}
      /\ call[q].active \in BOOLEAN \cup {None}
      /\ user \in [Users -> Accounts]
  BY StepFacts DEF TypeOK
<1>2. PICK m \in Users : user[m].state = "live" /\ user[m].active /\ user[m].role = "ADM_MASTER"
  BY <1>1 DEF MasterRemains, Serving
<1>3. user[a].state = "live" /\ user[a].active /\ user[a].role = who[q].role
  BY <1>1, StepFacts DEF ActorKnown, Serving
<1>4. UNCHANGED user => remains
  BY <1>2
<1>5. UNCHANGED data => UNCHANGED user
  BY DEF data
<1>6. ASSUME \A v \in Users \ {u} : user'[v] = user[v],
             u # a, user[u].role = "ADM_MASTER" => who[q].role = "ADM_MASTER"
      PROVE  remains
  <2>1. CASE m = u
    BY <1>1, <1>2, <1>3, <1>6, <2>1
  <2>2. CASE m # u
    BY <1>2, <1>6, <2>2
  <2> QED BY <2>1, <2>2
<1>7. ASSUME CheckSchools(q) PROVE remains
  BY <1>7, <1>4, <1>5 DEF CheckSchools
<1>8. ASSUME CreateUser(q) PROVE remains
  <2>1. CASE Stop(q)
    BY <2>1, <1>4, <1>5
  <2>2. CASE ~Stop(q)
    <3>1. user[u].state = "absent" /\ \A v \in Users \ {u} : user'[v] = user[v]
      BY <1>8, <2>2, <1>1 DEF CreateUser
    <3> HIDE DEF u
    <3> QED BY <1>2, <3>1
  <2> QED BY <2>1, <2>2
<1>9. ASSUME ReadCurrent(q) PROVE remains
  BY <1>9, <1>4, <1>5 DEF ReadCurrent
<1>10. ASSUME UpdateUser(q) PROVE remains
  <2>1. /\ \A v \in Users \ {u} : user'[v] = user[v]
        /\ user'[u].state = user[u].state
        /\ user'[u].active = (IF call[q].active = None THEN user[u].active ELSE call[q].active)
        /\ user'[u].role = (IF loc[q].sets THEN loc[q].role ELSE user[u].role)
    BY <1>10, <1>1 DEF UpdateUser, Accounts
  <2>2. /\ user[u].role = "ADM_MASTER" => who[q].role = "ADM_MASTER"
        /\ u = a => ~loc[q].sets /\ call[q].active # FALSE
    BY <1>10, <1>1, StepFacts DEF UpdateUser, AccountKnown, CallFits
  <2>3. CASE u # a
    BY <1>6, <2>1, <2>2, <2>3
  <2>4. CASE u = a
    <3>1. user'[u].active /\ user'[u].role = user[u].role
      <4>1. CASE call[q].active = None
        BY <1>3, <2>1, <2>2, <2>4, <4>1
      <4>2. CASE call[q].active = TRUE
        <5>1. None # TRUE
          BY Constants
        <5> QED BY <2>1, <2>2, <2>4, <4>2, <5>1
      <4> QED BY <1>1, <2>2, <2>4, <4>1, <4>2
    <3> HIDE DEF u, a
    <3> QED BY <1>2, <2>1, <3>1
  <2> QED BY <2>3, <2>4
<1>11. ASSUME ReadVictim(q) PROVE remains
  BY <1>11, <1>4, <1>5 DEF ReadVictim
<1>12. ASSUME CountMasters(q) PROVE remains
  BY <1>12, <1>4, <1>5 DEF CountMasters
<1>13. ASSUME DeleteUser(q) PROVE remains
  <2>1. \A v \in Users \ {u} : user'[v] = user[v]
    BY <1>13, <1>1 DEF DeleteUser
  <2>2. u # a /\ (user[u].role = "ADM_MASTER" => who[q].role = "ADM_MASTER")
    BY <1>13, <1>1, StepFacts DEF DeleteUser, AccountKnown
  <2> QED BY <1>6, <2>1, <2>2
<1>14. ASSUME CountMembers(q) PROVE remains
  BY <1>14, <1>4, <1>5 DEF CountMembers
<1>15. ASSUME CloseSchool(q) PROVE remains
  BY <1>15, <1>4 DEF CloseSchool
<1>16. ASSUME FindInstitution(q) PROVE remains
  BY <1>16, <1>4, <1>5 DEF FindInstitution
<1>17. ASSUME ReadStudents(q) PROVE remains
  BY <1>17, <1>4, <1>5 DEF ReadStudents
<1>18. ASSUME LinkCourse(q) PROVE remains
  BY <1>18, <1>4 DEF LinkCourse
<1>19. ASSUME FindLink(q) PROVE remains
  BY <1>19, <1>4, <1>5 DEF FindLink
<1>20. ASSUME UnlinkCourse(q) PROVE remains
  BY <1>20, <1>4 DEF UnlinkCourse
<1>21. ASSUME CheckAccess(q) PROVE remains
  BY <1>21, <1>4, <1>5 DEF CheckAccess
<1>22. ASSUME ReadMemberships(q) PROVE remains
  BY <1>22, <1>4, <1>5 DEF ReadMemberships
<1>23. ASSUME EnsureOpen(q) PROVE remains
  BY <1>23, <1>4 DEF EnsureOpen
<1>24. ASSUME JoinOpen(q) PROVE remains
  BY <1>24, <1>4 DEF JoinOpen
<1>25. ASSUME OfferOpen(q) PROVE remains
  BY <1>25, <1>4 DEF OfferOpen
<1>26. ASSUME ReadOpen(q) PROVE remains
  BY <1>26, <1>4, <1>5 DEF ReadOpen
<1>27. ASSUME FindTarget(q) PROVE remains
  BY <1>27, <1>4, <1>5 DEF FindTarget
<1>28. ASSUME EnrolStudent(q) PROVE remains
  BY <1>28, <1>4 DEF EnrolStudent
<1>29. ASSUME FindEnrolment(q) PROVE remains
  BY <1>29, <1>4, <1>5 DEF FindEnrolment
<1>30. ASSUME RemoveEnrolment(q) PROVE remains
  BY <1>30, <1>4 DEF RemoveEnrolment
<1>31. ASSUME Die(q) PROVE remains
  BY <1>31, <1>4, <1>5 DEF Die
<1> QED
  BY <1>7, <1>8, <1>9, <1>10, <1>11, <1>12, <1>13, <1>14, <1>15, <1>16,
     <1>17, <1>18, <1>19, <1>20, <1>21, <1>22, <1>23, <1>24, <1>25, <1>26,
     <1>27, <1>28, <1>29, <1>30, <1>31
     DEF AccountStep, SchoolStep, EnrolmentStep

(* A class and a student are enrolled where they were found to study. *)
LEMMA EnrolledAsFound ==
    ASSUME TypeOK, NEW q \in Requests, RequestKnows(q),
           AccountStep(q) \/ SchoolStep(q) \/ EnrolmentStep(q) \/ Die(q),
           NEW u \in Users, NEW s \in Schools, u \notin raced', s \notin raced',
           s \in LiveEnrolments(u)', s \notin LiveEnrolments(u)
    PROVE  link'[s] = "on" /\ member[u][s] = "ALUNO"
<1> USE DEF Stop
<1>1. /\ raced \subseteq raced' /\ enrolled \in [Users -> [Schools -> Rows]]
      /\ link \in [Schools -> {"none", "off", "on"}] /\ call[q].user \in Users
  BY StepFacts DEF TypeOK, Rows
<1>2. ~ UNCHANGED enrolled
  BY DEF LiveEnrolments
<1>3. ~ UNCHANGED data
  BY <1>2 DEF data
<1>4. ASSUME NEW class, NEW t, NEW source, Enrol(class, t, source)
      PROVE  u \in class /\ s = t
  <2>1. CASE u \notin class
    BY <1>1, <1>4, <2>1 DEF Enrol, LiveEnrolments
  <2>2. CASE s # t
    <3>1. enrolled'[u][s] = enrolled[u][s]
      BY <1>1, <1>4, <2>2 DEF Enrol
    <3> QED BY <3>1 DEF LiveEnrolments
  <2> QED BY <2>1, <2>2
<1>5. ASSUME CheckSchools(q) PROVE
      link'[s] = "on" /\ member[u][s] = "ALUNO"
  BY <1>5, <1>3 DEF CheckSchools
<1>6. ASSUME CreateUser(q) PROVE
      link'[s] = "on" /\ member[u][s] = "ALUNO"
  BY <1>6, <1>2, <1>3 DEF CreateUser
<1>7. ASSUME ReadCurrent(q) PROVE
      link'[s] = "on" /\ member[u][s] = "ALUNO"
  BY <1>7, <1>3 DEF ReadCurrent
<1>8. ASSUME UpdateUser(q) PROVE
      link'[s] = "on" /\ member[u][s] = "ALUNO"
  BY <1>8, <1>2, <1>3 DEF UpdateUser
<1>9. ASSUME ReadVictim(q) PROVE
      link'[s] = "on" /\ member[u][s] = "ALUNO"
  BY <1>9, <1>3 DEF ReadVictim
<1>10. ASSUME CountMasters(q) PROVE
      link'[s] = "on" /\ member[u][s] = "ALUNO"
  BY <1>10, <1>3 DEF CountMasters
<1>11. ASSUME DeleteUser(q) PROVE
      link'[s] = "on" /\ member[u][s] = "ALUNO"
  BY <1>11, <1>2, <1>3 DEF DeleteUser
<1>12. ASSUME CountMembers(q) PROVE
      link'[s] = "on" /\ member[u][s] = "ALUNO"
  BY <1>12, <1>3 DEF CountMembers
<1>13. ASSUME CloseSchool(q) PROVE
      link'[s] = "on" /\ member[u][s] = "ALUNO"
  BY <1>13, <1>2, <1>3 DEF CloseSchool
<1>14. ASSUME FindInstitution(q) PROVE
      link'[s] = "on" /\ member[u][s] = "ALUNO"
  BY <1>14, <1>3 DEF FindInstitution
<1>15. ASSUME ReadStudents(q) PROVE
      link'[s] = "on" /\ member[u][s] = "ALUNO"
  BY <1>15, <1>3 DEF ReadStudents
<1>16. ASSUME LinkCourse(q) PROVE
      link'[s] = "on" /\ member[u][s] = "ALUNO"
  <2>1. u \in loc[q].class /\ s = call[q].school
    BY <1>16, <1>4 DEF LinkCourse
  <2>2. link'[s] = "on"
    BY <1>16, <1>1, <2>1 DEF LinkCourse
  <2>3. member[u][s] = "ALUNO"
    BY <1>16, <1>1, <2>1, StepFacts DEF LinkCourse, SchoolKnown
  <2> QED BY <2>2, <2>3
<1>17. ASSUME FindLink(q) PROVE
      link'[s] = "on" /\ member[u][s] = "ALUNO"
  BY <1>17, <1>3 DEF FindLink
<1>18. ASSUME UnlinkCourse(q) PROVE
      link'[s] = "on" /\ member[u][s] = "ALUNO"
  BY <1>18, <1>2, <1>3 DEF UnlinkCourse
<1>19. ASSUME CheckAccess(q) PROVE
      link'[s] = "on" /\ member[u][s] = "ALUNO"
  BY <1>19, <1>3 DEF CheckAccess
<1>20. ASSUME ReadMemberships(q) PROVE
      link'[s] = "on" /\ member[u][s] = "ALUNO"
  BY <1>20, <1>3 DEF ReadMemberships
<1>21. ASSUME EnsureOpen(q) PROVE
      link'[s] = "on" /\ member[u][s] = "ALUNO"
  BY <1>21, <1>2, <1>3 DEF EnsureOpen
<1>22. ASSUME JoinOpen(q) PROVE
      link'[s] = "on" /\ member[u][s] = "ALUNO"
  BY <1>22, <1>2, <1>3 DEF JoinOpen
<1>23. ASSUME OfferOpen(q) PROVE
      link'[s] = "on" /\ member[u][s] = "ALUNO"
  BY <1>23, <1>2, <1>3 DEF OfferOpen
<1>24. ASSUME ReadOpen(q) PROVE
      link'[s] = "on" /\ member[u][s] = "ALUNO"
  BY <1>24, <1>3 DEF ReadOpen
<1>25. ASSUME FindTarget(q) PROVE
      link'[s] = "on" /\ member[u][s] = "ALUNO"
  BY <1>25, <1>3 DEF FindTarget
<1>26. ASSUME EnrolStudent(q) PROVE
      link'[s] = "on" /\ member[u][s] = "ALUNO"
  <2>1. s \in loc[q].ids /\ u = call[q].user
    BY <1>26, <1>4 DEF EnrolStudent
  <2>2. s \in Linked /\ member[u][s] = "ALUNO" /\ UNCHANGED link
    BY <1>26, <1>1, <2>1, StepFacts DEF EnrolStudent, StudentKnown
  <2> QED BY <2>2 DEF Linked
<1>27. ASSUME FindEnrolment(q) PROVE
      link'[s] = "on" /\ member[u][s] = "ALUNO"
  BY <1>27, <1>3 DEF FindEnrolment
<1>28. ASSUME RemoveEnrolment(q) PROVE
      link'[s] = "on" /\ member[u][s] = "ALUNO"
  <2>1. PICK t \in loc[q].ids : enrolled' = [enrolled EXCEPT ![call[q].user][t].live = FALSE]
    BY <1>28 DEF RemoveEnrolment
  <2>2. t \in Schools /\ enrolled[call[q].user][t] \in Row
    BY <1>28, <1>1, <2>1 DEF RemoveEnrolment, RequestKnows, RemovalKnown, Rows
  <2>3. ~(u = call[q].user /\ s = t)
    BY <1>1, <2>1, <2>2 DEF LiveEnrolments, Row
  <2>4. enrolled'[u][s] = enrolled[u][s]
    BY <1>1, <2>1, <2>2, <2>3
  <2> QED BY <2>4 DEF LiveEnrolments
<1>29. ASSUME Die(q) PROVE
      link'[s] = "on" /\ member[u][s] = "ALUNO"
  BY <1>29, <1>3 DEF Die
<1> QED
  BY <1>5, <1>6, <1>7, <1>8, <1>9, <1>10, <1>11, <1>12, <1>13, <1>14,
     <1>15, <1>16, <1>17, <1>18, <1>19, <1>20, <1>21, <1>22, <1>23, <1>24,
     <1>25, <1>26, <1>27, <1>28, <1>29
     DEF AccountStep, SchoolStep, EnrolmentStep

-----------------------------------------------------------------------------
LEMMA Inductive == IInv /\ [Next]_vars => IInv'
<1> SUFFICES ASSUME IInv, [Next]_vars PROVE IInv'
  OBVIOUS
<1>1. /\ TypeOK /\ RacedIsKnown /\ MembersBelong /\ RolesAgree /\ MasterRemains
      /\ \A r \in Requests : RequestKnows(r)
  BY DEF IInv
<1>2. TypeOK' /\ RacedIsKnown' /\ \A r \in Requests : RequestKnows(r)'
  BY <1>1, TypesKept, RacedKept, RequestsKnow
<1>3. MembersBelong' /\ RolesAgree' /\ MasterRemains'
  <2>1. ASSUME NEW q \in Requests,
               AccountStep(q) \/ SchoolStep(q) \/ EnrolmentStep(q) \/ Die(q)
        PROVE  MembersBelong' /\ RolesAgree' /\ MasterRemains'
    BY <1>1, <2>1, MembersStillBelong, RolesStillAgree, MasterStays
  <2>2. ASSUME NEW q \in Requests, NEW i \in Inputs, Start(q, i)
        PROVE  MembersBelong' /\ RolesAgree' /\ MasterRemains'
    <3>1. raced \subseteq raced' /\ UNCHANGED <<user, school, member, link, split>>
      BY <1>1, <2>2, StartFacts DEF Start, data, Elsewhere
    <3>2. MembersBelong'
      BY <1>1, <3>1 DEF MembersBelong, Linked
    <3>3. RolesAgree'
      BY <1>1, <3>1 DEF RolesAgree
    <3>4. MasterRemains'
      BY <1>1, <3>1 DEF MasterRemains, Serving
    <3> QED BY <3>2, <3>3, <3>4
  <2>3. ASSUME NEW i \in Inputs, Register(i)
        PROVE  MembersBelong' /\ RolesAgree' /\ MasterRemains'
    <3> DEFINE n == i.user
    <3>1. /\ raced \subseteq raced' /\ UNCHANGED <<school, member, link, split>>
          /\ n \in Users /\ user[n].state = "absent"
          /\ user'[n].state = "live" /\ \A u \in Users \ {n} : user'[u] = user[u]
      <4>1. /\ raced \subseteq raced' /\ UNCHANGED <<school, member, link, split>>
            /\ n \in Users /\ user[n].state = "absent"
            /\ user' = [user EXCEPT ![n] = [state |-> "live", active |-> TRUE, role |-> "ALUNO"]]
        BY <1>1, <2>3, RegisterFacts
      <4>2. user \in [Users -> Accounts]
        BY <1>1 DEF TypeOK
      <4> QED BY <4>1, <4>2
    <3> HIDE DEF n
    <3>2. MembersBelong'
      BY <1>1, <3>1 DEF MembersBelong, Linked
    <3>3. RolesAgree'
      <4>1. n \notin raced => \A s \in Schools : member[n][s] = None
        BY <1>1, <3>1 DEF MembersBelong
      <4> QED BY <1>1, <3>1, <4>1 DEF RolesAgree
    <3>4. MasterRemains'
      BY <1>1, <3>1 DEF MasterRemains, Serving
    <3> QED BY <3>2, <3>3, <3>4
  <2>4. CASE UNCHANGED vars
    BY <1>1, <2>4 DEF vars, MembersBelong, RolesAgree, MasterRemains, Linked, Serving
  <2> QED BY <2>1, <2>2, <2>3, <2>4 DEF Next
<1> QED
  BY <1>2, <1>3 DEF IInv

THEOREM Invariant == Spec => []IInv
<1>1. Init => IInv
  BY Initially
<1>2. IInv /\ [Next]_vars => IInv'
  BY Inductive
<1> QED
  BY <1>1, <1>2, PTL DEF Spec

(* Rows, locals and ghosts keep their types in every behaviour, and a request  *)
(* in flight has a call.                                                       *)
THEOREM TypeCorrect == Spec => []TypeOK
<1>1. IInv => TypeOK
  BY DEF IInv
<1> QED
  BY <1>1, Invariant, PTL

(* A membership and a link that no two requests raced for are of an account    *)
(* and of a school that exist: softDelete's count of members is enough.        *)
THEOREM NobodyIsStranded == Spec => []MembersBelong
<1>1. IInv => MembersBelong
  BY DEF IInv
<1> QED
  BY <1>1, Invariant, PTL

(* The role a school sees is the role of the account (create and update of     *)
(* users.service.ts), but for races and for changes in some schools only.      *)
THEOREM SchoolsSeeTheRole == Spec => []RolesAgree
<1>1. IInv => RolesAgree
  BY DEF IInv
<1> QED
  BY <1>1, Invariant, PTL

(* Until two requests race for an account there is an active master: who       *)
(* deletes, blocks or demotes a master is a master, and not that one.          *)
THEOREM AMasterIsLeft == Spec => []MasterRemains
<1>1. IInv => MasterRemains
  BY DEF IInv
<1> QED
  BY <1>1, Invariant, PTL

(* A new enrolment is of a student of a school that has the course, although   *)
(* enrollStudent and linkCoursesToInstitution read them by earlier statements. *)
THEOREM EnrolledWhereTheyStudy == Spec => EnrolledOnGround
<1>1. ASSUME IInv, [Next]_vars
      PROVE  \A u \in Users, s \in Schools :
                (u \notin raced' /\ s \notin raced' /\ s \in LiveEnrolments(u)' /\ s \notin LiveEnrolments(u))
                   => link'[s] = "on" /\ member[u][s] = "ALUNO"
  <2>1. TypeOK /\ \A r \in Requests : RequestKnows(r)
    BY <1>1 DEF IInv
  <2>2. UNCHANGED enrolled => \A u \in Users : LiveEnrolments(u)' = LiveEnrolments(u)
    BY DEF LiveEnrolments
  <2>3. ASSUME NEW q \in Requests,
               AccountStep(q) \/ SchoolStep(q) \/ EnrolmentStep(q) \/ Die(q)
        PROVE  \A u \in Users, s \in Schools :
                (u \notin raced' /\ s \notin raced' /\ s \in LiveEnrolments(u)' /\ s \notin LiveEnrolments(u))
                   => link'[s] = "on" /\ member[u][s] = "ALUNO"
    BY <2>1, <2>3, EnrolledAsFound
  <2>4. ASSUME NEW q \in Requests, NEW i \in Inputs, Start(q, i) PROVE UNCHANGED enrolled
    BY <2>4 DEF Start, data
  <2>5. ASSUME NEW i \in Inputs, Register(i) PROVE UNCHANGED enrolled
    BY <2>5 DEF Register
  <2>6. UNCHANGED vars => UNCHANGED enrolled
    BY DEF vars
  <2> QED BY <1>1, <2>2, <2>3, <2>4, <2>5, <2>6 DEF Next
<1>2. IInv /\ [Next]_vars =>
         [\A u \in Users, s \in Schools :
             (u \notin raced' /\ s \notin raced' /\ s \in LiveEnrolments(u)' /\ s \notin LiveEnrolments(u))
                => link'[s] = "on" /\ member[u][s] = "ALUNO"]_vars
  BY <1>1
<1> QED
  BY <1>2, Invariant, PTL DEF Spec, EnrolledOnGround

=============================================================================
