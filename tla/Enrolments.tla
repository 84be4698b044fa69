----------------------------- MODULE Enrolments -----------------------------
(***************************************************************************)
(* Who belongs where and who may study: accounts, schools, memberships,    *)
(* the link of a course to a school, and the enrolments of one course      *)
(* (users.service.ts, institutions.service.ts, courses.service.ts).        *)
(*                                                                         *)
(* A request authenticates, then performs one database statement per       *)
(* step; a transaction is one step.  Every check reads a row in one step   *)
(* and trusts it in a later one: nothing is locked.  The ghost variable    *)
(* held records what a request has read or means to write, and raced the   *)
(* users and schools that two overlapping requests worked on at once.      *)
(* The properties say that the services are right about everything that    *)
(* was never raced, however long the sequence of requests, and so that     *)
(* the races are all that can go wrong.                                    *)
(***************************************************************************)
EXTENDS Naturals, FiniteSets

CONSTANTS
    Users, Schools,
    Open,           \* the school of the free catalogue, slug 'ava-aberto'
    None,
    Requests,
    Inputs,         \* the calls that clients may make
    InitialUser,    \* the accounts at the start
    MaxCalls        \* bound: calls made in a behaviour

Roles == {"ADM_MASTER", "ADM_INSTITUICAO", "PROFESSOR", "ALUNO"}

Ops == {"create", "update", "delete", "close", "link", "unlink",
        "enrol", "remove", "register"}

Calls == [op: Ops, actor: Users, user: Users, school: Schools \cup {None},
          role: Roles \cup {None}, active: BOOLEAN \cup {None},
          ids: (SUBSET Schools) \cup {{None}}, source: {"ASSIGNED", "SELF"}]

Accounts == [state: {"absent", "live", "deleted"}, active: BOOLEAN, role: Roles]

Row == [live: BOOLEAN, source: {"ASSIGNED", "SELF"}]

ASSUME Constants ==
    /\ Open \in Schools
    /\ None \notin Roles /\ None \notin Schools /\ None \notin BOOLEAN
    /\ None \notin Row
    /\ Users \cap Schools = {}
    /\ Inputs \subseteq Calls
    \* What a route or its DTO requires; a student enrols himself (enrollSelf).
    /\ \A i \in Inputs :
          /\ i.op = "create" => i.role # None /\ None \notin i.ids
          /\ i.op \in {"close", "link", "unlink"} => i.school # None
          /\ i.op = "enrol" /\ i.source = "SELF" => i.user = i.actor
    /\ InitialUser \in [Users -> Accounts]
    \* the seed's administrator
    /\ \E u \in Users : /\ InitialUser[u].state = "live" /\ InitialUser[u].active
                        /\ InitialUser[u].role = "ADM_MASTER"
    /\ MaxCalls \in Nat

VARIABLES
    user,       \* rows of users
    school,     \* institutions that exist and are not deleted
    member,     \* role of every live row of institution_members, None without one
    link,       \* row of institution_courses: none, inactive or active
    enrolled,   \* rows of enrollments: None, or whether live and of what source
    pc,         \* next statement of a request
    call,       \* what a request was asked to do
    who,        \* role and schools of its actor, read when it authenticated
    loc,        \* its local variables
    calls,      \* calls made so far
    held,       \* ghost: users and schools a request has read or will write
    raced,      \* ghost: users and schools that overlapping requests touched
    split       \* ghost: users whose role was changed in some schools only

data == <<user, school, member, link, enrolled>>
vars == <<user, school, member, link, enrolled, pc, call, who, loc, calls,
          held, raced, split>>

-----------------------------------------------------------------------------
Serving(u) == user[u].state = "live" /\ user[u].active
MembershipsOf(u) == {s \in Schools : member[u][s] # None}
Linked == {s \in Schools : link[s] = "on"}
MembersOf(s) == {u \in Users : member[u][s] # None}

\* The where clause of linkCoursesToInstitution: active students of s.
StudentsOf(s) == {u \in Users : member[u][s] = "ALUNO" /\ Serving(u)}

\* assertCanManageRole and assertCanReach
MayManageRole(r, role) ==
    who[r].role = "ADM_MASTER" \/ role \in {"PROFESSOR", "ALUNO"}
MayReach(r, u) ==
    who[r].role = "ADM_MASTER" \/ MembershipsOf(u) \cap who[r].scope # {}
InScope(r, s) == who[r].role = "ADM_MASTER" \/ s \in who[r].scope

NoLocals == [ids |-> {None}, class |-> {}, role |-> "ALUNO", sets |-> FALSE]
Nobody == [role |-> "ALUNO", scope |-> {}]

InFlight(r) == pc[r] # "idle"

\* What a request works on or relies on: its actor and his schools included.
Busy(r) == held[r] \cup (IF InFlight(r) THEN {call[r].actor} \cup who[r].scope ELSE {})

Hold(r, things) ==
    /\ held' = [held EXCEPT ![r] = @ \cup things]
    /\ raced' = raced \cup (things \cap UNION {Busy(q) : q \in Requests \ {r}})

Go(r, step) == pc' = [pc EXCEPT ![r] = step] /\ UNCHANGED <<call, who, calls, split>>

\* The answer is sent, an exception is thrown, or the process dies.
End(r) ==
    /\ pc' = [pc EXCEPT ![r] = "idle"]
    /\ call' = [call EXCEPT ![r] = None]
    /\ who' = [who EXCEPT ![r] = Nobody]
    /\ loc' = [loc EXCEPT ![r] = NoLocals]
    /\ held' = [held EXCEPT ![r] = {}]
    /\ UNCHANGED <<calls, raced>>

Stop(r) == End(r) /\ UNCHANGED <<data, split>>

-----------------------------------------------------------------------------
(***************************************************************************)
(* Authentication: JwtStrategy loads the actor, an active account that is  *)
(* not deleted, with its role and memberships; RolesGuard admits the role  *)
(* and assertInstitutionScope the school.                                  *)
(***************************************************************************)
Admitted(i) ==
    CASE i.op = "close" -> {"ADM_MASTER"}
      [] i.op = "enrol" /\ i.source = "SELF" -> {"ALUNO"}
      [] i.op = "enrol" /\ i.source = "ASSIGNED" -> {"ADM_MASTER", "ADM_INSTITUICAO", "PROFESSOR"}
      [] OTHER -> {"ADM_MASTER", "ADM_INSTITUICAO"}

Authentic(i) ==
    /\ Serving(i.actor)
    /\ user[i.actor].role \in Admitted(i)
    /\ i.op \in {"link", "unlink"} =>
          user[i.actor].role = "ADM_MASTER" \/ i.school \in MembershipsOf(i.actor)

FirstStep ==
    [create |-> "schools", update |-> "current", delete |-> "victim", close |-> "empty",
     link |-> "institution", unlink |-> "linkrow", enrol |-> "access", remove |-> "access"]

Start(r, i) ==
    LET own == IF i.source = "SELF" THEN {i.user} ELSE {}
        relied == {i.actor} \cup MembershipsOf(i.actor)
        others == Requests \ {r}
    IN  /\ pc[r] = "idle" /\ calls < MaxCalls
        /\ i.op \in DOMAIN FirstStep /\ Authentic(i)
        /\ calls' = calls + 1
        /\ call' = [call EXCEPT ![r] = i]
        /\ who' = [who EXCEPT ![r] = [role |-> user[i.actor].role,
                                      scope |-> MembershipsOf(i.actor)]]
        /\ pc' = [pc EXCEPT ![r] = FirstStep[i.op]]
        /\ held' = [held EXCEPT ![r] = own]
        /\ raced' = raced \cup (own \cap UNION {Busy(q) : q \in others})
                          \cup (relied \cap UNION {held[q] : q \in others})
        /\ UNCHANGED <<data, loc, split>>

\* auth.register: an account without a school, made by one statement.
Register(i) ==
    /\ i.op = "register" /\ calls < MaxCalls /\ user[i.user].state = "absent"
    /\ calls' = calls + 1
    /\ user' = [user EXCEPT ![i.user] = [state |-> "live", active |-> TRUE, role |-> "ALUNO"]]
    /\ raced' = raced \cup ({i.user} \cap UNION {held[q] : q \in Requests})
    /\ UNCHANGED <<school, member, link, enrolled, pc, call, who, loc, held, split>>

\* The process dies between two statements, or the database refuses one.
Die(r) == InFlight(r) /\ Stop(r)

-----------------------------------------------------------------------------
(***************************************************************************)
(* Accounts (users.service.ts).                                            *)
(***************************************************************************)
\* normalizeInstitutionIds: the schools an account of this role may be given,
\* none if the request is refused.  The default of an institution's
\* administrator is the first of his own schools, taken without a look at it.
NormalIds(r, role, ids) ==
    IF role = "ADM_MASTER" THEN {{}}
    ELSE IF who[r].role = "ADM_INSTITUICAO" /\ ids = {}
         THEN IF who[r].scope = {} THEN {{}} ELSE {{s} : s \in who[r].scope}
    ELSE IF ids # {} /\ (\A s \in ids : InScope(r, s)) /\ ids \subseteq school
         THEN {ids} ELSE {}

CheckSchools(r) ==
    /\ pc[r] = "schools"
    /\ LET role == IF call[r].op = "create" THEN call[r].role ELSE loc[r].role
           asked == IF call[r].op = "create" THEN call[r].ids ELSE loc[r].ids
           normal == IF MayManageRole(r, role) THEN NormalIds(r, role, asked) ELSE {}
       IN  \/ \E ids \in normal :
                 /\ loc' = [loc EXCEPT ![r] = [@ EXCEPT !.ids = ids, !.role = role]]
                 /\ Hold(r, {call[r].user} \cup ids)
                 /\ Go(r, call[r].op) /\ UNCHANGED data
           \/ normal = {} /\ Stop(r)

\* create: the account and its memberships, in one transaction; a name that is
\* taken is refused by the unique keys.
CreateUser(r) ==
    LET u == call[r].user IN
    /\ pc[r] = "create"
    /\ \/ /\ user[u].state = "absent"
          /\ user' = [user EXCEPT ![u] = [state |-> "live", active |-> TRUE, role |-> loc[r].role]]
          /\ member' = [member EXCEPT ![u] =
                [s \in Schools |-> IF s \in loc[r].ids THEN loc[r].role ELSE None]]
          /\ End(r) /\ UNCHANGED <<school, link, enrolled, split>>
       \/ user[u].state # "absent" /\ Stop(r)

\* Mutant: the status is not looked at.
NotOneselfsRole(r) ==
    call[r].user = call[r].actor => call[r].role \in {None, user[call[r].user].role}

\* update reads the account; nobody changes his own role or blocks himself.
NotOnOneself(r) ==
    call[r].user = call[r].actor =>
        /\ call[r].role \in {None, user[call[r].user].role}
        /\ call[r].active # FALSE

ReadCurrent(r) ==
    LET u == call[r].user
        next == IF call[r].role = None THEN user[u].role ELSE call[r].role
        ids == IF call[r].ids = {None} /\ call[r].role # None
               THEN MembershipsOf(u) ELSE call[r].ids
    IN  /\ pc[r] = "current"
        /\ \/ /\ user[u].state = "live" /\ MayReach(r, u) /\ NotOnOneself(r)
              /\ MayManageRole(r, user[u].role) /\ MayManageRole(r, next)
              /\ loc' = [loc EXCEPT ![r] = [@ EXCEPT !.ids = ids, !.role = next,
                                        !.sets = next # user[u].role]]
              /\ Hold(r, {u})
              /\ Go(r, IF ids = {None} THEN "update" ELSE "schools") /\ UNCHANGED data
           \/ /\ ~ (/\ user[u].state = "live" /\ MayReach(r, u) /\ NotOnOneself(r)
                    /\ MayManageRole(r, user[u].role) /\ MayManageRole(r, next))
              /\ Stop(r)

\* Mutant: the upsert revives a membership with the role it had.
SyncedStale(r, s) ==
    IF s \notin loc[r].ids THEN None
    ELSE IF member[call[r].user][s] # None THEN member[call[r].user][s] ELSE loc[r].role

\* syncMemberships: schools outside the scope of an institution's
\* administrator keep their membership, with the role it had.
Synced(r, s) ==
    IF s \in loc[r].ids THEN loc[r].role
    ELSE IF InScope(r, s) THEN None ELSE member[call[r].user][s]

\* Mutant: a role that was not sent is written.
UpdateUserUnset(r) ==
    /\ pc[r] = "update"
    /\ user' = [user EXCEPT ![call[r].user].role = call[r].role]
    /\ End(r) /\ UNCHANGED <<school, member, link, enrolled, split>>

UpdateUser(r) ==
    LET u == call[r].user IN
    /\ pc[r] = "update"
    /\ user' = [user EXCEPT
          ![u] = [@ EXCEPT
             !.active = IF call[r].active = None THEN user[u].active ELSE call[r].active,
             !.role = IF loc[r].sets THEN loc[r].role ELSE user[u].role]]
    /\ member' = IF loc[r].ids = {None} THEN member
                 ELSE [member EXCEPT ![u] = [s \in Schools |-> Synced(r, s)]]
    /\ split' = IF \E s \in Schools : member'[u][s] \notin {None, user'[u].role}
                   /\ ~InScope(r, s)
                THEN split \cup {u} ELSE split
    /\ End(r) /\ UNCHANGED <<school, link, enrolled>>

\* softDelete of an account: the last active master is kept.
OtherMasters(u) ==
    {m \in Users \ {u} : Serving(m) /\ user[m].role = "ADM_MASTER"}

ReadVictim(r) ==
    LET u == call[r].user IN
    /\ pc[r] = "victim"
    /\ \/ /\ u # call[r].actor /\ user[u].state = "live"
          /\ MayReach(r, u) /\ MayManageRole(r, user[u].role)
          /\ Hold(r, {u})
          /\ Go(r, IF user[u].role = "ADM_MASTER" THEN "masters" ELSE "delete")
          /\ UNCHANGED <<data, loc>>
       \/ /\ ~ (/\ u # call[r].actor /\ user[u].state = "live"
                /\ MayReach(r, u) /\ MayManageRole(r, user[u].role))
          /\ Stop(r)

CountMasters(r) ==
    /\ pc[r] = "masters"
    /\ \/ /\ OtherMasters(call[r].user) # {}
          /\ Go(r, "delete") /\ UNCHANGED <<data, loc, held, raced>>
       \/ OtherMasters(call[r].user) = {} /\ Stop(r)

\* Mutant: the memberships are forgotten.
DeleteUserOnly(r) ==
    /\ pc[r] = "delete"
    /\ user' = [user EXCEPT ![call[r].user].state = "deleted"]
    /\ End(r) /\ UNCHANGED <<school, member, link, enrolled, split>>

DeleteUser(r) ==
    /\ pc[r] = "delete"
    /\ user' = [user EXCEPT ![call[r].user].state = "deleted"]
    /\ member' = [member EXCEPT ![call[r].user] = [s \in Schools |-> None]]
    /\ End(r) /\ UNCHANGED <<school, link, enrolled, split>>

-----------------------------------------------------------------------------
(***************************************************************************)
(* Schools (institutions.service.ts) and the course they receive           *)
(* (courses.service.ts).                                                   *)
(***************************************************************************)
\* softDelete of an institution: only one without members.
CountMembers(r) ==
    LET s == call[r].school IN
    /\ pc[r] = "empty"
    /\ \/ /\ s \in school /\ MembersOf(s) = {}
          /\ Hold(r, {s}) /\ Go(r, "close") /\ UNCHANGED <<data, loc>>
       \/ ~(s \in school /\ MembersOf(s) = {}) /\ Stop(r)

CloseSchool(r) ==
    /\ pc[r] = "close"
    /\ school' = school \ {call[r].school}
    /\ link' = [link EXCEPT ![call[r].school] = "none"]
    /\ End(r) /\ UNCHANGED <<user, member, enrolled, split>>

FindInstitution(r) ==
    LET s == call[r].school IN
    /\ pc[r] = "institution"
    /\ \/ s \in school /\ Hold(r, {s}) /\ Go(r, "students") /\ UNCHANGED <<data, loc>>
       \/ s \notin school /\ Stop(r)

ReadStudents(r) ==
    LET class == StudentsOf(call[r].school) IN
    /\ pc[r] = "students"
    /\ loc' = [loc EXCEPT ![r].class = class]
    /\ Hold(r, class) /\ Go(r, "link") /\ UNCHANGED data

\* The upsert of an enrolment: what was assigned stays assigned.
Upserted(row, source) ==
    [live |-> TRUE,
     source |-> IF row = None \/ source = "ASSIGNED" THEN source ELSE row.source]

Enrol(class, s, source) ==
    enrolled' = [u \in Users |-> IF u \in class
        THEN [enrolled[u] EXCEPT ![s] = Upserted(@, source)] ELSE enrolled[u]]

\* The link and the enrolment of the whole class, in one transaction.
LinkCourse(r) ==
    /\ pc[r] = "link"
    /\ link' = [link EXCEPT ![call[r].school] = "on"]
    /\ Enrol(loc[r].class, call[r].school, "ASSIGNED")
    /\ End(r) /\ UNCHANGED <<user, school, member, split>>

FindLink(r) ==
    /\ pc[r] = "linkrow"
    /\ \/ /\ link[call[r].school] # "none"
          /\ Hold(r, {call[r].school}) /\ Go(r, "unlink") /\ UNCHANGED <<data, loc>>
       \/ link[call[r].school] = "none" /\ Stop(r)

UnlinkCourse(r) ==
    /\ pc[r] = "unlink"
    /\ link' = [link EXCEPT ![call[r].school] = "off"]
    /\ End(r) /\ UNCHANGED <<user, school, member, enrolled, split>>

-----------------------------------------------------------------------------
(***************************************************************************)
(* Enrolments (courses.service.ts).                                        *)
(***************************************************************************)
\* assertCanManage: an institution's administrator needs a linked course, a
\* teacher to be assigned to it, which is not told here.
CheckAccess(r) ==
    LET unlinked == who[r].role = "ADM_INSTITUICAO" /\ who[r].scope \cap Linked = {} IN
    /\ pc[r] = "access"
    /\ \/ /\ ~unlinked
          /\ Go(r, IF call[r].op = "enrol" THEN "members" ELSE "enrolled")
          /\ UNCHANGED <<data, loc, held, raced>>
       \/ (unlinked \/ who[r].role = "PROFESSOR") /\ Stop(r)

\* enrollStudent: the schools where the person is an active student.
ReadMemberships(r) ==
    LET u == call[r].user
        found == {s \in Schools : u \in StudentsOf(s) /\ call[r].school \in {None, s}}
        allowed == {s \in found : who[r].role = "ADM_INSTITUICAO" => InScope(r, s)}
        free == found = {} /\ call[r].source = "SELF"
    IN  /\ pc[r] = "members"
        /\ \/ /\ allowed # {} \/ free
              /\ loc' = [loc EXCEPT ![r].ids = allowed]
              /\ Hold(r, {u} \cup allowed)
              /\ Go(r, IF free THEN "open" ELSE "links") /\ UNCHANGED data
           \/ allowed = {} /\ ~free /\ Stop(r)

\* A student without a school joins the free catalogue, in four statements.
EnsureOpen(r) ==
    /\ pc[r] = "open"
    /\ school' = school \cup {Open}
    /\ Hold(r, {Open}) /\ Go(r, "join")
    /\ UNCHANGED <<user, member, link, enrolled, loc>>

JoinOpen(r) ==
    /\ pc[r] = "join"
    /\ member' = [member EXCEPT ![call[r].user][Open] = "ALUNO"]
    /\ Go(r, "offer")
    /\ UNCHANGED <<user, school, link, enrolled, loc, held, raced>>

OfferOpen(r) ==
    /\ pc[r] = "offer"
    /\ link' = [link EXCEPT ![Open] = "on"]
    /\ Go(r, "again")
    /\ UNCHANGED <<user, school, member, enrolled, loc, held, raced>>

ReadOpen(r) ==
    /\ pc[r] = "again"
    /\ \/ /\ member[call[r].user][Open] # None
          /\ loc' = [loc EXCEPT ![r].ids = {Open}]
          /\ Go(r, "links") /\ UNCHANGED <<data, held, raced>>
       \/ member[call[r].user][Open] = None /\ Stop(r)

\* Mutant: an inactive link counts.
FindTargetInactive(r) ==
    /\ pc[r] = "links"
    /\ \E s \in {s \in loc[r].ids : link[s] # "none"} :
          /\ loc' = [loc EXCEPT ![r].ids = {s}]
          /\ Go(r, "enrol") /\ UNCHANGED <<data, held, raced>>

\* The first of the student's schools that has the course; their order is
\* the database's.
FindTarget(r) ==
    /\ pc[r] = "links"
    /\ \/ \E s \in loc[r].ids \cap Linked :
             /\ loc' = [loc EXCEPT ![r].ids = {s}]
             /\ Go(r, "enrol") /\ UNCHANGED <<data, held, raced>>
       \/ loc[r].ids \cap Linked = {} /\ Stop(r)

EnrolStudent(r) ==
    /\ pc[r] = "enrol"
    /\ \E s \in loc[r].ids : Enrol({call[r].user}, s, call[r].source)
    /\ End(r) /\ UNCHANGED <<user, school, member, link, split>>

LiveEnrolments(u) ==
    {s \in Schools : enrolled[u][s] # None /\ enrolled[u][s].live}

\* removeEnrollment takes any one of the student's enrolments in the course.
FindEnrolment(r) ==
    LET live == LiveEnrolments(call[r].user) IN
    /\ pc[r] = "enrolled"
    /\ \/ \E s \in {s \in live : InScope(r, s)} :
             /\ loc' = [loc EXCEPT ![r].ids = {s}]
             /\ Hold(r, {call[r].user}) /\ Go(r, "remove") /\ UNCHANGED data
       \/ (live = {} \/ \E s \in live : ~InScope(r, s)) /\ Stop(r)

RemoveEnrolment(r) ==
    /\ pc[r] = "remove"
    /\ \E s \in loc[r].ids :
          enrolled' = [enrolled EXCEPT ![call[r].user][s].live = FALSE]
    /\ End(r) /\ UNCHANGED <<user, school, member, link, split>>

-----------------------------------------------------------------------------
Init ==
    /\ user = InitialUser
    /\ school = Schools \ {Open}
    /\ member = [u \in Users |-> [s \in Schools |-> None]]
    /\ link = [s \in Schools |-> "none"]
    /\ enrolled = [u \in Users |-> [s \in Schools |-> None]]
    /\ pc = [r \in Requests |-> "idle"]
    /\ call = [r \in Requests |-> None]
    /\ who = [r \in Requests |-> Nobody]
    /\ loc = [r \in Requests |-> NoLocals]
    /\ calls = 0
    /\ held = [r \in Requests |-> {}]
    /\ raced = {} /\ split = {}

AccountStep(r) ==
    \/ CheckSchools(r) \/ CreateUser(r) \/ ReadCurrent(r) \/ UpdateUser(r)
    \/ ReadVictim(r) \/ CountMasters(r) \/ DeleteUser(r)

SchoolStep(r) ==
    \/ CountMembers(r) \/ CloseSchool(r) \/ FindInstitution(r) \/ ReadStudents(r)
    \/ LinkCourse(r) \/ FindLink(r) \/ UnlinkCourse(r)

EnrolmentStep(r) ==
    \/ CheckAccess(r) \/ ReadMemberships(r) \/ EnsureOpen(r) \/ JoinOpen(r)
    \/ OfferOpen(r) \/ ReadOpen(r) \/ FindTarget(r) \/ EnrolStudent(r)
    \/ FindEnrolment(r) \/ RemoveEnrolment(r)

Next ==
    \/ \E r \in Requests :
          \/ \E i \in Inputs : Start(r, i)
          \/ AccountStep(r) \/ SchoolStep(r) \/ EnrolmentStep(r) \/ Die(r)
    \/ \E i \in Inputs : Register(i)

Spec == Init /\ [][Next]_vars
-----------------------------------------------------------------------------
(***************************************************************************)
(* What the services promise about everything that was never raced.        *)
(***************************************************************************)
Steps == {"idle", "schools", "create", "current", "update", "victim", "masters",
          "delete", "empty", "close", "institution", "students", "link",
          "linkrow", "unlink", "access", "members", "open", "join", "offer",
          "again", "links", "enrol", "enrolled", "remove"}

\* Every variable keeps its type, and a request in flight has a call.
TypeOK ==
    /\ user \in [Users -> Accounts]
    /\ school \subseteq Schools
    /\ member \in [Users -> [Schools -> Roles \cup {None}]]
    /\ link \in [Schools -> {"none", "off", "on"}]
    /\ enrolled \in [Users -> [Schools -> Row \cup {None}]]
    /\ pc \in [Requests -> Steps]
    /\ call \in [Requests -> Inputs \cup {None}]
    /\ who \in [Requests -> [role: Roles, scope: SUBSET Schools]]
    /\ loc \in [Requests -> [ids: (SUBSET Schools) \cup {{None}}, class: SUBSET Users,
                             role: Roles, sets: BOOLEAN]]
    /\ calls \in 0..MaxCalls
    /\ held \in [Requests -> SUBSET (Users \cup Schools)]
    /\ raced \subseteq Users \cup Schools
    /\ split \subseteq Users
    /\ \A r \in Requests : InFlight(r) => call[r] \in Inputs

\* A live membership and a live link are of a school and an account that
\* exist: "Remova ou transfira os usuários vinculados antes de excluir a
\* instituição" (institutions.service.ts:172) is kept by every sequence of
\* requests, the free catalogue that a self-enrolment brings back included.
MembersBelong ==
    /\ \A u \in Users, s \in Schools : member[u][s] # None =>
          /\ u \notin raced => user[u].state = "live"
          /\ s \notin raced => s \in school
    /\ \A s \in Linked \ raced : s \in school

\* The role a school sees (the class that linkCoursesToInstitution enrols, the
\* schools of enrollStudent) is the role the account has, unless an
\* institution's administrator changed the role of somebody who belongs to
\* other schools as well: syncMemberships leaves those with the old role.
RolesAgree ==
    \A u \in Users \ (raced \cup split), s \in Schools :
        member[u][s] \in {None, user[u].role}

\* "É necessário manter ao menos um administrador master ativo"
\* (users.service.ts:511): deleting, blocking and changing roles leave one.
MasterRemains ==
    (raced \cap Users = {}) =>
        \E m \in Users : Serving(m) /\ user[m].role = "ADM_MASTER"

\* Nobody is enrolled, alone or with a class, but as a student of a school
\* that has the course at that moment, although memberships and links are
\* read by earlier statements.
EnrolledOnGround ==
    [][\A u \in Users, s \in Schools :
          (u \notin raced' /\ s \notin raced' /\ s \in LiveEnrolments(u)' /\ s \notin LiveEnrolments(u))
             => link'[s] = "on" /\ member[u][s] = "ALUNO"]_vars
=============================================================================
