-------------------------- MODULE CompletionLedger --------------------------
(***************************************************************************)
(* What the progress and certificate services promise, without requests:   *)
(* a ledger that only grows.  A student's lessons are watched, enrolments  *)
(* are completed and one certificate is given, in single steps, and the    *)
(* last two only to a student who has earned them at that very step.       *)
(***************************************************************************)
CONSTANTS Students, Institutions, Lessons, Videos

VARIABLES
    done,        \* lessons finished, per student
    completed,   \* enrolments marked as completed
    certified,   \* students who hold a certificate
    touched      \* whether the course's content was ever edited

ledger == <<done, completed, certified, touched>>

Init ==
    /\ done = [s \in Students |-> {}]
    /\ completed = {}
    /\ certified = {}
    /\ touched = FALSE

\* At least one lesson, and every lesson of a course that was never edited.
Earned(s) == done[s] # {} /\ (~touched => Lessons \subseteq done[s])

Watch(s) ==
    /\ \E L \in SUBSET Videos : done' = [done EXCEPT ![s] = @ \cup L]
    /\ UNCHANGED <<completed, certified, touched>>

Complete(s) ==
    /\ Earned(s)
    /\ \E I \in SUBSET Institutions : completed' = completed \cup ({s} \X I)
    /\ UNCHANGED <<done, certified, touched>>

Certify(s) ==
    /\ Earned(s) /\ s \notin certified
    /\ certified' = certified \cup {s}
    /\ UNCHANGED <<done, completed, touched>>

EditCourse ==
    /\ touched' = TRUE
    /\ UNCHANGED <<done, completed, certified>>

Next ==
    \/ \E s \in Students : Watch(s) \/ Complete(s) \/ Certify(s)
    \/ EditCourse

Spec == Init /\ [][Next]_ledger
=============================================================================
