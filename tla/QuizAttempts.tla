---------------------------- MODULE QuizAttempts -----------------------------
(***************************************************************************)
(* One quiz: the attempts of its students and the edits of its teachers    *)
(* (quizzes.service.ts, grading.util.ts).  A request is a chain of awaited *)
(* statements; what it read is used after other requests have written.     *)
(* update replaces every question by new ones, so a question belongs to    *)
(* one revision of the quiz.                                               *)
(*                                                                         *)
(* Points are any number in the schema and in the DTO, negative ones and   *)
(* fractions included: they are counted here in parts of a hundredth.      *)
(***************************************************************************)
EXTENDS Integers, FiniteSetsExt

CONSTANTS
    Students, Requests,
    Attempts,       \* ids of QuizAttempt rows
    Questions, Submissions,
    MaxRevision,    \* bound: how often the questions are replaced
    Asked,          \* the questions of each revision
    Unit,           \* the parts of a hundredth of a point
    Points,         \* the points of each question, in these parts
    Essays,         \* questions nobody grades automatically
    Right,          \* the questions each submission gets right
    Limits,         \* values of maxAttempts
    None            \* null

Revisions == 0..MaxRevision

ASSUME QuizAssumption ==
    /\ IsFiniteSet(Requests)
    /\ MaxRevision \in Nat
    /\ Asked \in [Revisions -> SUBSET Questions]
    /\ \A u, v \in Revisions : u # v => Asked[u] \cap Asked[v] = {}
    /\ Unit \in Nat \ {0} /\ Points \in [Questions -> Int]
    /\ Essays \subseteq Questions
    /\ Right \in [Submissions -> SUBSET Questions]
    /\ Limits \subseteq Nat \ {0}
    /\ None \notin Int
    /\ None \notin Students \cup Attempts \cup Submissions

VARIABLES
    limit, graded, revision, deleted,   \* the Quiz row and its live questions
    attempts,       \* QuizAttempt rows
    answers,        \* QuizAnswer rows: the points awarded
    pc, who, cap,   \* a request: where it is, the student who starts, maxAttempts as read
    doing, seen, scored, sent,   \* a finish: attempt, revision and graded as read, answers
    highest,        \* the largest value of maxAttempts so far
    raced,          \* attempts that two finishing requests have read as open
    overtaken       \* edits that an attempt was finished after they had counted

quiz == <<limit, graded, revision, deleted>>
finish == <<doing, seen, scored, sent>>
request == <<pc, who, cap, finish>>
history == <<highest, raced, overtaken>>
vars == <<quiz, attempts, answers, request, history>>

NoAttempt == [by |-> None, state |-> "none", score |-> None, maxScore |-> None, pendingEssay |-> FALSE]

\* gradeQuizAttempt: an essay waits and earns nothing; any other question earns all
\* of its points or none.
Award(v, answer) ==
    [q \in Asked[v] |-> IF q \in Right[answer] \ Essays THEN Points[q] ELSE 0]

Total(award) == MapThenSumSet(LAMBDA q : award[q], DOMAIN award)

\* Math.round(score * 100) / 100: to the nearest hundredth, a half upwards.
Rounded(n) == Unit * ((2 * n + Unit) \div (2 * Unit))

MaxScore(v) == MapThenSumSet(LAMBDA q : Points[q], Asked[v])

Scores == {Rounded(Total(Award(v, x))) : v \in Revisions, x \in Submissions} \cup {None}
MaxScores == {MaxScore(v) : v \in Revisions} \cup {None}

Attempt ==
    [by : Students \cup {None}, state : {"none", "open", "finished"},
     score : Scores, maxScore : MaxScores, pendingEssay : BOOLEAN]

TypeOK ==
    /\ limit \in Limits \cup {None}
    /\ graded \in BOOLEAN /\ deleted \in BOOLEAN
    /\ revision \in Revisions
    /\ attempts \in [Attempts -> Attempt]
    /\ answers \in [Attempts -> [Questions -> Int \cup {None}]]
    /\ pc \in [Requests -> {"idle", "count", "create", "write", "check", "replace"}]
    /\ who \in [Requests -> Students \cup {None}]
    /\ cap \in [Requests -> Limits \cup {None}]
    /\ doing \in [Requests -> Attempts \cup {None}]
    /\ seen \in [Requests -> Revisions]
    /\ scored \in [Requests -> BOOLEAN]
    /\ sent \in [Requests -> Submissions \cup {None}]
    /\ highest \in Limits \cup {None}
    /\ raced \subseteq Attempts
    /\ overtaken \subseteq Requests

Init ==
    /\ limit \in Limits \cup {None}
    /\ graded = TRUE /\ deleted = FALSE /\ revision = 0
    /\ attempts = [a \in Attempts |-> NoAttempt]
    /\ answers = [a \in Attempts |-> [q \in Questions |-> None]]
    /\ pc = [r \in Requests |-> "idle"]
    /\ who = [r \in Requests |-> None]
    /\ cap = [r \in Requests |-> None]
    /\ doing = [r \in Requests |-> None]
    /\ seen = [r \in Requests |-> 0]
    /\ scored = [r \in Requests |-> FALSE]
    /\ sent = [r \in Requests |-> None]
    /\ highest = limit /\ raced = {} /\ overtaken = {}

Go(r, from, to) == pc[r] = from /\ pc' = [pc EXCEPT ![r] = to]

\* The request is over: what it had read is forgotten.
End(r) ==
    /\ pc' = [pc EXCEPT ![r] = "idle"]
    /\ who' = [who EXCEPT ![r] = None]
    /\ cap' = [cap EXCEPT ![r] = None]
    /\ doing' = [doing EXCEPT ![r] = None]
    /\ seen' = [seen EXCEPT ![r] = 0]
    /\ scored' = [scored EXCEPT ![r] = FALSE]
    /\ sent' = [sent EXCEPT ![r] = None]

HeldBy(s) == {a \in Attempts : attempts[a].by = s}
Finished == {a \in Attempts : attempts[a].state = "finished"}

-----------------------------------------------------------------------------
\* startAttempt: the quiz is read and the enrolment checked (a student who is not
\* enrolled is refused here, and changes nothing).
Start(r, s) ==
    /\ ~deleted
    /\ Go(r, "idle", IF limit = None THEN "create" ELSE "count")
    /\ who' = [who EXCEPT ![r] = s]
    /\ cap' = [cap EXCEPT ![r] = limit]
    /\ UNCHANGED <<quiz, attempts, answers, finish, history>>

\* A plausible bug: one attempt more than the limit is let through.
CountOneMore(r) ==
    /\ pc[r] = "count"
    /\ IF Cardinality(HeldBy(who[r])) > cap[r]
         THEN End(r)
         ELSE Go(r, "count", "create") /\ UNCHANGED <<who, cap, finish>>
    /\ UNCHANGED <<quiz, attempts, answers, history>>

\* Every attempt counts, finished or not.
Count(r) ==
    /\ pc[r] = "count"
    /\ IF Cardinality(HeldBy(who[r])) >= cap[r]
         THEN End(r)
         ELSE Go(r, "count", "create") /\ UNCHANGED <<who, cap, finish>>
    /\ UNCHANGED <<quiz, attempts, answers, history>>

Create(r) ==
    /\ pc[r] = "create"
    /\ \E a \in Attempts :
          /\ attempts[a].state = "none"
          /\ attempts' = [attempts EXCEPT ![a] = [@ EXCEPT !.by = who[r], !.state = "open"]]
    /\ End(r)
    /\ UNCHANGED <<quiz, answers, history>>

-----------------------------------------------------------------------------
\* A plausible bug: an attempt that is finished already is read as any other.
StartFinishAnyway(r, a, answer) ==
    /\ attempts[a].state # "none"
    /\ Go(r, "idle", "write")
    /\ doing' = [doing EXCEPT ![r] = a]
    /\ seen' = [seen EXCEPT ![r] = revision]
    /\ scored' = [scored EXCEPT ![r] = graded]
    /\ sent' = [sent EXCEPT ![r] = answer]
    /\ raced' = IF a \in {doing[x] : x \in Requests} THEN raced \cup {a} ELSE raced
    /\ UNCHANGED <<quiz, attempts, answers, who, cap, highest, overtaken>>

\* finishAttempt: the attempt must be open; the questions are the live ones, and the
\* quiz may be deleted.  An attempt whose time is up is refused and changes nothing.
StartFinish(r, a, answer) ==
    /\ attempts[a].state = "open"
    /\ Go(r, "idle", "write")
    /\ doing' = [doing EXCEPT ![r] = a]
    /\ seen' = [seen EXCEPT ![r] = revision]
    /\ scored' = [scored EXCEPT ![r] = graded]
    /\ sent' = [sent EXCEPT ![r] = answer]
    /\ raced' = IF a \in {doing[x] : x \in Requests} THEN raced \cup {a} ELSE raced
    /\ UNCHANGED <<quiz, attempts, answers, who, cap, highest, overtaken>>

\* A plausible bug: an answer that exists already keeps its old points.
UpsertKept(a, award) ==
    [answers EXCEPT ![a] =
        [q \in Questions |-> IF q \in DOMAIN award /\ answers[a][q] = None
                               THEN award[q] ELSE answers[a][q]]]

\* quizAnswer.upsert for every question that was graded.
Upsert(a, award) ==
    [answers EXCEPT ![a] =
        [q \in Questions |-> IF q \in DOMAIN award THEN award[q] ELSE answers[a][q]]]

\* A plausible bug: a quiz that is not graded stores no score and no maximum.
ResultBare(s, v, award, counts) ==
    [by |-> s, state |-> "finished", pendingEssay |-> Asked[v] \cap Essays # {},
     score |-> IF counts THEN Rounded(Total(award)) ELSE None,
     maxScore |-> IF counts THEN MaxScore(v) ELSE -1]

Result(s, v, award, counts) ==
    [by |-> s, state |-> "finished", pendingEssay |-> Asked[v] \cap Essays # {},
     score |-> IF counts THEN Rounded(Total(award)) ELSE None,
     maxScore |-> MaxScore(v)]

\* The answers and the result are written in one transaction, which does not look at
\* the attempt again.
Write(r) ==
    /\ pc[r] = "write"
    /\ LET a == doing[r]
           award == Award(seen[r], sent[r])
       IN  /\ answers' = Upsert(a, award)
           /\ attempts' = [attempts EXCEPT ![a] = Result(@.by, seen[r], award, scored[r])]
    /\ overtaken' = overtaken \cup {x \in Requests : pc[x] = "replace"}
    /\ End(r)
    /\ UNCHANGED <<quiz, highest, raced>>

-----------------------------------------------------------------------------
\* update with questions: finished attempts are counted, and then, in a transaction,
\* the questions are replaced.
StartEdit(r) ==
    /\ ~deleted
    /\ Go(r, "idle", "check")
    /\ overtaken' = overtaken \ {r}
    /\ UNCHANGED <<quiz, attempts, answers, who, cap, finish, highest, raced>>

\* A plausible bug: only attempts with a score count as finished.
CheckScored(r) ==
    /\ pc[r] = "check"
    /\ IF \E a \in Finished : attempts[a].score # None
         THEN End(r)
         ELSE Go(r, "check", "replace") /\ UNCHANGED <<who, cap, finish>>
    /\ UNCHANGED <<quiz, attempts, answers, history>>

Check(r) ==
    /\ pc[r] = "check"
    /\ IF Finished # {}
         THEN End(r)
         ELSE Go(r, "check", "replace") /\ UNCHANGED <<who, cap, finish>>
    /\ UNCHANGED <<quiz, attempts, answers, history>>

\* maxAttempts and graded may change with the questions or without them.
Settings ==
    /\ limit' \in Limits \cup {None}
    /\ graded' \in BOOLEAN
    /\ highest' = IF None \in {highest, limit'} THEN None
                  ELSE IF limit' > highest THEN limit' ELSE highest

Replace(r) ==
    /\ pc[r] = "replace"
    /\ revision < MaxRevision
    /\ revision' = revision + 1
    /\ Settings
    /\ End(r)
    /\ UNCHANGED <<deleted, attempts, answers, raced, overtaken>>

Configure ==
    /\ ~deleted
    /\ Settings
    /\ UNCHANGED <<revision, deleted, attempts, answers, request, raced, overtaken>>

SoftDelete ==
    /\ ~deleted /\ deleted' = TRUE
    /\ UNCHANGED <<limit, graded, revision, attempts, answers, request, history>>

\* A statement fails or the process dies.
Die(r) ==
    /\ pc[r] # "idle"
    /\ End(r)
    /\ UNCHANGED <<quiz, attempts, answers, history>>

Next ==
    \/ \E r \in Requests, s \in Students : Start(r, s)
    \/ \E r \in Requests, a \in Attempts, answer \in Submissions : StartFinish(r, a, answer)
    \/ \E r \in Requests :
          Count(r) \/ Create(r) \/ Write(r) \/ StartEdit(r) \/ Check(r) \/ Replace(r) \/ Die(r)
    \/ Configure \/ SoftDelete

Spec == Init /\ [][Next]_vars

-----------------------------------------------------------------------------
Recorded(attempt, points) ==
    \E v \in Revisions :
        /\ attempt.maxScore = MaxScore(v)
        /\ \A q \in Asked[v] : points[q] # None
        /\ attempt.score \in {None, Rounded(Total([q \in Asked[v] |-> points[q]]))}

\* The score of a finished attempt is the sum of the points stored with its answers,
\* rounded once to a hundredth, and its maximum the exact sum of the questions, over
\* the questions of one and the same revision, although finishing requests race with
\* each other and with edits that replace the questions they were read against.
ResultMatchesAnswers == \A a \in Finished : Recorded(attempts[a], answers[a])

\* What is recorded for a finished attempt changes only if two requests that finish it
\* had both read it before.
ResultFinalUnlessRaced ==
    [][\A a \in Finished : attempts'[a] # attempts[a] => a \in raced]_vars

\* Questions are replaced under a finished attempt only if it was finished between the
\* count and the transaction of that edit.
QuestionsKeptUnlessOvertaken ==
    [][(revision' # revision /\ Finished # {}) =>
         \E r \in overtaken : pc[r] = "replace" /\ pc'[r] = "idle"]_vars

\* A student goes beyond the highest limit the quiz has had by no more attempts than
\* there were other requests under way.
OvershootBounded ==
    \A s \in Students :
        highest # None => Cardinality(HeldBy(s)) <= highest + Cardinality(Requests) - 1

\* What the message of startAttempt says: no attempt is started once the limit is
\* reached.  Two requests that count before either creates break it.
AttemptLimit ==
    \A s \in Students : highest # None => Cardinality(HeldBy(s)) <= highest
=============================================================================
