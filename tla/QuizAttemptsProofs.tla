-------------------------- MODULE QuizAttemptsProofs -------------------------
(***************************************************************************)
(* For any number of students, attempts and concurrent requests: results    *)
(* match the stored answers, and what the unguarded windows of startAttempt,*)
(* finishAttempt and update let through is no more than the races in them.  *)
(***************************************************************************)
EXTENDS QuizAttempts, FiniteSetTheorems, TLAPS

\* What a request holds while it is under way; an attempt that was not started is
\* nobody's.
Held ==
    /\ \A r \in Requests :
        /\ pc[r] = "write" <=> doing[r] # None
        /\ pc[r] = "write" => sent[r] # None /\ attempts[doing[r]].state # "none"
        /\ pc[r] \in {"count", "create"} => who[r] # None
    /\ \A a \in Attempts : attempts[a].state = "none" => attempts[a].by = None

RecordInv == TypeOK /\ Held /\ ResultMatchesAnswers

\* Two requests that finish one attempt have raced, and so has the second one when the
\* first is through.
RaceInv ==
    \A r \in Requests : pc[r] = "write" =>
        /\ \A x \in Requests \ {r} : doing[x] = doing[r] => doing[r] \in raced
        /\ doing[r] \in Finished => doing[r] \in raced

OvertakeInv ==
    Finished # {} => \A r \in Requests : pc[r] = "replace" => r \in overtaken

-----------------------------------------------------------------------------
LEMMA Grading ==
    ASSUME NEW v \in Revisions, NEW x \in Submissions
    PROVE  /\ Award(v, x) \in [Asked[v] -> Int]
           /\ Asked[v] \subseteq Questions
  BY QuizAssumption DEF Award, Revisions

\* Rounding moves a sum by half a hundredth at most, and upwards from a half.
LEMMA RoundedIsNear ==
    ASSUME NEW n \in Int
    PROVE  /\ Rounded(n) \in Int
           /\ 2 * (Rounded(n) - n) <= Unit
           /\ 2 * (n - Rounded(n)) < Unit
<1> USE QuizAssumption
<1> DEFINE m == (2 * n + Unit) \div (2 * Unit)
<1>1. m \in Int /\ (2 * Unit) * m <= 2 * n + Unit /\ 2 * n + Unit < (2 * Unit) * (m + 1)
  OBVIOUS
<1> HIDE DEF m
<1>2. Unit * m \in Int /\ (2 * Unit) * m = 2 * (Unit * m)
      /\ (2 * Unit) * (m + 1) = 2 * (Unit * m) + 2 * Unit
  BY <1>1
<1>3. Rounded(n) = Unit * m
  BY DEF Rounded, m
<1> QED BY <1>1, <1>2, <1>3

LEMMA Opening ==
    ASSUME NEW at \in Attempt, NEW s \in Students
    PROVE  [at EXCEPT !.by = s, !.state = "open"] \in Attempt
  BY DEF Attempt

LEMMA RecordInit == Init => RecordInv
  <1> SUFFICES ASSUME Init
               PROVE  RecordInv
    OBVIOUS
  <1>1. NoAttempt \in Attempt /\ NoAttempt.state = "none"
    BY DEF NoAttempt, Attempt, Scores, MaxScores
  <1>2. attempts \in [Attempts -> Attempt]
    BY <1>1 DEF Init
  <1>3. 0 \in Revisions
    BY QuizAssumption DEF Revisions
  <1>4. TypeOK
    BY <1>2, <1>3 DEF Init, TypeOK
  <1>5. Held /\ ResultMatchesAnswers
    <2>1. /\ \A a \in Attempts : attempts[a].by = None /\ attempts[a].state = "none"
          /\ \A q \in Requests : doing[q] = None /\ pc[q] = "idle"
      BY DEF Init, NoAttempt
    <2> QED BY <2>1 DEF Held, ResultMatchesAnswers, Finished
  <1> QED BY <1>4, <1>5 DEF RecordInv

LEMMA RecordStep == RecordInv /\ [Next]_vars => RecordInv'
  <1> SUFFICES ASSUME RecordInv, [Next]_vars
               PROVE  RecordInv'
    OBVIOUS
  <1> USE QuizAssumption DEF RecordInv, TypeOK, Held
  <1>1. ASSUME NEW r \in Requests, NEW s \in Students, Start(r, s)
        PROVE  RecordInv'
    BY <1>1 DEF Start, Go, quiz, finish, history, ResultMatchesAnswers, Finished
  <1>2. ASSUME NEW r \in Requests, NEW a \in Attempts, NEW x \in Submissions,
               StartFinish(r, a, x)
        PROVE  RecordInv'
    BY <1>2 DEF StartFinish, Go, quiz, ResultMatchesAnswers, Finished
  <1>3. ASSUME NEW r \in Requests, Count(r)
        PROVE  RecordInv'
    <2>1. /\ pc[r] = "count"
          /\ \/ End(r)
             \/ /\ pc' = [pc EXCEPT ![r] = "create"]
                /\ UNCHANGED <<who, cap, doing, seen, scored, sent>>
          /\ UNCHANGED <<limit, graded, revision, deleted, attempts, answers,
                          highest, raced, overtaken>>
      BY <1>3 DEF Count, Go, quiz, finish, history
    <2>2. ResultMatchesAnswers'
      BY <2>1 DEF ResultMatchesAnswers, Finished
    <2>3. CASE End(r)
      BY <2>1, <2>2, <2>3 DEF End, Revisions
    <2>4. CASE /\ pc' = [pc EXCEPT ![r] = "create"]
               /\ UNCHANGED <<who, cap, doing, seen, scored, sent>>
      BY <2>1, <2>2, <2>4
    <2> QED BY <2>1, <2>3, <2>4
  <1>4. ASSUME NEW r \in Requests, Create(r)
        PROVE  RecordInv'
    <2>1. PICK a \in Attempts :
             /\ attempts[a].state = "none"
             /\ attempts' = [attempts EXCEPT ![a] = [@ EXCEPT !.by = who[r], !.state = "open"]]
      BY <1>4 DEF Create
    <2>2. /\ who[r] \in Students /\ End(r)
          /\ UNCHANGED <<limit, graded, revision, deleted, answers, highest, raced, overtaken>>
      BY <1>4 DEF Create, quiz, history
    <2>3. attempts' = [attempts EXCEPT
                          ![a] = [attempts[a] EXCEPT !.by = who[r], !.state = "open"]]
      BY <2>1
    <2>4. attempts' \in [Attempts -> Attempt]
      BY <2>2, <2>3, Opening
    <2>5. TypeOK'
      BY <2>2, <2>4 DEF End, Revisions
    <2>6. \A b \in Attempts :
             /\ attempts'[b].state = (IF b = a THEN "open" ELSE attempts[b].state)
             /\ b # a => attempts'[b].by = attempts[b].by
      BY <2>1 DEF Attempt
    <2>7. Held'
      BY <2>2, <2>6 DEF End
    <2>8. \A b \in Finished' : b \in Finished /\ attempts'[b] = attempts[b]
      BY <2>1, <2>6 DEF Finished
    <2>9. ResultMatchesAnswers'
      BY <2>2, <2>8 DEF ResultMatchesAnswers
    <2> QED BY <2>5, <2>7, <2>9
  <1>5. ASSUME NEW r \in Requests, Write(r)
        PROVE  RecordInv'
    <2> DEFINE a == doing[r]
               v == seen[r]
               award == Award(seen[r], sent[r])
    <2>1. /\ pc[r] = "write" /\ a \in Attempts /\ v \in Revisions
          /\ sent[r] \in Submissions
      BY <1>5 DEF Write
    <2>2. award \in [Asked[v] -> Int] /\ Asked[v] \subseteq Questions
      BY <2>1, Grading
    <2>3. /\ answers' = Upsert(a, award)
          /\ attempts' = [attempts EXCEPT
                             ![a] = Result(attempts[a].by, v, award, scored[r])]
          /\ End(r)
          /\ UNCHANGED <<limit, graded, revision, deleted, highest, raced>>
          /\ overtaken' \subseteq Requests
      BY <1>5, <2>1 DEF Write, quiz
    <2>4. answers' \in [Attempts -> [Questions -> Int \cup {None}]]
      BY <2>1, <2>2, <2>3 DEF Upsert
    <2>5. Result(attempts[a].by, v, award, scored[r]) \in Attempt
      BY <2>1 DEF Result, Attempt, Scores, MaxScores
    <2>6. TypeOK'
      BY <2>1, <2>3, <2>4, <2>5 DEF End, Revisions
    <2>7. Held'
      BY <2>1, <2>3 DEF End, Result
    <2>8. Recorded(attempts'[a], answers'[a])
      <3>1. \A q \in Asked[v] : answers'[a][q] = award[q]
        BY <2>1, <2>2, <2>3 DEF Upsert
      <3>2. award = [q \in Asked[v] |-> answers'[a][q]]
        BY <2>2, <3>1
      <3>3. /\ attempts'[a].maxScore = MaxScore(v)
            /\ attempts'[a].score \in {None, Rounded(Total(award))}
        BY <2>1, <2>3 DEF Result
      <3>4. \A q \in Asked[v] : answers'[a][q] # None
        BY <2>2, <3>1
      <3> QED BY <2>1, <3>2, <3>3, <3>4 DEF Recorded
    <2>9. ASSUME NEW b \in Finished', b # a
          PROVE  Recorded(attempts'[b], answers'[b])
      <3>1. b \in Finished /\ attempts'[b] = attempts[b] /\ answers'[b] = answers[b]
        BY <2>1, <2>3, <2>9 DEF Finished, Upsert
      <3> QED BY <3>1 DEF ResultMatchesAnswers
    <2>10. ResultMatchesAnswers'
      BY <2>8, <2>9 DEF ResultMatchesAnswers
    <2> QED BY <2>6, <2>7, <2>10
  <1>6. ASSUME NEW r \in Requests, StartEdit(r)
        PROVE  RecordInv'
    BY <1>6 DEF StartEdit, Go, quiz, finish, ResultMatchesAnswers, Finished
  <1>7. ASSUME NEW r \in Requests, Check(r)
        PROVE  RecordInv'
    <2>1. /\ pc[r] = "check"
          /\ \/ End(r)
             \/ /\ pc' = [pc EXCEPT ![r] = "replace"]
                /\ UNCHANGED <<who, cap, doing, seen, scored, sent>>
          /\ UNCHANGED <<limit, graded, revision, deleted, attempts, answers,
                          highest, raced, overtaken>>
      BY <1>7 DEF Check, Go, quiz, finish, history
    <2>2. ResultMatchesAnswers'
      BY <2>1 DEF ResultMatchesAnswers, Finished
    <2>3. CASE End(r)
      BY <2>1, <2>2, <2>3 DEF End, Revisions
    <2>4. CASE /\ pc' = [pc EXCEPT ![r] = "replace"]
               /\ UNCHANGED <<who, cap, doing, seen, scored, sent>>
      BY <2>1, <2>2, <2>4
    <2> QED BY <2>1, <2>3, <2>4
  <1>8. ASSUME NEW r \in Requests, Replace(r)
        PROVE  RecordInv'
    BY <1>8 DEF Replace, Settings, End, ResultMatchesAnswers, Finished, Revisions
  <1>9. ASSUME NEW r \in Requests, Die(r)
        PROVE  RecordInv'
    BY <1>9 DEF Die, End, quiz, history, ResultMatchesAnswers, Finished, Revisions
  <1>10. CASE Configure
    BY <1>10 DEF Configure, Settings, request, finish, ResultMatchesAnswers, Finished
  <1>11. CASE SoftDelete
    BY <1>11 DEF SoftDelete, request, finish, history, ResultMatchesAnswers, Finished
  <1>12. CASE UNCHANGED vars
    BY <1>12 DEF vars, quiz, request, finish, history, ResultMatchesAnswers, Finished
  <1> QED
    BY <1>1, <1>2, <1>3, <1>4, <1>5, <1>6, <1>7, <1>8, <1>9, <1>10, <1>11, <1>12 DEF Next

LEMMA RecordInvariant == Spec => []RecordInv
  <1> QED BY RecordInit, RecordStep, PTL DEF Spec

\* The state keeps its type.
THEOREM TypeCorrect == Spec => []TypeOK
  <1>1. RecordInv => TypeOK
    BY DEF RecordInv
  <1> QED BY <1>1, RecordInvariant, PTL

\* A finished attempt holds the sum of the answers stored with it.
THEOREM ResultsMatchAnswers == Spec => []ResultMatchesAnswers
  <1>1. RecordInv => ResultMatchesAnswers
    BY DEF RecordInv
  <1> QED BY <1>1, RecordInvariant, PTL

-----------------------------------------------------------------------------
LEMMA RaceStep ==
    RecordInv /\ RaceInv /\ OvertakeInv /\ [Next]_vars => RaceInv' /\ OvertakeInv'
  <1> SUFFICES ASSUME RecordInv, RaceInv, OvertakeInv, [Next]_vars
               PROVE  RaceInv' /\ OvertakeInv'
    OBVIOUS
  <1> USE QuizAssumption DEF RecordInv, TypeOK, Held, RaceInv, OvertakeInv, Finished
  <1>1. ASSUME NEW r \in Requests, NEW s \in Students, Start(r, s)
        PROVE  RaceInv' /\ OvertakeInv'
    BY <1>1 DEF Start, Go, quiz, finish, history
  <1>2. ASSUME NEW r \in Requests, NEW a \in Attempts, NEW x \in Submissions,
               StartFinish(r, a, x)
        PROVE  RaceInv' /\ OvertakeInv'
    BY <1>2 DEF StartFinish, Go, quiz
  <1>3. ASSUME NEW r \in Requests, Count(r)
        PROVE  RaceInv' /\ OvertakeInv'
    BY <1>3 DEF Count, Go, End, quiz, finish, history
  <1>4. ASSUME NEW r \in Requests, Create(r)
        PROVE  RaceInv' /\ OvertakeInv'
    BY <1>4 DEF Create, End, quiz, history, Attempt
  <1>5. ASSUME NEW r \in Requests, Write(r)
        PROVE  RaceInv' /\ OvertakeInv'
    BY <1>5 DEF Write, End, quiz, Result
  <1>6. ASSUME NEW r \in Requests, StartEdit(r)
        PROVE  RaceInv' /\ OvertakeInv'
    BY <1>6 DEF StartEdit, Go, quiz, finish
  <1>7. ASSUME NEW r \in Requests, Check(r)
        PROVE  RaceInv' /\ OvertakeInv'
    BY <1>7 DEF Check, Go, End, quiz, finish, history
  <1>8. ASSUME NEW r \in Requests, Replace(r)
        PROVE  RaceInv' /\ OvertakeInv'
    BY <1>8 DEF Replace, End
  <1>9. ASSUME NEW r \in Requests, Die(r)
        PROVE  RaceInv' /\ OvertakeInv'
    BY <1>9 DEF Die, End, quiz, history
  <1>10. CASE Configure \/ SoftDelete \/ UNCHANGED vars
    BY <1>10 DEF Configure, SoftDelete, vars, quiz, request, finish, history
  <1> QED
    BY <1>1, <1>2, <1>3, <1>4, <1>5, <1>6, <1>7, <1>8, <1>9, <1>10 DEF Next

LEMMA RaceInvariant == Spec => [](RecordInv /\ RaceInv /\ OvertakeInv)
  <1>1. Init => RaceInv /\ OvertakeInv
    BY DEF Init, RaceInv, OvertakeInv, Finished, NoAttempt
  <1> QED BY <1>1, RecordInvariant, RaceStep, PTL DEF Spec

\* A finished result changes only when two finishing requests raced for it.
THEOREM ResultsAreFinalUnlessRaced == Spec => ResultFinalUnlessRaced
  <1> DEFINE Final == \A a \in Finished : attempts'[a] # attempts[a] => a \in raced
  <1>1. RecordInv /\ RaceInv /\ [Next]_vars => [Final]_vars
    <2> SUFFICES ASSUME RecordInv, RaceInv, Next, NEW a \in Finished,
                        attempts'[a] # attempts[a]
                 PROVE  a \in raced
      OBVIOUS
    <2> USE DEF Finished, RecordInv, TypeOK
    <2>1. CASE \E r \in Requests : Write(r)
      BY <2>1 DEF Write, RaceInv, Held
    <2>2. CASE \E r \in Requests : Create(r)
      BY <2>2 DEF Create
    <2>3. ASSUME ~ \E r \in Requests : Write(r) \/ Create(r)
          PROVE  UNCHANGED attempts
      BY <2>3 DEF Next, Start, StartFinish, Count, StartEdit, Check, Replace, Die,
                  Configure, SoftDelete
    <2> QED BY <2>1, <2>2, <2>3
  <1>2. ResultFinalUnlessRaced <=> [][Final]_vars
    BY PTL DEF ResultFinalUnlessRaced
  <1> QED BY <1>1, <1>2, RaceInvariant, PTL DEF Spec

\* Questions change under a finished attempt only when the edit had counted before.
THEOREM QuestionsAreKeptUnlessOvertaken == Spec => QuestionsKeptUnlessOvertaken
  <1> DEFINE Kept == (revision' # revision /\ Finished # {}) =>
                        \E r \in overtaken : pc[r] = "replace" /\ pc'[r] = "idle"
  <1>1. RecordInv /\ OvertakeInv /\ [Next]_vars => [Kept]_vars
    <2> SUFFICES ASSUME RecordInv, OvertakeInv, Next, revision' # revision, Finished # {}
                 PROVE  \E r \in overtaken : pc[r] = "replace" /\ pc'[r] = "idle"
      OBVIOUS
    <2>1. PICK r \in Requests : Replace(r)
      BY DEF Next, Start, StartFinish, Count, Create, Write, StartEdit, Check, Die,
             Configure, SoftDelete, quiz
    <2>2. pc[r] = "replace" /\ pc'[r] = "idle"
      BY <2>1 DEF Replace, End, RecordInv, TypeOK
    <2> QED BY <2>2 DEF OvertakeInv
  <1>2. QuestionsKeptUnlessOvertaken <=> [][Kept]_vars
    BY PTL DEF QuestionsKeptUnlessOvertaken
  <1> QED BY <1>1, <1>2, RaceInvariant, PTL DEF Spec

-----------------------------------------------------------------------------
\* An attempt a request is about to create is counted with those that exist.
Creating(s) == {r \in Requests : pc[r] = "create" /\ who[r] = s}

LimitsRead ==
    highest # None =>
        /\ limit # None /\ limit <= highest
        /\ \A r \in Requests :
              pc[r] \in {"count", "create"} => cap[r] # None /\ cap[r] <= highest

OvershootInv ==
    \A s \in Students :
        /\ IsFiniteSet(HeldBy(s))
        /\ highest # None =>
              Cardinality(HeldBy(s)) + Cardinality(Creating(s))
                <= highest + Cardinality(Requests) - 1

LEMMA Creators ==
    \A s \in Students : /\ IsFiniteSet(Creating(s))
                        /\ Cardinality(Creating(s)) \in Nat
                        /\ Cardinality(Creating(s)) <= Cardinality(Requests)
                        /\ Cardinality(Requests) \in Nat
  BY QuizAssumption, FS_Subset, FS_CardinalityType DEF Creating

LEMMA SettingsStep ==
    ASSUME RecordInv, LimitsRead, Settings, highest' # None
    PROVE  /\ highest # None /\ limit' # None
           /\ highest \in Nat /\ highest' \in Nat
           /\ highest <= highest' /\ limit' <= highest'
  <1>1. highest # None /\ limit' # None
    BY DEF Settings
  <1>2. highest \in Nat /\ limit' \in Nat
    BY <1>1, QuizAssumption DEF Settings, RecordInv, TypeOK
  <1>3. highest' = IF limit' > highest THEN limit' ELSE highest
    BY <1>1 DEF Settings
  <1> QED BY <1>1, <1>2, <1>3

LEMMA LimitsStep ==
    RecordInv /\ LimitsRead /\ [Next]_vars
      => /\ LimitsRead'
         /\ highest' # None => highest # None /\ highest <= highest'
  <1> SUFFICES ASSUME RecordInv, LimitsRead, [Next]_vars
               PROVE  /\ LimitsRead'
                      /\ highest' # None => highest # None /\ highest <= highest'
    OBVIOUS
  <1> USE QuizAssumption DEF RecordInv, TypeOK, LimitsRead
  <1>1. ASSUME NEW r \in Requests, NEW s \in Students, Start(r, s)
        PROVE  LimitsRead' /\ highest' = highest
    BY <1>1 DEF Start, Go, quiz, finish, history
  <1>2. ASSUME NEW r \in Requests, NEW a \in Attempts, NEW x \in Submissions,
               StartFinish(r, a, x)
        PROVE  LimitsRead' /\ highest' = highest
    BY <1>2 DEF StartFinish, Go, quiz
  <1>3. ASSUME NEW r \in Requests, Count(r)
        PROVE  LimitsRead' /\ highest' = highest
    BY <1>3 DEF Count, Go, End, quiz, finish, history
  <1>4. ASSUME NEW r \in Requests, Create(r) \/ Write(r) \/ Die(r)
        PROVE  LimitsRead' /\ highest' = highest
    BY <1>4 DEF Create, Write, Die, End, quiz, history
  <1>5. ASSUME NEW r \in Requests, StartEdit(r)
        PROVE  LimitsRead' /\ highest' = highest
    BY <1>5 DEF StartEdit, Go, quiz, finish
  <1>6. ASSUME NEW r \in Requests, Check(r)
        PROVE  LimitsRead' /\ highest' = highest
    BY <1>6 DEF Check, Go, End, quiz, finish, history
  <1>7. ASSUME NEW r \in Requests, Replace(r)
        PROVE  /\ LimitsRead'
               /\ highest' # None => highest # None /\ highest <= highest'
    <2>1. /\ Settings
          /\ \A x \in Requests : pc'[x] \in {"count", "create"} => pc'[x] = pc[x] /\ cap'[x] = cap[x]
      BY <1>7 DEF Replace, End
    <2>2. ASSUME highest' # None
          PROVE  LimitsRead' /\ highest # None /\ highest <= highest'
      <3>1. /\ highest # None /\ limit' # None
            /\ highest \in Nat /\ highest' \in Nat
            /\ highest <= highest' /\ limit' <= highest'
        BY <2>1, <2>2, SettingsStep
      <3>2. ASSUME NEW x \in Requests, pc'[x] \in {"count", "create"}
            PROVE  cap'[x] # None /\ cap'[x] <= highest'
        <4>1. cap[x] # None /\ cap[x] <= highest /\ cap'[x] = cap[x]
          BY <2>1, <3>1, <3>2
        <4>2. cap[x] \in Nat
          BY <4>1
        <4> QED BY <3>1, <4>1, <4>2
      <3> QED BY <3>1, <3>2
    <2> QED BY <2>2
  <1>8. ASSUME Configure
        PROVE  /\ LimitsRead'
               /\ highest' # None => highest # None /\ highest <= highest'
    <2>1. /\ Settings
          /\ \A x \in Requests : pc'[x] \in {"count", "create"} => pc'[x] = pc[x] /\ cap'[x] = cap[x]
      BY <1>8 DEF Configure, request
    <2>2. ASSUME highest' # None
          PROVE  LimitsRead' /\ highest # None /\ highest <= highest'
      <3>1. /\ highest # None /\ limit' # None
            /\ highest \in Nat /\ highest' \in Nat
            /\ highest <= highest' /\ limit' <= highest'
        BY <2>1, <2>2, SettingsStep
      <3>2. ASSUME NEW x \in Requests, pc'[x] \in {"count", "create"}
            PROVE  cap'[x] # None /\ cap'[x] <= highest'
        <4>1. cap[x] # None /\ cap[x] <= highest /\ cap'[x] = cap[x]
          BY <2>1, <3>1, <3>2
        <4>2. cap[x] \in Nat
          BY <4>1
        <4> QED BY <3>1, <4>1, <4>2
      <3> QED BY <3>1, <3>2
    <2> QED BY <2>2
  <1>9. CASE SoftDelete \/ UNCHANGED vars
    BY <1>9 DEF SoftDelete, vars, quiz, request, history
  <1>10. highest # None => highest <= highest
    OBVIOUS
  <1> QED
    BY <1>1, <1>2, <1>3, <1>4, <1>5, <1>6, <1>7, <1>8, <1>9, <1>10 DEF Next

\* A step that creates no attempt and sends no request on to create one.
LEMMA NoneAdded ==
    ASSUME RecordInv, OvershootInv, NEW s \in Students,
           HeldBy(s)' = HeldBy(s), Creating(s)' \subseteq Creating(s),
           highest' \in Limits \cup {None},
           highest' # None => highest # None /\ highest <= highest'
    PROVE  /\ IsFiniteSet(HeldBy(s)')
           /\ highest' # None =>
                 Cardinality(HeldBy(s)') + Cardinality(Creating(s)')
                   <= highest' + Cardinality(Requests) - 1
  <1>1. Cardinality(Creating(s)') <= Cardinality(Creating(s))
    BY Creators, FS_Subset
  <1>2. Cardinality(Creating(s)') \in Nat /\ Cardinality(HeldBy(s)) \in Nat
    BY Creators, FS_Subset, FS_CardinalityType DEF OvershootInv
  <1> QED
    BY <1>1, <1>2, Creators, QuizAssumption DEF OvershootInv, RecordInv, TypeOK

LEMMA OvershootStep ==
    RecordInv /\ LimitsRead /\ OvershootInv /\ [Next]_vars => OvershootInv'
  <1> SUFFICES ASSUME RecordInv, LimitsRead, OvershootInv, [Next]_vars, NEW s \in Students
               PROVE  /\ IsFiniteSet(HeldBy(s)')
                      /\ highest' # None =>
                            Cardinality(HeldBy(s)') + Cardinality(Creating(s)')
                              <= highest' + Cardinality(Requests) - 1
    BY DEF OvershootInv
  <1>1. /\ highest' # None => highest # None /\ highest <= highest'
        /\ highest' \in Limits \cup {None}
    BY LimitsStep, RecordStep DEF RecordInv, TypeOK
  <1>2. CASE HeldBy(s)' = HeldBy(s) /\ Creating(s)' \subseteq Creating(s)
    BY <1>1, <1>2, NoneAdded
  <1>3. ASSUME NEW r \in Requests, Count(r), ~ (Creating(s)' \subseteq Creating(s))
        PROVE  /\ IsFiniteSet(HeldBy(s)')
               /\ highest' # None =>
                     Cardinality(HeldBy(s)') + Cardinality(Creating(s)')
                       <= highest' + Cardinality(Requests) - 1
    <2>1. /\ who[r] = s /\ ~ (Cardinality(HeldBy(s)) >= cap[r])
          /\ pc[r] = "count" /\ attempts' = attempts /\ highest' = highest
      BY <1>3 DEF Count, Go, End, Creating, quiz, history, RecordInv, TypeOK
    <2>2. HeldBy(s)' = HeldBy(s)
      BY <2>1 DEF HeldBy
    <2>3. IsFiniteSet(HeldBy(s)) /\ Cardinality(HeldBy(s)) \in Nat
      BY FS_CardinalityType DEF OvershootInv
    <2>4. /\ Creating(s)' \subseteq Requests
          /\ IsFiniteSet(Requests)
      BY QuizAssumption DEF Creating
    <2>5. /\ Cardinality(Creating(s)') \in Nat
          /\ Cardinality(Creating(s)') <= Cardinality(Requests)
          /\ Cardinality(Requests) \in Nat
      BY <2>4, FS_Subset, FS_CardinalityType
    <2>6. ASSUME highest # None
          PROVE  Cardinality(HeldBy(s)) + 1 <= highest
      <3>1. cap[r] \in Nat /\ highest \in Nat /\ cap[r] <= highest
        BY <2>1, <2>6, QuizAssumption DEF LimitsRead, RecordInv, TypeOK
      <3> QED BY <2>1, <2>3, <3>1
    <2>7. highest # None => highest \in Nat
      BY QuizAssumption DEF RecordInv, TypeOK
    <2> QED BY <2>1, <2>2, <2>3, <2>5, <2>6, <2>7
  <1>4. ASSUME NEW r \in Requests, Create(r), who[r] = s
        PROVE  /\ IsFiniteSet(HeldBy(s)')
               /\ highest' # None =>
                     Cardinality(HeldBy(s)') + Cardinality(Creating(s)')
                       <= highest' + Cardinality(Requests) - 1
    <2>1. PICK a \in Attempts :
             attempts' = [attempts EXCEPT ![a] = [@ EXCEPT !.by = s, !.state = "open"]]
      BY <1>4 DEF Create
    <2>2. HeldBy(s)' = HeldBy(s) \cup {a}
      BY <2>1 DEF HeldBy, RecordInv, TypeOK, Attempt
    <2>3. r \in Creating(s) /\ Creating(s)' = Creating(s) \ {r} /\ highest' = highest
      BY <1>4 DEF Create, End, Creating, history, RecordInv, TypeOK
    <2>4. /\ IsFiniteSet(HeldBy(s) \cup {a})
          /\ Cardinality(HeldBy(s) \cup {a}) <= Cardinality(HeldBy(s)) + 1
          /\ Cardinality(HeldBy(s) \cup {a}) \in Nat /\ Cardinality(HeldBy(s)) \in Nat
      BY FS_AddElement, FS_CardinalityType DEF OvershootInv
    <2>5. Cardinality(Creating(s) \ {r}) = Cardinality(Creating(s)) - 1
      BY <2>3, Creators, FS_RemoveElement
    <2>6. highest # None => highest \in Nat
      BY QuizAssumption DEF RecordInv, TypeOK
    <2> QED BY <2>2, <2>3, <2>4, <2>5, <2>6, Creators DEF OvershootInv
  <1>5. ASSUME NEW r \in Requests, Create(r), who[r] # s
        PROVE  HeldBy(s)' = HeldBy(s) /\ Creating(s)' \subseteq Creating(s)
    <2>1. PICK a \in Attempts :
             /\ attempts[a].state = "none"
             /\ attempts' = [attempts EXCEPT ![a] = [@ EXCEPT !.by = who[r], !.state = "open"]]
      BY <1>5 DEF Create
    <2>2. attempts[a].by # s
      BY <2>1, QuizAssumption DEF RecordInv, Held
    <2>3. \A b \in Attempts : attempts'[b].by = s <=> attempts[b].by = s
      BY <1>5, <2>1, <2>2 DEF RecordInv, TypeOK, Attempt
    <2> QED BY <1>5, <2>3 DEF Create, End, HeldBy, Creating, RecordInv, TypeOK
  <1>6. ASSUME NEW r \in Requests, Count(r)
        PROVE  HeldBy(s)' = HeldBy(s)
    BY <1>6 DEF Count, HeldBy
  <1>7. ASSUME NEW r \in Requests, NEW x \in Students, Start(r, x)
        PROVE  highest' # None => HeldBy(s)' = HeldBy(s) /\ Creating(s)' \subseteq Creating(s)
    BY <1>1, <1>7 DEF Start, Go, HeldBy, Creating, RecordInv, TypeOK, LimitsRead
  <1>8. ASSUME NEW r \in Requests, Write(r)
        PROVE  HeldBy(s)' = HeldBy(s) /\ Creating(s)' \subseteq Creating(s)
    BY <1>8 DEF Write, Result, End, HeldBy, Creating, RecordInv, TypeOK
  <1>9. ASSUME NEW r \in Requests,
               \/ StartEdit(r) \/ Check(r) \/ Replace(r) \/ Die(r)
               \/ \E a \in Attempts, x \in Submissions : StartFinish(r, a, x)
        PROVE  HeldBy(s)' = HeldBy(s) /\ Creating(s)' \subseteq Creating(s)
    BY <1>9 DEF StartEdit, Check, Replace, Die, StartFinish, Go, End, HeldBy, Creating,
                RecordInv, TypeOK
  <1>10. CASE Configure \/ SoftDelete \/ UNCHANGED vars
    BY <1>2, <1>10 DEF Configure, SoftDelete, vars, request, HeldBy, Creating
  <1>11. ASSUME NEW r \in Requests, NEW x \in Students, Start(r, x)
         PROVE  /\ IsFiniteSet(HeldBy(s)')
                /\ highest' # None =>
                      Cardinality(HeldBy(s)') + Cardinality(Creating(s)')
                        <= highest' + Cardinality(Requests) - 1
    <2>1. HeldBy(s)' = HeldBy(s)
      BY <1>11 DEF Start, HeldBy
    <2> QED BY <1>2, <1>7, <1>11, <2>1 DEF OvershootInv
  <1> QED
    BY <1>2, <1>3, <1>4, <1>5, <1>6, <1>8, <1>9, <1>10, <1>11 DEF Next

\* The attempts of a student exceed the highest limit by at most the number of other
\* requests that were under way.
THEOREM OvershootIsBounded == Spec => []OvershootBounded
  <1>1. Init => LimitsRead /\ OvershootInv
    <2> SUFFICES ASSUME Init
                 PROVE  LimitsRead /\ OvershootInv
      OBVIOUS
    <2>1. LimitsRead
      BY QuizAssumption DEF Init, LimitsRead
    <2>2. \A s \in Students : HeldBy(s) = {} /\ Creating(s) = {}
      BY QuizAssumption DEF Init, HeldBy, Creating, NoAttempt
    <2>3. IsFiniteSet({}) /\ Cardinality({}) = 0 /\ Cardinality(Requests) \in Nat
      BY FS_EmptySet, FS_CardinalityType, QuizAssumption
    <2>4. highest # None => highest \in Nat /\ highest >= 1
      BY QuizAssumption DEF Init
    <2>5. highest # None => 0 + 0 <= highest + Cardinality(Requests) - 1
      BY <2>3, <2>4
    <2> QED BY <2>1, <2>2, <2>3, <2>5 DEF OvershootInv
  <1>2. RecordInv /\ OvershootInv => OvershootBounded
    <2> SUFFICES ASSUME RecordInv, OvershootInv, NEW s \in Students, highest # None
                 PROVE  Cardinality(HeldBy(s)) <= highest + Cardinality(Requests) - 1
      BY DEF OvershootBounded
    <2>1. Cardinality(HeldBy(s)) \in Nat /\ highest \in Nat
      BY QuizAssumption, FS_CardinalityType DEF OvershootInv, RecordInv, TypeOK
    <2> QED BY <2>1, Creators DEF OvershootInv
  <1> QED BY <1>1, <1>2, RecordInvariant, LimitsStep, OvershootStep, PTL DEF Spec
=============================================================================
