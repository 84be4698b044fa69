------------------------ MODULE CourseProgressProofs ------------------------
(***************************************************************************)
(* Proofs about CourseProgress, for every course, every number of students *)
(* and of concurrent requests, and whatever the bounds on edits,           *)
(* administration and failures.                                            *)
(***************************************************************************)
EXTENDS CourseProgress, FiniteSetTheorems, TLAPS

-----------------------------------------------------------------------------
(* Type correctness.                                                       *)

\* A request that has started has a kind (what AfterView and Eligible dispatch on),
\* and a student's own request for the certificate writes no progress.
KindOK ==
    \A r \in Requests :
        /\ pc[r] # "idle" => kind[r] # "none"
        /\ pc[r] \in {"valid", "write", "count"} => kind[r] # "issue"

LEMMA InitTypeOK == Init => TypeOK /\ KindOK
  BY VideosAssumption, RequestsAssumption, BoundsAssumption
  DEF Init, TypeOK, KindOK, Enrolments, PCs, NotCounted, NoFile

\* Counting a set of lessons gives a natural number.
LEMMA LessonCount ==
    ASSUME NEW S \in SUBSET Videos
    PROVE  Cardinality(S) \in Nat
  BY VideosAssumption, FS_Subset, FS_CardinalityType

LEMMA StepTypeOK == TypeOK /\ KindOK /\ [Next]_vars => TypeOK' /\ KindOK'
<1> SUFFICES ASSUME TypeOK, KindOK, [Next]_vars PROVE TypeOK' /\ KindOK'
  OBVIOUS
<1> USE VideosAssumption, RequestsAssumption, BoundsAssumption
    DEF TypeOK, KindOK, Enrolments, PCs, content, records, locals, counters
<1>1. ASSUME NEW r \in Requests, NEW v \in Videos, NEW c \in BOOLEAN, StartReport(r, v, c)
      PROVE TypeOK' /\ KindOK'
  BY <1>1 DEF StartReport, Start, Goto
<1>2. ASSUME NEW r \in Requests, StartImport(r) PROVE TypeOK' /\ KindOK'
  BY <1>2 DEF StartImport, Start, Goto
<1>3. ASSUME NEW r \in Requests, StartIssue(r) PROVE TypeOK' /\ KindOK'
  BY <1>3 DEF StartIssue, Start, Goto
<1>4. ASSUME NEW r \in Requests, Advance(r) PROVE TypeOK' /\ KindOK'
  <2>1. CASE GrantView(r)
    <3>1. kind[r] \in {"report", "import", "issue"}
      BY <2>1 DEF GrantView, Goto
    <3>2. /\ AfterView[kind[r]] \in PCs \ {"idle"}
          /\ kind[r] = "issue" => AfterView[kind[r]] = "enrolled"
      BY <3>1 DEF AfterView
    <3>3. QED BY <2>1, <3>2 DEF GrantView, Goto
  <2>2. CASE RefuseView(r)
    BY <2>2 DEF RefuseView, Leave, Goto, ForgetLessons
  <2>3. CASE SelectValid(r)
    BY <2>3 DEF SelectValid, Goto, LiveLessons
  <2>4. CASE WriteProgress(r)
    BY <2>4 DEF WriteProgress, Leave, Goto, ForgetLessons
  <2>5. CASE CountLessons(r)
    <3>1. Cardinality(LiveLessons) \in Nat
      BY LessonCount DEF LiveLessons
    <3>2. QED BY <2>5, <3>1 DEF CountLessons
  <2>6. CASE CountWatched(r)
    <3>1. Cardinality(done[StudentOf[r]]) \in Nat
      BY LessonCount
    <3>2. QED BY <2>6, <3>1 DEF CountWatched
  <2>7. CASE MarkCompleted(r)
    BY <2>7 DEF MarkCompleted, MarkEnrolments, Leave, Goto, ForgetCounts
  <2>8. CASE FindCertificate(r)
    BY <2>8 DEF FindCertificate, Leave, Goto
  <2>9. CASE FindCompletedEnrolment(r)
    BY <2>9 DEF FindCompletedEnrolment, Goto, Eligible
  <2>10. CASE DecideEligible(r)
    BY <2>10 DEF DecideEligible, Leave, Goto, ForgetCounts, Eligible
  <2>11. CASE LoadCourse(r)
    BY <2>11 DEF LoadCourse, Leave, Goto
  <2>12. CASE MarkAtIssue(r)
    BY <2>12 DEF MarkAtIssue, MarkEnrolments, Goto
  <2>13. CASE WriteFile(r)
    BY <2>13 DEF WriteFile, Goto
  <2>14. CASE CreateRow(r)
    BY <2>14 DEF CreateRow, Leave, Goto
  <2>15. QED
    BY <1>4, <2>1, <2>2, <2>3, <2>4, <2>5, <2>6, <2>7, <2>8, <2>9, <2>10, <2>11,
       <2>12, <2>13, <2>14 DEF Advance
<1>5. ASSUME NEW r \in Requests, Fail(r) PROVE TypeOK' /\ KindOK'
  BY <1>5 DEF Fail, Leave, Goto, ForgetLessons, ForgetCounts
<1>6. ASSUME NEW v \in Videos, CheckModule(v) PROVE TypeOK' /\ KindOK'
  BY <1>6 DEF CheckModule, Edit
<1>7. ASSUME NEW v \in Videos, InsertLesson(v) PROVE TypeOK' /\ KindOK'
  BY <1>7 DEF InsertLesson
<1>8. ASSUME NEW v \in Videos, DeleteLesson(v) PROVE TypeOK' /\ KindOK'
  BY <1>8 DEF DeleteLesson, Edit
<1>9. ASSUME NEW m \in Modules, DeleteModule(m) PROVE TypeOK' /\ KindOK'
  BY <1>9 DEF DeleteModule, Edit
<1>10. ASSUME NEW e \in Enrolments, Enrol(e) PROVE TypeOK' /\ KindOK'
  BY <1>10 DEF Enrol, Administer
<1>11. ASSUME NEW e \in Enrolments, RemoveEnrolment(e) PROVE TypeOK' /\ KindOK'
  BY <1>11 DEF RemoveEnrolment, Administer
<1>12. ASSUME NEW c \in {"published", "unpublished", "deleted"}, ChangeCourse(c)
       PROVE TypeOK' /\ KindOK'
  BY <1>12 DEF ChangeCourse, Administer
<1>13. CASE UNCHANGED vars
  BY <1>13 DEF vars
<1>14. QED
  BY <1>1, <1>2, <1>3, <1>4, <1>5, <1>6, <1>7, <1>8, <1>9, <1>10, <1>11, <1>12, <1>13
  DEF Next

\* The state always has its type: no handler leaves a request, a row or a counter
\* outside the values listed in TypeOK.
THEOREM TypeCorrect == Spec => []TypeOK
<1>1. Init => TypeOK /\ KindOK
  BY InitTypeOK
<1>2. TypeOK /\ KindOK /\ [Next]_vars => (TypeOK /\ KindOK)'
  BY StepTypeOK
<1>3. QED BY <1>1, <1>2, PTL DEF Spec

-----------------------------------------------------------------------------
(* Certificates and their files.                                           *)

\* A request between the file and the row holds the name of a written file.
FilesInv ==
    /\ CertificateHasFile
    /\ \A r \in Requests : pc[r] = "row" => key[r] \in files

LEMMA StepFilesInv ==
    ASSUME TypeOK, KindOK, FilesInv, [Next]_vars
    PROVE  FilesInv'
<1> USE DEF FilesInv, CertificateHasFile, Certified
<1>1. ASSUME NEW r \in Requests, WriteFile(r) PROVE FilesInv'
  BY <1>1 DEF WriteFile, Goto, TypeOK
<1>2. ASSUME NEW r \in Requests, CreateRow(r) PROVE FilesInv'
  BY <1>2, RequestsAssumption DEF CreateRow, Leave, Goto, TypeOK
<1>3. ASSUME NEW r \in Requests, Fail(r) PROVE FilesInv'
  BY <1>3 DEF Fail, Leave, Goto, ForgetLessons, ForgetCounts, records, TypeOK
<1>4. ASSUME UNCHANGED <<cert, files, key>>,
             \A r \in Requests : pc'[r] = "row" => pc[r] = "row"
      PROVE FilesInv'
  BY <1>4
<1> HIDE DEF FilesInv, CertificateHasFile, Certified
<1>5. ASSUME NEW r \in Requests,
             GrantView(r) \/ RefuseView(r) \/ SelectValid(r) \/ WriteProgress(r)
             \/ MarkCompleted(r) \/ FindCertificate(r) \/ FindCompletedEnrolment(r)
             \/ DecideEligible(r) \/ LoadCourse(r) \/ MarkAtIssue(r)
      PROVE FilesInv'
  <2>1. UNCHANGED <<cert, files, key>>
    BY <1>5 DEF GrantView, RefuseView, SelectValid, WriteProgress, MarkCompleted,
                FindCertificate, FindCompletedEnrolment, DecideEligible, LoadCourse,
                MarkAtIssue, records, locals
  <2>2. pc \in [Requests -> PCs] /\ kind[r] \in {"none", "report", "import", "issue"}
    BY DEF TypeOK
  <2>3. pc[r] = "view" => kind[r] \in {"report", "import", "issue"}
    BY <2>2 DEF KindOK
  <2>4. \E to \in PCs \ {"row"} : pc' = [pc EXCEPT ![r] = to]
    <3>1. CASE GrantView(r)
      <4>1. AfterView[kind[r]] \in PCs \ {"row"}
        BY <3>1, <2>3 DEF GrantView, Goto, AfterView, PCs
      <4>2. QED BY <3>1, <4>1 DEF GrantView, Goto
    <3>2. CASE RefuseView(r) \/ SelectValid(r) \/ WriteProgress(r) \/ MarkCompleted(r)
      BY <3>2 DEF RefuseView, SelectValid, WriteProgress, MarkCompleted, Leave, Goto, PCs
    <3>3. CASE FindCertificate(r) \/ FindCompletedEnrolment(r) \/ DecideEligible(r)
      BY <3>3 DEF FindCertificate, FindCompletedEnrolment, DecideEligible, Eligible,
                  Leave, Goto, PCs
    <3>4. CASE LoadCourse(r) \/ MarkAtIssue(r)
      BY <3>4 DEF LoadCourse, MarkAtIssue, Leave, Goto, PCs
    <3>5. QED BY <1>5, <3>1, <3>2, <3>3, <3>4
  <2>5. QED BY <2>1, <2>2, <2>4, <1>4
<1>6. ASSUME NEW r \in Requests, CountLessons(r) \/ CountWatched(r) PROVE FilesInv'
  BY <1>6, <1>4 DEF CountLessons, CountWatched, records
<1>7. ASSUME NEW r \in Requests,
             StartImport(r) \/ StartIssue(r)
             \/ \E v \in Videos, c \in BOOLEAN : StartReport(r, v, c)
      PROVE FilesInv'
  <2>1. UNCHANGED <<cert, files, key>> /\ pc' = [pc EXCEPT ![r] = "view"]
    BY <1>7 DEF StartReport, StartImport, StartIssue, Start, Goto, records
  <2>2. QED BY <2>1, <1>4 DEF TypeOK
<1>8. ASSUME (\E v \in Videos : CheckModule(v) \/ InsertLesson(v) \/ DeleteLesson(v))
             \/ (\E m \in Modules : DeleteModule(m))
             \/ (\E e \in Enrolments : Enrol(e) \/ RemoveEnrolment(e))
             \/ (\E c \in {"published", "unpublished", "deleted"} : ChangeCourse(c))
      PROVE FilesInv'
  BY <1>8, <1>4 DEF CheckModule, InsertLesson, DeleteLesson, DeleteModule, Enrol,
                    RemoveEnrolment, ChangeCourse, records, locals
<1>9. CASE UNCHANGED vars
  BY <1>9, <1>4 DEF vars, records, locals
<1>10. QED
  BY <1>1, <1>2, <1>3, <1>5, <1>6, <1>7, <1>8, <1>9 DEF Next, Advance

\* A certificate never names a PDF that was not written (createCertificate writes
\* the file before the row), whatever requests race and wherever they die.
THEOREM CertificatesHaveFiles == Spec => []CertificateHasFile
<1>1. Init => TypeOK /\ KindOK /\ FilesInv
  BY InitTypeOK DEF Init, FilesInv, CertificateHasFile, Certified
<1>2. TypeOK /\ KindOK /\ FilesInv /\ [Next]_vars => (TypeOK /\ KindOK /\ FilesInv)'
  BY StepTypeOK, StepFilesInv
<1>3. FilesInv => CertificateHasFile
  BY DEF FilesInv
<1>4. QED BY <1>1, <1>2, <1>3, PTL DEF Spec

-----------------------------------------------------------------------------
(* Completion is earned.                                                   *)

\* What a completion mark and a certificate rest on.
Earned(s) == done[s] # {} /\ (edits = 0 => InitialLessons \subseteq done[s])

\* Until the first edit the course is as it was published, and nobody records a
\* lesson that is not in it.
Unedited ==
    edits = 0 =>
        /\ \A v \in Videos : lesson[v] = IF v \in InitialLessons THEN "live" ELSE "absent"
        /\ modules = Modules
        /\ \A s \in Students : done[s] \subseteq InitialLessons
        /\ \A r \in Requests : lessons[r] \subseteq InitialLessons

\* What the two counts mean at any later moment: the lessons may have changed, the
\* number of lessons watched can only have grown.
CountInv ==
    \A r \in Requests :
        /\ (edits = 0 /\ total[r] # NotCounted) => total[r] = Cardinality(InitialLessons)
        /\ watched[r] <= Cardinality(done[StudentOf[r]])

\* A request past its completion test.
Issuing(r) ==
    pc[r] \in {"load", "mark", "file", "row"} \/ (pc[r] = "find" /\ kind[r] = "issue")

EarnedInv ==
    /\ \A s \in Students : Certified(s) => Earned(s)
    /\ \A e \in completed : Earned(e[1])
    /\ \A r \in Requests : Issuing(r) => Earned(StudentOf[r])

TypeInv == TypeOK /\ KindOK
IInv == TypeInv /\ Unedited /\ CountInv /\ EarnedInv

LEMMA DoneCount ==
    ASSUME TypeOK, NEW s \in Students
    PROVE  IsFiniteSet(done[s]) /\ Cardinality(done[s]) \in Nat
<1>1. done[s] \subseteq Videos
  BY DEF TypeOK
<1>2. QED BY <1>1, VideosAssumption, FS_Subset, FS_CardinalityType

LEMMA LiveIsInitial ==
    ASSUME Unedited, edits = 0
    PROVE  LiveLessons = InitialLessons
  BY VideosAssumption DEF Unedited, LiveLessons

\* The completion test is sound: counts taken at two different moments reach the
\* total only if the student has earned the completion now.
LEMMA ReachedIsEarned ==
    ASSUME TypeOK, Unedited, CountInv, NEW r \in Requests, BothCounted(r), Reached(r)
    PROVE  Earned(StudentOf[r])
<1> DEFINE D == done[StudentOf[r]]
<1>1. StudentOf[r] \in Students
  BY RequestsAssumption
<1>2. IsFiniteSet(D) /\ Cardinality(D) \in Nat
  BY <1>1, DoneCount
<1>3. total[r] \in Nat /\ watched[r] \in Nat /\ total[r] > 0 /\ watched[r] >= total[r]
  BY DEF TypeOK, BothCounted, Reached
<1>4. Cardinality(D) >= total[r]
  BY <1>2, <1>3 DEF CountInv
<1>5. D # {}
  BY <1>3, <1>4, FS_EmptySet
<1>6. ASSUME edits = 0 PROVE InitialLessons \subseteq D
  <2>1. D \subseteq InitialLessons
    BY <1>1, <1>6 DEF Unedited
  <2>2. IsFiniteSet(InitialLessons)
    BY VideosAssumption, FS_Subset
  <2>3. Cardinality(D) >= Cardinality(InitialLessons)
    BY <1>4, <1>3, <1>6 DEF CountInv, BothCounted
  <2>4. Cardinality(D) <= Cardinality(InitialLessons)
        /\ (Cardinality(InitialLessons) = Cardinality(D) => D = InitialLessons)
    BY <2>1, <2>2, FS_Subset
  <2>5. Cardinality(InitialLessons) \in Nat
    BY <2>2, FS_CardinalityType
  <2>6. QED BY <1>2, <2>3, <2>4, <2>5
<1>7. QED BY <1>5, <1>6 DEF Earned

\* Progress is never lost and an edit is never forgotten.
LEMMA Monotone ==
    ASSUME TypeOK, [Next]_vars
    PROVE  /\ \A s \in Students : done[s] \subseteq done'[s]
           /\ edits' = 0 => edits = 0
<1> USE DEF content, records, locals, counters
<1>1. ASSUME NEW r \in Requests, WriteProgress(r)
      PROVE  (\A s \in Students : done[s] \subseteq done'[s]) /\ UNCHANGED edits
  BY <1>1, RequestsAssumption DEF WriteProgress, TypeOK
<1>2. ASSUME NEW r \in Requests, Advance(r), ~WriteProgress(r)
      PROVE  UNCHANGED <<done, edits>>
  BY <1>2 DEF Advance, GrantView, RefuseView, SelectValid, CountLessons, CountWatched,
              MarkCompleted, FindCertificate, FindCompletedEnrolment, DecideEligible,
              LoadCourse, MarkAtIssue, WriteFile, CreateRow
<1>3. ASSUME NEW r \in Requests,
             StartImport(r) \/ StartIssue(r) \/ Fail(r)
             \/ \E v \in Videos, c \in BOOLEAN : StartReport(r, v, c)
      PROVE  UNCHANGED <<done, edits>>
  BY <1>3 DEF StartReport, StartImport, StartIssue, Start, Fail
<1>4. ASSUME NEW v \in Videos, CheckModule(v) \/ InsertLesson(v) \/ DeleteLesson(v)
      PROVE  UNCHANGED done /\ edits' \in {edits, edits + 1}
  BY <1>4 DEF CheckModule, InsertLesson, DeleteLesson, Edit
<1>5. ASSUME NEW m \in Modules, DeleteModule(m)
      PROVE  UNCHANGED done /\ edits' \in {edits, edits + 1}
  BY <1>5 DEF DeleteModule, Edit
<1>6. ASSUME (\E e \in Enrolments : Enrol(e) \/ RemoveEnrolment(e))
             \/ (\E c \in {"published", "unpublished", "deleted"} : ChangeCourse(c))
      PROVE  UNCHANGED <<done, edits>>
  BY <1>6 DEF Enrol, RemoveEnrolment, ChangeCourse
<1>7. CASE UNCHANGED vars
  BY <1>7 DEF vars
<1>8. edits \in Nat
  BY BoundsAssumption DEF TypeOK
<1>9. QED
  BY <1>1, <1>2, <1>3, <1>4, <1>5, <1>6, <1>7, <1>8 DEF Next

LEMMA EarnedStays ==
    ASSUME TypeOK, [Next]_vars, NEW s \in Students, Earned(s)
    PROVE  Earned(s)'
  BY Monotone DEF Earned

LEMMA StepUnedited ==
    ASSUME TypeOK, Unedited, [Next]_vars
    PROVE  Unedited'
<1> SUFFICES ASSUME edits' = 0
             PROVE  /\ \A v \in Videos :
                          lesson'[v] = IF v \in InitialLessons THEN "live" ELSE "absent"
                    /\ modules' = Modules
                    /\ \A s \in Students : done'[s] \subseteq InitialLessons
                    /\ \A r \in Requests : lessons'[r] \subseteq InitialLessons
  BY DEF Unedited
<1> DEFINE Goal == /\ \A v \in Videos :
                          lesson'[v] = IF v \in InitialLessons THEN "live" ELSE "absent"
                   /\ modules' = Modules
                   /\ \A s \in Students : done'[s] \subseteq InitialLessons
                   /\ \A r \in Requests : lessons'[r] \subseteq InitialLessons
<1>1. edits = 0
  BY Monotone
<1>2. /\ \A v \in Videos : lesson[v] = IF v \in InitialLessons THEN "live" ELSE "absent"
      /\ modules = Modules
      /\ \A s \in Students : done[s] \subseteq InitialLessons
      /\ \A r \in Requests : lessons[r] \subseteq InitialLessons
  BY <1>1 DEF Unedited
<1>3. LiveLessons = InitialLessons
  BY <1>1, LiveIsInitial
<1>4. ~Edit
  BY <1>1 DEF Edit
<1> USE DEF content, records, locals, counters
<1>5. ASSUME NEW r \in Requests, Advance(r) PROVE Goal
  <2>1. CASE SelectValid(r)
    BY <2>1, <1>2, <1>3 DEF SelectValid, TypeOK
  <2>2. CASE WriteProgress(r)
    <3>1. StudentOf[r] \in Students
      BY RequestsAssumption
    <3>2. UNCHANGED <<lesson, modules>> /\ lessons' = [lessons EXCEPT ![r] = {}]
      BY <2>2 DEF WriteProgress, ForgetLessons
    <3>3. \E news \in SUBSET InitialLessons :
             done' = [done EXCEPT ![StudentOf[r]] = @ \cup news]
      BY <2>2, <1>2 DEF WriteProgress
    <3>4. QED BY <1>2, <3>1, <3>2, <3>3 DEF TypeOK
  <2>3. CASE RefuseView(r)
    BY <2>3, <1>2 DEF RefuseView, ForgetLessons, TypeOK
  <2>4. CASE ~SelectValid(r) /\ ~WriteProgress(r) /\ ~RefuseView(r)
    <3>1. UNCHANGED <<lesson, modules, done, lessons>>
      BY <1>5, <2>4 DEF Advance, GrantView, CountLessons, CountWatched, MarkCompleted,
           FindCertificate, FindCompletedEnrolment, DecideEligible, LoadCourse,
           MarkAtIssue, WriteFile, CreateRow
    <3>2. QED BY <3>1, <1>2
  <2>5. QED BY <2>1, <2>2, <2>3, <2>4
<1>6. ASSUME NEW r \in Requests, NEW v \in Videos, NEW c \in BOOLEAN, StartReport(r, v, c)
      PROVE  Goal
  <2>1. v \in InitialLessons
    BY <1>6, <1>2 DEF StartReport
  <2>2. QED BY <1>6, <1>2, <2>1 DEF StartReport, Start, TypeOK
<1>7. ASSUME NEW r \in Requests, StartImport(r) \/ StartIssue(r) PROVE Goal
  BY <1>7, <1>2 DEF StartImport, StartIssue, Start, TypeOK
<1>8. ASSUME NEW r \in Requests, Fail(r) PROVE Goal
  BY <1>8, <1>2 DEF Fail, ForgetLessons, TypeOK
<1>9. ASSUME NEW v \in Videos, CheckModule(v) \/ DeleteLesson(v) PROVE Goal
  BY <1>9, <1>4 DEF CheckModule, DeleteLesson
<1>10. ASSUME NEW v \in Videos, InsertLesson(v) PROVE Goal
  BY <1>10, <1>2 DEF InsertLesson
<1>11. ASSUME NEW m \in Modules, DeleteModule(m) PROVE Goal
  BY <1>11, <1>4 DEF DeleteModule
<1>12. ASSUME (\E e \in Enrolments : Enrol(e) \/ RemoveEnrolment(e))
              \/ (\E c \in {"published", "unpublished", "deleted"} : ChangeCourse(c))
       PROVE  Goal
  BY <1>12, <1>2 DEF Enrol, RemoveEnrolment, ChangeCourse
<1>13. CASE UNCHANGED vars
  BY <1>13, <1>2 DEF vars
<1>14. QED
  BY <1>5, <1>6, <1>7, <1>8, <1>9, <1>10, <1>11, <1>12, <1>13 DEF Next

\* The three ways a step treats the two counts of a request.
TakesCounts ==
    /\ \/ UNCHANGED total
       \/ \E q \in Requests : total' = [total EXCEPT ![q] = Cardinality(LiveLessons)]
       \/ \E q \in Requests : total' = [total EXCEPT ![q] = NotCounted]
    /\ \/ UNCHANGED watched
       \/ \E q \in Requests :
             watched' = [watched EXCEPT ![q] = Cardinality(done[StudentOf[q]])]
       \/ \E q \in Requests : watched' = [watched EXCEPT ![q] = NotCounted]

LEMMA CountSteps == [Next]_vars => TakesCounts
<1> SUFFICES ASSUME [Next]_vars PROVE TakesCounts
  OBVIOUS
<1> USE DEF content, records, locals, counters
<1>1. ASSUME NEW r \in Requests, CountLessons(r) PROVE TakesCounts
  BY <1>1 DEF CountLessons, TakesCounts
<1>2. ASSUME NEW r \in Requests, CountWatched(r) PROVE TakesCounts
  BY <1>2 DEF CountWatched, TakesCounts
<1>3. ASSUME NEW r \in Requests, MarkCompleted(r) \/ DecideEligible(r) \/ Fail(r)
      PROVE  TakesCounts
  BY <1>3 DEF MarkCompleted, DecideEligible, Fail, ForgetCounts, TakesCounts
<1>4. ASSUME UNCHANGED <<total, watched>> PROVE TakesCounts
  BY <1>4 DEF TakesCounts
<1>5. ASSUME NEW r \in Requests, Advance(r), ~CountLessons(r), ~CountWatched(r),
             ~MarkCompleted(r), ~DecideEligible(r)
      PROVE  TakesCounts
  BY <1>5, <1>4 DEF Advance, GrantView, RefuseView, SelectValid, WriteProgress,
    FindCertificate, FindCompletedEnrolment, LoadCourse, MarkAtIssue, WriteFile, CreateRow
<1>6. ASSUME NEW r \in Requests,
             StartImport(r) \/ StartIssue(r)
             \/ \E v \in Videos, c \in BOOLEAN : StartReport(r, v, c)
      PROVE  TakesCounts
  BY <1>6, <1>4 DEF StartReport, StartImport, StartIssue, Start
<1>7. ASSUME (\E v \in Videos : CheckModule(v) \/ InsertLesson(v) \/ DeleteLesson(v))
             \/ (\E m \in Modules : DeleteModule(m))
             \/ (\E e \in Enrolments : Enrol(e) \/ RemoveEnrolment(e))
             \/ (\E c \in {"published", "unpublished", "deleted"} : ChangeCourse(c))
      PROVE  TakesCounts
  BY <1>7, <1>4 DEF CheckModule, InsertLesson, DeleteLesson, DeleteModule, Enrol,
                    RemoveEnrolment, ChangeCourse
<1>8. CASE UNCHANGED vars
  BY <1>8, <1>4 DEF vars
<1>9. ASSUME NEW r \in Requests, Advance(r) PROVE TakesCounts
  BY <1>1, <1>2, <1>3, <1>5, <1>9
<1>10. QED BY <1>3, <1>6, <1>7, <1>8, <1>9 DEF Next

LEMMA StepCountInv ==
    ASSUME TypeInv, Unedited, CountInv, [Next]_vars
    PROVE  CountInv'
<1> USE DEF TypeInv
<1>1. TypeOK /\ TypeOK'
  BY StepTypeOK
<1>2. ASSUME NEW r \in Requests
      PROVE  /\ Cardinality(done[StudentOf[r]]) <= Cardinality(done'[StudentOf[r]])
             /\ Cardinality(done[StudentOf[r]]) \in Nat
             /\ Cardinality(done'[StudentOf[r]]) \in Nat
  <2>1. StudentOf[r] \in Students
    BY RequestsAssumption
  <2>2. done[StudentOf[r]] \subseteq done'[StudentOf[r]]
    BY <1>1, <2>1, Monotone
  <2>3. done'[StudentOf[r]] \subseteq Videos
    BY <1>1, <2>1 DEF TypeOK
  <2>4. IsFiniteSet(done'[StudentOf[r]])
    BY <2>3, VideosAssumption, FS_Subset
  <2>5. QED BY <1>1, <2>1, <2>2, <2>4, DoneCount, FS_Subset, FS_CardinalityType
<1>3. ASSUME NEW r \in Requests, edits' = 0, total'[r] # NotCounted
      PROVE  total'[r] = Cardinality(InitialLessons)
  <2>1. edits = 0
    BY <1>1, <1>3, Monotone
  <2>2. total[r] # NotCounted => total[r] = Cardinality(InitialLessons)
    BY <2>1 DEF CountInv
  <2>3. Cardinality(LiveLessons) = Cardinality(InitialLessons)
    BY <2>1, LiveIsInitial
  <2>4. total \in [Requests -> Nat \cup {NotCounted}]
    BY <1>1 DEF TypeOK
  <2>5. QED BY <1>3, <2>2, <2>3, <2>4, CountSteps DEF TakesCounts
<1>4. ASSUME NEW r \in Requests
      PROVE  watched'[r] <= Cardinality(done'[StudentOf[r]])
  <2>1. watched \in [Requests -> Nat \cup {NotCounted}]
    BY <1>1 DEF TypeOK
  <2>2. watched[r] <= Cardinality(done[StudentOf[r]])
    BY DEF CountInv
  <2>3. watched'[r] \in {watched[r], Cardinality(done[StudentOf[r]]), NotCounted}
    BY <2>1, CountSteps DEF TakesCounts
  <2>4. QED BY <1>2, <2>1, <2>2, <2>3 DEF NotCounted
<1>5. QED BY <1>3, <1>4 DEF CountInv

\* A request passes the completion test, or resumes after it, only for a student who
\* has earned the completion, and a certificate or a mark is given only past it.
LEMMA StepEarnedInv ==
    ASSUME TypeInv, Unedited, CountInv, EarnedInv, [Next]_vars
    PROVE  EarnedInv'
<1> USE DEF TypeInv
<1>1. \A s \in Students : Earned(s) => Earned(s)'
  BY EarnedStays
<1>2. \A r \in Requests : StudentOf[r] \in Students
  BY RequestsAssumption
<1>3. ASSUME \A s \in Students : Certified(s)' => Certified(s) \/ Earned(s),
             \A e \in completed' : e \in completed \/ Earned(e[1]),
             \A r \in Requests : Issuing(r)' => Issuing(r) \/ Earned(StudentOf[r])
      PROVE  EarnedInv'
  <2>1. \A e \in completed' : e[1] \in Students
    BY StepTypeOK DEF TypeOK, Enrolments
  <2>2. QED BY <1>1, <1>2, <1>3, <2>1 DEF EarnedInv
<1>4. \A r \in Requests : StudentOf[r] \in Students /\ pc[r] \in PCs
                         /\ (pc[r] # "idle" => kind[r] \in {"report", "import", "issue"})
  BY <1>2 DEF TypeOK, KindOK
\* A step of request r that gives nothing: the others stay where they are.
<1>5. ASSUME NEW r \in Requests, UNCHANGED <<cert, completed>>,
             \A q \in Requests \ {r} : pc'[q] = pc[q] /\ kind'[q] = kind[q],
             Issuing(r)' => Issuing(r) \/ Earned(StudentOf[r])
      PROVE  EarnedInv'
  <2>1. \A q \in Requests : Issuing(q)' => Issuing(q) \/ Earned(StudentOf[q])
    BY <1>5 DEF Issuing
  <2>2. QED BY <1>3, <1>5, <2>1 DEF Certified
<1>6. ASSUME UNCHANGED <<cert, completed, pc, kind>> PROVE EarnedInv'
  BY <1>3, <1>6 DEF Certified, Issuing
<1> DEFINE Moves(r, to) == /\ pc' = [pc EXCEPT ![r] = to]
                           /\ kind' \in {kind, [kind EXCEPT ![r] = "none"]}
                           /\ to # "idle" => UNCHANGED kind
<1>7. ASSUME NEW r \in Requests, NEW to,
             Moves(r, to), UNCHANGED <<cert, completed>>,
             \/ to \in {"idle", "view", "valid", "write", "count", "enrolled", "recount"}
             \/ to = "find" /\ kind[r] # "issue"
             \/ Issuing(r)
             \/ Earned(StudentOf[r])
      PROVE  EarnedInv'
  <2>1. \A q \in Requests \ {r} : pc'[q] = pc[q] /\ kind'[q] = kind[q]
    BY <1>7 DEF TypeOK
  <2>2. Issuing(r)' => Issuing(r) \/ Earned(StudentOf[r])
    BY <1>7 DEF TypeOK, Issuing
  <2>3. QED BY <1>5, <1>7, <2>1, <2>2
<1> USE DEF records, locals
<1>8. ASSUME NEW r \in Requests, Advance(r) PROVE EarnedInv'
  <2> USE <1>8
  <2>1. CASE GrantView(r)
    <3>1. kind[r] \in {"report", "import", "issue"}
      BY <2>1, <1>4 DEF GrantView, Goto
    <3>2. AfterView[kind[r]] \in {"write", "valid", "enrolled"}
      BY <3>1 DEF AfterView
    <3>3. Moves(r, AfterView[kind[r]]) /\ UNCHANGED <<cert, completed>>
      BY <2>1, <3>2 DEF GrantView, Goto
    <3>4. QED BY <1>7, <3>2, <3>3
  <2>2. CASE RefuseView(r)
    <3>1. Moves(r, "idle") /\ UNCHANGED <<cert, completed>>
      BY <2>2 DEF RefuseView, Leave, Goto
    <3>2. QED BY <1>7, <3>1
  <2>3. CASE SelectValid(r)
    <3>1. Moves(r, "write") /\ UNCHANGED <<cert, completed>>
      BY <2>3 DEF SelectValid, Goto
    <3>2. QED BY <1>7, <3>1
  <2>4. CASE WriteProgress(r)
    <3>1. \E to \in {"idle", "count"} : Moves(r, to) /\ UNCHANGED <<cert, completed>>
      BY <2>4 DEF WriteProgress, Leave, Goto
    <3>2. QED BY <1>7, <3>1
  <2>5. CASE CountLessons(r) \/ CountWatched(r)
    BY <2>5, <1>6 DEF CountLessons, CountWatched
  <2>6. CASE MarkCompleted(r)
    <3>1. BothCounted(r) /\ pc[r] = "count"
      BY <2>6 DEF MarkCompleted, Leave, Goto
    <3>2. \E to \in {"idle", "find"} : Moves(r, to)
      BY <2>6 DEF MarkCompleted, Leave, Goto
    <3>3. CASE ~Reached(r)
      <4>1. UNCHANGED <<cert, completed>>
            /\ Moves(r, IF kind[r] = "import" THEN "idle" ELSE "find")
        BY <2>6, <3>3 DEF MarkCompleted, Leave, Goto
      <4>2. kind[r] # "issue"
        BY <3>1 DEF KindOK
      <4>3. QED BY <4>1, <4>2, <1>7
    <3>4. CASE Reached(r)
      <4>1. Earned(StudentOf[r])
        BY <3>1, <3>4, ReachedIsEarned
      <4>2. completed' = completed \cup {e \in active : e[1] = StudentOf[r]} /\ UNCHANGED cert
        BY <2>6, <3>4 DEF MarkCompleted, MarkEnrolments
      <4>3. \A q \in Requests : Issuing(q)' => Issuing(q) \/ Earned(StudentOf[q])
        BY <3>2, <4>1 DEF TypeOK, Issuing
      <4>4. QED BY <4>1, <4>2, <4>3, <1>3 DEF Certified
    <3>5. QED BY <3>3, <3>4
  <2>7. CASE FindCertificate(r)
    <3>1. kind[r] = "issue" => Issuing(r)
      BY <2>7 DEF FindCertificate, Leave, Goto, Issuing
    <3>2. \E to : Moves(r, to) /\ to \in {"idle", "enrolled", "load"}
                 /\ (to = "load" => kind[r] = "issue") /\ UNCHANGED <<cert, completed>>
      BY <2>7 DEF FindCertificate, Leave, Goto
    <3>3. QED BY <1>7, <3>1, <3>2
  <2>8. CASE FindCompletedEnrolment(r)
    <3>1. CASE \E e \in active \cap completed : e[1] = StudentOf[r]
      <4>1. Earned(StudentOf[r])
        BY <3>1 DEF EarnedInv
      <4>2. \E to : Moves(r, to) /\ UNCHANGED <<cert, completed>>
        BY <2>8 DEF FindCompletedEnrolment, Goto, Eligible
      <4>3. QED BY <1>7, <4>1, <4>2
    <3>2. CASE ~ \E e \in active \cap completed : e[1] = StudentOf[r]
      <4>1. Moves(r, "recount") /\ UNCHANGED <<cert, completed>>
        BY <2>8, <3>2 DEF FindCompletedEnrolment, Goto
      <4>2. QED BY <1>7, <4>1
    <3>3. QED BY <3>1, <3>2
  <2>9. CASE DecideEligible(r)
    <3>1. CASE Reached(r)
      <4>1. Earned(StudentOf[r])
        BY <2>9, <3>1, ReachedIsEarned DEF DecideEligible
      <4>2. \E to \in {"find", "load"} : Moves(r, to) /\ UNCHANGED <<cert, completed>>
        BY <2>9, <3>1 DEF DecideEligible, Leave, Goto, Eligible
      <4>3. QED BY <1>7, <4>1, <4>2
    <3>2. CASE ~Reached(r)
      <4>1. Moves(r, "idle") /\ UNCHANGED <<cert, completed>>
        BY <2>9, <3>2 DEF DecideEligible, Leave, Goto
      <4>2. QED BY <1>7, <4>1
    <3>3. QED BY <3>1, <3>2
  <2>10. CASE LoadCourse(r)
    <3>1. Issuing(r) /\ UNCHANGED <<cert, completed>>
          /\ \E to \in {"idle", "mark"} : Moves(r, to)
      BY <2>10 DEF LoadCourse, Leave, Goto, Issuing
    <3>2. QED BY <1>7, <3>1
  <2>11. CASE MarkAtIssue(r)
    <3>1. Issuing(r) /\ pc' = [pc EXCEPT ![r] = "file"] /\ UNCHANGED <<kind, cert>>
          /\ completed' = completed \cup {e \in active : e[1] = StudentOf[r]}
      BY <2>11 DEF MarkAtIssue, MarkEnrolments, Goto, Issuing
    <3>2. Earned(StudentOf[r])
      BY <3>1 DEF EarnedInv
    <3>3. \A q \in Requests : Issuing(q)' => Issuing(q) \/ Earned(StudentOf[q])
      BY <3>1, <3>2 DEF TypeOK, Issuing
    <3>4. QED BY <3>1, <3>2, <3>3, <1>3 DEF Certified
  <2>12. CASE WriteFile(r)
    <3>1. Issuing(r) /\ Moves(r, "row") /\ UNCHANGED <<cert, completed>>
      BY <2>12 DEF WriteFile, Goto, Issuing
    <3>2. QED BY <1>7, <3>1
  <2>13. CASE CreateRow(r)
    <3>1. Issuing(r) /\ UNCHANGED completed /\ Moves(r, "idle")
      BY <2>13 DEF CreateRow, Leave, Goto, Issuing
    <3>2. Earned(StudentOf[r])
      BY <3>1 DEF EarnedInv
    <3>3. \A s \in Students : Certified(s)' => Certified(s) \/ s = StudentOf[r]
      BY <2>13, <1>2 DEF CreateRow, Certified, TypeOK
    <3>4. \A q \in Requests : Issuing(q)' => Issuing(q) \/ Earned(StudentOf[q])
      BY <3>1, <3>2 DEF TypeOK, Issuing
    <3>5. QED BY <3>1, <3>2, <3>3, <3>4, <1>3
  <2>14. QED
    BY <2>1, <2>2, <2>3, <2>4, <2>5, <2>6, <2>7, <2>8, <2>9, <2>10, <2>11, <2>12, <2>13
    DEF Advance
<1>9. ASSUME NEW r \in Requests,
             StartImport(r) \/ StartIssue(r)
             \/ \E v \in Videos, c \in BOOLEAN : StartReport(r, v, c)
      PROVE  EarnedInv'
  <2>1. /\ UNCHANGED <<cert, completed>> /\ pc' = [pc EXCEPT ![r] = "view"]
        /\ \E k : kind' = [kind EXCEPT ![r] = k]
    BY <1>9 DEF StartReport, StartImport, StartIssue, Start, Goto
  <2>2. \A q \in Requests \ {r} : pc'[q] = pc[q] /\ kind'[q] = kind[q]
    BY <2>1 DEF TypeOK
  <2>3. ~Issuing(r)'
    BY <2>1 DEF TypeOK, Issuing
  <2>4. QED BY <2>1, <2>2, <2>3, <1>5
<1>10. ASSUME NEW r \in Requests, Fail(r) PROVE EarnedInv'
  <2>1. Moves(r, "idle") /\ UNCHANGED <<cert, completed>>
    BY <1>10 DEF Fail, Leave, Goto
  <2>2. QED BY <1>7, <2>1
<1>11. ASSUME (\E v \in Videos : CheckModule(v) \/ InsertLesson(v) \/ DeleteLesson(v))
              \/ (\E m \in Modules : DeleteModule(m))
              \/ (\E e \in Enrolments : Enrol(e) \/ RemoveEnrolment(e))
              \/ (\E c \in {"published", "unpublished", "deleted"} : ChangeCourse(c))
       PROVE  EarnedInv'
  BY <1>11, <1>6 DEF CheckModule, InsertLesson, DeleteLesson, DeleteModule, Enrol,
                     RemoveEnrolment, ChangeCourse
<1>12. CASE UNCHANGED vars
  BY <1>12, <1>6 DEF vars
<1>13. QED
  BY <1>8, <1>9, <1>10, <1>11, <1>12 DEF Next

LEMMA InitIInv == Init => IInv
<1> SUFFICES ASSUME Init PROVE IInv
  OBVIOUS
<1>1. TypeInv
  BY InitTypeOK DEF TypeInv
<1>2. Unedited
  BY DEF Init, Unedited
<1>3. CountInv
  <2>1. \A r \in Requests : Cardinality(done[StudentOf[r]]) \in Nat
    BY <1>1, RequestsAssumption, DoneCount DEF TypeInv
  <2>2. \A r \in Requests : watched[r] = -1 /\ total[r] = NotCounted
    BY DEF Init, NotCounted
  <2>3. QED BY <2>1, <2>2 DEF CountInv
<1>4. EarnedInv
  BY DEF Init, EarnedInv, Certified, Issuing
<1>5. QED BY <1>1, <1>2, <1>3, <1>4 DEF IInv

LEMMA StepIInv == IInv /\ [Next]_vars => IInv'
  BY StepTypeOK, StepUnedited, StepCountInv, StepEarnedInv DEF IInv, TypeInv

LEMMA AlwaysIInv == Spec => []IInv
  BY InitIInv, StepIInv, PTL DEF Spec

\* While nobody edits the course, a completed enrolment or a certificate means that
\* every lesson was finished, whatever requests race (tryMarkCourseCompleted,
\* isCourseCompleted read two counts at two moments).
THEOREM CompletionIsEarned == Spec => []CompletionMeansAllLessons
<1>1. IInv => CompletionMeansAllLessons
  <2> SUFFICES ASSUME IInv, edits = 0, NEW s \in Students,
                      Certified(s) \/ \E i \in Institutions : <<s, i>> \in completed
               PROVE  InitialLessons \subseteq done[s]
    BY DEF CompletionMeansAllLessons
  <2>1. Earned(s)
    BY DEF IInv, EarnedInv
  <2>2. QED BY <2>1 DEF Earned
<1>2. QED BY <1>1, AlwaysIInv, PTL

-----------------------------------------------------------------------------
(* The services implement the ledger.                                      *)

LEMMA InitLedger == Init => Ledger!Init
  BY DEF Init, Ledger!Init, Certified

\* Each step of a request or of the teacher is a step of the ledger, or none.
LEMMA StepLedger == IInv /\ [Next]_vars => [Ledger!Next]_(Ledger!ledger)
<1> SUFFICES ASSUME IInv, [Next]_vars PROVE [Ledger!Next]_(Ledger!ledger)
  OBVIOUS
<1> USE DEF content, records, locals, counters
<1>t. TypeOK /\ edits \in Nat /\ \A r \in Requests : StudentOf[r] \in Students
  BY BoundsAssumption, RequestsAssumption DEF IInv, TypeInv, TypeOK
<1>e. \A s \in Students : Earned(s) <=> Ledger!Earned(s)
  BY <1>t DEF Earned, Ledger!Earned
<1>0. ASSUME UNCHANGED <<done, completed, cert, edits>>
      PROVE  [Ledger!Next]_(Ledger!ledger)
  BY <1>0 DEF Ledger!ledger, Certified
<1>1. ASSUME NEW r \in Requests, Advance(r) PROVE [Ledger!Next]_(Ledger!ledger)
  <2> DEFINE s == StudentOf[r]
  <2>0. s \in Students
    BY <1>t
  <2>1. CASE WriteProgress(r)
    <3>1. UNCHANGED <<completed, cert, edits>>
      BY <2>1 DEF WriteProgress
    <3>2. \E L \in SUBSET Videos : done' = [done EXCEPT ![s] = @ \cup L]
      BY <2>1, <1>t DEF WriteProgress, TypeOK
    <3>3. Ledger!Watch(s)
      BY <3>1, <3>2 DEF Ledger!Watch, Certified
    <3>4. QED BY <2>0, <3>3 DEF Ledger!Next
  <2>2. ASSUME MarkEnrolments(s), UNCHANGED <<done, cert, edits>>, Earned(s)
        PROVE  [Ledger!Next]_(Ledger!ledger)
    <3> DEFINE I == {i \in Institutions : <<s, i>> \in active}
    <3>1. {e \in active : e[1] = s} = {s} \X I
      BY <1>t, <2>0 DEF TypeOK, Enrolments
    <3>2. completed' = completed \cup ({s} \X I)
      BY <2>2, <3>1 DEF MarkEnrolments
    <3>3. Ledger!Complete(s)
      BY <2>0, <2>2, <3>2, <1>e DEF Ledger!Complete, Certified
    <3>4. QED BY <2>0, <3>3 DEF Ledger!Next
  <2>3. CASE MarkCompleted(r)
    <3>1. UNCHANGED <<done, cert, edits>>
      BY <2>3 DEF MarkCompleted
    <3>2. CASE Reached(r)
      <4>1. Earned(s)
        BY <1>t, <2>3, <3>2, ReachedIsEarned DEF MarkCompleted, IInv
      <4>2. MarkEnrolments(s)
        BY <2>3, <3>2 DEF MarkCompleted
      <4>3. QED BY <3>1, <4>1, <4>2, <2>2
    <3>3. CASE ~Reached(r)
      <4>1. UNCHANGED completed
        BY <2>3, <3>3 DEF MarkCompleted
      <4>2. QED BY <3>1, <4>1, <1>0
    <3>4. QED BY <3>2, <3>3
  <2>4. CASE MarkAtIssue(r)
    <3>1. Issuing(r) /\ MarkEnrolments(s) /\ UNCHANGED <<done, cert, edits>>
      BY <2>4 DEF MarkAtIssue, Goto, Issuing
    <3>2. QED BY <3>1, <2>2 DEF IInv, EarnedInv
  <2>5. CASE CreateRow(r)
    <3>1. Issuing(r) /\ UNCHANGED <<done, completed, edits>>
      BY <2>5 DEF CreateRow, Leave, Goto, Issuing
    <3>2. Ledger!Earned(s)
      BY <3>1, <2>0, <1>e DEF IInv, EarnedInv
    <3>3. CASE Certified(s)
      BY <2>5, <3>1, <3>3, <1>0 DEF CreateRow
    <3>4. CASE ~Certified(s) /\ key[r] = NoFile
      BY <2>5, <3>1, <3>4, <2>0, <1>t, <1>0 DEF CreateRow, TypeOK, Certified
    <3>5. CASE ~Certified(s) /\ key[r] # NoFile
      <4>1. \A q \in Students : Certified(q)' <=> (Certified(q) \/ q = s)
        BY <2>5, <3>5, <2>0, <1>t DEF CreateRow, TypeOK, Certified
      <4>2. Ledger!Certify(s)
        BY <3>1, <3>2, <3>5, <4>1, <2>0 DEF Ledger!Certify
      <4>3. QED BY <2>0, <4>2 DEF Ledger!Next
    <3>6. QED BY <3>3, <3>4, <3>5
  <2>6. CASE ~WriteProgress(r) /\ ~MarkCompleted(r) /\ ~MarkAtIssue(r) /\ ~CreateRow(r)
    <3>1. UNCHANGED <<done, completed, cert, edits>>
      BY <1>1, <2>6 DEF Advance, GrantView, RefuseView, SelectValid, CountLessons,
           CountWatched, FindCertificate, FindCompletedEnrolment, DecideEligible,
           LoadCourse, WriteFile
    <3>2. QED BY <3>1, <1>0
  <2>7. QED BY <2>1, <2>3, <2>4, <2>5, <2>6
<1>2. ASSUME NEW r \in Requests,
             StartImport(r) \/ StartIssue(r) \/ Fail(r)
             \/ \E v \in Videos, c \in BOOLEAN : StartReport(r, v, c)
      PROVE  [Ledger!Next]_(Ledger!ledger)
  BY <1>2, <1>0 DEF StartReport, StartImport, StartIssue, Start, Fail
<1>3. ASSUME Edit, UNCHANGED <<done, completed, cert>>
      PROVE  [Ledger!Next]_(Ledger!ledger)
  <2>1. (edits > 0)' = TRUE
    BY <1>3, <1>t DEF Edit
  <2>2. Ledger!EditCourse
    BY <1>3, <2>1 DEF Ledger!EditCourse, Certified
  <2>3. QED BY <2>2 DEF Ledger!Next
<1>4. ASSUME NEW v \in Videos, CheckModule(v) \/ InsertLesson(v) \/ DeleteLesson(v)
      PROVE  [Ledger!Next]_(Ledger!ledger)
  BY <1>4, <1>0, <1>3 DEF CheckModule, InsertLesson, DeleteLesson
<1>5. ASSUME NEW m \in Modules, DeleteModule(m) PROVE [Ledger!Next]_(Ledger!ledger)
  BY <1>5, <1>3 DEF DeleteModule
<1>6. ASSUME (\E e \in Enrolments : Enrol(e) \/ RemoveEnrolment(e))
             \/ (\E c \in {"published", "unpublished", "deleted"} : ChangeCourse(c))
      PROVE  [Ledger!Next]_(Ledger!ledger)
  BY <1>6, <1>0 DEF Enrol, RemoveEnrolment, ChangeCourse
<1>7. CASE UNCHANGED vars
  BY <1>7, <1>0 DEF vars
<1>8. QED
  BY <1>1, <1>2, <1>4, <1>5, <1>6, <1>7 DEF Next

\* The interleaved services implement the ledger: completions and certificates only
\* accumulate, and each is given at a step at which it is earned.
THEOREM ImplementsLedger == Spec => LedgerSpec
<1>1. Init => Ledger!Init
  BY InitLedger
<1>2. IInv /\ [Next]_vars => [Ledger!Next]_(Ledger!ledger)
  BY StepLedger
<1>3. QED BY <1>1, <1>2, AlwaysIInv, PTL DEF Spec, LedgerSpec, Ledger!Spec

-----------------------------------------------------------------------------
(* The last lesson is recognised.                                          *)

Undisturbed == edits = 0 /\ admin = 0 /\ failures = 0

\* A student who is enrolled and has finished the course as it was published.
Full(s) == InitialLessons # {} /\ InitialLessons \subseteq done[s] /\ Enrolled(s)
AllMarked(s) == \A i \in Institutions : <<s, i>> \in active => <<s, i>> \in completed

\* A request that has not counted the lessons watched yet, or has counted them all.
Fresh(r) == watched[r] \in {NotCounted, Cardinality(InitialLessons)}

\* A request that will find the student's course complete and mark the enrolments.
WillMark(r) == pc[r] = "count" /\ Fresh(r)

\* A request that will end with the certificate.  An import will only if it marks an
\* enrolment: when another request marks them all first, that request goes on instead.
WillIssue(r) ==
    \/ WillMark(r) /\ (kind[r] = "report" \/ ~AllMarked(StudentOf[r]))
    \/ pc[r] = "recount" /\ Fresh(r)
    \/ pc[r] \in {"find", "enrolled", "load", "mark", "file", "row"}

MarkInHand(s) ==
    AllMarked(s) \/ \E r \in Requests : StudentOf[r] = s /\ WillMark(r)
IssueInHand(s) ==
    Certified(s) \/ \E r \in Requests : StudentOf[r] = s /\ WillIssue(r)

\* The lessons watched are counted for one test and forgotten after it.
CountsAreOfThisTest == \A r \in Requests : watched[r] # NotCounted => Counting(r)

RecognisedInv ==
    Undisturbed =>
        /\ course = "published"
        /\ \A s \in Students : Full(s) => MarkInHand(s) /\ IssueInHand(s)

LEMMA StepCountsAreOfThisTest ==
    ASSUME TypeInv, CountsAreOfThisTest, [Next]_vars
    PROVE  CountsAreOfThisTest'
<1> USE DEF CountsAreOfThisTest, Counting, TypeInv, content, records, locals, counters
<1>t. /\ pc \in [Requests -> PCs] /\ watched \in [Requests -> Nat \cup {NotCounted}]
  BY DEF TypeOK
<1>1. ASSUME UNCHANGED <<pc, watched>> PROVE CountsAreOfThisTest'
  BY <1>1
<1>2. ASSUME NEW r \in Requests, NEW to \in PCs, UNCHANGED watched,
             pc[r] \notin {"count", "recount"}, pc' = [pc EXCEPT ![r] = to]
      PROVE  CountsAreOfThisTest'
  BY <1>t, <1>2
<1>3. ASSUME NEW r \in Requests, NEW to \in PCs, ForgetCounts(r),
             pc' = [pc EXCEPT ![r] = to]
      PROVE  CountsAreOfThisTest'
  BY <1>t, <1>3 DEF ForgetCounts
<1>4. ASSUME NEW r \in Requests, Advance(r) PROVE CountsAreOfThisTest'
  <2>1. CASE GrantView(r)
    <3>1. AfterView[kind[r]] \in PCs
      BY <2>1 DEF GrantView, Goto, AfterView, KindOK, TypeOK, PCs
    <3>2. QED BY <2>1, <3>1, <1>2 DEF GrantView, Goto
  <2>2. CASE RefuseView(r) \/ SelectValid(r) \/ WriteProgress(r)
    BY <2>2, <1>2 DEF RefuseView, SelectValid, WriteProgress, Goto, Leave, PCs
  <2>3. CASE CountLessons(r)
    BY <2>3, <1>1 DEF CountLessons
  <2>4. CASE CountWatched(r)
    BY <2>4, <1>t DEF CountWatched
  <2>5. CASE MarkCompleted(r) \/ DecideEligible(r)
    BY <2>5, <1>3 DEF MarkCompleted, DecideEligible, Eligible, Goto, Leave, PCs
  <2>6. CASE FindCertificate(r) \/ FindCompletedEnrolment(r) \/ LoadCourse(r)
    BY <2>6, <1>2 DEF FindCertificate, FindCompletedEnrolment, LoadCourse, Eligible,
                      Goto, Leave, PCs
  <2>7. CASE MarkAtIssue(r) \/ WriteFile(r) \/ CreateRow(r)
    BY <2>7, <1>2 DEF MarkAtIssue, WriteFile, CreateRow, Goto, Leave, PCs
  <2>8. QED
    BY <1>4, <2>1, <2>2, <2>3, <2>4, <2>5, <2>6, <2>7 DEF Advance
<1>5. ASSUME NEW r \in Requests,
             StartImport(r) \/ StartIssue(r)
             \/ \E v \in Videos, c \in BOOLEAN : StartReport(r, v, c)
      PROVE  CountsAreOfThisTest'
  <2>1. pc[r] = "idle" /\ pc' = [pc EXCEPT ![r] = "view"] /\ UNCHANGED watched
    BY <1>5 DEF StartReport, StartImport, StartIssue, Start, Goto
  <2>2. QED BY <2>1, <1>2 DEF PCs
<1>6. ASSUME NEW r \in Requests, Fail(r) PROVE CountsAreOfThisTest'
  BY <1>6, <1>3 DEF Fail, Leave, Goto, PCs
<1>7. ASSUME (\E v \in Videos : CheckModule(v) \/ InsertLesson(v) \/ DeleteLesson(v))
             \/ (\E m \in Modules : DeleteModule(m))
             \/ (\E e \in Enrolments : Enrol(e) \/ RemoveEnrolment(e))
             \/ (\E c \in {"published", "unpublished", "deleted"} : ChangeCourse(c))
      PROVE  CountsAreOfThisTest'
  BY <1>7, <1>1 DEF CheckModule, InsertLesson, DeleteLesson, DeleteModule, Enrol,
                    RemoveEnrolment, ChangeCourse
<1>8. CASE UNCHANGED vars
  BY <1>8, <1>1 DEF vars
<1>9. QED BY <1>4, <1>5, <1>6, <1>7, <1>8 DEF Next

\* What a step of one request leaves alone, and what it only adds to.
LEMMA AdvanceFrame ==
    ASSUME TypeInv, FilesInv, NEW q \in Requests, Advance(q)
    PROVE  /\ UNCHANGED <<active, course, edits, admin, failures>>
           /\ completed \subseteq completed'
           /\ \A s \in Students : Certified(s) => Certified(s)'
           /\ \A r \in Requests \ {q} :
                 pc'[r] = pc[r] /\ kind'[r] = kind[r] /\ watched'[r] = watched[r]
<1> USE DEF content, records, locals, counters
<1>t. /\ pc \in [Requests -> PCs] /\ watched \in [Requests -> Nat \cup {NotCounted}]
      /\ kind \in [Requests -> {"none", "report", "import", "issue"}]
  BY DEF TypeInv, TypeOK
<1>1. UNCHANGED <<active, course, edits, admin, failures>>
  BY DEF Advance, GrantView, RefuseView, SelectValid, WriteProgress, CountLessons,
         CountWatched, MarkCompleted, FindCertificate, FindCompletedEnrolment,
         DecideEligible, LoadCourse, MarkAtIssue, WriteFile, CreateRow
<1>2. completed \subseteq completed'
  BY DEF Advance, GrantView, RefuseView, SelectValid, WriteProgress, CountLessons,
         CountWatched, MarkCompleted, FindCertificate, FindCompletedEnrolment,
         DecideEligible, LoadCourse, MarkAtIssue, WriteFile, CreateRow, MarkEnrolments
<1>3. \A s \in Students : Certified(s) => Certified(s)'
  <2>1. CASE CreateRow(q)
    BY <2>1, RequestsAssumption DEF CreateRow, Certified, TypeInv, TypeOK
  <2>2. CASE ~CreateRow(q)
    <3>1. UNCHANGED cert
      BY <2>2 DEF Advance, GrantView, RefuseView, SelectValid, WriteProgress,
         CountLessons, CountWatched, MarkCompleted, FindCertificate,
         FindCompletedEnrolment, DecideEligible, LoadCourse, MarkAtIssue, WriteFile
    <3>2. QED BY <3>1 DEF Certified
  <2>3. QED BY <2>1, <2>2
<1>4. ASSUME NEW r \in Requests \ {q}
      PROVE  pc'[r] = pc[r] /\ kind'[r] = kind[r] /\ watched'[r] = watched[r]
  <2>1. CASE GrantView(q) \/ RefuseView(q) \/ SelectValid(q) \/ WriteProgress(q)
    BY <1>t, <2>1 DEF GrantView, RefuseView, SelectValid, WriteProgress, Leave, Goto
  <2>2. CASE CountLessons(q) \/ CountWatched(q) \/ MarkCompleted(q) \/ DecideEligible(q)
    BY <1>t, <2>2 DEF CountLessons, CountWatched, MarkCompleted, DecideEligible, Leave,
                      Goto, ForgetCounts
  <2>3. CASE FindCertificate(q) \/ FindCompletedEnrolment(q) \/ LoadCourse(q)
    BY <1>t, <2>3 DEF FindCertificate, FindCompletedEnrolment, LoadCourse, Leave, Goto
  <2>4. CASE MarkAtIssue(q) \/ WriteFile(q) \/ CreateRow(q)
    BY <1>t, <2>4 DEF MarkAtIssue, WriteFile, CreateRow, Leave, Goto
  <2>5. QED BY <2>1, <2>2, <2>3, <2>4 DEF Advance
<1>5. QED BY <1>1, <1>2, <1>3, <1>4

\* A student who has finished everything passes the test of every request that counts
\* from now on: the upsert of the last lesson precedes the counts.
LEMMA FullIsReached ==
    ASSUME IInv, edits = 0, NEW q \in Requests, Full(StudentOf[q]), BothCounted(q), Fresh(q)
    PROVE  Reached(q)
<1>1. IsFiniteSet(InitialLessons)
  BY VideosAssumption, FS_Subset
<1>2. Cardinality(InitialLessons) \in Nat /\ Cardinality(InitialLessons) # 0
  BY <1>1, FS_CardinalityType, FS_EmptySet DEF Full
<1>3. total[q] = Cardinality(InitialLessons) /\ watched[q] = Cardinality(InitialLessons)
  BY DEF IInv, CountInv, BothCounted, Fresh
<1>4. QED BY <1>2, <1>3 DEF Reached

\* A step of a request of this student.  The request that was to mark the enrolments,
\* or to issue the certificate, does so or still will; and one that marks them goes on
\* to issue.
LEMMA OwnStep ==
    ASSUME IInv, FilesInv, CountsAreOfThisTest, edits = 0, course = "published",
           NEW q \in Requests, Advance(q), Full(StudentOf[q])
    PROVE  LET s == StudentOf[q] IN
           /\ WillMark(q) => WillMark(q)' \/ AllMarked(s)'
           /\ WillIssue(q) => WillIssue(q)' \/ Certified(s)'
           /\ AllMarked(s)' => AllMarked(s) \/ WillIssue(q)'
<1> DEFINE s == StudentOf[q]
           Goal == /\ WillMark(q) => WillMark(q)' \/ AllMarked(s)'
                   /\ WillIssue(q) => WillIssue(q)' \/ Certified(s)'
                   /\ AllMarked(s)' => AllMarked(s) \/ WillIssue(q)'
<1> USE DEF content, records, locals, counters
<1>t. /\ pc \in [Requests -> PCs] /\ watched \in [Requests -> Nat \cup {NotCounted}]
      /\ kind \in [Requests -> {"none", "report", "import", "issue"}]
      /\ s \in Students /\ active \subseteq Enrolments
  BY RequestsAssumption DEF IInv, TypeInv, TypeOK
<1>u. Cardinality(InitialLessons)' = Cardinality(InitialLessons)
  OBVIOUS
<1>k. /\ pc[q] # "idle" => kind[q] # "none"
      /\ pc[q] \in {"valid", "write", "count"} => kind[q] # "issue"
  BY DEF IInv, TypeInv, KindOK
<1>a. UNCHANGED active
  BY AdvanceFrame DEF IInv
<1>b. UNCHANGED completed => (AllMarked(s)' <=> AllMarked(s))
  BY <1>a DEF AllMarked
<1>c. pc[q] # "count" /\ pc[q] # "recount" => watched[q] = NotCounted
  BY DEF CountsAreOfThisTest, Counting
\* A step that ends before the test, or after it in a request that still issues.
<1>1. ASSUME UNCHANGED completed, pc[q] # "count",
             WillIssue(q) => pc'[q] \in {"find", "enrolled", "load", "mark", "file", "row"}
                             \/ Certified(s)'
      PROVE  Goal
  BY <1>1, <1>b DEF WillMark, WillIssue
<1>2. CASE GrantView(q) \/ RefuseView(q) \/ SelectValid(q) \/ WriteProgress(q)
  <2>1. pc[q] \in {"view", "valid", "write"} /\ UNCHANGED completed
    BY <1>2 DEF GrantView, RefuseView, SelectValid, WriteProgress, Leave, Goto
  <2>2. QED BY <2>1, <1>1 DEF WillIssue, WillMark
<1>3. CASE CountLessons(q)
  <2>1. UNCHANGED <<pc, kind, watched, completed>>
    BY <1>3 DEF CountLessons
  <2>2. WillMark(q)' = WillMark(q) /\ WillIssue(q)' = WillIssue(q)
    BY <2>1, <1>a DEF WillMark, WillIssue, Fresh, AllMarked
  <2>3. QED BY <2>1, <2>2, <1>b
<1>4. CASE CountWatched(q)
  <2>1. UNCHANGED <<pc, kind, completed>> /\ watched'[q] = Cardinality(done[s])
    BY <1>4, <1>t DEF CountWatched
  <2>2. done[s] = InitialLessons
    BY <1>t DEF IInv, Unedited, Full
  <2>3. Fresh(q)'
    BY <2>1, <2>2 DEF Fresh
  <2>4. (WillMark(q) => WillMark(q)') /\ (WillIssue(q) => WillIssue(q)')
    BY <2>1, <2>3, <1>a DEF WillMark, WillIssue, AllMarked
  <2>5. QED BY <2>1, <2>4, <1>b
<1>5. CASE MarkCompleted(q)
  <2>1. BothCounted(q) /\ pc[q] = "count"
    BY <1>5 DEF MarkCompleted, Leave, Goto
  <2>2. CASE Reached(q)
    <3> DEFINE marked == \E e \in active \ completed : e[1] = s
    <3>1. completed' = completed \cup {e \in active : e[1] = s}
      BY <1>5, <2>2 DEF MarkCompleted, MarkEnrolments
    <3>2. AllMarked(s)'
      BY <3>1, <1>a DEF AllMarked
    <3>3. pc'[q] = IF kind[q] = "import" /\ ~marked THEN "idle" ELSE "find"
      BY <1>5, <2>2, <1>t DEF MarkCompleted, Leave, Goto
    <3>4. ~AllMarked(s) => marked
      BY DEF AllMarked
    <3>5. (WillIssue(q) \/ ~AllMarked(s)) => pc'[q] = "find"
      BY <2>1, <3>3, <3>4 DEF WillIssue
    <3>6. QED BY <3>2, <3>5 DEF WillIssue
  <2>3. CASE ~Reached(q)
    <3>1. ~Fresh(q)
      BY <2>1, <2>3, FullIsReached
    <3>2. UNCHANGED completed
      BY <1>5, <2>3 DEF MarkCompleted
    <3>3. ~WillMark(q) /\ ~WillIssue(q)
      BY <2>1, <3>1 DEF WillMark, WillIssue
    <3>4. QED BY <3>2, <3>3, <1>b
  <2>4. QED BY <2>2, <2>3
<1>6. CASE FindCertificate(q)
  <2>1. /\ pc[q] = "find" /\ UNCHANGED <<completed, cert>>
        /\ ~Certified(s) => pc'[q] \in {"load", "enrolled"}
    BY <1>6, <1>t DEF FindCertificate, Leave, Goto
  <2>2. Certified(s) => Certified(s)'
    BY <2>1 DEF Certified
  <2>3. QED BY <2>1, <2>2, <1>1
<1>7. CASE FindCompletedEnrolment(q)
  <2>1. /\ pc[q] = "enrolled" /\ UNCHANGED <<completed, watched>>
        /\ pc'[q] \in {"find", "load", "recount"}
    BY <1>7, <1>t DEF FindCompletedEnrolment, Goto, Eligible
  <2>2. Fresh(q)'
    BY <2>1, <1>c DEF Fresh
  <2>3. WillIssue(q)' /\ ~WillMark(q)
    BY <2>1, <2>2 DEF WillIssue, WillMark
  <2>4. QED BY <2>3
<1>8. CASE DecideEligible(q)
  <2>1. BothCounted(q) /\ pc[q] = "recount" /\ UNCHANGED completed
    BY <1>8 DEF DecideEligible, Leave, Goto
  <2>2. CASE Reached(q)
    <3>1. pc'[q] \in {"find", "load"}
      BY <1>8, <2>2, <1>t DEF DecideEligible, Leave, Goto, Eligible
    <3>2. QED BY <2>1, <3>1, <1>1
  <2>3. CASE ~Reached(q)
    <3>1. ~Fresh(q)
      BY <2>1, <2>3, FullIsReached
    <3>2. ~WillIssue(q)
      BY <2>1, <3>1 DEF WillIssue, WillMark
    <3>3. QED BY <2>1, <3>2, <1>1
  <2>4. QED BY <2>2, <2>3
<1>9. CASE LoadCourse(q)
  <2>1. pc[q] = "load" /\ pc'[q] = "mark" /\ UNCHANGED completed
    BY <1>9, <1>t DEF LoadCourse, Leave, Goto
  <2>2. QED BY <2>1, <1>1
<1>10. CASE MarkAtIssue(q)
  <2>1. pc[q] = "mark" /\ pc'[q] = "file"
    BY <1>10, <1>t DEF MarkAtIssue, Goto
  <2>2. QED BY <2>1 DEF WillIssue, WillMark
<1>11. CASE WriteFile(q)
  <2>1. pc[q] = "file" /\ pc'[q] = "row" /\ UNCHANGED completed
    BY <1>11, <1>t DEF WriteFile, Goto
  <2>2. QED BY <2>1, <1>1
<1>12. CASE CreateRow(q)
  <2>1. pc[q] = "row" /\ UNCHANGED completed
        /\ cert' = IF Certified(s) THEN cert ELSE [cert EXCEPT ![s] = key[q]]
    BY <1>12 DEF CreateRow, Leave, Goto
  <2>2. key[q] # NoFile
    <3>1. key[q] \in files /\ files \subseteq FileKeys
      BY <2>1 DEF FilesInv, IInv, TypeInv, TypeOK
    <3>2. QED BY <3>1, BoundsAssumption DEF NoFile
  <2>3. Certified(s)'
    BY <2>1, <2>2, <1>t DEF Certified, IInv, TypeInv, TypeOK
  <2>4. QED BY <2>1, <2>3, <1>1
<1>13. QED
  BY <1>2, <1>3, <1>4, <1>5, <1>6, <1>7, <1>8, <1>9, <1>10, <1>11, <1>12 DEF Advance

\* A request of another student leaves this student's enrolments as they are marked.
LEMMA OthersStep ==
    ASSUME TypeInv, NEW q \in Requests, Advance(q), NEW s \in Students, s # StudentOf[q]
    PROVE  AllMarked(s)' => AllMarked(s)
<1>1. UNCHANGED active
      /\ (UNCHANGED completed \/ completed' = completed \cup {e \in active : e[1] = StudentOf[q]})
  BY DEF Advance, GrantView, RefuseView, SelectValid, WriteProgress, CountLessons,
         CountWatched, MarkCompleted, FindCertificate, FindCompletedEnrolment,
         DecideEligible, LoadCourse, MarkAtIssue, WriteFile, CreateRow, MarkEnrolments,
         content, records, locals, counters
<1>2. QED BY <1>1 DEF AllMarked

\* Once the student has finished everything, the marks and the certificate are there or
\* in hand, whichever request moves.
LEMMA StaysInHand ==
    ASSUME IInv, FilesInv, CountsAreOfThisTest, edits = 0, course = "published",
           NEW q \in Requests, Advance(q),
           NEW s \in Students, Full(s), MarkInHand(s), IssueInHand(s)
    PROVE  MarkInHand(s)' /\ IssueInHand(s)'
<1>1. /\ UNCHANGED active
      /\ AllMarked(s) => AllMarked(s)'
      /\ Certified(s) => Certified(s)'
  BY AdvanceFrame DEF AllMarked, IInv
<1>2. ASSUME NEW r \in Requests, r # q
      PROVE  pc'[r] = pc[r] /\ kind'[r] = kind[r] /\ watched'[r] = watched[r]
  BY <1>2, AdvanceFrame DEF IInv
<1>3. ASSUME NEW r \in Requests, r # q, WillMark(r)
      PROVE  WillMark(r)'
  BY <1>2, <1>3 DEF WillMark, Fresh
<1>4. ASSUME NEW r \in Requests, r # q, StudentOf[r] = s, WillIssue(r),
             AllMarked(s)' => AllMarked(s)
      PROVE  WillIssue(r)'
  <2>1. pc'[r] = pc[r] /\ kind'[r] = kind[r] /\ (Fresh(r)' <=> Fresh(r))
    BY <1>2, <1>4 DEF Fresh
  <2>2. AllMarked(StudentOf[r])' <=> AllMarked(s)'
    BY <1>4 DEF AllMarked
  <2>3. QED BY <1>4, <2>1, <2>2 DEF WillIssue, WillMark
<1>5. MarkInHand(s)'
  <2>1. CASE AllMarked(s)
    BY <2>1, <1>1 DEF MarkInHand
  <2>2. ASSUME NEW r \in Requests, StudentOf[r] = s, WillMark(r) PROVE MarkInHand(s)'
    <3>1. WillMark(r)' \/ AllMarked(s)'
      BY <2>2, <1>3, OwnStep
    <3>2. QED BY <2>2, <3>1 DEF MarkInHand
  <2>3. QED BY <2>1, <2>2 DEF MarkInHand
<1>6. IssueInHand(s)'
  <2>1. CASE Certified(s)
    BY <2>1, <1>1 DEF IssueInHand
  <2>2. ASSUME NEW r \in Requests, StudentOf[r] = s, WillIssue(r) PROVE IssueInHand(s)'
    <3>1. CASE r = q
      <4>1. WillIssue(r)' \/ Certified(s)'
        BY <2>2, <3>1, OwnStep
      <4>2. QED BY <2>2, <4>1 DEF IssueInHand
    <3>2. CASE r # q /\ (AllMarked(s)' => AllMarked(s))
      <4>1. WillIssue(r)'
        BY <2>2, <3>2, <1>4
      <4>2. QED BY <2>2, <4>1 DEF IssueInHand
    <3>3. CASE AllMarked(s)' /\ ~AllMarked(s)
      <4>1. StudentOf[q] = s
        BY <3>3, OthersStep DEF IInv
      <4>2. WillIssue(q)'
        BY <3>3, <4>1, OwnStep
      <4>3. QED BY <4>1, <4>2 DEF IssueInHand
    <3>4. QED BY <3>1, <3>2, <3>3
  <2>3. QED BY <2>1, <2>2 DEF IssueInHand
<1>7. QED BY <1>5, <1>6

\* The step that records the last lesson is the upsert of a request that goes on to
\* count, and no enrolment was marked before it.
LEMMA LastLessonInHand ==
    ASSUME IInv, FilesInv, CountsAreOfThisTest, edits = 0,
           NEW q \in Requests, Advance(q),
           NEW s \in Students, ~Full(s), Full(s)'
    PROVE  MarkInHand(s)' /\ IssueInHand(s)'
<1> USE DEF content, records, locals, counters
<1>t. /\ pc \in [Requests -> PCs] /\ watched \in [Requests -> Nat \cup {NotCounted}]
      /\ done \in [Students -> SUBSET Videos]
  BY DEF IInv, TypeInv, TypeOK
<1>1. UNCHANGED active
  BY AdvanceFrame DEF IInv
<1>2. Enrolled(s) /\ InitialLessons # {} /\ done'[s] # done[s]
  BY <1>1 DEF Full, Enrolled
<1>3. WriteProgress(q)
  <2>1. ~WriteProgress(q) => UNCHANGED done
    BY DEF Advance, GrantView, RefuseView, SelectValid, CountLessons, CountWatched,
           MarkCompleted, FindCertificate, FindCompletedEnrolment, DecideEligible,
           LoadCourse, MarkAtIssue, WriteFile, CreateRow
  <2>2. QED BY <2>1, <1>2
<1>4. StudentOf[q] = s /\ complete[q]
  BY <1>2, <1>3, <1>t DEF WriteProgress
<1>5. pc[q] = "write" /\ pc'[q] = "count" /\ UNCHANGED <<watched, completed>>
      /\ kind'[q] = kind[q]
  BY <1>3, <1>4, <1>t DEF WriteProgress, Leave, Goto
<1>6. watched[q] = NotCounted
  BY <1>5 DEF CountsAreOfThisTest, Counting
<1>7. WillMark(q)'
  BY <1>5, <1>6 DEF WillMark, Fresh
<1>8. ~AllMarked(s)
  <2> SUFFICES ASSUME AllMarked(s) PROVE FALSE
    OBVIOUS
  <2>1. PICK i \in Institutions : <<s, i>> \in active
    BY <1>2 DEF Enrolled
  <2>2. <<s, i>> \in completed
    BY <2>1 DEF AllMarked
  <2>3. Earned(<<s, i>>[1])
    BY <2>2 DEF IInv, EarnedInv
  <2>4. InitialLessons \subseteq done[s]
    BY <2>3 DEF Earned
  <2>5. QED BY <2>4, <1>2 DEF Full
<1>9. ~AllMarked(StudentOf[q])'
  BY <1>1, <1>4, <1>5, <1>8 DEF AllMarked
<1>10. WillIssue(q)'
  BY <1>7, <1>9 DEF WillIssue
<1>11. QED BY <1>4, <1>7, <1>10 DEF MarkInHand, IssueInHand

LEMMA StepRecognisedInv ==
    ASSUME IInv, FilesInv, CountsAreOfThisTest, RecognisedInv, [Next]_vars
    PROVE  RecognisedInv'
<1> SUFFICES ASSUME Undisturbed'
             PROVE  /\ course' = "published"
                    /\ \A s \in Students : Full(s)' => MarkInHand(s)' /\ IssueInHand(s)'
  BY DEF RecognisedInv
<1> USE DEF content, records, locals, counters
<1>t. edits \in Nat /\ admin \in Nat /\ failures \in Nat
      /\ pc \in [Requests -> PCs]
  BY BoundsAssumption DEF IInv, TypeInv, TypeOK
<1>n. ~Edit /\ ~Administer /\ \A r \in Requests : ~Fail(r)
  BY <1>t DEF Edit, Administer, Fail, Undisturbed
<1>0. ASSUME Undisturbed, UNCHANGED <<course, active, completed, cert, done>>,
             \A r \in Requests : pc[r] # "idle" =>
                pc'[r] = pc[r] /\ kind'[r] = kind[r] /\ watched'[r] = watched[r]
      PROVE  /\ course' = "published"
             /\ \A s \in Students : Full(s)' => MarkInHand(s)' /\ IssueInHand(s)'
  <2>1. \A s \in Students : /\ Full(s)' <=> Full(s)
                            /\ AllMarked(s)' <=> AllMarked(s)
                            /\ Certified(s)' <=> Certified(s)
    BY <1>0 DEF Full, Enrolled, AllMarked, Certified
  <2>2. \A r \in Requests : pc[r] # "idle" => (Fresh(r)' <=> Fresh(r))
    BY <1>0 DEF Fresh
  <2>3. \A r \in Requests : StudentOf[r] \in Students
                /\ (AllMarked(StudentOf[r])' <=> AllMarked(StudentOf[r]))
    BY <2>1, RequestsAssumption
  <2>4. \A r \in Requests : (WillMark(r) => WillMark(r)') /\ (WillIssue(r) => WillIssue(r)')
    BY <1>0, <2>2, <2>3 DEF WillMark, WillIssue
  <2>5. QED BY <1>0, <2>1, <2>4 DEF RecognisedInv, MarkInHand, IssueInHand
<1>1. ASSUME NEW q \in Requests, Advance(q)
      PROVE  /\ course' = "published"
             /\ \A s \in Students : Full(s)' => MarkInHand(s)' /\ IssueInHand(s)'
  <2>1. UNCHANGED <<active, course, edits, admin, failures>>
    BY <1>1, AdvanceFrame DEF IInv
  <2>2. Undisturbed /\ edits = 0 /\ course = "published"
    BY <2>1 DEF Undisturbed, RecognisedInv
  <2>3. ASSUME NEW s \in Students, Full(s)' PROVE MarkInHand(s)' /\ IssueInHand(s)'
    <3>1. CASE Full(s)
      <4>1. MarkInHand(s) /\ IssueInHand(s)
        BY <2>2, <3>1 DEF RecognisedInv
      <4>2. QED BY <1>1, <2>2, <3>1, <4>1, StaysInHand
    <3>2. CASE ~Full(s)
      BY <1>1, <2>2, <2>3, <3>2, LastLessonInHand
    <3>3. QED BY <3>1, <3>2
  <2>4. QED BY <2>1, <2>2, <2>3
<1>2. ASSUME NEW r \in Requests,
             StartImport(r) \/ StartIssue(r)
             \/ \E v \in Videos, c \in BOOLEAN : StartReport(r, v, c)
      PROVE  /\ course' = "published"
             /\ \A s \in Students : Full(s)' => MarkInHand(s)' /\ IssueInHand(s)'
  <2>1. \E k, L, c : Start(r, k, L, c)
    BY <1>2 DEF StartReport, StartImport, StartIssue
  <2>2. /\ UNCHANGED <<course, active, completed, cert, done, edits, admin, failures, watched>>
        /\ pc[r] = "idle" /\ pc' = [pc EXCEPT ![r] = "view"]
        /\ \E k : kind' = [kind EXCEPT ![r] = k]
    BY <2>1 DEF Start, Goto
  <2>3. Undisturbed
    BY <2>2 DEF Undisturbed
  <2>4. kind \in [Requests -> {"none", "report", "import", "issue"}]
    BY DEF IInv, TypeInv, TypeOK
  <2>5. \A p \in Requests : pc[p] # "idle" =>
                pc'[p] = pc[p] /\ kind'[p] = kind[p] /\ watched'[p] = watched[p]
    BY <2>2, <2>4, <1>t
  <2>6. QED BY <2>2, <2>3, <2>5, <1>0
<1>3. ASSUME NEW v \in Videos, InsertLesson(v)
      PROVE  /\ course' = "published"
             /\ \A s \in Students : Full(s)' => MarkInHand(s)' /\ IssueInHand(s)'
  <2>1. UNCHANGED <<course, active, completed, cert, done, edits, admin, failures, pc, kind, watched>>
    BY <1>3 DEF InsertLesson
  <2>2. Undisturbed
    BY <2>1 DEF Undisturbed
  <2>3. QED BY <2>1, <2>2, <1>0
<1>4. CASE UNCHANGED vars
  <2>1. UNCHANGED <<course, active, completed, cert, done, edits, admin, failures, pc, kind, watched>>
    BY <1>4 DEF vars
  <2>2. Undisturbed
    BY <2>1 DEF Undisturbed
  <2>3. QED BY <2>1, <2>2, <1>0
<1>5. QED
  BY <1>1, <1>2, <1>3, <1>4, <1>n DEF Next, CheckModule, DeleteLesson, DeleteModule, Enrol,
     RemoveEnrolment, ChangeCourse

\* When every request has ended, on a course nobody touched and with no request cut
\* off, whoever finished every lesson has the enrolments marked and the certificate:
\* of the requests that recorded the last lessons at the same time (reportVideoProgress,
\* importWatched in two tabs) at least one sees them all and carries it to the end.
THEOREM LastLessonIsRecognised == Spec => []LastLessonRecognised
<1> DEFINE LInv == IInv /\ FilesInv /\ CountsAreOfThisTest /\ RecognisedInv
<1>1. Init => LInv
  <2> SUFFICES ASSUME Init PROVE LInv
    OBVIOUS
  <2>1. IInv /\ FilesInv
    BY InitIInv DEF Init, FilesInv, CertificateHasFile, Certified
  <2>2. CountsAreOfThisTest
    BY DEF Init, CountsAreOfThisTest
  <2>3. RecognisedInv
    BY DEF Init, RecognisedInv, Full
  <2>4. QED BY <2>1, <2>2, <2>3
<1>2. LInv /\ [Next]_vars => LInv'
  <2> SUFFICES ASSUME LInv, [Next]_vars PROVE LInv'
    OBVIOUS
  <2>1. TypeInv /\ TypeOK /\ KindOK
    BY DEF IInv, TypeInv
  <2>2. QED
    BY <2>1, StepIInv, StepFilesInv, StepCountsAreOfThisTest, StepRecognisedInv
<1>3. LInv => LastLessonRecognised
  <2> SUFFICES ASSUME LInv, Quiet, edits = 0, admin = 0, failures = 0,
                      NEW s \in Students, AllDone(s), Enrolled(s)
               PROVE  Certified(s) /\ AllMarked(s)
    BY DEF LastLessonRecognised, AllMarked
  <2>1. LiveLessons = InitialLessons
    BY LiveIsInitial DEF IInv
  <2>2. MarkInHand(s) /\ IssueInHand(s)
    BY <2>1 DEF RecognisedInv, Undisturbed, Full, AllDone
  <2>3. QED BY <2>2 DEF MarkInHand, IssueInHand, WillMark, WillIssue, Quiet
<1>4. Spec => []LInv
  BY <1>1, <1>2, PTL DEF Spec
<1>5. QED BY <1>3, <1>4, PTL
=============================================================================
