--------------------------- MODULE CourseProgress ---------------------------
(***************************************************************************)
(* One course seen by the students who watch it: lesson progress, the      *)
(* completion mark on their enrolments and the certificate with its PDF.   *)
(*                                                                         *)
(* A request is a chain of awaited statements on Postgres, each of them    *)
(* atomic, so one action below is one awaited statement (assertCanView's   *)
(* reads, which write nothing, are taken together as one).  Requests of    *)
(* one student (two tabs, the import of old progress, POST certificates)   *)
(* interleave with each other, with the teacher's edits and with the       *)
(* coordination's enrolments.                                              *)
(*                                                                         *)
(* Timestamps are abstracted to "set or not": a lesson is done when its    *)
(* lessonProgress row has completedAt, an enrolment is completed when it   *)
(* has completedAt.                                                        *)
(***************************************************************************)
EXTENDS Integers, FiniteSets

CONSTANTS
    Students,
    Institutions,     \* an enrolment is a pair <<student, institution>>
    Modules,
    Videos,           \* every lesson that exists at some time
    ModuleOf,         \* the module a lesson belongs to
    InitialLessons,   \* the lessons published when the course opens
    Requests,         \* concurrent requests in flight
    StudentOf,        \* the student a request acts for
    FileKeys,         \* names of PDF files on disk
    MaxEdits,         \* bound on content edits (adding, removing lessons)
    MaxAdmin,         \* bound on enrolment and course administration
    MaxFailures,      \* bound on requests that die half-way
    MaxDisturbances   \* bound on all of these together

ASSUME VideosAssumption ==
    /\ IsFiniteSet(Videos)
    /\ ModuleOf \in [Videos -> Modules]
    /\ InitialLessons \subseteq Videos

ASSUME RequestsAssumption == StudentOf \in [Requests -> Students]

ASSUME BoundsAssumption ==
    /\ FileKeys \subseteq Nat
    /\ MaxEdits \in Nat
    /\ MaxAdmin \in Nat
    /\ MaxFailures \in Nat
    /\ MaxDisturbances \in Nat

NotCounted == -1
NoFile == -1

VARIABLES
    \* Database
    lesson,      \* ModuleVideo: absent, being added, live or soft-deleted
    modules,     \* CourseModule rows that are not soft-deleted
    course,      \* Course: "published", "unpublished" (draft, archived), "deleted"
    done,        \* lessons with a completed LessonProgress row, per student
    active,      \* Enrollment rows with status ACTIVE and no deletedAt
    completed,   \* Enrollment rows with completedAt set
    cert,        \* fileKey of the Certificate row of a student, or NoFile
    \* Disk
    files,       \* PDF files written
    \* Requests in flight: program counter and locals
    pc, kind, lessons, complete, total, watched, key,
    \* What the bounds count
    edits, admin, failures

content   == <<lesson, modules>>
records   == <<done, completed, cert, files>>
locals    == <<kind, lessons, complete, total, watched, key>>
counters  == <<edits, admin, failures>>
vars      == <<content, course, active, records, pc, locals, counters>>

Enrolments == Students \X Institutions

\* The lessons the counts of the code see: live, in a live module.
LiveLessons == {v \in Videos : lesson[v] = "live" /\ ModuleOf[v] \in modules}

Enrolled(s)  == \E i \in Institutions : <<s, i>> \in active
Certified(s) == cert[s] # NoFile

PCs == {"idle", "view", "valid", "write", "count", "find", "enrolled",
        "recount", "load", "mark", "file", "row"}

TypeOK ==
    /\ lesson \in [Videos -> {"absent", "adding", "live", "deleted"}]
    /\ modules \subseteq Modules
    /\ course \in {"published", "unpublished", "deleted"}
    /\ done \in [Students -> SUBSET Videos]
    /\ active \subseteq Enrolments
    /\ completed \subseteq Enrolments
    /\ cert \in [Students -> FileKeys \cup {NoFile}]
    /\ files \subseteq FileKeys
    /\ pc \in [Requests -> PCs]
    /\ kind \in [Requests -> {"none", "report", "import", "issue"}]
    /\ lessons \in [Requests -> SUBSET Videos]
    /\ complete \in [Requests -> BOOLEAN]
    /\ total \in [Requests -> Nat \cup {NotCounted}]
    /\ watched \in [Requests -> Nat \cup {NotCounted}]
    /\ key \in [Requests -> FileKeys \cup {NoFile}]
    /\ edits \in 0..MaxEdits
    /\ admin \in 0..MaxAdmin
    /\ failures \in 0..MaxFailures

Init ==
    /\ lesson = [v \in Videos |-> IF v \in InitialLessons THEN "live" ELSE "absent"]
    /\ modules = Modules
    /\ course = "published"
    /\ done = [s \in Students |-> {}]
    /\ active \in SUBSET Enrolments
    /\ completed = {}
    /\ cert = [s \in Students |-> NoFile]
    /\ files = {}
    /\ pc = [r \in Requests |-> "idle"]
    /\ kind = [r \in Requests |-> "none"]
    /\ lessons = [r \in Requests |-> {}]
    /\ complete = [r \in Requests |-> FALSE]
    /\ total = [r \in Requests |-> NotCounted]
    /\ watched = [r \in Requests |-> NotCounted]
    /\ key = [r \in Requests |-> NoFile]
    /\ edits = 0 /\ admin = 0 /\ failures = 0

-----------------------------------------------------------------------------
(* Requests.                                                               *)

Goto(r, from, to) ==
    /\ pc[r] = from
    /\ pc' = [pc EXCEPT ![r] = to]

\* The same for a step after which the request may have ended: it forgets its kind.
Leave(r, from, to) ==
    /\ Goto(r, from, to)
    /\ kind' = IF to = "idle" THEN [kind EXCEPT ![r] = "none"] ELSE kind

ForgetLessons(r) ==
    /\ lessons' = [lessons EXCEPT ![r] = {}]
    /\ complete' = [complete EXCEPT ![r] = FALSE]

\* A new request: its kind, the lesson it names, whether it was watched to the end.
Start(r, k, L, c) ==
    /\ Goto(r, "idle", "view")
    /\ kind' = [kind EXCEPT ![r] = k]
    /\ lessons' = [lessons EXCEPT ![r] = L]
    /\ complete' = [complete EXCEPT ![r] = c]
    /\ UNCHANGED <<content, course, active, records, total, watched, key, counters>>

\* reportVideoProgress: the lesson must not be soft-deleted (its module is not
\* asked); c is currentTime / duration >= WATCHED_RATIO.
StartReport(r, v, c) == lesson[v] = "live" /\ Start(r, "report", {v}, c)

\* importWatched: the ids the browser kept in localStorage.  Which ids they are
\* matters, and is chosen, only in SelectValid.
StartImport(r) == Start(r, "import", {}, TRUE)

\* issueForCourse: the student asks for the certificate.
StartIssue(r) == Start(r, "issue", {}, FALSE)

\* A plausible bug: one route of the dispatch leads nowhere.
AfterViewMisrouted == [report |-> "write", import |-> "valid", issue |-> "issue"]

AfterView == [report |-> "write", import |-> "valid", issue |-> "enrolled"]

\* assertCanView grants: an enrolled student, or a published course of the catalog.
GrantView(r) ==
    /\ course # "deleted"
    /\ Enrolled(StudentOf[r]) \/ course = "published"
    /\ Goto(r, "view", AfterView[kind[r]])
    /\ UNCHANGED <<content, course, active, records, locals, counters>>

\* assertCanView refuses: no such course, or no enrolment and the course is not
\* published or not linked to the student's school (the link is not modelled here).
RefuseView(r) ==
    /\ course = "deleted" \/ ~Enrolled(StudentOf[r])
    /\ Leave(r, "view", "idle")
    /\ ForgetLessons(r)
    /\ UNCHANGED <<content, course, active, records, total, watched, key, counters>>

\* importWatched keeps, of the ids it was sent, those of live lessons in live modules:
\* any set of these, none included (ids it cannot use).
SelectValid(r) ==
    /\ Goto(r, "valid", "write")
    /\ \E L \in SUBSET LiveLessons : lessons' = [lessons EXCEPT ![r] = L]
    /\ UNCHANGED <<content, course, active, records, kind, complete, total, watched,
                   key, counters>>

\* A plausible bug: the completion test runs only when this report finished the lesson.
WriteProgressOnce(r) ==
    LET s == StudentOf[r]
        news == IF complete[r] THEN lessons[r] \ done[s] ELSE {}
    IN  /\ done' = [done EXCEPT ![s] = @ \cup news]
        /\ Leave(r, "write", IF kind[r] = "report" /\ news = {} THEN "idle" ELSE "count")
        /\ ForgetLessons(r)
        /\ UNCHANGED <<content, course, active, completed, cert, files, total, watched,
                       key, counters>>

\* A plausible bug: the number of lessons done is taken before the upsert.
WriteProgressCounted(r) ==
    LET s == StudentOf[r]
        news == IF complete[r] THEN lessons[r] ELSE {}
        rowDone == lessons[r] \subseteq done[s] \cup news
    IN  /\ done' = [done EXCEPT ![s] = @ \cup news]
        /\ Leave(r, "write", IF kind[r] = "report" /\ ~rowDone THEN "idle" ELSE "count")
        /\ ForgetLessons(r)
        /\ watched' = IF news = {} THEN watched
                      ELSE [watched EXCEPT ![r] = Cardinality(done[s])]
        /\ UNCHANGED <<content, course, active, completed, cert, files, total, key,
                       counters>>

\* The upsert of the lessonProgress rows.  A report goes on only when the row it
\* wrote has completedAt, now or from an earlier report; an import always does.
WriteProgress(r) ==
    LET s == StudentOf[r]
        news == IF complete[r] THEN lessons[r] ELSE {}
        rowDone == lessons[r] \subseteq done[s] \cup news
    IN  /\ done' = [done EXCEPT ![s] = @ \cup news]
        /\ Leave(r, "write", IF kind[r] = "report" /\ ~rowDone THEN "idle" ELSE "count")
        /\ ForgetLessons(r)
        /\ UNCHANGED <<content, course, active, completed, cert, files, total, watched,
                       key, counters>>

Counting(r) == pc[r] \in {"count", "recount"}

\* Promise.all starts two counts; they read the database at two moments, in either order.
CountLessons(r) ==
    /\ Counting(r) /\ total[r] = NotCounted
    /\ total' = [total EXCEPT ![r] = Cardinality(LiveLessons)]
    /\ UNCHANGED <<content, course, active, records, pc, kind, lessons, complete,
                   watched, key, counters>>

\* lessonProgress rows of the student for this course: lessons soft-deleted since count too.
CountWatched(r) ==
    /\ Counting(r) /\ watched[r] = NotCounted
    /\ watched' = [watched EXCEPT ![r] = Cardinality(done[StudentOf[r]])]
    /\ UNCHANGED <<content, course, active, records, pc, kind, lessons, complete,
                   total, key, counters>>

BothCounted(r) == total[r] # NotCounted /\ watched[r] # NotCounted

\* A plausible bug: one lesson short will do.
ReachedRounded(r) == total[r] > 0 /\ watched[r] + 1 >= total[r]

Reached(r) == total[r] > 0 /\ watched[r] >= total[r]

ForgetCounts(r) ==
    /\ total' = [total EXCEPT ![r] = NotCounted]
    /\ watched' = [watched EXCEPT ![r] = NotCounted]

\* enrollment.updateMany: every active enrolment of the student becomes completed.
MarkEnrolments(s) == completed' = completed \cup {e \in active : e[1] = s}

\* tryMarkCourseCompleted: an import goes on to the certificate only if it marked a row.
MarkCompleted(r) ==
    LET s == StudentOf[r]
        marked == \E e \in active \ completed : e[1] = s
    IN  /\ BothCounted(r)
        /\ IF Reached(r)
             THEN /\ MarkEnrolments(s)
                  /\ Leave(r, "count",
                           IF kind[r] = "import" /\ ~marked THEN "idle" ELSE "find")
             ELSE /\ UNCHANGED completed
                  /\ Leave(r, "count", IF kind[r] = "import" THEN "idle" ELSE "find")
        /\ ForgetCounts(r)
        /\ UNCHANGED <<content, course, active, done, cert, files, lessons, complete,
                       key, counters>>

Eligible(r) == IF kind[r] = "issue" THEN "find" ELSE "load"

\* certificate.findUnique: the existing certificate ends the request.
FindCertificate(r) ==
    LET next == IF kind[r] = "issue" THEN "load" ELSE "enrolled"
    IN  /\ Leave(r, "find", IF Certified(StudentOf[r]) THEN "idle" ELSE next)
        /\ UNCHANGED <<content, course, active, records, lessons, complete, total,
                       watched, key, counters>>

\* isCourseCompleted, first half: an active enrolment already marked is enough.
FindCompletedEnrolment(r) ==
    LET found == \E e \in active \cap completed : e[1] = StudentOf[r]
    IN  /\ Goto(r, "enrolled", IF found THEN Eligible(r) ELSE "recount")
        /\ UNCHANGED <<content, course, active, records, locals, counters>>

\* isCourseCompleted, second half: the counts decide; otherwise null (or "conclua
\* todas as aulas" to the student who asked).
DecideEligible(r) ==
    /\ BothCounted(r)
    /\ Leave(r, "recount", IF Reached(r) THEN Eligible(r) ELSE "idle")
    /\ ForgetCounts(r)
    /\ UNCHANGED <<content, course, active, records, lessons, complete, key, counters>>

\* createCertificate reads the user and the course; a deleted course ends the request.
LoadCourse(r) ==
    /\ Leave(r, "load", IF course = "deleted" THEN "idle" ELSE "mark")
    /\ UNCHANGED <<content, course, active, records, lessons, complete, total, watched,
                   key, counters>>

\* createCertificate's own mark of the enrolment.
MarkAtIssue(r) ==
    /\ Goto(r, "mark", "file")
    /\ MarkEnrolments(StudentOf[r])
    /\ UNCHANGED <<content, course, active, done, cert, files, locals, counters>>

\* The file name is a hash of user, course and the millisecond of issue: a new
\* name, or the name of another issue of this student in the same millisecond.
NewKey(k) == k \in FileKeys \ files /\ \A j \in FileKeys : j < k => j \in files
SameInstant(r, k) ==
    \E q \in Requests \ {r} :
        pc[q] = "row" /\ StudentOf[q] = StudentOf[r] /\ key[q] = k

\* A plausible bug: the PDF is written in the background and the write is lost.
WriteFileLost(r) ==
    /\ Goto(r, "file", "row")
    /\ \E k \in FileKeys : NewKey(k) /\ key' = [key EXCEPT ![r] = k]
    /\ UNCHANGED <<content, course, active, records, kind, lessons, complete, total,
                   watched, counters>>

WriteFile(r) ==
    /\ Goto(r, "file", "row")
    /\ \E k \in FileKeys :
          /\ NewKey(k) \/ SameInstant(r, k)
          /\ key' = [key EXCEPT ![r] = k]
          /\ files' = files \cup {k}
    /\ UNCHANGED <<content, course, active, done, completed, cert, kind, lessons,
                   complete, total, watched, counters>>

\* certificate.create: unique on (user, course); the loser's error becomes null.
CreateRow(r) ==
    LET s == StudentOf[r]
    IN  /\ Leave(r, "row", "idle")
        /\ cert' = IF Certified(s) THEN cert ELSE [cert EXCEPT ![s] = key[r]]
        /\ key' = [key EXCEPT ![r] = NoFile]
        /\ UNCHANGED <<content, course, active, done, completed, files, lessons,
                       complete, total, watched, counters>>

MayDisturb == edits + admin + failures < MaxDisturbances

\* The process dies or a statement throws: the rest of the request never happens.
Fail(r) ==
    /\ pc[r] # "idle"
    /\ failures < MaxFailures /\ MayDisturb
    /\ Leave(r, pc[r], "idle")
    /\ ForgetLessons(r)
    /\ ForgetCounts(r)
    /\ key' = [key EXCEPT ![r] = NoFile]
    /\ failures' = failures + 1
    /\ UNCHANGED <<content, course, active, records, edits, admin>>

\* What a request does by itself once it has started.
Advance(r) ==
    \/ GrantView(r) \/ RefuseView(r) \/ SelectValid(r) \/ WriteProgress(r)
    \/ CountLessons(r) \/ CountWatched(r) \/ MarkCompleted(r)
    \/ FindCertificate(r) \/ FindCompletedEnrolment(r) \/ DecideEligible(r)
    \/ LoadCourse(r) \/ MarkAtIssue(r) \/ WriteFile(r) \/ CreateRow(r)

-----------------------------------------------------------------------------
(* The teacher edits the course; the coordination enrols and administers.  *)
(* Each handler first asserts that the course exists and may be managed.   *)

Edit == edits < MaxEdits /\ MayDisturb /\ edits' = edits + 1
Administer == admin < MaxAdmin /\ MayDisturb /\ admin' = admin + 1

\* addVideo, its check: requireModule finds the module live.
CheckModule(v) ==
    /\ Edit /\ course # "deleted"
    /\ lesson[v] = "absent" /\ ModuleOf[v] \in modules
    /\ lesson' = [lesson EXCEPT ![v] = "adding"]
    /\ UNCHANGED <<modules, course, active, records, pc, locals, admin, failures>>

\* addVideo, its insert: nothing is checked again, the module may be deleted by now.
InsertLesson(v) ==
    /\ lesson[v] = "adding"
    /\ lesson' = [lesson EXCEPT ![v] = "live"]
    /\ UNCHANGED <<modules, course, active, records, pc, locals, counters>>

\* softDeleteVideo: the lesson and its materials, in one transaction.
DeleteLesson(v) ==
    /\ Edit /\ course # "deleted"
    /\ v \in LiveLessons
    /\ lesson' = [lesson EXCEPT ![v] = "deleted"]
    /\ UNCHANGED <<modules, course, active, records, pc, locals, admin, failures>>

\* softDeleteModule: the module and its live lessons, in one transaction.
DeleteModule(m) ==
    /\ Edit /\ course # "deleted"
    /\ m \in modules
    /\ modules' = modules \ {m}
    /\ lesson' = [v \in Videos |->
                    IF ModuleOf[v] = m /\ lesson[v] = "live" THEN "deleted" ELSE lesson[v]]
    /\ UNCHANGED <<course, active, records, pc, locals, admin, failures>>

\* A plausible bug: enrolling again starts the course from zero.
EnrolAfresh(e) ==
    /\ Administer
    /\ course # "deleted"
    /\ active' = active \cup {e}
    /\ completed' = completed \ {e}
    /\ UNCHANGED <<content, course, done, cert, files, pc, locals, edits, failures>>

\* enrollStudent: the upsert creates or reactivates the row; completedAt stays as it was.
Enrol(e) ==
    /\ Administer
    /\ course # "deleted"
    /\ active' = active \cup {e}
    /\ UNCHANGED <<content, course, records, pc, locals, edits, failures>>

\* removeEnrollment: soft-deleted and INACTIVE; completedAt stays.
RemoveEnrolment(e) ==
    /\ Administer
    /\ course # "deleted" /\ e \in active
    /\ active' = active \ {e}
    /\ UNCHANGED <<content, course, records, pc, locals, edits, failures>>

\* publish, archive, unpublish and softDelete of the course.
ChangeCourse(c) ==
    /\ Administer
    /\ course # "deleted"
    /\ course' = c
    /\ UNCHANGED <<content, active, records, pc, locals, edits, failures>>

Next ==
    \/ \E r \in Requests, v \in Videos, c \in BOOLEAN : StartReport(r, v, c)
    \/ \E r \in Requests : StartImport(r)
    \/ \E r \in Requests : StartIssue(r)
    \/ \E r \in Requests : Advance(r)
    \/ \E r \in Requests : Fail(r)
    \/ \E v \in Videos : CheckModule(v)
    \/ \E v \in Videos : InsertLesson(v)
    \/ \E v \in Videos : DeleteLesson(v)
    \/ \E m \in Modules : DeleteModule(m)
    \/ \E e \in Enrolments : Enrol(e)
    \/ \E e \in Enrolments : RemoveEnrolment(e)
    \/ \E c \in {"published", "unpublished", "deleted"} : ChangeCourse(c)

Spec == Init /\ [][Next]_vars

-----------------------------------------------------------------------------
(* Fairness.  A handler that has started runs on (Node resolves its next   *)
(* await), a teacher's insert too.  The page reports a lesson once per     *)
(* visit, when 90% of it has been played: the assumption about the student *)
(* is that a listed lesson is played to the end on a later visit again.    *)

PlayAgain(r) == \E v \in LiveLessons : StartReport(r, v, TRUE)

Fairness ==
    /\ \A r \in Requests : WF_vars(Advance(r))
    /\ \A v \in Videos : WF_vars(InsertLesson(v))
    /\ \A r \in Requests : SF_vars(PlayAgain(r))

FairSpec == Spec /\ Fairness

-----------------------------------------------------------------------------
(* Properties.                                                             *)

AllDone(s) == LiveLessons # {} /\ LiveLessons \subseteq done[s]

\* A certificate never names a PDF that was not written: createCertificate writes
\* the file before the row, so a request that dies in between leaves at worst an
\* orphan file.
CertificateHasFile == \A s \in Students : Certified(s) => cert[s] \in files

\* While the course keeps the lessons it was published with, a completed enrolment
\* or a certificate means that the student finished every one of them, whatever
\* requests raced: two counts read at two moments never add up to more than was
\* watched (tryMarkCourseCompleted, isCourseCompleted).
CompletionMeansAllLessons ==
    edits = 0 =>
        \A s \in Students :
            (Certified(s) \/ \E i \in Institutions : <<s, i>> \in completed)
                => InitialLessons \subseteq done[s]

\* "Conclua todas as aulas do curso para emitir o certificado": a lesson that has
\* been in the course from the start, and still is, was finished by every student
\* who holds a certificate.  It does not hold: isCourseCompleted compares the
\* number of live lessons with the number of finished lessons, soft-deleted ones
\* included, so a finished lesson that was removed stands in for an unwatched one.
CertificateNeedsAllLessons ==
    \A s \in Students : Certified(s) => (InitialLessons \cap LiveLessons) \subseteq done[s]

\* Nothing is lost between two tabs: when the requests have all ended and none
\* died, an enrolled student who finished every lesson has the enrolment
\* completed and the certificate issued.  The upsert precedes the counts, so the
\* last of the concurrent "last lessons" sees them all.
Quiet == \A r \in Requests : pc[r] = "idle"
LastLessonRecognised ==
    (Quiet /\ edits = 0 /\ admin = 0 /\ failures = 0) =>
        \A s \in Students :
            (AllDone(s) /\ Enrolled(s)) =>
                /\ Certified(s)
                /\ \A i \in Institutions : <<s, i>> \in active => <<s, i>> \in completed

\* A request that died after recording the last lesson is made good: a student
\* who has finished every lesson and keeps the course open ends with the
\* certificate, because every report of a finished lesson runs the completion
\* test again (row.completedAt, not "completed just now").
Ready(s) == AllDone(s) /\ Enrolled(s) /\ course # "deleted"
FinishedStudentIsCertified ==
    \A s \in Students : <>[]Ready(s) => <>Certified(s)

-----------------------------------------------------------------------------
(* The ledger the students see.                                            *)

Ledger == INSTANCE CompletionLedger WITH
    Lessons <- InitialLessons,
    certified <- {s \in Students : Certified(s)},
    touched <- edits > 0

\* Completion and certificates only ever accumulate, one certificate per student,
\* and each is given at a step at which it is earned: the interleaved services
\* implement the ledger.  Removing and renewing an enrolment, stale reads, lost
\* requests and late writes undo nothing.
LedgerSpec == Ledger!Spec
=============================================================================
