# TLA+ models of the AVA Globaltec

This directory holds the formal models of the learning platform in this
repository: TLA+ modules translated from the source, TLC configurations that
check them on small instances, and theorems that TLAPS checks for every
instance. `PROJECT.json` maps every definition to the lines it stands for and
lists the runs, the mutants that show each property to have teeth, the
hazards, the findings and the theorems.

    tlc -workers 2 -config CourseProgress.cfg MCCourseProgress.tla
    tlapm CourseProgressProofs.tla

## 1. The system and how it executes

`src/apps/api` is a NestJS service on Postgres (through Prisma), Redis, BullMQ
and MinIO; `src/apps/web` is a Next.js client. What the models rest on:

* A request handler is a chain of `await`s. Node switches to another request
  at each of them, and production runs several replicas, so the statements of
  concurrent requests interleave in any order. **One action of a model is one
  awaited statement** (or one `$transaction`, which is atomic), except where a
  comment says that reads were taken together.
* Postgres runs at READ COMMITTED: a statement sees what is committed when it
  starts, a row read earlier may have changed by the time it is used, and no
  handler locks anything. Upserts and unique keys are atomic.
* A process may die between two statements; nothing undoes the first ones.
* MinIO and Redis are external: a call to them may fail. BullMQ delivers a job
  to one worker at a time, retries a failed attempt and delivers the job of a
  dead worker again, but only as often as its limit of stalls allows (one, since
  `media.processor.ts` 19-21 sets none).

Throughout, timestamps are reduced to "set or not", text to model values, and
authorisation to a guard where it decides about a state change.

## 2. Inventory

| Component | State | Operations | Interacts with | Hard behaviour | What makes it correct |
|---|---|---|---|---|---|
| Lesson progress (`progress/`) | `LessonProgress` rows, `Enrollment.completedAt` | report, import of old progress, completion test | content (counts lessons), certificates (issues when complete) | two tabs at once; two counts at two moments; death between row and test | completion is earned; the last lesson is never lost |
| Certificates (`certificates/`) | `Certificate` row, PDF on disk | issue on demand or on completion, verify | progress, enrolments | file and row are two writes; two requests issue at once | a certificate has its file and was earned |
| Enrolments, links (`courses/` 537-1227, `course-access`) | `Enrollment`, `InstitutionCourse` rows | enrol (by staff, by oneself, with the class), remove, link, unlink | memberships, schools, catalogue cache | memberships and links are read before the enrolment is written; self-enrolment is four writes | enrolled as a student of a school that has the course |
| Users (`users/`) | `User`, `InstitutionMember` rows | create, change role/status/schools, delete, avatar, password | institutions, sessions | check-then-act on roles, schools and the last master; partial scope of a school's administrator | memberships are of live accounts and schools, with the account's role; one master remains |
| Institutions (`institutions/`) | `Institution` rows | create, update, delete | memberships, links | member count before the deletion | no member or link of a deleted school |
| Courses (`courses/` 1-536) | `Course`, `CourseTeacher`, categories, cover | create, edit, publish, archive, delete, teachers | catalogue cache, progress | slug is checked, then used | listings show it; progress respects its status |
| Modules, lessons (`modules-content/`, `media/module-videos`) | `CourseModule`, `ModuleVideo`, materials | add, edit, reorder, delete | progress counts them, media hangs on them | a lesson inserted under a module being deleted | counts and lists agree |
| Media (`media/`) | `MediaAsset` row, objects in MinIO, queue, workers | upload, reprocess, reprocess a course, remove, play, poster | lessons | row, object and queue are written separately; jobs repeat; workers die | what is served is stored; no row waits for nobody |
| Avatars and covers (`users/`, `courses/`) | key in a row, object in MinIO | upload, remove, stream | - | upload deletes what it read before | a row names an object that exists |
| Quizzes (`quizzes/`) | `Quiz`, `Question`, `QuizAttempt`, `QuizAnswer` | start, finish, edit, delete | grades | limit counted, then created; questions replaced while answered | results match answers; overshoot bounded |
| Activities (`activities/`) | `Activity`, `ActivitySubmission` | submit, submit again, grade | grades, notifications | grading the text that was just replaced | the grade is of the text shown with it |
| Grades (`grades/`) | none | average of activities and last quiz attempts | quizzes, activities | reads at two moments | average of what is listed |
| Notifications (`notifications/`) | `Notification` rows | fan-out to enrolled students, read, remove | content, activities | recipients read before the rows are made | once per student and event |
| Community (`community/`) | `CommunityTopic`, `CommunityReply` tree | post, reply, delete subtree | enrolments | a reply under a subtree being removed | depth bound; no live reply under a deleted one |
| Catalogue cache (`redis/catalog-cache`) | listings in Redis | read aside, invalidate, expire | every write of the catalogue | a reader stores rows older than the deletion | stale only for a named reason, and not for ever |
| Sessions (`auth/`, web `lib/auth`) | `RefreshToken` rows, cookies, tokens in tabs | login, refresh with rotation, logout, reset | users | two tabs refresh with one cookie | a user who does nothing stays logged in; a revoked session ends |
| Login counters, throttling (`auth/login-protection`, `redis/`) | counters with expiry in Redis | count, lock, clear | Redis | INCR and EXPIRE are two commands | counters end |
| Content items, categories | rows | create, edit, delete | catalogue cache | unique names | - |
| Audit, admin panel, health, metrics | append-only rows, reads, probes | - | - | none | - |
| Lesson player (web `course-view/`) | marks in localStorage, what the page shows | report at 90%, offline mark, one-time import, sync | progress | server answers overwrite local marks | a finished lesson is not forgotten |
| Course editor (web `course-editor/`) | a form over content, quizzes, media | sequences of saves | content, media, quizzes | one of several saves fails | what is shown is what is saved |
| Other pages (web `app/`) | copies of answers | forms and lists | API | - | - |

## 3. Modules

| Module | Role |
|---|---|
| `CourseProgress` | progress, completion and certificates of one course, with content edits, enrolments and course status as its environment |
| `CompletionLedger` | abstract specification: what students and schools see of the above |
| `CourseProgressProofs` | type correctness, safety and the refinement of the ledger |
| `MediaPipeline`, `MediaPipelineProofs` | upload, reprocessing, queue, workers, posters, removal of lesson media |
| `StoredImage`, `StoredImageProofs` | avatar or cover: one image that a row names |
| `QuizAttempts`, `QuizAttemptsProofs` | one quiz: attempts, grading, edits |
| `CatalogCache`, `CatalogCacheProofs` | the catalogue's listings in Redis |
| `Enrolments`, `EnrolmentsProofs` | accounts, schools, memberships, links, enrolments |
| `Sessions` | tokens, cookies, tabs: who is logged in, on the API and in the browser |
| `LoginProtection` | the counters in Redis that guard the login |
| `ListPages` | ten pages of the client that show a list and change it |
| `Thread` | a post of a community and its comments, API and page |
| `Grading` | works, grades and the report card, API and the teacher's page |
| `Notifications` | one person's notifications, the bell and the page |
| `LessonPlayer` | the pages a student watches on, and the marks in the browser |
| `ContentEditor` | the pages a course is written on |
| `Platform` | `StoredImage` and the eight modules before it side by side: one of them runs in a behaviour |
| `PlatformProofs` | proofs about the login's counters, sessions, grading and the thread, and the types of the whole platform |
| `PagesProofs` | proofs about the lists, the lesson player, the course editor and the bell |
| `MC...` | the small instance of each, with the definitions its `.cfg` names |

`CourseProgress` composes four services of the API that share tables
(progress, certificates, modules-content, enrolments) because their hazards
are between them. `Enrolments` composes users, institutions and courses for the
same reason. `Sessions`, `Thread`, `Grading`, `Notifications`, `LessonPlayer` and
`ContentEditor` compose the API with the client that calls it: there the hazards
are between a page and the requests it has under way. The others share no
state that their properties depend on, which is why `Platform` lets one of its
components run and the others rest: an interleaving of two of them would reach
no state of either that it does not reach alone. `Platform` is also what the theorems
about those components are stated of: a property and its proof speak of the same
formula, `PlatformSafe`.

Operators named in a comment as a plausible bug or a mutant (`EnrolAfresh`,
`FailSilently`, ...) are not used by any specification: `PROJECT.json`
substitutes them, one at a time, for the definition they distort, and the named
property must then fail.

### 3.1 CourseProgress

State: lessons (absent, being added, live, deleted), live modules, course
status; `done` (finished `LessonProgress` rows), `active` and `completed`
enrolments, `cert` (the certificate's file key), `files` on disk; and per
request a program counter and locals. A request is one of
`reportVideoProgress` (`StartReport`), `importWatched` (`StartImport`) and
`issueForCourse` (`StartIssue`), and `Advance` is its next statement:
`GrantView`/`RefuseView` (assertCanView), `WriteProgress` (the upsert),
`CountLessons`/`CountWatched` (the two counts, which may run in either order,
Promise.all), `MarkEnrolments`, then the chain of `issueIfEligible`:
`FindCertificate`, `FindCompletedEnrolment`, `DecideEligible`, `LoadCourse`,
`MarkAtIssue`, `WriteFile`, `CreateRow` (which the unique key may refuse).
`Fail` ends a request anywhere. A file name is course, student and the
millisecond: `NewKey` or `SameInstant`.

Properties: `CertificateHasFile`; `CompletionMeansAllLessons` (in a course not
edited since it opened, completion and certificate imply every lesson, although
the counts are taken at two moments); `LastLessonRecognised` (two tabs that
finish the last two lessons: one of them sees both);
`FinishedStudentIsCertified` (liveness); `LedgerSpec` (refinement of
`CompletionLedger`: completions and certificates only accumulate and are earned
at the step that gives them).

### 3.2 MediaPipeline

State: the `MediaAsset` row as sets and functions over assets (`status`,
`stored`, `deleted`, `linkOf`, `prefixed`, `postered`), the objects in MinIO,
requests and jobs. Requests: upload (release the leftover link, create the row,
store the original, publish its key, PROCESSING, queue.add), reprocess,
reprocess of a course, removal. Jobs: find the row, transcode, poster, send
the files one after another, READY. An attempt ends badly in three ways:
inside the try it sets FAILED and is retried (`Fail`); before the try (findFirst,
the update to PROCESSING, mkdtemp), or in the catch's own update, it throws with
nothing written (`ThrowUnwritten`); or its worker dies (`CrashWorker`), and the job
is delivered again as the same attempt, once: a second stall ends the job for the
queue with no code of the processor run.

Properties: `ServedIsStored` (whatever jobs of an asset overlap, what the
player may ask for is in the storage), `LiveMediaStaysLinked`,
`ProcessingHasJob`, `ProcessingEnds`, and the violated `ReprocessRecovers`. The
excuse of `ProcessingHasJob` and `ProcessingEnds` is the ghost `lost`: since the row
was last set to PROCESSING, a request died between that update and queue.add, or the
queue gave a job of the asset up that had written no end (stalled beyond the limit,
or the last attempt threw with nothing written). Both leave the row as it is for
ever. What the two properties show is that nothing else does: not two jobs of an
asset, a failure of one beside the other, a retry, a removal or a course reprocessed
from a list read before.

### 3.3 StoredImage

State: the key in the row, the objects, the names drawn, writers and readers.
An upload puts its object, updates the row, deletes the key it had read; a
removal clears the row first. Properties: `RowIsStored`, `MissingIsStale` (a
reader that finds nothing holds a key the row no longer has), `NoOrphans` (when
requests do not overlap and nothing fails, only the named object is kept).

### 3.4 QuizAttempts

State: the quiz row (limit, graded, revision of its questions, deleted), the
attempts, the answers, requests. Start counts, then creates; finish reads, then
writes answers and score in one transaction; edit counts finished attempts, then
replaces the questions in one transaction. `findFirst` with its includes is
taken as one statement. How one answer is compared with its key is the
constant `Right`; refusals for enrolment and time limit change nothing and are
left out. Points are any number in the schema and in the DTO (fractions, negative
ones), and the score alone is rounded to two decimals (grading.util.ts:100), a half
upwards: points are integers here, `Unit` of which make a hundredth, and `Rounded`
is that conversion. The sum itself is exact, where the code adds doubles: with
points of few decimals they agree after the rounding but where the exact sum lies
on a half that a double misses. Properties: `ResultMatchesAnswers`, `ResultFinalUnlessRaced`,
`QuestionsKeptUnlessOvertaken`, `OvershootBounded`, and the violated
`AttemptLimit`.

### 3.5 CatalogCache

State: the version of the rows behind every listing, what Redis holds, readers
(miss, load, store), writers (write, scan, delete by batches). A listing carries
the version it was loaded from. `FreshUnlessExcused`: a stale listing is about
to be deleted, or one of four things happened, which the ghosts `excused` and
`overtaken` record: a reader was overtaken by a write, a deletion was given up,
a write deletes nothing (`WriteUnseen`), a listing was stored behind the cursor.
`EventuallyFresh`: the TTL ends all of them.

### 3.6 Enrolments

State: accounts (state, status, role), live institutions, the role of each live
membership, the link of the course to each school, enrolments; requests with
the role and scope of their actor as read at authentication. Actions: see
the sections of the module, one per service. The free catalogue (`ava-aberto`)
is the constant `Open`, created or revived by a self-enrolment
(`EnsureOpen`, `JoinOpen`, `OfferOpen`, `ReadOpen`).

Every one of these handlers checks in one statement and acts in another, so
that almost every rule can be broken by *some* overlap; what matters is that
overlap is the *only* way. The ghost `held` is what a request has read or will
write, and `raced` the accounts and schools that two overlapping requests
worked on. `MembersBelong`, `RolesAgree`, `MasterRemains` and
`EnrolledOnGround` hold of all others, for every sequence of requests. One
exception is not a race and is named by the ghost `split`: an institution's
administrator who changes the role of somebody that also belongs to another
school leaves the old role there (`syncMemberships`, users.service.ts:577-590).

Limits: one course, never deleted; teachers' own requests are left out, since
their assignment (`CourseTeacher`) is not modelled, and so a person has the role
PROFESSOR here without ever being assigned to the course; institutions other than the free catalogue
exist from the start.

### 3.7 Sessions

State: accounts, refresh tokens that are live and whose they are; per browser the
refresh cookie (with the markers, which are set and cleared with it), whom the
access cookie names, the user in localStorage; per tab what it shows and the
refresh its calls share; threads, which are promises under way in a tab. A thread
asks, is denied, shares or starts a refresh (`Renew`), whose three statements are
`LookUp`, `Revoke`, `Issue`; asks again; or signs out. People visit pages, call,
change their password, log in, register and log out; administrators reset a
password, change a status, delete (`EndAll`, `ResetPassword`, ...); the access
token expires; requests are lost.

Opening a page counts against no bound, since a login form that finds a stored user
goes on to that user's page by itself (LoginForm.tsx:14-20): `Visit`.

`SessionSurvives`: nobody is logged out without a cause. The ghost `kept` says whether
the browser still has a right to expect its session. It is lost when the person logs
out, when the account's password or status changes, when a request is lost that had
to bring the next token (or the shell's last question), and in one race, named as
narrowly as the code allows: another *party* of the browser (another tab, or the
shell beside its calls, which does not use the shared refresh of api.ts:13-22) carries
the same token, and either it is not looked up yet when the token is revoked
(auth.service.ts:222-226), or it is sent after that and before the successor is
known. The first is hazard auth.service.ts:222 going wrong, and the code does nothing
against it: it is an excuse because the property is false there. What is not excused is
everything else that overlaps: calls of a tab that meet the expiry together (the
mutant `RenewUnshared`, each with a refresh of its own, breaks the property), refreshes
of two tabs one after the other, a refresh that two have looked up before either
revoked, a call that was answered with 401 before a rotation and retries after it.

`OwnSessionContinues`, what the profile page says after a change of the password, is
violated: every refresh token of the account is revoked (users.service.ts:306-309),
the one of this browser too.

`EndedSessionsEnd`: after a reset only tokens issued by a login or refresh that had
passed its check (`late`), and their successors, are live. `TabSettles` is liveness.

### 3.8 LoginProtection

State: three counters (requests per client, attempts per address, failures per
login name), whether each has an expiry, the lock, and where each attempt is.
`INCR` and `EXPIRE` are two actions, and `Break` cuts an attempt off between them.
`CountersAreBounded`: a counter without an expiry has an attempt about to set it,
unless that attempt was cut off. `ThrottlingEnds`: the throttler makes up for it
at the next hit (redis-throttler.storage.ts:42), which the two counters of
login-protection.service.ts do not: there `cut` stays.

### 3.9 ListPages

State: the rows stored, the filters, the list shown, the loads under way, the form,
the change in progress. One operator per page and handler, over shared
ones for loading and changing. The community's feed has no busy flag: publications
overlap, and each is a member of `posting`. `ListIsCurrent`: a page at rest without an
error shows what is stored for the filters it shows, unless an answer came out of order
(`overtaken`) or the person was told by an error that is gone (`warned`). All of it
happens in the code: no load cancels an earlier one, a change reloads with the filters
of the moment it was sent, an account's PATCH and its new password are two requests,
and in the feed a publication clears the error of a failed load and, when it is refused
for its language, sets none (CommunityFeed.tsx:187, 200-203), so that the old list
stays with no error beside it.
One person changes the rows; changes by others are what every list misses.

### 3.10 Thread

State: comments and their parents, requests with what each has read, forms and
texts. A removal reads the children level by level and then removes what it found
(`community.service.ts:214`). `ThreadIsWhole`: below a removed comment nothing is
live, except what was posted while the removal was under way (`stray`); no
comment is deeper than the limit; nothing is posted twice unless its form was told
of a failure. The author of the post is taken to be a moderator of it.

### 3.11 Grading

State: works (text, verdict), posts and calls under way, and the teacher's desk: what
is picked, what is shown, the form. `GradeIsOfWork`: a grade in the report is the
verdict on the text stored, unless the work was sent again while the teacher
had the earlier text before her (`crossed`; nothing in the request says which text
was graded). Observed: a work sent again keeps the points of its rubric, and the
form stays open when another activity is picked.

### 3.12 Notifications

State: rows, requests of the bell and of the page, their two copies of the
list, and the badge, which is a number of its own. `BadgeCatchesUp` (liveness): the
badge comes to the number of unread rows once the person rests. The poll of the
code runs every minute whether or not earlier ones were answered; the model
answers one before the next is sent.

### 3.13 LessonPlayer

State: the server's record, marks per module in localStorage, the flag of the import,
the page (lesson, rings, address of the video) and the requests under way, which
outlive the page that sent them. `RingsAreTrue`: at rest, a mark the server lacks is
one whose report failed or an old one, and a mark the page lacks was made
elsewhere or lost to the order of answers. A course without a lesson shows nothing to
pick (`PickLesson`). The flag of the import is set at once when there is nothing to
send, and otherwise by the answer of the import only.
Observed: LessonView.tsx:261 passes ids of lessons where `migrateLocalProgressToServer`
wants ids of modules ('Uma vez por curso/usuário: envia IDs do localStorage para o
servidor', lesson-progress.ts:113). It finds no marks under them (`KeysOfImport`) and
sets the flag with nothing sent, and the next answer overwrites the old marks:
`RingsAreTrue` counts them among `unsent` from the start for that reason.
Observed: `getContinueLessonId` gives the last lesson of a finished module, so that
the course page never goes on to the second module.

### 3.14 ContentEditor

State: what is stored (courses made, order, video of each lesson, content of each
quiz and activity), the page (what it shows, the open form) and the change in
progress, a chain of requests (`errand.todo`) that stops at the first failure. The
page is the editor in steps or the course page, whose forms share their fields.
Beside a change the page polls, loads and reads the questions of a quiz. On the course
page the texts of a module and of the course are written in the same fields as a
quiz: they stand among the `Tasks`. A paper
is `Unmade`, live or `Gone`; the server gives every new one an identity of its own, so
that a deleted one never comes back.

`EditorIsFaithful`: retries of a creation whose cover or reload failed make no second
course; the questions of a quiz are not stored into another, except by a late
answer (`mixed`); at rest the page shows what is stored, unless a change failed
halfway or a poll was overtaken (`blurred`). Those exceptions are what the code
does: the answer of openQuizEdit (CourseEditor.tsx:1920-1940, CourseView.tsx:187-230)
fills whichever quiz's form is open by then, and its failure closes that form; a
creation of a lesson repeated after its upload failed makes a second lesson
(733-774); a lesson's form saved again after its upload failed asks once more for
the removal of the video already removed (913-937), and is refused until the page
is reloaded. A reload also replaces what was typed into the course's own fields,
which are not modelled.

## 4. Runs

| Run | Instance | Shows |
|---|---|---|
| `course_progress` | 1 student, 1 school, 2 modules, 3 lessons (2 published), 2 requests; at most 2 edits, 2 administrative steps, 1 death, 2 of all these together | the safety properties and the refinement of the ledger |
| `course_progress_live` | the same with 1 disturbance | `FinishedStudentIsCertified` |
| `course_progress_earned` | 1 request, 1 edit | violated: `CertificateNeedsAllLessons` |
| `media_pipeline` | 1 lesson, 2 assets, 2 requests, 2 jobs, 2 attempts, 1 redelivery after a stall, 2 files, 2 failures | safety and `ProcessingEnds` |
| `media_reprocess` | the same, with reprocess asked for again and again | violated: `ReprocessRecovers` |
| `quiz_attempts` | 1 student, 3 attempts, limit 1 or none, 2 revisions of 2 questions, points of 1.125, 1 and 0.125 (in thousandths, `Unit` = 10), 2 requests | the four properties |
| `quiz_limit` | the same | violated: `AttemptLimit` |
| `catalog_cache` | 2 listings, 2 readers, 2 writers, 2 writes | freshness and its recovery |
| `enrolments` | 2 masters, a person to be, 2 schools and the free catalogue, 19 calls to choose from, 5 calls in a behaviour, 2 at a time | the four properties |
| `platform` | see below; one component per behaviour | the safety of the components of `MCPlatform` |
| `platform_live` | sessions, login counters, bell | their liveness |
| `own_password` | the sessions of `platform`, with 4 tokens | violated: `OwnSessionContinues` |

The bounds. Every hazard of the list needs at most two overlapping requests and
one object they share, or three where a third must finish in between; the
instances have those. In `course_progress` three lessons in two modules are the
least that let a lesson be removed, another be added and one remain. Two assets
are what a leftover link needs; two failures let a job stall beyond its limit, both of its
attempts throw, and one job fail while the other repeats. The points of the quiz make
each of two fractions rounded alone differ from their sum rounded once. In `enrolments` five calls suffice to create an account, move it,
delete a school under it and enrol; two are in flight at once because the ghost
already records any overlap of more, pair by pair. In `platform` and
`platform_live`: three uploads or removals of one image with a reader; one browser
with two tabs, one of them with two calls at a time, four tokens, two
administrative events and one lost request; two attempts to log in, with limits
that both can exceed; three rows in pages of one (and one row on the lesson's tab), two loads at a time; a student
and a teacher with two texts and four requests, one level of answers; one
activity, two texts, five moves of the teacher; two notifications of which the
bell lists one; two modules of a lesson, two pages; two lessons, two quizzes and an
activity, three deeds and one failure. Each is the least in which two requests
of two actors overlap on one object and a third step follows. Symmetry is used in
`quiz_attempts`, which has no liveness properties, over
model values that no constant distinguishes. Deadlock is not checked where a
behaviour is over once its attempts, names, jobs or calls are used up
(`CHECK_DEADLOCK FALSE`); in the other runs a step is always possible.

### Findings

* `CertificateNeedsAllLessons` fails: `isCourseCompleted` compares *numbers*, and
  finished lessons that were deleted since are counted as finished. Two
  lessons, the first finished and then removed: the certificate is issued, and
  the remaining lesson was never watched.
* `ReprocessRecovers` fails: a request that dies after setting PROCESSING and
  before `queue.add`, or a job that is given up without an answer, leaves a row that
  every later `reprocess` returns as it is.
* `OwnSessionContinues` fails: the page that changed the password says 'continue nesta',
  and its own refresh token was revoked with the others; at the next expiry of the access
  token (15 minutes) the person is signed out.
* `AttemptLimit` fails: two starts that both count before either creates exceed
  `maxAttempts`. `OvershootBounded` is what does hold.

## 5. Fairness

* `CourseProgress`: a handler that started runs on (WF on `Advance`), so does
  a teacher's insert. The page reports a lesson once per visit, when 90% of it
  was played (LessonView.tsx:284-304), also if it is already finished: SF on
  `PlayAgain` is the assumption that the student does come back to a listed
  lesson. Without it nothing repeats a completion test that died.
* `MediaPipeline`: requests and workers run on. `AskingSpec` adds that a teacher
  keeps asking; the run shows that even this does not help.
* `CatalogCache`: requests end (in success or by giving up), keys expire.
* `Sessions` (`TabSettles`): a promise under way goes on (WF on `Continue` for the
  threads together: the event loop runs them). A tab does not navigate while its
  shell is asking, and the access token does not expire again before the call that
  renewed it is answered: it lives 15 minutes.
* `LoginProtection` (`ThrottlingEnds`): people keep trying (WF) and a request
  under way is served; SF on the throttler's commands and on the end of a window
  that has an expiry, which Redis guarantees.
* `Notifications` (`BadgeCatchesUp`): the interval polls (WF) and requests end.
* The other modules state no liveness, and assume none.

## 6. Proofs

`tlapm` proves the following for all values of the constants that satisfy the
named assumptions. Every module lays its proof out in the same way: the parts of
the inductive invariant, `Initially`, a lemma per part or per action, `Inductive`,
and the theorems, whose last step is temporal.

* **CourseProgressProofs**: `TypeCorrect`, `CertificatesHaveFiles`,
  `CompletionIsEarned`, `LastLessonIsRecognised`, `ImplementsLedger`. The inductive
  invariant of the first ones is `TypeInv /\ Unedited /\ CountInv /\ EarnedInv`. The
  delicate part is `CountInv`: while the content is unedited, a request that has counted
  `n` finished lessons knows that its student has at least `n` finished lessons
  *now* (rows are never unfinished), and the count of lessons cannot move; so
  that "equal" at the comparison implies every lesson. It uses the
  cardinalities of finite sets (`FiniteSetTheorems`). `LastLessonIsRecognised` is
  the converse: from the moment a student has finished everything, some request of his is
  at hand that will mark the enrolment and one that will issue the certificate, until
  that is done. The request that wrote the last row counts after it, and so
  counts everything; one that counted earlier may give up. The refinement maps
  `certified` to the students with a row and `touched` to `edits > 0`; each
  action maps to a ledger step or a stutter.
* **MediaPipelineProofs**: `TypeCorrect`, `PlayerFindsItsFiles`, `ProcessingIsServed`,
  `LinksStay`. Objects are never removed, so what a row names or a job believes to have
  sent is in the storage whoever else works on the asset (`FilesAreKept`); a
  request or job leaves an asset only after it changed the status, or into `lost`, which
  only an update that has its own job to come clears; a link that an
  upload releases is of a deleted asset, and deletion is never undone.
* **StoredImageProofs**: `TypeCorrect`, `RowsAreStored`, `OnlyStaleReadersMiss`,
  `NothingLeftBehind`. The invariant says that a name drawn by a writer is
  nobody else's (`Drawn`), that a key in the row has been stored (`Reserved`,
  `RowIsStored`) and that a key to be deleted is never one that can come back to
  the row (`Retired`): a name leaves the row for good.
* **QuizAttemptsProofs**: `TypeCorrect`, `ResultsMatchAnswers`,
  `OvershootIsBounded`, `ResultsAreFinalUnlessRaced`,
  `QuestionsAreKeptUnlessOvertaken`. Points are any integers and `Unit` any positive
  number; `RoundedIsNear` says what the rounding does. `OvershootInv` counts attempts held plus
  requests about to create, against the limit plus the other requests.
* **CatalogCacheProofs**: `TypeCorrect`, `ListingsAreFresh`, `FreshnessLasts`, with the
  invariant that a reader not overtaken has loaded the current version. `FreshnessLasts` is
  what makes `EventuallyFresh` hold for good: a listing that is current, with no reader
  about to store older rows (`Settled`), stays so until its rows change.
* **EnrolmentsProofs**: `TypeCorrect`, `NobodyIsStranded` (`MembersBelong`),
  `SchoolsSeeTheRole` (`RolesAgree`), `AMasterIsLeft` (`MasterRemains`),
  `EnrolledWhereTheyStudy` (`EnrolledOnGround`). The argument is that of a lock which
  the code does not have: as long as a thing is not in `raced`, what a request has read
  about it is still true when the request writes. `NobodyInterferes` says that a
  step changes nothing that another request holds without racing it; `RequestKnows` is,
  per place in a handler, which of its checks still hold; the four rules
  then follow from the checks alone.
* **PlatformProofs**, the components of `Platform` that several people use at once. Only
  one component of the platform steps at a time; the lemmas `...Apart` show that a behaviour
  of the platform is one of each component, and the rest is about that component:
  * `CountersStayBounded` (`CountersAreBounded`), for any number of attempts to log in and any
    limits above 0. The property is inductive beside the types: a
    counter goes from 0 to 1 only in a step that leads to its EXPIRE, and only the
    attempt at that place leaves it, by setting the expiry or into `cut`.
  * `SessionsInvariant`, `SessionsEnd` (`EndedSessionsEnd`) and
    `SessionsSurvive` (`SessionSurvives`). A refresh token is held by one browser
    (`OneHolder`): nobody else can revoke it. The calls of a tab share one refresh, so that
    none of them is a rival of another (`PartyAlone`). While a person may expect the session,
    a refresh that is not looked up carries a token that serves (`RefreshHolds`); once the
    cookie's token is revoked, some refresh of it is bringing the next one (`Bringing`); several may, when two had looked it up before
    either revoked it. So the browser holds a token that serves, or one is on its way
    (`SessionHolds`), and no refresh is refused.
  * `GradesAreOfTheWork` (`GradeIsOfWork`). A text on the teacher's page, and the one a request
    to grade was written for, is the stored text unless the work was sent again since,
    which `crossed` records; texts have numbers that are never given twice.
  * `ThreadsAreWhole` (`ThreadIsWhole`), for a discussion of any size. `Depth` and `Subtree` are
    recursive functions along the parents, and what is proved first is that
    their equations have a solution: a comment answers an older one (`Upward`), so two
    solutions agree by a least comment where they would not, and each set of older
    comments has one. The invariant then says that what a removal has collected holds every
    live answer to it except the strays that were posted meanwhile
    (`HasCollected`), that a reply about to be created fits below the comment it answers
    (`MayCreate`), and that a posted text is in its form only until the form is loaded
    again, or after the form was told of a failure (`TextKnown`).
  * `PlatformTypesHold` (`PlatformTypeOK`), the types of all eight components. The session's,
    the login's and the player's are conjuncts of the invariants above; for the
    others there is an invariant of types of their own, which adds what a type needs
    to be kept: that a page of a list asked for is one of its queries (`QueryTyped`), that
    an answer on the grading desk starts at most the request it ends (`Within`), that
    the badge counts a set of notifications (`BellInv`), that a lesson's new position, one
    above a *largest*, is a number, because finitely many lessons have a largest
    (`LargestOfMany`), and that what a form, a change or an answer holds are texts of papers
    (`EditorTyped`).
* **PagesProofs**, the pages of a browser, in the same way:
  * `ListsAreCurrent` (`ListIsCurrent`), for any rows, filters and number of loads. The
    newest load's answer is the stored list unless a change is between its two requests;
    an older answer that lands later is what `overtaken` records; a change that is
    stored has a load of its own still to come, and so has a publication, of which several
    may be under way; where neither is so, an error is shown or was (`warned`).
  * `RingsAreTheRecord` (`RingsAreTrue`), for any course. A mark in the browser is in the
    record, was lost with its report (`unsent`), or a request under way is asking for it; a
    mark in the record is shown, is being carried to the page by an answer, or is behind
    one. Which of the answers lands last is decided by what it was read after.
  * `EditorsAreFaithful` (`EditorIsFaithful`), for any lessons, papers and bounds. A change's
    requests come in an order that ends in a reload, but for a cover (`Ordered`): so a
    change that has stored something and not yet landed will load the page again
    (`Waiting`), and what is read after it is what is stored, or `blurred` tells why not
    (`PageShows`, `ReadKnown`). A course counts as made before the page knows it only
    when its answer was lost. What a form or a change holds is its paper's own, or came
    late (`Own`).
  * `BadgeFollowsPolls`, for any notifications. `BadgeCatchesUp` says that the badge becomes
    right, under fairness; the theorem is the part of it that needs none: while no row changes
    and the person rests, polls that tell of the rows there are move the badge to
    the number of unread ones and to nothing else, and no other request appears.

Assumptions: finiteness of lessons (CourseProgress, ContentEditor), of requests
(QuizAttempts), of notifications and of the rows of a list, which are rows of a table;
that a sentinel is not one of the values it stands beside (`NoKey`, `Nobody`,
`NoToken`, `Empty`, `None`); typing of the constants and of the bounds, which are natural
numbers and otherwise free (`MaxWorks > 0`, `PageSize > 0`); in `Enrolments`, what the
routes and DTOs demand of a call; in `LessonPlayer`, that the playlists list the
lessons of the modules and that a lesson is not a module; in `ContentEditor`, that a
quiz is not an activity and that there is a lesson; in `Thread`, that there is a form. No
other assumption is made about sizes.

Model-checked only: liveness (`FinishedStudentIsCertified`, `ProcessingEnds`,
`EventuallyFresh`, `TabSettles`, `ThrottlingEnds`, `BadgeCatchesUp`), out of the prover's
reach. Every invariant and every action property that a passing run checks is also a theorem.
Of the liveness properties, what is proved is the safety they rest on:
`LastLessonIsRecognised`, `ProcessingIsServed`, `FreshnessLasts`, `BadgeFollowsPolls`.

## 7. What is left

Proofs: liveness, for which the prover has neither fairness nor induction over data.

Not modelled, and why:

* Roles and permissions, content items, health, metrics, wiring, the appending of audit
  rows: no state that a later step decides by.
* ffmpeg, drawing of the PDF, the word filter, slugs, arithmetic of averages and
  rubrics: pure functions of text and numbers, or input and output.
* The seeds, which run once on an empty database.
* Assignment of teachers, and the requests teachers may make by it.
* The student's quiz page, whose two requests (start, finish) lose an attempt when the
  second is lost: no document says that the attempt should survive.
* Pages without changes (landing, help, legal), and the layout of all others.
