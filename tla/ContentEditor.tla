---------------------------- MODULE ContentEditor ----------------------------
(***************************************************************************)
(* The pages a course is written on: the editor in steps (CourseEditor)    *)
(* and the course page with its forms (CourseView), over the modules and   *)
(* lessons, activities and quizzes the server keeps.  A change is a chain  *)
(* of requests that ends in a reload of the course; beside it the page     *)
(* polls the lessons while a video is being processed, and reads the quiz  *)
(* whose form is open.  Lessons stand for the modules too: they have the   *)
(* same operations, less the video.                                        *)
(***************************************************************************)
EXTENDS Integers, FiniteSets, Sequences, SequencesExt

CONSTANTS
    Units,          \* identities of lessons
    QuizPapers,     \* quizzes: their form reads the questions first
    Tasks,          \* activities, and on the course page the texts of modules and of the
                    \* course too: their form has everything from the list
    MaxDeeds,       \* bound on what the author does
    MaxReads,       \* bound on reads in progress
    MaxSlips        \* bound on requests that fail

Papers == QuizPapers \cup Tasks

EditorConstants ==
    /\ QuizPapers \cap Tasks = {} /\ Units # {} /\ IsFiniteSet(Units)
    /\ MaxDeeds \in Nat /\ MaxReads \in Nat /\ MaxSlips \in Nat

VARIABLES
    made,       \* courses the creation form has made
    rank,       \* sortOrder of each lesson from 1, 0 before it is made, or Deleted
    video,      \* the media of each lesson: its number (0: none) and status
    content,    \* whose title and questions each paper has, Unmade or Gone
    pane,       \* the page
    errand,     \* the change in progress (busy): the requests still to do
    reads,      \* reads in progress beside it
    deeds, slips,
    excess,     \* ghost: courses made whose answer was lost
    mixed,      \* ghost: papers saved after a late answer fell into their form
    blurred     \* ghost: a failed change, or a read overtaken by one, is what the page shows

editorVars == <<made, rank, video, content, pane, errand, reads, deeds, slips, excess, mixed, blurred>>

Unmade == "unmade"
Gone == "gone"
Deleted == -1
Blank == "blank"
NoForm == [of |-> "none", asset |-> 0, holds |-> Blank, late |-> FALSE]
Unread == [shown |-> <<>>, media |-> <<>>, papers |-> <<>>]
NoErrand == [todo |-> <<>>, of |-> "none", holds |-> Blank, late |-> FALSE, asset |-> 0,
             ids |-> <<>>, got |-> Unread, begun |-> FALSE]

Present == {u \in Units : rank[u] > 0}
Listings == {s \in SetToSeqs(Present) : \A i, j \in DOMAIN s : i < j => rank[s[i]] <= rank[s[j]]}
LivePapers == {d \in Papers : content[d] \notin {Unmade, Gone}}
NextRank == 1 + CHOOSE r \in {0} \cup {rank[u] : u \in Present} : \A u \in Present : rank[u] <= r
Bundle(s) == [shown |-> s, media |-> video, papers |-> [d \in LivePapers |-> content[d]]]

Busy == errand.todo # <<>>
Listed(u) == u \in ToSet(pane.seen.shown)
Reload == <<"read", "land">>

-----------------------------------------------------------------------------
(* The author.                                                             *)

Ready == ~Busy /\ ~pane.loading /\ deeds < MaxDeeds
Free == Ready /\ pane.form = NoForm /\ pane.course
Acts(e) == errand' = e /\ deeds' = deeds + 1
OnPage == UNCHANGED <<made, rank, video, content, slips, excess, mixed, blurred>>

\* saveBasics: the first time it creates the course, then it updates it.
SaveBasics ==
    /\ Ready /\ pane.form = NoForm /\ ~pane.shared
    /\ \E cover \in BOOLEAN :
         LET image == IF cover THEN <<"cover">> ELSE <<>>
         IN Acts([NoErrand EXCEPT !.todo = IF pane.course THEN <<"patch">> \o image \o Reload
                                           ELSE <<"course">> \o Reload \o image])
    /\ UNCHANGED <<pane, reads>> /\ OnPage

OpenLessonForm ==
    /\ Free /\ ~pane.shared
    /\ \E u \in Units : Listed(u) /\ pane' = [pane EXCEPT !.form = [NoForm EXCEPT !.of = u,
                                                 !.asset = pane.seen.media[u].asset]]
    /\ deeds' = deeds + 1 /\ UNCHANGED <<errand, reads>> /\ OnPage

OpenNewForm ==
    /\ Free /\ ~pane.shared
    /\ pane' = [pane EXCEPT !.form = [NoForm EXCEPT !.of = "new"]]
    /\ deeds' = deeds + 1 /\ UNCHANGED <<errand, reads>> /\ OnPage

\* openQuizEdit empties the form and reads the questions; an activity's form
\* is filled from the list, as are those of the course page for a module and
\* for the course, which share their fields with the quiz's.
OpenPaper ==
    /\ Free
    /\ \E d \in DOMAIN pane.seen.papers :
         IF d \in QuizPapers
         THEN /\ Cardinality(reads) < MaxReads
              /\ pane' = [pane EXCEPT !.form = [NoForm EXCEPT !.of = d], !.quizLoading = TRUE]
              /\ reads' = reads \cup {[kind |-> "quiz", of |-> d, got |-> Unread, old |-> FALSE]}
         ELSE /\ pane' = [pane EXCEPT !.form = [NoForm EXCEPT !.of = d, !.holds = pane.seen.papers[d]]]
              /\ UNCHANGED reads
    /\ deeds' = deeds + 1 /\ UNCHANGED errand /\ OnPage

\* Only the lessons' forms refuse to close while busy.
Cancel ==
    /\ pane.form # NoForm /\ (Busy => pane.form.of \in Papers)
    /\ pane' = [pane EXCEPT !.form = NoForm,
                            !.quizLoading = @ /\ ~pane.shared]
    /\ UNCHANGED <<errand, reads, deeds>> /\ OnPage

\* saveLessonEdit: a video replaces the one the row had when the form was
\* opened; a new lesson has none.
Swap(file) ==
    IF ~file THEN <<>> ELSE IF pane.form.asset # 0 THEN <<"remove", "upload">> ELSE <<"upload">>

SubmitLesson ==
    /\ Ready /\ pane.form.of \in Units \cup {"new"}
    /\ \E file \in BOOLEAN :
         Acts([NoErrand EXCEPT !.of = pane.form.of, !.asset = pane.form.asset,
                   !.todo = <<IF pane.form.of = "new" THEN "post" ELSE "update">> \o Swap(file) \o Reload])
    /\ UNCHANGED <<pane, reads>> /\ OnPage

\* The save button waits for the questions.
SubmitPaper ==
    /\ Ready /\ pane.form.of \in Papers
    /\ (pane.shared \/ pane.form.of \in QuizPapers) => ~pane.quizLoading
    /\ Acts([NoErrand EXCEPT !.todo = <<"write">> \o Reload, !.of = pane.form.of,
                             !.holds = pane.form.holds, !.late = pane.form.late])
    /\ UNCHANGED <<pane, reads>> /\ OnPage

\* Buttons of a row: one request.
DeleteUnit(u) == Acts([NoErrand EXCEPT !.todo = <<"delete">> \o Reload, !.of = u])

ChangeVideo(u) ==
    /\ ~pane.shared /\ pane.seen.media[u].asset # 0
    /\ \E step \in {"remove", "reprocess"} :
         /\ step = "reprocess" => pane.seen.media[u].status # "processing"
         /\ Acts([NoErrand EXCEPT !.todo = <<step>> \o Reload, !.of = u,
                                  !.asset = pane.seen.media[u].asset])

\* moveLesson sends the whole shown order.
MoveUnit(u) ==
    LET s == pane.seen.shown
        i == CHOOSE k \in DOMAIN s : s[k] = u
    IN /\ ~pane.shared /\ u # s[1]
       /\ Acts([NoErrand EXCEPT !.todo = <<"move">> \o Reload,
                                !.ids = [s EXCEPT ![i] = s[i - 1], ![i - 1] = u]])

PressRow ==
    /\ Free
    /\ \E u \in Units : Listed(u) /\ (DeleteUnit(u) \/ ChangeVideo(u) \/ MoveUnit(u))
    /\ UNCHANGED <<pane, reads>> /\ OnPage

\* A new paper has an identity of its own.
Discard(d) == Acts([NoErrand EXCEPT !.todo = <<"discard">> \o Reload, !.of = d])
Compose(d) == ~pane.shared /\ Acts([NoErrand EXCEPT !.todo = <<"compose">> \o Reload, !.of = d])

PressPaper ==
    /\ Free
    /\ \/ \E d \in DOMAIN pane.seen.papers : Discard(d)
       \/ \E d \in Papers : content[d] = Unmade /\ Compose(d)
    /\ UNCHANGED <<pane, reads>> /\ OnPage

\* Publishing, materials, teachers, schools and the class: one request too,
\* whose effect no list here shows.
PressOther ==
    /\ Free
    /\ Acts([NoErrand EXCEPT !.todo = <<"other">> \o Reload])
    /\ UNCHANGED <<pane, reads>> /\ OnPage

-----------------------------------------------------------------------------
(* The requests of a change.  Accepted says what the server demands of one *)
(* and Effect what it stores.                                              *)

Step == Head(errand.todo)

Accepted(step) ==
    CASE step = "update" -> errand.of \in Present
      [] step = "delete" -> errand.of \in Present
      [] step = "post" -> \E u \in Units : rank[u] = 0
      [] step \in {"remove", "reprocess"} -> video[errand.of].asset = errand.asset
      [] step = "upload" -> errand.of \in Present /\ video[errand.of].asset = 0
      [] step = "move" -> ToSet(errand.ids) \subseteq Present
      [] step = "write" -> errand.holds # Blank /\ errand.of \in LivePapers
      [] step = "discard" -> errand.of \in LivePapers
      [] OTHER -> TRUE

NewUnit == CHOOSE u \in Units : rank[u] = 0
Asset(n, status) == [asset |-> n, status |-> status]

\* reorderVideos numbers the lessons in the order it is sent.
Reordered(ids) ==
    [u \in Units |-> IF u \in ToSet(ids) THEN CHOOSE k \in DOMAIN ids : ids[k] = u ELSE rank[u]]

Effect(step) ==
    /\ made' = IF step = "course" THEN made + 1 ELSE made
    /\ rank' = CASE step = "post" -> [rank EXCEPT ![NewUnit] = NextRank]
                 [] step = "delete" -> [rank EXCEPT ![errand.of] = Deleted]
                 [] step = "move" -> Reordered(errand.ids)
                 [] OTHER -> rank
    /\ video' = CASE step = "remove" -> [video EXCEPT ![errand.of] = Asset(0, "none")]
                  [] step = "reprocess" -> [video EXCEPT ![errand.of].status = "processing"]
                  [] step = "upload" -> [video EXCEPT ![errand.of] = Asset(deeds, "processing")]
                  [] step = "post" -> [video EXCEPT ![NewUnit] = Asset(0, "none")]
                  [] OTHER -> video
    /\ content' = CASE step = "write" -> [content EXCEPT ![errand.of] = errand.holds]
                    [] step = "compose" -> [content EXCEPT ![errand.of] = errand.of]
                    [] step = "discard" -> [content EXCEPT ![errand.of] = Gone]
                    [] OTHER -> content
    /\ mixed' = IF step = "write" /\ errand.late THEN mixed \cup {errand.of} ELSE mixed

\* Mutant: the id of a new course is kept once the course was loaded.
KnowsCourseLate(step) == pane.course \/ step = "land"
\* The id of a new course is kept as soon as it is answered: a retry of the
\* form after a later step failed updates that course.
KnowsCourse(step) == pane.course \/ step = "course"

\* Most forms close when the change is stored, the others after the reload.
Closes(step, rest) ==
    IF pane.form.of \in Units \/ pane.shared THEN step = "land"
    ELSE step # "read" /\ rest = Reload /\ pane.form # NoForm

\* Answers read before a change was stored are out of date once it is.
Aged == {[r EXCEPT !.old = @ \/ r.got # Unread] : r \in reads}

\* The address of a new course makes the page load it once more (bootstrap).
Boot == [kind |-> "boot", of |-> "none", got |-> Unread, old |-> FALSE]

StepDone ==
    /\ Busy /\ Step \notin ToSet(Reload) /\ Accepted(Step)
    /\ Effect(Step)
    /\ errand' = IF Len(errand.todo) = 1 THEN NoErrand
                  ELSE [errand EXCEPT !.todo = Tail(@), !.begun = TRUE,
                                      !.of = IF Step = "post" THEN NewUnit ELSE @]
    /\ pane' = [pane EXCEPT !.course = KnowsCourse(Step),
                            !.loading = @ \/ Step = "course",
                            !.form = IF Closes(Step, Tail(errand.todo)) THEN NoForm ELSE @]
    /\ reads' = IF Step = "course" THEN Aged \cup {Boot} ELSE Aged
    /\ UNCHANGED <<deeds, slips, excess, blurred>>

\* The reload is answered, and lands.
ReloadRead ==
    /\ Busy /\ Step = "read"
    /\ \E s \in Listings : errand' = [errand EXCEPT !.todo = Tail(@), !.got = Bundle(s)]
    /\ UNCHANGED <<made, rank, video, content, pane, reads, deeds, slips, excess, mixed, blurred>>

ReloadLands ==
    /\ Busy /\ Step = "land"
    /\ errand' = IF Len(errand.todo) = 1 THEN NoErrand ELSE [errand EXCEPT !.todo = Tail(@)]
    /\ pane' = [pane EXCEPT !.course = KnowsCourse(Step), !.seen = errand.got,
                            !.form = IF Closes(Step, <<>>) THEN NoForm ELSE @]
    /\ blurred' = FALSE
    /\ UNCHANGED <<made, rank, video, content, reads, deeds, slips, excess, mixed>>

\* A request is refused, or lost before or after the server did it: the rest
\* of the change is given up, the form stays open and nothing is reloaded.
StepFails ==
    /\ Busy /\ Step # "land"
    /\ errand' = NoErrand
    /\ \/ /\ ~Accepted(Step) /\ UNCHANGED <<made, rank, video, content, mixed, slips, excess>>
          /\ blurred' = (blurred \/ errand.begun) /\ UNCHANGED reads
       \/ /\ slips < MaxSlips /\ slips' = slips + 1
          /\ blurred' = (blurred \/ errand.begun)
          /\ UNCHANGED <<made, rank, video, content, mixed, excess, reads>>
       \/ /\ slips < MaxSlips /\ slips' = slips + 1
          /\ Step # "read" /\ Accepted(Step) /\ Effect(Step)
          /\ excess' = IF Step = "course" THEN excess + 1 ELSE excess
          /\ blurred' = TRUE /\ reads' = Aged
    /\ UNCHANGED <<pane, deeds>>

-----------------------------------------------------------------------------
(* Reads beside a change.                                                  *)

\* The interval runs while a listed video is being processed.
Poll ==
    /\ pane.course /\ ~pane.shared /\ Cardinality(reads) < MaxReads
    /\ \E u \in ToSet(pane.seen.shown) : pane.seen.media[u].status = "processing"
    /\ \A r \in reads : r.kind # "poll" \/ r.got # Unread
    /\ reads' = reads \cup {[kind |-> "poll", of |-> "none", got |-> Unread, old |-> FALSE]}
    /\ UNCHANGED <<pane, errand, deeds>> /\ OnPage

ReadAnswered(r) ==
    /\ r.kind # "quiz" /\ r.got = Unread
    /\ \E s \in Listings : reads' = (reads \ {r}) \cup {[r EXCEPT !.got = Bundle(s)]}
    /\ UNCHANGED <<pane, errand, deeds>> /\ OnPage

\* A poll replaces the lessons, a boot the whole course.
ReadLands(r) ==
    /\ r.kind # "quiz" /\ r.got # Unread
    /\ pane' = IF r.kind = "boot" THEN [pane EXCEPT !.seen = r.got, !.loading = FALSE]
               ELSE [pane EXCEPT !.seen.shown = r.got.shown, !.seen.media = r.got.media]
    /\ blurred' = (blurred \/ r.old)
    /\ reads' = reads \ {r}
    /\ UNCHANGED <<made, rank, video, content, errand, deeds, slips, excess, mixed>>

\* The questions fill the form that is open by then, whichever quiz it is of;
\* on the course page, where the forms share their fields, any form.
QuizLands(r) ==
    /\ r.kind = "quiz" /\ r.of \in LivePapers
    /\ LET fills == pane.form.of \in QuizPapers \/ (pane.shared /\ pane.form.of \in Tasks)
       IN pane' = [pane EXCEPT !.quizLoading = FALSE,
                     !.form = IF fills THEN [@ EXCEPT !.holds = content[r.of],
                                                      !.late = pane.form.of # r.of] ELSE @]
    /\ reads' = reads \ {r}
    /\ UNCHANGED <<errand, deeds>> /\ OnPage

\* A failed read of questions closes the form, whichever quiz it is of.
ReadFails(r) ==
    /\ \/ r.kind = "quiz" /\ r.of \notin LivePapers /\ UNCHANGED slips
       \/ slips < MaxSlips /\ slips' = slips + 1
    /\ reads' = reads \ {r}
    /\ pane' = IF r.kind = "quiz"
               THEN [pane EXCEPT !.quizLoading = FALSE,
                       !.form = IF pane.form.of \in QuizPapers \/ pane.shared THEN NoForm ELSE @]
               ELSE [pane EXCEPT !.loading = @ /\ r.kind # "boot"]
    /\ blurred' = (blurred \/ r.kind = "boot")
    /\ UNCHANGED <<made, rank, video, content, errand, deeds, excess, mixed>>

\* External: the worker is done with a video.
Transcoded ==
    /\ \E u \in Units : video[u].status = "processing"
                         /\ video' = [video EXCEPT ![u].status = "ready"]
    /\ UNCHANGED <<made, rank, content, pane, errand, reads, deeds, slips, excess, mixed, blurred>>

-----------------------------------------------------------------------------
\* The page of a new course, or of a course with one lesson and every paper.
EditorInit ==
    /\ made = 0
    /\ pane \in [course : BOOLEAN, shared : BOOLEAN, loading : BOOLEAN, quizLoading : {FALSE},
                 form : {NoForm}, seen : {Unread}]
    /\ pane.shared => pane.course
    /\ pane.loading = pane.course
    /\ LET old == pane.course
           First == CHOOSE u \in Units : TRUE
       IN
       /\ rank = [u \in Units |-> IF old /\ u = First THEN 1 ELSE 0]
       /\ video = [u \in Units |-> IF old /\ u = First THEN Asset(MaxDeeds + 1, "ready") ELSE Asset(0, "none")]
       /\ content = [d \in Papers |-> IF old THEN d ELSE Unmade]
       /\ reads = IF old THEN {Boot} ELSE {}
    /\ errand = NoErrand /\ deeds = 0 /\ slips = 0 /\ excess = 0 /\ mixed = {} /\ blurred = FALSE

EditorNext ==
    \/ SaveBasics \/ OpenLessonForm \/ OpenNewForm \/ OpenPaper \/ Cancel
    \/ SubmitLesson \/ SubmitPaper \/ PressRow \/ PressPaper \/ PressOther
    \/ StepDone \/ ReloadRead \/ ReloadLands \/ StepFails \/ Transcoded \/ Poll
    \/ \E r \in reads : ReadAnswered(r) \/ ReadLands(r) \/ QuizLands(r) \/ ReadFails(r)

EditorSpec == EditorInit /\ [][EditorNext]_editorVars

-----------------------------------------------------------------------------
Contents == Papers \cup {Blank}
EditorTypeOK ==
    /\ made \in Nat /\ deeds \in 0 .. MaxDeeds /\ slips \in 0 .. MaxSlips /\ excess \in 0 .. MaxSlips
    /\ rank \in [Units -> Nat \cup {Deleted}] /\ content \in [Papers -> Papers \cup {Unmade, Gone}] /\ mixed \subseteq Papers
    /\ \A u \in Units : video[u].status \in {"none", "processing", "ready"}
    /\ pane.form.of \in Units \cup Papers \cup {"new", "none"} /\ pane.form.holds \in Contents
    /\ errand.of \in Units \cup Papers \cup {"new", "none"} /\ blurred \in BOOLEAN

\* However loads, uploads and covers fail and the author presses the button
\* again, the creation form makes one course, and one more only for each
\* creation whose answer was lost (saveBasics).
OneCourse == made <= 1 + excess

\* The questions of one quiz are not stored into another, except when a late
\* answer was put into the open form (openQuizEdit drops none).
PapersAreOwn == \A d \in Papers \ mixed : content[d] \in {d, Unmade, Gone}

\* When nothing is in progress the page shows the order, the videos and the
\* papers the server has, unless the last change failed after a part of it or
\* an older poll landed after it (loadBundle, perform).
PageIsCurrent ==
    (~Busy /\ ~pane.loading /\ reads = {} /\ ~blurred /\ pane.course) =>
        /\ pane.seen.shown \in Listings
        /\ \A u \in Present : pane.seen.media[u].asset = video[u].asset
        /\ pane.seen.papers = [d \in LivePapers |-> content[d]]

\* What the author of a course may rely on, whatever fails and in whatever
\* order answers come (CourseEditor, CourseView).
EditorIsFaithful == OneCourse /\ PapersAreOwn /\ PageIsCurrent
=============================================================================
