----------------------------- MODULE LessonPlayer -----------------------------
(***************************************************************************)
(* The pages a student watches a course on (LessonView, VideoPlayer, the   *)
(* course page) and what they keep of it in the browser                    *)
(* (lesson-progress.ts): per module, the lessons watched.  The server's    *)
(* record overwrites the browser's at every load; a report of a lesson     *)
(* watched, and every step of a load, is a request of its own.             *)
(***************************************************************************)
EXTENDS Naturals, FiniteSets, Sequences, SequencesExt

CONSTANTS
    Modules,        \* of the course, in order (a sequence)
    Playlist,       \* the lessons of each module, in order
    Legacy,         \* lessons marked in the browser before the server kept them
    Processing,     \* lessons whose video is not ready yet
    MaxPages,     \* bound on the pages opened
    MaxFetches,     \* bound on requests in progress
    MaxLosses       \* bound on requests lost

Lessons == UNION {ToSet(Playlist[m]) : m \in ToSet(Modules)}

\* The ids of modules and of lessons are those of different tables.
PlayerConstants ==
    /\ Modules \in Seq(ToSet(Modules))
    /\ DOMAIN Playlist = ToSet(Modules)
    /\ \A m \in ToSet(Modules) : Playlist[m] \in Seq(Lessons)
    /\ Lessons \cap ToSet(Modules) = {}
    /\ Legacy \subseteq Lessons /\ Processing \subseteq Lessons

VARIABLES
    done,       \* the lessons the server has as watched by the student
    media,      \* of each lesson's video: "processing", "ready" or "failed"
    local,      \* the browser's marks, by module
    imported,   \* the browser's flag that its old marks were sent
    player,     \* the page
    fetches,    \* requests in progress
    opened, losses,
    unsent,     \* ghost: marks the server never got
    behind      \* ghost: marks the server has that the page cannot know of

playerVars == <<done, media, local, imported, player, fetches, opened, losses, unsent, behind>>

Nowhere == "nowhere"
NoPage == [at |-> Nowhere, mount |-> 0, loaded |-> FALSE, status |-> "none", url |-> FALSE,
           reported |-> FALSE, ring |-> {}]

ModuleOf(l) == CHOOSE m \in ToSet(Modules) : l \in ToSet(Playlist[m])
Marks == UNION {local[m] : m \in ToSet(Modules)}
Fetch(kind, step, l) == [kind |-> kind, step |-> step, lesson |-> l, mount |-> player.mount,
                         answer |-> {}, known |-> FALSE, ready |-> FALSE]
Moved(c, d) == fetches' = (fetches \ {c}) \cup {d}
Ends(c) == fetches' = fetches \ {c}
Mounted(c) == c.mount = player.mount
Room == Cardinality(fetches) < MaxFetches

-----------------------------------------------------------------------------
(* The browser's marks.                                                    *)

MarkedLocally(l) == [local EXCEPT ![ModuleOf(l)] = @ \cup {l}]

\* The marks read under these keys; a key of no module finds nothing.
MarksUnder(keys) == UNION {local[m] : m \in keys \cap ToSet(Modules)}

\* load passes the ids of the playlist, which are ids of lessons.
KeysOfImport(l) == ToSet(Playlist[ModuleOf(l)])

\* syncLocalCacheFromServer: every module of the answer is overwritten.
Overwritten(marks) == [m \in ToSet(Modules) |-> marks \cap ToSet(Playlist[m])]

FirstIn(s, S) == s[Min({i \in DOMAIN s : s[i] \in S})]

\* getContinueLessonId: the first lesson not done, or else the last.
Continue(m) ==
    LET open == ToSet(Playlist[m]) \ local[m]
    IN IF open # {} THEN FirstIn(Playlist[m], open) ELSE Last(Playlist[m])

-----------------------------------------------------------------------------
(* Opening pages.                                                          *)

Mount(at) ==
    /\ opened < MaxPages
    /\ opened' = opened + 1
    /\ player' = [NoPage EXCEPT !.at = at, !.mount = opened + 1]

\* A link of the playlist, or the next lesson's: the page of another lesson is
\* a new one, whose first effect loads it.
OpenLesson ==
    /\ Room
    /\ \E l \in Lessons \ {player.at} :
         /\ Mount(l)
         /\ fetches' = fetches \cup {[Fetch("load", "lesson", l) EXCEPT !.mount = opened + 1]}
    /\ UNCHANGED <<done, media, local, imported, losses, unsent, behind>>

OpenCourse ==
    /\ Room
    /\ Mount("course")
    /\ fetches' = fetches \cup {[Fetch("modules", "lesson", Nowhere) EXCEPT !.mount = opened + 1]}
    /\ UNCHANGED <<done, media, local, imported, losses, unsent, behind>>

\* The course page goes on to the lesson of its first module with lessons.
PickLesson(c) ==
    /\ c.kind = "modules" /\ Mounted(c) /\ Lessons # {}
    /\ LET l == Continue(FirstIn(Modules, {m \in ToSet(Modules) : Playlist[m] # <<>>}))
       IN /\ player' = [NoPage EXCEPT !.at = l, !.mount = player.mount]
          /\ Moved(c, Fetch("load", "lesson", l))
    /\ UNCHANGED <<done, media, local, imported, opened, losses, unsent, behind>>

-----------------------------------------------------------------------------
(* Loading a lesson.                                                       *)

\* The lesson lands: its rings are read from the browser's marks.  With no
\* old marks to send, or with the flag set, the progress is asked for.
LoadLesson(c) ==
    /\ c.kind = "load" /\ c.step = "lesson"
    /\ LET marks == MarksUnder(KeysOfImport(c.lesson))
           sends == ~imported /\ marks # {}
       IN /\ imported' = (imported \/ ~sends)
          /\ Moved(c, [c EXCEPT !.step = IF sends THEN "import" ELSE "progress",
                                !.answer = IF sends THEN marks ELSE {},
                                !.ready = media[c.lesson] = "ready"])
    /\ player' = IF Mounted(c) THEN [player EXCEPT !.loaded = TRUE, !.status = media[c.lesson],
                                                   !.ring = Marks]
                 ELSE player
    /\ UNCHANGED <<done, media, local, opened, losses, unsent, behind>>

\* The record of the student's progress; with old marks, once they are stored
\* (importWatched).
Progress(c) ==
    /\ c.step \in {"progress", "import"}
    /\ done' = done \cup c.answer
    /\ Moved(c, [c EXCEPT !.step = IF c.step = "import" THEN "imported" ELSE "sync",
                          !.answer = done \cup c.answer, !.known = TRUE])
    /\ UNCHANGED <<media, local, imported, player, opened, losses, unsent, behind>>

\* The record lands in the browser, whatever page is open by now, and on the
\* rings of its own page; the flag is set by the answer of an import.  A video
\* that was ready when the lesson was answered is asked for.
Sync(c) ==
    /\ c.step \in {"sync", "imported"}
    /\ local' = IF c.known THEN Overwritten(c.answer) ELSE local
    /\ imported' = (imported \/ c.step = "imported")
    /\ player' = IF ~Mounted(c) THEN player
                 ELSE [player EXCEPT !.ring = IF c.known THEN c.answer ELSE Marks,
                                     !.url = @ /\ c.ready]
    /\ behind' = IF ~c.known THEN behind
                 ELSE IF Mounted(c) THEN done \ c.answer ELSE behind \cup (done \ c.answer)
    /\ IF Mounted(c) /\ c.ready
       THEN Moved(c, [c EXCEPT !.step = "playback", !.answer = {}, !.known = FALSE])
       ELSE Ends(c)
    /\ UNCHANGED <<done, media, opened, losses, unsent>>

\* refreshPlayback: the ticket's cookie and the address of the playlist.
Playback(c) ==
    /\ c.step = "playback"
    /\ Ends(c)
    /\ player' = IF Mounted(c) THEN [player EXCEPT !.url = TRUE] ELSE player
    /\ UNCHANGED <<done, media, local, imported, opened, losses, unsent, behind>>

\* A lesson that cannot be loaded or played is an error; an import that fails
\* asks for the progress instead, and progress that fails is done without.
LoadFails(c) ==
    /\ c.kind # "report" /\ c.step \notin {"sync", "imported"} /\ losses < MaxLosses
    /\ losses' = losses + 1
    /\ CASE c.step = "import" -> Moved(c, [c EXCEPT !.step = "progress", !.answer = {}])
         [] c.step = "progress" -> Moved(c, [c EXCEPT !.step = "sync"])
         [] OTHER -> Ends(c)
    /\ UNCHANGED <<done, media, local, imported, player, opened, unsent, behind>>

\* Every 2 s while the video is being processed, every 90 s when it is ready.
Poll ==
    /\ player.loaded /\ player.status = "processing" /\ Room
    /\ fetches' = fetches \cup {Fetch("load", "lesson", player.at)}
    /\ UNCHANGED <<done, media, local, imported, player, opened, losses, unsent, behind>>

RefreshPlayback ==
    /\ player.loaded /\ player.status = "ready" /\ Room
    /\ fetches' = fetches \cup {Fetch("load", "playback", player.at)}
    /\ UNCHANGED <<done, media, local, imported, player, opened, losses, unsent, behind>>

-----------------------------------------------------------------------------
(* Watching.                                                               *)

\* The player is shown for a ready video once its address is known.
Playing == player.loaded /\ player.status = "ready" /\ player.url

Report == fetches' = fetches \cup {Fetch("report", "ask", player.at)}
MarksIt == /\ local' = MarkedLocally(player.at)
           /\ player' = [player EXCEPT !.ring = IF player.at \in Marks THEN @
                                                ELSE Marks \cup {player.at}]

\* handleVideoProgress past 90% of the duration, played or sought to: the
\* first time it is reported, later it is only marked.
Watches ==
    /\ Playing
    /\ IF player.reported
       THEN MarksIt /\ UNCHANGED fetches
       ELSE Room /\ Report /\ player' = [player EXCEPT !.reported = TRUE] /\ UNCHANGED local
    /\ UNCHANGED <<done, media, imported, opened, losses, unsent, behind>>

\* The video ends: the same, and it is marked.
WatchesToEnd ==
    /\ Playing
    /\ local' = MarkedLocally(player.at)
    /\ player' = [player EXCEPT !.reported = TRUE,
                                !.ring = IF player.at \in Marks THEN @ ELSE Marks \cup {player.at}]
    /\ IF player.reported THEN UNCHANGED fetches ELSE Room /\ Report
    /\ UNCHANGED <<done, media, imported, opened, losses, unsent, behind>>

StoreReport(c) ==
    /\ c.kind = "report" /\ c.step = "ask"
    /\ done' = done \cup {c.lesson}
    /\ Moved(c, [c EXCEPT !.step = "land"])
    /\ UNCHANGED <<media, local, imported, player, opened, losses, unsent, behind>>

\* ReportLands, if the answer only set off the reading of the rings.
ReportLandsUnmarked(c) ==
    /\ c.kind = "report" /\ c.step = "land"
    /\ Ends(c)
    /\ player' = IF Mounted(c) THEN [player EXCEPT !.ring = Marks] ELSE player
    /\ behind' = IF Mounted(c) THEN behind \ {c.lesson} ELSE behind \cup ({c.lesson} \ player.ring)
    /\ UNCHANGED <<done, media, local, imported, opened, losses, unsent>>

\* The answer marks the lesson; the page shows it unless another is open.
ReportLands(c) ==
    /\ c.kind = "report" /\ c.step = "land"
    /\ Ends(c)
    /\ local' = MarkedLocally(c.lesson)
    /\ player' = IF Mounted(c) THEN [player EXCEPT !.ring = Marks \cup {c.lesson}] ELSE player
    /\ behind' = IF Mounted(c) THEN behind \ {c.lesson} ELSE behind \cup ({c.lesson} \ player.ring)
    /\ UNCHANGED <<done, media, imported, opened, losses, unsent>>

\* A report that fails marks the lesson in the browser only.
ReportFails(c) ==
    /\ c.kind = "report" /\ losses < MaxLosses
    /\ losses' = losses + 1
    /\ Ends(c)
    /\ local' = MarkedLocally(c.lesson)
    /\ player' = IF Mounted(c) THEN [player EXCEPT !.ring = Marks \cup {c.lesson}] ELSE player
    /\ unsent' = unsent \cup {c.lesson}
    /\ behind' = IF Mounted(c) THEN behind \ {c.lesson} ELSE behind \cup ({c.lesson} \ player.ring)
    /\ UNCHANGED <<done, media, imported, opened>>

-----------------------------------------------------------------------------
(* Elsewhere.                                                              *)

WatchedElsewhere ==
    /\ \E l \in Lessons \ done : done' = done \cup {l} /\ behind' = behind \cup {l}
    /\ UNCHANGED <<media, local, imported, player, fetches, opened, losses, unsent>>

VideoProcessed ==
    /\ \E l \in Lessons, s \in {"ready", "failed"} :
         media[l] = "processing" /\ media' = [media EXCEPT ![l] = s]
    /\ UNCHANGED <<done, local, imported, player, fetches, opened, losses, unsent, behind>>

-----------------------------------------------------------------------------
PlayerInit ==
    /\ done = {}
    /\ media = [l \in Lessons |-> IF l \in Processing THEN "processing" ELSE "ready"]
    /\ local = [m \in ToSet(Modules) |-> Legacy \cap ToSet(Playlist[m])]
    /\ imported = FALSE
    /\ player = NoPage
    /\ fetches = {}
    /\ opened = 0 /\ losses = 0
    /\ unsent = Legacy /\ behind = {}

PlayerNext ==
    \/ OpenLesson \/ OpenCourse \/ Poll \/ RefreshPlayback
    \/ \E c \in fetches :
         \/ PickLesson(c) \/ LoadLesson(c) \/ Progress(c) \/ Sync(c) \/ Playback(c)
         \/ LoadFails(c) \/ StoreReport(c) \/ ReportLands(c) \/ ReportFails(c)
    \/ Watches \/ WatchesToEnd
    \/ WatchedElsewhere \/ VideoProcessed

PlayerSpec == PlayerInit /\ [][PlayerNext]_playerVars

-----------------------------------------------------------------------------
PlayerTypeOK ==
    /\ done \subseteq Lessons
    /\ media \in [Lessons -> {"processing", "ready", "failed"}]
    /\ local \in [ToSet(Modules) -> SUBSET Lessons]
    /\ imported \in BOOLEAN
    /\ player.at \in Lessons \cup {Nowhere, "course"} /\ player.ring \subseteq Lessons
    /\ \A c \in fetches : c.kind \in {"load", "report", "modules"} /\ c.answer \subseteq Lessons
    /\ unsent \subseteq Lessons /\ behind \subseteq Lessons

(* When the page rests, its rings show what the server has: a mark the     *)
(* server lacks is one whose report failed or an old one, and a mark the   *)
(* page lacks was made elsewhere, or its answer came when the page was     *)
(* left or before that of an older load.                                   *)
RingsAreTrue ==
    (fetches = {} /\ player.loaded) =>
        /\ player.ring \ done \subseteq unsent
        /\ done \ player.ring \subseteq behind
=============================================================================
