---------------------------- MODULE MediaPipeline ----------------------------
(***************************************************************************)
(* A lesson's video from the upload to the player: the media row, the      *)
(* objects in MinIO, the transcoding queue and its workers.                *)
(*                                                                         *)
(* Requests (upload, reprocess, reprocess of a whole course, removal) and  *)
(* workers are chains of awaited statements and interleave freely; the API *)
(* may run in several replicas and the queue may have several workers.     *)
(* BullMQ is external: it delivers a job to one worker at a time, retries  *)
(* a failed attempt, and delivers the job of a dead worker again, but not  *)
(* more often than its limit of stalls: then the job has failed for the    *)
(* queue, and no code of the processor runs.                               *)
(***************************************************************************)
EXTENDS Naturals, FiniteSets

CONSTANTS
    Videos,        \* lessons (ModuleVideo rows)
    Assets,        \* ids of MediaAsset rows, used or still to be created
    LegacyOf,      \* assets deleted before the system unlinked them: their lesson
    HlsFiles,      \* playlist, segments and duration.txt of one transcoding
    Requests,      \* requests of teachers in flight
    Jobs,          \* transcoding jobs that can be in the queue at once
    Attempts,      \* attempts of a job (enqueueTranscode: 2)
    MaxStalls,     \* deliveries of a stalled job (the processor sets none: BullMQ's 1)
    NoVideo, NoAsset,
    MaxFailures    \* bound on storage, database and ffmpeg errors, aborts and crashes

ASSUME MediaAssumption ==
    /\ NoVideo \notin Videos /\ NoAsset \notin Assets
    /\ LegacyOf \in [Assets -> Videos \cup {NoVideo}]
    /\ \A a, b \in Assets : LegacyOf[a] = LegacyOf[b] /\ a # b => LegacyOf[a] = NoVideo
    /\ HlsFiles # {}
    /\ Attempts \in Nat \ {0} /\ MaxStalls \in Nat /\ MaxFailures \in Nat

VARIABLES
    lessons,     \* lessons that are not soft-deleted
    status,      \* MediaAsset.status, "none" before the row exists
    stored,      \* rows whose storageKey is no longer 'pending'
    deleted,     \* soft-deleted rows
    linkOf,      \* moduleVideoId, a unique key
    prefixed,    \* rows with hlsPrefix
    postered,    \* rows with posterKey
    original,    \* MinIO: originals/<asset>
    hls,         \* MinIO: hls/<asset>/*
    posters,     \* MinIO: posters/<asset>.jpg
    pc, lesson, asset, todo,     \* a request: where it is, its lesson, asset, list
    jpc, jasset, tries, stalls, sent,   \* a job: where it is, its asset, attempt,
                                        \* deliveries after a stall, files sent
    lost,        \* assets, since they were last set to PROCESSING: a request died before
                 \* queue.add, or the queue gave a job up and nothing wrote the row
    failures

rows     == <<lessons, status, stored, deleted, linkOf, prefixed, postered>>
objects  == <<original, hls, posters>>
requests == <<pc, lesson, asset, todo>>
attempt  == <<jasset, tries, stalls, sent>>
jobs     == <<jpc, attempt>>
vars     == <<rows, objects, requests, jobs, lost, failures>>

Statuses == {"none", "UPLOADING", "PROCESSING", "READY", "FAILED"}
RequestPCs == {"idle", "release", "create", "store", "publish", "update", "enqueue"}
JobPCs == {"free", "waiting", "found", "working", "poster", "posterRow", "files", "failing"}
Active == {"found", "working", "poster", "posterRow", "files", "failing"}

Live(a)   == status[a] # "none" /\ a \notin deleted
Linked(v) == {a \in Assets : linkOf[a] = v}

TypeOK ==
    /\ lessons \subseteq Videos
    /\ status \in [Assets -> Statuses]
    /\ stored \subseteq Assets /\ deleted \subseteq Assets
    /\ linkOf \in [Assets -> Videos \cup {NoVideo}]
    /\ prefixed \subseteq Assets /\ postered \subseteq Assets
    /\ original \subseteq Assets /\ posters \subseteq Assets
    /\ hls \in [Assets -> SUBSET HlsFiles]
    /\ pc \in [Requests -> RequestPCs]
    /\ lesson \in [Requests -> Videos \cup {NoVideo}]
    /\ asset \in [Requests -> Assets \cup {NoAsset}]
    /\ todo \in [Requests -> SUBSET Assets]
    /\ jpc \in [Jobs -> JobPCs]
    /\ jasset \in [Jobs -> Assets \cup {NoAsset}]
    /\ tries \in [Jobs -> 0..Attempts]
    /\ stalls \in [Jobs -> 0..MaxStalls]
    /\ sent \in [Jobs -> SUBSET HlsFiles]
    /\ lost \subseteq Assets
    /\ failures \in 0..MaxFailures

\* A row deleted by an earlier version keeps its lesson, its files and its status.
Legacy == {a \in Assets : LegacyOf[a] # NoVideo}

Init ==
    /\ lessons = Videos
    /\ status = [a \in Assets |-> IF a \in Legacy THEN "READY" ELSE "none"]
    /\ stored = Legacy /\ deleted = Legacy
    /\ linkOf = LegacyOf
    /\ prefixed = Legacy /\ postered = {}
    /\ original = Legacy /\ posters = {}
    /\ hls = [a \in Assets |-> IF a \in Legacy THEN HlsFiles ELSE {}]
    /\ pc = [q \in Requests |-> "idle"]
    /\ lesson = [q \in Requests |-> NoVideo]
    /\ asset = [q \in Requests |-> NoAsset]
    /\ todo = [q \in Requests |-> {}]
    /\ jpc = [j \in Jobs |-> "free"]
    /\ jasset = [j \in Jobs |-> NoAsset]
    /\ tries = [j \in Jobs |-> 0]
    /\ stalls = [j \in Jobs |-> 0]
    /\ sent = [j \in Jobs |-> {}]
    /\ lost = {}
    /\ failures = 0

Break == failures < MaxFailures /\ failures' = failures + 1

-----------------------------------------------------------------------------
(* upload.                                                                 *)

Goto(q, from, to) == pc[q] = from /\ pc' = [pc EXCEPT ![q] = to]

\* A request ends and its locals are gone.
End(q) ==
    /\ pc' = [pc EXCEPT ![q] = "idle"]
    /\ lesson' = [lesson EXCEPT ![q] = NoVideo]
    /\ asset' = [asset EXCEPT ![q] = NoAsset]
    /\ todo' = [todo EXCEPT ![q] = {}]

\* The lesson exists and no live asset is linked to it; a deleted one may be.
StartUpload(q, v) ==
    /\ v \in lessons
    /\ Linked(v) \subseteq deleted
    /\ Goto(q, "idle", IF Linked(v) = {} THEN "create" ELSE "release")
    /\ lesson' = [lesson EXCEPT ![q] = v]
    /\ asset' = [asset EXCEPT ![q] = IF Linked(v) = {} THEN NoAsset
                                     ELSE CHOOSE a \in Linked(v) : TRUE]
    /\ UNCHANGED <<rows, objects, todo, jobs, lost, failures>>

\* A plausible bug: the unique key is released by lesson, not by the row that was read.
ReleaseByLesson(q) ==
    /\ Goto(q, "release", "create")
    /\ linkOf' = [a \in Assets |-> IF linkOf[a] = lesson[q] THEN NoVideo ELSE linkOf[a]]
    /\ asset' = [asset EXCEPT ![q] = NoAsset]
    /\ UNCHANGED <<lessons, status, stored, deleted, prefixed, postered, objects, lesson,
                   todo, jobs, lost, failures>>

\* The deleted asset gives up the unique key.
Release(q) ==
    /\ Goto(q, "release", "create")
    /\ linkOf' = [linkOf EXCEPT ![asset[q]] = NoVideo]
    /\ asset' = [asset EXCEPT ![q] = NoAsset]
    /\ UNCHANGED <<lessons, status, stored, deleted, prefixed, postered, objects, lesson,
                   todo, jobs, lost, failures>>

\* mediaAsset.create, or P2002 when another upload has linked the lesson since.
Create(q) ==
    /\ pc[q] = "create"
    /\ IF Linked(lesson[q]) # {}
         THEN End(q) /\ UNCHANGED rows
         ELSE \E a \in Assets :
                /\ status[a] = "none"
                /\ status' = [status EXCEPT ![a] = "UPLOADING"]
                /\ linkOf' = [linkOf EXCEPT ![a] = lesson[q]]
                /\ asset' = [asset EXCEPT ![q] = a]
                /\ Goto(q, "create", "store")
                /\ UNCHANGED <<lessons, stored, deleted, prefixed, postered, lesson, todo>>
    /\ UNCHANGED <<objects, jobs, lost, failures>>

\* minio.putObject of the original.
Store(q) ==
    /\ Goto(q, "store", "publish")
    /\ original' = original \cup {asset[q]}
    /\ UNCHANGED <<rows, hls, posters, lesson, asset, todo, jobs, lost, failures>>

\* putObject fails: the row is FAILED, with its key, and the request ends.
StoreFails(q) ==
    /\ pc[q] = "store" /\ Break
    /\ status' = [status EXCEPT ![asset[q]] = "FAILED"]
    /\ stored' = stored \cup {asset[q]}
    /\ End(q)
    /\ UNCHANGED <<lessons, deleted, linkOf, prefixed, postered, objects, jobs, lost>>

\* The row becomes PROCESSING, whatever happened to it meanwhile.
Publish(q) ==
    /\ Goto(q, "publish", "enqueue")
    /\ status' = [status EXCEPT ![asset[q]] = "PROCESSING"]
    /\ stored' = stored \cup {asset[q]}
    /\ lost' = lost \ {asset[q]}
    /\ UNCHANGED <<lessons, deleted, linkOf, prefixed, postered, objects, lesson, asset,
                   todo, jobs, failures>>

-----------------------------------------------------------------------------
(* reprocess, reprocessCourse and the enqueueing they share with upload.   *)

Reprocessable(a) == Live(a) /\ a \in stored /\ status[a] \in {"READY", "FAILED"}

\* reprocess: an asset being uploaded or processed is returned as it is, no step here.
StartReprocess(q, a) ==
    /\ Reprocessable(a)
    /\ Goto(q, "idle", "update")
    /\ todo' = [todo EXCEPT ![q] = {a}]
    /\ UNCHANGED <<rows, objects, lesson, asset, jobs, lost, failures>>

\* reprocessCourse: one read of every such asset of a live lesson.
StartReprocessCourse(q) ==
    LET A == {a \in Assets : Reprocessable(a) /\ linkOf[a] \in lessons}
    IN  /\ A # {}
        /\ Goto(q, "idle", "update")
        /\ todo' = [todo EXCEPT ![q] = A]
        /\ UNCHANGED <<rows, objects, lesson, asset, jobs, lost, failures>>

\* The update does not look at the status or at deletedAt again.
MarkProcessing(q) ==
    /\ Goto(q, "update", "enqueue")
    /\ \E a \in todo[q] :
          /\ status' = [status EXCEPT ![a] = "PROCESSING"]
          /\ asset' = [asset EXCEPT ![q] = a]
          /\ todo' = [todo EXCEPT ![q] = @ \ {a}]
          /\ lost' = lost \ {a}
    /\ UNCHANGED <<lessons, stored, deleted, linkOf, prefixed, postered, objects, lesson,
                   jobs, failures>>

\* queue.add, in any free place; the request goes on with its list or ends.
Enqueue(q) ==
    /\ pc[q] = "enqueue"
    /\ \E j \in Jobs : jpc[j] = "free"
    /\ LET j == CHOOSE k \in Jobs : jpc[k] = "free"
       IN  /\ jpc' = [jpc EXCEPT ![j] = "waiting"]
           /\ jasset' = [jasset EXCEPT ![j] = asset[q]]
           /\ tries' = [tries EXCEPT ![j] = 1]
    /\ IF todo[q] = {}
         THEN End(q)
         ELSE Goto(q, "enqueue", "update") /\ UNCHANGED <<lesson, asset, todo>>
    /\ UNCHANGED <<rows, objects, stalls, sent, lost, failures>>

\* The process dies, or a statement throws, between two statements of a request.
Abort(q) ==
    /\ pc[q] # "idle" /\ Break
    /\ lost' = IF pc[q] = "enqueue" THEN lost \cup {asset[q]} ELSE lost
    /\ End(q)
    /\ UNCHANGED <<rows, objects, jobs>>

Advance(q) ==
    \/ Release(q) \/ Create(q) \/ Store(q) \/ Publish(q)
    \/ MarkProcessing(q) \/ Enqueue(q)

-----------------------------------------------------------------------------
(* The worker (MediaProcessor.process) and the queue.                      *)

\* What UNCHANGED leaves alone in every step of a job.
JobOnly(j, from, to) ==
    /\ jpc[j] = from
    /\ jpc' = [jpc EXCEPT ![j] = to]
    /\ UNCHANGED <<lessons, stored, deleted, linkOf, original, requests>>

Free(j) ==
    /\ jasset' = [jasset EXCEPT ![j] = NoAsset]
    /\ tries' = [tries EXCEPT ![j] = 0]
    /\ stalls' = [stalls EXCEPT ![j] = 0]
    /\ sent' = [sent EXCEPT ![j] = {}]

\* An attempt that threw: BullMQ waits for the next one, or has given the job up.
AfterThrow(j) == IF tries[j] < Attempts THEN "waiting" ELSE "free"

Rethrow(j) ==
    IF tries[j] < Attempts
      THEN /\ tries' = [tries EXCEPT ![j] = @ + 1]
           /\ sent' = [sent EXCEPT ![j] = {}]
           /\ UNCHANGED <<jasset, stalls>>
      ELSE Free(j)

\* The job's asset is looked up: a removed one ends the job.
Take(j) ==
    LET found == Live(jasset[j])
    IN  /\ JobOnly(j, "waiting", IF found THEN "found" ELSE "free")
        /\ IF found THEN UNCHANGED attempt ELSE Free(j)
        /\ UNCHANGED <<status, prefixed, postered, hls, posters, lost, failures>>

Begin(j) ==
    /\ JobOnly(j, "found", "working")
    /\ status' = [status EXCEPT ![jasset[j]] = "PROCESSING"]
    /\ lost' = lost \ {jasset[j]}
    /\ UNCHANGED <<prefixed, postered, hls, posters, attempt, failures>>

\* The statements before the try (findFirst, update, mkdtemp) throw, or the update of
\* the catch itself does: the attempt is over and no FAILED is written.
ThrowUnwritten(j) ==
    /\ jpc[j] \in {"waiting", "found", "working", "failing"} /\ Break
    /\ JobOnly(j, jpc[j], AfterThrow(j))
    /\ Rethrow(j)
    /\ lost' = IF tries[j] < Attempts THEN lost ELSE lost \cup {jasset[j]}
    /\ UNCHANGED <<status, prefixed, postered, hls, posters>>

\* The original is fetched and transcoded to a temporary directory.
Transcode(j) ==
    /\ jasset[j] \in original
    /\ JobOnly(j, "working", "poster")
    /\ UNCHANGED <<status, prefixed, postered, hls, posters, attempt, lost, failures>>

\* The original is not in the storage, or ffmpeg fails.
TranscodeFails(j) ==
    /\ JobOnly(j, "working", "failing")
    /\ IF jasset[j] \in original THEN Break ELSE UNCHANGED failures
    /\ UNCHANGED <<status, prefixed, postered, hls, posters, attempt, lost>>

\* storeFromFile: the object first, then the row.
PutPoster(j) ==
    /\ JobOnly(j, "poster", "posterRow")
    /\ posters' = posters \cup {jasset[j]}
    /\ UNCHANGED <<status, prefixed, postered, hls, attempt, lost, failures>>

NamePoster(j) ==
    /\ JobOnly(j, "posterRow", "files")
    /\ postered' = postered \cup {jasset[j]}
    /\ UNCHANGED <<status, prefixed, hls, posters, attempt, lost, failures>>

\* A poster that fails is only logged.
SkipPoster(j) ==
    /\ JobOnly(j, "poster", "files")
    /\ UNCHANGED <<status, prefixed, postered, hls, posters, attempt, lost, failures>>

\* One file of the transcoding is stored; the playlist comes before the segments.
PutFile(j) ==
    /\ JobOnly(j, "files", "files")
    /\ \E f \in HlsFiles \ sent[j] :
          /\ sent' = [sent EXCEPT ![j] = @ \cup {f}]
          /\ hls' = [hls EXCEPT ![jasset[j]] = @ \cup {f}]
    /\ UNCHANGED <<status, prefixed, postered, posters, jasset, tries, stalls, lost, failures>>

\* A file, or the update to READY after the last one, fails.
PutFails(j) ==
    /\ JobOnly(j, "files", "failing") /\ Break
    /\ UNCHANGED <<status, prefixed, postered, hls, posters, attempt, lost>>

\* A plausible bug: the row is READY as soon as the playlist is stored.
FinishEarly(j) ==
    /\ sent[j] # {}
    /\ JobOnly(j, "files", "free")
    /\ status' = [status EXCEPT ![jasset[j]] = "READY"]
    /\ prefixed' = prefixed \cup {jasset[j]}
    /\ Free(j)
    /\ UNCHANGED <<postered, hls, posters, lost, failures>>

\* The row becomes READY, removed or not.
Finish(j) ==
    /\ sent[j] = HlsFiles
    /\ JobOnly(j, "files", "free")
    /\ status' = [status EXCEPT ![jasset[j]] = "READY"]
    /\ prefixed' = prefixed \cup {jasset[j]}
    /\ Free(j)
    /\ UNCHANGED <<postered, hls, posters, lost, failures>>

\* A plausible bug: the error is swallowed, the row is left as it was.
FailSilently(j) ==
    /\ JobOnly(j, "failing", "free")
    /\ Free(j)
    /\ UNCHANGED <<status, prefixed, postered, hls, posters, lost, failures>>

\* A plausible bug: one attempt too many.
FailOnceMore(j) ==
    /\ JobOnly(j, "failing", IF tries[j] <= Attempts THEN "waiting" ELSE "free")
    /\ status' = [status EXCEPT ![jasset[j]] = "FAILED"]
    /\ IF tries[j] <= Attempts
         THEN /\ tries' = [tries EXCEPT ![j] = @ + 1]
              /\ sent' = [sent EXCEPT ![j] = {}]
              /\ UNCHANGED <<jasset, stalls>>
         ELSE Free(j)
    /\ UNCHANGED <<prefixed, postered, hls, posters, lost, failures>>

\* The row becomes FAILED and the error is thrown again: BullMQ retries.
Fail(j) ==
    /\ JobOnly(j, "failing", AfterThrow(j))
    /\ status' = [status EXCEPT ![jasset[j]] = "FAILED"]
    /\ Rethrow(j)
    /\ UNCHANGED <<prefixed, postered, hls, posters, lost, failures>>

\* The worker dies and nothing is written: the queue delivers the job again, as the
\* same attempt, until the job has stalled too often and is given up as it is.
CrashWorker(j) ==
    LET again == stalls[j] < MaxStalls
    IN  /\ jpc[j] \in Active /\ Break
        /\ JobOnly(j, jpc[j], IF again THEN "waiting" ELSE "free")
        /\ IF again
             THEN /\ stalls' = [stalls EXCEPT ![j] = @ + 1]
                  /\ sent' = [sent EXCEPT ![j] = {}]
                  /\ UNCHANGED <<jasset, tries, lost>>
             ELSE Free(j) /\ lost' = lost \cup {jasset[j]}
        /\ UNCHANGED <<status, prefixed, postered, hls, posters>>

Work(j) ==
    \/ Take(j) \/ Begin(j) \/ Transcode(j) \/ TranscodeFails(j)
    \/ PutPoster(j) \/ NamePoster(j) \/ SkipPoster(j)
    \/ PutFile(j) \/ PutFails(j) \/ Finish(j) \/ Fail(j)

-----------------------------------------------------------------------------
(* Removal, the lesson's own removal, and the posters made at start-up.    *)

\* remove: soft-deleted and unlinked in one statement; jobs and objects stay.
Remove(a) ==
    /\ Live(a)
    /\ deleted' = deleted \cup {a}
    /\ linkOf' = [linkOf EXCEPT ![a] = NoVideo]
    /\ UNCHANGED <<lessons, status, stored, prefixed, postered, objects, requests, jobs,
                   lost, failures>>

\* softDeleteVideo: the lesson goes, its media row does not know.
DeleteLesson(v) ==
    /\ v \in lessons
    /\ lessons' = lessons \ {v}
    /\ UNCHANGED <<status, stored, deleted, linkOf, prefixed, postered, objects, requests,
                   jobs, lost, failures>>

\* backfillMissing, when the API starts: READY rows without a poster, object then row.
BackfillPut(a) ==
    /\ Live(a) /\ status[a] = "READY" /\ a \notin postered
    /\ hls[a] # {} \/ a \in original
    /\ posters' = posters \cup {a}
    /\ UNCHANGED <<rows, original, hls, requests, jobs, lost, failures>>

BackfillName(a) ==
    /\ a \in posters \ postered
    /\ postered' = postered \cup {a}
    /\ UNCHANGED <<lessons, status, stored, deleted, linkOf, prefixed, objects, requests,
                   jobs, lost, failures>>

Next ==
    \/ \E q \in Requests, v \in Videos : StartUpload(q, v)
    \/ \E q \in Requests, a \in Assets : StartReprocess(q, a)
    \/ \E q \in Requests : StartReprocessCourse(q)
    \/ \E q \in Requests : Advance(q)
    \/ \E q \in Requests : StoreFails(q)
    \/ \E q \in Requests : Abort(q)
    \/ \E j \in Jobs : Work(j)
    \/ \E j \in Jobs : CrashWorker(j) \/ ThrowUnwritten(j)
    \/ \E a \in Assets : Remove(a) \/ BackfillPut(a) \/ BackfillName(a)
    \/ \E v \in Videos : DeleteLesson(v)

Spec == Init /\ [][Next]_vars

\* A handler that has started runs on; a waiting job is taken and worked on.
Fairness ==
    /\ \A q \in Requests : WF_vars(Advance(q))
    /\ \A j \in Jobs : WF_vars(Work(j))

FairSpec == Spec /\ Fairness

\* Besides, a teacher asks for every asset to be reprocessed, again and again.
PressReprocess(a) == \E q \in Requests : StartReprocess(q, a)

AskingSpec == FairSpec /\ \A a \in Assets : SF_vars(PressReprocess(a))

-----------------------------------------------------------------------------
(* Properties.                                                             *)

\* playback, streamHls and authorizeCdnRequest serve an asset under this condition.
Playable(a) == Live(a) /\ status[a] = "READY" /\ a \in prefixed

\* Whatever jobs of an asset overlap, repeat, fail or die, what the player may ask
\* for is in the storage, and so is every poster a row names.
ServedIsStored ==
    /\ \A a \in Assets : Playable(a) => hls[a] = HlsFiles
    /\ postered \subseteq posters

\* A lesson's live media is never detached by another request: two uploads that
\* both saw the lesson free, one of them releasing a leftover link, end with one
\* asset linked, and only its removal unlinks it.
LiveMediaStaysLinked ==
    [][\A a \in Assets : (Live(a) /\ Live(a)') => linkOf'[a] = linkOf[a]]_vars

\* A row in PROCESSING has a job, or a request that is about to add one.  Only two
\* things leave it without, after the last update that set it: a request died before
\* queue.add, or the queue gave up a job that could not write its end (stalled beyond
\* the limit, or the last attempt threw outside the try or in the catch's own update).
\* Overlapping reprocessing, retries, removals and stalls of the same asset never do.
ProcessingHasJob ==
    \A a \in Assets :
        (Live(a) /\ status[a] = "PROCESSING" /\ a \notin lost) =>
            \/ \E j \in Jobs : jasset[j] = a
            \/ \E q \in Requests : asset[q] = a /\ pc[q] = "enqueue"

\* So a row leaves PROCESSING in the end, unless one of those two happened to it (a
\* row deleted before the system started is never in it).
ProcessingEnds ==
    \A a \in Assets \ Legacy :
        (Live(a) /\ status[a] = "PROCESSING") ~>
            (~Live(a) \/ status[a] # "PROCESSING" \/ a \in lost)

\* "Reprocessa o original no MinIO (H.264+AAC). Nao precisa reenviar o arquivo.":
\* an asset whose original is stored gets a result again when the teacher asks for
\* it.  It does not hold: a request that dies between the update to PROCESSING and
\* queue.add, or a job given up without an answer, leaves the row in PROCESSING, and
\* reprocess returns such a row as it is.
ReprocessRecovers ==
    \A a \in Assets :
        (a \in original /\ status[a] = "PROCESSING") ~>
            (~Live(a) \/ status[a] # "PROCESSING")
=============================================================================
