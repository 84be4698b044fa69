------------------------- MODULE MediaPipelineProofs -------------------------
(***************************************************************************)
(* The safety of the media pipeline, for any number of lessons, assets,    *)
(* requests and jobs, any set of files and any number of attempts.         *)
(*                                                                         *)
(* Three facts carry it.  A request or a job that acts on an asset has     *)
(* one, and the link that an upload releases is of an asset that was       *)
(* deleted: deletion is never undone.  Objects are never removed: what a   *)
(* job has sent is stored whoever else works on the asset.  A job or a     *)
(* request leaves an asset after it wrote the asset's end, or is one of    *)
(* those that died or were given up without writing it.                    *)
(***************************************************************************)
EXTENDS MediaPipeline, TLAPS

\* Whoever is about to act on an asset has one; an upload releases only the
\* link of a deleted asset.
ActorsHaveAssets ==
    /\ \A q \in Requests :
          /\ pc[q] \in {"release", "store", "publish", "enqueue"} => asset[q] \in Assets
          /\ pc[q] = "release" => asset[q] \in deleted
    /\ \A j \in Jobs : IF jpc[j] = "free" THEN jasset[j] = NoAsset /\ sent[j] = {}
                        ELSE jasset[j] \in Assets

\* What rows name and what jobs believe to have sent is in the storage.
RowsHaveFiles == \A a \in prefixed : hls[a] = HlsFiles
JobsHaveFiles ==
    \A j \in Jobs : /\ jpc[j] # "free" => sent[j] \subseteq hls[jasset[j]]
                    /\ jpc[j] = "posterRow" => jasset[j] \in posters
FilesAreKept == RowsHaveFiles /\ postered \subseteq posters /\ JobsHaveFiles

IInv == TypeOK /\ ActorsHaveAssets /\ FilesAreKept /\ ProcessingHasJob

LEMMA Initially == Init => IInv
<1> SUFFICES ASSUME Init PROVE IInv
  OBVIOUS
<1> USE MediaAssumption
<1>1. TypeOK
  BY DEF Init, TypeOK, Legacy, Statuses, RequestPCs, JobPCs
<1>2. ActorsHaveAssets /\ FilesAreKept
  BY DEF Init, ActorsHaveAssets, FilesAreKept, RowsHaveFiles, JobsHaveFiles, Legacy
<1>3. ProcessingHasJob
  BY DEF Init, ProcessingHasJob, Legacy
<1> QED
  BY <1>1, <1>2, <1>3 DEF IInv

-----------------------------------------------------------------------------
LEMMA TypesPreserved ==
    ASSUME TypeOK, ActorsHaveAssets, [Next]_vars
    PROVE  TypeOK'
<1> USE MediaAssumption DEF TypeOK, ActorsHaveAssets, Statuses, RequestPCs, JobPCs,
         vars, rows, objects, requests, jobs, attempt
<1>1. CASE UNCHANGED vars
  BY <1>1
<1>2. ASSUME NEW q \in Requests, NEW v \in Videos, StartUpload(q, v) PROVE TypeOK'
  BY <1>2 DEF StartUpload, Goto, Linked
<1>3. ASSUME NEW q \in Requests, NEW a \in Assets, StartReprocess(q, a) PROVE TypeOK'
  BY <1>3 DEF StartReprocess, Goto
<1>4. ASSUME NEW q \in Requests, StartReprocessCourse(q) PROVE TypeOK'
  BY <1>4 DEF StartReprocessCourse, Goto
<1>5. ASSUME NEW q \in Requests, Release(q) PROVE TypeOK'
  BY <1>5 DEF Release, Goto
<1>6. ASSUME NEW q \in Requests, Create(q) PROVE TypeOK'
  BY <1>6 DEF Create, Goto, End
<1>7. ASSUME NEW q \in Requests, Store(q) PROVE TypeOK'
  BY <1>7 DEF Store, Goto
<1>8. ASSUME NEW q \in Requests, Publish(q) PROVE TypeOK'
  BY <1>8 DEF Publish, Goto
<1>9. ASSUME NEW q \in Requests, MarkProcessing(q) PROVE TypeOK'
  BY <1>9 DEF MarkProcessing, Goto
<1>10. ASSUME NEW q \in Requests, Enqueue(q) PROVE TypeOK'
  BY <1>10 DEF Enqueue, Goto, End
<1>11. ASSUME NEW q \in Requests, StoreFails(q) PROVE TypeOK'
  BY <1>11 DEF StoreFails, Break, End
<1>12. ASSUME NEW q \in Requests, Abort(q) PROVE TypeOK'
  BY <1>12 DEF Abort, Break, End
<1>13. ASSUME NEW j \in Jobs, Take(j) PROVE TypeOK'
  BY <1>13 DEF Take, JobOnly, Free
<1>14. ASSUME NEW j \in Jobs, Begin(j) PROVE TypeOK'
  BY <1>14 DEF Begin, JobOnly
<1>15. ASSUME NEW j \in Jobs, Transcode(j) PROVE TypeOK'
  BY <1>15 DEF Transcode, JobOnly
<1>16. ASSUME NEW j \in Jobs, TranscodeFails(j) PROVE TypeOK'
  BY <1>16 DEF TranscodeFails, JobOnly, Break
<1>17. ASSUME NEW j \in Jobs, PutPoster(j) PROVE TypeOK'
  BY <1>17 DEF PutPoster, JobOnly
<1>18. ASSUME NEW j \in Jobs, NamePoster(j) PROVE TypeOK'
  BY <1>18 DEF NamePoster, JobOnly
<1>19. ASSUME NEW j \in Jobs, SkipPoster(j) PROVE TypeOK'
  BY <1>19 DEF SkipPoster, JobOnly
<1>20. ASSUME NEW j \in Jobs, PutFile(j) PROVE TypeOK'
  BY <1>20 DEF PutFile, JobOnly
<1>21. ASSUME NEW j \in Jobs, PutFails(j) PROVE TypeOK'
  BY <1>21 DEF PutFails, JobOnly, Break
<1>22. ASSUME NEW j \in Jobs, Finish(j) PROVE TypeOK'
  BY <1>22 DEF Finish, JobOnly, Free
<1>23. ASSUME NEW j \in Jobs, Fail(j) PROVE TypeOK'
  BY <1>23 DEF Fail, JobOnly, AfterThrow, Rethrow, Free
<1>24. ASSUME NEW j \in Jobs, CrashWorker(j) PROVE TypeOK'
  BY <1>24 DEF CrashWorker, JobOnly, Break, Active, Free
<1>29. ASSUME NEW j \in Jobs, ThrowUnwritten(j) PROVE TypeOK'
  BY <1>29 DEF ThrowUnwritten, JobOnly, Break, AfterThrow, Rethrow, Free
<1>25. ASSUME NEW a \in Assets, Remove(a) PROVE TypeOK'
  BY <1>25 DEF Remove
<1>26. ASSUME NEW a \in Assets, BackfillPut(a) PROVE TypeOK'
  BY <1>26 DEF BackfillPut
<1>27. ASSUME NEW a \in Assets, BackfillName(a) PROVE TypeOK'
  BY <1>27 DEF BackfillName
<1>28. ASSUME NEW v \in Videos, DeleteLesson(v) PROVE TypeOK'
  BY <1>28 DEF DeleteLesson
<1> QED
  BY <1>1, <1>2, <1>3, <1>4, <1>5, <1>6, <1>7, <1>8, <1>9, <1>10, <1>11, <1>12, <1>13, <1>14, <1>15, <1>16, <1>17, <1>18, <1>19, <1>20, <1>21, <1>22, <1>23, <1>24, <1>25, <1>26, <1>27, <1>28, <1>29 DEF Next, Advance, Work

LEMMA ActorsPreserved ==
    ASSUME TypeOK, ActorsHaveAssets, [Next]_vars
    PROVE  ActorsHaveAssets'
<1> USE MediaAssumption DEF TypeOK, ActorsHaveAssets, RequestPCs, JobPCs,
         vars, rows, objects, requests, jobs, attempt
<1>1. CASE UNCHANGED vars
  BY <1>1
<1>2. ASSUME NEW q \in Requests, NEW v \in Videos, StartUpload(q, v) PROVE ActorsHaveAssets'
  BY <1>2 DEF StartUpload, Goto, Linked
<1>3. ASSUME NEW q \in Requests, NEW a \in Assets, StartReprocess(q, a) PROVE ActorsHaveAssets'
  BY <1>3 DEF StartReprocess, Goto
<1>4. ASSUME NEW q \in Requests, StartReprocessCourse(q) PROVE ActorsHaveAssets'
  BY <1>4 DEF StartReprocessCourse, Goto
<1>5. ASSUME NEW q \in Requests, Release(q) PROVE ActorsHaveAssets'
  BY <1>5 DEF Release, Goto
<1>6. ASSUME NEW q \in Requests, Create(q) PROVE ActorsHaveAssets'
  BY <1>6 DEF Create, Goto, End
<1>7. ASSUME NEW q \in Requests, Store(q) PROVE ActorsHaveAssets'
  BY <1>7 DEF Store, Goto
<1>8. ASSUME NEW q \in Requests, Publish(q) PROVE ActorsHaveAssets'
  BY <1>8 DEF Publish, Goto
<1>9. ASSUME NEW q \in Requests, MarkProcessing(q) PROVE ActorsHaveAssets'
  BY <1>9 DEF MarkProcessing, Goto
<1>10. ASSUME NEW q \in Requests, Enqueue(q) PROVE ActorsHaveAssets'
  BY <1>10 DEF Enqueue, Goto, End
<1>11. ASSUME NEW q \in Requests, StoreFails(q) PROVE ActorsHaveAssets'
  BY <1>11 DEF StoreFails, Break, End
<1>12. ASSUME NEW q \in Requests, Abort(q) PROVE ActorsHaveAssets'
  BY <1>12 DEF Abort, Break, End
<1>13. ASSUME NEW j \in Jobs, Take(j) PROVE ActorsHaveAssets'
  BY <1>13 DEF Take, JobOnly, Free
<1>14. ASSUME NEW j \in Jobs, Begin(j) PROVE ActorsHaveAssets'
  BY <1>14 DEF Begin, JobOnly
<1>15. ASSUME NEW j \in Jobs, Transcode(j) PROVE ActorsHaveAssets'
  BY <1>15 DEF Transcode, JobOnly
<1>16. ASSUME NEW j \in Jobs, TranscodeFails(j) PROVE ActorsHaveAssets'
  BY <1>16 DEF TranscodeFails, JobOnly, Break
<1>17. ASSUME NEW j \in Jobs, PutPoster(j) PROVE ActorsHaveAssets'
  BY <1>17 DEF PutPoster, JobOnly
<1>18. ASSUME NEW j \in Jobs, NamePoster(j) PROVE ActorsHaveAssets'
  BY <1>18 DEF NamePoster, JobOnly
<1>19. ASSUME NEW j \in Jobs, SkipPoster(j) PROVE ActorsHaveAssets'
  BY <1>19 DEF SkipPoster, JobOnly
<1>20. ASSUME NEW j \in Jobs, PutFile(j) PROVE ActorsHaveAssets'
  BY <1>20 DEF PutFile, JobOnly
<1>21. ASSUME NEW j \in Jobs, PutFails(j) PROVE ActorsHaveAssets'
  BY <1>21 DEF PutFails, JobOnly, Break
<1>22. ASSUME NEW j \in Jobs, Finish(j) PROVE ActorsHaveAssets'
  BY <1>22 DEF Finish, JobOnly, Free
<1>23. ASSUME NEW j \in Jobs, Fail(j) PROVE ActorsHaveAssets'
  BY <1>23 DEF Fail, JobOnly, AfterThrow, Rethrow, Free
<1>24. ASSUME NEW j \in Jobs, CrashWorker(j) PROVE ActorsHaveAssets'
  BY <1>24 DEF CrashWorker, JobOnly, Break, Active, Free
<1>29. ASSUME NEW j \in Jobs, ThrowUnwritten(j) PROVE ActorsHaveAssets'
  BY <1>29 DEF ThrowUnwritten, JobOnly, Break, AfterThrow, Rethrow, Free
<1>25. ASSUME NEW a \in Assets, Remove(a) PROVE ActorsHaveAssets'
  BY <1>25 DEF Remove
<1>26. ASSUME NEW a \in Assets, BackfillPut(a) PROVE ActorsHaveAssets'
  BY <1>26 DEF BackfillPut
<1>27. ASSUME NEW a \in Assets, BackfillName(a) PROVE ActorsHaveAssets'
  BY <1>27 DEF BackfillName
<1>28. ASSUME NEW v \in Videos, DeleteLesson(v) PROVE ActorsHaveAssets'
  BY <1>28 DEF DeleteLesson
<1> QED
  BY <1>1, <1>2, <1>3, <1>4, <1>5, <1>6, <1>7, <1>8, <1>9, <1>10, <1>11, <1>12, <1>13, <1>14, <1>15, <1>16, <1>17, <1>18, <1>19, <1>20, <1>21, <1>22, <1>23, <1>24, <1>25, <1>26, <1>27, <1>28, <1>29 DEF Next, Advance, Work

LEMMA FilesPreserved ==
    ASSUME TypeOK, ActorsHaveAssets, FilesAreKept, [Next]_vars
    PROVE  FilesAreKept'
<1> USE MediaAssumption DEF TypeOK, ActorsHaveAssets, FilesAreKept, RowsHaveFiles,
         JobsHaveFiles, RequestPCs, JobPCs,
         vars, rows, objects, requests, jobs, attempt
<1>1. CASE UNCHANGED vars
  BY <1>1
<1>2. ASSUME NEW q \in Requests, NEW v \in Videos, StartUpload(q, v) PROVE FilesAreKept'
  BY <1>2 DEF StartUpload, Goto, Linked
<1>3. ASSUME NEW q \in Requests, NEW a \in Assets, StartReprocess(q, a) PROVE FilesAreKept'
  BY <1>3 DEF StartReprocess, Goto
<1>4. ASSUME NEW q \in Requests, StartReprocessCourse(q) PROVE FilesAreKept'
  BY <1>4 DEF StartReprocessCourse, Goto
<1>5. ASSUME NEW q \in Requests, Release(q) PROVE FilesAreKept'
  BY <1>5 DEF Release, Goto
<1>6. ASSUME NEW q \in Requests, Create(q) PROVE FilesAreKept'
  BY <1>6 DEF Create, Goto, End
<1>7. ASSUME NEW q \in Requests, Store(q) PROVE FilesAreKept'
  BY <1>7 DEF Store, Goto
<1>8. ASSUME NEW q \in Requests, Publish(q) PROVE FilesAreKept'
  BY <1>8 DEF Publish, Goto
<1>9. ASSUME NEW q \in Requests, MarkProcessing(q) PROVE FilesAreKept'
  BY <1>9 DEF MarkProcessing, Goto
<1>10. ASSUME NEW q \in Requests, Enqueue(q) PROVE FilesAreKept'
  BY <1>10 DEF Enqueue, Goto, End
<1>11. ASSUME NEW q \in Requests, StoreFails(q) PROVE FilesAreKept'
  BY <1>11 DEF StoreFails, Break, End
<1>12. ASSUME NEW q \in Requests, Abort(q) PROVE FilesAreKept'
  BY <1>12 DEF Abort, Break, End
<1>13. ASSUME NEW j \in Jobs, Take(j) PROVE FilesAreKept'
  BY <1>13 DEF Take, JobOnly, Free
<1>14. ASSUME NEW j \in Jobs, Begin(j) PROVE FilesAreKept'
  BY <1>14 DEF Begin, JobOnly
<1>15. ASSUME NEW j \in Jobs, Transcode(j) PROVE FilesAreKept'
  BY <1>15 DEF Transcode, JobOnly
<1>16. ASSUME NEW j \in Jobs, TranscodeFails(j) PROVE FilesAreKept'
  BY <1>16 DEF TranscodeFails, JobOnly, Break
<1>17. ASSUME NEW j \in Jobs, PutPoster(j) PROVE FilesAreKept'
  BY <1>17 DEF PutPoster, JobOnly
<1>18. ASSUME NEW j \in Jobs, NamePoster(j) PROVE FilesAreKept'
  BY <1>18 DEF NamePoster, JobOnly
<1>19. ASSUME NEW j \in Jobs, SkipPoster(j) PROVE FilesAreKept'
  BY <1>19 DEF SkipPoster, JobOnly
<1>20. ASSUME NEW j \in Jobs, PutFile(j) PROVE FilesAreKept'
  BY <1>20 DEF PutFile, JobOnly
<1>21. ASSUME NEW j \in Jobs, PutFails(j) PROVE FilesAreKept'
  BY <1>21 DEF PutFails, JobOnly, Break
<1>22. ASSUME NEW j \in Jobs, Finish(j) PROVE FilesAreKept'
  <2>1. jasset[j] \in Assets /\ sent[j] = HlsFiles /\ jpc[j] = "files"
    BY <1>22 DEF Finish, JobOnly
  <2>2. hls[jasset[j]] \subseteq HlsFiles /\ HlsFiles \subseteq hls[jasset[j]]
    BY <2>1
  <2>3. hls[jasset[j]] = HlsFiles
    BY <2>2, Zenon
  <2>4. RowsHaveFiles'
    BY <1>22, <2>3 DEF Finish
  <2>5. (postered \subseteq posters)'
    BY <1>22 DEF Finish
  <2>6. JobsHaveFiles'
    BY <1>22 DEF Finish, JobOnly, Free
  <2> HIDE DEF TypeOK, ActorsHaveAssets, RowsHaveFiles, JobsHaveFiles
  <2> QED BY <2>4, <2>5, <2>6 DEF FilesAreKept
<1>23. ASSUME NEW j \in Jobs, Fail(j) PROVE FilesAreKept'
  BY <1>23 DEF Fail, JobOnly, AfterThrow, Rethrow, Free
<1>24. ASSUME NEW j \in Jobs, CrashWorker(j) PROVE FilesAreKept'
  BY <1>24 DEF CrashWorker, JobOnly, Break, Active, Free
<1>29. ASSUME NEW j \in Jobs, ThrowUnwritten(j) PROVE FilesAreKept'
  BY <1>29 DEF ThrowUnwritten, JobOnly, Break, AfterThrow, Rethrow, Free
<1>25. ASSUME NEW a \in Assets, Remove(a) PROVE FilesAreKept'
  BY <1>25 DEF Remove
<1>26. ASSUME NEW a \in Assets, BackfillPut(a) PROVE FilesAreKept'
  BY <1>26 DEF BackfillPut
<1>27. ASSUME NEW a \in Assets, BackfillName(a) PROVE FilesAreKept'
  BY <1>27 DEF BackfillName
<1>28. ASSUME NEW v \in Videos, DeleteLesson(v) PROVE FilesAreKept'
  BY <1>28 DEF DeleteLesson
<1> QED
  BY <1>1, <1>2, <1>3, <1>4, <1>5, <1>6, <1>7, <1>8, <1>9, <1>10, <1>11, <1>12, <1>13, <1>14, <1>15, <1>16, <1>17, <1>18, <1>19, <1>20, <1>21, <1>22, <1>23, <1>24, <1>25, <1>26, <1>27, <1>28, <1>29 DEF Next, Advance, Work

LEMMA JobsPreserved ==
    ASSUME TypeOK, ActorsHaveAssets, ProcessingHasJob, [Next]_vars
    PROVE  ProcessingHasJob'
<1> USE MediaAssumption DEF TypeOK, ActorsHaveAssets, ProcessingHasJob, Live, RequestPCs, JobPCs,
         vars, rows, objects, requests, jobs, attempt
<1>1. CASE UNCHANGED vars
  BY <1>1
<1>2. ASSUME NEW q \in Requests, NEW v \in Videos, StartUpload(q, v) PROVE ProcessingHasJob'
  BY <1>2 DEF StartUpload, Goto, Linked
<1>3. ASSUME NEW q \in Requests, NEW a \in Assets, StartReprocess(q, a) PROVE ProcessingHasJob'
  BY <1>3 DEF StartReprocess, Goto
<1>4. ASSUME NEW q \in Requests, StartReprocessCourse(q) PROVE ProcessingHasJob'
  BY <1>4 DEF StartReprocessCourse, Goto
<1>5. ASSUME NEW q \in Requests, Release(q) PROVE ProcessingHasJob'
  BY <1>5 DEF Release, Goto
<1>6. ASSUME NEW q \in Requests, Create(q) PROVE ProcessingHasJob'
  BY <1>6 DEF Create, Goto, End
<1>7. ASSUME NEW q \in Requests, Store(q) PROVE ProcessingHasJob'
  BY <1>7 DEF Store, Goto
<1>8. ASSUME NEW q \in Requests, Publish(q) PROVE ProcessingHasJob'
  BY <1>8 DEF Publish, Goto
<1>9. ASSUME NEW q \in Requests, MarkProcessing(q) PROVE ProcessingHasJob'
  BY <1>9 DEF MarkProcessing, Goto
<1>10. ASSUME NEW q \in Requests, Enqueue(q) PROVE ProcessingHasJob'
  BY <1>10 DEF Enqueue, Goto, End
<1>11. ASSUME NEW q \in Requests, StoreFails(q) PROVE ProcessingHasJob'
  BY <1>11 DEF StoreFails, Break, End
<1>12. ASSUME NEW q \in Requests, Abort(q) PROVE ProcessingHasJob'
  BY <1>12 DEF Abort, Break, End
<1>13. ASSUME NEW j \in Jobs, Take(j) PROVE ProcessingHasJob'
  BY <1>13 DEF Take, JobOnly, Free
<1>14. ASSUME NEW j \in Jobs, Begin(j) PROVE ProcessingHasJob'
  BY <1>14 DEF Begin, JobOnly
<1>15. ASSUME NEW j \in Jobs, Transcode(j) PROVE ProcessingHasJob'
  BY <1>15 DEF Transcode, JobOnly
<1>16. ASSUME NEW j \in Jobs, TranscodeFails(j) PROVE ProcessingHasJob'
  BY <1>16 DEF TranscodeFails, JobOnly, Break
<1>17. ASSUME NEW j \in Jobs, PutPoster(j) PROVE ProcessingHasJob'
  BY <1>17 DEF PutPoster, JobOnly
<1>18. ASSUME NEW j \in Jobs, NamePoster(j) PROVE ProcessingHasJob'
  BY <1>18 DEF NamePoster, JobOnly
<1>19. ASSUME NEW j \in Jobs, SkipPoster(j) PROVE ProcessingHasJob'
  BY <1>19 DEF SkipPoster, JobOnly
<1>20. ASSUME NEW j \in Jobs, PutFile(j) PROVE ProcessingHasJob'
  BY <1>20 DEF PutFile, JobOnly
<1>21. ASSUME NEW j \in Jobs, PutFails(j) PROVE ProcessingHasJob'
  BY <1>21 DEF PutFails, JobOnly, Break
<1>22. ASSUME NEW j \in Jobs, Finish(j) PROVE ProcessingHasJob'
  BY <1>22 DEF Finish, JobOnly, Free
<1>23. ASSUME NEW j \in Jobs, Fail(j) PROVE ProcessingHasJob'
  BY <1>23 DEF Fail, JobOnly, AfterThrow, Rethrow, Free
<1>24. ASSUME NEW j \in Jobs, CrashWorker(j) PROVE ProcessingHasJob'
  BY <1>24 DEF CrashWorker, JobOnly, Break, Active, Free
<1>29. ASSUME NEW j \in Jobs, ThrowUnwritten(j) PROVE ProcessingHasJob'
  BY <1>29 DEF ThrowUnwritten, JobOnly, Break, AfterThrow, Rethrow, Free
<1>25. ASSUME NEW a \in Assets, Remove(a) PROVE ProcessingHasJob'
  BY <1>25 DEF Remove
<1>26. ASSUME NEW a \in Assets, BackfillPut(a) PROVE ProcessingHasJob'
  BY <1>26 DEF BackfillPut
<1>27. ASSUME NEW a \in Assets, BackfillName(a) PROVE ProcessingHasJob'
  BY <1>27 DEF BackfillName
<1>28. ASSUME NEW v \in Videos, DeleteLesson(v) PROVE ProcessingHasJob'
  BY <1>28 DEF DeleteLesson
<1> QED
  BY <1>1, <1>2, <1>3, <1>4, <1>5, <1>6, <1>7, <1>8, <1>9, <1>10, <1>11, <1>12, <1>13, <1>14, <1>15, <1>16, <1>17, <1>18, <1>19, <1>20, <1>21, <1>22, <1>23, <1>24, <1>25, <1>26, <1>27, <1>28, <1>29 DEF Next, Advance, Work

-----------------------------------------------------------------------------
\* A step keeps the invariant.
LEMMA Preserved == IInv /\ [Next]_vars => IInv'
BY TypesPreserved, ActorsPreserved, FilesPreserved, JobsPreserved DEF IInv

LEMMA Invariance == Spec => []IInv
BY Initially, Preserved, PTL DEF Spec

\* Every row, object, request and job has its type in every reachable state.
THEOREM TypeCorrect == Spec => []TypeOK
<1>1. IInv => TypeOK
  BY DEF IInv
<1> QED BY <1>1, Invariance, PTL

\* Whatever jobs of an asset overlap, repeat, fail or die, every file of a
\* video that the player may ask for is in the storage, and so is every poster
\* that a row names (media.processor.ts, media.service.ts).
THEOREM PlayerFindsItsFiles == Spec => []ServedIsStored
<1>1. IInv => ServedIsStored
  BY DEF IInv, FilesAreKept, RowsHaveFiles, ServedIsStored, Playable
<1> QED BY <1>1, Invariance, PTL

\* A row in PROCESSING has a job or a request about to add one, however
\* uploads, reprocessings, removals, retries and stalls of the asset overlap, unless,
\* since the last update that set PROCESSING, a request died before queue.add or the
\* queue gave up a job whose end was not written (a stall beyond the limit, a throw
\* outside the try or in the catch of the last attempt), for any limits of both.
THEOREM ProcessingIsServed == Spec => []ProcessingHasJob
<1>1. IInv => ProcessingHasJob
  BY DEF IInv
<1> QED BY <1>1, Invariance, PTL

\* The link of a live asset changes only in the step that removes it: an
\* upload that releases the lesson's key releases the row of a deleted asset,
\* and the unique key keeps out the second of two uploads.
LEMMA LinksAreKept ==
    ASSUME IInv, Next, NEW a \in Assets, Live(a), Live(a)'
    PROVE  linkOf'[a] = linkOf[a]
<1> USE DEF IInv, TypeOK, ActorsHaveAssets, Live, rows, objects, requests, jobs, attempt
<1>1. ASSUME NEW q \in Requests, Release(q) PROVE linkOf'[a] = linkOf[a]
  BY <1>1 DEF Release, Goto
<1>2. ASSUME NEW q \in Requests, Create(q) PROVE linkOf'[a] = linkOf[a]
  BY <1>2 DEF Create
<1>3. ASSUME NEW b \in Assets, Remove(b) PROVE linkOf'[a] = linkOf[a]
  BY <1>3 DEF Remove
<1>4. ASSUME NEW q \in Requests,
             \/ \E v \in Videos : StartUpload(q, v)
             \/ \E b \in Assets : StartReprocess(q, b)
             \/ StartReprocessCourse(q) \/ Store(q) \/ Publish(q) \/ MarkProcessing(q)
             \/ Enqueue(q) \/ StoreFails(q) \/ Abort(q)
      PROVE  UNCHANGED linkOf
  BY <1>4 DEF StartUpload, StartReprocess, StartReprocessCourse, Store, Publish,
              MarkProcessing, Enqueue, StoreFails, Abort
<1>5. ASSUME NEW j \in Jobs, Work(j) \/ CrashWorker(j) \/ ThrowUnwritten(j) PROVE UNCHANGED linkOf
  BY <1>5 DEF Work, CrashWorker, ThrowUnwritten, Take, Begin, Transcode, TranscodeFails, PutPoster,
              NamePoster, SkipPoster, PutFile, PutFails, Finish, Fail, JobOnly
<1>6. ASSUME NEW b \in Assets, BackfillPut(b) \/ BackfillName(b) PROVE UNCHANGED linkOf
  BY <1>6 DEF BackfillPut, BackfillName
<1>7. ASSUME NEW v \in Videos, DeleteLesson(v) PROVE UNCHANGED linkOf
  BY <1>7 DEF DeleteLesson
<1> QED BY <1>1, <1>2, <1>3, <1>4, <1>5, <1>6, <1>7 DEF Next, Advance

THEOREM LinksStay == Spec => LiveMediaStaysLinked
<1>1. IInv /\ [Next]_vars
        => [\A a \in Assets : (Live(a) /\ Live(a)') => linkOf'[a] = linkOf[a]]_vars
  BY LinksAreKept
<1> QED BY <1>1, Invariance, PTL DEF Spec, LiveMediaStaysLinked
=============================================================================
