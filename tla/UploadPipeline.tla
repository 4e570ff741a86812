--------------------------- MODULE UploadPipeline ---------------------------
(***************************************************************************)
(* The path of a screenshot through the Windows service: the IPC handler   *)
(* that writes it to the temp folder and uploads it (ScreenshotHandler),   *)
(* the background queue that retries what is left on disk                  *)
(* (TempFileManager, UploadQueueProcessor), the Drive client they share    *)
(* (GoogleDriveService.UploadFileAsync), and the shutdown sequence that    *)
(* tears all of it down (Worker.StopServiceAsync, ShutdownCoordinator).    *)
(*                                                                         *)
(* A file name stands for the screenshot it holds.  One handler runs per   *)
(* screenshot, concurrently with the others; one processor task drains the *)
(* queue; one periodic task feeds it.  Every await in the code is a point  *)
(* between two actions here.                                               *)
(***************************************************************************)
EXTENDS Naturals, Sequences, FiniteSets

CONSTANTS
    Shots,       \* the screenshots (temp files) of a behaviour
    NoShot,      \* "no file", a value outside Shots
    MaxCopies,   \* bound: Drive files created per screenshot
    MaxOrphans   \* bound: ReceiveAsync calls abandoned by the 5 s timeout

ASSUME ShotsAssumption == NoShot \notin Shots
ASSUME BoundsAssumption == MaxCopies \in Nat \ {0} /\ MaxOrphans \in Nat

VARIABLES
    disk,         \* [Shots -> age of the temp file, or "none"/"gone"]
    copies,       \* [Shots -> number of Drive files made from it]
    rows,         \* [Shots -> number of screenshot rows on the server]
    hpc,          \* [Shots -> where its ScreenshotHandler invocation is]
    retryList,    \* files RetryFailedUploadsAsync still has to enqueue
    tracked,      \* UploadQueueProcessor._queuedFiles
    queue,        \* the buffered items of _uploadQueue
    orphans,      \* abandoned receives still linked to _uploadQueue
    completing,   \* _uploadQueue.Complete() was called
    ppc,          \* where ProcessUploadsAsync is
    pfile,        \* the file it has dequeued, or NoShot
    sem,          \* GoogleDriveService._uploadSemaphore.CurrentCount
    shuttingDown, \* GoogleDriveService._isShuttingDown
    cancelled,    \* the processor's linked token is cancelled
    spc,          \* where Worker.StopServiceAsync is
    stolen        \* history: a wait that was given up released a permit
                  \* somebody else held, in this session of the service

storage  == <<disk, copies, rows>>
block    == <<tracked, queue, orphans, completing>>
proc     == <<ppc, pfile>>
stopping == <<shuttingDown, cancelled, spc, stolen>>
vars     == <<storage, hpc, retryList, block, proc, sem, stopping>>

Ages          == {"none", "fresh", "retryable", "stale", "gone"}
OnDiskAges    == {"fresh", "retryable", "stale"}
HandlerStates == {"idle", "received", "entered", "wait", "timed", "active",
                  "notify", "delete", "done"}
ProcStates    == {"top", "receiving", "got", "entered", "wait", "timed",
                  "active", "notify", "delete", "stopped"}
StopStates    == {"running", "stopping", "draining", "graceful", "closing",
                  "stopped"}

OnDisk(f) == disk[f] \in OnDiskAges

(* BufferBlock.Completion: Complete() was called and nothing is buffered.  *)
QueueCompleted == completing /\ queue = <<>>

Init ==
    /\ disk = [f \in Shots |-> "none"]
    /\ copies = [f \in Shots |-> 0]
    /\ rows = [f \in Shots |-> 0]
    /\ hpc = [f \in Shots |-> "idle"]
    /\ retryList = {}
    /\ tracked = {}
    /\ queue = <<>>
    /\ orphans = 0
    /\ completing = FALSE
    /\ ppc = "top"
    /\ pfile = NoShot
    /\ sem = 1
    /\ shuttingDown = FALSE
    /\ cancelled = FALSE
    /\ spc = "running"
    /\ stolen = FALSE

-----------------------------------------------------------------------------
(* ScreenshotHandler.HandleScreenshotMessageAsync.                         *)

(* The pipe server reads a message while it runs; its handler may act on   *)
(* the message later, even after the server was stopped.                   *)
PipeRead(f) ==
    /\ hpc[f] = "idle" /\ spc \in {"running", "stopping"}
    /\ hpc' = [hpc EXCEPT ![f] = "received"]
    /\ UNCHANGED <<storage, retryList, block, proc, sem, stopping>>

(* Nothing is written: the payload is empty, the shot is similar to the    *)
(* last one, or creating the directory or the file throws.                 *)
DropScreenshot(f) ==
    /\ hpc[f] = "received"
    /\ hpc' = [hpc EXCEPT ![f] = "done"]
    /\ UNCHANGED <<storage, retryList, block, proc, sem, stopping>>

(* UploadFileAsync gives an empty id on entry during shutdown.             *)
UploadSkipped == shuttingDown

(* The file is written and UploadFileAsync entered with nothing between    *)
(* them.  This caller takes an empty id for a failure and keeps the file.  *)
SaveScreenshot(f) ==
    /\ hpc[f] = "received"
    /\ disk' = [disk EXCEPT ![f] = "fresh"]
    /\ hpc' = [hpc EXCEPT ![f] = IF UploadSkipped THEN "done" ELSE "entered"]
    /\ UNCHANGED <<copies, rows, retryList, block, proc, sem, stopping>>

(* Past that test _isShuttingDown is read again, to choose how to wait for *)
(* the permit: without a limit, or for two seconds.                        *)
WaitKind == IF shuttingDown THEN "timed" ELSE "wait"
Waiting  == {"wait", "timed"}

(* A wait that ends without the permit.  The finally block releases the    *)
(* permit when CurrentCount = 0, whoever it was that took it.              *)
GiveUpWait ==
    /\ sem' = 1
    /\ stolen' = (stolen \/ sem = 0)

HWait(f) ==
    /\ hpc[f] = "entered"
    /\ hpc' = [hpc EXCEPT ![f] = WaitKind]
    /\ UNCHANGED <<storage, retryList, block, proc, sem, stopping>>

(* Mutant of HAcquire: uploads without waiting for the permit.             *)
HAcquireNoPermit(f) ==
    /\ hpc[f] \in Waiting
    /\ sem' = 0
    /\ hpc' = [hpc EXCEPT ![f] = "active"]
    /\ UNCHANGED <<storage, retryList, block, proc, stopping>>

HAcquire(f) ==
    /\ hpc[f] \in Waiting /\ sem = 1
    /\ sem' = 0
    /\ hpc' = [hpc EXCEPT ![f] = "active"]
    /\ UNCHANGED <<storage, retryList, block, proc, stopping>>

(* The two seconds are over: an empty id again, and the file is kept.      *)
HTimesOut(f) ==
    /\ hpc[f] = "timed"
    /\ GiveUpWait
    /\ hpc' = [hpc EXCEPT ![f] = "done"]
    /\ UNCHANGED <<storage, retryList, block, proc, shuttingDown, cancelled, spc>>

(* The file is streamed with FileShare.Read, so it is still there when the *)
(* upload completes.                                                       *)
HUploadOk(f) ==
    /\ hpc[f] = "active" /\ OnDisk(f) /\ copies[f] < MaxCopies
    /\ copies' = [copies EXCEPT ![f] = @ + 1]
    /\ sem' = 1
    /\ hpc' = [hpc EXCEPT ![f] = "notify"]
    /\ UNCHANGED <<disk, rows, retryList, block, proc, stopping>>

(* Mutant of HUploadFail: notifies the server of an upload that failed.    *)
HUploadFailNotifies(f) ==
    /\ hpc[f] = "active"
    /\ sem' = 1
    /\ hpc' = [hpc EXCEPT ![f] = "notify"]
    /\ UNCHANGED <<storage, retryList, block, proc, stopping>>

(* UploadFileAsync throws, or returns "" because shutdown began: the file  *)
(* is kept.  The request may have reached Drive all the same.              *)
HUploadFail(f) ==
    /\ hpc[f] = "active"
    /\ \/ copies' = copies
       \/ /\ OnDisk(f) /\ copies[f] < MaxCopies
          /\ copies' = [copies EXCEPT ![f] = @ + 1]
    /\ sem' = 1
    /\ hpc' = [hpc EXCEPT ![f] = "done"]
    /\ UNCHANGED <<disk, rows, retryList, block, proc, stopping>>

(* The notification is stored as a row, or silently skipped by a client    *)
(* that is not connected (or a server that ignores an archived machine).   *)
HNotify(f) ==
    /\ hpc[f] = "notify"
    /\ rows' \in {rows, [rows EXCEPT ![f] = @ + 1]}
    /\ hpc' = [hpc EXCEPT ![f] = "delete"]
    /\ UNCHANGED <<disk, copies, retryList, block, proc, sem, stopping>>

(* Emitting the notification throws: uploadSucceeded stays false.          *)
HNotifyFail(f) ==
    /\ hpc[f] = "notify"
    /\ hpc' = [hpc EXCEPT ![f] = "done"]
    /\ UNCHANGED <<storage, retryList, block, proc, sem, stopping>>

(* File.Delete succeeds, is a no-op on a missing file, or throws.          *)
HDelete(f) ==
    /\ hpc[f] = "delete"
    /\ disk' \in {disk, [disk EXCEPT ![f] = "gone"]}
    /\ hpc' = [hpc EXCEPT ![f] = "done"]
    /\ UNCHANGED <<copies, rows, retryList, block, proc, sem, stopping>>

-----------------------------------------------------------------------------
(* TempFileManager: the clock, the periodic cleanup and the periodic retry.*)

(* Time passes: the file crosses the 5 minute or the 24 hour mark.         *)
Age(f) ==
    /\ disk[f] \in {"fresh", "retryable"}
    /\ disk' = [disk EXCEPT ![f] = IF @ = "fresh" THEN "retryable" ELSE "stale"]
    /\ UNCHANGED <<copies, rows, hpc, retryList, block, proc, sem, stopping>>

CleanupOldFile(f) ==
    /\ ~cancelled
    /\ disk[f] = "stale"
    /\ disk' = [disk EXCEPT ![f] = "gone"]
    /\ UNCHANGED <<copies, rows, hpc, retryList, block, proc, sem, stopping>>

(* GetFilesInAgeRange: the list is a snapshot; the enqueues follow it.     *)
RetryScan ==
    /\ ~cancelled
    /\ retryList = {}
    /\ retryList' = {f \in Shots : disk[f] = "retryable"}
    /\ retryList' # {}
    /\ UNCHANGED <<storage, hpc, block, proc, sem, stopping>>

(* BufferBlock (external): an offered item goes to the oldest linked       *)
(* receive, and only to the buffer when none is linked.  A receive that    *)
(* was abandoned by the timeout takes its item to nobody.                  *)
Offer(f) ==
    \/ /\ orphans > 0
       /\ orphans' = orphans - 1
       /\ UNCHANGED <<queue, proc>>
    \/ /\ orphans = 0 /\ ppc = "receiving"
       /\ ppc' = "got" /\ pfile' = f
       /\ UNCHANGED <<queue, orphans>>
    \/ /\ orphans = 0 /\ ppc # "receiving"
       /\ queue' = Append(queue, f)
       /\ UNCHANGED <<orphans, proc>>

(* Mutant of EnqueueFile: does not consult _queuedFiles.                   *)
EnqueueFileUntracked(f) ==
    /\ tracked' = tracked \cup {f}
    /\ IF completing \/ cancelled
       THEN UNCHANGED <<queue, orphans, proc>>
       ELSE Offer(f)

(* UploadQueueProcessor.EnqueueFileAsync: throws on a completed queue,     *)
(* skips a tracked file; SendAsync is refused once the block completes.    *)
EnqueueFile(f) ==
    \/ /\ QueueCompleted \/ f \in tracked
       /\ UNCHANGED <<tracked, queue, orphans, proc>>
    \/ /\ ~QueueCompleted /\ f \notin tracked
       /\ tracked' = tracked \cup {f}
       /\ IF completing \/ cancelled
          THEN UNCHANGED <<queue, orphans, proc>>
          ELSE Offer(f)

RetryEnqueue(f) ==
    /\ f \in retryList
    /\ retryList' = retryList \ {f}
    /\ EnqueueFile(f)
    /\ UNCHANGED <<storage, hpc, completing, sem, stopping>>

-----------------------------------------------------------------------------
(* UploadQueueProcessor.ProcessUploadsAsync.                               *)

(* The loop condition fails: the task ends and leaves the buffer as it is. *)
PExit ==
    /\ ppc = "top" /\ (cancelled \/ QueueCompleted)
    /\ ppc' = "stopped"
    /\ UNCHANGED <<storage, hpc, retryList, block, pfile, sem, stopping>>

(* ReceiveAsync finds a buffered item, or links itself and waits.          *)
PReceive ==
    /\ ppc = "top" /\ ~cancelled /\ ~QueueCompleted
    /\ IF queue # <<>>
       THEN /\ ppc' = "got" /\ pfile' = Head(queue) /\ queue' = Tail(queue)
       ELSE /\ ppc' = "receiving" /\ UNCHANGED <<pfile, queue>>
    /\ UNCHANGED <<storage, hpc, retryList, tracked, orphans, completing,
                   sem, stopping>>

(* Task.WhenAny returns the 5 s delay: the loop goes round without         *)
(* unlinking the receive it started.                                       *)
PTimeout ==
    /\ ppc = "receiving" /\ ~cancelled /\ ~completing
    /\ orphans < MaxOrphans
    /\ orphans' = orphans + 1
    /\ ppc' = "top"
    /\ UNCHANGED <<storage, hpc, retryList, tracked, queue, completing,
                   pfile, sem, stopping>>

(* The pending receive is cancelled, or fails because the block completed. *)
PReceiveEnds ==
    /\ ppc = "receiving" /\ (cancelled \/ completing)
    /\ ppc' = "stopped"
    /\ UNCHANGED <<storage, hpc, retryList, block, pfile, sem, stopping>>

(* UploadFileAsync on entry.  An empty id is not distinguished from an     *)
(* upload: this caller goes on to delete the file.                         *)
PStart ==
    /\ ppc = "got"
    /\ ppc' = IF UploadSkipped THEN "delete" ELSE "entered"
    /\ UNCHANGED <<storage, hpc, retryList, block, pfile, sem, stopping>>

PWait ==
    /\ ppc = "entered"
    /\ ppc' = WaitKind
    /\ UNCHANGED <<storage, hpc, retryList, block, pfile, sem, stopping>>

PAcquire ==
    /\ ppc \in Waiting /\ sem = 1
    /\ sem' = 0
    /\ ppc' = "active"
    /\ UNCHANGED <<storage, hpc, retryList, block, pfile, stopping>>

(* Mutant of PGiveUp: Release() without the test of CurrentCount.          *)
PGiveUpReleases ==
    /\ ppc = "timed" \/ (ppc = "wait" /\ cancelled)
    /\ sem' = sem + 1 /\ stolen' = (stolen \/ sem = 0)
    /\ ppc' = "delete"
    /\ UNCHANGED <<storage, hpc, retryList, block, pfile, shuttingDown, cancelled, spc>>

(* The two seconds are over, or the token is cancelled.                    *)
PGiveUp ==
    /\ ppc = "timed" \/ (ppc = "wait" /\ cancelled)
    /\ GiveUpWait
    /\ ppc' = "delete"
    /\ UNCHANGED <<storage, hpc, retryList, block, pfile, shuttingDown, cancelled, spc>>

PUploadOk ==
    /\ ppc = "active" /\ OnDisk(pfile) /\ copies[pfile] < MaxCopies
    /\ copies' = [copies EXCEPT ![pfile] = @ + 1]
    /\ sem' = 1
    /\ ppc' = "notify"
    /\ UNCHANGED <<disk, rows, hpc, retryList, block, pfile, stopping>>

(* The loop's catch blocks: stop tracking the file, keep it on disk.       *)
Untrack ==
    /\ tracked' = tracked \ {pfile}
    /\ ppc' = "top" /\ pfile' = NoShot

(* Mutants of PUploadFail: a failed upload is taken for a success; the     *)
(* permit is not released.                                                 *)
PUploadFailDeletes ==
    /\ ppc = "active"
    /\ sem' = 1
    /\ ppc' = "delete"
    /\ UNCHANGED <<storage, hpc, retryList, block, pfile, stopping>>

PUploadFailKeepsPermit ==
    /\ ppc = "active"
    /\ Untrack
    /\ UNCHANGED <<storage, hpc, retryList, queue, orphans, completing, sem,
                   stopping>>

(* The upload throws.  UploadFileAsync rethrows, or during shutdown        *)
(* returns "" - and then the loop goes on as after an upload.              *)
PUploadFail ==
    /\ ppc = "active"
    /\ \/ copies' = copies
       \/ /\ OnDisk(pfile) /\ copies[pfile] < MaxCopies
          /\ copies' = [copies EXCEPT ![pfile] = @ + 1]
    /\ sem' = 1
    /\ IF shuttingDown
       THEN ppc' = "delete" /\ UNCHANGED <<tracked, pfile>>
       ELSE Untrack
    /\ UNCHANGED <<disk, rows, hpc, retryList, queue, orphans, completing,
                   stopping>>

PNotify ==
    /\ ppc = "notify"
    /\ rows' \in {rows, [rows EXCEPT ![pfile] = @ + 1]}
    /\ ppc' = "delete"
    /\ UNCHANGED <<disk, copies, hpc, retryList, block, pfile, sem, stopping>>

PNotifyFail ==
    /\ ppc = "notify"
    /\ Untrack
    /\ UNCHANGED <<storage, hpc, retryList, queue, orphans, completing,
                   sem, stopping>>

(* Deleted unless cancelling; a File.Delete that throws lands in the catch *)
(* block, which also stops tracking.                                       *)
PDelete ==
    /\ ppc = "delete"
    /\ disk' \in IF ~cancelled /\ OnDisk(pfile)
                 THEN {disk, [disk EXCEPT ![pfile] = "gone"]}
                 ELSE {disk}
    /\ Untrack
    /\ UNCHANGED <<copies, rows, hpc, retryList, queue, orphans, completing,
                   sem, stopping>>

-----------------------------------------------------------------------------
(* Worker.StopServiceAsync, UploadQueueProcessor.CompleteAsync and         *)
(* ShutdownCoordinator.ShutdownGracefullyAsync.                            *)

BeginShutdown ==
    /\ spc = "running"
    /\ shuttingDown' = TRUE
    /\ spc' = "stopping"
    /\ UNCHANGED <<storage, hpc, retryList, block, proc, sem, stolen, cancelled>>

(* The pipe server has stopped and reads no more; CompleteAsync then       *)
(* completes the queue, which fails the linked receives, and waits.        *)
CompleteQueue ==
    /\ spc = "stopping"
    /\ completing' = TRUE /\ orphans' = 0
    /\ spc' = "draining"
    /\ UNCHANGED <<storage, hpc, retryList, tracked, queue, proc, sem, stolen,
                   shuttingDown, cancelled>>

(* WhenAny(_processorTask, 3 s): the processor ended, or is cancelled.     *)
DrainDone ==
    /\ spc = "draining" /\ ppc = "stopped"
    /\ spc' = "graceful"
    /\ UNCHANGED <<storage, hpc, retryList, block, proc, sem, stolen, shuttingDown,
                   cancelled>>

DrainTimeout ==
    /\ spc = "draining" /\ ppc # "stopped"
    /\ cancelled' = TRUE
    /\ spc' = "graceful"
    /\ UNCHANGED <<storage, hpc, retryList, block, proc, sem, stolen, shuttingDown>>

(* Mutant of WaitForQueueEmpty: waits for the tracked set to empty.        *)
WaitForTrackedEmpty ==
    /\ spc = "graceful" /\ tracked = {}
    /\ spc' = "closing"
    /\ UNCHANGED <<storage, hpc, retryList, block, proc, sem, stolen, shuttingDown,
                   cancelled>>

(* WaitForQueueEmptyAsync returns at once on an empty queue and otherwise  *)
(* awaits queue.Completion, before it ever starts its timeout.             *)
WaitForQueueEmpty ==
    /\ spc = "graceful" /\ queue = <<>>
    /\ spc' = "closing"
    /\ UNCHANGED <<storage, hpc, retryList, block, proc, sem, stolen, shuttingDown,
                   cancelled>>

(* The session summary, the disposals, then _internalCts.Cancel().         *)
StopFinish ==
    /\ spc = "closing"
    /\ cancelled' = TRUE
    /\ spc' = "stopped"
    /\ UNCHANGED <<storage, hpc, retryList, block, proc, sem, stolen, shuttingDown>>

(* The process ends - after the stop sequence, by a crash, or killed by    *)
(* the service manager - and starts again.  Only the temp folder, Drive    *)
(* and the server's database survive; a request in flight may have         *)
(* reached Drive.                                                          *)
InFlight == {f \in Shots : hpc[f] = "active" \/ (ppc = "active" /\ pfile = f)}

ServiceRestart ==
    /\ \E reached \in SUBSET {f \in InFlight : OnDisk(f) /\ copies[f] < MaxCopies} :
          copies' = [f \in Shots |-> copies[f] + (IF f \in reached THEN 1 ELSE 0)]
    /\ hpc' = [f \in Shots |-> IF hpc[f] = "idle" THEN "idle" ELSE "done"]
    /\ retryList' = {} /\ tracked' = {} /\ queue' = <<>> /\ orphans' = 0
    /\ completing' = FALSE
    /\ ppc' = "top" /\ pfile' = NoShot
    /\ sem' = 1
    /\ shuttingDown' = FALSE /\ cancelled' = FALSE /\ spc' = "running"
    /\ stolen' = FALSE
    /\ UNCHANGED <<disk, rows>>

-----------------------------------------------------------------------------
HandlerStep(f) ==
    \/ DropScreenshot(f) \/ SaveScreenshot(f) \/ HWait(f) \/ HAcquire(f) \/ HTimesOut(f)
    \/ HUploadOk(f) \/ HUploadFail(f) \/ HNotify(f) \/ HNotifyFail(f) \/ HDelete(f)

Handler(f) == PipeRead(f) \/ HandlerStep(f)

TempFiles(f) == Age(f) \/ CleanupOldFile(f) \/ RetryEnqueue(f)

Processor ==
    \/ PExit \/ PReceive \/ PTimeout \/ PReceiveEnds
    \/ PStart \/ PWait \/ PAcquire \/ PGiveUp \/ PUploadOk \/ PUploadFail
    \/ PNotify \/ PNotifyFail \/ PDelete

StopSequence ==
    \/ CompleteQueue \/ DrainDone \/ DrainTimeout \/ WaitForQueueEmpty
    \/ StopFinish

Next ==
    \/ \E f \in Shots : Handler(f) \/ TempFiles(f)
    \/ RetryScan
    \/ Processor
    \/ BeginShutdown \/ StopSequence
    \/ ServiceRestart

Spec == Init /\ [][Next]_vars

(* Fairness.  Every started operation returns: Drive requests end by reply *)
(* or HTTP timeout, emits and file operations return, timers fire.  The    *)
(* semaphore serves its waiters in order, so a waiter for whom it is free  *)
(* again and again gets it (strong fairness).  Screenshots, ageing, the    *)
(* start of a shutdown and the 5 s poll timeout are never forced.          *)
Fairness ==
    /\ \A f \in Shots :
          /\ WF_vars(DropScreenshot(f) \/ SaveScreenshot(f))
          /\ WF_vars(HWait(f) \/ HTimesOut(f)) /\ SF_vars(HAcquire(f))
          /\ WF_vars(HUploadOk(f) \/ HUploadFail(f))
          /\ WF_vars(HNotify(f) \/ HNotifyFail(f)) /\ WF_vars(HDelete(f))
    /\ WF_vars(PExit \/ PReceive \/ PReceiveEnds \/ PStart \/ PWait \/ PGiveUp
               \/ PUploadOk \/ PUploadFail \/ PNotify \/ PNotifyFail \/ PDelete)
    /\ SF_vars(PAcquire)
    /\ WF_vars(StopSequence)

LiveSpec == Spec /\ Fairness

-----------------------------------------------------------------------------
(* Properties.                                                             *)

(* Type invariant of the state the upload classes keep.                    *)
TypeOK ==
    /\ disk \in [Shots -> Ages]
    /\ copies \in [Shots -> 0..MaxCopies]
    /\ rows \in [Shots -> 0..MaxCopies]
    /\ hpc \in [Shots -> HandlerStates]
    /\ retryList \subseteq Shots
    /\ tracked \subseteq Shots
    /\ queue \in Seq(Shots)
    /\ orphans \in 0..MaxOrphans
    /\ ppc \in ProcStates
    /\ pfile \in Shots \cup {NoShot}
    /\ sem \in 0..1
    /\ completing \in BOOLEAN /\ shuttingDown \in BOOLEAN /\ cancelled \in BOOLEAN
    /\ spc \in StopStates
    /\ stolen \in BOOLEAN

(* At most one upload talks to Drive at a time, handlers and queue sharing *)
(* one permit, until a wait that was given up gave away a permit it never  *)
(* had - and waits are given up only while the service shuts down.         *)
ExclusiveUpload ==
    /\ stolen => shuttingDown
    /\ ~stolen =>
        /\ \A f, g \in Shots : hpc[f] = "active" /\ hpc[g] = "active" => f = g
        /\ \A f \in Shots : hpc[f] = "active" => ppc # "active"

(* Every screenshot row on the server has a Drive file of its own behind   *)
(* it, however handler, queue, failed notifications and crashes interleave.*)
RowsHaveFiles == \A f \in Shots : rows[f] <= copies[f]

(* What becomes of a screenshot, as ScreenshotDelivery promises it: every  *)
(* step of the service is a step of that specification or changes nothing  *)
(* it speaks of.  In particular a temp file is removed only when its       *)
(* screenshot is on Drive, when it is older than the 24 h limit, or while  *)
(* the service shuts down, and no row is announced without a Drive file.   *)
FileAs == [none |-> "none", fresh |-> "kept", retryable |-> "kept",
           stale |-> "expired", gone |-> "gone"]

FileOf == [f \in Shots |-> FileAs[disk[f]]]

Delivery == INSTANCE ScreenshotDelivery
                WITH file <- FileOf, closing <- shuttingDown

DeliversScreenshots == Delivery!Spec

(* No file is in the queue twice or queued while it is being processed,    *)
(* everything pending is tracked, and an abandoned receive never leaves    *)
(* items waiting in the buffer.                                            *)
NoDoubleQueue ==
    /\ \A i, j \in DOMAIN queue : queue[i] = queue[j] => i = j
    /\ \A i \in DOMAIN queue : queue[i] \in tracked /\ queue[i] # pfile
    /\ pfile # NoShot => pfile \in tracked
    /\ orphans > 0 => queue = <<>>

(* A handler that got a screenshot finishes - no lost permit, no wait that *)
(* never ends - and a file in the upload queue is taken out of it, unless  *)
(* shutdown cancels the processor first.                                   *)
UploadsEnd ==
    \A f \in Shots :
        /\ (hpc[f] = "received") ~> (hpc[f] = "done")
        /\ (\E i \in DOMAIN queue : queue[i] = f)
               ~> (cancelled \/ \A i \in DOMAIN queue : queue[i] # f)

(* A stop sequence that begins ends, unless the processor was cancelled    *)
(* with items still in the queue.                                          *)
StopTerminatesOrStuck ==
    (spc = "stopping") ~> \/ spc \in {"stopped", "running"}
                          \/ cancelled /\ queue # <<>>

(* The comment on _queuedFiles, "Track queued files": while the queue is   *)
(* open, a tracked file is in it or is being processed.                    *)
TrackedIsPending ==
    ~completing =>
        \A f \in tracked : pfile = f \/ \E i \in DOMAIN queue : queue[i] = f

(* The comment in the processor, "Only delete the file if upload was       *)
(* successful and not cancelling".                                         *)
DeletedOnlyIfUploaded ==
    [][\A f \in Shots :
          OnDisk(f) /\ disk'[f] = "gone" => copies[f] > 0 \/ disk[f] = "stale"]_vars
=============================================================================
