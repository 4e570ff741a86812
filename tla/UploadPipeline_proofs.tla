----------------------- MODULE UploadPipeline_proofs ------------------------
(* Proofs, for every set of screenshots and every bound, of the safety     *)
(* properties of UploadPipeline.                                           *)
EXTENDS UploadPipeline, TLAPS

(* The processor holds a file exactly in these states.                     *)
Busy == {"got", "entered", "wait", "timed", "active", "notify", "delete"}

ProcFile ==
    /\ ppc \in Busy => pfile \in Shots
    /\ ppc \notin Busy => pfile = NoShot

(* Every row, and every notification about to be sent, has its Drive file. *)
RowsBacked ==
    \A f \in Shots :
        /\ rows[f] <= copies[f]
        /\ hpc[f] = "notify" => rows[f] + 1 <= copies[f]
        /\ ppc = "notify" /\ pfile = f => rows[f] + 1 <= copies[f]
        /\ hpc[f] = "notify" /\ ppc = "notify" /\ pfile = f => rows[f] + 2 <= copies[f]

(* Whoever is about to delete a file has seen it uploaded - except the     *)
(* processor once shutdown began.                                          *)
DeleteBacked ==
    /\ \A f \in Shots : hpc[f] = "delete" => copies[f] > 0
    /\ ppc = "delete" /\ ~shuttingDown => copies[pfile] > 0

(* Cancellation happens only inside the stop sequence, and only there do   *)
(* waits have a limit or release what they do not hold.                    *)
StopOrder ==
    /\ spc # "running" => shuttingDown
    /\ cancelled => shuttingDown
    /\ stolen => shuttingDown
    /\ ppc = "timed" => shuttingDown
    /\ \A f \in Shots : hpc[f] = "timed" => shuttingDown

(* The permit is out whenever an upload runs, until a wait that was given  *)
(* up gives away a permit it never had.                                    *)
PermitHeld ==
    ~stolen =>
        /\ \A f \in Shots : hpc[f] = "active" => sem = 0 /\ ppc # "active"
        /\ ppc = "active" => sem = 0
        /\ \A f, g \in Shots : hpc[f] = "active" /\ hpc[g] = "active" => f = g

IInv == TypeOK /\ ProcFile /\ RowsBacked /\ DeleteBacked /\ StopOrder /\ PermitHeld

LEMMA InitIInv == Init => IInv
<1> USE ShotsAssumption, BoundsAssumption DEF Init
<1>1. Init => TypeOK
  <2> USE DEF TypeOK
  <2>1. Init => disk \in [Shots -> Ages] /\ hpc \in [Shots -> HandlerStates]
    BY DEF Ages, HandlerStates
  <2>2. Init => copies \in [Shots -> 0..MaxCopies] /\ rows \in [Shots -> 0..MaxCopies]
    OBVIOUS
  <2>3. Init => queue \in Seq(Shots)
    OBVIOUS
  <2>4. Init => orphans \in 0..MaxOrphans /\ sem \in 0..1
    OBVIOUS
  <2>5. Init => ppc \in ProcStates /\ spc \in StopStates
    BY DEF ProcStates, StopStates
  <2>6. Init => completing \in BOOLEAN /\ shuttingDown \in BOOLEAN /\ cancelled \in BOOLEAN
               /\ stolen \in BOOLEAN
    OBVIOUS
  <2> QED BY <2>1, <2>2, <2>3, <2>4, <2>5, <2>6
<1>2. Init => ProcFile /\ StopOrder
  BY DEF ProcFile, StopOrder, Busy
<1>3. Init => RowsBacked
  BY DEF RowsBacked
<1>4. Init => DeleteBacked /\ PermitHeld
  BY DEF DeleteBacked, PermitHeld
<1> QED BY <1>1, <1>2, <1>3, <1>4 DEF IInv

(* A screenshot handler preserves the invariant.                           *)
LEMMA HandlerIInv == ASSUME IInv, NEW f \in Shots, Handler(f) PROVE IInv'
<1> USE BoundsAssumption, ShotsAssumption
    DEF IInv, TypeOK, ProcFile, RowsBacked, DeleteBacked, StopOrder, PermitHeld, Ages,
        HandlerStates, Busy, OnDisk, storage, block, proc, stopping
<1>1. CASE DropScreenshot(f)  BY <1>1 DEF DropScreenshot
<1>2. CASE SaveScreenshot(f)  BY <1>2 DEF SaveScreenshot, UploadSkipped
<1>3. CASE HWait(f)           BY <1>3 DEF HWait, WaitKind
<1>4. CASE HAcquire(f)        BY <1>4 DEF HAcquire, Waiting
<1>5. CASE HUploadOk(f)
  <2> USE <1>5 DEF HUploadOk
  <2>1. TypeOK' OBVIOUS
  <2>2. ProcFile' /\ StopOrder' /\ PermitHeld' OBVIOUS
  <2>3. RowsBacked' OBVIOUS
  <2>4. DeleteBacked' OBVIOUS
  <2> QED BY <2>1, <2>2, <2>3, <2>4
<1>6. CASE HUploadFail(f)
  <2>1. /\ copies' \in [Shots -> 0..MaxCopies]
        /\ \A g \in Shots : copies[g] <= copies'[g]
    <3>1. CASE copies' = copies
      BY <3>1
    <3>2. CASE copies' = [copies EXCEPT ![f] = @ + 1] /\ copies[f] < MaxCopies
      BY <3>2
    <3> QED BY <1>6, <3>1, <3>2 DEF HUploadFail
  <2>2. /\ hpc' = [hpc EXCEPT ![f] = "done"] /\ sem' = 1 /\ hpc[f] = "active"
        /\ UNCHANGED <<disk, rows, retryList, block, proc, stopping>>
    BY <1>6 DEF HUploadFail
  <2>3. TypeOK' /\ ProcFile' /\ StopOrder' BY <2>1, <2>2
  <2>4. PermitHeld' BY <2>2
  <2>5. RowsBacked' BY <2>1, <2>2
  <2>6. DeleteBacked' BY <2>1, <2>2
  <2> QED BY <2>3, <2>4, <2>5, <2>6
<1>7. CASE HNotify(f)
  <2>1. rows[f] + 1 <= copies[f] /\ copies[f] > 0
    BY <1>7 DEF HNotify
  <2>2. CASE rows' = rows
    BY <1>7, <2>1, <2>2 DEF HNotify
  <2>3. CASE rows' = [rows EXCEPT ![f] = @ + 1]
    <3>1. rows' \in [Shots -> 0..MaxCopies]
      BY <2>1, <2>3
    <3>2. /\ hpc[f] = "notify" /\ hpc' = [hpc EXCEPT ![f] = "delete"]
          /\ UNCHANGED <<disk, copies, retryList, block, proc, sem, stopping>>
      BY <1>7 DEF HNotify
    <3>3. TypeOK' /\ ProcFile' /\ StopOrder' BY <3>1, <3>2
    <3>4. PermitHeld' /\ DeleteBacked' BY <2>1, <3>2
    <3>5. RowsBacked'
      <4>1. /\ rows'[f] = rows[f] + 1 /\ hpc'[f] = "delete"
            /\ \A g \in Shots \ {f} : rows'[g] = rows[g] /\ hpc'[g] = hpc[g]
        BY <2>3, <3>2
      <4> QED BY <3>2, <4>1
    <3> QED BY <3>3, <3>4, <3>5
  <2> QED BY <1>7, <2>2, <2>3 DEF HNotify
<1>8. CASE HNotifyFail(f)     BY <1>8 DEF HNotifyFail
<1>9. CASE HDelete(f)         BY <1>9 DEF HDelete
<1>10. CASE PipeRead(f)       BY <1>10 DEF PipeRead
<1>11. CASE HTimesOut(f)      BY <1>11 DEF HTimesOut, GiveUpWait
<1> QED BY <1>1, <1>2, <1>3, <1>4, <1>5, <1>6, <1>7, <1>8, <1>9, <1>10, <1>11
        DEF Handler, HandlerStep

(* The temp file manager preserves the invariant: it touches neither the   *)
(* Drive nor the permit, and the file it hands over makes the processor    *)
(* busy.                                                                   *)
LEMMA OfferTypes ==
  ASSUME IInv, NEW f \in Shots, EnqueueFile(f)
  PROVE  /\ tracked' \subseteq Shots /\ queue' \in Seq(Shots)
         /\ orphans' \in 0..MaxOrphans
         /\ ppc' \in ProcStates /\ pfile' \in Shots \cup {NoShot}
         /\ \/ UNCHANGED proc
            \/ ppc = "receiving" /\ ppc' = "got" /\ pfile' = f
<1> USE BoundsAssumption DEF IInv, TypeOK, proc, ProcStates
<1>1. CASE QueueCompleted \/ f \in tracked
  BY <1>1 DEF EnqueueFile
<1>2. CASE ~(QueueCompleted \/ f \in tracked)
  <2>1. tracked' = tracked \cup {f}
    BY <1>2 DEF EnqueueFile
  <2>2. CASE Offer(f)
    <3>1. CASE orphans > 0
      BY <2>1, <2>2, <3>1 DEF Offer
    <3>2. CASE orphans = 0 /\ ppc = "receiving"
      BY <2>1, <2>2, <3>2 DEF Offer
    <3>3. CASE orphans = 0 /\ ppc # "receiving"
      <4>1. queue' = Append(queue, f) /\ UNCHANGED <<orphans, proc>>
        BY <2>2, <3>3 DEF Offer
      <4>2. queue' \in Seq(Shots)
        BY <4>1
      <4> QED BY <2>1, <4>1, <4>2
    <3> QED BY <3>1, <3>2, <3>3
  <2>3. CASE UNCHANGED <<queue, orphans, proc>>
    BY <2>1, <2>3
  <2> QED BY <1>2, <2>2, <2>3 DEF EnqueueFile
<1> QED BY <1>1, <1>2

LEMMA TempFilesIInv ==
  ASSUME IInv, (\E f \in Shots : TempFiles(f)) \/ RetryScan PROVE IInv'
<1> USE BoundsAssumption, ShotsAssumption
    DEF IInv, TypeOK, ProcFile, RowsBacked, DeleteBacked, StopOrder, PermitHeld, Ages, Busy,
        storage, block, proc, stopping
<1>1. ASSUME NEW f \in Shots, Age(f) PROVE IInv'
  BY <1>1 DEF Age
<1>2. ASSUME NEW f \in Shots, CleanupOldFile(f) PROVE IInv'
  BY <1>2 DEF CleanupOldFile
<1>3. ASSUME NEW f \in Shots, RetryEnqueue(f) PROVE IInv'
  BY <1>3, OfferTypes DEF RetryEnqueue
<1>4. CASE RetryScan
  BY <1>4 DEF RetryScan
<1> QED BY <1>1, <1>2, <1>3, <1>4 DEF TempFiles

(* The queue processor preserves the invariant.                            *)
LEMMA ProcessorIInv == ASSUME IInv, Processor PROVE IInv'
<1> USE BoundsAssumption, ShotsAssumption
    DEF IInv, TypeOK, ProcFile, RowsBacked, DeleteBacked, StopOrder, PermitHeld, Ages,
        ProcStates, Busy, OnDisk, Untrack, storage, block, proc, stopping
<1>1. CASE PExit         BY <1>1 DEF PExit
<1>2. CASE PReceive
  <2>1. /\ ppc' \in {"got", "receiving"} /\ queue' \in Seq(Shots)
        /\ pfile' \in Shots \cup {NoShot}
        /\ ppc' = "got" => pfile' \in Shots
        /\ ppc' = "receiving" => pfile' = NoShot
    <3>1. CASE queue # <<>>
      <4>1. ppc' = "got" /\ pfile' = Head(queue) /\ queue' = Tail(queue)
        BY <1>2, <3>1 DEF PReceive
      <4>2. Head(queue) \in Shots /\ Tail(queue) \in Seq(Shots)
        BY <3>1
      <4> QED BY <4>1, <4>2
    <3>2. CASE queue = <<>>
      BY <1>2, <3>2 DEF PReceive
    <3> QED BY <3>1, <3>2
  <2>2. /\ ppc = "top" /\ ~cancelled
        /\ UNCHANGED <<storage, hpc, retryList, tracked, orphans, completing, sem, stopping>>
    BY <1>2 DEF PReceive
  <2> QED BY <2>1, <2>2
<1>3. CASE PTimeout      BY <1>3 DEF PTimeout
<1>4. CASE PReceiveEnds  BY <1>4 DEF PReceiveEnds
<1>5. CASE PStart \/ PWait  BY <1>5 DEF PStart, PWait, UploadSkipped, WaitKind
<1>6. CASE PAcquire      BY <1>6 DEF PAcquire, Waiting
<1>7. CASE PGiveUp       BY <1>7 DEF PGiveUp, GiveUpWait
<1>8. CASE PUploadOk     BY <1>8 DEF PUploadOk
<1>9. CASE PUploadFail
  <2>1. /\ copies' \in [Shots -> 0..MaxCopies]
        /\ \A g \in Shots : copies[g] <= copies'[g]
    <3>1. CASE copies' = copies
      BY <3>1
    <3>2. CASE copies' = [copies EXCEPT ![pfile] = @ + 1] /\ copies[pfile] < MaxCopies
      BY <1>9, <3>2 DEF PUploadFail
    <3> QED BY <1>9, <3>1, <3>2 DEF PUploadFail
  <2>2. /\ sem' = 1 /\ ppc = "active"
        /\ UNCHANGED <<disk, rows, hpc, retryList, queue, orphans, completing, stopping>>
        /\ \/ shuttingDown /\ ppc' = "delete" /\ UNCHANGED <<tracked, pfile>>
           \/ tracked' = tracked \ {pfile} /\ ppc' = "top" /\ pfile' = NoShot
    BY <1>9 DEF PUploadFail
  <2>3. TypeOK' /\ ProcFile' /\ StopOrder' BY <2>1, <2>2
  <2>4. PermitHeld' BY <2>2
  <2>5. RowsBacked' BY <2>1, <2>2
  <2>6. DeleteBacked' BY <2>1, <2>2
  <2> QED BY <2>3, <2>4, <2>5, <2>6
<1>10. CASE PNotify
  <2>1. pfile \in Shots /\ rows[pfile] + 1 <= copies[pfile] /\ copies[pfile] > 0
    BY <1>10 DEF PNotify
  <2>2. CASE rows' = rows
    BY <1>10, <2>1, <2>2 DEF PNotify
  <2>3. CASE rows' = [rows EXCEPT ![pfile] = @ + 1]
    <3>1. rows' \in [Shots -> 0..MaxCopies]
      BY <2>1, <2>3
    <3>2. /\ ppc = "notify" /\ ppc' = "delete"
          /\ UNCHANGED <<disk, copies, hpc, retryList, block, pfile, sem, stopping>>
      BY <1>10 DEF PNotify
    <3>3. TypeOK' /\ ProcFile' /\ StopOrder' BY <3>1, <3>2
    <3>4. PermitHeld' /\ DeleteBacked' BY <2>1, <3>2
    <3>5. RowsBacked'
      <4>1. /\ rows'[pfile] = rows[pfile] + 1
            /\ \A g \in Shots \ {pfile} : rows'[g] = rows[g]
        BY <2>1, <2>3
      <4>2. /\ rows[pfile] + 1 <= copies[pfile]
            /\ hpc[pfile] = "notify" => rows[pfile] + 2 <= copies[pfile]
        BY <2>1, <3>2
      <4>3. rows[pfile] \in Nat /\ copies[pfile] \in Nat
        BY <2>1
      <4>4. \A g \in Shots : rows'[g] <= copies'[g]
                              /\ (hpc'[g] = "notify" => rows'[g] + 1 <= copies'[g])
        <5> SUFFICES ASSUME NEW g \in Shots
                     PROVE  rows'[g] <= copies'[g]
                            /\ (hpc'[g] = "notify" => rows'[g] + 1 <= copies'[g])
          OBVIOUS
        <5>1. CASE g = pfile BY <3>2, <4>1, <4>2, <4>3, <5>1
        <5>2. CASE g # pfile BY <3>2, <4>1, <5>2
        <5> QED BY <5>1, <5>2
      <4> QED BY <3>2, <4>4
    <3> QED BY <3>3, <3>4, <3>5
  <2> QED BY <1>10, <2>2, <2>3 DEF PNotify
<1>11. CASE PNotifyFail
  <2>1. /\ ppc = "notify" /\ ppc' = "top" /\ pfile' = NoShot /\ tracked' \subseteq Shots
        /\ UNCHANGED <<storage, hpc, retryList, queue, orphans, completing, sem, stopping>>
    BY <1>11 DEF PNotifyFail
  <2>2. RowsBacked' BY <2>1
  <2>3. TypeOK' /\ ProcFile' /\ StopOrder' BY <2>1
  <2>4. PermitHeld' /\ DeleteBacked' BY <2>1
  <2> QED BY <2>2, <2>3, <2>4
<1>12. CASE PDelete
  <2>1. disk' \in [Shots -> Ages]
    BY <1>12 DEF PDelete
  <2>2. /\ Untrack
        /\ UNCHANGED <<copies, rows, hpc, retryList, queue, orphans, completing, sem,
                       stopping>>
    BY <1>12 DEF PDelete
  <2> QED BY <2>1, <2>2
<1> QED BY <1>1, <1>2, <1>3, <1>4, <1>5, <1>6, <1>7, <1>8, <1>9, <1>10, <1>11, <1>12
        DEF Processor

(* The stop sequence and the restart preserve the invariant.               *)
LEMMA StopIInv == ASSUME IInv, BeginShutdown \/ StopSequence PROVE IInv'
<1> USE BoundsAssumption, ShotsAssumption
    DEF IInv, TypeOK, ProcFile, RowsBacked, DeleteBacked, StopOrder, PermitHeld,
        StopStates, Busy, storage, block, proc, stopping
<1>1. CASE BeginShutdown      BY <1>1 DEF BeginShutdown
<1>2. CASE CompleteQueue      BY <1>2 DEF CompleteQueue
<1>3. CASE DrainDone          BY <1>3 DEF DrainDone
<1>4. CASE DrainTimeout       BY <1>4 DEF DrainTimeout
<1>5. CASE WaitForQueueEmpty  BY <1>5 DEF WaitForQueueEmpty
<1>6. CASE StopFinish         BY <1>6 DEF StopFinish
<1> QED BY <1>1, <1>2, <1>3, <1>4, <1>5, <1>6 DEF StopSequence

LEMMA RestartIInv == ASSUME IInv, ServiceRestart PROVE IInv'
<1> USE BoundsAssumption, ShotsAssumption
    DEF IInv, TypeOK, ProcFile, RowsBacked, DeleteBacked, StopOrder, PermitHeld, Busy
<1>1. /\ copies' \in [Shots -> 0..MaxCopies]
      /\ \A g \in Shots : copies[g] <= copies'[g]
  <2>1. PICK reached \in SUBSET {f \in InFlight : OnDisk(f) /\ copies[f] < MaxCopies} :
           copies' = [f \in Shots |-> copies[f] + (IF f \in reached THEN 1 ELSE 0)]
    BY DEF ServiceRestart
  <2> QED BY <2>1
<1>2. /\ hpc' \in [Shots -> HandlerStates]
      /\ \A g \in Shots : hpc'[g] \in {"idle", "done"}
  BY DEF ServiceRestart, HandlerStates
<1>3. UNCHANGED <<disk, rows>>
  BY DEF ServiceRestart
<1>4. /\ retryList' = {} /\ tracked' = {} /\ queue' = <<>> /\ orphans' = 0
      /\ completing' = FALSE /\ ppc' = "top" /\ pfile' = NoShot /\ sem' = 1
      /\ shuttingDown' = FALSE /\ cancelled' = FALSE /\ spc' = "running"
      /\ stolen' = FALSE
  BY DEF ServiceRestart
<1>5. TypeOK'
  <2>1. queue' \in Seq(Shots) /\ ppc' \in ProcStates /\ spc' \in StopStates
    BY <1>4 DEF ProcStates, StopStates
  <2>2. disk' \in [Shots -> Ages] /\ rows' \in [Shots -> 0..MaxCopies]
    BY <1>3
  <2>3. orphans' \in 0..MaxOrphans /\ sem' \in 0..1
    BY <1>4
  <2> QED BY <1>1, <1>2, <1>4, <2>1, <2>2, <2>3
<1>6. ProcFile' /\ StopOrder' /\ PermitHeld' /\ DeleteBacked'
  BY <1>2, <1>4
<1>7. RowsBacked'
  <2> SUFFICES ASSUME NEW g \in Shots PROVE rows'[g] <= copies'[g]
    BY <1>2, <1>4
  <2>1. rows[g] \in Nat /\ copies[g] \in Nat /\ copies'[g] \in Nat
    BY <1>1
  <2>2. rows[g] <= copies[g] /\ rows'[g] = rows[g] /\ copies[g] <= copies'[g]
    BY <1>1, <1>3
  <2> QED BY <2>1, <2>2
<1> QED BY <1>5, <1>6, <1>7

LEMMA NextIInv == ASSUME IInv, [Next]_vars PROVE IInv'
<1>1. CASE UNCHANGED vars
  BY <1>1 DEF IInv, TypeOK, ProcFile, RowsBacked, DeleteBacked, StopOrder, PermitHeld,
     vars, storage, block, proc, stopping
<1> QED BY <1>1, HandlerIInv, TempFilesIInv, ProcessorIInv, StopIInv, RestartIInv DEF Next

(* The inductive invariant holds in every behaviour of the pipeline.       *)
THEOREM Invariant == Spec => []IInv
  BY InitIInv, NextIInv, PTL DEF Spec

(* Every variable keeps its type; in particular no counter leaves its range.*)
THEOREM TypeCorrect == Spec => []TypeOK
<1>1. IInv => TypeOK
  BY DEF IInv
<1> QED BY <1>1, Invariant, PTL

(* Handlers and queue never upload at the same time before a wait that was *)
(* given up releases a permit it does not hold, which only shutdown makes. *)
THEOREM UploadsAreExclusive == Spec => []ExclusiveUpload
<1>1. IInv => ExclusiveUpload
  BY DEF IInv, PermitHeld, StopOrder, ExclusiveUpload
<1> QED BY <1>1, Invariant, PTL

(* The server never has more rows for a screenshot than Drive has files.   *)
THEOREM RowsAreBacked == Spec => []RowsHaveFiles
<1>1. IInv => RowsHaveFiles
  BY DEF IInv, RowsBacked, RowsHaveFiles
<1> QED BY <1>1, Invariant, PTL

-----------------------------------------------------------------------------
(* The refinement.  A screenshot whose handler has not written it yet has  *)
(* never been on disk, and one whose handler has was: this is what makes   *)
(* saving and deleting steps of the abstract specification.                *)
Saved == {"entered", "wait", "timed", "active", "notify", "delete"}

SavedOnce == \A f \in Shots :
    /\ hpc[f] \in {"idle", "received"} => disk[f] = "none"
    /\ hpc[f] \in Saved => disk[f] # "none"

LEMMA NextSavedOnce == ASSUME IInv, SavedOnce, [Next]_vars PROVE SavedOnce'
<1> USE DEF IInv, TypeOK, SavedOnce, Saved, storage
<1>1. ASSUME NEW f \in Shots, Handler(f) PROVE SavedOnce'
  <2>1. CASE PipeRead(f) BY <2>1 DEF PipeRead
  <2>2. CASE SaveScreenshot(f) BY <2>2 DEF SaveScreenshot
  <2>3. CASE HDelete(f) BY <2>3 DEF HDelete
  <2>4. CASE DropScreenshot(f) \/ HWait(f) \/ HAcquire(f) \/ HTimesOut(f) \/ HUploadOk(f)
             \/ HUploadFail(f) \/ HNotify(f) \/ HNotifyFail(f)
    <3>1. /\ disk' = disk
          /\ \/ hpc' = [hpc EXCEPT ![f] = "done"]
             \/ hpc[f] \in Saved /\ hpc' = [hpc EXCEPT ![f] = WaitKind]
             \/ hpc[f] \in Saved /\ hpc' = [hpc EXCEPT ![f] = "active"]
             \/ hpc[f] \in Saved /\ hpc' = [hpc EXCEPT ![f] = "notify"]
             \/ hpc[f] \in Saved /\ hpc' = [hpc EXCEPT ![f] = "delete"]
      BY <2>4 DEF DropScreenshot, HWait, HAcquire, HTimesOut, HUploadOk, HUploadFail, HNotify,
         HNotifyFail, Waiting
    <3> QED BY <3>1 DEF WaitKind
  <2> QED BY <1>1, <2>1, <2>2, <2>3, <2>4 DEF Handler, HandlerStep
<1>2. ASSUME NEW f \in Shots, TempFiles(f) PROVE SavedOnce'
  <2>1. CASE Age(f) BY <2>1 DEF Age
  <2>2. CASE CleanupOldFile(f) BY <2>2 DEF CleanupOldFile
  <2>3. CASE RetryEnqueue(f) BY <2>3 DEF RetryEnqueue
  <2> QED BY <1>2, <2>1, <2>2, <2>3 DEF TempFiles
<1>3. CASE Processor
  <2>1. hpc' = hpc
    BY <1>3 DEF Processor, PExit, PReceive, PTimeout, PReceiveEnds, PStart, PWait, PAcquire,
       PGiveUp, PUploadOk, PUploadFail, PNotify, PNotifyFail, PDelete
  <2>2. CASE PDelete
    <3>1. \A g \in Shots : disk[g] = "none" <=> disk'[g] = "none"
      <4>1. CASE disk' = disk
        BY <4>1
      <4>2. CASE OnDisk(pfile) /\ disk' = [disk EXCEPT ![pfile] = "gone"]
        BY <4>2 DEF OnDisk, OnDiskAges
      <4> QED BY <2>2, <4>1, <4>2 DEF PDelete
    <3> QED BY <2>1, <3>1
  <2>3. CASE ~PDelete
    <3>1. disk' = disk
      BY <1>3, <2>3 DEF Processor, PExit, PReceive, PTimeout, PReceiveEnds, PStart, PWait, PAcquire,
         PGiveUp, PUploadOk, PUploadFail, PNotify, PNotifyFail
    <3> QED BY <2>1, <3>1
  <2> QED BY <2>2, <2>3
<1>4. CASE RetryScan \/ BeginShutdown \/ StopSequence
  <2>1. disk' = disk /\ hpc' = hpc
    BY <1>4 DEF RetryScan, BeginShutdown, StopSequence, CompleteQueue, DrainDone,
       DrainTimeout, WaitForQueueEmpty, StopFinish
  <2> QED BY <2>1
<1>5. CASE ServiceRestart
  <2>1. /\ disk' = disk
        /\ \A g \in Shots : \/ hpc'[g] = "idle" /\ hpc[g] = "idle"
                            \/ hpc'[g] = "done"
    BY <1>5 DEF ServiceRestart
  <2> QED BY <2>1
<1>6. CASE UNCHANGED vars
  BY <1>6 DEF vars
<1> QED BY <1>1, <1>2, <1>3, <1>4, <1>5, <1>6 DEF Next

(* A step of the abstract specification, or of nothing it speaks of.       *)
DeliveryStep == Delivery!Next \/ UNCHANGED <<FileOf, copies, rows, shuttingDown>>

LEMMA FileSame == ASSUME disk' = disk PROVE FileOf' = FileOf
  BY DEF FileOf

LEMMA FileChanges ==
  ASSUME IInv, NEW f \in Shots, NEW age \in Ages, disk' = [disk EXCEPT ![f] = age]
  PROVE  FileOf' = [FileOf EXCEPT ![f] = FileAs[age]]
<1>1. disk' = [g \in Shots |-> IF g = f THEN age ELSE disk[g]]
  BY DEF IInv, TypeOK
<1> QED BY <1>1 DEF FileOf

LEMMA FileThere == ASSUME IInv, NEW f \in Shots PROVE Delivery!There(f) <=> OnDisk(f)
<1>1. FileOf[f] = FileAs[disk[f]]
  BY DEF FileOf
<1>2. disk[f] \in Ages
  BY DEF IInv, TypeOK
<1> QED BY <1>1, <1>2 DEF Delivery!There, FileAs, OnDisk, OnDiskAges, Ages

(* What a step may do to one screenshot: nothing, be one of the five       *)
(* abstract actions.                                                       *)
LEMMA CopyMaps ==
  ASSUME IInv, NEW f \in Shots, OnDisk(f), copies' = [copies EXCEPT ![f] = @ + 1],
         UNCHANGED <<disk, rows, shuttingDown>>
  PROVE  DeliveryStep
<1>1. Delivery!Copy(f)
  BY FileThere, FileSame DEF Delivery!Copy
<1> QED BY <1>1 DEF DeliveryStep, Delivery!Next

LEMMA AnnounceMaps ==
  ASSUME IInv, NEW f \in Shots, rows[f] < copies[f], rows' = [rows EXCEPT ![f] = @ + 1],
         UNCHANGED <<disk, copies, shuttingDown>>
  PROVE  DeliveryStep
<1>1. Delivery!Announce(f)
  BY FileSame DEF Delivery!Announce
<1> QED BY <1>1 DEF DeliveryStep, Delivery!Next

LEMMA DiscardMaps ==
  ASSUME IInv, NEW f \in Shots, disk' = [disk EXCEPT ![f] = "gone"],
         copies[f] > 0 \/ disk[f] = "stale" \/ shuttingDown,
         OnDisk(f), UNCHANGED <<copies, rows, shuttingDown>>
  PROVE  DeliveryStep
<1>1. "gone" \in Ages /\ FileAs["gone"] = "gone"
  BY DEF Ages, FileAs
<1>2. FileOf' = [FileOf EXCEPT ![f] = "gone"]
  BY <1>1, FileChanges
<1>3. disk[f] = "stale" => FileOf[f] = "expired"
  BY DEF FileOf, FileAs
<1>4. Delivery!Discard(f)
  BY <1>2, <1>3, FileThere DEF Delivery!Discard
<1> QED BY <1>4 DEF DeliveryStep, Delivery!Next

LEMMA StutterMaps ==
  ASSUME UNCHANGED <<storage, shuttingDown>> PROVE DeliveryStep
  BY FileSame DEF DeliveryStep, storage

(* The handler: it saves what was never saved, announces what it copied    *)
(* and deletes what Drive has.                                             *)
LEMMA HandlerDelivers ==
  ASSUME IInv, SavedOnce, NEW f \in Shots, Handler(f) PROVE DeliveryStep
<1> USE DEF IInv, storage, stopping
<1>1. CASE SaveScreenshot(f)
  <2>1. disk[f] = "none" /\ disk' = [disk EXCEPT ![f] = "fresh"]
    BY <1>1 DEF SaveScreenshot, SavedOnce
  <2>2. "fresh" \in Ages /\ FileAs["fresh"] = "kept" /\ FileAs["none"] = "none"
    BY DEF Ages, FileAs
  <2>3. FileOf[f] = "none" /\ FileOf' = [FileOf EXCEPT ![f] = "kept"]
    BY <2>1, <2>2, FileChanges DEF FileOf
  <2>4. Delivery!Save(f)
    BY <1>1, <2>3 DEF SaveScreenshot, Delivery!Save
  <2> QED BY <2>4 DEF DeliveryStep, Delivery!Next
<1>2. CASE HUploadOk(f)
  BY <1>2, CopyMaps DEF HUploadOk
<1>3. CASE HUploadFail(f)
  <2>1. CASE copies' = copies
    BY <1>3, <2>1, StutterMaps DEF HUploadFail
  <2>2. CASE OnDisk(f) /\ copies' = [copies EXCEPT ![f] = @ + 1]
    BY <1>3, <2>2, CopyMaps DEF HUploadFail
  <2> QED BY <1>3, <2>1, <2>2 DEF HUploadFail
<1>4. CASE HNotify(f)
  <2>1. CASE rows' = rows
    BY <1>4, <2>1, StutterMaps DEF HNotify
  <2>2. CASE rows' = [rows EXCEPT ![f] = @ + 1]
    <3>1. rows[f] < copies[f]
      BY <1>4 DEF HNotify, RowsBacked, TypeOK
    <3> QED BY <1>4, <2>2, <3>1, AnnounceMaps DEF HNotify
  <2> QED BY <1>4, <2>1, <2>2 DEF HNotify
<1>5. CASE HDelete(f)
  <2>1. CASE disk' = disk
    BY <1>5, <2>1, StutterMaps DEF HDelete
  <2>2. CASE disk' = [disk EXCEPT ![f] = "gone"]
    <3>1. copies[f] > 0
      BY <1>5 DEF HDelete, DeleteBacked
    <3>2. CASE OnDisk(f)
      BY <1>5, <2>2, <3>1, <3>2, DiscardMaps DEF HDelete
    <3>3. CASE ~OnDisk(f)
      <4>1. disk[f] = "gone"
        BY <1>5, <3>3 DEF HDelete, SavedOnce, Saved, OnDisk, OnDiskAges, TypeOK, Ages
      <4>2. disk' = disk
        BY <2>2, <4>1 DEF TypeOK
      <4> QED BY <1>5, <4>2, StutterMaps DEF HDelete
    <3> QED BY <3>2, <3>3
  <2> QED BY <1>5, <2>1, <2>2 DEF HDelete
<1>6. CASE PipeRead(f) \/ DropScreenshot(f) \/ HWait(f) \/ HAcquire(f) \/ HTimesOut(f)
           \/ HNotifyFail(f)
  BY <1>6, StutterMaps DEF PipeRead, DropScreenshot, HWait, HAcquire, HTimesOut, HNotifyFail
<1> QED BY <1>1, <1>2, <1>3, <1>4, <1>5, <1>6 DEF Handler, HandlerStep

(* The temp file manager expires files and removes the expired.            *)
LEMMA TempFilesDeliver ==
  ASSUME IInv, NEW f \in Shots, TempFiles(f) PROVE DeliveryStep
<1> USE DEF storage, stopping
<1>1. CASE Age(f) /\ disk[f] = "fresh"
  <2>1. disk' = [disk EXCEPT ![f] = "retryable"] /\ "retryable" \in Ages
    BY <1>1 DEF Age, Ages
  <2>2. FileOf[f] = "kept" /\ FileAs["retryable"] = "kept"
    BY <1>1 DEF FileOf, FileAs
  <2>3. FileOf' = FileOf
    BY <2>1, <2>2, FileChanges DEF FileOf
  <2> QED BY <1>1, <2>3 DEF Age, DeliveryStep
<1>2. CASE Age(f) /\ disk[f] = "retryable"
  <2>1. disk' = [disk EXCEPT ![f] = "stale"] /\ "stale" \in Ages
    BY <1>2 DEF Age, Ages
  <2>2. FileOf[f] = "kept" /\ FileAs["stale"] = "expired"
    BY <1>2 DEF FileOf, FileAs
  <2>3. FileOf' = [FileOf EXCEPT ![f] = "expired"]
    BY <2>1, <2>2, FileChanges
  <2>4. Delivery!Expire(f)
    BY <1>2, <2>2, <2>3 DEF Age, Delivery!Expire
  <2> QED BY <2>4 DEF DeliveryStep, Delivery!Next
<1>3. CASE CleanupOldFile(f)
  BY <1>3, DiscardMaps DEF CleanupOldFile, OnDisk, OnDiskAges
<1>4. CASE RetryEnqueue(f)
  BY <1>4, StutterMaps DEF RetryEnqueue
<1> QED BY <1>1, <1>2, <1>3, <1>4 DEF TempFiles, Age

(* The processor: an empty id makes it delete a file Drive has not, which  *)
(* only happens while the service closes.                                  *)
LEMMA ProcessorDelivers == ASSUME IInv, Processor PROVE DeliveryStep
<1> USE DEF storage, stopping
<1>1. CASE PUploadOk \/ PUploadFail
  <2>1. pfile \in Shots
    BY <1>1 DEF PUploadOk, PUploadFail, IInv, ProcFile, Busy
  <2>2. UNCHANGED <<disk, rows, shuttingDown>>
    BY <1>1 DEF PUploadOk, PUploadFail
  <2>3. CASE copies' = copies
    BY <2>2, <2>3, StutterMaps
  <2>4. CASE OnDisk(pfile) /\ copies' = [copies EXCEPT ![pfile] = @ + 1]
    BY <2>1, <2>2, <2>4, CopyMaps
  <2> QED BY <1>1, <2>3, <2>4 DEF PUploadOk, PUploadFail
<1>2. CASE PNotify
  <2>1. pfile \in Shots
    BY <1>2 DEF PNotify, IInv, ProcFile, Busy
  <2>2. rows[pfile] < copies[pfile]
    BY <1>2, <2>1 DEF PNotify, IInv, RowsBacked, TypeOK
  <2>3. CASE rows' = rows
    BY <1>2, <2>3, StutterMaps DEF PNotify
  <2>4. CASE rows' = [rows EXCEPT ![pfile] = @ + 1]
    BY <1>2, <2>1, <2>2, <2>4, AnnounceMaps DEF PNotify
  <2> QED BY <1>2, <2>3, <2>4 DEF PNotify
<1>3. CASE PDelete
  <2>1. pfile \in Shots /\ (shuttingDown \/ copies[pfile] > 0)
    BY <1>3 DEF PDelete, IInv, ProcFile, Busy, DeleteBacked
  <2>2. UNCHANGED <<copies, rows, shuttingDown>>
    BY <1>3 DEF PDelete
  <2>3. CASE disk' = disk
    BY <2>2, <2>3, StutterMaps
  <2>4. CASE OnDisk(pfile) /\ disk' = [disk EXCEPT ![pfile] = "gone"]
    BY <2>1, <2>2, <2>4, DiscardMaps
  <2> QED BY <1>3, <2>3, <2>4 DEF PDelete
<1>4. ASSUME ~PUploadOk, ~PUploadFail, ~PNotify, ~PDelete PROVE DeliveryStep
  <2>1. UNCHANGED <<storage, shuttingDown>>
    BY <1>4 DEF Processor, PExit, PReceive, PTimeout, PReceiveEnds, PStart, PWait, PAcquire,
       PGiveUp, PNotifyFail
  <2> QED BY <2>1, StutterMaps
<1> QED BY <1>1, <1>2, <1>3, <1>4

(* The stop sequence closes, and a restart reopens.                        *)
LEMMA StopDelivers ==
  ASSUME IInv, BeginShutdown \/ StopSequence \/ ServiceRestart PROVE DeliveryStep
<1> USE DEF storage
<1>1. CASE BeginShutdown
  <2>1. Delivery!Close
    BY <1>1, FileSame DEF BeginShutdown, Delivery!Close
  <2> QED BY <2>1 DEF DeliveryStep, Delivery!Next
<1>2. CASE StopSequence
  <2>1. UNCHANGED <<storage, shuttingDown>>
    BY <1>2 DEF StopSequence, CompleteQueue, DrainDone, DrainTimeout,
       WaitForQueueEmpty, StopFinish
  <2> QED BY <2>1, StutterMaps
<1>3. CASE ServiceRestart
  <2>1. PICK reached \in SUBSET {f \in InFlight : OnDisk(f) /\ copies[f] < MaxCopies} :
           copies' = [f \in Shots |-> copies[f] + (IF f \in reached THEN 1 ELSE 0)]
    BY <1>3 DEF ServiceRestart
  <2>2. reached \in SUBSET Shots /\ \A f \in reached : Delivery!There(f)
    BY FileThere DEF InFlight
  <2>3. Delivery!Reopen
    BY <1>3, <2>1, <2>2, FileSame DEF ServiceRestart, Delivery!Reopen
  <2> QED BY <2>3 DEF DeliveryStep, Delivery!Next
<1> QED BY <1>1, <1>2, <1>3

(* The upload pipeline implements ScreenshotDelivery, whatever its         *)
(* handlers, its queue, its failures and its restarts do.                  *)
THEOREM ScreenshotsAreDelivered == Spec => DeliversScreenshots
<1>1. Init => Delivery!Init /\ SavedOnce
  <2>1. Init => FileOf = [f \in Shots |-> "none"]
    BY DEF Init, FileOf, FileAs
  <2> QED BY <2>1 DEF Init, Delivery!Init, SavedOnce, Saved
<1>2. ASSUME IInv, SavedOnce, [Next]_vars PROVE [Delivery!Next]_(Delivery!vars)
  <2>1. CASE RetryScan \/ UNCHANGED vars
    <3>1. UNCHANGED <<storage, shuttingDown>>
      BY <2>1 DEF RetryScan, vars, stopping
    <3> QED BY <3>1, StutterMaps DEF DeliveryStep, Delivery!vars
  <2>2. DeliveryStep
    BY <1>2, <2>1, HandlerDelivers, TempFilesDeliver, ProcessorDelivers, StopDelivers,
       StutterMaps DEF Next, RetryScan, vars, stopping, storage
  <2> QED BY <2>2 DEF DeliveryStep, Delivery!vars
<1>3. IInv /\ SavedOnce /\ [Next]_vars => SavedOnce'
  BY NextSavedOnce
<1> QED BY <1>1, <1>2, <1>3, Invariant, PTL DEF Spec, DeliversScreenshots, Delivery!Spec

-----------------------------------------------------------------------------
(* The queue.  NoDoubleQueue is inductive together with one more fact: a   *)
(* processor that waits in ReceiveAsync found the buffer empty.            *)
QInv == NoDoubleQueue /\ (ppc = "receiving" => queue = <<>>)

(* The queue part of the state does not change.                            *)
LEMMA QueueUntouched ==
  ASSUME QInv, UNCHANGED <<tracked, queue, orphans>>,
         \/ UNCHANGED pfile /\ (ppc' = "receiving" => ppc = "receiving")
  PROVE  QInv'
  BY DEF QInv, NoDoubleQueue

(* Appending a new element to a sequence without repetitions, and removing *)
(* its head, leave it without repetitions.                                 *)
LEMMA AppendDistinct ==
  ASSUME NEW S, NEW s \in Seq(S), NEW x \in S,
         \A i, j \in 1..Len(s) : s[i] = s[j] => i = j,
         \A i \in 1..Len(s) : s[i] # x
  PROVE  \A i, j \in 1..(Len(s) + 1) : Append(s, x)[i] = Append(s, x)[j] => i = j
<1> SUFFICES ASSUME NEW i \in 1..(Len(s) + 1), NEW j \in 1..(Len(s) + 1),
                    Append(s, x)[i] = Append(s, x)[j]
             PROVE  i = j
  OBVIOUS
<1>1. CASE i \in 1..Len(s) /\ j \in 1..Len(s)
  BY <1>1
<1>2. CASE i = Len(s) + 1 /\ j \in 1..Len(s)
  BY <1>2
<1>3. CASE i \in 1..Len(s) /\ j = Len(s) + 1
  BY <1>3
<1> QED BY <1>1, <1>2, <1>3

LEMMA TailDistinct ==
  ASSUME NEW S, NEW s \in Seq(S), s # <<>>,
         \A i, j \in 1..Len(s) : s[i] = s[j] => i = j
  PROVE  \A i, j \in 1..(Len(s) - 1) : Tail(s)[i] = Tail(s)[j] => i = j
<1> SUFFICES ASSUME NEW i \in 1..(Len(s) - 1), NEW j \in 1..(Len(s) - 1),
                    Tail(s)[i] = Tail(s)[j]
             PROVE  i = j
  OBVIOUS
<1>1. i + 1 \in 1..Len(s) /\ j + 1 \in 1..Len(s)
  OBVIOUS
<1>2. s[i + 1] = s[j + 1]
  OBVIOUS
<1> QED BY <1>1, <1>2

LEMMA EnqueueQInv == ASSUME IInv, QInv, NEW f \in Shots, EnqueueFile(f) PROVE QInv'
<1> USE ShotsAssumption DEF IInv, TypeOK, QInv, NoDoubleQueue, proc
<1>1. CASE UNCHANGED <<queue, orphans, proc>> /\ tracked \subseteq tracked'
  BY <1>1
<1>2. CASE f \notin tracked /\ tracked' = tracked \cup {f} /\ Offer(f)
  <2>1. CASE orphans > 0
    BY <1>2, <2>1 DEF Offer
  <2>2. CASE orphans = 0 /\ ppc = "receiving"
    BY <1>2, <2>2 DEF Offer
  <2>3. CASE orphans = 0 /\ ppc # "receiving"
    <3>1. queue' = Append(queue, f) /\ orphans' = orphans /\ UNCHANGED <<ppc, pfile>>
      BY <1>2, <2>3 DEF Offer
    <3>2. /\ DOMAIN queue' = 1..(Len(queue) + 1) /\ DOMAIN queue = 1..Len(queue)
          /\ Len(queue) \in Nat
          /\ queue'[Len(queue) + 1] = f
          /\ \A i \in 1..Len(queue) : queue'[i] = queue[i]
      BY <3>1
    <3>3. \A i \in DOMAIN queue : queue[i] # f
      BY <1>2
    <3>4. pfile # f
      BY <1>2
    <3>5. \A i \in DOMAIN queue' : queue'[i] \in tracked' /\ queue'[i] # pfile'
      BY <1>2, <3>1, <3>2, <3>4
    <3>6. \A i, j \in DOMAIN queue' : queue'[i] = queue'[j] => i = j
      <4>1. /\ queue \in Seq(Shots)
            /\ \A i, j \in 1..Len(queue) : queue[i] = queue[j] => i = j
            /\ \A i \in 1..Len(queue) : queue[i] # f
        BY <3>2, <3>3
      <4>2. DOMAIN queue' = 1..(Len(queue) + 1)
        BY <3>2
      <4> HIDE DEF IInv, TypeOK, QInv, NoDoubleQueue
      <4> QED BY ONLY <3>1, <4>1, <4>2, f \in Shots, AppendDistinct
    <3>7. (pfile' # NoShot => pfile' \in tracked') /\ orphans' = 0 /\ ppc' # "receiving"
      BY <1>2, <2>3, <3>1
    <3> QED BY <3>5, <3>6, <3>7
  <2> QED BY <2>1, <2>2, <2>3
<1> QED BY <1>1, <1>2 DEF EnqueueFile

LEMMA UntrackQInv ==
  ASSUME IInv, QInv, ppc \in Busy, Untrack, UNCHANGED <<queue, orphans>> PROVE QInv'
  BY ShotsAssumption DEF IInv, TypeOK, ProcFile, QInv, NoDoubleQueue, Untrack, Busy

LEMMA ReceiveQInv == ASSUME IInv, QInv, PReceive PROVE QInv'
<1> USE ShotsAssumption DEF IInv, TypeOK, QInv, NoDoubleQueue
<1>1. CASE queue = <<>>
  BY <1>1 DEF PReceive
<1>2. CASE queue # <<>>
  <2>1. /\ ppc' = "got" /\ pfile' = Head(queue) /\ queue' = Tail(queue)
        /\ UNCHANGED <<tracked, orphans>>
    BY <1>2 DEF PReceive
  <2>2. /\ Len(queue) \in Nat \ {0} /\ DOMAIN queue = 1..Len(queue)
        /\ DOMAIN queue' = 1..(Len(queue) - 1)
        /\ Head(queue) = queue[1]
        /\ \A i \in DOMAIN queue' : queue'[i] = queue[i + 1]
    BY <1>2, <2>1
  <2>3. orphans' = 0 \/ ~(orphans' > 0)
    BY <1>2, <2>1
  <2>4. \A i \in DOMAIN queue' : i + 1 \in DOMAIN queue /\ i + 1 # 1
    BY <2>2
  <2>5. \A i, j \in DOMAIN queue' : queue'[i] = queue'[j] => i = j
    <3>1. queue \in Seq(Shots) /\ \A i, j \in 1..Len(queue) : queue[i] = queue[j] => i = j
      BY <2>2
    <3> HIDE DEF IInv, TypeOK, QInv, NoDoubleQueue
    <3> QED BY ONLY <1>2, <2>1, <2>2, <3>1, TailDistinct
  <2>6. \A i \in DOMAIN queue' : queue'[i] \in tracked' /\ queue'[i] # pfile'
    BY <2>1, <2>2, <2>4
  <2>7. pfile' \in tracked'
    BY <2>1, <2>2
  <2>8. orphans' > 0 => queue' = <<>>
    BY <1>2, <2>1
  <2> QED BY <2>1, <2>5, <2>6, <2>7, <2>8
<1> QED BY <1>1, <1>2

LEMMA NextQInv == ASSUME IInv, QInv, [Next]_vars PROVE QInv'
<1> USE DEF block, proc, stopping
<1>1. CASE \E f \in Shots : Handler(f)
  BY <1>1, QueueUntouched DEF Handler, HandlerStep, PipeRead, DropScreenshot,
     SaveScreenshot, HWait, HAcquire, HTimesOut, HUploadOk, HUploadFail, HNotify,
     HNotifyFail, HDelete
<1>2. CASE (\E f \in Shots : TempFiles(f)) \/ RetryScan
  BY <1>2, QueueUntouched, EnqueueQInv DEF TempFiles, Age, CleanupOldFile, RetryEnqueue,
     RetryScan
<1>3. CASE Processor
  <2>1. CASE PExit \/ PReceiveEnds \/ PStart \/ PWait \/ PAcquire \/ PGiveUp \/ PUploadOk
             \/ PNotify
    BY <2>1, QueueUntouched DEF PExit, PReceiveEnds, PStart, PWait, PAcquire, PGiveUp, PUploadOk,
       PNotify, WaitKind, UploadSkipped
  <2>2. CASE PReceive
    BY <2>2, ReceiveQInv
  <2>3. CASE PTimeout
    BY <2>3 DEF PTimeout, QInv, NoDoubleQueue
  <2>4. CASE PNotifyFail \/ PDelete
    BY <2>4, UntrackQInv DEF PNotifyFail, PDelete, Busy
  <2>5. CASE PUploadFail
    <3>1. CASE shuttingDown
      BY <2>5, <3>1, QueueUntouched DEF PUploadFail
    <3>2. CASE ~shuttingDown
      BY <2>5, <3>2, UntrackQInv DEF PUploadFail, Busy
    <3> QED BY <3>1, <3>2
  <2> QED BY <1>3, <2>1, <2>2, <2>3, <2>4, <2>5 DEF Processor
<1>4. CASE BeginShutdown \/ StopSequence
  <2>1. CASE CompleteQueue
    BY <2>1 DEF CompleteQueue, QInv, NoDoubleQueue
  <2>2. CASE ~CompleteQueue
    BY <1>4, <2>2, QueueUntouched DEF BeginShutdown, StopSequence, DrainDone,
       DrainTimeout, WaitForQueueEmpty, StopFinish
  <2> QED BY <2>1, <2>2
<1>5. CASE ServiceRestart
  BY <1>5 DEF ServiceRestart, QInv, NoDoubleQueue
<1>6. CASE UNCHANGED vars
  BY <1>6, QueueUntouched DEF vars
<1> QED BY <1>1, <1>2, <1>3, <1>4, <1>5, <1>6 DEF Next

(* No file is ever queued twice, or queued while it is being uploaded.     *)
THEOREM QueueHasNoDuplicates == Spec => []NoDoubleQueue
<1>1. Init => QInv
  BY DEF Init, QInv, NoDoubleQueue
<1>2. QInv => NoDoubleQueue
  BY DEF QInv
<1> QED BY <1>1, <1>2, NextQInv, Invariant, PTL DEF Spec
=============================================================================
