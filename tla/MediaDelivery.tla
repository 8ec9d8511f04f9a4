--------------------------- MODULE MediaDelivery ---------------------------
(***************************************************************************)
(* An accepted upload on its way to an analysis, end to end: the upload    *)
(* service, the in-memory queue, the analysis workers, the hourly recovery *)
(* runtime and the hourly retention scavenger, all calling the attempt     *)
(* store of AttemptStore, over the bytes in local storage.                 *)
(*                                                                         *)
(* Each action is the code between two awaits, so everything another       *)
(* process can do in between is another action.  The faults of a run are   *)
(* drawn from one budget: a repository, queue or storage call that throws, *)
(* a lease that runs out under a live holder, a crash of the process.  A   *)
(* crash loses the queue and everything in flight; store and bytes stay.   *)
(***************************************************************************)
EXTENDS AttemptStore

CONSTANTS
  Deliveries,          \* worker callbacks the queue can have in flight
  WorkerMaxAttempts,   \* UnexpectedRetryPolicy.maxAttempts
  MaxCopies,           \* bound: copies of one job in the queue
  MaxFaults,           \* bound: faults in one behaviour
  DeadlinesPass        \* bound: whether retention deadlines are reached

ASSUME DeliveryAssumption ==
  /\ WorkerMaxAttempts \in Nat \ {0}
  /\ MaxCopies \in Nat \ {0}
  /\ MaxFaults \in Nat
  /\ DeadlinesPass \in BOOLEAN

VARIABLES
  svc,        \* svc[m]: where the request that uploads m stands
  originals,  \* uploads whose original is on disk
  frames,     \* uploads whose frame batch is on disk
  queue,      \* queue[m]: pending copies of the job of m
  slot,       \* slot[d]: a worker callback, with its job and its claim
  exec,       \* the recovery runtime's run in progress
  scav,       \* the scavenger's run in progress
  faults      \* faults so far

volatileVars == <<svc, queue, slot, exec, scav>>
byteVars == <<originals, frames>>
vars == <<storeVars, volatileVars, byteVars, faults>>

-----------------------------------------------------------------------------
Records == {"temporary", "frame", "original"} \X Media
NoRecord == <<"none", NoMedia>>
IdleSlot == [pc |-> "idle", media |-> NoMedia, lease |-> NoLease]
IdleExec == [pc |-> "idle", todo |-> {}, rollback |-> {}, media |-> NoMedia]
IdleScav == [todo |-> {}, acking |-> NoRecord]

InFlight == {"prepared", "accepted", "enqueue", "mark", "remark", "begin",
             "begin-job", "rollback", "cleanup", "ack"}
Answers == {"done", "refused", "uncertain", "gone"}

DeliveryTypeOK ==
  /\ TypeOK
  /\ svc \in [Media -> {"idle"} \cup InFlight \cup Answers]
  /\ originals \subseteq Media /\ frames \subseteq Media
  /\ queue \in [Media -> 0..MaxCopies]
  /\ slot \in [Deliveries ->
       [pc : {"idle", "working", "exhausted", "internal", "releasing"},
        media : Media \cup {NoMedia}, lease : Leases \cup {NoLease}]]
  /\ exec \in [pc : {"idle", "redeliver", "reack", "recover", "clean", "ack"},
               todo : SUBSET Media, rollback : SUBSET Media,
               media : Media \cup {NoMedia}]
  /\ scav \in [todo : SUBSET Records, acking : Records \cup {NoRecord}]
  /\ faults \in 0..MaxFaults

DeliveryInit ==
  /\ Init
  /\ svc = [m \in Media |-> "idle"]
  /\ originals = {} /\ frames = {}
  /\ queue = [m \in Media |-> 0]
  /\ slot = [d \in Deliveries |-> IdleSlot]
  /\ exec = IdleExec /\ scav = IdleScav
  /\ faults = 0

Fault == faults < MaxFaults /\ faults' = faults + 1

(* Identifiers are fresh: no row and no callback knows the next one.       *)
FreshLeases ==
  {l \in Leases : /\ \A a \in Attempts : l # attempt[a].lease /\ l # result[a].lease
                  /\ \A d \in Deliveries : l # slot[d].lease}
NextLease == CHOOSE l \in FreshLeases : TRUE

(* drain looks for a job it may deliver before it takes one.               *)
HasJob(m) == queue[m] > 0

Enqueued(m) == [queue EXCEPT ![m] = IF @ < MaxCopies THEN @ + 1 ELSE @]

-----------------------------------------------------------------------------
(* AttemptService.attachAcceptedMedia, after C5 accepted the upload.       *)

Goto(m, pc) == svc' = [svc EXCEPT ![m] = pc]

(* One awaited repository call: it takes effect, or throws because the row *)
(* does not allow it, or throws for a reason of its own.                   *)
Call(m, allowed, step, yes, no) ==
  \/ allowed /\ step /\ Goto(m, yes) /\ UNCHANGED faults
  \/ ~allowed /\ UNCHANGED storeVars /\ Goto(m, no) /\ UNCHANGED faults
  \/ Fault /\ UNCHANGED storeVars /\ Goto(m, no)

Preflight(m) ==
  /\ svc[m] = "idle"
  /\ PrepareMediaUpload(m)
  /\ Goto(m, "prepared")
  /\ UNCHANGED <<queue, slot, exec, scav, byteVars, faults>>

(* The pipeline's success; its failures leave retention facts only.        *)
AcceptMultipart(m) ==
  /\ svc[m] = "prepared"
  /\ ScheduleRetention(m)
  /\ originals' = originals \cup {m} /\ frames' = frames \cup {m}
  /\ Goto(m, "accepted")
  /\ UNCHANGED <<queue, slot, exec, scav, faults>>

(* An unavailable queue is a fault here, before anything is attached.      *)
AttachAcceptedMedia(m) ==
  /\ svc[m] = "accepted"
  /\ Call(m, AttachAllowed(m), AttachPreparedMedia(m), "enqueue", "begin")
  /\ UNCHANGED <<queue, slot, exec, scav, byteVars>>

Enqueue(m) ==
  /\ svc[m] = "enqueue"
  /\ \/ queue' = Enqueued(m) /\ Goto(m, "mark") /\ UNCHANGED faults
     \/ Fault /\ Goto(m, "begin-job") /\ UNCHANGED queue
  /\ UNCHANGED <<storeVars, slot, exec, scav, byteVars>>

MarkedAlready(m) == delivery[m].state = "queued" /\ UNCHANGED storeVars

(* Twice at most; then the answer is 503 and the media stays attached.     *)
MarkQueued(m) ==
  /\ svc[m] \in {"mark", "remark"}
  /\ Call(m, MarkQueuedAllowed(m), MarkMediaDeliveryQueued(m) \/ MarkedAlready(m),
          "done", IF svc[m] = "mark" THEN "remark" ELSE "uncertain")
  /\ UNCHANGED <<queue, slot, exec, scav, byteVars>>

BeginCompensation(m) ==
  LET next == IF svc[m] = "begin-job" THEN "rollback" ELSE "cleanup" IN
  /\ svc[m] \in {"begin", "begin-job"}
  /\ Call(m, BeginRecoveryAllowed(m), BeginMediaAttachmentRecovery(m), next, next)
  /\ UNCHANGED <<queue, slot, exec, scav, byteVars>>

RolledBackAlready(m) == delivery[m].rolledBack /\ UNCHANGED storeVars

(* Where the service goes when it could not take the attachment back: it   *)
(* leaves the bytes alone.                                                 *)
AfterFailedRollbackCleansUp == "cleanup"
AfterFailedRollback == "refused"

RollBack(m) ==
  /\ svc[m] = "rollback"
  /\ Call(m, RollbackAllowed(m), RollbackMediaAttachment(m) \/ RolledBackAlready(m),
          "cleanup", AfterFailedRollback)
  /\ UNCHANGED <<queue, slot, exec, scav, byteVars>>

DeleteBoth(m) == originals' = originals \ {m} /\ frames' = frames \ {m}

(* allSettled over two deletions, of which any may have failed.            *)
DeleteSome(m) ==
  /\ originals' \in {originals, originals \ {m}}
  /\ frames' \in {frames, frames \ {m}}

CleanUp(m) ==
  /\ svc[m] = "cleanup"
  /\ \/ DeleteBoth(m) /\ Goto(m, "ack") /\ UNCHANGED faults
     \/ Fault /\ DeleteSome(m) /\ Goto(m, "refused")
  /\ UNCHANGED <<storeVars, queue, slot, exec, scav>>

CleanedAlready(m) == delivery[m].cleaned /\ UNCHANGED storeVars

AcknowledgeCleanup(m) ==
  /\ svc[m] = "ack"
  /\ Call(m, AckCleanupAllowed(m),
          AcknowledgeMediaAttachmentCleanup(m) \/ CleanedAlready(m),
          "refused", "refused")
  /\ UNCHANGED <<queue, slot, exec, scav, byteVars>>

-----------------------------------------------------------------------------
(* AnalysisWorker.deliver.                                                 *)

Slot(d, pc) == slot' = [slot EXCEPT ![d].pc = pc]
Done(d) == slot' = [slot EXCEPT ![d] = IdleSlot]

(* The callback rejects: the queue puts the job back.                      *)
Rejected(d) == Done(d) /\ queue' = Enqueued(slot[d].media)

(* Taking a job and claiming its attempt are one synchronous step.         *)
Deliver(d, m) ==
  /\ slot[d].pc = "idle" /\ HasJob(m)
  /\ queue' = [queue EXCEPT ![m] = @ - 1]
  /\ \/ /\ FreshLeases # {} /\ ClaimProcessing(m, NextLease)
        /\ slot' = [slot EXCEPT ![d] =
                      [pc |-> "working", media |-> m, lease |-> NextLease]]
     \/ ~ClaimAllowed(m) /\ UNCHANGED <<storeVars, slot>>
  /\ UNCHANGED <<svc, exec, scav, byteVars, faults>>

(* An answer of finalizeTerminalResult; Conflicts is the one it throws, to *)
(* a worker whose lease ran out and whose successor has finalized.         *)
Conclude(d, c) ==
  LET m == slot[d].media
      l == slot[d].lease
      answer == FinalizeOutcome(m, l, c)
  IN
  \/ \E policyCurrent \in BOOLEAN : FinalizeTerminalResult(m, l, c, policyCurrent)
     /\ Done(d)
  \/ answer \in {"idempotent", "tombstoned"} /\ Done(d) /\ UNCHANGED storeVars
  \/ answer = "lost-claim" /\ Slot(d, "releasing") /\ UNCHANGED storeVars
Conflicts(d, c) == FinalizeOutcome(slot[d].media, slot[d].lease, c) = "conflict"

(* finalizeProcessedCandidate.                                             *)
Process(d) ==
  /\ \E c \in Candidates :
       /\ slot[d].pc = "working" \/ (slot[d].pc = "exhausted" /\ c = "failed")
       /\ \/ Conclude(d, c) /\ UNCHANGED faults
          \/ Conflicts(d, c) /\ Slot(d, "internal") /\ UNCHANGED <<storeVars, faults>>
          \/ Fault /\ Slot(d, "internal") /\ UNCHANGED storeVars
  /\ UNCHANGED <<svc, queue, exec, scav, byteVars>>

(* A terminal write that threw is replaced once by the internal failure;   *)
(* if that throws too, the delivery is rejected.                           *)
FinalizeInternalFailure(d) ==
  /\ slot[d].pc = "internal"
  /\ \/ Conclude(d, "failed") /\ UNCHANGED <<queue, faults>>
     \/ Conflicts(d, "failed") /\ Rejected(d) /\ UNCHANGED <<storeVars, faults>>
     \/ Fault /\ Rejected(d) /\ UNCHANGED storeVars
  /\ UNCHANGED <<svc, exec, scav, byteVars>>

(* recover(): only an explicitly retryable failure is counted.             *)
RetryableFailure(d) ==
  LET m == slot[d].media
      l == slot[d].lease
      tombstoned == attempt[Owner[m]].deletion = "tombstoned"
  IN
  /\ slot[d].pc = "working"
  /\ \/ /\ RecordProcessingFailure(m, l)
        /\ Slot(d, IF recovery'[m].attempts >= WorkerMaxAttempts
                   THEN "exhausted" ELSE "releasing")
        /\ UNCHANGED <<queue, faults>>
     \/ tombstoned /\ Done(d) /\ UNCHANGED <<storeVars, queue, faults>>
     \/ /\ ~tombstoned /\ ~HoldsClaim(m, l)
        /\ Rejected(d) /\ UNCHANGED <<storeVars, faults>>
     \/ Fault /\ Slot(d, "internal") /\ UNCHANGED <<storeVars, queue>>
  /\ UNCHANGED <<svc, exec, scav, byteVars>>

ReleaseForRetry(d) ==
  LET m == slot[d].media
      l == slot[d].lease
  IN
  /\ slot[d].pc = "releasing"
  /\ Rejected(d)
  /\ \/ ReleaseProcessingClaim(m, l) /\ UNCHANGED faults
     \/ ~HoldsClaim(m, l) /\ UNCHANGED <<storeVars, faults>>
     \/ HoldsClaim(m, l) /\ Fault /\ UNCHANGED storeVars
  /\ UNCHANGED <<svc, exec, scav, byteVars>>

-----------------------------------------------------------------------------
(* C8RecoveryRuntime: one run at a time, redelivery before cleanup.        *)

Ran == UNCHANGED <<svc, slot, scav>>

(* The rows still to reconcile; the run is over after the last one.        *)
Recovering(todo, rollback) ==
  exec' = IF todo = {} THEN IdleExec
          ELSE [IdleExec EXCEPT !.pc = "recover", !.todo = todo, !.rollback = rollback]

(* The claim throws, and the run is over, if one claimable row is corrupt. *)
ClaimCleanup ==
  LET batch == Claimable(Recoverable) IN
  \/ /\ ClaimMediaAttachmentRecovery(batch)
     /\ Recovering(batch, {m \in batch : delivery[m].rollback})
  \/ /\ \E m \in batch : ~Projectable(delivery[m])
     /\ exec' = IdleExec /\ UNCHANGED storeVars

(* A run with nothing to redeliver goes on to the cleanup claim at once; a *)
(* run that finds nothing at all is no step.                               *)
StartRun ==
  LET batch == Claimable(Undelivered) IN
  /\ exec.pc = "idle"
  /\ \/ /\ batch # {}
        /\ ClaimMediaDeliveryRedelivery(batch)
        /\ exec' = [IdleExec EXCEPT !.pc = "redeliver", !.todo = batch]
     \/ batch = {} /\ Claimable(Recoverable) # {} /\ ClaimCleanup
  /\ UNCHANGED <<queue, byteVars, faults>> /\ Ran

Redeliver(m) ==
  /\ exec.pc = "redeliver" /\ m \in exec.todo
  /\ \/ /\ queue' = Enqueued(m)
        /\ exec' = [exec EXCEPT !.pc = "reack", !.todo = @ \ {m}, !.media = m]
        /\ UNCHANGED <<storeVars, faults>>
     \/ /\ Fault /\ ReleaseMediaDeliveryRedelivery(m)
        /\ exec' = [exec EXCEPT !.todo = @ \ {m}] /\ UNCHANGED queue
  /\ UNCHANGED byteVars /\ Ran

AcknowledgeRedelivery ==
  LET m == exec.media IN
  /\ exec.pc = "reack"
  /\ \/ AcknowledgeMediaDeliveryRedelivery(m) /\ UNCHANGED faults
     \/ ~AckRedeliveryAllowed(m) /\ UNCHANGED <<storeVars, faults>>
     \/ Fault /\ ReleaseMediaDeliveryRedelivery(m)
  /\ exec' = [exec EXCEPT !.pc = "redeliver", !.media = NoMedia]
  /\ UNCHANGED <<queue, byteVars>> /\ Ran

StartCleanup ==
  /\ exec.pc = "redeliver" /\ exec.todo = {}
  /\ ClaimCleanup
  /\ UNCHANGED <<queue, byteVars, faults>> /\ Ran

(* A step that fails ends this row's reconciliation; the lease is let go.  *)
Abandon(m) ==
  ReleaseMediaAttachmentRecovery(m) /\ Recovering(exec.todo \ {m}, exec.rollback)

ReconcileRollback(m) ==
  /\ exec.pc = "recover" /\ m \in exec.todo
  /\ \/ /\ \/ m \notin exec.rollback /\ UNCHANGED storeVars
           \/ m \in exec.rollback /\ RollbackMediaAttachment(m)
           \/ /\ m \in exec.rollback /\ RollbackAllowed(m)
              /\ RolledBackAlready(m)
        /\ exec' = [exec EXCEPT !.pc = "clean", !.todo = @ \ {m}, !.media = m]
        /\ UNCHANGED faults
     \/ m \in exec.rollback /\ ~RollbackAllowed(m) /\ Abandon(m) /\ UNCHANGED faults
     \/ Fault /\ Abandon(m)
  /\ UNCHANGED <<queue, byteVars>> /\ Ran

(* The cleaner deletes only what both retention tables say is m's.         *)
OwnsPair(m) == original[m] # "none" /\ frame[m] # "none"

ReconcileCleanup ==
  LET m == exec.media IN
  /\ exec.pc = "clean"
  /\ \/ /\ OwnsPair(m) /\ DeleteBoth(m)
        /\ exec' = [exec EXCEPT !.pc = "ack"] /\ UNCHANGED <<storeVars, faults>>
     \/ ~OwnsPair(m) /\ Abandon(m) /\ UNCHANGED <<byteVars, faults>>
     \/ Fault /\ OwnsPair(m) /\ DeleteSome(m) /\ Abandon(m)
  /\ UNCHANGED queue /\ Ran

(* The lease the release lets go is already gone once the row is resolved. *)
ReconcileAcknowledge ==
  LET m == exec.media IN
  /\ exec.pc = "ack"
  /\ \/ AcknowledgeMediaAttachmentCleanup(m) /\ UNCHANGED faults
     \/ ~AckCleanupAllowed(m) /\ ReleaseMediaAttachmentRecovery(m) /\ UNCHANGED faults
     \/ CleanedAlready(m) /\ UNCHANGED faults
     \/ Fault /\ ReleaseMediaAttachmentRecovery(m)
  /\ Recovering(exec.todo, exec.rollback)
  /\ UNCHANGED <<queue, byteVars>> /\ Ran

-----------------------------------------------------------------------------
(* RetentionScavenger.run: list, then delete and acknowledge one by one.   *)

DueOriginals ==
  {r \in Records : \/ r[1] = "temporary" /\ transition[r[2]] = "due"
                   \/ r[1] = "original" /\ original[r[2]] = "due"}
Due ==
  {r \in Records : \/ r[1] = "temporary" /\ transition[r[2]] = "due"
                   \/ r[1] = "frame" /\ frame[r[2]] = "due"
                   \/ r[1] = "original" /\ original[r[2]] = "due"}

(* An upload's transition and its original both name the original bytes.   *)
DeletedNothing(r) == UNCHANGED byteVars
Deleted(r) ==
  /\ originals' = IF r[1] = "frame" THEN originals ELSE originals \ {r[2]}
  /\ frames' = IF r[1] = "frame" THEN frames \ {r[2]} ELSE frames

ListDue ==
  /\ scav = IdleScav
  /\ Due # {}
  /\ scav' = [scav EXCEPT !.todo = Due]
  /\ UNCHANGED <<storeVars, svc, queue, slot, exec, byteVars, faults>>

DeleteDue(r) ==
  /\ scav.acking = NoRecord /\ r \in scav.todo
  /\ \/ /\ Deleted(r)
        /\ scav' = [todo |-> scav.todo \ {r}, acking |-> r] /\ UNCHANGED faults
     \/ /\ Fault /\ scav' = [scav EXCEPT !.todo = @ \ {r}] /\ UNCHANGED byteVars
  /\ UNCHANGED <<storeVars, svc, queue, slot, exec>>

AcknowledgeDeleted ==
  /\ scav.acking # NoRecord
  /\ \/ AcknowledgeRetention(scav.acking[1], scav.acking[2]) /\ UNCHANGED faults
     \/ Fault /\ UNCHANGED storeVars
  /\ scav' = [scav EXCEPT !.acking = NoRecord]
  /\ UNCHANGED <<svc, queue, slot, exec, byteVars>>

-----------------------------------------------------------------------------
(* The client, the clock and the process.                                  *)

Create(a) ==
  CreateAttempt(a) /\ UNCHANGED <<volatileVars, byteVars, faults>>
Delete(a) ==
  TombstoneAttempt(a) /\ UNCHANGED <<volatileVars, byteVars, faults>>

(* A request is over long before its retention deadlines (1 h and 23 h).   *)
Deadline(m) ==
  /\ DeadlinesPass
  /\ svc[m] \notin InFlight
  /\ TransitionDeadline(m) \/ OriginalDeadline(m)
  /\ UNCHANGED <<volatileVars, byteVars, faults>>

Held(a) == \E d \in Deliveries : slot[d].lease # NoLease
                                 /\ slot[d].lease = attempt[a].lease

AbandonedLeaseExpires(a) ==
  /\ ~Held(a) /\ ProcessingLeaseExpires(a)
  /\ UNCHANGED <<volatileVars, byteVars, faults>>
LeaseExpiresUnderHolder(a) ==
  /\ Held(a) /\ ProcessingLeaseExpires(a) /\ Fault
  /\ UNCHANGED <<volatileVars, byteVars>>

(* Only the runtime claims rows, so an expiry while it holds the lease is  *)
(* seen by nobody.                                                         *)
AbandonedRowExpires(m) ==
  /\ m \notin exec.todo \cup {exec.media} /\ RecoveryLeaseExpires(m)
  /\ UNCHANGED <<volatileVars, byteVars, faults>>

Crash ==
  /\ Fault
  /\ svc' = [m \in Media |-> IF svc[m] \in InFlight THEN "gone" ELSE svc[m]]
  /\ queue' = [m \in Media |-> 0]
  /\ slot' = [d \in Deliveries |-> IdleSlot]
  /\ exec' = IdleExec /\ scav' = IdleScav
  /\ UNCHANGED <<storeVars, byteVars>>

-----------------------------------------------------------------------------
ServiceStep(m) ==
  \/ Preflight(m) \/ AcceptMultipart(m) \/ AttachAcceptedMedia(m)
  \/ Enqueue(m) \/ MarkQueued(m) \/ BeginCompensation(m) \/ RollBack(m)
  \/ CleanUp(m) \/ AcknowledgeCleanup(m)

WorkerStep(d) ==
  \/ \E m \in Media : Deliver(d, m)
  \/ Process(d) \/ RetryableFailure(d)
  \/ FinalizeInternalFailure(d) \/ ReleaseForRetry(d)

RuntimeStep ==
  \/ StartRun \/ AcknowledgeRedelivery \/ StartCleanup
  \/ ReconcileCleanup \/ ReconcileAcknowledge
  \/ \E m \in Media : Redeliver(m) \/ ReconcileRollback(m)

ScavengerStep == ListDue \/ AcknowledgeDeleted \/ \E r \in Records : DeleteDue(r)

ClockStep ==
  \/ \E m \in Media : Deadline(m) \/ AbandonedRowExpires(m)
  \/ \E a \in Attempts : AbandonedLeaseExpires(a) \/ LeaseExpiresUnderHolder(a)

DeliveryNext ==
  \/ \E a \in Attempts : Create(a) \/ Delete(a)
  \/ \E m \in Media : ServiceStep(m)
  \/ \E d \in Deliveries : WorkerStep(d)
  \/ RuntimeStep \/ ScavengerStep \/ ClockStep \/ Crash

DeliverySpec == DeliveryInit /\ [][DeliveryNext]_vars

(* A request that started runs on, a worker's processor answers (it has a  *)
(* deadline of its own), both schedulers fire every hour, and time passes. *)
(* Nothing forces a client to upload or to delete, or a fault to happen.   *)
DeliveryFairness ==
  /\ \A m \in Media : /\ WF_vars(svc[m] \in InFlight /\ ServiceStep(m))
                       /\ WF_vars(Deadline(m))
                       /\ WF_vars(AbandonedRowExpires(m))
  /\ \A d \in Deliveries : WF_vars(WorkerStep(d))
  /\ \A a \in Attempts : WF_vars(AbandonedLeaseExpires(a))
  /\ WF_vars(RuntimeStep)
  /\ WF_vars(ScavengerStep)

FairDeliverySpec == DeliverySpec /\ DeliveryFairness

-----------------------------------------------------------------------------
(* Until its retention deadline, the bytes an attempt still has to be      *)
(* analysed from stay on disk, whichever of the service's compensation,    *)
(* the recovery runtime and the scavenger runs meanwhile.                  *)
ReferencedBytesSurvive ==
  \A a \in Attempts, m \in Media :
    /\ Active(a) /\ attempt[a].status \in {"uploaded", "processing"}
    /\ attempt[a].media = m
    /\ original[m] = "held" /\ frame[m] = "held"
    => m \in originals /\ m \in frames

(* No byte is ever outside a scheduled deletion path: an original on disk  *)
(* has its transition or its original fact, a frame batch its frame fact.  *)
EveryByteHasARetentionFact ==
  /\ \A m \in originals : transition[m] # "none" \/ original[m] # "none"
  /\ \A m \in frames : frame[m] # "none"

(* Once the service has handed the job to the queue, nobody takes the      *)
(* attachment back under the worker: the upload is still the attempt's     *)
(* media and was not rolled back (attachAcceptedMedia's uncertain answer   *)
(* rests on this).                                                         *)
EnqueuedNotWithdrawn ==
  \A m \in Media : svc[m] \in {"mark", "remark", "done", "uncertain"} =>
    ~delivery[m].rolledBack /\ attempt[Owner[m]].media = m

(* attempt-service.ts, after a failed rollback: "The durable recovery fact *)
(* remains claimable."                                                     *)
FailedCompensationStaysClaimable ==
  \A m \in Media :
    svc[m] = "refused" /\ delivery[m].state = "cleanup-recoverable"
      => Projectable(delivery[m])

(* Every attached upload is eventually analysed, withdrawn or deleted,     *)
(* with any single fault on the way.                                       *)
AttachedUploadsSettle ==
  \A a \in Attempts :
    Active(a) /\ attempt[a].status \in {"uploaded", "processing"}
      ~> ~Active(a) \/ attempt[a].status \in Terminal \cup {"awaiting-upload"}

(* Every byte written to disk is eventually deleted.                       *)
BytesAreEventuallyDeleted ==
  \A m \in Media : m \in originals \cup frames ~> m \notin originals \cup frames
=============================================================================
