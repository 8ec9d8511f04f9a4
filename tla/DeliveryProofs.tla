--------------------------- MODULE DeliveryProofs ---------------------------
(***************************************************************************)
(* The delivery of uploads, for any number of attempts, uploads, workers,  *)
(* leases and faults: its steps are steps of the store, and no byte an     *)
(* analysis needs is deleted, or forgotten, by any of them.                *)
(***************************************************************************)
EXTENDS MediaDelivery, AttemptStoreProofs

-----------------------------------------------------------------------------
(* The invariant, part by part.                                            *)

SlotRow ==
  [pc : {"idle", "working", "exhausted", "internal", "releasing"},
   media : Media \cup {NoMedia}, lease : Leases \cup {NoLease}]
ExecRow ==
  [pc : {"idle", "redeliver", "reack", "recover", "clean", "ack"},
   todo : SUBSET Media, rollback : SUBSET Media, media : Media \cup {NoMedia}]
ScavRow == [todo : SUBSET Records, acking : Records \cup {NoRecord}]

(* A callback has a job and a claim; the runtime has an upload in hand.    *)
ActorsHaveWork ==
  /\ svc \in [Media -> {"idle"} \cup InFlight \cup Answers]
  /\ slot \in [Deliveries -> SlotRow]
  /\ \A d \in Deliveries : slot[d].pc # "idle" =>
       slot[d].media \in Media /\ slot[d].lease \in Leases
  /\ exec \in ExecRow
  /\ exec.pc \in {"reack", "clean", "ack"} => exec.media \in Media
  /\ scav \in ScavRow
  /\ originals \subseteq Media /\ frames \subseteq Media

(* The upload is not, or no longer, what the attempt is analysed from.     *)
Detached(m) ==
  attempt[Owner[m]].media # m \/ attempt[Owner[m]].deletion = "tombstoned"
(* It will never be attached: its generation is gone, or its attempt.      *)
Retired(m) ==
  \/ attempt[Owner[m]].deletion = "tombstoned"
  \/ upload[m].generation <= attempt[Owner[m]].generation

(* A record that was neither to be rolled back nor handed to the queue is  *)
(* of an upload that is not attached.                                      *)
FlagsTell(m) == ~delivery[m].rollback /\ ~delivery[m].queuedAt => Detached(m)

(* What the store's rows say of each other.                                *)
RowsAgree ==
  /\ \A a \in Attempts : attempt[a].status \in {"absent", "awaiting-upload"} =>
       attempt[a].media = NoMedia
  /\ \A m \in Media :
       /\ upload[m].generation <= attempt[Owner[m]].generation + 1
       /\ ~upload[m].accepted =>
            /\ delivery[m].state = "absent" /\ attempt[Owner[m]].media # m
            /\ transition[m] = "none" /\ frame[m] = "none" /\ original[m] = "none"
       /\ transition[m] # "none" => attempt[Owner[m]].media # m
       /\ delivery[m].rolledBack => Detached(m)
       /\ delivery[m].state = "pending-delivery" => delivery[m].rollback
       /\ delivery[m].state = "queued" => delivery[m].queuedAt
       /\ delivery[m].state = "cleanup-recoverable" => FlagsTell(m)

Unattachable == {"idle", "prepared"}
Before == {"idle", "prepared", "accepted", "begin"}
Handed == {"enqueue", "mark", "remark", "done", "uncertain", "begin-job"}

(* What is true of an upload, by where its request stands.                 *)
RequestsKnow ==
  \A m \in Media :
    /\ svc[m] \in Unattachable => ~upload[m].accepted
    /\ svc[m] \in Before =>
         /\ delivery[m].state = "absent" /\ original[m] = "none"
         /\ attempt[Owner[m]].media # m
    /\ svc[m] \in Handed =>
         /\ attempt[Owner[m]].media = m /\ ~delivery[m].rolledBack
         /\ delivery[m].state \in {"cleanup-recoverable", "resolved"} =>
              attempt[Owner[m]].deletion = "tombstoned" /\ ~delivery[m].rollback
    /\ svc[m] \in {"cleanup", "ack"} => Detached(m)
    /\ svc[m] = "accepted" /\ transition[m] = "due" => Retired(m)

(* What the recovery runtime has in hand.                                  *)
RuntimeKnows ==
  /\ \A m \in exec.todo \cup exec.rollback \cup ({exec.media} \ {NoMedia}) :
       svc[m] \notin Before /\ upload[m].accepted
  /\ \A m \in exec.rollback : svc[m] \notin Handed
  /\ exec.pc \in {"clean", "ack"} => Detached(exec.media)
  /\ exec.pc \in {"clean", "ack", "recover"} =>
       \A m \in exec.todo \ exec.rollback : Detached(m)

(* What the scavenger listed, however long ago.                            *)
ScavengerKnows ==
  /\ \A r \in scav.todo \cup ({scav.acking} \ {NoRecord}) : upload[r[2]].accepted
  /\ \A r \in scav.todo :
       /\ r[1] = "frame" => frame[r[2]] # "held"
       /\ r[1] = "original" => original[r[2]] # "held" /\ svc[r[2]] \notin Before
       /\ r[1] = "temporary" =>
            Detached(r[2]) /\ (svc[r[2]] = "accepted" => Retired(r[2]))

(* Bytes and the facts that lead to their deletion.                        *)
BytesAreAccepted == \A m \in originals \cup frames : upload[m].accepted
AcknowledgedAreGone ==
  /\ \A m \in Media : svc[m] = "ack" => m \notin originals \cup frames
  /\ exec.pc = "ack" => exec.media \notin originals \cup frames
  /\ scav.acking # NoRecord =>
       IF scav.acking[1] = "frame" THEN scav.acking[2] \notin frames
       ELSE scav.acking[2] \notin originals
AttachableBytesExist ==
  \A m \in Media : svc[m] = "accepted" /\ ~Retired(m) =>
    m \in originals /\ (frame[m] = "held" => m \in frames)

BytesInv ==
  /\ BytesAreAccepted /\ AttachableBytesExist
  /\ ReferencedBytesSurvive /\ EveryByteHasARetentionFact

DeliveryInv ==
  /\ StoreInv /\ ActorsHaveWork /\ RowsAgree
  /\ RequestsKnow /\ RuntimeKnows /\ ScavengerKnows
  /\ AcknowledgedAreGone /\ BytesInv

-----------------------------------------------------------------------------
(* Every step of the delivery is a step of the store, or leaves it alone.  *)

(* A lease that nobody knows is a lease.                                   *)
LEMMA NextLeaseIsFresh == FreshLeases # {} => NextLease \in Leases
BY DEF FreshLeases, NextLease

(* A request's call of the repository is one of its operations, or leaves  *)
(* the store alone.                                                        *)
LEMMA ServiceCallsTheStore ==
  ASSUME NEW m \in Media, ServiceStep(m)
  PROVE  AttachmentStep \/ UNCHANGED storeVars
BY DEF ServiceStep, Preflight, AcceptMultipart, AttachAcceptedMedia, Enqueue, MarkQueued,
       BeginCompensation, RollBack, CleanUp, AcknowledgeCleanup, Call, MarkedAlready,
       RolledBackAlready, CleanedAlready, AttachmentStep

(* So is a worker's.                                                       *)
LEMMA WorkerCallsTheStore ==
  ASSUME ActorsHaveWork, NEW d \in Deliveries, WorkerStep(d)
  PROVE  ProcessingStep \/ UNCHANGED storeVars
<1>1. slot[d].pc # "idle" => slot[d].media \in Media /\ slot[d].lease \in Leases
  BY DEF ActorsHaveWork
<1>2. CASE \E m \in Media : Deliver(d, m)
  BY <1>2, NextLeaseIsFresh DEF Deliver, ProcessingStep
<1>3. ASSUME NEW c, Conclude(d, c), slot[d].pc # "idle", c \in Candidates
      PROVE  ProcessingStep \/ UNCHANGED storeVars
  BY <1>1, <1>3 DEF Conclude, ProcessingStep
<1>4. CASE Process(d) \/ FinalizeInternalFailure(d)
  BY <1>3, <1>4 DEF Process, FinalizeInternalFailure, Candidates
<1>5. CASE RetryableFailure(d)
  BY <1>1, <1>5 DEF RetryableFailure, ProcessingStep
<1>6. CASE ReleaseForRetry(d)
  BY <1>1, <1>6 DEF ReleaseForRetry, ProcessingStep
<1> QED BY <1>2, <1>4, <1>5, <1>6 DEF WorkerStep

(* So is the recovery runtime's.                                           *)
LEMMA RuntimeCallsTheStore ==
  ASSUME ActorsHaveWork, RuntimeStep
  PROVE  RecoveryStep \/ AttachmentStep \/ UNCHANGED storeVars
<1>1. /\ exec.pc \in {"reack", "clean", "ack"} => exec.media \in Media
      /\ \A states : Claimable(states) \in SUBSET Media
  BY DEF ActorsHaveWork, Claimable
<1>2. CASE ClaimCleanup
  BY <1>1, <1>2 DEF ClaimCleanup, RecoveryStep
<1>3. CASE StartRun \/ StartCleanup
  BY <1>1, <1>2, <1>3 DEF StartRun, StartCleanup, RecoveryStep
<1>4. CASE AcknowledgeRedelivery
  BY <1>1, <1>4 DEF AcknowledgeRedelivery, RecoveryStep
<1>5. CASE ReconcileCleanup
  BY <1>1, <1>5 DEF ReconcileCleanup, Abandon, RecoveryStep
<1>6. CASE ReconcileAcknowledge
  BY <1>1, <1>6 DEF ReconcileAcknowledge, CleanedAlready, RecoveryStep, AttachmentStep
<1>7. CASE \E m \in Media : Redeliver(m) \/ ReconcileRollback(m)
  BY <1>7 DEF Redeliver, ReconcileRollback, RolledBackAlready, Abandon, RecoveryStep,
              AttachmentStep
<1> QED BY <1>3, <1>4, <1>5, <1>6, <1>7 DEF RuntimeStep

(* So are the scavenger's, the client's, the clock's and a crash.          *)
LEMMA OthersCallTheStore ==
  ASSUME ActorsHaveWork,
         \/ ScavengerStep \/ ClockStep \/ Crash
         \/ \E a \in Attempts : Create(a) \/ Delete(a)
  PROVE  RetentionStep \/ RecoveryStep \/ AttemptStep \/ UNCHANGED storeVars
<1>1. CASE ScavengerStep
  <2>1. scav.acking # NoRecord =>
          scav.acking[1] \in {"temporary", "frame", "original"} /\ scav.acking[2] \in Media
    BY DEF ActorsHaveWork, ScavRow, Records
  <2> QED BY <1>1, <2>1
        DEF ScavengerStep, ListDue, AcknowledgeDeleted, DeleteDue, RetentionStep
<1>2. CASE ClockStep
  BY <1>2 DEF ClockStep, Deadline, AbandonedRowExpires, AbandonedLeaseExpires,
              LeaseExpiresUnderHolder, RetentionStep, RecoveryStep, AttemptStep
<1>3. CASE Crash \/ \E a \in Attempts : Create(a) \/ Delete(a)
  BY <1>3 DEF Crash, Create, Delete, AttemptStep
<1> QED BY <1>1, <1>2, <1>3

(* Every step of the delivery is a step of the store.                      *)
LEMMA DeliveryCallsTheStore ==
  ActorsHaveWork /\ [DeliveryNext]_vars => [Next]_storeVars
BY ServiceCallsTheStore, WorkerCallsTheStore, RuntimeCallsTheStore, OthersCallTheStore
   DEF DeliveryNext, Next, vars

-----------------------------------------------------------------------------
(* Most steps of the store only let an upload age: they attach nothing,    *)
(* withdraw nothing from a request that handed its job over, and make no   *)
(* fact that was not there.                                                *)

Unstarted == {"absent", "awaiting-upload"}
Analysable == {"uploaded", "processing"}

AttemptAges(a) ==
  /\ \/ attempt'[a].media = attempt[a].media
     \/ /\ attempt'[a].media = NoMedia
        /\ \A m \in Media : attempt[a].media = m => svc'[m] \notin Handed
  /\ attempt[a].generation <= attempt'[a].generation
  /\ attempt[a].deletion = "tombstoned" => attempt'[a].deletion = "tombstoned"
  /\ attempt'[a].status \in Unstarted =>
       attempt[a].status \in Unstarted \/ attempt'[a].media = NoMedia
  /\ attempt'[a].deletion = "active" /\ attempt'[a].status \in Analysable =>
       attempt[a].deletion = "active" /\ attempt[a].status \in Analysable

RecordAges(m) ==
  /\ delivery[m].state = "absent" =>
       \/ delivery'[m].state = "absent"
       \/ upload[m].accepted /\ svc'[m] \notin Before
  /\ delivery'[m].rolledBack =>
       delivery[m].rolledBack \/ (Detached(m)' /\ svc'[m] \notin Handed)
  /\ delivery'[m].state = "pending-delivery" =>
       delivery[m].state = "pending-delivery" /\ delivery'[m].rollback = delivery[m].rollback
  /\ delivery'[m].state = "queued" =>
       \/ delivery'[m].queuedAt
       \/ delivery[m].state = "queued" /\ delivery'[m].queuedAt = delivery[m].queuedAt
  /\ delivery'[m].state = "cleanup-recoverable" =>
       \/ attempt'[Owner[m]].deletion = "tombstoned" /\ ~delivery'[m].rollback
       \/ /\ delivery[m].state = "cleanup-recoverable"
          /\ delivery'[m].rollback = delivery[m].rollback
          /\ delivery'[m].queuedAt = delivery[m].queuedAt
       \/ svc'[m] \notin Handed /\ FlagsTell(m)'
  /\ delivery'[m].state = "resolved" =>
       \/ /\ delivery[m].state \in {"cleanup-recoverable", "resolved"}
          /\ delivery'[m].rollback = delivery[m].rollback
       \/ svc'[m] \notin Handed

(* A fact is forgotten only once the bytes it names are gone.              *)
FactsAge(m) ==
  /\ transition'[m] # "none" => transition[m] # "none"
  /\ frame'[m] # "none" => frame[m] # "none"
  /\ original'[m] # "none" => original[m] # "none"
  /\ frame'[m] = "held" => frame[m] = "held"
  /\ original'[m] = "held" => original[m] = "held"
  /\ transition'[m] = "due" => transition[m] = "due" \/ svc[m] # "accepted" \/ Retired(m)'
  /\ m \in originals => /\ transition[m] # "none" => transition'[m] # "none"
                        /\ original[m] # "none" => original'[m] # "none"
  /\ m \in frames /\ frame[m] # "none" => frame'[m] # "none"

Gentle ==
  /\ UNCHANGED upload
  /\ \A a \in Attempts : AttemptAges(a)
  /\ \A m \in Media : RecordAges(m) /\ FactsAge(m)

(* An attempt row that stays is older or as old.                           *)
LEMMA SameAttemptsAge ==
  ASSUME TypeOK, UNCHANGED attempt PROVE \A a \in Attempts : AttemptAges(a)
BY DEF TypeOK, AttemptRow, AttemptAges

(* A delivery record of which only the lease changes ages.                 *)
LEMMA LeasedRecordAges ==
  ASSUME NEW m \in Media,
         /\ delivery'[m].state = delivery[m].state
         /\ delivery'[m].rollback = delivery[m].rollback
         /\ delivery'[m].queuedAt = delivery[m].queuedAt
         /\ delivery'[m].rolledBack = delivery[m].rolledBack
  PROVE  RecordAges(m)
BY DEF RecordAges

(* Facts nobody touches age.                                               *)
LEMMA SameFactsAge ==
  ASSUME UNCHANGED retentionVars PROVE \A m \in Media : FactsAge(m)
BY DEF retentionVars, FactsAge

(* Requesting a cleanup makes facts due, and none new.                     *)
LEMMA RequestedFacts ==
  ASSUME NEW rows \in [Media -> RetentionRow], NEW a, NEW m \in Media
  PROVE  /\ Requested(rows, a)[m] # "none" <=> rows[m] # "none"
         /\ Requested(rows, a)[m] = "held" => rows[m] = "held"
         /\ Requested(rows, a)[m] = "due" => rows[m] = "due" \/ Owner[m] = a
BY DEF Requested, RetentionRow

(* Creating, deleting and the end of a processing lease are gentle.        *)
LEMMA AttemptStepIsGentle ==
  ASSUME TypeOK, NEW a \in Attempts,
         CreateAttempt(a) \/ TombstoneAttempt(a) \/ ProcessingLeaseExpires(a)
  PROVE  Gentle
<1>a. /\ attempt \in [Attempts -> AttemptRow]
      /\ \A b \in Attempts : attempt[b].generation \in Nat
      /\ delivery \in [Media -> DeliveryRow]
      /\ transition \in [Media -> RetentionRow] /\ frame \in [Media -> RetentionRow]
      /\ original \in [Media -> RetentionRow]
  BY DEF TypeOK, AttemptRow
<1>1. CASE CreateAttempt(a) \/ ProcessingLeaseExpires(a)
  <2>1. UNCHANGED <<upload, delivery, retentionVars>>
    BY <1>1 DEF CreateAttempt, ProcessingLeaseExpires
  <2>2. ASSUME NEW b \in Attempts PROVE AttemptAges(b)
    BY <1>1, <1>a DEF CreateAttempt, ProcessingLeaseExpires, AttemptAges, AttemptRow,
                      Unstarted, Analysable
  <2> QED BY <2>1, <2>2, SameFactsAge, LeasedRecordAges DEF Gentle
<1>2. CASE TombstoneAttempt(a)
  <2>1. ASSUME NEW b \in Attempts PROVE AttemptAges(b)
    <3>1. attempt'[a].generation = attempt[a].generation + 1
      BY <1>2, <1>a DEF TombstoneAttempt, AttemptRow
    <3>2. /\ attempt'[a].deletion = "tombstoned"
          /\ attempt'[a].media = attempt[a].media /\ attempt'[a].status = attempt[a].status
      BY <1>2, <1>a, ZenonT(60) DEF TombstoneAttempt, AttemptRow
    <3>3. b # a => attempt'[b] = attempt[b]
      BY <1>2, <1>a DEF TombstoneAttempt
    <3> QED BY <1>a, <3>1, <3>2, <3>3 DEF AttemptAges
  <2>2. attempt'[a].deletion = "tombstoned"
    BY <1>2, <1>a DEF TombstoneAttempt, AttemptRow
  <2>3. ASSUME NEW m \in Media PROVE RecordAges(m)
    <3>1. delivery[m] \in DeliveryRow
      BY <1>a
    <3>2. CASE Owner[m] = a /\ delivery[m].state \notin {"absent", "resolved"}
      <4>1. delivery'[m] = [delivery[m] EXCEPT !.state = "cleanup-recoverable",
              !.rollback = FALSE, !.queuedAt = FALSE, !.rolledBack = FALSE, !.leased = "no"]
        BY <1>2, <3>2 DEF TombstoneAttempt
      <4> QED BY <2>2, <3>1, <3>2, <4>1 DEF DeliveryRow, RecordAges
    <3>3. CASE ~(Owner[m] = a /\ delivery[m].state \notin {"absent", "resolved"})
      BY <1>2, <3>3, LeasedRecordAges DEF TombstoneAttempt
    <3> QED BY <3>2, <3>3
  <2>4. ASSUME NEW m \in Media PROVE FactsAge(m)
    <3>1. \A rows \in [Media -> RetentionRow] :
            /\ Requested(rows, a)[m] # "none" <=> rows[m] # "none"
            /\ Requested(rows, a)[m] = "held" => rows[m] = "held"
            /\ Requested(rows, a)[m] = "due" => rows[m] = "due" \/ Owner[m] = a
      BY RequestedFacts
    <3>2. /\ transition' = Requested(transition, a)
          /\ frame' = Requested(frame, a) /\ original' = Requested(original, a)
      BY <1>2 DEF TombstoneAttempt
    <3> QED BY <1>a, <2>2, <3>1, <3>2 DEF FactsAge, Retired
  <2> QED BY <1>2, <2>1, <2>3, <2>4 DEF TombstoneAttempt, Gentle
<1> QED BY <1>1, <1>2

(* Marking a delivery as queued, and every step on a recovery lease, is    *)
(* gentle.                                                                 *)
LEMMA RecoveryStepIsGentle ==
  ASSUME TypeOK, RecoveryStep \/ \E m \in Media : MarkMediaDeliveryQueued(m)
  PROVE  Gentle
<1>1. UNCHANGED <<attempt, upload, retentionVars>>
  BY DEF RecoveryStep, MarkMediaDeliveryQueued, ClaimMediaDeliveryRedelivery,
         ClaimMediaAttachmentRecovery, ClaimRows, AcknowledgeMediaDeliveryRedelivery,
         ReleaseMediaDeliveryRedelivery, ReleaseMediaAttachmentRecovery, ReleaseRow,
         RecoveryLeaseExpires
<1>2. delivery \in [Media -> DeliveryRow]
  BY DEF TypeOK
<1> SUFFICES ASSUME NEW x \in Media PROVE RecordAges(x)
  BY <1>1, SameAttemptsAge, SameFactsAge DEF Gentle
<1>3. CASE \E batch \in SUBSET Media :
             \/ ClaimMediaDeliveryRedelivery(batch)
             \/ ClaimMediaAttachmentRecovery(batch)
  <2>1. delivery'[x] \in {delivery[x], [delivery[x] EXCEPT !.leased = "live"]}
    BY <1>3 DEF ClaimMediaDeliveryRedelivery, ClaimMediaAttachmentRecovery, ClaimRows
  <2> QED BY <1>2, <2>1, LeasedRecordAges DEF DeliveryRow
<1>4. ASSUME NEW m \in Media,
             \/ AcknowledgeMediaDeliveryRedelivery(m) \/ MarkMediaDeliveryQueued(m)
      PROVE  RecordAges(x)
  <2>1. /\ delivery[m].state \in Undelivered
        /\ delivery'[m].state = "queued" /\ delivery'[m].queuedAt
        /\ delivery'[m].rolledBack = delivery[m].rolledBack
        /\ x # m => delivery'[x] = delivery[x]
    <3>1. CASE AcknowledgeMediaDeliveryRedelivery(m)
      BY <1>2, <3>1 DEF AcknowledgeMediaDeliveryRedelivery, AckRedeliveryAllowed,
                        Undelivered, DeliveryRow
    <3>2. CASE MarkMediaDeliveryQueued(m)
      <4>1. delivery'[m] = [delivery[m] EXCEPT !.state = "queued", !.rollback = FALSE,
                                               !.queuedAt = TRUE]
        BY <1>2, <3>2 DEF MarkMediaDeliveryQueued
      <4>2. delivery[m] \in DeliveryRow
        BY <1>2
      <4>3. x # m => delivery'[x] = delivery[x]
        BY <1>2, <3>2 DEF MarkMediaDeliveryQueued
      <4>4. /\ delivery'[m].state = "queued" /\ delivery'[m].queuedAt
            /\ delivery'[m].rolledBack = delivery[m].rolledBack
        BY <4>1, <4>2 DEF DeliveryRow
      <4>5. delivery[m].state \in Undelivered
        BY <3>2 DEF MarkMediaDeliveryQueued, Undelivered
      <4> QED BY <4>3, <4>4, <4>5
    <3> QED BY <1>4, <3>1, <3>2
  <2> QED BY <2>1, LeasedRecordAges DEF RecordAges, Undelivered
<1>5. ASSUME NEW m \in Media,
             \/ ReleaseMediaDeliveryRedelivery(m) \/ ReleaseMediaAttachmentRecovery(m)
             \/ RecoveryLeaseExpires(m)
      PROVE  RecordAges(x)
  <2>1. /\ delivery'[m].state = delivery[m].state
        /\ delivery'[m].rollback = delivery[m].rollback
        /\ delivery'[m].queuedAt = delivery[m].queuedAt
        /\ delivery'[m].rolledBack = delivery[m].rolledBack
        /\ x # m => delivery'[x] = delivery[x]
    BY <1>2, <1>5 DEF ReleaseMediaDeliveryRedelivery, ReleaseMediaAttachmentRecovery,
                      ReleaseRow, RecoveryLeaseExpires, DeliveryRow
  <2> QED BY <2>1, LeasedRecordAges
<1> QED BY <1>3, <1>4, <1>5 DEF RecoveryStep

(* Resolving the records of cleaned uploads lets them age.                 *)
LEMMA ReconciledRecordAges ==
  ASSUME TypeOK, NEW a, NEW o, NEW f, delivery' = Reconciled(a, o, f), NEW m \in Media
  PROVE  RecordAges(m)
<1>1. delivery[m] \in DeliveryRow
  BY DEF TypeOK
<1>2. CASE delivery'[m] = delivery[m]
  BY <1>2, LeasedRecordAges
<1>3. CASE /\ delivery[m].state = "cleanup-recoverable"
           /\ delivery'[m] = [delivery[m] EXCEPT !.state = "resolved", !.cleaned = TRUE,
                                                 !.leased = "no"]
  <2>1. /\ delivery'[m].state = "resolved"
        /\ delivery'[m].rollback = delivery[m].rollback
        /\ delivery'[m].rolledBack = delivery[m].rolledBack
    BY <1>1, <1>3 DEF DeliveryRow
  <2> QED BY <1>3, <2>1 DEF RecordAges
<1>4. \/ delivery'[m] = delivery[m]
      \/ /\ delivery[m].state = "cleanup-recoverable"
         /\ delivery'[m] = [delivery[m] EXCEPT !.state = "resolved", !.cleaned = TRUE,
                                               !.leased = "no"]
  BY DEF Reconciled
<1> QED BY <1>2, <1>3, <1>4

(* Deadlines of requests that are over are gentle.                         *)
LEMMA DeadlineIsGentle ==
  ASSUME TypeOK, NEW m \in Media, svc[m] # "accepted",
         TransitionDeadline(m) \/ OriginalDeadline(m)
  PROVE  Gentle
<1>1. UNCHANGED <<attempt, upload, delivery>>
  BY DEF TransitionDeadline, OriginalDeadline
<1>2. ASSUME NEW x \in Media PROVE FactsAge(x)
  <2>1. CASE TransitionDeadline(m)
    BY <2>1 DEF TransitionDeadline, TypeOK, RetentionRow, FactsAge
  <2>2. CASE OriginalDeadline(m)
    BY <2>2 DEF OriginalDeadline, TypeOK, RetentionRow, FactsAge
  <2> QED BY <2>1, <2>2
<1> QED BY <1>1, <1>2, SameAttemptsAge, LeasedRecordAges DEF Gentle

(* Acknowledging what was deleted is gentle.                               *)
LEMMA AcknowledgeRetentionIsGentle ==
  ASSUME TypeOK, NEW m \in Media, NEW kind, AcknowledgeRetention(kind, m),
         IF kind = "frame" THEN m \notin frames ELSE m \notin originals
  PROVE  Gentle
<1>1. UNCHANGED <<attempt, upload>>
  BY DEF AcknowledgeRetention
<1>2. \A x \in Media : RecordAges(x)
  BY ReconciledRecordAges DEF AcknowledgeRetention
<1>3. ASSUME NEW x \in Media PROVE FactsAge(x)
  BY DEF AcknowledgeRetention, TypeOK, RetentionRow, FactsAge
<1> QED BY <1>1, <1>2, <1>3, SameAttemptsAge DEF Gentle

(* So is acknowledging a cleanup whose bytes are gone.                     *)
LEMMA AcknowledgeCleanupIsGentle ==
  ASSUME TypeOK, NEW m \in Media, AcknowledgeMediaAttachmentCleanup(m),
         m \notin originals \cup frames
  PROVE  Gentle
<1>1. UNCHANGED <<attempt, upload>>
  BY DEF AcknowledgeMediaAttachmentCleanup
<1>2. \A x \in Media : RecordAges(x)
  BY ReconciledRecordAges DEF AcknowledgeMediaAttachmentCleanup
<1>3. ASSUME NEW x \in Media PROVE FactsAge(x)
  BY DEF AcknowledgeMediaAttachmentCleanup, TypeOK, RetentionRow, FactsAge
<1> QED BY <1>1, <1>2, <1>3, SameAttemptsAge DEF Gentle

(* Every step of a worker's claim is gentle: a terminal write drops the    *)
(* record, and attaches nothing.                                           *)
LEMMA ProcessingStepIsGentle ==
  ASSUME TypeOK, ProcessingStep
  PROVE  Gentle
<1> PICK m \in Media, l \in Leases :
      \/ ClaimProcessing(m, l) \/ ReleaseProcessingClaim(m, l)
      \/ RecordProcessingFailure(m, l) \/ DeadLetterProcessingClaim(m, l)
      \/ \E c \in Candidates, policyCurrent \in BOOLEAN :
           FinalizeTerminalResult(m, l, c, policyCurrent)
  BY DEF ProcessingStep
<1>a. /\ Owner[m] \in Attempts
      /\ attempt \in [Attempts -> AttemptRow]
      /\ \A b \in Attempts : attempt[b].generation \in Nat
      /\ delivery \in [Media -> DeliveryRow]
  BY StoreAssumption DEF TypeOK, AttemptRow
<1>1. UNCHANGED <<upload, retentionVars>>
  BY DEF ClaimProcessing, ReleaseProcessingClaim, RecordProcessingFailure,
         DeadLetterProcessingClaim, FinalizeTerminalResult
<1>2. CASE RecordProcessingFailure(m, l)
  <2>1. UNCHANGED <<attempt, delivery>>
    BY <1>2 DEF RecordProcessingFailure
  <2> QED BY <1>1, <2>1, SameAttemptsAge, SameFactsAge, LeasedRecordAges DEF Gentle
<1>b. ASSUME NEW b \in Attempts,
             /\ attempt[Owner[m]].deletion = "active"
             /\ attempt[Owner[m]].status \in Analysable,
             NEW s \in Statuses \ Unstarted, NEW k, NEW live,
             attempt' = [attempt EXCEPT ![Owner[m]].status = s, ![Owner[m]].lease = k,
                                        ![Owner[m]].live = live]
      PROVE  AttemptAges(b)
  BY <1>a, <1>b DEF AttemptRow, AttemptAges, Statuses
<1>3. CASE ClaimProcessing(m, l)
  <2>1. UNCHANGED delivery
    BY <1>3 DEF ClaimProcessing
  <2>2. /\ attempt[Owner[m]].deletion = "active"
        /\ attempt[Owner[m]].status \in Analysable
    BY <1>3 DEF ClaimProcessing, ClaimAllowed, Active, Analysable
  <2>3. \A b \in Attempts : AttemptAges(b)
    BY <1>b, <1>3, <2>2 DEF ClaimProcessing, Statuses, Unstarted
  <2> QED BY <1>1, <2>1, <2>3, SameFactsAge, LeasedRecordAges DEF Gentle
<1>4. CASE ReleaseProcessingClaim(m, l) \/ DeadLetterProcessingClaim(m, l)
  <2>1. UNCHANGED delivery /\ HoldsClaim(m, l) /\ attempt' = Unleased(Owner[m], "uploaded")
    BY <1>4 DEF ReleaseProcessingClaim, DeadLetterProcessingClaim
  <2>2. \A b \in Attempts : AttemptAges(b)
    BY <1>b, <2>1 DEF Unleased, HoldsClaim, Active, Analysable, Statuses, Unstarted
  <2> QED BY <1>1, <2>1, <2>2, SameFactsAge, LeasedRecordAges DEF Gentle
<1>5. CASE \E c \in Candidates, policyCurrent \in BOOLEAN :
             FinalizeTerminalResult(m, l, c, policyCurrent)
  <2>1. PICK s \in Terminal : attempt' = Unleased(Owner[m], s)
    BY <1>5 DEF FinalizeTerminalResult, StatusOf, Candidates, Terminal
  <2>2. HoldsClaim(m, l)
    BY <1>5 DEF FinalizeTerminalResult, FinalizeOutcome
  <2>3. \A b \in Attempts : AttemptAges(b)
    BY <1>b, <2>1, <2>2
       DEF Unleased, HoldsClaim, Active, Analysable, Statuses, Terminal, Unstarted
  <2>4. \A x \in Media : delivery'[x] \in {delivery[x], NoRow}
    BY <1>5 DEF FinalizeTerminalResult, TypeOK
  <2>5. ASSUME NEW x \in Media PROVE RecordAges(x)
    BY <2>4, LeasedRecordAges DEF NoRow, RecordAges
  <2> QED BY <1>1, <2>3, <2>5, SameFactsAge DEF Gentle
<1> QED BY <1>2, <1>3, <1>4, <1>5

(* So is a step that leaves the store alone.                               *)
LEMMA StutterIsGentle == TypeOK /\ UNCHANGED storeVars => Gentle
BY SameAttemptsAge, SameFactsAge, LeasedRecordAges DEF storeVars, Gentle

-----------------------------------------------------------------------------
(* What gentle steps, and requests that only move on, leave true.          *)

CalmRequest(m) ==
  /\ svc'[m] \in Unattachable => svc[m] \in Unattachable
  /\ svc'[m] \in Before => svc[m] \in Before
  /\ svc'[m] \in Handed => svc[m] \in Handed
  /\ svc'[m] \in {"cleanup", "ack"} => svc[m] \in {"cleanup", "ack"} \/ Detached(m)'
  /\ svc'[m] = "accepted" => svc[m] = "accepted"
Calm == \A m \in Media : CalmRequest(m)

(* Gentle steps neither attach an upload nor bring a retired one back.     *)
LEMMA GentleKeepsUploads ==
  ASSUME TypeOK, TypeOK', Gentle, NEW m \in Media
  PROVE  /\ AttemptAges(Owner[m]) /\ RecordAges(m) /\ FactsAge(m)
         /\ upload'[m] = upload[m]
         /\ Detached(m) => Detached(m)'
         /\ Retired(m) => Retired(m)'
<1>1. /\ Owner[m] \in Attempts
      /\ upload[m].generation \in Nat
      /\ attempt[Owner[m]].generation \in Nat /\ attempt'[Owner[m]].generation \in Nat
  BY StoreAssumption DEF TypeOK, AttemptRow
<1>2. AttemptAges(Owner[m]) /\ RecordAges(m) /\ FactsAge(m) /\ upload'[m] = upload[m]
  BY <1>1 DEF Gentle
<1>3. (Detached(m) => Detached(m)') /\ (Retired(m) => Retired(m)')
  BY <1>1, <1>2, StoreAssumption DEF AttemptAges, Detached, Retired
<1> QED BY <1>2, <1>3

(* The store's rows still agree after a gentle step.                       *)
LEMMA GentleRowsAgree ==
  ASSUME TypeOK, TypeOK', RowsAgree, Gentle
  PROVE  RowsAgree'
<1>1. ASSUME NEW a \in Attempts, attempt'[a].status \in {"absent", "awaiting-upload"}
      PROVE  attempt'[a].media = NoMedia
  BY <1>1 DEF RowsAgree, Gentle, AttemptAges, Unstarted
<1>2. ASSUME NEW m \in Media
      PROVE  /\ upload'[m].generation <= attempt'[Owner[m]].generation + 1
             /\ ~upload'[m].accepted =>
                  /\ delivery'[m].state = "absent" /\ attempt'[Owner[m]].media # m
                  /\ transition'[m] = "none" /\ frame'[m] = "none" /\ original'[m] = "none"
             /\ transition'[m] # "none" => attempt'[Owner[m]].media # m
             /\ delivery'[m].rolledBack => Detached(m)'
             /\ delivery'[m].state = "pending-delivery" => delivery'[m].rollback
             /\ delivery'[m].state = "queued" => delivery'[m].queuedAt
             /\ delivery'[m].state = "cleanup-recoverable" => FlagsTell(m)'
  <2>1. /\ Owner[m] \in Attempts
        /\ upload[m].generation \in Nat
        /\ attempt[Owner[m]].generation \in Nat /\ attempt'[Owner[m]].generation \in Nat
    BY StoreAssumption DEF TypeOK, AttemptRow
  <2>2. /\ upload'[m] = upload[m]
        /\ attempt'[Owner[m]].media \in {attempt[Owner[m]].media, NoMedia} /\ NoMedia # m
        /\ attempt[Owner[m]].generation <= attempt'[Owner[m]].generation
        /\ Detached(m) => Detached(m)'
    BY GentleKeepsUploads, StoreAssumption DEF AttemptAges
  <2>3. upload'[m].generation <= attempt'[Owner[m]].generation + 1
    BY <2>1, <2>2 DEF RowsAgree
  <2>4. /\ ~upload'[m].accepted =>
             /\ delivery'[m].state = "absent" /\ attempt'[Owner[m]].media # m
             /\ transition'[m] = "none" /\ frame'[m] = "none" /\ original'[m] = "none"
        /\ transition'[m] # "none" => attempt'[Owner[m]].media # m
    BY <2>2, GentleKeepsUploads DEF RowsAgree, RecordAges, FactsAge
  <2>5. /\ delivery'[m].rolledBack => Detached(m)'
        /\ delivery'[m].state = "pending-delivery" => delivery'[m].rollback
        /\ delivery'[m].state = "queued" => delivery'[m].queuedAt
    BY <2>2, GentleKeepsUploads DEF RowsAgree, RecordAges
  <2>6. delivery'[m].state = "cleanup-recoverable" => FlagsTell(m)'
    BY <2>2, GentleKeepsUploads DEF RowsAgree, RecordAges, FlagsTell, Detached
  <2> QED BY <2>3, <2>4, <2>5, <2>6
<1> QED BY <1>1, <1>2 DEF RowsAgree

(* So does what the requests know.                                         *)
LEMMA GentleRequestsKnow ==
  ASSUME TypeOK, TypeOK', RequestsKnow, Gentle, Calm
  PROVE  RequestsKnow'
<1> SUFFICES ASSUME NEW m \in Media
    PROVE /\ svc'[m] \in Unattachable => ~upload'[m].accepted
          /\ svc'[m] \in Before =>
               /\ delivery'[m].state = "absent" /\ original'[m] = "none"
               /\ attempt'[Owner[m]].media # m
          /\ svc'[m] \in Handed =>
               /\ attempt'[Owner[m]].media = m /\ ~delivery'[m].rolledBack
               /\ delivery'[m].state \in {"cleanup-recoverable", "resolved"} =>
                    attempt'[Owner[m]].deletion = "tombstoned" /\ ~delivery'[m].rollback
          /\ svc'[m] \in {"cleanup", "ack"} => Detached(m)'
          /\ svc'[m] = "accepted" /\ transition'[m] = "due" => Retired(m)'
  BY DEF RequestsKnow
<1>1. /\ AttemptAges(Owner[m]) /\ RecordAges(m) /\ FactsAge(m)
      /\ upload'[m] = upload[m]
      /\ Detached(m) => Detached(m)'
      /\ Retired(m) => Retired(m)'
  BY GentleKeepsUploads
<1>2. CalmRequest(m)
  BY DEF Calm
<1>3. svc'[m] \in Unattachable => ~upload'[m].accepted
  BY <1>1, <1>2 DEF RequestsKnow, CalmRequest
<1>4. svc'[m] \in Before =>
        /\ delivery'[m].state = "absent" /\ original'[m] = "none"
        /\ attempt'[Owner[m]].media # m
  BY <1>1, <1>2, StoreAssumption
     DEF RequestsKnow, CalmRequest, AttemptAges, RecordAges, FactsAge
<1>5. svc'[m] \in Handed =>
        /\ attempt'[Owner[m]].media = m /\ ~delivery'[m].rolledBack
        /\ delivery'[m].state \in {"cleanup-recoverable", "resolved"} =>
             attempt'[Owner[m]].deletion = "tombstoned" /\ ~delivery'[m].rollback
  BY <1>1, <1>2 DEF RequestsKnow, CalmRequest, AttemptAges, RecordAges
<1>6. svc'[m] \in {"cleanup", "ack"} => Detached(m)'
  BY <1>1, <1>2 DEF RequestsKnow, CalmRequest
<1>7. svc'[m] = "accepted" /\ transition'[m] = "due" => Retired(m)'
  BY <1>1, <1>2 DEF RequestsKnow, CalmRequest, FactsAge, Retired
<1> QED BY <1>3, <1>4, <1>5, <1>6, <1>7

(* What every step of the delivery grants the runtime and the scavenger,   *)
(* who act on rows they read before: an accepted upload that is past its   *)
(* attachment, or will never be attached, stays so.                        *)
GoesOn(m) ==
  /\ upload[m].accepted => upload'[m] = upload[m]
  /\ upload[m].accepted /\ svc[m] \notin Before => svc'[m] \notin Before
  /\ svc[m] \notin Before \cup Handed => svc'[m] \notin Handed
  /\ upload[m].accepted /\ Detached(m) /\ (svc[m] = "accepted" => Retired(m)) =>
       Detached(m)' /\ (svc'[m] = "accepted" => Retired(m)')
  /\ upload[m].accepted /\ frame[m] # "held" => frame'[m] # "held"
  /\ svc[m] \notin Before /\ original[m] # "held" => original'[m] # "held"

(* Gentle steps go on.                                                     *)
LEMMA GentleGoesOn ==
  ASSUME TypeOK, TypeOK', Gentle, Calm
  PROVE  \A m \in Media : GoesOn(m)
<1> TAKE m \in Media
<1>1. /\ FactsAge(m) /\ upload'[m] = upload[m]
      /\ Detached(m) => Detached(m)'
      /\ Retired(m) => Retired(m)'
  BY GentleKeepsUploads
<1>2. CalmRequest(m)
  BY DEF Calm
<1> QED BY <1>1, <1>2 DEF GoesOn, CalmRequest, FactsAge

(* What the runtime knows stays true while it waits, and while it goes     *)
(* through the rows it claimed.                                            *)
LEMMA RuntimeGoesOn ==
  ASSUME RuntimeKnows, ActorsHaveWork, \A m \in Media : GoesOn(m),
         exec'.todo \subseteq exec.todo, exec'.rollback \subseteq exec.rollback,
         exec'.media \in exec.todo \cup {exec.media, NoMedia},
         exec'.pc \in {"clean", "ack"} =>
           \/ exec.pc \in {"clean", "ack"} /\ exec'.media = exec.media
           \/ exec'.media \in Media /\ Detached(exec.media)',
         exec'.pc \in {"clean", "ack", "recover"} =>
           /\ exec.pc \in {"clean", "ack", "recover"}
           /\ exec'.rollback = exec.rollback
  PROVE  RuntimeKnows'
<1> DEFINE inHand == exec.todo \cup exec.rollback \cup ({exec.media} \ {NoMedia})
<1>1. inHand \subseteq Media /\ exec.rollback \subseteq inHand /\ exec.todo \subseteq inHand
  BY DEF ActorsHaveWork, ExecRow
<1>2. exec.pc \in {"clean", "ack"} => exec.media \in inHand /\ exec.media \in Media
  BY StoreAssumption DEF ActorsHaveWork
<1>3. \A m \in inHand : svc'[m] \notin Before /\ upload'[m].accepted
  BY <1>1 DEF RuntimeKnows, GoesOn
<1>4. \A m \in exec.rollback : svc'[m] \notin Handed
  BY <1>1 DEF RuntimeKnows, GoesOn
<1>5. ASSUME NEW m \in inHand, Detached(m) PROVE Detached(m)'
  <2>1. svc[m] # "accepted" /\ upload[m].accepted /\ GoesOn(m)
    BY <1>1 DEF RuntimeKnows, Before
  <2> QED BY <1>5, <2>1 DEF GoesOn
<1>6. exec'.pc \in {"clean", "ack"} => Detached(exec.media)'
  <2> SUFFICES ASSUME exec'.pc \in {"clean", "ack"}, exec.pc \in {"clean", "ack"},
                      NEW m \in Media, exec'.media = m, exec.media = m
               PROVE  Detached(m)'
    BY <1>2 DEF Detached
  <2> QED BY <1>2, <1>5 DEF RuntimeKnows
<1>7. exec'.pc \in {"clean", "ack", "recover"} =>
        \A m \in exec'.todo \ exec'.rollback : Detached(m)'
  BY <1>1, <1>5 DEF RuntimeKnows
<1>8. /\ \A m \in exec'.todo \cup exec'.rollback \cup ({exec'.media} \ {NoMedia}) :
           m \in inHand
      /\ \A m \in exec'.rollback : m \in exec.rollback
  OBVIOUS
<1>9. /\ \A m \in exec'.todo \cup exec'.rollback \cup ({exec'.media} \ {NoMedia}) :
           svc'[m] \notin Before /\ upload'[m].accepted
      /\ \A m \in exec'.rollback : svc'[m] \notin Handed
  BY <1>3, <1>4, <1>8
<1> HIDE DEF inHand
<1> QED BY <1>6, <1>7, <1>9 DEF RuntimeKnows

(* A claim hands the runtime uploads that are past their attachment, those *)
(* to be rolled back not handed to the queue, the others not attached.     *)
LEMMA RuntimeStartsOver ==
  ASSUME TypeOK, RowsAgree, RequestsKnow, UNCHANGED <<svc, upload, attempt>>,
         NEW states, exec'.todo = Claimable(states), "absent" \notin states,
         exec'.media = NoMedia,
         \/ exec'.pc = "redeliver" /\ exec'.rollback = {}
         \/ /\ exec'.pc = "recover" /\ states = Recoverable
            /\ exec'.rollback = {m \in exec'.todo : delivery[m].rollback}
            /\ \A m \in exec'.todo : Projectable(delivery[m])
  PROVE  RuntimeKnows'
<1>1. ASSUME NEW m \in exec'.todo PROVE svc'[m] \notin Before /\ upload'[m].accepted
  <2>1. m \in Media /\ delivery[m].state # "absent"
    BY DEF Claimable
  <2> QED BY <2>1 DEF RowsAgree, RequestsKnow
<1>2. ASSUME NEW m \in exec'.rollback PROVE svc'[m] \notin Handed
  <2>1. m \in Media /\ delivery[m].state = "cleanup-recoverable" /\ delivery[m].rollback
    BY DEF Claimable, Recoverable
  <2> QED BY <2>1 DEF RequestsKnow
<1>3. ASSUME NEW m \in exec'.todo \ exec'.rollback, exec'.pc = "recover"
      PROVE  Detached(m)'
  <2>1. /\ m \in Media /\ delivery[m].state = "cleanup-recoverable"
        /\ ~delivery[m].rollback /\ Projectable(delivery[m])
    BY <1>3 DEF Claimable, Recoverable
  <2>2. Detached(m)
    BY <2>1 DEF RowsAgree, FlagsTell, Projectable
  <2> QED BY <2>2 DEF Detached
<1> QED BY <1>1, <1>2, <1>3 DEF RuntimeKnows

(* What the scavenger listed stays deletable, however long it takes.       *)
LEMMA ScavengerGoesOn ==
  ASSUME ScavengerKnows, ActorsHaveWork, \A m \in Media : GoesOn(m),
         scav'.todo \subseteq scav.todo,
         scav'.acking \in scav.todo \cup {scav.acking, NoRecord}
  PROVE  ScavengerKnows'
<1>1. /\ scav.todo \subseteq Records
      /\ \A r \in Records : r[2] \in Media
      /\ scav.acking # NoRecord => scav.acking \in Records
  BY DEF ActorsHaveWork, ScavRow, Records
<1>2. \A r \in scav'.todo \cup ({scav'.acking} \ {NoRecord}) : upload'[r[2]].accepted
  <2>1. \A r \in scav'.todo \cup ({scav'.acking} \ {NoRecord}) :
          r \in scav.todo \cup ({scav.acking} \ {NoRecord}) /\ r[2] \in Media
    BY <1>1
  <2> QED BY <2>1 DEF ScavengerKnows, GoesOn
<1>3. ASSUME NEW r \in scav'.todo
      PROVE  /\ r[1] = "frame" => frame'[r[2]] # "held"
             /\ r[1] = "original" => original'[r[2]] # "held" /\ svc'[r[2]] \notin Before
             /\ r[1] = "temporary" =>
                  Detached(r[2])' /\ (svc'[r[2]] = "accepted" => Retired(r[2])')
  <2>1. r \in scav.todo /\ r[2] \in Media /\ GoesOn(r[2]) /\ upload[r[2]].accepted
    BY <1>1 DEF ScavengerKnows
  <2>2. r[1] = "temporary" =>
          Detached(r[2]) /\ (svc[r[2]] = "accepted" => Retired(r[2]))
    BY <2>1 DEF ScavengerKnows
  <2>3. r[1] = "temporary" =>
          Detached(r[2])' /\ (svc'[r[2]] = "accepted" => Retired(r[2])')
    BY <2>1, <2>2 DEF GoesOn
  <2>4. r[1] = "frame" => frame'[r[2]] # "held"
    BY <2>1 DEF ScavengerKnows, GoesOn
  <2>5. r[1] = "original" => original'[r[2]] # "held" /\ svc'[r[2]] \notin Before
    BY <2>1 DEF ScavengerKnows, GoesOn
  <2> QED BY <2>3, <2>4, <2>5
<1> QED BY <1>2, <1>3 DEF ScavengerKnows

-----------------------------------------------------------------------------
(* The bytes.  Only uploads that are not to be analysed lose them.         *)

OriginalIsSpare(m) ==
  /\ svc[m] = "accepted" => Retired(m)
  /\ Detached(m) \/ original[m] # "held"
FramesAreSpare(m) ==
  \/ frame[m] # "held"
  \/ Detached(m) /\ (svc[m] = "accepted" => Retired(m))
OnlySpareBytesGo ==
  /\ originals' \subseteq originals /\ frames' \subseteq frames
  /\ \A m \in Media : /\ m \in originals \ originals' => OriginalIsSpare(m)
                      /\ m \in frames \ frames' => FramesAreSpare(m)

(* Gentle steps that delete only spare bytes keep every promise about the  *)
(* bytes.                                                                  *)
LEMMA GentleBytes ==
  ASSUME StoreInv, TypeOK', Gentle, Calm, OnlySpareBytesGo, BytesInv,
         originals \subseteq Media, frames \subseteq Media
  PROVE  BytesInv'
<1>a. ASSUME NEW m \in Media
      PROVE  /\ AttemptAges(Owner[m]) /\ FactsAge(m) /\ CalmRequest(m)
             /\ upload'[m] = upload[m]
             /\ Detached(m) => Detached(m)'
             /\ Retired(m) => Retired(m)'
             /\ m \in originals \ originals' => OriginalIsSpare(m)
             /\ m \in frames \ frames' => FramesAreSpare(m)
  BY GentleKeepsUploads DEF StoreInv, Calm, OnlySpareBytesGo
<1>b. originals' \subseteq originals /\ frames' \subseteq frames
  BY DEF OnlySpareBytesGo
<1>1. BytesAreAccepted'
  BY <1>a, <1>b DEF BytesInv, BytesAreAccepted
<1>2. EveryByteHasARetentionFact'
  BY <1>a, <1>b DEF BytesInv, EveryByteHasARetentionFact, FactsAge
<1>3. AttachableBytesExist'
  <2> SUFFICES ASSUME NEW m \in Media, svc'[m] = "accepted", ~Retired(m)'
               PROVE  m \in originals' /\ (frame'[m] = "held" => m \in frames')
    BY DEF AttachableBytesExist
  <2>1. svc[m] = "accepted" /\ ~Retired(m)
    BY <1>a DEF CalmRequest
  <2>2. m \in originals /\ (frame[m] = "held" => m \in frames)
    BY <2>1 DEF BytesInv, AttachableBytesExist
  <2>3. ~OriginalIsSpare(m) /\ (frame[m] = "held" => ~FramesAreSpare(m))
    BY <2>1 DEF OriginalIsSpare, FramesAreSpare
  <2> QED BY <1>a, <2>2, <2>3 DEF FactsAge
<1>4. ReferencedBytesSurvive'
  <2> SUFFICES ASSUME NEW a \in Attempts, NEW m \in Media,
                      Active(a)', attempt'[a].status \in Analysable, attempt'[a].media = m,
                      original'[m] = "held", frame'[m] = "held"
               PROVE  m \in originals' /\ m \in frames'
    BY DEF ReferencedBytesSurvive, Analysable
  <2>1. AttemptAges(a) /\ m # NoMedia
    BY StoreAssumption DEF Gentle
  <2>2. /\ Active(a) /\ attempt[a].status \in Analysable /\ attempt[a].media = m
    BY <2>1 DEF AttemptAges, Active, Analysable
  <2>3. original[m] = "held" /\ frame[m] = "held"
    BY <1>a DEF FactsAge
  <2>4. m \in originals /\ m \in frames
    BY <2>2, <2>3 DEF BytesInv, ReferencedBytesSurvive, Analysable
  <2>5. Owner[m] = a
    BY <2>2 DEF StoreInv, TrackingInv, Tracked, Analysable
  <2>6. ~OriginalIsSpare(m) /\ ~FramesAreSpare(m)
    BY <2>2, <2>3, <2>5 DEF OriginalIsSpare, FramesAreSpare, Detached, Active
  <2> QED BY <1>a, <2>4, <2>6
<1> QED BY <1>1, <1>2, <1>3, <1>4 DEF BytesInv

-----------------------------------------------------------------------------
(* The steps of each actor.                                                *)

(* A gentle step keeps the invariant if its actor keeps its own part.      *)
LEMMA GentleStep ==
  ASSUME DeliveryInv, [Next]_storeVars, Gentle, Calm, OnlySpareBytesGo,
         ActorsHaveWork', RuntimeKnows', ScavengerKnows', AcknowledgedAreGone'
  PROVE  DeliveryInv'
<1>1. StoreInv /\ StoreInv' /\ TypeOK /\ TypeOK'
  BY StoreInvStep DEF DeliveryInv, StoreInv
<1>2. RowsAgree' /\ RequestsKnow'
  BY <1>1, GentleRowsAgree, GentleRequestsKnow DEF DeliveryInv
<1>3. BytesInv'
  BY <1>1, GentleBytes DEF DeliveryInv, ActorsHaveWork
<1> QED BY <1>1, <1>2, <1>3 DEF DeliveryInv

(* A gentle step of somebody else: requests, runtime, scavenger and bytes  *)
(* stay as they are.                                                       *)
LEMMA ElsewhereStep ==
  ASSUME DeliveryInv, [Next]_storeVars, Gentle, UNCHANGED <<svc, exec, scav, byteVars>>,
         ActorsHaveWork'
  PROVE  DeliveryInv'
<1>1. TypeOK /\ TypeOK'
  BY StoreInvStep DEF DeliveryInv, StoreInv
<1>2. Calm
  BY DEF Calm, CalmRequest
<1>3. OnlySpareBytesGo
  BY DEF byteVars, OnlySpareBytesGo
<1>4. RuntimeKnows' /\ ScavengerKnows'
  <2>1. exec' = exec /\ scav' = scav /\ \A m \in Media : GoesOn(m)
    BY <1>1, <1>2, GentleGoesOn
  <2>2. /\ exec.media \in exec.todo \cup {exec.media, NoMedia}
        /\ exec.todo \subseteq exec.todo /\ exec.rollback \subseteq exec.rollback
        /\ scav.acking \in scav.todo \cup {scav.acking, NoRecord}
    OBVIOUS
  <2> QED BY <2>1, <2>2, RuntimeGoesOn, ScavengerGoesOn DEF DeliveryInv
<1>5. AcknowledgedAreGone'
  BY DEF DeliveryInv, AcknowledgedAreGone, byteVars
<1> QED BY <1>2, <1>3, <1>4, <1>5, GentleStep

(* The client's and the clock's steps.                                     *)
LEMMA ClientAndClockKeep ==
  ASSUME DeliveryInv, ClockStep \/ \E a \in Attempts : Create(a) \/ Delete(a)
  PROVE  DeliveryInv'
<1>1. /\ UNCHANGED <<volatileVars, byteVars>>
      /\ TypeOK /\ ActorsHaveWork
  BY DEF ClockStep, Deadline, AbandonedRowExpires, AbandonedLeaseExpires,
         LeaseExpiresUnderHolder, Create, Delete, DeliveryInv, StoreInv
<1>2. [Next]_storeVars
  BY <1>1, OthersCallTheStore DEF Next
<1>3. CASE \E a \in Attempts : \/ Create(a) \/ Delete(a)
                               \/ AbandonedLeaseExpires(a) \/ LeaseExpiresUnderHolder(a)
  BY <1>1, <1>3, AttemptStepIsGentle, <1>2, ElsewhereStep
     DEF Create, Delete, AbandonedLeaseExpires, LeaseExpiresUnderHolder, volatileVars,
         byteVars, ActorsHaveWork
<1>4. CASE \E m \in Media : Deadline(m)
  <2>1. Gentle
    BY <1>1, <1>4, DeadlineIsGentle DEF Deadline, InFlight
  <2> QED BY <1>1, <1>2, <2>1, ElsewhereStep DEF volatileVars, byteVars, ActorsHaveWork
<1>5. CASE \E m \in Media : AbandonedRowExpires(m)
  <2>1. Gentle
    BY <1>1, <1>5, RecoveryStepIsGentle DEF AbandonedRowExpires, RecoveryStep
  <2> QED BY <1>1, <1>2, <2>1, ElsewhereStep DEF volatileVars, byteVars, ActorsHaveWork
<1> QED BY <1>3, <1>4, <1>5 DEF ClockStep

(* A callback that lets go of its job, or changes where it stands, is      *)
(* still a callback with work or an idle one.                              *)
LEMMA SlotKept ==
  ASSUME ActorsHaveWork, NEW d \in Deliveries, NEW row \in SlotRow,
         row.pc # "idle" => row.media \in Media /\ row.lease \in Leases,
         slot' = [slot EXCEPT ![d] = row]
  PROVE  /\ slot' \in [Deliveries -> SlotRow]
         /\ \A e \in Deliveries : slot'[e].pc # "idle" =>
              slot'[e].media \in Media /\ slot'[e].lease \in Leases
BY DEF ActorsHaveWork

(* The workers' steps.                                                     *)
LEMMA WorkerKeeps ==
  ASSUME DeliveryInv, NEW d \in Deliveries, WorkerStep(d)
  PROVE  DeliveryInv'
<1>1. /\ UNCHANGED <<svc, exec, scav, byteVars>>
      /\ TypeOK /\ ActorsHaveWork
  BY DEF WorkerStep, Deliver, Process, RetryableFailure, FinalizeInternalFailure,
         ReleaseForRetry, DeliveryInv, StoreInv
<1>2. Gentle /\ [Next]_storeVars
  BY <1>1, WorkerCallsTheStore, ProcessingStepIsGentle, StutterIsGentle DEF Next
<1>3. slot[d] \in SlotRow
      /\ (slot[d].pc # "idle" => slot[d].media \in Media /\ slot[d].lease \in Leases)
  BY <1>1 DEF ActorsHaveWork
<1>a. IdleSlot \in SlotRow /\ IdleSlot.pc = "idle"
  BY DEF IdleSlot, SlotRow
<1>b. ASSUME NEW pc \in {"exhausted", "internal", "releasing"}, slot[d].pc # "idle"
      PROVE  /\ [slot[d] EXCEPT !.pc = pc] \in SlotRow
             /\ [slot[d] EXCEPT !.pc = pc].media = slot[d].media
             /\ [slot[d] EXCEPT !.pc = pc].lease = slot[d].lease
  BY <1>3 DEF SlotRow
<1>4. \/ UNCHANGED slot
      \/ slot' = [slot EXCEPT ![d] = IdleSlot]
      \/ \E pc \in {"exhausted", "internal", "releasing"} :
           slot[d].pc # "idle" /\ slot' = [slot EXCEPT ![d].pc = pc]
      \/ \E m \in Media, l \in Leases :
           slot' = [slot EXCEPT ![d] = [pc |-> "working", media |-> m, lease |-> l]]
  <2>1. CASE \E m \in Media : Deliver(d, m)
    BY <2>1, NextLeaseIsFresh DEF Deliver
  <2>2. CASE ~\E m \in Media : Deliver(d, m)
    BY <2>2 DEF WorkerStep, Process, RetryableFailure, FinalizeInternalFailure,
                ReleaseForRetry, Conclude, Rejected, Done, Slot
  <2> QED BY <2>1, <2>2
<1>5. /\ slot' \in [Deliveries -> SlotRow]
      /\ \A e \in Deliveries : slot'[e].pc # "idle" =>
           slot'[e].media \in Media /\ slot'[e].lease \in Leases
  <2>1. CASE UNCHANGED slot
    BY <1>1, <2>1 DEF ActorsHaveWork
  <2>2. CASE slot' = [slot EXCEPT ![d] = IdleSlot]
    BY <1>1, <1>a, <2>2, SlotKept
  <2>3. ASSUME NEW pc \in {"exhausted", "internal", "releasing"}, slot[d].pc # "idle",
               slot' = [slot EXCEPT ![d].pc = pc]
        PROVE  /\ slot' \in [Deliveries -> SlotRow]
               /\ \A e \in Deliveries : slot'[e].pc # "idle" =>
                    slot'[e].media \in Media /\ slot'[e].lease \in Leases
    BY <1>1, <1>3, <1>b, <2>3, SlotKept
  <2>4. ASSUME NEW m \in Media, NEW l \in Leases,
               slot' = [slot EXCEPT ![d] = [pc |-> "working", media |-> m, lease |-> l]]
        PROVE  /\ slot' \in [Deliveries -> SlotRow]
               /\ \A e \in Deliveries : slot'[e].pc # "idle" =>
                    slot'[e].media \in Media /\ slot'[e].lease \in Leases
    <3>1. /\ [pc |-> "working", media |-> m, lease |-> l] \in SlotRow
          /\ [pc |-> "working", media |-> m, lease |-> l].media = m
          /\ [pc |-> "working", media |-> m, lease |-> l].lease = l
      BY DEF SlotRow
    <3> QED BY <1>1, <2>4, <3>1, SlotKept
  <2> QED BY <1>4, <2>1, <2>2, <2>3, <2>4
<1>6. ActorsHaveWork'
  BY <1>1, <1>5 DEF ActorsHaveWork, byteVars
<1> QED BY <1>1, <1>2, <1>6, ElsewhereStep

(* Taking an attachment back is gentle when no request or worker counts on *)
(* it.                                                                     *)
LEMMA RollbackIsGentle ==
  ASSUME TypeOK, NEW m \in Media, RollbackMediaAttachment(m), svc'[m] \notin Handed
  PROVE  Gentle
<1>a. /\ Owner[m] \in Attempts /\ NoMedia \notin Media
      /\ attempt \in [Attempts -> AttemptRow]
      /\ \A b \in Attempts : attempt[b].generation \in Nat
      /\ delivery \in [Media -> DeliveryRow]
  BY StoreAssumption DEF TypeOK, AttemptRow
<1>1. /\ attempt[Owner[m]].media = m /\ delivery[m].rollback /\ delivery[m].state # "absent"
      /\ UNCHANGED <<upload, transition, frame>>
  BY DEF RollbackMediaAttachment, RollbackAllowed, Attached
<1>2. /\ attempt'[Owner[m]].media = NoMedia
      /\ attempt'[Owner[m]].status = "awaiting-upload"
      /\ attempt'[Owner[m]].generation = attempt[Owner[m]].generation
      /\ attempt'[Owner[m]].deletion = attempt[Owner[m]].deletion
      /\ \A b \in Attempts : b # Owner[m] => attempt'[b] = attempt[b]
  BY <1>a DEF RollbackMediaAttachment, AttemptRow
<1>3. ASSUME NEW b \in Attempts PROVE AttemptAges(b)
  BY <1>a, <1>1, <1>2 DEF AttemptAges, Analysable
<1>4. /\ delivery'[m].state \in {"cleanup-recoverable", "resolved"}
      /\ delivery'[m].rollback = delivery[m].rollback
      /\ \A x \in Media : x # m => delivery'[x] = delivery[x]
  BY <1>a DEF RollbackMediaAttachment, DeliveryRow
<1>5. ASSUME NEW x \in Media PROVE RecordAges(x)
  <2>1. Detached(m)' /\ FlagsTell(m)'
    BY <1>a, <1>2 DEF Detached, FlagsTell
  <2> QED BY <1>1, <1>4, <2>1, LeasedRecordAges DEF RecordAges
<1>6. ASSUME NEW x \in Media PROVE FactsAge(x)
  BY <1>1 DEF RollbackMediaAttachment, TypeOK, RetentionRow, FactsAge
<1> QED BY <1>1, <1>3, <1>5, <1>6 DEF Gentle

(* So is making a failed attachment recoverable.                           *)
LEMMA BeginIsGentle ==
  ASSUME TypeOK, RowsAgree, RequestsKnow, NEW m \in Media, BeginMediaAttachmentRecovery(m),
         svc[m] \in {"begin", "begin-job"}, svc'[m] \notin Handed \cup Before
  PROVE  Gentle
<1>a. /\ Owner[m] \in Attempts /\ NoMedia \notin Media
      /\ attempt \in [Attempts -> AttemptRow]
      /\ \A b \in Attempts : attempt[b].generation \in Nat
      /\ delivery \in [Media -> DeliveryRow]
      /\ \A x \in Media : upload[x].generation \in Nat
      /\ transition \in [Media -> RetentionRow] /\ frame \in [Media -> RetentionRow]
  BY StoreAssumption DEF TypeOK, AttemptRow
<1>b. /\ BeginRecoveryAllowed(m) /\ UNCHANGED <<upload, original>>
      /\ Active(Owner[m]) /\ upload[m].accepted
  BY DEF BeginMediaAttachmentRecovery, BeginRecoveryAllowed
<1>1. CASE svc[m] = "begin-job"
  <2>1. attempt[Owner[m]].media = m
    BY <1>1 DEF RequestsKnow, Handed
  <2>2. ~Unattached(m)
    BY <1>a, <2>1 DEF RowsAgree, Unattached
  <2>3. /\ UNCHANGED <<attempt, retentionVars>>
        /\ delivery' = [delivery EXCEPT ![m].state = "cleanup-recoverable",
                                        ![m].leased = "no"]
    BY <1>b, <2>2 DEF BeginMediaAttachmentRecovery, retentionVars
  <2>4. /\ delivery'[m].state = "cleanup-recoverable"
        /\ delivery'[m].rollback = delivery[m].rollback
        /\ delivery'[m].queuedAt = delivery[m].queuedAt
        /\ delivery'[m].rolledBack = delivery[m].rolledBack
        /\ \A x \in Media : x # m => delivery'[x] = delivery[x]
    BY <1>a, <2>3 DEF DeliveryRow
  <2>5. delivery[m].state \in Undelivered
    <3>1. delivery[m].state \notin {"absent", "cleanup-recoverable", "resolved"}
      <4>1. RowsOf(m) \subseteq {m} /\ RowsOf(m) # {}
        BY <1>b, <2>2 DEF BeginRecoveryAllowed
      <4>2. delivery[m].state # "absent"
        BY <4>1 DEF RowsOf
      <4>3. delivery[m].state \notin {"cleanup-recoverable", "resolved"}
        BY <1>1, <1>b DEF RequestsKnow, Handed, Active
      <4> QED BY <4>2, <4>3
    <3> QED BY <1>a, <3>1 DEF DeliveryRow, DeliveryStates, Undelivered
  <2>6. FlagsTell(m)'
    BY <2>4, <2>5 DEF RowsAgree, Undelivered, FlagsTell
  <2>7. RecordAges(m)
    BY <2>4, <2>5, <2>6 DEF RecordAges, Undelivered
  <2>8. \A x \in Media : RecordAges(x)
    BY <2>4, <2>7, LeasedRecordAges
  <2> QED BY <1>b, <2>3, <2>8, SameAttemptsAge, SameFactsAge DEF Gentle
<1>2. CASE svc[m] = "begin"
  <2>1. attempt[Owner[m]].media # m /\ delivery[m].state = "absent"
    BY <1>2 DEF RequestsKnow, Before
  <2>2. RowsOf(m) = {}
    BY <1>b, <2>1 DEF BeginRecoveryAllowed, RowsOf
  <2>3. /\ attempt[Owner[m]].generation + 1 = upload[m].generation
        /\ attempt' = [attempt EXCEPT ![Owner[m]].generation = upload[m].generation]
        /\ transition' = Requested(transition, Owner[m])
        /\ frame' = Requested(frame, Owner[m])
    BY <2>1, <2>2 DEF BeginMediaAttachmentRecovery, Attached, Unattached
  <2>4. delivery' = [delivery EXCEPT ![m] = [NoRow EXCEPT !.state = "cleanup-recoverable"]]
    BY <1>a, <2>1 DEF BeginMediaAttachmentRecovery, Attached
  <2>5. /\ attempt'[Owner[m]].generation = upload[m].generation
        /\ attempt'[Owner[m]].media = attempt[Owner[m]].media
        /\ attempt'[Owner[m]].status = attempt[Owner[m]].status
        /\ attempt'[Owner[m]].deletion = attempt[Owner[m]].deletion
        /\ \A b \in Attempts : b # Owner[m] => attempt'[b] = attempt[b]
    BY <1>a, <2>3 DEF AttemptRow
  <2>6. ASSUME NEW b \in Attempts PROVE AttemptAges(b)
    BY <1>a, <2>3, <2>5 DEF AttemptAges
  <2>7. /\ delivery'[m].state = "cleanup-recoverable"
        /\ ~delivery'[m].rolledBack
        /\ \A x \in Media : x # m => delivery'[x] = delivery[x]
    BY <1>a, <2>4 DEF NoRow
  <2>8. ASSUME NEW x \in Media PROVE RecordAges(x)
    <3>1. FlagsTell(m)'
      BY <2>1, <2>5 DEF FlagsTell, Detached
    <3> QED BY <1>b, <2>7, <3>1, LeasedRecordAges DEF RecordAges
  <2>9. ASSUME NEW x \in Media PROVE FactsAge(x)
    <3>1. \A rows \in [Media -> RetentionRow] :
            /\ Requested(rows, Owner[m])[x] # "none" <=> rows[x] # "none"
            /\ Requested(rows, Owner[m])[x] = "held" => rows[x] = "held"
            /\ Requested(rows, Owner[m])[x] = "due" => rows[x] = "due" \/ Owner[x] = Owner[m]
      BY RequestedFacts
    <3>2. Owner[x] = Owner[m] => Retired(x)'
      BY <1>a, <1>b, <2>3, <2>5 DEF RowsAgree, Retired
    <3> QED BY <1>a, <1>b, <2>3, <3>1, <3>2 DEF FactsAge
  <2> QED BY <1>b, <2>6, <2>8, <2>9 DEF Gentle
<1> QED BY <1>1, <1>2

ExecHasWork ==
  /\ exec \in ExecRow
  /\ exec.pc \in {"reack", "clean", "ack"} => exec.media \in Media

(* A gentle step of the runtime that leaves it knowing what it acts on     *)
(* keeps the invariant.                                                    *)
LEMMA RuntimeStepKeeps ==
  ASSUME DeliveryInv, RuntimeStep, Gentle, OnlySpareBytesGo, ExecHasWork', RuntimeKnows',
         exec'.pc = "ack" => exec'.media \notin originals' \cup frames'
  PROVE  DeliveryInv'
<1>1. UNCHANGED <<svc, slot, scav>>
  BY DEF RuntimeStep, StartRun, AcknowledgeRedelivery, StartCleanup, ReconcileCleanup,
         ReconcileAcknowledge, Redeliver, ReconcileRollback, Ran
<1>2. [Next]_storeVars
  BY RuntimeCallsTheStore DEF DeliveryInv, Next
<1>3. Calm
  BY <1>1 DEF Calm, CalmRequest
<1>4. TypeOK /\ TypeOK'
  BY <1>2, StoreInvStep DEF DeliveryInv, StoreInv
<1>5. ScavengerKnows'
  <2>1. scav' = scav /\ \A m \in Media : GoesOn(m)
    BY <1>1, <1>3, <1>4, GentleGoesOn
  <2> QED BY <2>1, ScavengerGoesOn DEF DeliveryInv
<1>6. ActorsHaveWork'
  BY <1>1 DEF DeliveryInv, ActorsHaveWork, ExecHasWork, OnlySpareBytesGo
<1>7. AcknowledgedAreGone'
  BY <1>1 DEF DeliveryInv, AcknowledgedAreGone, OnlySpareBytesGo
<1> QED BY <1>2, <1>3, <1>5, <1>6, <1>7, GentleStep

(* The rows still to reconcile are those claimed, or none.                 *)
LEMMA RecoveringRow ==
  ASSUME NEW todo \in SUBSET Media, NEW rollback \in SUBSET Media,
         Recovering(todo, rollback)
  PROVE  /\ ExecHasWork'
         /\ exec'.pc \in {"idle", "recover"} /\ exec'.media = NoMedia
         /\ exec'.pc = "idle" => exec' = IdleExec
         /\ exec'.pc = "recover" => exec'.todo = todo /\ exec'.rollback = rollback
<1>1. CASE todo = {}
  BY <1>1 DEF Recovering, IdleExec, ExecHasWork, ExecRow
<1>2. CASE todo # {}
  <2>1. exec' = [pc |-> "recover", todo |-> todo, rollback |-> rollback, media |-> NoMedia]
    BY <1>2 DEF Recovering, IdleExec
  <2> QED BY <2>1 DEF ExecHasWork, ExecRow
<1> QED BY <1>1, <1>2

(* A runtime that is idle has nothing to know.                             *)
LEMMA IdleRuntimeKnows ==
  ASSUME exec' = IdleExec PROVE ExecHasWork' /\ RuntimeKnows'
<1>1. exec' = [pc |-> "idle", todo |-> {}, rollback |-> {}, media |-> NoMedia]
  BY DEF IdleExec
<1> QED BY <1>1 DEF ExecHasWork, ExecRow, RuntimeKnows

(* The cleanup claim, after which the runtime reconciles or is idle.       *)
LEMMA ClaimCleanupKeeps ==
  ASSUME DeliveryInv, RuntimeStep, ClaimCleanup, UNCHANGED <<svc, byteVars>>
  PROVE  DeliveryInv'
<1> DEFINE batch == Claimable(Recoverable)
<1>a. batch \in SUBSET Media
  BY DEF Claimable
<1>b. TypeOK /\ RowsAgree /\ RequestsKnow
  BY DEF DeliveryInv, StoreInv
<1>c. OnlySpareBytesGo
  BY DEF OnlySpareBytesGo, byteVars
<1>1. CASE exec' = IdleExec
  <2>1. Gentle
    BY <1>a, <1>b, RecoveryStepIsGentle, StutterIsGentle DEF ClaimCleanup, RecoveryStep
  <2>2. exec'.pc = "idle"
    BY <1>1 DEF IdleExec
  <2> QED BY <1>1, <1>c, <2>1, <2>2, IdleRuntimeKnows, RuntimeStepKeeps
<1>2. CASE exec' # IdleExec
  <2>1. /\ ClaimMediaAttachmentRecovery(batch)
        /\ Recovering(batch, {m \in batch : delivery[m].rollback})
    BY <1>2 DEF ClaimCleanup
  <2>2. Gentle
    BY <1>a, <1>b, <2>1, RecoveryStepIsGentle DEF RecoveryStep
  <2>3. /\ ExecHasWork' /\ exec'.pc = "recover" /\ exec'.media = NoMedia
        /\ exec'.todo = batch /\ exec'.rollback = {m \in batch : delivery[m].rollback}
    BY <1>2, <1>a, <2>1, RecoveringRow
  <2>4. /\ UNCHANGED <<upload, attempt>>
        /\ \A m \in batch : Projectable(delivery[m])
    BY <2>1 DEF ClaimMediaAttachmentRecovery, ClaimRows
  <2>5. RuntimeKnows'
    BY <1>b, <2>3, <2>4, RuntimeStartsOver DEF Recoverable
  <2> QED BY <1>c, <2>2, <2>3, <2>5, RuntimeStepKeeps
<1> QED BY <1>1, <1>2

(* The runtime's redelivery.                                               *)
LEMMA RedeliveryKeeps ==
  ASSUME DeliveryInv,
         \/ StartRun \/ StartCleanup \/ AcknowledgeRedelivery
         \/ \E m \in Media : Redeliver(m)
  PROVE  DeliveryInv'
<1>a. /\ RuntimeStep /\ UNCHANGED <<svc, byteVars>>
      /\ TypeOK /\ RowsAgree /\ RequestsKnow /\ RuntimeKnows /\ ActorsHaveWork
  BY DEF RuntimeStep, StartRun, StartCleanup, AcknowledgeRedelivery, Redeliver, Ran,
         DeliveryInv, StoreInv
<1>b. OnlySpareBytesGo
  BY <1>a DEF OnlySpareBytesGo, byteVars
<1>c. exec \in ExecRow /\ (exec.pc = "reack" => exec.media \in Media)
  BY <1>a DEF ActorsHaveWork
<1>1. CASE StartCleanup \/ (StartRun /\ ClaimCleanup)
  BY <1>1, <1>a, ClaimCleanupKeeps DEF StartCleanup
<1>2. CASE StartRun /\ ~ClaimCleanup
  <2> DEFINE batch == Claimable(Undelivered)
  <2>1. /\ ClaimMediaDeliveryRedelivery(batch) /\ batch \in SUBSET Media
        /\ exec' = [pc |-> "redeliver", todo |-> batch, rollback |-> {}, media |-> NoMedia]
    BY <1>2 DEF StartRun, IdleExec, Claimable
  <2>2. Gentle /\ UNCHANGED <<upload, attempt>>
    BY <1>a, <2>1, RecoveryStepIsGentle
       DEF RecoveryStep, ClaimMediaDeliveryRedelivery, ClaimRows
  <2>3. ExecHasWork' /\ exec'.pc = "redeliver"
    BY <2>1 DEF ExecHasWork, ExecRow
  <2>4. RuntimeKnows'
    BY <1>a, <2>1, <2>2, RuntimeStartsOver DEF Undelivered
  <2> QED BY <1>a, <1>b, <2>2, <2>3, <2>4, RuntimeStepKeeps
<1>3. CASE AcknowledgeRedelivery \/ \E m \in Media : Redeliver(m)
  <2>1. Gentle
    BY <1>3, <1>a, <1>c, RecoveryStepIsGentle, StutterIsGentle
       DEF AcknowledgeRedelivery, Redeliver, RecoveryStep
  <2>2. /\ exec'.todo \subseteq exec.todo /\ exec'.rollback \subseteq exec.rollback
        /\ exec'.media \in exec.todo \cup {exec.media, NoMedia}
        /\ exec'.pc \in {"redeliver", "reack"}
        /\ ExecHasWork'
    <3>1. CASE AcknowledgeRedelivery
      <4>1. exec' = [exec EXCEPT !.pc = "redeliver", !.media = NoMedia]
        BY <3>1 DEF AcknowledgeRedelivery
      <4> QED BY <1>c, <4>1 DEF ExecRow, ExecHasWork
    <3>2. ASSUME NEW m \in Media, Redeliver(m)
          PROVE  /\ exec'.todo \subseteq exec.todo /\ exec'.rollback \subseteq exec.rollback
                 /\ exec'.media \in exec.todo \cup {exec.media, NoMedia}
                 /\ exec'.pc \in {"redeliver", "reack"}
                 /\ ExecHasWork'
      <4>1. /\ m \in exec.todo /\ exec.pc = "redeliver"
            /\ \/ exec' = [exec EXCEPT !.pc = "reack", !.todo = @ \ {m}, !.media = m]
               \/ exec' = [exec EXCEPT !.todo = @ \ {m}]
        BY <3>2 DEF Redeliver
      <4>2. CASE exec' = [exec EXCEPT !.pc = "reack", !.todo = @ \ {m}, !.media = m]
        BY <1>c, <4>1, <4>2 DEF ExecRow, ExecHasWork
      <4>3. CASE exec' = [exec EXCEPT !.todo = @ \ {m}]
        BY <1>c, <4>1, <4>3 DEF ExecRow, ExecHasWork
      <4> QED BY <4>1, <4>2, <4>3
    <3> QED BY <1>3, <3>1, <3>2
  <2>3. \A m \in Media : GoesOn(m)
    <3>1. [Next]_storeVars
      BY <1>a, RuntimeCallsTheStore DEF Next
    <3>2. TypeOK' /\ Calm
      BY <1>a, <3>1, StoreInvStep DEF DeliveryInv, StoreInv, Calm, CalmRequest
    <3> QED BY <1>a, <2>1, <3>2, GentleGoesOn
  <2>4. RuntimeKnows'
    BY <1>a, <2>2, <2>3, RuntimeGoesOn
  <2> QED BY <1>a, <1>b, <2>1, <2>2, <2>4, RuntimeStepKeeps
<1> QED BY <1>1, <1>2, <1>3

(* What a gentle step of the runtime means for every upload.               *)
LEMMA RuntimeStepGoesOn ==
  ASSUME DeliveryInv, RuntimeStep, Gentle, UNCHANGED svc
  PROVE  \A m \in Media : GoesOn(m)
<1>1. [Next]_storeVars
  BY RuntimeCallsTheStore DEF DeliveryInv, Next
<1>2. TypeOK /\ TypeOK' /\ Calm
  BY <1>1, StoreInvStep DEF DeliveryInv, StoreInv, Calm, CalmRequest
<1> QED BY <1>2, GentleGoesOn

(* Going on with the rows that are left.                                   *)
LEMMA RecoveringKeeps ==
  ASSUME DeliveryInv, RuntimeStep, Gentle, OnlySpareBytesGo, UNCHANGED svc,
         exec.pc \in {"clean", "ack", "recover"},
         NEW todo \in SUBSET exec.todo, Recovering(todo, exec.rollback)
  PROVE  DeliveryInv'
<1>1. /\ todo \in SUBSET Media /\ exec.rollback \in SUBSET Media
      /\ ActorsHaveWork /\ RuntimeKnows
  BY DEF DeliveryInv, ActorsHaveWork, ExecRow
<1>2. /\ ExecHasWork'
      /\ exec'.pc \in {"idle", "recover"} /\ exec'.media = NoMedia
      /\ exec'.pc = "idle" => exec' = IdleExec
      /\ exec'.pc = "recover" => exec'.todo = todo /\ exec'.rollback = exec.rollback
  BY <1>1, RecoveringRow
<1>3. CASE exec' = IdleExec
  BY <1>2, <1>3, IdleRuntimeKnows, RuntimeStepKeeps
<1>4. CASE exec'.pc = "recover"
  <2>1. RuntimeKnows'
    BY <1>1, <1>2, <1>4, RuntimeStepGoesOn, RuntimeGoesOn
  <2> QED BY <1>2, <1>4, <2>1, RuntimeStepKeeps
<1> QED BY <1>2, <1>3, <1>4

(* Taking the attachment back, or having found that there is none.         *)
LEMMA ReconcileRollbackKeeps ==
  ASSUME DeliveryInv, NEW m \in Media, ReconcileRollback(m)
  PROVE  DeliveryInv'
<1>a. /\ RuntimeStep /\ UNCHANGED <<svc, byteVars>>
      /\ exec.pc = "recover" /\ m \in exec.todo
      /\ TypeOK /\ RowsAgree /\ RuntimeKnows /\ ActorsHaveWork
  BY DEF RuntimeStep, ReconcileRollback, Ran, DeliveryInv, StoreInv
<1>b. OnlySpareBytesGo
  BY <1>a DEF OnlySpareBytesGo, byteVars
<1>1. CASE Abandon(m)
  <2>1. Gentle
    BY <1>1, <1>a, RecoveryStepIsGentle DEF Abandon, RecoveryStep
  <2> QED BY <1>1, <1>a, <1>b, <2>1, RecoveringKeeps DEF Abandon
<1>2. CASE ~Abandon(m)
  <2>1. /\ exec' = [exec EXCEPT !.pc = "clean", !.todo = @ \ {m}, !.media = m]
        /\ \/ m \notin exec.rollback /\ UNCHANGED storeVars
           \/ m \in exec.rollback /\ RollbackMediaAttachment(m)
           \/ RolledBackAlready(m)
    BY <1>2 DEF ReconcileRollback
  <2>2. m \in exec.rollback => svc'[m] \notin Handed
    BY <1>a DEF RuntimeKnows
  <2>3. Gentle
    BY <1>a, <2>1, <2>2, RollbackIsGentle, StutterIsGentle DEF RolledBackAlready
  <2>4. Detached(m)'
    <3>1. CASE UNCHANGED storeVars /\ m \notin exec.rollback
      BY <1>a, <3>1 DEF RuntimeKnows, storeVars, Detached
    <3>2. CASE RolledBackAlready(m)
      BY <1>a, <3>2 DEF RowsAgree, RolledBackAlready, storeVars, Detached
    <3>3. CASE RollbackMediaAttachment(m)
      <4>1. attempt \in [Attempts -> AttemptRow] /\ Owner[m] \in Attempts /\ NoMedia # m
        BY <1>a, StoreAssumption DEF TypeOK
      <4>2. attempt'[Owner[m]].media = NoMedia
        BY <3>3, <4>1 DEF RollbackMediaAttachment, AttemptRow
      <4> QED BY <4>1, <4>2 DEF Detached
    <3> QED BY <2>1, <3>1, <3>2, <3>3
  <2>5. /\ exec'.pc = "clean" /\ exec'.media = m /\ ExecHasWork'
        /\ exec'.todo \subseteq exec.todo /\ exec'.rollback = exec.rollback
    BY <1>a, <2>1 DEF ActorsHaveWork, ExecRow, ExecHasWork
  <2>6. Detached(exec.media)'
    BY <2>4, <2>5 DEF Detached
  <2>7. RuntimeKnows'
    BY <1>a, <2>3, <2>5, <2>6, RuntimeStepGoesOn, RuntimeGoesOn
  <2> QED BY <1>a, <1>b, <2>3, <2>5, <2>7, RuntimeStepKeeps
<1> QED BY <1>1, <1>2

(* Deleting the bytes of an upload that is not attached.                   *)
LEMMA ReconcileCleanupKeeps ==
  ASSUME DeliveryInv, ReconcileCleanup
  PROVE  DeliveryInv'
<1> DEFINE m == exec.media
<1>a. /\ RuntimeStep /\ UNCHANGED svc
      /\ exec.pc = "clean" /\ m \in Media
      /\ TypeOK /\ RuntimeKnows /\ ActorsHaveWork
  BY DEF RuntimeStep, ReconcileCleanup, Ran, DeliveryInv, ActorsHaveWork, StoreInv
<1>b. OriginalIsSpare(m) /\ FramesAreSpare(m)
  <2>1. Detached(m) /\ svc[m] # "accepted"
    BY <1>a, StoreAssumption DEF RuntimeKnows, Before
  <2> QED BY <2>1 DEF OriginalIsSpare, FramesAreSpare
<1>c. OnlySpareBytesGo
  BY <1>b DEF ReconcileCleanup, DeleteBoth, DeleteSome, byteVars, OnlySpareBytesGo
<1> HIDE DEF m
<1>1. CASE Abandon(m)
  <2>1. Gentle
    BY <1>1, <1>a, RecoveryStepIsGentle DEF Abandon, RecoveryStep
  <2>2. exec.todo \ {m} \in SUBSET exec.todo
    OBVIOUS
  <2> QED BY <1>1, <1>a, <1>c, <2>1, <2>2, RecoveringKeeps DEF Abandon
<1>2. CASE ~Abandon(m)
  <2>1. DeleteBoth(m) /\ exec' = [exec EXCEPT !.pc = "ack"] /\ UNCHANGED storeVars
    BY <1>2 DEF ReconcileCleanup, m
  <2>2. Gentle
    BY <1>a, <2>1, StutterIsGentle
  <2>3. /\ exec'.pc = "ack" /\ exec'.media = exec.media /\ ExecHasWork'
        /\ exec'.todo = exec.todo /\ exec'.rollback = exec.rollback
    BY <1>a, <2>1 DEF ActorsHaveWork, ExecRow, ExecHasWork, m
  <2>4. RuntimeKnows'
    BY <1>a, <2>2, <2>3, RuntimeStepGoesOn, RuntimeGoesOn
  <2>5. exec'.media \notin originals' \cup frames'
    BY <2>1, <2>3 DEF DeleteBoth, m
  <2> QED BY <1>a, <1>c, <2>2, <2>3, <2>4, <2>5, RuntimeStepKeeps
<1> QED BY <1>1, <1>2

(* Acknowledging it.                                                       *)
LEMMA ReconcileAcknowledgeKeeps ==
  ASSUME DeliveryInv, ReconcileAcknowledge
  PROVE  DeliveryInv'
<1> DEFINE m == exec.media
<1>a. /\ RuntimeStep /\ UNCHANGED <<svc, byteVars>>
      /\ exec.pc = "ack" /\ m \in Media /\ m \notin originals \cup frames
      /\ TypeOK /\ Recovering(exec.todo, exec.rollback)
  BY DEF RuntimeStep, ReconcileAcknowledge, Ran, DeliveryInv, ActorsHaveWork, StoreInv,
         AcknowledgedAreGone
<1>b. OnlySpareBytesGo
  BY <1>a DEF OnlySpareBytesGo, byteVars
<1>1. \/ AcknowledgeMediaAttachmentCleanup(m) \/ ReleaseMediaAttachmentRecovery(m)
      \/ UNCHANGED storeVars
  BY DEF ReconcileAcknowledge, CleanedAlready
<1> HIDE DEF m
<1>2. Gentle
  BY <1>1, <1>a, AcknowledgeCleanupIsGentle, RecoveryStepIsGentle, StutterIsGentle
     DEF RecoveryStep
<1> QED BY <1>a, <1>b, <1>2, RecoveringKeeps

(* The runtime's steps.                                                    *)
LEMMA RuntimeKeeps == DeliveryInv /\ RuntimeStep => DeliveryInv'
BY RedeliveryKeeps, ReconcileRollbackKeeps, ReconcileCleanupKeeps, ReconcileAcknowledgeKeeps
   DEF RuntimeStep

(* The scavenger's.                                                        *)
LEMMA ScavengerKeeps ==
  ASSUME DeliveryInv, ScavengerStep
  PROVE  DeliveryInv'
<1>a. /\ UNCHANGED <<svc, exec, slot>>
      /\ TypeOK /\ RowsAgree /\ RequestsKnow /\ ScavengerKnows /\ ActorsHaveWork
      /\ AcknowledgedAreGone /\ RuntimeKnows
  BY DEF ScavengerStep, ListDue, DeleteDue, AcknowledgeDeleted, DeliveryInv, StoreInv
<1>b. [Next]_storeVars
  BY <1>a, OthersCallTheStore DEF Next
<1>c. scav \in ScavRow
  BY <1>a DEF ActorsHaveWork
<1>d. Calm /\ TypeOK'
  BY <1>a, <1>b, StoreInvStep DEF DeliveryInv, StoreInv, Calm, CalmRequest
<1>e. ASSUME Gentle PROVE (\A m \in Media : GoesOn(m)) /\ RuntimeKnows'
  <2>1. \A m \in Media : GoesOn(m)
    BY <1>a, <1>d, <1>e, GentleGoesOn
  <2>2. exec' = exec
    BY <1>a
  <2> QED BY <1>a, <2>1, <2>2, RuntimeGoesOn
<1>1. CASE ListDue
  <2>1. /\ UNCHANGED <<storeVars, byteVars>>
        /\ scav'.todo = Due /\ scav'.acking = NoRecord /\ scav' \in ScavRow
    BY <1>1, <1>c DEF ListDue, IdleScav, ScavRow, Due
  <2>2. Gentle /\ OnlySpareBytesGo
    BY <1>a, <2>1, StutterIsGentle DEF OnlySpareBytesGo, byteVars
  <2>3. ScavengerKnows'
    <3>1. ASSUME NEW r \in Due
          PROVE  /\ upload[r[2]].accepted
                 /\ r[1] = "frame" => frame[r[2]] # "held"
                 /\ r[1] = "original" => original[r[2]] # "held" /\ svc[r[2]] \notin Before
                 /\ r[1] = "temporary" =>
                      Detached(r[2]) /\ (svc[r[2]] = "accepted" => Retired(r[2]))
      <4>1. r[2] \in Media
        BY DEF Due, Records
      <4>2. \/ r[1] = "temporary" /\ transition[r[2]] = "due"
            \/ r[1] = "frame" /\ frame[r[2]] = "due"
            \/ r[1] = "original" /\ original[r[2]] = "due"
        BY DEF Due
      <4> QED BY <1>a, <4>1, <4>2 DEF RowsAgree, RequestsKnow, Detached
    <3>2. UNCHANGED <<attempt, upload, frame, original, svc>>
      BY <1>a, <2>1 DEF storeVars, retentionVars
    <3> QED BY <2>1, <3>1, <3>2 DEF ScavengerKnows, Detached, Retired
  <2>4. AcknowledgedAreGone'
    BY <1>a, <2>1 DEF AcknowledgedAreGone, byteVars
  <2>5. ActorsHaveWork'
    BY <1>a, <2>1 DEF ActorsHaveWork, byteVars
  <2> QED BY <1>b, <1>d, <1>e, <2>2, <2>3, <2>4, <2>5, GentleStep
<1>2. CASE AcknowledgeDeleted
  <2> DEFINE kind == scav.acking[1]
             m == scav.acking[2]
  <2>1. /\ UNCHANGED byteVars /\ m \in Media
        /\ scav'.todo = scav.todo /\ scav'.acking = NoRecord /\ scav' \in ScavRow
        /\ IF kind = "frame" THEN m \notin frames ELSE m \notin originals
        /\ AcknowledgeRetention(kind, m) \/ UNCHANGED storeVars
    BY <1>2, <1>a, <1>c DEF AcknowledgeDeleted, AcknowledgedAreGone, ScavRow, Records
  <2> HIDE DEF kind, m
  <2>2. Gentle /\ OnlySpareBytesGo
    BY <1>a, <2>1, AcknowledgeRetentionIsGentle, StutterIsGentle
       DEF OnlySpareBytesGo, byteVars
  <2>3. ScavengerKnows'
    BY <1>a, <1>e, <2>1, <2>2, ScavengerGoesOn
  <2>4. AcknowledgedAreGone'
    BY <1>a, <2>1 DEF AcknowledgedAreGone, byteVars
  <2>5. ActorsHaveWork'
    BY <1>a, <2>1 DEF ActorsHaveWork, byteVars
  <2> QED BY <1>b, <1>d, <1>e, <2>2, <2>3, <2>4, <2>5, GentleStep
<1>3. ASSUME NEW r \in Records, DeleteDue(r) PROVE DeliveryInv'
  <2>1. /\ UNCHANGED storeVars /\ r \in scav.todo /\ r[2] \in Media
        /\ scav'.todo \subseteq scav.todo /\ scav' \in ScavRow
    BY <1>3, <1>c DEF DeleteDue, ScavRow, Records
  <2>2. \/ Deleted(r) /\ scav'.acking = r
        \/ UNCHANGED byteVars /\ scav'.acking = NoRecord
    BY <1>3, <1>c DEF DeleteDue, ScavRow
  <2>3. Gentle
    BY <1>a, <2>1, StutterIsGentle
  <2>4. /\ r[1] = "frame" => FramesAreSpare(r[2])
        /\ r[1] # "frame" => OriginalIsSpare(r[2])
    <3>1. r[1] \in {"temporary", "frame", "original"}
      BY DEF Records
    <3> QED BY <1>a, <2>1, <3>1 DEF ScavengerKnows, FramesAreSpare, OriginalIsSpare, Before
  <2>5. OnlySpareBytesGo
    BY <2>1, <2>2, <2>4 DEF Deleted, OnlySpareBytesGo, byteVars
  <2>6. ScavengerKnows'
    BY <1>a, <1>e, <2>1, <2>2, <2>3, ScavengerGoesOn
  <2>7. AcknowledgedAreGone'
    <3>1. originals' \subseteq originals /\ frames' \subseteq frames
      BY <2>5 DEF OnlySpareBytesGo
    <3> QED BY <1>a, <2>2, <3>1 DEF AcknowledgedAreGone, Deleted
  <2>8. ActorsHaveWork'
    BY <1>a, <2>1, <2>5 DEF ActorsHaveWork, OnlySpareBytesGo
  <2> QED BY <1>b, <1>d, <1>e, <2>3, <2>5, <2>6, <2>7, <2>8, GentleStep
<1> QED BY <1>1, <1>2, <1>3 DEF ScavengerStep

(* A crash: whatever was in flight is gone, and the rows are as they were. *)
LEMMA CrashKeeps ==
  ASSUME DeliveryInv, Crash
  PROVE  DeliveryInv'
<1>a. /\ UNCHANGED <<storeVars, byteVars>>
      /\ exec' = IdleExec /\ scav' = IdleScav
      /\ TypeOK /\ ActorsHaveWork
  BY DEF Crash, DeliveryInv, StoreInv
<1>1. Gentle /\ OnlySpareBytesGo
  BY <1>a, StutterIsGentle DEF OnlySpareBytesGo, byteVars
<1>2. /\ svc' \in [Media -> {"idle"} \cup InFlight \cup Answers]
      /\ \A m \in Media : svc'[m] \in {svc[m], "gone"} /\ svc'[m] \notin {"cleanup", "ack"}
  BY <1>a DEF Crash, ActorsHaveWork, InFlight, Answers
<1>3. Calm
  BY <1>2 DEF Calm, CalmRequest, Unattachable, Before, Handed
<1>4. ScavengerKnows' /\ scav' \in ScavRow /\ scav'.acking = NoRecord
  BY <1>a DEF IdleScav, ScavRow, ScavengerKnows
<1>5. ExecHasWork' /\ RuntimeKnows' /\ exec'.pc = "idle"
  BY <1>a, IdleRuntimeKnows DEF IdleExec
<1>6. AcknowledgedAreGone'
  BY <1>2, <1>4, <1>5 DEF AcknowledgedAreGone
<1>7. /\ slot' \in [Deliveries -> SlotRow]
      /\ \A d \in Deliveries : slot'[d].pc = "idle"
  BY DEF Crash, IdleSlot, SlotRow
<1>8. ActorsHaveWork'
  BY <1>a, <1>2, <1>4, <1>5, <1>7 DEF ActorsHaveWork, ExecHasWork, byteVars
<1> QED BY <1>a, <1>1, <1>3, <1>4, <1>5, <1>6, <1>8, GentleStep

-----------------------------------------------------------------------------
(* The service's steps.                                                    *)

(* A gentle step of a request that only moves on keeps the invariant.      *)
LEMMA ServiceStepKeeps ==
  ASSUME DeliveryInv, NEW m \in Media, ServiceStep(m), Gentle, OnlySpareBytesGo,
         NEW pc \in InFlight \cup Answers, Goto(m, pc), CalmRequest(m),
         pc = "ack" => m \notin originals' \cup frames'
  PROVE  DeliveryInv'
<1>1. UNCHANGED <<slot, exec, scav>>
  BY DEF ServiceStep, Preflight, AcceptMultipart, AttachAcceptedMedia, Enqueue, MarkQueued,
         BeginCompensation, RollBack, CleanUp, AcknowledgeCleanup
<1>2. [Next]_storeVars
  BY ServiceCallsTheStore DEF Next
<1>3. TypeOK /\ TypeOK' /\ ActorsHaveWork
  BY <1>2, StoreInvStep DEF DeliveryInv, StoreInv
<1>4. /\ svc' \in [Media -> {"idle"} \cup InFlight \cup Answers]
      /\ svc'[m] = pc /\ \A x \in Media : x # m => svc'[x] = svc[x]
  BY <1>3 DEF Goto, ActorsHaveWork
<1>5. Calm
  BY <1>4 DEF Calm, CalmRequest
<1>6. exec' = exec /\ scav' = scav /\ \A x \in Media : GoesOn(x)
  BY <1>1, <1>3, <1>5, GentleGoesOn
<1>7. RuntimeKnows' /\ ScavengerKnows'
  <2>1. RuntimeKnows'
    BY <1>3, <1>6, RuntimeGoesOn DEF DeliveryInv
  <2>2. ScavengerKnows'
    BY <1>3, <1>6, ScavengerGoesOn DEF DeliveryInv
  <2> QED BY <2>1, <2>2
<1>8. ActorsHaveWork'
  BY <1>1, <1>3, <1>4 DEF ActorsHaveWork, OnlySpareBytesGo
<1>9. AcknowledgedAreGone'
  BY <1>1, <1>4 DEF DeliveryInv, AcknowledgedAreGone, OnlySpareBytesGo
<1> QED BY <1>2, <1>5, <1>7, <1>8, <1>9, GentleStep

(* Handing the job to the queue, and recording that.                       *)
LEMMA HandOverKeeps ==
  ASSUME DeliveryInv, NEW m \in Media, Enqueue(m) \/ MarkQueued(m)
  PROVE  DeliveryInv'
<1>a. ServiceStep(m) /\ TypeOK /\ UNCHANGED byteVars
  BY DEF ServiceStep, Enqueue, MarkQueued, DeliveryInv, StoreInv
<1>b. OnlySpareBytesGo
  BY <1>a DEF OnlySpareBytesGo, byteVars
<1>1. Gentle
  BY <1>a, RecoveryStepIsGentle, StutterIsGentle DEF Enqueue, MarkQueued, Call, MarkedAlready
<1>2. PICK pc \in {"mark", "begin-job", "done", "remark", "uncertain"} : Goto(m, pc)
  BY DEF Enqueue, MarkQueued, Call
<1>3. svc[m] \in Handed /\ svc'[m] = pc
  BY <1>2 DEF Enqueue, MarkQueued, Handed, Goto, DeliveryInv, ActorsHaveWork
<1>4. CalmRequest(m) /\ pc \in InFlight \cup Answers /\ pc # "ack"
  BY <1>3 DEF CalmRequest, Unattachable, Before, Handed, InFlight, Answers
<1> QED BY <1>a, <1>b, <1>1, <1>2, <1>4, ServiceStepKeeps

(* Making a failed attachment recoverable.                                 *)
LEMMA BeginKeeps ==
  ASSUME DeliveryInv, NEW m \in Media, BeginCompensation(m)
  PROVE  DeliveryInv'
<1>a. /\ ServiceStep(m) /\ TypeOK /\ RowsAgree /\ RequestsKnow /\ UNCHANGED byteVars
      /\ svc[m] \in {"begin", "begin-job"}
  BY DEF ServiceStep, BeginCompensation, DeliveryInv, StoreInv
<1>b. OnlySpareBytesGo
  BY <1>a DEF OnlySpareBytesGo, byteVars
<1> DEFINE pc == IF svc[m] = "begin-job" THEN "rollback" ELSE "cleanup"
<1>1. Goto(m, pc) /\ (BeginMediaAttachmentRecovery(m) \/ UNCHANGED storeVars)
  BY DEF BeginCompensation, Call
<1>2. svc'[m] = pc
  BY <1>1 DEF Goto, DeliveryInv, ActorsHaveWork
<1>3. Gentle
  <2>1. svc'[m] \notin Handed \cup Before
    BY <1>2 DEF Handed, Before
  <2> QED BY <1>1, <1>a, <2>1, BeginIsGentle, StutterIsGentle
<1>4. CalmRequest(m) /\ pc \in InFlight \cup Answers /\ pc # "ack"
  <2>1. svc[m] = "begin" => Detached(m)
    BY <1>a DEF RequestsKnow, Before, Detached
  <2>2. Detached(m) => Detached(m)'
    <3>1. TypeOK'
      BY <1>a, ServiceCallsTheStore, StoreInvStep DEF Next, DeliveryInv, StoreInv
    <3> QED BY <1>a, <1>3, <3>1, GentleKeepsUploads
  <2> QED BY <1>a, <1>2, <2>1, <2>2 DEF CalmRequest, Unattachable, Before, Handed, InFlight
<1> HIDE DEF pc
<1> QED BY <1>a, <1>b, <1>1, <1>3, <1>4, ServiceStepKeeps

(* Taking the attachment back.                                             *)
LEMMA RollBackKeeps ==
  ASSUME DeliveryInv, NEW m \in Media, RollBack(m)
  PROVE  DeliveryInv'
<1>a. /\ ServiceStep(m) /\ TypeOK /\ RowsAgree /\ UNCHANGED byteVars
      /\ svc[m] = "rollback"
  BY DEF ServiceStep, RollBack, DeliveryInv, StoreInv
<1>b. OnlySpareBytesGo
  BY <1>a DEF OnlySpareBytesGo, byteVars
<1>1. \/ /\ Goto(m, "cleanup")
         /\ RollbackMediaAttachment(m) \/ RolledBackAlready(m)
      \/ Goto(m, "refused") /\ UNCHANGED storeVars
  BY DEF RollBack, Call, AfterFailedRollback
<1>2. CASE Goto(m, "refused") /\ UNCHANGED storeVars
  <2>1. svc'[m] = "refused"
    BY <1>2 DEF Goto, DeliveryInv, ActorsHaveWork
  <2>2. CalmRequest(m) /\ "refused" \in InFlight \cup Answers
    BY <2>1 DEF CalmRequest, Unattachable, Before, Handed, Answers
  <2> QED BY <1>a, <1>b, <1>2, <2>2, StutterIsGentle, ServiceStepKeeps
<1>3. CASE /\ Goto(m, "cleanup")
           /\ RollbackMediaAttachment(m) \/ RolledBackAlready(m)
  <2>1. svc'[m] = "cleanup"
    BY <1>3 DEF Goto, DeliveryInv, ActorsHaveWork
  <2>2. Gentle
    <3>1. svc'[m] \notin Handed
      BY <2>1 DEF Handed
    <3> QED BY <1>3, <1>a, <3>1, RollbackIsGentle, StutterIsGentle DEF RolledBackAlready
  <2>3. Detached(m)'
    <3>1. CASE RolledBackAlready(m)
      BY <1>a, <3>1 DEF RowsAgree, RolledBackAlready, storeVars, Detached
    <3>2. CASE RollbackMediaAttachment(m)
      <4>1. attempt \in [Attempts -> AttemptRow] /\ Owner[m] \in Attempts /\ NoMedia # m
        BY <1>a, StoreAssumption DEF TypeOK
      <4>2. attempt'[Owner[m]].media = NoMedia
        BY <3>2, <4>1 DEF RollbackMediaAttachment, AttemptRow
      <4> QED BY <4>1, <4>2 DEF Detached
    <3> QED BY <1>3, <3>1, <3>2
  <2>4. CalmRequest(m) /\ "cleanup" \in InFlight \cup Answers
    BY <2>1, <2>3 DEF CalmRequest, Unattachable, Before, Handed, InFlight
  <2> QED BY <1>a, <1>b, <1>3, <2>2, <2>4, ServiceStepKeeps
<1> QED BY <1>1, <1>2, <1>3

(* Deleting the bytes of an upload that is not attached, and acknowledging *)
(* that.                                                                   *)
LEMMA CleanUpKeeps ==
  ASSUME DeliveryInv, NEW m \in Media, CleanUp(m) \/ AcknowledgeCleanup(m)
  PROVE  DeliveryInv'
<1>a. /\ ServiceStep(m) /\ TypeOK /\ RequestsKnow /\ AcknowledgedAreGone
  BY DEF ServiceStep, DeliveryInv, StoreInv
<1>1. CASE CleanUp(m)
  <2>1. PICK pc \in {"ack", "refused"} :
          /\ Goto(m, pc) /\ svc'[m] = pc
          /\ pc = "ack" => DeleteBoth(m)
    BY <1>1 DEF CleanUp, Goto, DeliveryInv, ActorsHaveWork
  <2>2. svc[m] = "cleanup" /\ UNCHANGED storeVars
    BY <1>1 DEF CleanUp
  <2>3. OriginalIsSpare(m) /\ FramesAreSpare(m)
    BY <1>a, <2>2 DEF RequestsKnow, OriginalIsSpare, FramesAreSpare
  <2>4. OnlySpareBytesGo
    BY <1>1, <2>3 DEF CleanUp, DeleteBoth, DeleteSome, OnlySpareBytesGo
  <2>5. CalmRequest(m) /\ pc \in InFlight \cup Answers
    BY <2>1, <2>2 DEF CalmRequest, Unattachable, Before, Handed, InFlight, Answers
  <2>6. pc = "ack" => m \notin originals' \cup frames'
    BY <2>1 DEF DeleteBoth
  <2> QED BY <1>a, <2>1, <2>2, <2>4, <2>5, <2>6, StutterIsGentle, ServiceStepKeeps
<1>2. CASE AcknowledgeCleanup(m)
  <2>1. /\ Goto(m, "refused") /\ svc'[m] = "refused"
        /\ AcknowledgeMediaAttachmentCleanup(m) \/ UNCHANGED storeVars
        /\ m \notin originals \cup frames /\ UNCHANGED byteVars
    BY <1>2, <1>a
       DEF AcknowledgeCleanup, Call, CleanedAlready, Goto, AcknowledgedAreGone, DeliveryInv,
           ActorsHaveWork
  <2>2. Gentle /\ OnlySpareBytesGo
    BY <1>a, <2>1, AcknowledgeCleanupIsGentle, StutterIsGentle
       DEF OnlySpareBytesGo, byteVars
  <2>3. CalmRequest(m) /\ "refused" \in InFlight \cup Answers
    BY <2>1 DEF CalmRequest, Unattachable, Before, Handed, Answers
  <2> QED BY <1>a, <2>1, <2>2, <2>3, ServiceStepKeeps
<1> QED BY <1>1, <1>2

(* A step that is not gentle keeps the invariant if the rows, the requests *)
(* and the bytes still agree, and every other upload goes on.              *)
LEMMA LoudStep ==
  ASSUME DeliveryInv, NEW m \in Media, ServiceStep(m), NEW pc \in InFlight, Goto(m, pc),
         RowsAgree', RequestsKnow', BytesInv', AcknowledgedAreGone',
         originals' \subseteq Media, frames' \subseteq Media,
         \A x \in Media : GoesOn(x)
  PROVE  DeliveryInv'
<1>1. UNCHANGED <<slot, exec, scav>>
  BY DEF ServiceStep, Preflight, AcceptMultipart, AttachAcceptedMedia, Enqueue, MarkQueued,
         BeginCompensation, RollBack, CleanUp, AcknowledgeCleanup
<1>2. StoreInv' /\ ActorsHaveWork
  BY ServiceCallsTheStore, StoreInvStep DEF Next, DeliveryInv
<1>3. exec' = exec /\ scav' = scav
  BY <1>1
<1>4. RuntimeKnows'
  BY <1>2, <1>3, RuntimeGoesOn DEF DeliveryInv
<1>5. ScavengerKnows'
  BY <1>2, <1>3, ScavengerGoesOn DEF DeliveryInv
<1>6. ActorsHaveWork'
  BY <1>1, <1>2 DEF ActorsHaveWork, Goto
<1> QED BY <1>2, <1>4, <1>5, <1>6 DEF DeliveryInv

(* Preparing an upload.                                                    *)
LEMMA PreflightKeeps ==
  ASSUME DeliveryInv, NEW m \in Media, Preflight(m)
  PROVE  DeliveryInv'
<1>a. /\ ServiceStep(m) /\ RowsAgree /\ RequestsKnow /\ BytesInv /\ AcknowledgedAreGone
      /\ UNCHANGED <<attempt, delivery, transition, frame, original, exec, scav, byteVars>>
      /\ svc[m] = "idle" /\ Goto(m, "prepared") /\ "prepared" \in InFlight
  BY DEF ServiceStep, Preflight, PrepareMediaUpload, retentionVars, DeliveryInv, InFlight
<1>b. /\ attempt[Owner[m]].generation \in Nat
      /\ svc'[m] = "prepared" /\ \A x \in Media : x # m => svc'[x] = svc[x]
      /\ upload'[m].generation = attempt[Owner[m]].generation + 1
      /\ upload'[m].accepted = upload[m].accepted
      /\ \A x \in Media : x # m => upload'[x] = upload[x]
      /\ originals \subseteq Media /\ frames \subseteq Media
  <2>1. /\ upload \in [Media -> [generation : Nat, accepted : BOOLEAN]]
        /\ attempt \in [Attempts -> AttemptRow] /\ Owner[m] \in Attempts
    BY StoreAssumption DEF DeliveryInv, StoreInv, TypeOK
  <2>2. attempt[Owner[m]].generation \in Nat
    BY <2>1 DEF AttemptRow
  <2>3. upload' = [upload EXCEPT ![m].generation = attempt[Owner[m]].generation + 1]
    BY DEF Preflight, PrepareMediaUpload
  <2>4. /\ upload'[m].generation = attempt[Owner[m]].generation + 1
        /\ upload'[m].accepted = upload[m].accepted
        /\ \A x \in Media : x # m => upload'[x] = upload[x]
    BY <2>1, <2>3
  <2> QED BY <1>a, <2>2, <2>4 DEF Goto, DeliveryInv, ActorsHaveWork
<1>c. ~upload[m].accepted
  BY <1>a DEF RequestsKnow, Unattachable
<1>d. \A x \in Media : (Detached(x)' <=> Detached(x)) /\ (x # m => (Retired(x)' <=> Retired(x)))
  BY <1>a, <1>b DEF Detached, Retired
<1>1. \A x \in Media : GoesOn(x)
  BY <1>a, <1>b, <1>c, <1>d DEF GoesOn, Before
<1>2. RowsAgree'
  BY <1>a, <1>b, <1>d DEF RowsAgree, FlagsTell
<1>3. RequestsKnow'
  BY <1>a, <1>b, <1>c, <1>d DEF RequestsKnow, Unattachable, Before, Handed
<1>4. BytesInv'
  BY <1>a, <1>b, <1>d
     DEF BytesInv, BytesAreAccepted, AttachableBytesExist, ReferencedBytesSurvive, Active,
         EveryByteHasARetentionFact, byteVars
<1>5. AcknowledgedAreGone'
  BY <1>a, <1>b DEF AcknowledgedAreGone, byteVars
<1> QED BY <1>a, <1>b, <1>1, <1>2, <1>3, <1>4, <1>5, LoudStep DEF byteVars

(* Accepting its bytes.                                                    *)
LEMMA AcceptKeeps ==
  ASSUME DeliveryInv, NEW m \in Media, AcceptMultipart(m)
  PROVE  DeliveryInv'
<1>a. /\ ServiceStep(m) /\ RowsAgree /\ RequestsKnow /\ BytesInv /\ AcknowledgedAreGone
      /\ RuntimeKnows /\ ScavengerKnows
      /\ UNCHANGED <<attempt, delivery, original, exec, scav>>
      /\ svc[m] = "prepared" /\ Goto(m, "accepted") /\ "accepted" \in InFlight
      /\ originals' = originals \cup {m} /\ frames' = frames \cup {m}
  BY DEF ServiceStep, AcceptMultipart, ScheduleRetention, DeliveryInv, InFlight
<1>b. /\ svc'[m] = "accepted" /\ \A x \in Media : x # m => svc'[x] = svc[x]
      /\ upload'[m].generation = upload[m].generation /\ upload'[m].accepted
      /\ \A x \in Media : x # m => upload'[x] = upload[x]
      /\ transition'[m] = "held" /\ \A x \in Media : x # m => transition'[x] = transition[x]
      /\ frame'[m] = "held" /\ \A x \in Media : x # m => frame'[x] = frame[x]
      /\ originals \subseteq Media /\ frames \subseteq Media
  BY <1>a
     DEF AcceptMultipart, ScheduleRetention, Goto, DeliveryInv, ActorsHaveWork, StoreInv,
         TypeOK
<1>c. /\ ~upload[m].accepted /\ attempt[Owner[m]].media # m
      /\ delivery[m].state = "absent" /\ original[m] = "none"
  BY <1>a DEF RequestsKnow, Unattachable, Before
<1>d. \A x \in Media : (Detached(x)' <=> Detached(x)) /\ (Retired(x)' <=> Retired(x))
  BY <1>a, <1>b DEF Detached, Retired
<1>1. \A x \in Media : GoesOn(x)
  BY <1>a, <1>b, <1>c, <1>d DEF GoesOn, Before
<1>2. RowsAgree'
  BY <1>a, <1>b, <1>c, <1>d DEF RowsAgree, FlagsTell
<1>3. RequestsKnow'
  BY <1>a, <1>b, <1>c, <1>d DEF RequestsKnow, Unattachable, Before, Handed
<1>4. BytesInv'
  <2>1. BytesAreAccepted' /\ EveryByteHasARetentionFact'
    BY <1>a, <1>b DEF BytesInv, BytesAreAccepted, EveryByteHasARetentionFact
  <2>2. AttachableBytesExist'
    BY <1>a, <1>b, <1>d DEF BytesInv, AttachableBytesExist
  <2>3. ReferencedBytesSurvive'
    BY <1>a, <1>b, <1>c DEF BytesInv, ReferencedBytesSurvive, Active
  <2> QED BY <2>1, <2>2, <2>3 DEF BytesInv
<1>5. AcknowledgedAreGone'
  <2>1. \A x \in Media : svc'[x] = "ack" => x \notin originals' \cup frames'
    BY <1>a, <1>b DEF AcknowledgedAreGone
  <2>2. exec.pc = "ack" => exec.media # m
    BY <1>c, <1>a, StoreAssumption DEF RuntimeKnows
  <2>3. scav.acking # NoRecord => scav.acking[2] # m
    BY <1>c, <1>a DEF ScavengerKnows
  <2> QED BY <1>a, <2>1, <2>2, <2>3 DEF AcknowledgedAreGone
<1> QED BY <1>a, <1>b, <1>1, <1>2, <1>3, <1>4, <1>5, LoudStep

(* Attaching it.                                                           *)
LEMMA AttachKeeps ==
  ASSUME DeliveryInv, NEW m \in Media, AttachAcceptedMedia(m)
  PROVE  DeliveryInv'
<1>a. /\ ServiceStep(m) /\ TypeOK /\ UNCHANGED byteVars
      /\ RowsAgree /\ RequestsKnow /\ BytesInv /\ AcknowledgedAreGone
      /\ UNCHANGED <<exec, scav, byteVars>> /\ svc[m] = "accepted"
      /\ originals \subseteq Media /\ frames \subseteq Media
  BY DEF ServiceStep, AttachAcceptedMedia, DeliveryInv, StoreInv, ActorsHaveWork
<1>1. CASE Goto(m, "begin") /\ UNCHANGED storeVars
  <2>1. svc'[m] = "begin"
    BY <1>1 DEF Goto, DeliveryInv, ActorsHaveWork
  <2>2. CalmRequest(m) /\ "begin" \in InFlight \cup Answers
    BY <1>a, <2>1 DEF CalmRequest, Unattachable, Before, Handed, InFlight
  <2>3. OnlySpareBytesGo
    BY <1>a DEF OnlySpareBytesGo, byteVars
  <2> QED BY <1>1, <1>a, <2>2, <2>3, StutterIsGentle, ServiceStepKeeps
<1>2. CASE AttachPreparedMedia(m) /\ Goto(m, "enqueue")
  <2> DEFINE a == Owner[m]
  <2>a. /\ a \in Attempts /\ NoMedia \notin Media
        /\ attempt \in [Attempts -> AttemptRow]
        /\ \A b \in Attempts : attempt[b].generation \in Nat
        /\ \A x \in Media : upload[x].generation \in Nat /\ Owner[x] \in Attempts
        /\ svc \in [Media -> {"idle"} \cup InFlight \cup Answers]
    BY <1>a, StoreAssumption DEF TypeOK, AttemptRow, DeliveryInv, ActorsHaveWork
  <2>b. /\ upload[m].accepted /\ attempt[a].status = "awaiting-upload"
        /\ attempt[a].deletion = "active" /\ attempt[a].media = NoMedia
        /\ upload[m].generation = attempt[a].generation + 1
        /\ UNCHANGED <<upload, frame>>
    BY <1>2 DEF AttachPreparedMedia, AttachAllowed, AwaitingUpload, Active
  <2>c. /\ attempt'[a].media = m /\ attempt'[a].generation = upload[m].generation
        /\ attempt'[a].status = "uploaded" /\ attempt'[a].deletion = "active"
        /\ \A b \in Attempts : b # a => attempt'[b] = attempt[b]
    BY <1>2, <2>a, <2>b DEF AttachPreparedMedia, AttachedGeneration, AttemptRow
  <2>d. /\ original'[m] = "held" /\ \A x \in Media : x # m => original'[x] = original[x]
        /\ transition'[m] = "none" /\ \A x \in Media : x # m => transition'[x] = transition[x]
        /\ \A x \in Media : x # m => delivery'[x] = delivery[x]
        /\ delivery'[m] = [NoRow EXCEPT !.state = "pending-delivery", !.rollback = TRUE]
    BY <1>2, <1>a DEF AttachPreparedMedia, TypeOK
  <2>e. /\ delivery'[m].state = "pending-delivery" /\ delivery'[m].rollback
        /\ ~delivery'[m].rolledBack
    BY <2>d DEF NoRow
  <2>f. svc'[m] = "enqueue" /\ \A x \in Media : x # m => svc'[x] = svc[x]
    BY <1>2, <2>a DEF Goto
  <2>g. ~Retired(m) /\ transition[m] # "none"
    BY <1>2, <2>a, <2>b DEF AttachPreparedMedia, AttachAllowed, Retired
  <2>h. \A x \in Media : x # m => /\ Detached(x) => Detached(x)'
                                  /\ Retired(x) => Retired(x)'
                                  /\ Owner[x] = a => attempt'[Owner[x]].media # x
                                  /\ Owner[x] = a => attempt[Owner[x]].media # x
    BY <2>a, <2>b, <2>c DEF Detached, Retired
  <2>1. \A x \in Media : GoesOn(x)
    <3>1. GoesOn(m)
      BY <1>a, <2>b, <2>f, <2>g DEF GoesOn, Before
    <3>2. ASSUME NEW x \in Media, x # m PROVE GoesOn(x)
      BY <2>b, <2>d, <2>f, <2>h, <3>2 DEF GoesOn
    <3> QED BY <3>1, <3>2
  <2>2. RowsAgree'
    <3>1. \A b \in Attempts : attempt'[b].status \in {"absent", "awaiting-upload"} =>
            attempt'[b].media = NoMedia
      BY <1>a, <2>c DEF RowsAgree
    <3>2. ASSUME NEW x \in Media
          PROVE  upload'[x].generation <= attempt'[Owner[x]].generation + 1
      <4>1. upload[x].generation <= attempt[Owner[x]].generation + 1
        BY <1>a DEF RowsAgree
      <4>2. CASE Owner[x] = a
        BY <2>a, <2>b, <2>c, <4>1, <4>2
      <4>3. CASE Owner[x] # a
        BY <2>a, <2>b, <2>c, <4>1, <4>3
      <4> QED BY <4>2, <4>3
    <3>3. ASSUME NEW x \in Media
          PROVE  /\ ~upload'[x].accepted =>
                      /\ delivery'[x].state = "absent" /\ attempt'[Owner[x]].media # x
                      /\ transition'[x] = "none" /\ frame'[x] = "none"
                      /\ original'[x] = "none"
                 /\ transition'[x] # "none" => attempt'[Owner[x]].media # x
                 /\ delivery'[x].rolledBack => Detached(x)'
                 /\ delivery'[x].state = "pending-delivery" => delivery'[x].rollback
                 /\ delivery'[x].state = "queued" => delivery'[x].queuedAt
                 /\ delivery'[x].state = "cleanup-recoverable" => FlagsTell(x)'
      <4>1. CASE x = m
        BY <4>1, <2>b, <2>d, <2>e
      <4>2. CASE x # m
        <5>1. attempt[Owner[x]].media # x => attempt'[Owner[x]].media # x
          BY <2>a, <2>c, <2>h, <4>2
        <5> QED BY <1>a, <2>b, <2>d, <2>h, <4>2, <5>1 DEF RowsAgree, FlagsTell
      <4> QED BY <4>1, <4>2
    <3> QED BY <3>1, <3>2, <3>3 DEF RowsAgree
  <2>3. RequestsKnow'
    <3> SUFFICES ASSUME NEW x \in Media
        PROVE /\ svc'[x] \in Unattachable => ~upload'[x].accepted
              /\ svc'[x] \in Before =>
                   /\ delivery'[x].state = "absent" /\ original'[x] = "none"
                   /\ attempt'[Owner[x]].media # x
              /\ svc'[x] \in Handed =>
                   /\ attempt'[Owner[x]].media = x /\ ~delivery'[x].rolledBack
                   /\ delivery'[x].state \in {"cleanup-recoverable", "resolved"} =>
                        attempt'[Owner[x]].deletion = "tombstoned" /\ ~delivery'[x].rollback
              /\ svc'[x] \in {"cleanup", "ack"} => Detached(x)'
              /\ svc'[x] = "accepted" /\ transition'[x] = "due" => Retired(x)'
      BY DEF RequestsKnow
    <3>1. CASE x = m
      BY <3>1, <2>c, <2>e, <2>f DEF Unattachable, Before
    <3>2. CASE x # m
      <4>1. CASE Owner[x] = a
        BY <1>a, <2>b, <2>d, <2>f, <2>h, <3>2, <4>1 DEF RequestsKnow
      <4>2. CASE Owner[x] # a
        <5>1. attempt'[Owner[x]] = attempt[Owner[x]]
          BY <2>a, <2>c, <4>2
        <5> QED BY <1>a, <2>b, <2>d, <2>f, <2>h, <3>2, <5>1 DEF RequestsKnow
      <4> QED BY <4>1, <4>2
    <3> QED BY <3>1, <3>2
  <2>4. BytesInv'
    <3>0. originals' = originals /\ frames' = frames
      BY <1>a DEF byteVars
    <3>1. m \in originals /\ (frame[m] = "held" => m \in frames)
      BY <1>a, <2>g DEF BytesInv, AttachableBytesExist
    <3>2. BytesAreAccepted' /\ EveryByteHasARetentionFact'
      BY <1>a, <2>b, <2>d, <3>0
         DEF BytesInv, BytesAreAccepted, EveryByteHasARetentionFact
    <3>3. AttachableBytesExist'
      BY <1>a, <2>b, <2>f, <2>h, <3>0 DEF BytesInv, AttachableBytesExist
    <3>4. ReferencedBytesSurvive'
      <4> SUFFICES ASSUME NEW b \in Attempts, NEW x \in Media,
                          Active(b)', attempt'[b].status \in {"uploaded", "processing"},
                          attempt'[b].media = x, original'[x] = "held", frame'[x] = "held"
                   PROVE  x \in originals' /\ x \in frames'
        BY DEF ReferencedBytesSurvive
      <4>1. CASE x = m
        BY <4>1, <2>b, <3>0, <3>1
      <4>2. CASE x # m
        <5>1. attempt'[b] = attempt[b]
          BY <2>c, <4>2
        <5> QED BY <1>a, <2>b, <2>d, <3>0, <4>2, <5>1
              DEF BytesInv, ReferencedBytesSurvive, Active
      <4> QED BY <4>1, <4>2
    <3> QED BY <3>2, <3>3, <3>4 DEF BytesInv
  <2>5. AcknowledgedAreGone'
    BY <1>a, <2>f DEF AcknowledgedAreGone, byteVars
  <2>6. "enqueue" \in InFlight /\ originals' \subseteq Media /\ frames' \subseteq Media
    BY <1>a DEF InFlight, byteVars
  <2> QED BY <1>a, <1>2, <2>1, <2>2, <2>3, <2>4, <2>5, <2>6, LoudStep
<1> QED BY <1>1, <1>2 DEF AttachAcceptedMedia, Call

-----------------------------------------------------------------------------
(* The delivery's inductive invariant and what follows from it.            *)

(* An empty system satisfies the inductive invariant.                      *)
LEMMA DeliveryInvInit == DeliveryInit => DeliveryInv
<1> SUFFICES ASSUME DeliveryInit PROVE DeliveryInv
  OBVIOUS
<1>1. /\ Init /\ StoreInv
      /\ svc = [m \in Media |-> "idle"]
      /\ originals = {} /\ frames = {}
      /\ slot = [d \in Deliveries |-> IdleSlot]
      /\ exec = IdleExec /\ scav = IdleScav
  BY StoreInvInit DEF DeliveryInit
<1>2. /\ \A a \in Attempts : /\ attempt[a].media = NoMedia /\ attempt[a].generation = 0
                             /\ attempt[a].status = "absent"
      /\ \A m \in Media : /\ upload[m].generation = 0 /\ ~upload[m].accepted
                          /\ delivery[m].state = "absent" /\ ~delivery[m].rolledBack
                          /\ transition[m] = "none" /\ frame[m] = "none"
                          /\ original[m] = "none"
                          /\ svc[m] = "idle"
      /\ \A m \in Media : Owner[m] \in Attempts /\ m # NoMedia
  BY <1>1, StoreAssumption DEF Init, NoRow
<1>3. ActorsHaveWork
  BY <1>1 DEF ActorsHaveWork, IdleSlot, IdleExec, IdleScav, SlotRow, ExecRow, ScavRow
<1>4. RowsAgree
  BY <1>2 DEF RowsAgree
<1>5. RequestsKnow
  BY <1>2 DEF RequestsKnow, Unattachable, Before, Handed
<1>6. RuntimeKnows /\ ScavengerKnows
  BY <1>1 DEF RuntimeKnows, ScavengerKnows, IdleExec, IdleScav
<1>7. AcknowledgedAreGone
  BY <1>1 DEF AcknowledgedAreGone, IdleExec
<1>8. BytesInv
  BY <1>1, <1>2 DEF BytesInv, BytesAreAccepted, AttachableBytesExist,
                    ReferencedBytesSurvive, Active, EveryByteHasARetentionFact
<1> QED BY <1>1, <1>3, <1>4, <1>5, <1>6, <1>7, <1>8 DEF DeliveryInv

(* Every step of the delivery keeps the inductive invariant.               *)
LEMMA DeliveryInvStep == DeliveryInv /\ [DeliveryNext]_vars => DeliveryInv'
<1> SUFFICES ASSUME DeliveryInv, [DeliveryNext]_vars PROVE DeliveryInv'
  OBVIOUS
<1>1. ASSUME NEW m \in Media, ServiceStep(m) PROVE DeliveryInv'
  BY <1>1, PreflightKeeps, AcceptKeeps, AttachKeeps, HandOverKeeps, BeginKeeps, RollBackKeeps,
     CleanUpKeeps DEF ServiceStep
<1>2. CASE UNCHANGED vars
  <2>1. UNCHANGED <<storeVars, svc, exec, scav, byteVars, slot>>
    BY <1>2 DEF vars, volatileVars
  <2>2. Gentle
    BY <2>1, StutterIsGentle DEF DeliveryInv, StoreInv
  <2>3. ActorsHaveWork'
    BY <2>1 DEF DeliveryInv, ActorsHaveWork, byteVars
  <2> QED BY <2>1, <2>2, <2>3, ElsewhereStep
<1> QED BY <1>1, <1>2, ClientAndClockKeep, WorkerKeeps, RuntimeKeeps, ScavengerKeeps,
           CrashKeeps DEF DeliveryNext

(* The inductive invariant of the delivery: it holds for any number of     *)
(* attempts, uploads, workers, leases and faults.                          *)
THEOREM DeliveryInvariant == DeliverySpec => []DeliveryInv
<1>1. DeliveryInit => DeliveryInv
  BY DeliveryInvInit
<1>2. DeliveryInv /\ [DeliveryNext]_vars => DeliveryInv'
  BY DeliveryInvStep
<1> QED BY <1>1, <1>2, PTL DEF DeliverySpec

(* The bytes an attempt still has to be analysed from are on disk until    *)
(* their deadline, whatever compensation, recovery runtime and scavenger   *)
(* do meanwhile.                                                           *)
THEOREM AnalysableBytesSurvive == DeliverySpec => []ReferencedBytesSurvive
<1>1. DeliveryInv => ReferencedBytesSurvive
  BY DEF DeliveryInv, BytesInv
<1> QED BY <1>1, DeliveryInvariant, PTL

(* Every byte on disk has a retention fact that leads to its deletion.     *)
THEOREM BytesHaveRetentionFacts == DeliverySpec => []EveryByteHasARetentionFact
<1>1. DeliveryInv => EveryByteHasARetentionFact
  BY DEF DeliveryInv, BytesInv
<1> QED BY <1>1, DeliveryInvariant, PTL

(* Once a request handed its job to the queue, nobody takes the attachment *)
(* back under the worker.                                                  *)
THEOREM HandedOverStaysAttached == DeliverySpec => []EnqueuedNotWithdrawn
<1>1. DeliveryInv => EnqueuedNotWithdrawn
  BY DEF DeliveryInv, RequestsKnow, Handed, EnqueuedNotWithdrawn
<1> QED BY <1>1, DeliveryInvariant, PTL

(* The service, the workers, the recovery runtime and the scavenger use    *)
(* the store only through its operations: whatever is proved of the store  *)
(* under arbitrary callers holds of the delivery.                          *)
THEOREM DeliveryUsesTheStore == DeliverySpec => Spec
<1>1. DeliveryInit => Init
  BY DEF DeliveryInit
<1>2. DeliveryInv /\ [DeliveryNext]_vars => [Next]_storeVars
  BY DeliveryCallsTheStore DEF DeliveryInv
<1> QED BY <1>1, <1>2, DeliveryInvariant, PTL DEF DeliverySpec, Spec
=============================================================================
