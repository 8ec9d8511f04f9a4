------------------------- MODULE AttemptStoreProofs -------------------------
(***************************************************************************)
(* The attempt store's safety properties, for any number of attempts,      *)
(* uploads and leases.                                                     *)
(***************************************************************************)
EXTENDS AttemptStore, TLAPS

-----------------------------------------------------------------------------
(* Types of the row updates the operations share.                          *)

(* Changing the status of an attempt row (createAttempt) gives an attempt  *)
(* row.                                                                    *)
LEMMA StatusRow ==
  ASSUME NEW r \in AttemptRow, NEW s \in Statuses
  PROVE  [r EXCEPT !.status = s] \in AttemptRow
BY DEF AttemptRow

(* Letting the processing lease of an attempt row run out gives an attempt *)
(* row.                                                                    *)
LEMMA ExpiredRow ==
  ASSUME NEW r \in AttemptRow
  PROVE  [r EXCEPT !.live = FALSE] \in AttemptRow
BY DEF AttemptRow

(* Retiring the generation of an attempt row                               *)
(* (beginMediaAttachmentRecovery) gives an attempt row.                    *)
LEMMA GenerationRow ==
  ASSUME NEW r \in AttemptRow, NEW g \in Nat
  PROVE  [r EXCEPT !.generation = g] \in AttemptRow
BY DEF AttemptRow

(* Taking the media of an attempt row back (rollbackMediaAttachment) gives *)
(* an attempt row.                                                         *)
LEMMA DetachedRow ==
  ASSUME NEW r \in AttemptRow, NEW s \in Statuses
  PROVE  [r EXCEPT !.status = s, !.media = NoMedia] \in AttemptRow
<1> NoMedia \in Media \cup {NoMedia}
  OBVIOUS
<1> QED BY DEF AttemptRow

(* Attaching media under a generation (attachPreparedMedia) gives an       *)
(* attempt row.                                                            *)
LEMMA AttachedRow ==
  ASSUME NEW r \in AttemptRow, NEW s \in Statuses, NEW m \in Media, NEW g \in Nat
  PROVE  [r EXCEPT !.status = s, !.media = m, !.generation = g] \in AttemptRow
BY DEF AttemptRow

(* Taking or dropping the processing lease of an attempt row gives an      *)
(* attempt row.                                                            *)
LEMMA LeasedRow ==
  ASSUME NEW r \in AttemptRow, NEW s \in Statuses, NEW l \in Leases \cup {NoLease},
         NEW b \in BOOLEAN
  PROVE  [r EXCEPT !.status = s, !.lease = l, !.live = b] \in AttemptRow
BY DEF AttemptRow

(* Deleting an attempt (tombstoneAttempt) leaves an attempt row.           *)
LEMMA TombstonedRow ==
  ASSUME NEW r \in AttemptRow
  PROVE  [r EXCEPT !.deletion = "tombstoned", !.generation = @ + 1,
                   !.lease = NoLease, !.live = FALSE] \in AttemptRow
<1> DEFINE n == r.generation + 1
<1>1. n \in Nat
  BY DEF AttemptRow
<1> HIDE DEF n
<1>2. [r EXCEPT !.deletion = "tombstoned", !.generation = n,
                !.lease = NoLease, !.live = FALSE] \in AttemptRow
  BY <1>1 DEF AttemptRow
<1> QED BY <1>2 DEF n

Leased == {"no", "live", "expired"}

(* Changing the recovery lease of a delivery record gives a delivery       *)
(* record.                                                                 *)
LEMMA RowLease ==
  ASSUME NEW r \in DeliveryRow, NEW k \in Leased
  PROVE  [r EXCEPT !.leased = k] \in DeliveryRow
BY DEF DeliveryRow, Leased

(* Changing the state of a delivery record gives a delivery record.        *)
LEMMA RowState ==
  ASSUME NEW r \in DeliveryRow, NEW s \in DeliveryStates
  PROVE  [r EXCEPT !.state = s] \in DeliveryRow
BY DEF DeliveryRow

(* Making a delivery record recoverable and dropping its lease gives a     *)
(* delivery record.                                                        *)
LEMMA RowRecoverable ==
  ASSUME NEW r \in DeliveryRow, NEW s \in DeliveryStates
  PROVE  [r EXCEPT !.state = s, !.leased = "no"] \in DeliveryRow
BY DEF DeliveryRow

(* The record attachPreparedMedia inserts is a delivery record.            *)
LEMMA RowPending ==
  ASSUME NEW r \in DeliveryRow, NEW s \in DeliveryStates
  PROVE  [r EXCEPT !.state = s, !.rollback = TRUE] \in DeliveryRow
BY DEF DeliveryRow

(* Recording a completed rollback gives a delivery record.                 *)
LEMMA RowRolledBack ==
  ASSUME NEW r \in DeliveryRow, NEW s \in DeliveryStates
  PROVE  [r EXCEPT !.rolledBack = TRUE, !.state = s] \in DeliveryRow
BY DEF DeliveryRow

(* Resolving a delivery record whose bytes are gone gives a delivery       *)
(* record.                                                                 *)
LEMMA RowResolved ==
  ASSUME NEW r \in DeliveryRow, NEW s \in DeliveryStates
  PROVE  [r EXCEPT !.state = s, !.cleaned = TRUE, !.leased = "no"] \in DeliveryRow
BY DEF DeliveryRow

(* Marking a delivery record as queued gives a delivery record.            *)
LEMMA RowQueued ==
  ASSUME NEW r \in DeliveryRow, NEW s \in DeliveryStates
  PROVE  [r EXCEPT !.state = s, !.rollback = FALSE, !.queuedAt = TRUE] \in DeliveryRow
BY DEF DeliveryRow

(* Acknowledging a redelivery gives a delivery record.                     *)
LEMMA RowRedelivered ==
  ASSUME NEW r \in DeliveryRow, NEW s \in DeliveryStates
  PROVE  [r EXCEPT !.state = s, !.rollback = FALSE, !.queuedAt = TRUE,
                   !.leased = "no"] \in DeliveryRow
BY DEF DeliveryRow

(* What a deletion makes of a delivery record is a delivery record.        *)
LEMMA RowDeleted ==
  ASSUME NEW r \in DeliveryRow, NEW s \in DeliveryStates
  PROVE  [r EXCEPT !.state = s, !.rollback = FALSE, !.queuedAt = FALSE,
                   !.rolledBack = FALSE, !.leased = "no"] \in DeliveryRow
BY DEF DeliveryRow

(* The states the operations name are states of the tables.                *)
LEMMA StateNames ==
  /\ {"uploaded", "processing", "awaiting-upload", "valid", "invalid", "failed"}
       \subseteq Statuses
  /\ {"pending-delivery", "queued", "cleanup-recoverable", "resolved"}
       \subseteq DeliveryStates
BY DEF Statuses, Terminal, DeliveryStates

(* Requesting the cleanup of an attempt keeps retention rows retention     *)
(* rows.                                                                   *)
LEMMA RequestedType ==
  ASSUME NEW rows \in [Media -> RetentionRow], NEW a
  PROVE  Requested(rows, a) \in [Media -> RetentionRow]
BY DEF Requested, RetentionRow

(* Resolving what has been cleaned keeps delivery records delivery         *)
(* records.                                                                *)
LEMMA ReconciledType ==
  ASSUME delivery \in [Media -> DeliveryRow], NEW a, NEW o, NEW f
  PROVE  Reconciled(a, o, f) \in [Media -> DeliveryRow]
BY RowResolved, StateNames DEF Reconciled

(* Letting an attempt go in any status keeps the attempt table an attempt  *)
(* table.                                                                  *)
LEMMA UnleasedType ==
  ASSUME TypeOK, NEW a \in Attempts, NEW s \in Statuses
  PROVE  Unleased(a, s) \in [Attempts -> AttemptRow]
BY LeasedRow DEF Unleased, TypeOK

(* The absent delivery record is one.                                      *)
LEMMA NoRowType == NoRow \in DeliveryRow
BY DEF NoRow, DeliveryRow, DeliveryStates

RecoveryRow == [attempts : 0..MaxRecoveryAttempts, dead : BOOLEAN]

(* The absent retry record is within the bound on attempts.                *)
LEMMA NoRecoveryType == NoRecovery \in RecoveryRow
BY StoreAssumption DEF NoRecovery, RecoveryRow

(* The absent terminal result is one.                                      *)
LEMMA NoResultType == NoResult \in ResultRow
BY DEF NoResult, ResultRow

(* The empty database is of the declared types.                            *)
LEMMA TypeInit == Init => TypeOK
BY StoreAssumption, NoRowType
   DEF Init, TypeOK, AttemptRow, ResultRow, RetentionRow, NoResult,
       NoRecovery, Statuses, Candidates

(* Creating, deleting or expiring the lease of an attempt preserves the    *)
(* types.                                                                  *)
LEMMA TypeAttempt == TypeOK /\ AttemptStep => TypeOK'
<1> SUFFICES ASSUME TypeOK, NEW a \in Attempts,
                    CreateAttempt(a) \/ TombstoneAttempt(a) \/ ProcessingLeaseExpires(a)
             PROVE  TypeOK'
  BY DEF AttemptStep
<1>1. CASE CreateAttempt(a)
  BY <1>1, StatusRow, StateNames DEF CreateAttempt, TypeOK, retentionVars
<1>2. CASE ProcessingLeaseExpires(a)
  BY <1>2, ExpiredRow DEF ProcessingLeaseExpires, TypeOK, retentionVars
<1>3. CASE TombstoneAttempt(a)
  <2>1. attempt' \in [Attempts -> AttemptRow]
    BY <1>3, TombstonedRow DEF TombstoneAttempt, TypeOK
  <2>2. delivery' \in [Media -> DeliveryRow]
    BY <1>3, RowDeleted, StateNames DEF TombstoneAttempt, TypeOK
  <2>3. /\ transition' \in [Media -> RetentionRow]
        /\ frame' \in [Media -> RetentionRow]
        /\ original' \in [Media -> RetentionRow]
    BY <1>3, RequestedType DEF TombstoneAttempt, TypeOK
  <2>4. result' \in [Attempts -> ResultRow] /\ board' \in SUBSET Attempts
    BY <1>3, NoResultType DEF TombstoneAttempt, Unpublish, TypeOK
  <2>5. recovery' \in [Media -> RecoveryRow]
    BY <1>3, NoRecoveryType DEF TombstoneAttempt, Unpublish, TypeOK, RecoveryRow
  <2> QED BY <1>3, <2>1, <2>2, <2>3, <2>4, <2>5
          DEF TombstoneAttempt, TypeOK, RecoveryRow
<1> QED BY <1>1, <1>2, <1>3

(* Every step of an upload's attachment and compensation preserves the     *)
(* types.                                                                  *)
LEMMA TypeAttachment == TypeOK /\ AttachmentStep => TypeOK'
<1> SUFFICES ASSUME TypeOK, NEW m \in Media,
                    \/ PrepareMediaUpload(m) \/ ScheduleRetention(m)
                    \/ AttachPreparedMedia(m) \/ RollbackMediaAttachment(m)
                    \/ MarkMediaDeliveryQueued(m) \/ BeginMediaAttachmentRecovery(m)
                    \/ AcknowledgeMediaAttachmentCleanup(m)
             PROVE  TypeOK'
  BY DEF AttachmentStep
<1>a. Owner[m] \in Attempts
  BY StoreAssumption
<1>1. CASE PrepareMediaUpload(m)
  <2>1. attempt[Owner[m]].generation + 1 \in Nat
    BY <1>a DEF TypeOK, AttemptRow
  <2> QED BY <1>1, <2>1 DEF PrepareMediaUpload, TypeOK, retentionVars
<1>2. CASE ScheduleRetention(m)
  BY <1>2 DEF ScheduleRetention, TypeOK, RetentionRow
<1>3. CASE AttachPreparedMedia(m)
  <2>1. attempt' \in [Attempts -> AttemptRow]
    BY <1>3, <1>a, AttachedRow, StateNames
       DEF AttachPreparedMedia, AttachedGeneration, TypeOK
  <2>2. delivery' \in [Media -> DeliveryRow]
    BY <1>3, NoRowType, RowPending, StateNames DEF AttachPreparedMedia, TypeOK
  <2>3. original' \in [Media -> RetentionRow] /\ transition' \in [Media -> RetentionRow]
    BY <1>3 DEF AttachPreparedMedia, TypeOK, RetentionRow
  <2> QED BY <1>3, <2>1, <2>2, <2>3 DEF AttachPreparedMedia, TypeOK
<1>4. CASE RollbackMediaAttachment(m)
  <2>1. attempt' \in [Attempts -> AttemptRow]
    BY <1>4, <1>a, DetachedRow, StateNames DEF RollbackMediaAttachment, TypeOK
  <2>2. delivery' \in [Media -> DeliveryRow]
    BY <1>4, RowRolledBack, StateNames DEF RollbackMediaAttachment, TypeOK
  <2>3. original' \in [Media -> RetentionRow]
    BY <1>4 DEF RollbackMediaAttachment, TypeOK, RetentionRow
  <2> QED BY <1>4, <2>1, <2>2, <2>3 DEF RollbackMediaAttachment, TypeOK
<1>5. CASE MarkMediaDeliveryQueued(m)
  BY <1>5, RowQueued, StateNames DEF MarkMediaDeliveryQueued, TypeOK, retentionVars
<1>6. CASE BeginMediaAttachmentRecovery(m)
  <2>1. CASE /\ Attached(m)
             /\ delivery' = [delivery EXCEPT ![m].state = "cleanup-recoverable",
                                             ![m].leased = "no"]
             /\ UNCHANGED <<attempt, transition, frame>>
    BY <1>6, <2>1, RowRecoverable, StateNames
       DEF BeginMediaAttachmentRecovery, TypeOK
  <2>2. CASE /\ attempt' = [attempt EXCEPT ![Owner[m]].generation = upload[m].generation]
             /\ delivery' = [delivery EXCEPT ![m] =
                  CASE @.state = "absent" -> [NoRow EXCEPT !.state = "cleanup-recoverable"]
                    [] @.state # "absent" /\ ~@.rollback ->
                         [@ EXCEPT !.state = "cleanup-recoverable"]
                    [] OTHER -> @]
             /\ transition' = Requested(transition, Owner[m])
             /\ frame' = Requested(frame, Owner[m])
    <3>1. attempt' \in [Attempts -> AttemptRow]
      BY <2>2, <1>a, GenerationRow DEF TypeOK
    <3>2. delivery' \in [Media -> DeliveryRow]
      BY <2>2, NoRowType, RowState, StateNames DEF TypeOK
    <3>3. frame' \in [Media -> RetentionRow] /\ transition' \in [Media -> RetentionRow]
      BY <2>2, RequestedType DEF TypeOK
    <3> QED BY <1>6, <3>1, <3>2, <3>3 DEF BeginMediaAttachmentRecovery, TypeOK
  <2> QED BY <1>6, <2>1, <2>2 DEF BeginMediaAttachmentRecovery
<1>7. CASE AcknowledgeMediaAttachmentCleanup(m)
  BY <1>7, ReconciledType
     DEF AcknowledgeMediaAttachmentCleanup, TypeOK, RetentionRow
<1> QED BY <1>1, <1>2, <1>3, <1>4, <1>5, <1>6, <1>7

(* Deadlines and acknowledged deletions preserve the types.                *)
LEMMA TypeRetention == TypeOK /\ RetentionStep => TypeOK'
<1> SUFFICES ASSUME TypeOK, NEW m \in Media,
                    \/ TransitionDeadline(m) \/ OriginalDeadline(m)
                    \/ \E kind \in {"temporary", "frame", "original"} :
                         AcknowledgeRetention(kind, m)
             PROVE  TypeOK'
  BY DEF RetentionStep
<1>1. CASE TransitionDeadline(m)
  BY <1>1 DEF TransitionDeadline, TypeOK, RetentionRow
<1>2. CASE OriginalDeadline(m)
  BY <1>2 DEF OriginalDeadline, TypeOK, RetentionRow
<1>3. CASE \E kind \in {"temporary", "frame", "original"} : AcknowledgeRetention(kind, m)
  BY <1>3, ReconciledType DEF AcknowledgeRetention, TypeOK, RetentionRow
<1> QED BY <1>1, <1>2, <1>3

(* Recovery leases, redelivery acknowledgments and releases preserve the   *)
(* types.                                                                  *)
LEMMA TypeRecovery == TypeOK /\ RecoveryStep => TypeOK'
<1> SUFFICES ASSUME TypeOK, RecoveryStep PROVE delivery' \in [Media -> DeliveryRow]
  BY DEF RecoveryStep, ClaimMediaDeliveryRedelivery, ClaimMediaAttachmentRecovery,
         ClaimRows, AcknowledgeMediaDeliveryRedelivery, ReleaseMediaDeliveryRedelivery,
         ReleaseMediaAttachmentRecovery, ReleaseRow, RecoveryLeaseExpires, TypeOK,
         retentionVars
<1>1. CASE \E batch \in SUBSET Media :
             \/ ClaimMediaDeliveryRedelivery(batch)
             \/ ClaimMediaAttachmentRecovery(batch)
  BY <1>1, RowLease, ZenonT(60)
     DEF ClaimMediaDeliveryRedelivery, ClaimMediaAttachmentRecovery, ClaimRows,
         TypeOK, Leased
<1>2. CASE \E m \in Media :
             \/ AcknowledgeMediaDeliveryRedelivery(m)
             \/ ReleaseMediaDeliveryRedelivery(m)
             \/ ReleaseMediaAttachmentRecovery(m)
             \/ RecoveryLeaseExpires(m)
  <2> PICK m \in Media : \/ AcknowledgeMediaDeliveryRedelivery(m)
                         \/ ReleaseMediaDeliveryRedelivery(m)
                         \/ ReleaseMediaAttachmentRecovery(m)
                         \/ RecoveryLeaseExpires(m)
    BY <1>2
  <2>1. delivery[m] \in DeliveryRow /\ delivery[m].leased \in Leased
    BY DEF TypeOK, DeliveryRow, Leased
  <2>2. CASE AcknowledgeMediaDeliveryRedelivery(m)
    BY <2>1, <2>2, RowRedelivered, StateNames
       DEF AcknowledgeMediaDeliveryRedelivery, TypeOK
  <2>3. CASE ReleaseMediaDeliveryRedelivery(m) \/ ReleaseMediaAttachmentRecovery(m)
    <3>1. PICK states :
            delivery' = [delivery EXCEPT
              ![m].leased = IF delivery[m].state \in states THEN "no" ELSE @]
      BY <2>3 DEF ReleaseMediaDeliveryRedelivery, ReleaseMediaAttachmentRecovery, ReleaseRow
    <3>2. (IF delivery[m].state \in states THEN "no" ELSE delivery[m].leased) \in Leased
      BY <2>1 DEF Leased
    <3> QED BY <2>1, <3>1, <3>2, RowLease DEF TypeOK
  <2>4. CASE RecoveryLeaseExpires(m)
    BY <2>1, <2>4, RowLease DEF RecoveryLeaseExpires, TypeOK, Leased
  <2> QED BY <2>2, <2>3, <2>4
<1> QED BY <1>1, <1>2 DEF RecoveryStep

(* Counting a failure stays within MaxRecoveryAttempts                     *)
(* (recordProcessingFailure).                                              *)
LEMMA AfterFailureType ==
  ASSUME NEW r \in [attempts : 0..MaxRecoveryAttempts, dead : BOOLEAN]
  PROVE  AfterFailure(r) \in [attempts : 0..MaxRecoveryAttempts, dead : BOOLEAN]
BY StoreAssumption DEF AfterFailure

(* Writing the retry record of one attempt and generation keeps the table  *)
(* one of retry records.                                                   *)
LEMMA RecordedType ==
  ASSUME TypeOK, NEW m, NEW r \in RecoveryRow
  PROVE  Recorded(m, r) \in [Media -> [attempts : 0..MaxRecoveryAttempts, dead : BOOLEAN]]
BY DEF Recorded, TypeOK, RecoveryRow

(* Claims, releases, failures and terminal writes preserve the types.      *)
LEMMA TypeProcessing == TypeOK /\ ProcessingStep => TypeOK'
<1> SUFFICES ASSUME TypeOK, NEW m \in Media, NEW l \in Leases,
                    \/ ClaimProcessing(m, l) \/ ReleaseProcessingClaim(m, l)
                    \/ RecordProcessingFailure(m, l) \/ DeadLetterProcessingClaim(m, l)
                    \/ \E c \in Candidates, policyCurrent \in BOOLEAN :
                         FinalizeTerminalResult(m, l, c, policyCurrent)
             PROVE  TypeOK'
  BY DEF ProcessingStep
<1>a. Owner[m] \in Attempts /\ "uploaded" \in Statuses
  BY StoreAssumption DEF Statuses
<1>1. CASE ClaimProcessing(m, l)
  BY <1>1, <1>a, LeasedRow, StateNames DEF ClaimProcessing, TypeOK, retentionVars
<1>2. CASE ReleaseProcessingClaim(m, l)
  BY <1>2, <1>a, UnleasedType DEF ReleaseProcessingClaim, TypeOK, retentionVars
<1>3. CASE RecordProcessingFailure(m, l)
  <2>1. AfterFailure(recovery[m]) \in RecoveryRow
    BY AfterFailureType DEF TypeOK, RecoveryRow
  <2>2. recovery' \in [Media -> [attempts : 0..MaxRecoveryAttempts, dead : BOOLEAN]]
    BY <1>3, <2>1, RecordedType DEF RecordProcessingFailure
  <2> QED BY <1>3, <2>2 DEF RecordProcessingFailure, TypeOK, retentionVars
<1>4. CASE DeadLetterProcessingClaim(m, l)
  <2> DEFINE dead == [attempts |-> IF recovery[m].attempts = 0 THEN 1 ELSE recovery[m].attempts,
                      dead |-> TRUE]
  <2>a. dead \in RecoveryRow
    BY StoreAssumption DEF TypeOK, RecoveryRow
  <2>1. recovery' \in [Media -> [attempts : 0..MaxRecoveryAttempts, dead : BOOLEAN]]
    BY <1>4, <2>a, RecordedType DEF DeadLetterProcessingClaim
  <2> QED BY <1>4, <1>a, <2>1, UnleasedType DEF DeadLetterProcessingClaim, TypeOK, retentionVars
<1>5. CASE \E c \in Candidates, policyCurrent \in BOOLEAN :
             FinalizeTerminalResult(m, l, c, policyCurrent)
  <2> PICK c \in Candidates, policyCurrent \in BOOLEAN :
         FinalizeTerminalResult(m, l, c, policyCurrent)
    BY <1>5
  <2> DEFINE outcome == IF c = "ranked" /\ ~policyCurrent THEN "unranked" ELSE c
  <2>1. outcome \in Candidates /\ StatusOf(outcome) \in Statuses
    BY DEF Candidates, StatusOf, Statuses, Terminal
  <2>2. attempt' \in [Attempts -> AttemptRow]
    BY <1>a, <2>1, UnleasedType DEF FinalizeTerminalResult
  <2>3. result' \in [Attempts -> ResultRow]
    BY <1>a, <2>1 DEF FinalizeTerminalResult, TypeOK, ResultRow
  <2>4. board' \in SUBSET Attempts
    BY <1>a DEF FinalizeTerminalResult, TypeOK
  <2>5. /\ recovery' \in [Media -> [attempts : 0..MaxRecoveryAttempts, dead : BOOLEAN]]
        /\ delivery' \in [Media -> DeliveryRow]
    BY NoRecoveryType, RecordedType, NoRowType DEF FinalizeTerminalResult, TypeOK
  <2> QED BY <2>2, <2>3, <2>4, <2>5 DEF FinalizeTerminalResult, TypeOK, retentionVars
<1> QED BY <1>1, <1>2, <1>3, <1>4, <1>5

-----------------------------------------------------------------------------
(* Most steps only move a delivery record forward, or touch retention and  *)
(* lease bookkeeping.  Quiet says what every one of them leaves alone, so  *)
(* the invariants below look at the other steps only.                      *)

Quiet ==
  /\ UNCHANGED <<attempt, result, board, upload, recovery>>
  /\ \A m \in Media :
       /\ delivery'[m].state = "absent" <=> delivery[m].state = "absent"
       /\ delivery'[m].state \in Undelivered => delivery[m].state \in Undelivered

(* Resolving cleaned records neither creates, deletes nor revives a        *)
(* record.                                                                 *)
LEMMA ReconciledQuietly ==
  ASSUME TypeOK, NEW a, NEW o, NEW f, delivery' = Reconciled(a, o, f), NEW m \in Media
  PROVE  /\ delivery'[m].state = "absent" <=> delivery[m].state = "absent"
         /\ delivery'[m].state \in Undelivered => delivery[m].state \in Undelivered
<1>1. delivery[m] \in DeliveryRow
  BY DEF TypeOK
<1>2. \/ delivery'[m] = delivery[m]
      \/ /\ delivery[m].state = "cleanup-recoverable"
         /\ delivery'[m].state = "resolved"
  BY <1>1 DEF Reconciled, DeliveryRow
<1> QED BY <1>2 DEF Undelivered

(* Every retention step is quiet.                                          *)
LEMMA RetentionIsQuiet == TypeOK /\ RetentionStep => Quiet
<1> SUFFICES ASSUME TypeOK, NEW m \in Media,
                    \/ TransitionDeadline(m) \/ OriginalDeadline(m)
                    \/ \E kind \in {"temporary", "frame", "original"} :
                         AcknowledgeRetention(kind, m)
             PROVE  Quiet
  BY DEF RetentionStep
<1>1. CASE TransitionDeadline(m) \/ OriginalDeadline(m)
  BY <1>1 DEF TransitionDeadline, OriginalDeadline, Quiet
<1>2. CASE \E kind \in {"temporary", "frame", "original"} : AcknowledgeRetention(kind, m)
  BY <1>2, ReconciledQuietly DEF AcknowledgeRetention, Quiet
<1> QED BY <1>1, <1>2

(* Every step on a recovery lease is quiet.                                *)
LEMMA RecoveryIsQuiet == TypeOK /\ RecoveryStep => Quiet
<1> SUFFICES ASSUME TypeOK, RecoveryStep PROVE Quiet
  OBVIOUS
<1>1. UNCHANGED <<attempt, result, board, upload, recovery>>
  BY DEF RecoveryStep, ClaimMediaDeliveryRedelivery, ClaimMediaAttachmentRecovery,
         ClaimRows, AcknowledgeMediaDeliveryRedelivery, ReleaseMediaDeliveryRedelivery,
         ReleaseMediaAttachmentRecovery, ReleaseRow, RecoveryLeaseExpires
<1> SUFFICES ASSUME NEW x \in Media
             PROVE  \/ delivery'[x].state = delivery[x].state
                    \/ delivery[x].state \in Undelivered /\ delivery'[x].state \in Undelivered
  BY <1>1 DEF Quiet, Undelivered
<1>3. delivery \in [Media -> DeliveryRow]
  BY DEF TypeOK
<1>4. CASE \E batch \in SUBSET Media :
             \/ ClaimMediaDeliveryRedelivery(batch)
             \/ ClaimMediaAttachmentRecovery(batch)
  BY <1>3, <1>4 DEF ClaimMediaDeliveryRedelivery, ClaimMediaAttachmentRecovery, ClaimRows,
                    DeliveryRow
<1>5. ASSUME NEW m \in Media, AcknowledgeMediaDeliveryRedelivery(m)
      PROVE  \/ delivery'[x].state = delivery[x].state
             \/ delivery[x].state \in Undelivered /\ delivery'[x].state \in Undelivered
  BY <1>3, <1>5 DEF AcknowledgeMediaDeliveryRedelivery, AckRedeliveryAllowed, Undelivered,
                    DeliveryRow
<1>6. ASSUME NEW m \in Media,
             \/ ReleaseMediaDeliveryRedelivery(m) \/ ReleaseMediaAttachmentRecovery(m)
             \/ RecoveryLeaseExpires(m)
      PROVE  delivery'[x].state = delivery[x].state
  BY <1>3, <1>6 DEF ReleaseMediaDeliveryRedelivery, ReleaseMediaAttachmentRecovery,
                    ReleaseRow, RecoveryLeaseExpires, DeliveryRow
<1> QED BY <1>4, <1>5, <1>6 DEF RecoveryStep

(* Marking a delivery as queued is quiet.                                  *)
LEMMA MarkIsQuiet ==
  ASSUME TypeOK, NEW m \in Media, MarkMediaDeliveryQueued(m)
  PROVE  Quiet
BY DEF TypeOK, DeliveryRow, MarkMediaDeliveryQueued, Quiet, Undelivered

(* Acknowledging a cleanup is quiet.                                       *)
LEMMA AcknowledgeIsQuiet ==
  ASSUME TypeOK, NEW m \in Media, AcknowledgeMediaAttachmentCleanup(m)
  PROVE  Quiet
BY ReconciledQuietly DEF AcknowledgeMediaAttachmentCleanup, Quiet

(* A stuttering step is quiet.                                             *)
LEMMA StutterIsQuiet == UNCHANGED storeVars => Quiet
BY DEF storeVars, Quiet

(* Every step is quiet or is one of the operations that change what the    *)
(* invariants speak of.                                                    *)
LoudAttempt(a) == CreateAttempt(a) \/ TombstoneAttempt(a) \/ ProcessingLeaseExpires(a)
LoudUpload(m) ==
  \/ PrepareMediaUpload(m) \/ ScheduleRetention(m) \/ AttachPreparedMedia(m)
  \/ RollbackMediaAttachment(m) \/ BeginMediaAttachmentRecovery(m)

(* Every step of the store is quiet, or one of the operations named above, *)
(* or a step of a worker's claim.                                          *)
LEMMA StepCases ==
  ASSUME TypeOK, [Next]_storeVars
  PROVE  \/ Quiet
         \/ \E a \in Attempts : LoudAttempt(a)
         \/ \E m \in Media : LoudUpload(m)
         \/ ProcessingStep
<1>1. CASE AttemptStep
  BY <1>1 DEF AttemptStep, LoudAttempt
<1>2. CASE AttachmentStep
  BY <1>2, MarkIsQuiet, AcknowledgeIsQuiet DEF AttachmentStep, LoudUpload
<1>3. CASE RetentionStep \/ RecoveryStep
  BY <1>3, RetentionIsQuiet, RecoveryIsQuiet
<1> QED BY <1>1, <1>2, <1>3, StutterIsQuiet DEF Next

-----------------------------------------------------------------------------
(* A lease and 'processing' come and go together: inductive as it stands.  *)

(* Every step keeps leases and the status 'processing' together.           *)
LEMMA LeaseStep ==
  TypeOK /\ LeaseHeldIffProcessing /\ [Next]_storeVars => LeaseHeldIffProcessing'
<1> SUFFICES ASSUME TypeOK, LeaseHeldIffProcessing, [Next]_storeVars
             PROVE  LeaseHeldIffProcessing'
  OBVIOUS
<1>a. attempt \in [Attempts -> AttemptRow]
  BY DEF TypeOK
<1>1. CASE Quiet
  BY <1>1 DEF Quiet, LeaseHeldIffProcessing, Active
<1>2. ASSUME NEW a \in Attempts, LoudAttempt(a)
      PROVE  LeaseHeldIffProcessing'
  <2>1. CASE CreateAttempt(a)
    BY <1>a, <2>1 DEF CreateAttempt, LeaseHeldIffProcessing, Active, AttemptRow
  <2>2. CASE TombstoneAttempt(a)
    BY <1>a, <2>2 DEF TombstoneAttempt, LeaseHeldIffProcessing, Active, AttemptRow
  <2>3. CASE ProcessingLeaseExpires(a)
    BY <1>a, <2>3 DEF ProcessingLeaseExpires, LeaseHeldIffProcessing, Active, AttemptRow
  <2> QED BY <1>2, <2>1, <2>2, <2>3 DEF LoudAttempt
<1>3. ASSUME NEW m \in Media, LoudUpload(m)
      PROVE  LeaseHeldIffProcessing'
  <2>a. Owner[m] \in Attempts
    BY StoreAssumption
  <2>1. CASE PrepareMediaUpload(m) \/ ScheduleRetention(m)
    BY <2>1 DEF PrepareMediaUpload, ScheduleRetention, LeaseHeldIffProcessing, Active
  <2>2. CASE AttachPreparedMedia(m)
    BY <1>a, <2>a, <2>2 DEF AttachPreparedMedia, AttachAllowed, AwaitingUpload,
                            LeaseHeldIffProcessing, Active, AttemptRow
  <2>3. CASE RollbackMediaAttachment(m)
    BY <1>a, <2>a, <2>3 DEF RollbackMediaAttachment, RollbackAllowed, Attached,
                            LeaseHeldIffProcessing, Active, AttemptRow
  <2>4. CASE BeginMediaAttachmentRecovery(m)
    BY <1>a, <2>a, <2>4 DEF BeginMediaAttachmentRecovery, LeaseHeldIffProcessing, Active,
                            AttemptRow
  <2> QED BY <1>3, <2>1, <2>2, <2>3, <2>4 DEF LoudUpload
<1>4. CASE ProcessingStep
  <2> PICK m \in Media, l \in Leases :
        \/ ClaimProcessing(m, l) \/ ReleaseProcessingClaim(m, l)
        \/ RecordProcessingFailure(m, l) \/ DeadLetterProcessingClaim(m, l)
        \/ \E c \in Candidates, policyCurrent \in BOOLEAN :
             FinalizeTerminalResult(m, l, c, policyCurrent)
    BY <1>4 DEF ProcessingStep
  <2>a. Owner[m] \in Attempts /\ l # NoLease
    BY StoreAssumption
  <2>1. CASE ClaimProcessing(m, l)
    BY <1>a, <2>a, <2>1 DEF ClaimProcessing, ClaimAllowed, LeaseHeldIffProcessing, Active,
                            AttemptRow
  <2>2. CASE RecordProcessingFailure(m, l)
    BY <2>2 DEF RecordProcessingFailure, LeaseHeldIffProcessing, Active
  <2>3. CASE \E s \in Statuses : s # "processing" /\ attempt' = Unleased(Owner[m], s)
    BY <1>a, <2>a, <2>3 DEF Unleased, LeaseHeldIffProcessing, Active, AttemptRow
  <2>4. CASE ReleaseProcessingClaim(m, l) \/ DeadLetterProcessingClaim(m, l)
    BY <2>3, <2>4, StateNames DEF ReleaseProcessingClaim, DeadLetterProcessingClaim
  <2>5. CASE \E c \in Candidates, policyCurrent \in BOOLEAN :
               FinalizeTerminalResult(m, l, c, policyCurrent)
    BY <2>3, <2>5, StateNames
       DEF FinalizeTerminalResult, StatusOf, Candidates
  <2> QED BY <2>1, <2>2, <2>4, <2>5
<1> QED BY <1>1, <1>2, <1>3, <1>4, StepCases

-----------------------------------------------------------------------------
(* Deletion.  A tombstoned attempt cannot be claimed or attached to because *)
(* it is not active, so only what was published for it needs an induction. *)

NothingPublished(a) ==
  /\ result[a] = NoResult
  /\ a \notin board
  /\ \A m \in Media : Owner[m] = a =>
       recovery[m] = NoRecovery /\ delivery[m].state \notin Undelivered
DeletionHides ==
  \A a \in Attempts : attempt[a].deletion = "tombstoned" => NothingPublished(a)

(* Publishing nothing for a tombstoned attempt is all NoResurrection asks  *)
(* for.                                                                    *)
LEMMA DeletionHidesIsEnough == DeletionHides => NoResurrection
BY DEF DeletionHides, NothingPublished, NoResurrection, ClaimAllowed, AttachAllowed,
       AwaitingUpload, Active

(* No step publishes anything for a tombstoned attempt.                    *)
LEMMA DeletionStep == TypeOK /\ DeletionHides /\ [Next]_storeVars => DeletionHides'
<1> SUFFICES ASSUME TypeOK, DeletionHides, [Next]_storeVars,
                    NEW b \in Attempts, attempt'[b].deletion = "tombstoned"
             PROVE  NothingPublished(b)'
  BY DEF DeletionHides
<1>a. /\ attempt \in [Attempts -> AttemptRow]
      /\ delivery \in [Media -> DeliveryRow]
  BY DEF TypeOK
<1>b. attempt[b].deletion = "tombstoned" => NothingPublished(b)
  BY DEF DeletionHides
<1>1. CASE Quiet
  BY <1>1, <1>b DEF Quiet, NothingPublished
<1>2. ASSUME NEW a \in Attempts, LoudAttempt(a)
      PROVE  NothingPublished(b)'
  <2>1. CASE CreateAttempt(a) \/ ProcessingLeaseExpires(a)
    <3>1. attempt[b].deletion = "tombstoned"
      BY <1>a, <2>1 DEF CreateAttempt, ProcessingLeaseExpires, AttemptRow
    <3> QED BY <1>b, <2>1, <3>1 DEF CreateAttempt, ProcessingLeaseExpires, NothingPublished
  <2>2. CASE TombstoneAttempt(a) /\ a = b
    <3>1. result'[b] = NoResult /\ b \notin board'
      BY <2>2 DEF TombstoneAttempt, Unpublish, TypeOK
    <3>2. ASSUME NEW m \in Media, Owner[m] = b
          PROVE  recovery'[m] = NoRecovery /\ delivery'[m].state \notin Undelivered
      BY <1>a, <2>2, <3>2
         DEF TombstoneAttempt, Unpublish, Undelivered, DeliveryRow, DeliveryStates
    <3> QED BY <3>1, <3>2 DEF NothingPublished
  <2>3. CASE TombstoneAttempt(a) /\ a # b
    <3>1. attempt[b].deletion = "tombstoned"
      BY <1>a, <2>3 DEF TombstoneAttempt, AttemptRow
    <3>2. result'[b] = NoResult /\ b \notin board'
      BY <1>b, <2>3, <3>1 DEF TombstoneAttempt, Unpublish, TypeOK, NothingPublished
    <3>3. ASSUME NEW m \in Media, Owner[m] = b
          PROVE  recovery'[m] = NoRecovery /\ delivery'[m].state \notin Undelivered
      BY <1>b, <2>3, <3>1, <3>3 DEF TombstoneAttempt, Unpublish, NothingPublished
    <3> QED BY <3>2, <3>3 DEF NothingPublished
  <2> QED BY <1>2, <2>1, <2>2, <2>3 DEF LoudAttempt
<1>3. ASSUME NEW m \in Media, LoudUpload(m)
      PROVE  NothingPublished(b)'
  <2>a. Owner[m] \in Attempts
    BY StoreAssumption
  <2>1. CASE PrepareMediaUpload(m) \/ ScheduleRetention(m)
    BY <1>b, <2>1 DEF PrepareMediaUpload, ScheduleRetention, NothingPublished
  <2>2. CASE AttachPreparedMedia(m) \/ RollbackMediaAttachment(m)
             \/ BeginMediaAttachmentRecovery(m)
    <3>1. attempt[b].deletion = "tombstoned"
      BY <1>a, <2>a, <2>2
         DEF AttachPreparedMedia, RollbackMediaAttachment, BeginMediaAttachmentRecovery,
             AttemptRow
    <3>2. Active(Owner[m])
      BY <2>2 DEF AttachPreparedMedia, AttachAllowed, AwaitingUpload,
                  RollbackMediaAttachment, RollbackAllowed, Attached,
                  BeginMediaAttachmentRecovery, BeginRecoveryAllowed
    <3>3. Owner[m] # b
      BY <3>1, <3>2 DEF Active
    <3>4. UNCHANGED <<result, board, recovery>>
      BY <2>2 DEF AttachPreparedMedia, RollbackMediaAttachment, BeginMediaAttachmentRecovery
    <3>5. \A x \in Media : x # m => delivery'[x] = delivery[x]
      BY <1>a, <2>2 DEF AttachPreparedMedia, RollbackMediaAttachment,
                        BeginMediaAttachmentRecovery
    <3> QED BY <1>b, <3>1, <3>3, <3>4, <3>5 DEF NothingPublished
  <2> QED BY <1>3, <2>1, <2>2 DEF LoudUpload
<1>4. CASE ProcessingStep
  <2> PICK m \in Media, l \in Leases :
        \/ ClaimProcessing(m, l) \/ ReleaseProcessingClaim(m, l)
        \/ RecordProcessingFailure(m, l) \/ DeadLetterProcessingClaim(m, l)
        \/ \E c \in Candidates, policyCurrent \in BOOLEAN :
             FinalizeTerminalResult(m, l, c, policyCurrent)
    BY <1>4 DEF ProcessingStep
  <2>a. Owner[m] \in Attempts
    BY StoreAssumption
  <2>1. Active(Owner[m])
    BY DEF ClaimProcessing, ClaimAllowed, ReleaseProcessingClaim, RecordProcessingFailure,
           DeadLetterProcessingClaim, FinalizeTerminalResult, FinalizeOutcome, HoldsClaim
  <2>2. attempt[b].deletion = "tombstoned"
    <3>1. CASE ClaimProcessing(m, l)
      BY <1>a, <2>a, <3>1 DEF ClaimProcessing, AttemptRow
    <3>2. CASE RecordProcessingFailure(m, l)
      BY <3>2 DEF RecordProcessingFailure
    <3>3. CASE \E s : attempt' = Unleased(Owner[m], s)
      BY <1>a, <2>a, <3>3 DEF Unleased, AttemptRow
    <3> QED BY <3>1, <3>2, <3>3 DEF ReleaseProcessingClaim, DeadLetterProcessingClaim,
                                    FinalizeTerminalResult
  <2>3. Owner[m] # b
    BY <2>1, <2>2 DEF Active
  <2>4. \A x \in Media : Owner[x] # Owner[m] =>
          delivery'[x] = delivery[x] /\ recovery'[x] = recovery[x]
    BY DEF ClaimProcessing, ReleaseProcessingClaim, RecordProcessingFailure,
           DeadLetterProcessingClaim, FinalizeTerminalResult, Recorded, RowsOf, SameJob
  <2>5. result'[b] = result[b] /\ (b \in board' <=> b \in board)
    BY <2>a, <2>3 DEF TypeOK, ClaimProcessing, ReleaseProcessingClaim, RecordProcessingFailure,
           DeadLetterProcessingClaim, FinalizeTerminalResult
  <2> QED BY <1>b, <2>2, <2>3, <2>4, <2>5 DEF NothingPublished
<1> QED BY <1>1, <1>2, <1>3, <1>4, StepCases

-----------------------------------------------------------------------------
(* The terminal tables.  The induction also needs that nothing is stored   *)
(* for an attempt before it exists, and that a row without an outcome is   *)
(* no row at all.                                                          *)

TerminalRow(a) ==
  /\ attempt[a].status = "absent" =>
       attempt[a].deletion = "active" /\ result[a].outcome = "none"
  /\ result[a].outcome = "none" => result[a] = NoResult
  /\ Active(a) => /\ attempt[a].status \in Terminal <=> result[a].outcome # "none"
                  /\ attempt[a].status \in Terminal =>
                       attempt[a].status = StatusOf(result[a].outcome)
  /\ a \in board => result[a].outcome = "ranked"
TerminalRows == \A a \in Attempts : TerminalRow(a)

(* Row by row agreement is what TerminalTablesAgree asks for.              *)
LEMMA TerminalRowsAgree == TerminalRows => TerminalTablesAgree
BY DEF TerminalRows, TerminalRow, TerminalTablesAgree

(* A step that moves a between statuses that are not terminal, and leaves  *)
(* the terminal tables alone, preserves the row.                           *)
LEMMA NonterminalMove ==
  ASSUME NEW b \in Attempts, TerminalRow(b),
         UNCHANGED <<result, board>>,
         \/ attempt'[b].status = attempt[b].status
         \/ /\ attempt[b].status \notin Terminal
            /\ attempt'[b].status \notin Terminal \cup {"absent"},
         attempt'[b].deletion = attempt[b].deletion
  PROVE  TerminalRow(b)'
BY DEF TerminalRow, Active, Terminal

(* Every step keeps the terminal tables in agreement.                      *)
LEMMA TerminalStep == TypeOK /\ TerminalRows /\ [Next]_storeVars => TerminalRows'
<1> SUFFICES ASSUME TypeOK, TerminalRows, [Next]_storeVars, NEW b \in Attempts
             PROVE  TerminalRow(b)'
  BY DEF TerminalRows
<1>a. attempt \in [Attempts -> AttemptRow] /\ result \in [Attempts -> ResultRow]
  BY DEF TypeOK
<1>b. TerminalRow(b)
  BY DEF TerminalRows
<1>1. CASE Quiet
  BY <1>1, <1>b DEF Quiet, TerminalRow, Active
<1>2. ASSUME NEW a \in Attempts, LoudAttempt(a)
      PROVE  TerminalRow(b)'
  <2>1. CASE CreateAttempt(a)
    BY <1>a, <1>b, <2>1, NonterminalMove DEF CreateAttempt, AttemptRow, Terminal
  <2>2. CASE ProcessingLeaseExpires(a)
    BY <1>a, <1>b, <2>2, NonterminalMove DEF ProcessingLeaseExpires, AttemptRow
  <2>3. CASE TombstoneAttempt(a) /\ a = b
    <3>1. /\ attempt'[b].deletion = "tombstoned" /\ attempt'[b].status # "absent"
          /\ result'[b] = NoResult /\ b \notin board'
      BY <1>a, <2>3 DEF TombstoneAttempt, Unpublish, Active, AttemptRow
    <3> QED BY <3>1 DEF TerminalRow, Active, NoResult
  <2>4. CASE TombstoneAttempt(a) /\ a # b
    <3>1. /\ attempt'[b] = attempt[b] /\ result'[b] = result[b]
          /\ b \in board' <=> b \in board
      BY <1>a, <2>4 DEF TombstoneAttempt, Unpublish
    <3> QED BY <1>b, <3>1 DEF TerminalRow, Active
  <2> QED BY <1>2, <2>1, <2>2, <2>3, <2>4 DEF LoudAttempt
<1>3. ASSUME NEW m \in Media, LoudUpload(m)
      PROVE  TerminalRow(b)'
  <2>a. Owner[m] \in Attempts
    BY StoreAssumption
  <2>1. CASE PrepareMediaUpload(m) \/ ScheduleRetention(m)
    BY <1>b, <2>1 DEF PrepareMediaUpload, ScheduleRetention, TerminalRow, Active
  <2>2. CASE AttachPreparedMedia(m)
    BY <1>a, <1>b, <2>a, <2>2, NonterminalMove
       DEF AttachPreparedMedia, AttachAllowed, AwaitingUpload, AttemptRow, Terminal
  <2>3. CASE RollbackMediaAttachment(m)
    BY <1>a, <1>b, <2>a, <2>3, NonterminalMove
       DEF RollbackMediaAttachment, RollbackAllowed, Attached, AttemptRow, Terminal
  <2>4. CASE BeginMediaAttachmentRecovery(m)
    BY <1>a, <1>b, <2>a, <2>4, NonterminalMove
       DEF BeginMediaAttachmentRecovery, AttemptRow
  <2> QED BY <1>3, <2>1, <2>2, <2>3, <2>4 DEF LoudUpload
<1>4. CASE ProcessingStep
  <2> PICK m \in Media, l \in Leases :
        \/ ClaimProcessing(m, l) \/ ReleaseProcessingClaim(m, l)
        \/ RecordProcessingFailure(m, l) \/ DeadLetterProcessingClaim(m, l)
        \/ \E c \in Candidates, policyCurrent \in BOOLEAN :
             FinalizeTerminalResult(m, l, c, policyCurrent)
    BY <1>4 DEF ProcessingStep
  <2>a. Owner[m] \in Attempts
    BY StoreAssumption
  <2>1. CASE ClaimProcessing(m, l)
    BY <1>a, <1>b, <2>a, <2>1, NonterminalMove
       DEF ClaimProcessing, ClaimAllowed, AttemptRow, Terminal
  <2>2. CASE RecordProcessingFailure(m, l)
    BY <1>b, <2>2, NonterminalMove DEF RecordProcessingFailure
  <2>3. CASE ReleaseProcessingClaim(m, l) \/ DeadLetterProcessingClaim(m, l)
    BY <1>a, <1>b, <2>a, <2>3, NonterminalMove
       DEF ReleaseProcessingClaim, DeadLetterProcessingClaim, HoldsClaim, Unleased,
           AttemptRow, Terminal
  <2>4. CASE \E c \in Candidates, policyCurrent \in BOOLEAN :
               FinalizeTerminalResult(m, l, c, policyCurrent)
    <3> PICK c \in Candidates, policyCurrent \in BOOLEAN :
          FinalizeTerminalResult(m, l, c, policyCurrent)
      BY <2>4
    <3> DEFINE outcome == IF c = "ranked" /\ ~policyCurrent THEN "unranked" ELSE c
    <3>1. outcome \in Candidates
      BY DEF Candidates
    <3>2. result[Owner[m]].outcome = "none"
      BY <1>a, <2>a DEF FinalizeTerminalResult, FinalizeOutcome, AttemptRow
    <3>3. Owner[m] \notin board
      BY <2>a, <3>2 DEF TerminalRows, TerminalRow
    <3>4. /\ board' = IF outcome = "ranked" THEN board \cup {Owner[m]} ELSE board
          /\ attempt' = Unleased(Owner[m], StatusOf(outcome))
          /\ result' = [result EXCEPT ![Owner[m]] =
               [outcome |-> outcome, candidate |-> c, lease |-> l,
                generation |-> upload[m].generation]]
      BY DEF FinalizeTerminalResult
    <3> HIDE DEF outcome
    <3>5. CASE b = Owner[m]
      <4>1. attempt'[b].status = StatusOf(outcome) /\ result'[b].outcome = outcome
        BY <1>a, <3>4, <3>5 DEF Unleased, AttemptRow
      <4>2. StatusOf(outcome) \in Terminal /\ outcome # "none"
        BY <3>1 DEF StatusOf, Terminal, Candidates
      <4>3. b \in board' => outcome = "ranked"
        BY <3>3, <3>4, <3>5
      <4> QED BY <4>1, <4>2, <4>3 DEF TerminalRow, Active, Terminal
    <3>6. CASE b # Owner[m]
      <4>1. /\ attempt'[b] = attempt[b] /\ result'[b] = result[b]
            /\ b \in board' <=> b \in board
        BY <1>a, <3>4, <3>6 DEF Unleased
      <4> QED BY <1>b, <4>1 DEF TerminalRow, Active
    <3> QED BY <3>5, <3>6
  <2> QED BY <2>1, <2>2, <2>3, <2>4
<1> QED BY <1>1, <1>2, <1>3, <1>4, StepCases

-----------------------------------------------------------------------------
(* Delivery records.  Generations of an attempt never go down and a record *)
(* keeps the generation it was written under; a new record is written only *)
(* for the attempt's newest generation, and only beside no other of it.    *)

Present(m) == delivery[m].state # "absent"
UniqueRows ==
  \A m, x \in Media :
    /\ Present(m) /\ Present(x)
    /\ Owner[m] = Owner[x] /\ upload[m].generation = upload[x].generation
    => m = x
BoundedRows ==
  \A m \in Media : Present(m) =>
    upload[m].generation # 0 /\ upload[m].generation <= attempt[Owner[m]].generation
Tracked(a) ==
  Active(a) /\ attempt[a].status \in {"uploaded", "processing"} =>
    /\ attempt[a].media \in Media
    /\ Owner[attempt[a].media] = a
    /\ upload[attempt[a].media].generation = attempt[a].generation
    /\ Present(attempt[a].media)
TrackingInv == UniqueRows /\ BoundedRows /\ \A a \in Attempts : Tracked(a)

(* The three properties of delivery records follow from the induction      *)
(* hypothesis.                                                             *)
LEMMA TrackingIsEnough ==
  TypeOK /\ TrackingInv =>
    OneRowPerGeneration /\ AttachedUploadIsTracked /\ JobNamesAttachedMedia
<1> SUFFICES ASSUME TypeOK, TrackingInv
             PROVE  OneRowPerGeneration /\ AttachedUploadIsTracked /\ JobNamesAttachedMedia
  OBVIOUS
<1>a. \A m \in Media : /\ Owner[m] \in Attempts
                       /\ upload[m].generation \in Nat
                       /\ attempt[Owner[m]].generation \in Nat
  BY StoreAssumption DEF TypeOK, AttemptRow
<1>1. OneRowPerGeneration
  BY <1>a DEF TrackingInv, UniqueRows, BoundedRows, Present, RowsOf, SameJob, OneRowPerGeneration
<1>2. AttachedUploadIsTracked
  BY DEF TrackingInv, Tracked, Present, SameGeneration, AttachedUploadIsTracked
<1>3. ASSUME NEW m \in Media, Present(m), ClaimAllowed(m)
      PROVE  attempt[Owner[m]].media = m
  <2>1. Active(Owner[m]) /\ attempt[Owner[m]].status \in {"uploaded", "processing"}
    BY <1>3 DEF ClaimAllowed
  <2>2. Tracked(Owner[m])
    BY <1>a DEF TrackingInv
  <2>3. upload[m].generation = attempt[Owner[m]].generation
    BY <1>3 DEF ClaimAllowed, SameGeneration
  <2> QED BY <1>3, <2>1, <2>2, <2>3 DEF Tracked, TrackingInv, UniqueRows
<1> QED BY <1>1, <1>2, <1>3 DEF JobNamesAttachedMedia, Present

GenerationsGrow == \A a \in Attempts : attempt[a].generation <= attempt'[a].generation

(* No record appears beside m's, which is of the attempt's newest          *)
(* generation if it is there afterwards.                                   *)
LEMMA RowsKept ==
  ASSUME TypeOK, TypeOK', UniqueRows, BoundedRows, GenerationsGrow, NEW m \in Media,
         \A x \in Media : Present(x)' /\ x # m =>
           Present(x) /\ upload'[x].generation = upload[x].generation,
         Present(m)' =>
           /\ upload'[m].generation = upload[m].generation
           /\ \/ Present(m)
              \/ /\ RowsOf(m) \subseteq {m}
                 /\ upload[m].generation # 0
                 /\ upload[m].generation <= attempt'[Owner[m]].generation
  PROVE  UniqueRows' /\ BoundedRows'
<1>a. \A x \in Media : /\ Owner[x] \in Attempts
                       /\ upload[x].generation \in Nat
                       /\ attempt[Owner[x]].generation \in Nat
                       /\ attempt'[Owner[x]].generation \in Nat
  BY StoreAssumption DEF TypeOK, AttemptRow
<1>1. BoundedRows'
  BY <1>a DEF BoundedRows, GenerationsGrow
<1>2. ASSUME NEW x \in Media, NEW y \in Media, Present(x)', Present(y)',
             Owner[x] = Owner[y], upload'[x].generation = upload'[y].generation
      PROVE  x = y
  <2>1. CASE Present(x) /\ Present(y)
    BY <1>2, <2>1 DEF UniqueRows
  <2>2. CASE ~Present(x) \/ ~Present(y)
    BY <1>2, <2>2 DEF RowsOf, SameJob, Present
  <2> QED BY <2>1, <2>2
<1> QED BY <1>1, <1>2 DEF UniqueRows

(* An attempt a step does not turn into a waiting one stays tracked while  *)
(* its record stays.                                                       *)
LEMMA TrackedKept ==
  ASSUME NEW a \in Attempts, Tracked(a),
         Active(a)' /\ attempt'[a].status \in {"uploaded", "processing"} =>
           /\ Active(a) /\ attempt[a].status \in {"uploaded", "processing"}
           /\ attempt'[a].media = attempt[a].media
           /\ attempt'[a].generation = attempt[a].generation
           /\ \A x \in Media : Owner[x] = a /\ Present(x) =>
                Present(x)' /\ upload'[x].generation = upload[x].generation
  PROVE  Tracked(a)'
BY DEF Tracked

(* Steps that neither add nor remove a record nor renumber an upload.      *)
LEMMA BookkeepingKept ==
  ASSUME TypeOK, TypeOK', TrackingInv, GenerationsGrow,
         \A x \in Media : /\ Present(x)' <=> Present(x)
                          /\ Present(x) => upload'[x].generation = upload[x].generation,
         \A a \in Attempts :
           Active(a)' /\ attempt'[a].status \in {"uploaded", "processing"} =>
             /\ Active(a) /\ attempt[a].status \in {"uploaded", "processing"}
             /\ attempt'[a].media = attempt[a].media
             /\ attempt'[a].generation = attempt[a].generation
  PROVE  TrackingInv'
<1>1. \A a \in Attempts : Tracked(a)'
  BY TrackedKept DEF TrackingInv
<1>2. ASSUME NEW m \in Media PROVE UniqueRows' /\ BoundedRows'
  BY RowsKept DEF TrackingInv
<1>3. CASE Media = {}
  BY <1>1, <1>3 DEF TrackingInv, UniqueRows, BoundedRows
<1> QED BY <1>1, <1>2, <1>3 DEF TrackingInv

(* Creating, deleting or expiring an attempt keeps its records tracked.    *)
LEMMA TrackingAttempt ==
  ASSUME TypeOK, TypeOK', TrackingInv, NEW a \in Attempts, LoudAttempt(a)
  PROVE  TrackingInv'
<1>a. /\ attempt \in [Attempts -> AttemptRow]
      /\ \A b \in Attempts : attempt[b].generation \in Nat
      /\ delivery \in [Media -> DeliveryRow]
  BY DEF TypeOK, AttemptRow
<1>1. CASE CreateAttempt(a)
  BY <1>1, <1>a, BookkeepingKept
     DEF CreateAttempt, GenerationsGrow, Present, Active, AttemptRow
<1>2. CASE ProcessingLeaseExpires(a)
  BY <1>2, <1>a, BookkeepingKept
     DEF ProcessingLeaseExpires, GenerationsGrow, Present, Active, AttemptRow
<1>3. CASE TombstoneAttempt(a)
  <2>1. GenerationsGrow
    <3>1. attempt'[a].generation = attempt[a].generation + 1
      BY <1>3, <1>a DEF TombstoneAttempt, AttemptRow
    <3>2. \A b \in Attempts : b # a => attempt'[b] = attempt[b]
      BY <1>3, <1>a DEF TombstoneAttempt
    <3> QED BY <1>a, <3>1, <3>2 DEF GenerationsGrow
  <2>2. \A x \in Media : Present(x)' <=> Present(x)
    BY <1>3, <1>a DEF TombstoneAttempt, Present, DeliveryRow
  <2>3. \A b \in Attempts : Active(b)' => attempt'[b] = attempt[b]
    BY <1>3, <1>a DEF TombstoneAttempt, Active, AttemptRow
  <2> QED BY <1>3, <2>1, <2>2, <2>3, BookkeepingKept DEF TombstoneAttempt, Active
<1> QED BY <1>1, <1>2, <1>3 DEF LoudAttempt

(* Preparing, attaching, rolling back or retiring an upload keeps the      *)
(* records unique, bounded and tracked.                                    *)
LEMMA TrackingUpload ==
  ASSUME TypeOK, TypeOK', TrackingInv, NEW m \in Media, LoudUpload(m)
  PROVE  TrackingInv'
<1>a. /\ Owner[m] \in Attempts
      /\ attempt \in [Attempts -> AttemptRow]
      /\ \A b \in Attempts : attempt[b].generation \in Nat
      /\ delivery \in [Media -> DeliveryRow]
      /\ upload[m].generation \in Nat
  BY StoreAssumption DEF TypeOK, AttemptRow
<1>1. CASE PrepareMediaUpload(m)
  <2>1. ~Present(m)
    BY <1>1 DEF PrepareMediaUpload, TrackingInv, BoundedRows
  <2>2. GenerationsGrow /\ UNCHANGED <<attempt, delivery>>
    BY <1>1, <1>a DEF PrepareMediaUpload, GenerationsGrow
  <2>3. \A x \in Media : x # m => upload'[x] = upload[x]
    BY <1>1 DEF PrepareMediaUpload, TypeOK
  <2> QED BY <2>1, <2>2, <2>3, BookkeepingKept DEF Present, Active
<1>2. CASE ScheduleRetention(m)
  <2>1. GenerationsGrow /\ UNCHANGED <<attempt, delivery>>
    BY <1>2, <1>a DEF ScheduleRetention, GenerationsGrow
  <2>2. \A x \in Media : upload'[x].generation = upload[x].generation
    BY <1>2 DEF ScheduleRetention, TypeOK
  <2> QED BY <2>1, <2>2, BookkeepingKept DEF Present, Active
<1>3. CASE AttachPreparedMedia(m)
  <2>1. /\ upload[m].generation = attempt[Owner[m]].generation + 1
        /\ RowsOf(m) = {}
        /\ UNCHANGED upload
    BY <1>3 DEF AttachPreparedMedia, AttachAllowed
  <2>2. /\ attempt'[Owner[m]].media = m
        /\ attempt'[Owner[m]].generation = upload[m].generation
        /\ \A b \in Attempts : b # Owner[m] => attempt'[b] = attempt[b]
    BY <1>3, <1>a DEF AttachPreparedMedia, AttachedGeneration, AttemptRow
  <2>3. Present(m)' /\ \A x \in Media : x # m => delivery'[x] = delivery[x]
    BY <1>3, <1>a, NoRowType DEF AttachPreparedMedia, Present, NoRow
  <2>4. GenerationsGrow
    BY <1>a, <2>1, <2>2 DEF GenerationsGrow
  <2>5. UniqueRows' /\ BoundedRows'
    BY <1>a, <2>1, <2>2, <2>3, <2>4, RowsKept DEF TrackingInv, Present
  <2>6. ASSUME NEW b \in Attempts PROVE Tracked(b)'
    <3>1. CASE b = Owner[m]
      BY <2>1, <2>2, <2>3, <3>1 DEF Tracked
    <3>2. CASE b # Owner[m]
      BY <2>1, <2>2, <2>3, <3>2, TrackedKept DEF TrackingInv, Active, Present
    <3> QED BY <3>1, <3>2
  <2> QED BY <2>5, <2>6 DEF TrackingInv
<1>4. CASE RollbackMediaAttachment(m)
  <2>1. /\ attempt'[Owner[m]].status = "awaiting-upload"
        /\ \A b \in Attempts : b # Owner[m] => attempt'[b] = attempt[b]
        /\ \A b \in Attempts : attempt'[b].generation = attempt[b].generation
        /\ UNCHANGED upload
    BY <1>4, <1>a DEF RollbackMediaAttachment, AttemptRow
  <2>2. \A x \in Media : Present(x)' <=> Present(x)
    BY <1>4, <1>a DEF RollbackMediaAttachment, RollbackAllowed, Present, DeliveryRow
  <2> QED BY <1>a, <2>1, <2>2, BookkeepingKept DEF GenerationsGrow, Active
<1>5. CASE BeginMediaAttachmentRecovery(m)
  <2>1. /\ RowsOf(m) \subseteq {m}
        /\ (Attached(m) /\ RowsOf(m) # {}) \/ Unattached(m)
        /\ UNCHANGED upload
    BY <1>5 DEF BeginMediaAttachmentRecovery, BeginRecoveryAllowed
  <2>2. \A x \in Media : /\ Present(x) => Present(x)'
                         /\ Present(x)' /\ x # m => Present(x)
    BY <1>5, <1>a, NoRowType
       DEF BeginMediaAttachmentRecovery, Present, NoRow, DeliveryRow
  <2>3. \/ Attached(m) /\ UNCHANGED attempt
        \/ /\ Unattached(m)
           /\ attempt' = [attempt EXCEPT ![Owner[m]].generation = upload[m].generation]
    BY <1>5 DEF BeginMediaAttachmentRecovery
  <2>4. GenerationsGrow /\ upload[m].generation <= attempt'[Owner[m]].generation
    <3>1. attempt[Owner[m]].generation <= upload[m].generation
      BY <1>a, <2>1 DEF Attached, Unattached, SameGeneration
    <3>2. CASE Attached(m) /\ UNCHANGED attempt
      BY <1>a, <3>2 DEF GenerationsGrow, Attached, SameGeneration
    <3>3. CASE /\ Unattached(m)
               /\ attempt' = [attempt EXCEPT ![Owner[m]].generation = upload[m].generation]
      <4>1. /\ attempt'[Owner[m]].generation = upload[m].generation
            /\ \A b \in Attempts : b # Owner[m] => attempt'[b] = attempt[b]
        BY <1>a, <3>3 DEF AttemptRow
      <4> QED BY <1>a, <3>1, <4>1 DEF GenerationsGrow
    <3> QED BY <2>3, <3>2, <3>3
  <2>5. Present(m) \/ upload[m].generation # 0
    BY <1>a, <2>1 DEF Attached, Unattached, RowsOf, SameJob, Present
  <2>6. UniqueRows' /\ BoundedRows'
    BY <2>1, <2>2, <2>4, <2>5, RowsKept DEF TrackingInv
  <2>7. ASSUME NEW b \in Attempts PROVE Tracked(b)'
    <3>1. \/ attempt'[b] = attempt[b]
          \/ attempt'[b].status = "awaiting-upload"
      BY <1>a, <2>3 DEF Unattached, AttemptRow
    <3> QED BY <2>1, <2>2, <3>1, TrackedKept DEF TrackingInv, Active
  <2> QED BY <2>6, <2>7 DEF TrackingInv
<1> QED BY <1>1, <1>2, <1>3, <1>4, <1>5 DEF LoudUpload

(* Claims, releases, failures and terminal writes keep the records         *)
(* tracked: only a terminal write drops one.                               *)
LEMMA TrackingProcessing ==
  ASSUME TypeOK, TypeOK', TrackingInv, ProcessingStep
  PROVE  TrackingInv'
<1> PICK m \in Media, l \in Leases :
      \/ ClaimProcessing(m, l) \/ ReleaseProcessingClaim(m, l)
      \/ RecordProcessingFailure(m, l) \/ DeadLetterProcessingClaim(m, l)
      \/ \E c \in Candidates, policyCurrent \in BOOLEAN :
           FinalizeTerminalResult(m, l, c, policyCurrent)
  BY DEF ProcessingStep
<1>a. /\ Owner[m] \in Attempts
      /\ attempt \in [Attempts -> AttemptRow]
      /\ \A b \in Attempts : attempt[b].generation \in Nat
  BY StoreAssumption DEF TypeOK, AttemptRow
<1>1. CASE ClaimProcessing(m, l)
  <2>1. /\ Active(Owner[m])
        /\ attempt[Owner[m]].status \in {"uploaded", "processing"}
    BY <1>1 DEF ClaimProcessing, ClaimAllowed
  <2>2. \A b \in Attempts :
          /\ attempt'[b].media = attempt[b].media
          /\ attempt'[b].generation = attempt[b].generation
          /\ attempt'[b].deletion = attempt[b].deletion
          /\ b # Owner[m] => attempt'[b] = attempt[b]
    BY <1>1, <1>a DEF ClaimProcessing, AttemptRow
  <2> QED BY <1>1, <1>a, <2>1, <2>2, BookkeepingKept, SMTT(30)
          DEF ClaimProcessing, GenerationsGrow, Present, Active
<1>2. CASE RecordProcessingFailure(m, l)
  BY <1>2, <1>a, BookkeepingKept
     DEF RecordProcessingFailure, GenerationsGrow, Present, Active
<1>b. ASSUME NEW s, attempt' = Unleased(Owner[m], s)
      PROVE  /\ attempt'[Owner[m]].status = s
             /\ \A b \in Attempts :
                  /\ attempt'[b].media = attempt[b].media
                  /\ attempt'[b].generation = attempt[b].generation
                  /\ attempt'[b].deletion = attempt[b].deletion
                  /\ b # Owner[m] => attempt'[b] = attempt[b]
  BY <1>a, <1>b DEF Unleased, AttemptRow
<1>3. CASE ReleaseProcessingClaim(m, l) \/ DeadLetterProcessingClaim(m, l)
  <2>1. /\ HoldsClaim(m, l)
        /\ attempt' = Unleased(Owner[m], "uploaded")
        /\ UNCHANGED <<delivery, upload>>
    BY <1>3 DEF ReleaseProcessingClaim, DeadLetterProcessingClaim
  <2>2. GenerationsGrow
    BY <1>a, <1>b, <2>1 DEF GenerationsGrow
  <2> QED BY <1>b, <2>1, <2>2, BookkeepingKept DEF HoldsClaim, Present, Active
<1>4. CASE \E c \in Candidates, policyCurrent \in BOOLEAN :
             FinalizeTerminalResult(m, l, c, policyCurrent)
  <2>1. PICK s \in Terminal : attempt' = Unleased(Owner[m], s)
    BY <1>4 DEF FinalizeTerminalResult, StatusOf, Candidates, Terminal
  <2>2. /\ \A x \in Media : \/ delivery'[x] = delivery[x]
                            \/ Owner[x] = Owner[m] /\ delivery'[x] = NoRow
        /\ UNCHANGED upload
    BY <1>4 DEF FinalizeTerminalResult, RowsOf, SameJob
  <2>3. \A x \in Media : /\ Present(x)' => Present(x)
                         /\ Owner[x] # Owner[m] => delivery'[x] = delivery[x]
    BY <2>2 DEF NoRow, Present
  <2>4. GenerationsGrow
    BY <1>a, <1>b, <2>1 DEF GenerationsGrow
  <2>5. UniqueRows' /\ BoundedRows'
    BY <2>2, <2>3, <2>4, RowsKept DEF TrackingInv
  <2>6. ASSUME NEW b \in Attempts PROVE Tracked(b)'
    <3>1. CASE b = Owner[m]
      BY <1>b, <2>1, <3>1 DEF Tracked, Terminal
    <3>2. CASE b # Owner[m]
      BY <1>b, <2>1, <2>2, <2>3, <3>2, TrackedKept DEF TrackingInv, Active, Present
    <3> QED BY <3>1, <3>2
  <2> QED BY <2>5, <2>6 DEF TrackingInv
<1> QED BY <1>1, <1>2, <1>3, <1>4

(* Every step keeps the delivery records unique, bounded and tracked.      *)
LEMMA TrackingStep ==
  TypeOK /\ TypeOK' /\ TrackingInv /\ [Next]_storeVars => TrackingInv'
<1> SUFFICES ASSUME TypeOK, TypeOK', TrackingInv, [Next]_storeVars
             PROVE  TrackingInv'
  OBVIOUS
<1>1. CASE Quiet
  <2>1. GenerationsGrow
    BY <1>1 DEF Quiet, GenerationsGrow, TypeOK, AttemptRow
  <2> QED BY <1>1, <2>1, BookkeepingKept DEF Quiet, Present, Active
<1> QED BY <1>1, StepCases, TrackingAttempt, TrackingUpload, TrackingProcessing

-----------------------------------------------------------------------------
(* The store's inductive invariant and what follows from it.               *)

StoreInv ==
  TypeOK /\ LeaseHeldIffProcessing /\ DeletionHides /\ TerminalRows /\ TrackingInv

(* The empty database satisfies the inductive invariant.                   *)
LEMMA StoreInvInit == Init => StoreInv
<1> SUFFICES ASSUME Init PROVE StoreInv
  OBVIOUS
<1>1. TypeOK
  BY TypeInit
<1>2. LeaseHeldIffProcessing /\ DeletionHides
  BY DEF Init, LeaseHeldIffProcessing, DeletionHides, Active
<1>3. TerminalRows
  BY DEF Init, TerminalRows, TerminalRow, Active, NoResult
<1>4. TrackingInv
  BY DEF Init, TrackingInv, UniqueRows, BoundedRows, Tracked, Present, NoRow, Active
<1> QED BY <1>1, <1>2, <1>3, <1>4 DEF StoreInv

(* Every step preserves the types.                                         *)
LEMMA TypeStep == TypeOK /\ [Next]_storeVars => TypeOK'
<1> SUFFICES ASSUME TypeOK, [Next]_storeVars PROVE TypeOK'
  OBVIOUS
<1>1. CASE Next
  BY <1>1, TypeAttempt, TypeAttachment, TypeRetention, TypeRecovery, TypeProcessing
     DEF Next
<1>2. CASE UNCHANGED storeVars
  BY <1>2 DEF storeVars, retentionVars, TypeOK
<1> QED BY <1>1, <1>2

(* Every step preserves the inductive invariant.                           *)
LEMMA StoreInvStep == StoreInv /\ [Next]_storeVars => StoreInv'
BY TypeStep, LeaseStep, DeletionStep, TerminalStep, TrackingStep DEF StoreInv

(* The inductive invariant of the attempt repository: it holds whatever    *)
(* its callers do, for every number of attempts, uploads and leases.       *)
THEOREM StoreInvariant == Spec => []StoreInv
BY StoreInvInit, StoreInvStep, PTL DEF Spec

(* Every row the repository can write has the shape its readers parse,     *)
(* whatever sequence of operations wrote it.                               *)
THEOREM TypeCorrect == Spec => []TypeOK
<1>1. StoreInv => TypeOK
  BY DEF StoreInv
<1> QED BY <1>1, StoreInvariant, PTL

(* No row is ever left in 'processing' without a lease that can expire     *)
(* (claimProcessing, finalizeTerminalResult, releaseProcessingClaim,       *)
(* deadLetterProcessingClaim and tombstoneAttempt together).               *)
THEOREM LeasesMatchStatus == Spec => []LeaseHeldIffProcessing
<1>1. StoreInv => LeaseHeldIffProcessing
  BY DEF StoreInv
<1> QED BY <1>1, StoreInvariant, PTL

(* Nothing that was still running when an attempt was deleted brings any   *)
(* published fact, retry record, claim or delivery of it back.             *)
THEOREM DeletionIsPermanent == Spec => []NoResurrection
<1>1. StoreInv => NoResurrection
  BY DeletionHidesIsEnough DEF StoreInv
<1> QED BY <1>1, StoreInvariant, PTL

(* Attempt status, terminal result and leaderboard entry agree.            *)
THEOREM TerminalTablesConsistent == Spec => []TerminalTablesAgree
<1>1. StoreInv => TerminalTablesAgree
  BY TerminalRowsAgree DEF StoreInv
<1> QED BY <1>1, StoreInvariant, PTL

(* A delivery record is the only one of its attempt and generation, every  *)
(* attempt a worker may take is tracked by one, and the job of a tracked   *)
(* upload can only be claimed while that upload is the attached one.       *)
THEOREM DeliveryRecordsAreSound == Spec => []DeliveriesIdentifyUploads
<1>1. StoreInv => DeliveriesIdentifyUploads
  BY TrackingIsEnough DEF StoreInv, DeliveriesIdentifyUploads
<1> QED BY <1>1, StoreInvariant, PTL

-----------------------------------------------------------------------------
(* Action properties.                                                      *)

(* A stored result is never replaced or withdrawn except by deletion.      *)
THEOREM ResultsAreFinal == Spec => OutcomeIsFinal
<1>1. StoreInv /\ [Next]_storeVars =>
        [\A a \in Attempts : result[a] # NoResult /\ result'[a] # result[a]
           => attempt'[a].deletion = "tombstoned"]_storeVars
  <2> SUFFICES ASSUME StoreInv, [Next]_storeVars, NEW b \in Attempts,
                      result[b] # NoResult, result'[b] # result[b]
               PROVE  attempt'[b].deletion = "tombstoned"
    OBVIOUS
  <2>a. /\ attempt \in [Attempts -> AttemptRow]
        /\ result \in [Attempts -> ResultRow]
        /\ result[b].outcome # "none"
    BY DEF StoreInv, TypeOK, TerminalRows, TerminalRow
  <2>1. CASE Quiet
    BY <2>1 DEF Quiet
  <2>2. ASSUME NEW a \in Attempts, LoudAttempt(a)
        PROVE  attempt'[b].deletion = "tombstoned"
    <3>1. TombstoneAttempt(a)
      BY <2>2 DEF LoudAttempt, CreateAttempt, ProcessingLeaseExpires
    <3> QED BY <2>a, <3>1 DEF TombstoneAttempt, Unpublish, AttemptRow
  <2>3. \A m \in Media : ~LoudUpload(m)
    BY DEF LoudUpload, PrepareMediaUpload, ScheduleRetention, AttachPreparedMedia,
           RollbackMediaAttachment, BeginMediaAttachmentRecovery
  <2>4. ASSUME ProcessingStep
        PROVE  FALSE
    <3> PICK m \in Media, l \in Leases, c \in Candidates, policyCurrent \in BOOLEAN :
          FinalizeTerminalResult(m, l, c, policyCurrent)
      BY <2>4 DEF ProcessingStep, ClaimProcessing, ReleaseProcessingClaim,
                  RecordProcessingFailure, DeadLetterProcessingClaim
    <3>1. Owner[m] = b
      BY <2>a DEF FinalizeTerminalResult
    <3> QED BY <2>a, <3>1 DEF FinalizeTerminalResult, FinalizeOutcome, AttemptRow
  <2> QED BY <2>1, <2>2, <2>3, <2>4, StepCases DEF StoreInv
<1> QED BY <1>1, StoreInvariant, PTL DEF Spec, OutcomeIsFinal

(* An attempt comes to reference another upload only under a generation it *)
(* never had.                                                              *)
THEOREM MediaChangesGeneration == Spec => NewMediaNewGeneration
<1>1. StoreInv /\ [Next]_storeVars =>
        [\A a \in Attempts : attempt'[a].media \notin {attempt[a].media, NoMedia}
           => attempt'[a].generation > attempt[a].generation]_storeVars
  <2> SUFFICES ASSUME StoreInv, [Next]_storeVars, NEW b \in Attempts,
                      attempt'[b].media \notin {attempt[b].media, NoMedia}
               PROVE  attempt'[b].generation > attempt[b].generation
    OBVIOUS
  <2>a. attempt \in [Attempts -> AttemptRow] /\ attempt[b].generation \in Nat
    BY DEF StoreInv, TypeOK, AttemptRow
  <2>1. ~Quiet
    BY DEF Quiet
  <2>2. ASSUME NEW a \in Attempts, LoudAttempt(a) PROVE FALSE
    <3>1. ~CreateAttempt(a) /\ ~ProcessingLeaseExpires(a)
      BY <2>a DEF CreateAttempt, ProcessingLeaseExpires, AttemptRow
    <3>2. ASSUME TombstoneAttempt(a) PROVE attempt'[b].media = attempt[b].media
      <4>1. CASE a = b
        <5>1. attempt'[b] = [attempt[b] EXCEPT !.deletion = "tombstoned",
                               !.generation = attempt[b].generation + 1,
                               !.lease = NoLease, !.live = FALSE]
          BY <2>a, <3>2, <4>1 DEF TombstoneAttempt
        <5>2. attempt[b] \in AttemptRow
          BY <2>a
        <5> QED BY <5>1, <5>2 DEF AttemptRow
      <4>2. CASE a # b
        BY <2>a, <3>2, <4>2 DEF TombstoneAttempt
      <4> QED BY <4>1, <4>2
    <3> QED BY <2>2, <3>1, <3>2 DEF LoudAttempt
  <2>3. ASSUME NEW m \in Media, LoudUpload(m)
        PROVE  attempt'[b].generation > attempt[b].generation
    <3>1. ~PrepareMediaUpload(m) /\ ~ScheduleRetention(m)
      BY DEF PrepareMediaUpload, ScheduleRetention
    <3>2. ~BeginMediaAttachmentRecovery(m)
      BY <2>a DEF BeginMediaAttachmentRecovery, AttemptRow
    <3>3. ~RollbackMediaAttachment(m)
      BY <2>a DEF RollbackMediaAttachment, AttemptRow
    <3>4. AttachPreparedMedia(m)
      BY <2>3, <3>1, <3>2, <3>3 DEF LoudUpload
    <3>5. Owner[m] = b
      BY <2>a, <3>4 DEF AttachPreparedMedia
    <3>6. attempt'[b].generation = attempt[b].generation + 1
      BY <2>a, <3>4, <3>5
         DEF AttachPreparedMedia, AttachAllowed, AttachedGeneration, AttemptRow
    <3> QED BY <2>a, <3>6
  <2>4. ~ProcessingStep
    <3> SUFFICES ASSUME NEW m \in Media, NEW l \in Leases,
                   \/ ClaimProcessing(m, l) \/ ReleaseProcessingClaim(m, l)
                   \/ RecordProcessingFailure(m, l) \/ DeadLetterProcessingClaim(m, l)
                   \/ \E c \in Candidates, policyCurrent \in BOOLEAN :
                        FinalizeTerminalResult(m, l, c, policyCurrent)
                 PROVE  FALSE
      BY DEF ProcessingStep
    <3>1. CASE ClaimProcessing(m, l)
      BY <2>a, <3>1 DEF ClaimProcessing, AttemptRow
    <3>2. CASE RecordProcessingFailure(m, l)
      BY <3>2 DEF RecordProcessingFailure
    <3>3. ASSUME NEW s, attempt' = Unleased(Owner[m], s) PROVE FALSE
      BY <2>a, <3>3 DEF Unleased, AttemptRow
    <3> QED BY <3>1, <3>2, <3>3 DEF ReleaseProcessingClaim, DeadLetterProcessingClaim,
                                    FinalizeTerminalResult
  <2> QED BY <2>1, <2>2, <2>3, <2>4, StepCases DEF StoreInv
<1> QED BY <1>1, StoreInvariant, PTL DEF Spec, NewMediaNewGeneration

-----------------------------------------------------------------------------
(* What the store leaves in the file, wherever the process stops: the      *)
(* attempts and delivery records that a later program opens.               *)

(* Undelivered records are those of the attached upload, and record        *)
(* whether it may be rolled back and was queued.                           *)
SoundRow(m) ==
  /\ delivery[m].state \in Undelivered => AttachedOrClaimed(m)
  /\ delivery[m].state = "pending-delivery" => delivery[m].rollback /\ ~delivery[m].queuedAt
  /\ delivery[m].state = "queued" => ~delivery[m].rollback /\ delivery[m].queuedAt
RowsAreSound == \A m \in Media : SoundRow(m)

(* The attempt of a record stays where the record needs it to be.          *)
AttemptKept(m) ==
  LET a == Owner[m] IN
  AttachedOrClaimed(m) =>
    /\ attempt'[a].deletion = "active"
    /\ attempt'[a].status \in {"uploaded", "processing"}
    /\ attempt'[a].media = attempt[a].media
    /\ attempt'[a].generation = attempt[a].generation
    /\ upload'[m].generation = upload[m].generation

(* A record that leaves the undelivered states, or keeps its columns while *)
(* its attempt stays, stays sound.                                         *)
LEMMA SoundRowKept ==
  ASSUME NEW m \in Media, SoundRow(m),
         \/ delivery'[m].state \notin Undelivered
         \/ /\ AttemptKept(m)
            /\ delivery'[m].state = delivery[m].state
            /\ delivery'[m].rollback = delivery[m].rollback
            /\ delivery'[m].queuedAt = delivery[m].queuedAt
  PROVE  SoundRow(m)'
BY DEF SoundRow, AttemptKept, AttachedOrClaimed, Active, SameGeneration, Undelivered

(* A record that is marked as queued while its attempt stays is sound.     *)
LEMMA SoundRowQueued ==
  ASSUME NEW m \in Media, SoundRow(m), delivery[m].state \in Undelivered, AttemptKept(m),
         delivery'[m].state = "queued", ~delivery'[m].rollback, delivery'[m].queuedAt
  PROVE  SoundRow(m)'
BY DEF SoundRow, AttemptKept, AttachedOrClaimed, Active, SameGeneration, Undelivered

(* A step that leaves attempts and uploads alone keeps every attempt.      *)
LEMMA AttemptsKept ==
  ASSUME UNCHANGED <<attempt, upload>>, NEW m \in Media
  PROVE  AttemptKept(m)
BY DEF AttemptKept, AttachedOrClaimed, Active, SameGeneration

(* Creating, deleting or expiring an attempt keeps its records sound.      *)
LEMMA SoundAttempt ==
  ASSUME TypeOK, NEW x \in Media, SoundRow(x), NEW a \in Attempts, LoudAttempt(a)
  PROVE  SoundRow(x)'
<1>a. /\ Owner[x] \in Attempts /\ attempt \in [Attempts -> AttemptRow]
      /\ delivery \in [Media -> DeliveryRow]
  BY StoreAssumption DEF TypeOK
<1>1. CASE CreateAttempt(a)
  <2>1. AttemptKept(x) /\ UNCHANGED delivery
    BY <1>a, <1>1 DEF CreateAttempt, AttemptKept, AttachedOrClaimed, Active, AttemptRow
  <2> QED BY <2>1, SoundRowKept
<1>2. CASE ProcessingLeaseExpires(a)
  <2>1. AttemptKept(x) /\ UNCHANGED delivery
    BY <1>a, <1>2
       DEF ProcessingLeaseExpires, AttemptKept, AttachedOrClaimed, Active, AttemptRow
  <2> QED BY <2>1, SoundRowKept
<1>3. CASE TombstoneAttempt(a) /\ Owner[x] = a
  <2>1. delivery'[x].state \notin Undelivered
    BY <1>a, <1>3 DEF TombstoneAttempt, Undelivered, DeliveryRow, DeliveryStates
  <2> QED BY <2>1, SoundRowKept
<1>4. CASE TombstoneAttempt(a) /\ Owner[x] # a
  <2>1. attempt'[Owner[x]] = attempt[Owner[x]] /\ delivery'[x] = delivery[x]
        /\ UNCHANGED upload
    BY <1>a, <1>4 DEF TombstoneAttempt
  <2>2. AttemptKept(x)
    BY <2>1 DEF AttemptKept, AttachedOrClaimed, Active
  <2> QED BY <2>1, <2>2, SoundRowKept
<1> QED BY <1>1, <1>2, <1>3, <1>4 DEF LoudAttempt

(* An upload's preparation, attachment and compensation keep the records   *)
(* sound: what is attached or withdrawn leaves no other undelivered one.   *)
LEMMA SoundUpload ==
  ASSUME TypeOK, BoundedRows, NEW x \in Media, SoundRow(x),
         NEW m \in Media,
         \/ LoudUpload(m) \/ MarkMediaDeliveryQueued(m)
         \/ AcknowledgeMediaAttachmentCleanup(m)
  PROVE  SoundRow(x)'
<1>a. /\ Owner[x] \in Attempts /\ Owner[m] \in Attempts
      /\ attempt \in [Attempts -> AttemptRow]
      /\ delivery \in [Media -> DeliveryRow]
      /\ upload \in [Media -> [generation : Nat, accepted : BOOLEAN]]
  BY StoreAssumption DEF TypeOK
<1>b. delivery[x].state \in Undelivered => AttachedOrClaimed(x)
  BY DEF SoundRow
<1>1. CASE PrepareMediaUpload(m)
  <2>1. ~Present(m) /\ UNCHANGED <<attempt, delivery>>
    BY <1>1 DEF PrepareMediaUpload, BoundedRows
  <2>2. x # m => upload'[x] = upload[x]
    BY <1>1, <1>a DEF PrepareMediaUpload
  <2>3. x # m => AttemptKept(x)
    BY <2>1, <2>2 DEF AttemptKept, AttachedOrClaimed, Active
  <2> QED BY <2>1, <2>3, SoundRowKept DEF Present, Undelivered
<1>2. CASE ScheduleRetention(m)
  <2>1. UNCHANGED <<attempt, delivery>> /\ upload'[x].generation = upload[x].generation
    BY <1>2, <1>a DEF ScheduleRetention
  <2> QED BY <2>1, SoundRowKept DEF AttemptKept, AttachedOrClaimed, Active
<1>3. CASE AttachPreparedMedia(m)
  <2>1. Active(Owner[m]) /\ attempt[Owner[m]].status = "awaiting-upload" /\ UNCHANGED upload
    BY <1>3 DEF AttachPreparedMedia, AttachAllowed, AwaitingUpload
  <2>2. /\ attempt'[Owner[m]].status = "uploaded"
        /\ attempt'[Owner[m]].deletion = attempt[Owner[m]].deletion
        /\ attempt'[Owner[m]].media = m
        /\ attempt'[Owner[m]].generation = upload[m].generation
        /\ \A b \in Attempts : b # Owner[m] => attempt'[b] = attempt[b]
    BY <1>3, <1>a DEF AttachPreparedMedia, AttachedGeneration, AttemptRow
  <2>3. CASE x = m
    <3>1. delivery'[m] = [NoRow EXCEPT !.state = "pending-delivery", !.rollback = TRUE]
      BY <1>3, <1>a DEF AttachPreparedMedia
    <3>2. AttachedOrClaimed(m)'
      BY <2>1, <2>2 DEF AttachedOrClaimed, Active, SameGeneration
    <3> QED BY <2>3, <3>1, <3>2 DEF SoundRow, NoRow
  <2>4. CASE x # m
    <3>1. delivery'[x] = delivery[x]
      BY <1>3, <1>a, <2>4 DEF AttachPreparedMedia
    <3>2. AttachedOrClaimed(x) => attempt'[Owner[x]] = attempt[Owner[x]]
      BY <1>a, <2>1, <2>2 DEF AttachedOrClaimed
    <3>3. AttemptKept(x)
      BY <2>1, <3>2 DEF AttemptKept, AttachedOrClaimed, Active
    <3> QED BY <3>1, <3>3, SoundRowKept
  <2> QED BY <2>3, <2>4
<1>4. CASE RollbackMediaAttachment(m)
  <2>1. Attached(m) /\ UNCHANGED upload
    BY <1>4 DEF RollbackMediaAttachment, RollbackAllowed
  <2>2. CASE x = m
    <3>1. delivery'[m].state \in {"resolved", "cleanup-recoverable"}
      BY <1>4, <1>a DEF RollbackMediaAttachment, DeliveryRow
    <3> QED BY <2>2, <3>1, SoundRowKept DEF Undelivered
  <2>3. CASE x # m
    <3>1. delivery'[x] = delivery[x]
      BY <1>4, <1>a, <2>3 DEF RollbackMediaAttachment
    <3>2. AttachedOrClaimed(x) => attempt'[Owner[x]] = attempt[Owner[x]]
      BY <1>4, <1>a, <2>1, <2>3
         DEF RollbackMediaAttachment, AttachedOrClaimed, Attached
    <3>3. AttemptKept(x)
      BY <2>1, <3>2 DEF AttemptKept, AttachedOrClaimed, Active
    <3> QED BY <3>1, <3>3, SoundRowKept
  <2> QED BY <2>2, <2>3
<1>5. CASE /\ UNCHANGED <<attempt, upload>>
           /\ delivery' = [delivery EXCEPT ![m].state = "cleanup-recoverable",
                                           ![m].leased = "no"]
  <2>1. AttemptKept(x)
    BY <1>5, AttemptsKept
  <2>2. x = m => delivery'[x].state = "cleanup-recoverable"
    BY <1>5, <1>a DEF DeliveryRow
  <2>3. x # m => delivery'[x] = delivery[x]
    BY <1>5, <1>a
  <2> QED BY <2>1, <2>2, <2>3, SoundRowKept DEF Undelivered
<1>6. CASE /\ Unattached(m) /\ UNCHANGED upload
           /\ attempt' = [attempt EXCEPT ![Owner[m]].generation = upload[m].generation]
           /\ delivery' = [delivery EXCEPT ![m] =
                CASE @.state = "absent" -> [NoRow EXCEPT !.state = "cleanup-recoverable"]
                  [] @.state # "absent" /\ ~@.rollback ->
                       [@ EXCEPT !.state = "cleanup-recoverable"]
                  [] OTHER -> @]
  <2>1. UNCHANGED upload /\ attempt[Owner[m]].status = "awaiting-upload"
    BY <1>6 DEF Unattached
  <2>2. AttachedOrClaimed(x) => attempt'[Owner[x]] = attempt[Owner[x]]
    BY <1>6, <1>a, <2>1 DEF AttachedOrClaimed
  <2>3. AttemptKept(x)
    BY <2>1, <2>2 DEF AttemptKept, AttachedOrClaimed, Active
  <2>4. x # m => delivery'[x] = delivery[x]
    BY <1>6, <1>a
  <2>5. x = m => delivery[m].state \notin Undelivered
    BY <1>b, <2>1 DEF AttachedOrClaimed
  <2>6. x = m => delivery'[x].state \notin Undelivered
    <3> SUFFICES ASSUME x = m PROVE delivery'[m].state \notin Undelivered
      OBVIOUS
    <3>1. delivery[m] \in DeliveryRow /\ NoRow \in DeliveryRow
      BY <1>a, NoRowType
    <3>2. \/ delivery'[m] = [NoRow EXCEPT !.state = "cleanup-recoverable"]
          \/ delivery'[m] = [delivery[m] EXCEPT !.state = "cleanup-recoverable"]
          \/ delivery'[m] = delivery[m]
      BY <1>6, <1>a
    <3>3. delivery'[m].state = "cleanup-recoverable" \/ delivery'[m] = delivery[m]
      BY <3>1, <3>2 DEF DeliveryRow
    <3> QED BY <2>5, <3>3 DEF Undelivered
  <2> QED BY <2>3, <2>4, <2>6, SoundRowKept
<1>7. CASE MarkMediaDeliveryQueued(m)
  <2>1. x # m => delivery'[x] = delivery[x]
    BY <1>7, <1>a DEF MarkMediaDeliveryQueued
  <2>2. AttemptKept(x)
    BY <1>7, AttemptsKept DEF MarkMediaDeliveryQueued
  <2>3. /\ delivery[m].state = "pending-delivery" /\ delivery'[m].state = "queued"
        /\ ~delivery'[m].rollback /\ delivery'[m].queuedAt
    BY <1>7, <1>a DEF MarkMediaDeliveryQueued, DeliveryRow
  <2>4. CASE x = m
    BY <2>2, <2>3, <2>4, SoundRowQueued DEF Undelivered
  <2>5. CASE x # m
    BY <2>1, <2>2, <2>5, SoundRowKept
  <2> QED BY <2>4, <2>5
<1>8. CASE AcknowledgeMediaAttachmentCleanup(m)
  <2>1. AttemptKept(x)
    BY <1>8, AttemptsKept DEF AcknowledgeMediaAttachmentCleanup
  <2>2. delivery'[x] = delivery[x] \/ delivery'[x].state = "resolved"
    BY <1>8, <1>a DEF AcknowledgeMediaAttachmentCleanup, Reconciled, DeliveryRow
  <2> QED BY <2>1, <2>2, SoundRowKept DEF Undelivered
<1>9. CASE BeginMediaAttachmentRecovery(m)
  BY <1>5, <1>6, <1>9 DEF BeginMediaAttachmentRecovery
<1> QED BY <1>1, <1>2, <1>3, <1>4, <1>7, <1>8, <1>9 DEF LoudUpload

(* Deadlines, acknowledged deletions and recovery leases keep the records  *)
(* sound.                                                                  *)
LEMMA SoundBookkeeping ==
  ASSUME TypeOK, NEW x \in Media, SoundRow(x), RetentionStep \/ RecoveryStep
  PROVE  SoundRow(x)'
<1>a. delivery \in [Media -> DeliveryRow]
  BY DEF TypeOK
<1>b. Quiet
  BY RetentionIsQuiet, RecoveryIsQuiet
<1>c. AttemptKept(x)
  BY <1>b, AttemptsKept DEF Quiet
<1>1. CASE RetentionStep
  <2>1. CASE \E m \in Media : TransitionDeadline(m) \/ OriginalDeadline(m)
    <3>1. delivery' = delivery
      BY <2>1 DEF TransitionDeadline, OriginalDeadline
    <3> QED BY <1>c, <3>1, SoundRowKept
  <2>2. ASSUME NEW m \in Media, NEW kind, AcknowledgeRetention(kind, m)
        PROVE  SoundRow(x)'
    <3>1. delivery' = Reconciled(Owner[m], original', frame')
      BY <2>2 DEF AcknowledgeRetention
    <3>2. delivery'[x] = delivery[x] \/ delivery'[x].state = "resolved"
      BY <1>a, <3>1 DEF Reconciled, DeliveryRow
    <3> QED BY <1>c, <3>2, SoundRowKept DEF Undelivered
  <2> QED BY <1>1, <2>1, <2>2 DEF RetentionStep
<1>2. CASE \E batch \in SUBSET Media :
             \/ ClaimMediaDeliveryRedelivery(batch)
             \/ ClaimMediaAttachmentRecovery(batch)
  <2>1. \/ delivery'[x] = delivery[x]
        \/ delivery'[x] = [delivery[x] EXCEPT !.leased = "live"]
    BY <1>2 DEF ClaimMediaDeliveryRedelivery, ClaimMediaAttachmentRecovery, ClaimRows
  <2> QED BY <1>a, <1>c, <2>1, SoundRowKept DEF DeliveryRow
<1>3. ASSUME NEW m \in Media,
             \/ ReleaseMediaDeliveryRedelivery(m) \/ ReleaseMediaAttachmentRecovery(m)
             \/ RecoveryLeaseExpires(m)
      PROVE  SoundRow(x)'
  <2>1. \/ delivery'[x] = delivery[x]
        \/ \E k : delivery'[x] = [delivery[x] EXCEPT !.leased = k]
    BY <1>3, <1>a DEF ReleaseMediaDeliveryRedelivery, ReleaseMediaAttachmentRecovery,
                      ReleaseRow, RecoveryLeaseExpires
  <2> QED BY <1>a, <1>c, <2>1, SoundRowKept DEF DeliveryRow
<1>4. ASSUME NEW m \in Media, AcknowledgeMediaDeliveryRedelivery(m)
      PROVE  SoundRow(x)'
  <2>1. CASE x = m
    <3>1. /\ delivery[m].state \in Undelivered /\ delivery'[m].state = "queued"
          /\ ~delivery'[m].rollback /\ delivery'[m].queuedAt
      BY <1>4, <1>a DEF AcknowledgeMediaDeliveryRedelivery, AckRedeliveryAllowed, DeliveryRow
    <3> QED BY <1>c, <2>1, <3>1, SoundRowQueued
  <2>2. CASE x # m
    <3>1. delivery'[x] = delivery[x]
      BY <1>4, <1>a, <2>2 DEF AcknowledgeMediaDeliveryRedelivery
    <3> QED BY <1>c, <3>1, SoundRowKept
  <2> QED BY <2>1, <2>2
<1> QED BY <1>1, <1>2, <1>3, <1>4 DEF RecoveryStep

(* A worker's claim moves its attempt between waiting and being processed; *)
(* the terminal write drops every undelivered record of the attempt.       *)
LEMMA SoundProcessing ==
  ASSUME TypeOK, NEW x \in Media, SoundRow(x), ProcessingStep
  PROVE  SoundRow(x)'
<1> PICK m \in Media, l \in Leases :
      \/ ClaimProcessing(m, l) \/ ReleaseProcessingClaim(m, l)
      \/ RecordProcessingFailure(m, l) \/ DeadLetterProcessingClaim(m, l)
      \/ \E c \in Candidates, policyCurrent \in BOOLEAN :
           FinalizeTerminalResult(m, l, c, policyCurrent)
  BY DEF ProcessingStep
<1>a. /\ Owner[x] \in Attempts /\ Owner[m] \in Attempts
      /\ attempt \in [Attempts -> AttemptRow]
      /\ delivery \in [Media -> DeliveryRow]
  BY StoreAssumption DEF TypeOK
<1>1. CASE ClaimProcessing(m, l)
  <2>1. AttemptKept(x) /\ UNCHANGED delivery
    BY <1>1, <1>a DEF ClaimProcessing, AttemptKept, AttachedOrClaimed, Active, AttemptRow
  <2> QED BY <2>1, SoundRowKept
<1>2. CASE RecordProcessingFailure(m, l)
  <2>1. AttemptKept(x) /\ UNCHANGED delivery
    BY <1>2, AttemptsKept DEF RecordProcessingFailure
  <2> QED BY <2>1, SoundRowKept
<1>3. CASE ReleaseProcessingClaim(m, l) \/ DeadLetterProcessingClaim(m, l)
  <2>1. attempt' = Unleased(Owner[m], "uploaded") /\ UNCHANGED <<delivery, upload>>
    BY <1>3 DEF ReleaseProcessingClaim, DeadLetterProcessingClaim
  <2>2. AttemptKept(x)
    BY <1>a, <2>1 DEF Unleased, AttemptKept, AttachedOrClaimed, Active, AttemptRow
  <2> QED BY <2>1, <2>2, SoundRowKept
<1>4. CASE \E c \in Candidates, policyCurrent \in BOOLEAN :
             FinalizeTerminalResult(m, l, c, policyCurrent)
  <2>1. PICK s : attempt' = Unleased(Owner[m], s)
    BY <1>4 DEF FinalizeTerminalResult
  <2>2. /\ SameGeneration(m) /\ UNCHANGED upload
        /\ delivery'[x] = IF x \in RowsOf(m) /\ delivery[x].state \in Undelivered
                          THEN NoRow ELSE delivery[x]
    BY <1>4 DEF FinalizeTerminalResult, FinalizeOutcome, HoldsClaim
  <2>3. CASE Owner[x] = Owner[m]
    <3>1. delivery[x].state \in Undelivered => x \in RowsOf(m)
      BY <2>2, <2>3 DEF SoundRow, AttachedOrClaimed, SameGeneration, RowsOf, SameJob,
                        Undelivered
    <3>2. delivery'[x].state \notin Undelivered
      BY <2>2, <3>1 DEF NoRow, Undelivered
    <3> QED BY <3>2, SoundRowKept
  <2>4. CASE Owner[x] # Owner[m]
    <3>1. delivery'[x] = delivery[x]
      BY <2>2, <2>4 DEF RowsOf, SameJob
    <3>2. attempt'[Owner[x]] = attempt[Owner[x]]
      BY <1>a, <2>1, <2>4 DEF Unleased
    <3>3. AttemptKept(x)
      BY <2>2, <3>2 DEF AttemptKept, AttachedOrClaimed, Active
    <3> QED BY <3>1, <3>3, SoundRowKept
  <2> QED BY <2>3, <2>4
<1> QED BY <1>1, <1>2, <1>3, <1>4

(* Every step keeps the delivery records sound.                            *)
LEMMA SoundRowsStep ==
  StoreInv /\ RowsAreSound /\ [Next]_storeVars => RowsAreSound'
<1> SUFFICES ASSUME StoreInv, RowsAreSound, [Next]_storeVars, NEW x \in Media
             PROVE  SoundRow(x)'
  BY DEF RowsAreSound
<1>a. TypeOK /\ BoundedRows /\ SoundRow(x)
  BY DEF StoreInv, TrackingInv, RowsAreSound
<1>1. CASE AttemptStep
  BY <1>a, <1>1, SoundAttempt DEF AttemptStep, LoudAttempt
<1>2. CASE AttachmentStep
  BY <1>a, <1>2, SoundUpload DEF AttachmentStep, LoudUpload
<1>3. CASE RetentionStep \/ RecoveryStep
  BY <1>a, <1>3, SoundBookkeeping
<1>4. CASE ProcessingStep
  BY <1>a, <1>4, SoundProcessing
<1>5. CASE UNCHANGED storeVars
  BY <1>a, <1>5, AttemptsKept, SoundRowKept DEF storeVars
<1> QED BY <1>1, <1>2, <1>3, <1>4, <1>5 DEF Next

(* The database upgrade's predicates on a stored attempt.  Its variables   *)
(* and processes play no part in them.                                     *)
Upgrade == INSTANCE DatabaseUpgrade WITH
  Openers <- {}, Nobody <- NoMedia, LegacyFiles <- {},
  file <- NoMedia, draft <- NoMedia, opener <- NoMedia, lock <- NoMedia

(* The rows of attempt a as that module reads them.  The context is        *)
(* written with the media and cleared when the attempt is withdrawn,       *)
(* finalized or deleted; a record of the attached upload names the media   *)
(* and the frames of its attempt, any other record those of its own upload.*)
FileRow(a) ==
  [life |-> attempt[a].deletion,
   status |-> IF attempt[a].status \in Terminal THEN "terminal" ELSE attempt[a].status,
   generation |-> attempt[a].generation,
   media |-> IF attempt[a].media = NoMedia THEN "no" ELSE "six",
   context |-> IF Active(a) /\ attempt[a].status \in {"uploaded", "processing"}
               THEN "exact" ELSE "no",
   deliveries |->
     {[generation |-> upload[m].generation,
       media |-> m = attempt[a].media,
       frame |-> IF m = attempt[a].media THEN "own" ELSE "other",
       state |-> delivery[m].state,
       rollback |-> delivery[m].rollback, queuedAt |-> delivery[m].queuedAt]
      : m \in {x \in Media : Owner[x] = a /\ Present(x)}}]

FilesAreLeftAsUpgradesExpect ==
  \A a \in Attempts : attempt[a].status # "absent" => Upgrade!DeliveryIsSound(FileRow(a))

(* In sound tables, an attempt is what the upgrade expects of one.         *)
LEMMA SoundRowsAreSoundFiles ==
  StoreInv /\ RowsAreSound => FilesAreLeftAsUpgradesExpect
<1> SUFFICES ASSUME StoreInv, RowsAreSound,
                    NEW a \in Attempts, attempt[a].status # "absent"
             PROVE  Upgrade!DeliveryIsSound(FileRow(a))
  BY DEF FilesAreLeftAsUpgradesExpect
<1> DEFINE d == FileRow(a)
           row(m) == [generation |-> upload[m].generation,
                      media |-> m = attempt[a].media,
                      frame |-> IF m = attempt[a].media THEN "own" ELSE "other",
                      state |-> delivery[m].state,
                      rollback |-> delivery[m].rollback,
                      queuedAt |-> delivery[m].queuedAt]
           rows == {x \in Media : Owner[x] = a /\ Present(x)}
<1>1. /\ d.life = attempt[a].deletion
      /\ d.status \in {"uploaded", "processing"} <=>
           attempt[a].status \in {"uploaded", "processing"}
      /\ d.generation = attempt[a].generation
      /\ d.media = IF attempt[a].media = NoMedia THEN "no" ELSE "six"
      /\ d.deliveries = {row(m) : m \in rows}
  BY DEF FileRow, Terminal
<1>2. Upgrade!Live(d) <=> Active(a) /\ attempt[a].status \in {"uploaded", "processing"}
  BY <1>1 DEF Upgrade!Live, Active
<1>3. Upgrade!Live(d) => d.context = "exact"
  BY <1>2 DEF FileRow
<1>4. \A m \in rows : /\ row(m).frame # "none" /\ row(m).state = delivery[m].state
                      /\ row(m).rollback = delivery[m].rollback
                      /\ row(m).queuedAt = delivery[m].queuedAt
  OBVIOUS
<1>5. ASSUME NEW m \in rows, m = attempt[a].media,
             upload[m].generation = attempt[a].generation
      PROVE  Upgrade!Agrees(d, row(m))
  BY <1>1, <1>5 DEF Upgrade!Agrees
<1> HIDE DEF d, row
<1>6. ASSUME Upgrade!Live(d)
      PROVE  Upgrade!ContextIsExact(d) /\ \E r \in d.deliveries : Upgrade!Agrees(d, r)
  <2>1. /\ attempt[a].media \in rows
        /\ upload[attempt[a].media].generation = attempt[a].generation
    BY <1>2, <1>6 DEF StoreInv, TrackingInv, Tracked
  <2>2. attempt[a].media # NoMedia
    BY <2>1, StoreAssumption
  <2>3. Upgrade!ContextIsExact(d)
    BY <1>1, <1>3, <1>6, <2>2 DEF Upgrade!ContextIsExact, Upgrade!Uploaded
  <2>4. Upgrade!Agrees(d, row(attempt[a].media))
    BY <1>5, <2>1
  <2> QED BY <1>1, <2>1, <2>3, <2>4
<1>7. ASSUME NEW r \in d.deliveries
      PROVE  /\ r.frame # "none"
             /\ r.state \in Upgrade!Undelivered =>
                  Upgrade!Live(d) /\ Upgrade!Agrees(d, r)
             /\ r.state = "pending-delivery" => r.rollback /\ ~r.queuedAt
             /\ r.state = "queued" => ~r.rollback /\ r.queuedAt
  <2>1. PICK m \in rows : r = row(m)
    BY <1>1
  <2>2. SoundRow(m)
    BY DEF RowsAreSound
  <2>3. ASSUME delivery[m].state \in Undelivered
        PROVE  Upgrade!Live(d) /\ Upgrade!Agrees(d, r)
    <3>1. AttachedOrClaimed(m)
      BY <2>2, <2>3 DEF SoundRow
    <3>2. Upgrade!Live(d)
      BY <1>2, <3>1 DEF AttachedOrClaimed
    <3> QED BY <1>5, <2>1, <3>1, <3>2 DEF AttachedOrClaimed, SameGeneration
  <2>4. /\ delivery[m].state = "pending-delivery" => delivery[m].rollback /\ ~delivery[m].queuedAt
        /\ delivery[m].state = "queued" => ~delivery[m].rollback /\ delivery[m].queuedAt
    BY <2>2 DEF SoundRow
  <2> QED BY <1>4, <2>1, <2>3, <2>4 DEF Undelivered, Upgrade!Undelivered
<1> QED BY <1>6, <1>7 DEF Upgrade!DeliveryIsSound, d

(* Wherever the process stops, even between beginMediaAttachmentRecovery   *)
(* and the rollback, or after the scavenger deleted the bytes of an upload *)
(* that still waits, the file holds what DatabaseUpgrade's LeftBy says the *)
(* program leaves: the attempt that waits or is processed has a record of  *)
(* its own, in whatever state, and only such an attempt is delivered.      *)
THEOREM FilesAreLeftSound == Spec => []FilesAreLeftAsUpgradesExpect
<1>1. Init => RowsAreSound
  BY DEF Init, RowsAreSound, SoundRow, NoRow, Undelivered
<1>2. StoreInv /\ RowsAreSound => FilesAreLeftAsUpgradesExpect
  BY SoundRowsAreSoundFiles
<1> QED BY <1>1, <1>2, SoundRowsStep, StoreInvariant, PTL DEF Spec

-----------------------------------------------------------------------------
(* Refinement: every step of the store is a step of the attempt lifecycle  *)
(* its callers are promised, or leaves the lifecycle alone.                *)

DeletionsKept == \A b \in Attempts : attempt'[b].deletion = attempt[b].deletion

(* A step that changes no status, outcome, deletion or entry is invisible  *)
(* to the lifecycle.                                                       *)
LEMMA LifecycleStutters ==
  ASSUME DeletionsKept, \A b \in Attempts : attempt'[b].status = attempt[b].status,
         \A b \in Attempts : result'[b].outcome = result[b].outcome, board' = board
  PROVE  UNCHANGED Lifecycle!lifecycleVars
BY DEF DeletionsKept, Lifecycle!lifecycleVars

(* A change of one active attempt's status alone is one advance of the     *)
(* lifecycle.                                                              *)
LEMMA LifecycleAdvances ==
  ASSUME NEW a \in Attempts, NEW to, DeletionsKept,
         attempt[a].deletion = "active", attempt'[a].status = to,
         \A b \in Attempts : b # a => attempt'[b].status = attempt[b].status
  PROVE  Lifecycle!Advance(a, attempt[a].status, to)
BY DEF DeletionsKept, Lifecycle!Advance

(* A step that touches no result and no entry publishes nothing.           *)
LEMMA LifecyclePends ==
  ASSUME DeletionsKept, UNCHANGED <<result, board>>
  PROVE  Lifecycle!Pending
BY DEF DeletionsKept, Lifecycle!Pending

(* Creating, deleting or expiring an attempt is a lifecycle step or        *)
(* invisible.                                                              *)
LEMMA AttemptRefines ==
  ASSUME StoreInv, NEW a \in Attempts, LoudAttempt(a)
  PROVE  [Lifecycle!Next]_Lifecycle!lifecycleVars
<1>a. attempt \in [Attempts -> AttemptRow] /\ result \in [Attempts -> ResultRow]
  BY DEF StoreInv, TypeOK
<1>1. CASE CreateAttempt(a)
  <2>1. attempt[a].deletion = "active" /\ attempt[a].status = "absent"
    BY <1>1, <1>a DEF CreateAttempt, StoreInv, TerminalRows, TerminalRow
  <2>2. /\ DeletionsKept /\ attempt'[a].status = "awaiting-upload"
        /\ \A b \in Attempts : b # a => attempt'[b].status = attempt[b].status
    BY <1>1, <1>a DEF CreateAttempt, DeletionsKept, AttemptRow
  <2>3. Lifecycle!Created(a)
    BY <1>1, <2>1, <2>2, LifecycleAdvances, LifecyclePends
       DEF CreateAttempt, Lifecycle!Created
  <2> QED BY <2>3 DEF Lifecycle!Next
<1>2. CASE ProcessingLeaseExpires(a)
  <2>1. DeletionsKept /\ \A b \in Attempts : attempt'[b].status = attempt[b].status
    BY <1>2, <1>a DEF ProcessingLeaseExpires, DeletionsKept, AttemptRow
  <2> QED BY <1>2, <2>1, LifecycleStutters DEF ProcessingLeaseExpires
<1>3. CASE TombstoneAttempt(a)
  <2>1. /\ attempt'[a].deletion = "tombstoned"
        /\ \A b \in Attempts : b # a => attempt'[b] = attempt[b]
        /\ \A b \in Attempts : attempt'[b].status = attempt[b].status
    BY <1>3, <1>a DEF TombstoneAttempt, AttemptRow
  <2>2. /\ result'[a].outcome = "none"
        /\ \A b \in Attempts : b # a => result'[b] = result[b]
        /\ board' = board \ {a}
    BY <1>3, <1>a DEF TombstoneAttempt, Unpublish, NoResult
  <2>3. Active(a)
    BY <1>3 DEF TombstoneAttempt
  <2>4. Lifecycle!Tombstoned(a)
    <3>1. {b \in Attempts : attempt'[b].deletion = "tombstoned"}
            = {b \in Attempts : attempt[b].deletion = "tombstoned"} \cup {a}
      BY <2>1
    <3>2. [b \in Attempts |-> result'[b].outcome]
            = [[b \in Attempts |-> result[b].outcome] EXCEPT ![a] = "none"]
      BY <2>2
    <3>3. [b \in Attempts |-> attempt'[b].status] = [b \in Attempts |-> attempt[b].status]
      BY <2>1
    <3>4. /\ [b \in Attempts |-> attempt[b].status][a] # "absent"
          /\ a \notin {b \in Attempts : attempt[b].deletion = "tombstoned"}
      BY <2>3 DEF Active
    <3> QED BY <2>2, <3>1, <3>2, <3>3, <3>4 DEF Lifecycle!Tombstoned
  <2> QED BY <2>4 DEF Lifecycle!Next
<1> QED BY <1>1, <1>2, <1>3 DEF LoudAttempt

(* A step of an upload's attachment is a lifecycle step or invisible.      *)
LEMMA UploadRefines ==
  ASSUME StoreInv, NEW m \in Media, LoudUpload(m)
  PROVE  [Lifecycle!Next]_Lifecycle!lifecycleVars
<1>a. Owner[m] \in Attempts /\ attempt \in [Attempts -> AttemptRow]
  BY StoreAssumption DEF StoreInv, TypeOK
<1>1. CASE PrepareMediaUpload(m) \/ ScheduleRetention(m)
  BY <1>1, LifecycleStutters DEF PrepareMediaUpload, ScheduleRetention, DeletionsKept
<1>2. CASE BeginMediaAttachmentRecovery(m)
  <2>1. DeletionsKept /\ \A b \in Attempts : attempt'[b].status = attempt[b].status
    BY <1>2, <1>a DEF BeginMediaAttachmentRecovery, DeletionsKept, AttemptRow
  <2> QED BY <1>2, <2>1, LifecycleStutters DEF BeginMediaAttachmentRecovery
<1>3. CASE AttachPreparedMedia(m)
  <2>1. Active(Owner[m]) /\ attempt[Owner[m]].status = "awaiting-upload"
    BY <1>3 DEF AttachPreparedMedia, AttachAllowed, AwaitingUpload
  <2>2. /\ DeletionsKept /\ attempt'[Owner[m]].status = "uploaded"
        /\ \A b \in Attempts : b # Owner[m] => attempt'[b].status = attempt[b].status
    BY <1>3, <1>a DEF AttachPreparedMedia, DeletionsKept, AttemptRow
  <2>3. Lifecycle!MediaAccepted(Owner[m])
    BY <1>3, <1>a, <2>1, <2>2, LifecycleAdvances, LifecyclePends
       DEF AttachPreparedMedia, Active, Lifecycle!MediaAccepted
  <2> QED BY <1>a, <2>3 DEF Lifecycle!Next
<1>4. CASE RollbackMediaAttachment(m)
  <2>1. Active(Owner[m]) /\ attempt[Owner[m]].status = "uploaded"
    BY <1>4 DEF RollbackMediaAttachment, RollbackAllowed, Attached
  <2>2. /\ DeletionsKept /\ attempt'[Owner[m]].status = "awaiting-upload"
        /\ \A b \in Attempts : b # Owner[m] => attempt'[b].status = attempt[b].status
    BY <1>4, <1>a DEF RollbackMediaAttachment, DeletionsKept, AttemptRow
  <2>3. Lifecycle!MediaWithdrawn(Owner[m])
    BY <1>4, <1>a, <2>1, <2>2, LifecycleAdvances, LifecyclePends
       DEF RollbackMediaAttachment, Active, Lifecycle!MediaWithdrawn
  <2> QED BY <1>a, <2>3 DEF Lifecycle!Next
<1> QED BY <1>1, <1>2, <1>3, <1>4 DEF LoudUpload

(* A step of a worker's claim is a lifecycle step or invisible.            *)
LEMMA ProcessingRefines ==
  ASSUME StoreInv, ProcessingStep
  PROVE  [Lifecycle!Next]_Lifecycle!lifecycleVars
<1> PICK m \in Media, l \in Leases :
      \/ ClaimProcessing(m, l) \/ ReleaseProcessingClaim(m, l)
      \/ RecordProcessingFailure(m, l) \/ DeadLetterProcessingClaim(m, l)
      \/ \E c \in Candidates, policyCurrent \in BOOLEAN :
           FinalizeTerminalResult(m, l, c, policyCurrent)
  BY DEF ProcessingStep
<1> DEFINE a == Owner[m]
<1>a. /\ a \in Attempts
      /\ attempt \in [Attempts -> AttemptRow] /\ result \in [Attempts -> ResultRow]
  BY StoreAssumption DEF StoreInv, TypeOK
<1>b. ASSUME NEW s, attempt' = Unleased(a, s)
      PROVE  /\ DeletionsKept /\ attempt'[a].status = s
             /\ \A b \in Attempts : b # a => attempt'[b].status = attempt[b].status
  BY <1>a, <1>b DEF Unleased, DeletionsKept, AttemptRow
<1>1. CASE ClaimProcessing(m, l)
  <2>1. attempt[a].deletion = "active" /\ attempt[a].status \in {"uploaded", "processing"}
    BY <1>1 DEF ClaimProcessing, ClaimAllowed, Active
  <2>2. /\ DeletionsKept /\ attempt'[a].status = "processing"
        /\ \A b \in Attempts : b # a => attempt'[b].status = attempt[b].status
        /\ UNCHANGED <<result, board>>
    BY <1>1, <1>a DEF ClaimProcessing, DeletionsKept, AttemptRow
  <2>3. CASE attempt[a].status = "uploaded"
    <3>1. Lifecycle!QueueClaimed(a)
      BY <1>a, <2>1, <2>2, <2>3, LifecycleAdvances, LifecyclePends
         DEF Lifecycle!QueueClaimed
    <3> QED BY <1>a, <3>1 DEF Lifecycle!Next
  <2>4. CASE attempt[a].status = "processing"
    BY <2>2, <2>4, LifecycleStutters
  <2> QED BY <2>1, <2>3, <2>4
<1>2. CASE RecordProcessingFailure(m, l)
  BY <1>2, LifecycleStutters DEF RecordProcessingFailure, DeletionsKept
<1>3. CASE ReleaseProcessingClaim(m, l) \/ DeadLetterProcessingClaim(m, l)
  <2>1. /\ attempt[a].deletion = "active" /\ attempt[a].status = "processing"
        /\ attempt' = Unleased(a, "uploaded")
        /\ UNCHANGED <<result, board>>
    BY <1>3 DEF ReleaseProcessingClaim, DeadLetterProcessingClaim, HoldsClaim, Active
  <2>2. Lifecycle!ClaimReleased(a)
    BY <1>a, <1>b, <2>1, LifecycleAdvances, LifecyclePends DEF Lifecycle!ClaimReleased
  <2> QED BY <1>a, <2>2 DEF Lifecycle!Next
<1>4. CASE \E c \in Candidates, policyCurrent \in BOOLEAN :
             FinalizeTerminalResult(m, l, c, policyCurrent)
  <2> PICK c \in Candidates, policyCurrent \in BOOLEAN :
        FinalizeTerminalResult(m, l, c, policyCurrent)
    BY <1>4
  <2> DEFINE o == IF c = "ranked" /\ ~policyCurrent THEN "unranked" ELSE c
  <2>1. o \in Lifecycle!TerminalOutcomes
    BY DEF Candidates, Lifecycle!TerminalOutcomes
  <2>2. /\ HoldsClaim(m, l)
        /\ attempt' = Unleased(a, Lifecycle!TerminalStatus(o))
        /\ result' = [result EXCEPT ![a] =
             [outcome |-> o, candidate |-> c, lease |-> l,
              generation |-> upload[m].generation]]
        /\ board' = IF o = "ranked" THEN board \cup {a} ELSE board
    BY DEF FinalizeTerminalResult, FinalizeOutcome, StatusOf, Lifecycle!TerminalStatus
  <2> HIDE DEF o
  <2>3. Lifecycle!Advance(a, "processing", Lifecycle!TerminalStatus(o))
    BY <1>a, <1>b, <2>2, LifecycleAdvances DEF HoldsClaim, Active
  <2>4. [b \in Attempts |-> result'[b].outcome]
          = [[b \in Attempts |-> result[b].outcome] EXCEPT ![a] = o]
    BY <1>a, <2>2
  <2>5. {b \in Attempts : attempt'[b].deletion = "tombstoned"}
          = {b \in Attempts : attempt[b].deletion = "tombstoned"}
    BY <1>b, <2>2 DEF DeletionsKept
  <2>6. Lifecycle!Finalized(a, o)
    BY <2>2, <2>3, <2>4, <2>5 DEF Lifecycle!Finalized
  <2> QED BY <1>a, <2>1, <2>6 DEF Lifecycle!Next
<1> QED BY <1>1, <1>2, <1>3, <1>4

(* Whatever the callers do, a client sees the lifecycle of the domain.     *)
THEOREM StoreImplementsLifecycle == Spec => ImplementsLifecycle
<1>1. Init => Lifecycle!Init
  BY DEF Init, Lifecycle!Init, NoResult
<1>2. StoreInv /\ [Next]_storeVars => [Lifecycle!Next]_Lifecycle!lifecycleVars
  <2> SUFFICES ASSUME StoreInv, [Next]_storeVars
               PROVE  [Lifecycle!Next]_Lifecycle!lifecycleVars
    OBVIOUS
  <2>1. CASE Quiet
    BY <2>1, LifecycleStutters DEF Quiet, DeletionsKept
  <2> QED BY <2>1, StepCases, AttemptRefines, UploadRefines, ProcessingRefines DEF StoreInv
<1> QED BY <1>1, <1>2, StoreInvariant, PTL DEF Spec, ImplementsLifecycle, Lifecycle!Spec
=============================================================================
