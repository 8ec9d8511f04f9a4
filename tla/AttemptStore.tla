---------------------------- MODULE AttemptStore ----------------------------
(***************************************************************************)
(* The durable authority of the API: the SQLite attempt repository (C4)    *)
(* and the retention rows that share its database.                         *)
(*                                                                         *)
(* Every public operation of the repository runs inside one BEGIN          *)
(* IMMEDIATE transaction that rolls back on any throw, so an operation is  *)
(* one action here: either its whole effect, or nothing.  An operation     *)
(* that would throw, or that reports a stale claim, has no step of its     *)
(* own; the modules that model the callers read the ...Allowed operators   *)
(* and FinalizeOutcome to learn which answer the caller gets.              *)
(*                                                                         *)
(* An upload is one member of Media: it stands for the media identifier,   *)
(* its frame batch and the frozen upload context (attempt, generation).    *)
(* A row keyed (attempt, generation) in the source is keyed by the upload  *)
(* whose media_id it holds; RowsOf recovers the source's lookup.           *)
(* Wall time is reduced to what the guards compare: a processing lease is  *)
(* live or has expired, a retention row is held or due.                    *)
(***************************************************************************)
EXTENDS Naturals

CONSTANTS
  Attempts,   \* attempt identifiers
  Media,      \* uploads: a media identifier with its frame batch
  Owner,      \* Owner[m]: the attempt upload m is addressed to
  Leases,     \* processing lease identifiers (ids.next())
  NoMedia, NoLease,
  MaxRecoveryAttempts   \* MAX_RECOVERY_ATTEMPTS

ASSUME StoreAssumption ==
  /\ Owner \in [Media -> Attempts]
  /\ NoMedia \notin Media
  /\ NoLease \notin Leases
  /\ MaxRecoveryAttempts \in Nat \ {0}

VARIABLES
  attempt,      \* attempts: one row per attempt
  result,       \* terminal_results: at most one row per attempt
  board,        \* leaderboard_entries: attempts with an entry
  upload,       \* the upload context handed out by prepareMediaUpload
  delivery,     \* media_delivery_recovery_records
  recovery,     \* processing_recovery_records
  transition,   \* retention_cleanup_records of kind 'temporary'
  frame,        \* retention_cleanup_records of kind 'frame'
  original      \* media_retention_records

retentionVars == <<transition, frame, original>>
storeVars ==
  <<attempt, result, board, upload, delivery, recovery, retentionVars>>

-----------------------------------------------------------------------------
Terminal == {"valid", "invalid", "failed"}
Statuses == {"absent", "awaiting-upload", "uploaded", "processing"} \cup Terminal

(* What a worker may ask to finalize, and what is then stored.             *)
Candidates == {"ranked", "unranked", "invalid", "failed"}
StatusOf(outcome) ==
  IF outcome \in {"ranked", "unranked"} THEN "valid" ELSE outcome

AttemptRow ==
  [status : Statuses, deletion : {"active", "tombstoned"}, generation : Nat,
   media : Media \cup {NoMedia}, lease : Leases \cup {NoLease}, live : BOOLEAN]
ResultRow ==
  [outcome : Candidates \cup {"none"}, candidate : Candidates \cup {"none"},
   lease : Leases \cup {NoLease}, generation : Nat]
DeliveryStates ==
  {"absent", "pending-delivery", "queued", "cleanup-recoverable", "resolved"}
DeliveryRow ==
  [state : DeliveryStates, rollback : BOOLEAN, queuedAt : BOOLEAN,
   rolledBack : BOOLEAN, cleaned : BOOLEAN, leased : {"no", "live", "expired"}]
RetentionRow == {"none", "held", "due"}

NoResult ==
  [outcome |-> "none", candidate |-> "none", lease |-> NoLease, generation |-> 0]
NoRow ==
  [state |-> "absent", rollback |-> FALSE, queuedAt |-> FALSE,
   rolledBack |-> FALSE, cleaned |-> FALSE, leased |-> "no"]
NoRecovery == [attempts |-> 0, dead |-> FALSE]

TypeOK ==
  /\ attempt \in [Attempts -> AttemptRow]
  /\ result \in [Attempts -> ResultRow]
  /\ board \in SUBSET Attempts
  /\ upload \in [Media -> [generation : Nat, accepted : BOOLEAN]]
  /\ delivery \in [Media -> DeliveryRow]
  /\ recovery \in [Media -> [attempts : 0..MaxRecoveryAttempts, dead : BOOLEAN]]
  /\ transition \in [Media -> RetentionRow]
  /\ frame \in [Media -> RetentionRow]
  /\ original \in [Media -> RetentionRow]

Init ==
  /\ attempt = [a \in Attempts |->
       [status |-> "absent", deletion |-> "active", generation |-> 0,
        media |-> NoMedia, lease |-> NoLease, live |-> FALSE]]
  /\ result = [a \in Attempts |-> NoResult]
  /\ board = {}
  /\ upload = [m \in Media |-> [generation |-> 0, accepted |-> FALSE]]
  /\ delivery = [m \in Media |-> NoRow]
  /\ recovery = [m \in Media |-> NoRecovery]
  /\ transition = [m \in Media |-> "none"]
  /\ frame = [m \in Media |-> "none"]
  /\ original = [m \in Media |-> "none"]

-----------------------------------------------------------------------------
(* Rows and predicates the operations share.                               *)

Active(a) == attempt[a].status # "absent" /\ attempt[a].deletion = "active"

SameGeneration(m) == attempt[Owner[m]].generation = upload[m].generation

(* The source's lookups by (attempt_id, generation): the uploads prepared  *)
(* for it, which share one retry record, and their delivery rows.          *)
SameJob(m) ==
  {x \in Media : Owner[x] = Owner[m] /\ upload[x].generation = upload[m].generation}
RowsOf(m) == {x \in SameJob(m) : delivery[x].state # "absent"}

Requested(rows, a) ==
  [m \in Media |-> IF Owner[m] = a /\ rows[m] # "none" THEN "due" ELSE rows[m]]

(* Both opaque resources of a cleanup-recoverable row are gone: resolve it. *)
Reconciled(a, originals, frames) ==
  [m \in Media |->
     IF /\ Owner[m] = a
        /\ delivery[m].state = "cleanup-recoverable"
        /\ ~delivery[m].rollback \/ delivery[m].rolledBack
        /\ originals[m] = "none" /\ frames[m] = "none"
     THEN [delivery[m] EXCEPT !.state = "resolved", !.cleaned = TRUE, !.leased = "no"]
     ELSE delivery[m]]

(* What a claim demands of every row it reads; a row that fails it makes   *)
(* the whole claim throw.                                                  *)
Projectable(row) ==
  /\ row.state = "pending-delivery" =>
       row.rollback /\ ~row.queuedAt /\ ~row.rolledBack /\ ~row.cleaned
  /\ row.state = "queued" =>
       ~row.rollback /\ row.queuedAt /\ ~row.rolledBack /\ ~row.cleaned
  /\ row.state = "cleanup-recoverable" => ~row.queuedAt /\ ~row.cleaned
  /\ row.state = "resolved" =>
       /\ ~row.queuedAt /\ row.cleaned /\ row.leased = "no"
       /\ row.rollback => row.rolledBack
  /\ row.rolledBack => row.rollback

-----------------------------------------------------------------------------
(* Creation, upload preparation and the retention facts of an upload.      *)

CreateAttempt(a) ==
  /\ attempt[a].status = "absent"
  /\ attempt' = [attempt EXCEPT ![a].status = "awaiting-upload"]
  /\ UNCHANGED <<result, board, upload, delivery, recovery, retentionVars>>

AwaitingUpload(a) ==
  /\ Active(a)
  /\ attempt[a].status = "awaiting-upload"
  /\ attempt[a].media = NoMedia

PrepareMediaUpload(m) ==
  /\ upload[m].generation = 0
  /\ AwaitingUpload(Owner[m])
  /\ upload' = [upload EXCEPT ![m].generation = attempt[Owner[m]].generation + 1]
  /\ UNCHANGED <<attempt, result, board, delivery, recovery, retentionVars>>

(* The pipeline schedules both facts before it creates any byte.           *)
ScheduleRetention(m) ==
  /\ upload[m].generation # 0 /\ ~upload[m].accepted
  /\ upload' = [upload EXCEPT ![m].accepted = TRUE]
  /\ transition' = [transition EXCEPT ![m] = "held"]
  /\ frame' = [frame EXCEPT ![m] = "held"]
  /\ UNCHANGED <<attempt, result, board, delivery, recovery, original>>

TransitionDeadline(m) ==
  /\ transition[m] = "held"
  /\ transition' = [transition EXCEPT ![m] = "due"]
  /\ UNCHANGED <<attempt, result, board, upload, delivery, recovery, frame, original>>

(* The original and its frames share one deadline, 22 hours after the      *)
(* transition fact's.                                                      *)
OriginalDeadline(m) ==
  /\ transition[m] # "held"
  /\ frame[m] = "held" \/ original[m] = "held"
  /\ frame' = [frame EXCEPT ![m] = IF @ = "held" THEN "due" ELSE @]
  /\ original' = [original EXCEPT ![m] = IF @ = "held" THEN "due" ELSE @]
  /\ UNCHANGED <<attempt, result, board, upload, delivery, recovery, transition>>

(* The scavenger acknowledges one deleted resource; nothing asks whether   *)
(* its fact is still due.                                                  *)
AcknowledgeRetention(kind, m) ==
  /\ transition' = IF kind = "temporary" THEN [transition EXCEPT ![m] = "none"]
                                         ELSE transition
  /\ frame' = IF kind = "frame" THEN [frame EXCEPT ![m] = "none"] ELSE frame
  /\ original' = IF kind = "original" THEN [original EXCEPT ![m] = "none"]
                                      ELSE original
  /\ delivery' = Reconciled(Owner[m], original', frame')
  /\ UNCHANGED <<attempt, result, board, upload, recovery>>

-----------------------------------------------------------------------------
(* Attachment, its compensation and its delivery record.                   *)

AttachAllowed(m) ==
  /\ upload[m].accepted
  /\ AwaitingUpload(Owner[m])
  /\ upload[m].generation = attempt[Owner[m]].generation + 1
  /\ RowsOf(m) = {}
  /\ original[m] = "none"
  /\ transition[m] # "none"

AttachedGenerationKept(m) == attempt[Owner[m]].generation
AttachedGeneration(m) == upload[m].generation

AttachPreparedMedia(m) ==
  /\ AttachAllowed(m)
  /\ attempt' = [attempt EXCEPT ![Owner[m]].status = "uploaded",
                                ![Owner[m]].media = m,
                                ![Owner[m]].generation = AttachedGeneration(m)]
  /\ original' = [original EXCEPT ![m] = "held"]
  /\ transition' = [transition EXCEPT ![m] = "none"]
  /\ delivery' = [delivery EXCEPT ![m] =
                    [NoRow EXCEPT !.state = "pending-delivery", !.rollback = TRUE]]
  /\ UNCHANGED <<result, board, upload, recovery, frame>>

AttachedOrClaimed(m) ==
  /\ Active(Owner[m])
  /\ attempt[Owner[m]].status \in {"uploaded", "processing"}
  /\ SameGeneration(m)
  /\ attempt[Owner[m]].media = m
Attached(m) ==
  /\ Active(Owner[m])
  /\ attempt[Owner[m]].status = "uploaded"
  /\ SameGeneration(m)
  /\ attempt[Owner[m]].media = m

(* A completed rollback answers again without a write.                     *)
RollbackAllowed(m) ==
  /\ delivery[m].state # "absent" /\ delivery[m].rollback
  /\ delivery[m].rolledBack \/ Attached(m)

RollbackMediaAttachment(m) ==
  /\ RollbackAllowed(m) /\ ~delivery[m].rolledBack
  /\ attempt' = [attempt EXCEPT ![Owner[m]].status = "awaiting-upload",
                                ![Owner[m]].media = NoMedia]
  /\ original' = [original EXCEPT ![m] = IF @ = "none" THEN @ ELSE "due"]
  /\ delivery' = [delivery EXCEPT
       ![m].rolledBack = TRUE,
       ![m].state = IF delivery[m].cleaned THEN "resolved" ELSE "cleanup-recoverable"]
  /\ UNCHANGED <<result, board, upload, recovery, transition, frame>>

MarkQueuedAllowed(m) == delivery[m].state \in {"pending-delivery", "queued"}

MarkMediaDeliveryQueued(m) ==
  /\ delivery[m].state = "pending-delivery"
  /\ delivery' = [delivery EXCEPT ![m].state = "queued", ![m].rollback = FALSE,
                                  ![m].queuedAt = TRUE]
  /\ UNCHANGED <<attempt, result, board, upload, recovery, retentionVars>>

(* The upload never attached: its generation has to be retired first, or   *)
(* an earlier call already retired it.                                     *)
Unattached(m) ==
  /\ attempt[Owner[m]].status = "awaiting-upload"
  /\ \/ attempt[Owner[m]].generation + 1 = upload[m].generation
     \/ SameGeneration(m) /\ RowsOf(m) # {}

BeginAllowedBesideAnyRow(m) ==
  Active(Owner[m]) /\ upload[m].accepted /\ (Attached(m) \/ Unattached(m))
BeginRecoveryAllowed(m) ==
  /\ Active(Owner[m])
  /\ upload[m].accepted
  /\ RowsOf(m) \subseteq {m}
  /\ \/ Attached(m) /\ RowsOf(m) # {}
     \/ Unattached(m)

BeginMediaAttachmentRecovery(m) ==
  /\ BeginRecoveryAllowed(m)
  /\ \/ /\ Attached(m)
        /\ delivery' = [delivery EXCEPT ![m].state = "cleanup-recoverable",
                                        ![m].leased = "no"]
        /\ UNCHANGED <<attempt, transition, frame>>
     \/ /\ Unattached(m)
        /\ attempt' = [attempt EXCEPT ![Owner[m]].generation = upload[m].generation]
        /\ delivery' = [delivery EXCEPT ![m] =
             CASE @.state = "absent" -> [NoRow EXCEPT !.state = "cleanup-recoverable"]
               [] @.state # "absent" /\ ~@.rollback ->
                    [@ EXCEPT !.state = "cleanup-recoverable"]
               [] OTHER -> @]
        /\ transition' = Requested(transition, Owner[m])
        /\ frame' = Requested(frame, Owner[m])
  /\ UNCHANGED <<result, board, upload, recovery, original>>

AckCleanupAllowed(m) ==
  /\ delivery[m].state # "absent"
  /\ delivery[m].cleaned \/ (delivery[m].rollback => delivery[m].rolledBack)

AcknowledgeMediaAttachmentCleanup(m) ==
  /\ AckCleanupAllowed(m) /\ ~delivery[m].cleaned
  /\ original' = [original EXCEPT ![m] = "none"]
  /\ frame' = [frame EXCEPT ![m] = "none"]
  /\ delivery' = Reconciled(Owner[m], original', frame')
  /\ UNCHANGED <<attempt, result, board, upload, recovery, transition>>

-----------------------------------------------------------------------------
(* Recovery leases.  One runtime owns all of them, so a lease needs no     *)
(* identifier: whoever holds a row's lease is that runtime's current run.  *)

Claimable(states) ==
  {m \in Media : delivery[m].state \in states /\ delivery[m].leased # "live"}

Undelivered == {"pending-delivery", "queued"}
RecoverableOrPending == {"cleanup-recoverable", "pending-delivery"}
Recoverable == {"cleanup-recoverable"}

(* Claims a batch, or throws (no step) when one of its rows is corrupt.    *)
ClaimRows(states, batch) ==
  /\ batch \subseteq Claimable(states)
  /\ \A m \in batch : Projectable(delivery[m])
  /\ delivery' = [m \in Media |-> IF m \in batch
                                  THEN [delivery[m] EXCEPT !.leased = "live"]
                                  ELSE delivery[m]]
  /\ UNCHANGED <<attempt, result, board, upload, recovery, retentionVars>>

ClaimMediaDeliveryRedelivery(batch) == ClaimRows(Undelivered, batch)
ClaimMediaAttachmentRecovery(batch) == ClaimRows(Recoverable, batch)

AckRedeliveryAllowed(m) ==
  delivery[m].state \in Undelivered /\ delivery[m].leased # "no"

AcknowledgeMediaDeliveryRedelivery(m) ==
  /\ AckRedeliveryAllowed(m)
  /\ delivery' = [delivery EXCEPT ![m].state = "queued", ![m].rollback = FALSE,
                                  ![m].queuedAt = TRUE, ![m].leased = "no"]
  /\ UNCHANGED <<attempt, result, board, upload, recovery, retentionVars>>

(* Both releases are unconditional cleanups of the caller's own lease.     *)
ReleaseRow(m, states) ==
  /\ delivery' = [delivery EXCEPT
       ![m].leased = IF delivery[m].state \in states THEN "no" ELSE @]
  /\ UNCHANGED <<attempt, result, board, upload, recovery, retentionVars>>

ReleaseMediaDeliveryRedelivery(m) == ReleaseRow(m, Undelivered)
ReleaseMediaAttachmentRecovery(m) == ReleaseRow(m, DeliveryStates)

RecoveryLeaseExpires(m) ==
  /\ delivery[m].leased = "live"
  /\ delivery' = [delivery EXCEPT ![m].leased = "expired"]
  /\ UNCHANGED <<attempt, result, board, upload, recovery, retentionVars>>

-----------------------------------------------------------------------------
(* Processing leases, retry accounting and the terminal write.  A job is   *)
(* the upload whose (attempt, generation) it names.                        *)

ClaimAllowedAnyGeneration(m) ==
  /\ Active(Owner[m])
  /\ ~recovery[m].dead
  /\ upload[m].generation # 0
  /\ \/ attempt[Owner[m]].status = "uploaded"
     \/ attempt[Owner[m]].status = "processing" /\ ~attempt[Owner[m]].live
ClaimAllowedUnlessLive(m) ==
  /\ Active(Owner[m])
  /\ ~recovery[m].dead
  /\ upload[m].generation # 0 /\ SameGeneration(m)
  /\ attempt[Owner[m]].status # "awaiting-upload" /\ ~attempt[Owner[m]].live
ClaimAllowedOnce(m) ==
  /\ Active(Owner[m])
  /\ ~recovery[m].dead
  /\ upload[m].generation # 0 /\ SameGeneration(m)
  /\ attempt[Owner[m]].status = "uploaded"
ClaimAllowed(m) ==
  LET a == Owner[m] IN
  /\ Active(a)
  /\ ~recovery[m].dead
  /\ upload[m].generation # 0 /\ SameGeneration(m)
  /\ \/ attempt[a].status = "uploaded"
     \/ attempt[a].status = "processing" /\ ~attempt[a].live

ClaimProcessing(m, l) ==
  /\ ClaimAllowed(m)
  /\ l # attempt[Owner[m]].lease
  /\ attempt' = [attempt EXCEPT ![Owner[m]].status = "processing",
                                ![Owner[m]].lease = l, ![Owner[m]].live = TRUE]
  /\ UNCHANGED <<result, board, upload, delivery, recovery, retentionVars>>

ProcessingLeaseExpires(a) ==
  /\ attempt[a].live
  /\ attempt' = [attempt EXCEPT ![a].live = FALSE]
  /\ UNCHANGED <<result, board, upload, delivery, recovery, retentionVars>>

(* Status, generation and lease all name the caller's claim.  Only the     *)
(* terminal write also asks whether the lease is still live.               *)
HoldsClaim(m, l) ==
  /\ Active(Owner[m])
  /\ attempt[Owner[m]].status = "processing"
  /\ SameGeneration(m)
  /\ attempt[Owner[m]].lease = l

(* The row once a worker lets go of it in the given status.                *)
UnleasedKeepingLease(a, status) ==
  [attempt EXCEPT ![a].status = status, ![a].live = FALSE]
Unleased(a, status) ==
  [attempt EXCEPT ![a].status = status, ![a].lease = NoLease, ![a].live = FALSE]

ReleaseProcessingClaim(m, l) ==
  /\ HoldsClaim(m, l)
  /\ attempt' = Unleased(Owner[m], "uploaded")
  /\ UNCHANGED <<result, board, upload, delivery, recovery, retentionVars>>

AfterFailure(r) ==
  IF r.attempts = MaxRecoveryAttempts THEN r
  ELSE [attempts |-> r.attempts + 1, dead |-> FALSE]

Recorded(m, r) == [x \in Media |-> IF x \in SameJob(m) THEN r ELSE recovery[x]]

RecordProcessingFailure(m, l) ==
  /\ HoldsClaim(m, l)
  /\ recovery' = Recorded(m, AfterFailure(recovery[m]))
  /\ UNCHANGED <<attempt, result, board, upload, delivery, retentionVars>>

DeadLetterProcessingClaim(m, l) ==
  /\ HoldsClaim(m, l)
  /\ recovery' = Recorded(m,
       [attempts |-> IF recovery[m].attempts = 0 THEN 1 ELSE recovery[m].attempts,
        dead |-> TRUE])
  /\ attempt' = Unleased(Owner[m], "uploaded")
  /\ UNCHANGED <<result, board, upload, delivery, retentionVars>>

FinalizeOutcomeOverwriting(m, l, c) ==
  CASE attempt[Owner[m]].deletion = "tombstoned" -> "tombstoned"
    [] result[Owner[m]].lease = l /\ l # NoLease -> "finalized"
    [] OTHER -> IF HoldsClaim(m, l) /\ attempt[Owner[m]].live
                THEN "finalized" ELSE "lost-claim"
FinalizeOutcome(m, l, c) ==
  LET a == Owner[m] IN
  CASE attempt[a].deletion = "tombstoned" -> "tombstoned"
    [] /\ attempt[a].deletion = "active" /\ result[a].outcome # "none" ->
         IF /\ result[a].lease = l /\ result[a].candidate = c
            /\ result[a].generation = upload[m].generation
         THEN "idempotent" ELSE "conflict"
    [] OTHER -> IF HoldsClaim(m, l) /\ attempt[a].live THEN "finalized" ELSE "lost-claim"

(* A ranked candidate without current policy authority is stored as an     *)
(* unranked (experimental) valid outcome and gets no leaderboard entry.    *)
FinalizeTerminalResult(m, l, c, policyCurrent) ==
  LET a == Owner[m]
      outcome == IF c = "ranked" /\ ~policyCurrent THEN "unranked" ELSE c
  IN
  /\ FinalizeOutcome(m, l, c) = "finalized"
  /\ result' = [result EXCEPT ![a] =
       [outcome |-> outcome, candidate |-> c, lease |-> l,
        generation |-> upload[m].generation]]
  /\ attempt' = Unleased(a, StatusOf(outcome))
  /\ board' = IF outcome = "ranked" THEN board \cup {a} ELSE board
  /\ recovery' = Recorded(m, NoRecovery)
  /\ delivery' = [x \in Media |->
       IF x \in RowsOf(m) /\ delivery[x].state \in Undelivered THEN NoRow ELSE delivery[x]]
  /\ UNCHANGED <<upload, retentionVars>>

(* Everything that was published about a, or counted for it, is deleted.    *)
UnpublishResultOnly(a) ==
  /\ result' = [result EXCEPT ![a] = NoResult]
  /\ recovery' = [m \in Media |-> IF Owner[m] = a THEN NoRecovery ELSE recovery[m]]
  /\ UNCHANGED board
Unpublish(a) ==
  /\ board' = board \ {a}
  /\ result' = [result EXCEPT ![a] = NoResult]
  /\ recovery' = [m \in Media |-> IF Owner[m] = a THEN NoRecovery ELSE recovery[m]]

TombstoneAttempt(a) ==
  /\ Active(a)
  /\ Unpublish(a)
  /\ delivery' = [m \in Media |->
       IF Owner[m] = a /\ delivery[m].state \notin {"absent", "resolved"}
       THEN [delivery[m] EXCEPT !.state = "cleanup-recoverable", !.rollback = FALSE,
               !.queuedAt = FALSE, !.rolledBack = FALSE, !.leased = "no"]
       ELSE delivery[m]]
  /\ transition' = Requested(transition, a)
  /\ frame' = Requested(frame, a)
  /\ original' = Requested(original, a)
  /\ attempt' = [attempt EXCEPT ![a].deletion = "tombstoned",
                                ![a].generation = @ + 1,
                                ![a].lease = NoLease, ![a].live = FALSE]
  /\ UNCHANGED upload

-----------------------------------------------------------------------------
(* The repository under arbitrary callers: any operation, any order.       *)

AttemptStep ==
  \E a \in Attempts :
    \/ CreateAttempt(a)
    \/ TombstoneAttempt(a)
    \/ ProcessingLeaseExpires(a)

AttachmentStep ==
  \E m \in Media :
    \/ PrepareMediaUpload(m)
    \/ ScheduleRetention(m)
    \/ AttachPreparedMedia(m)
    \/ RollbackMediaAttachment(m)
    \/ MarkMediaDeliveryQueued(m)
    \/ BeginMediaAttachmentRecovery(m)
    \/ AcknowledgeMediaAttachmentCleanup(m)

RetentionStep ==
  \E m \in Media :
    \/ TransitionDeadline(m)
    \/ OriginalDeadline(m)
    \/ \E kind \in {"temporary", "frame", "original"} : AcknowledgeRetention(kind, m)

RecoveryStep ==
  \/ \E batch \in SUBSET Media :
       \/ ClaimMediaDeliveryRedelivery(batch)
       \/ ClaimMediaAttachmentRecovery(batch)
  \/ \E m \in Media :
       \/ AcknowledgeMediaDeliveryRedelivery(m)
       \/ ReleaseMediaDeliveryRedelivery(m)
       \/ ReleaseMediaAttachmentRecovery(m)
       \/ RecoveryLeaseExpires(m)

ProcessingStep ==
  \E m \in Media, l \in Leases :
    \/ ClaimProcessing(m, l)
    \/ ReleaseProcessingClaim(m, l)
    \/ RecordProcessingFailure(m, l)
    \/ DeadLetterProcessingClaim(m, l)
    \/ \E c \in Candidates, policyCurrent \in BOOLEAN :
         FinalizeTerminalResult(m, l, c, policyCurrent)

Next == AttemptStep \/ AttachmentStep \/ RetentionStep \/ RecoveryStep \/ ProcessingStep

Spec == Init /\ [][Next]_storeVars

-----------------------------------------------------------------------------
(* What the store promises whoever calls it, in whatever order.            *)

(* A processing lease and the status 'processing' come and go together, so *)
(* no row is left in 'processing' without a lease that can expire, which   *)
(* no worker could ever claim again (claimProcessing compares the expiry). *)
LeaseHeldIffProcessing ==
  \A a \in Attempts :
    /\ (attempt[a].lease # NoLease) <=> (Active(a) /\ attempt[a].status = "processing")
    /\ attempt[a].live => attempt[a].lease # NoLease

(* A deletion cannot be undone by whatever was still running: a tombstoned *)
(* attempt has no terminal result, no leaderboard entry, no retry record,  *)
(* and none of its uploads can be claimed, attached or delivered again.    *)
NoResurrection ==
  \A a \in Attempts : attempt[a].deletion = "tombstoned" =>
    /\ result[a] = NoResult
    /\ a \notin board
    /\ \A m \in Media : Owner[m] = a =>
         /\ recovery[m] = NoRecovery
         /\ ~ClaimAllowed(m) /\ ~AttachAllowed(m)
         /\ delivery[m].state \notin Undelivered

(* The three tables a terminal write touches agree: an active attempt has  *)
(* a terminal status exactly when it has a stored result of that status,   *)
(* and a leaderboard entry only under a ranked result.                     *)
TerminalTablesAgree ==
  \A a \in Attempts :
    /\ Active(a) => /\ attempt[a].status \in Terminal <=> result[a].outcome # "none"
                    /\ attempt[a].status \in Terminal =>
                         attempt[a].status = StatusOf(result[a].outcome)
    /\ a \in board => result[a].outcome = "ranked"

(* A job names only (attempt, generation).  Whenever the job of an upload  *)
(* that was attached or withdrawn could be claimed, that upload is the     *)
(* media the attempt references: a stale delivery never analyses the media *)
(* of a later upload.                                                      *)
JobNamesAttachedMedia ==
  \A m \in Media :
    delivery[m].state # "absent" /\ ClaimAllowed(m) => attempt[Owner[m]].media = m

(* (attempt, generation) identifies a delivery record, as the table's key   *)
(* and every lookup by it assume: two uploads prepared for one generation  *)
(* never both have one, and no record is ahead of its attempt.             *)
OneRowPerGeneration ==
  \A m \in Media : delivery[m].state # "absent" =>
    /\ RowsOf(m) = {m}
    /\ upload[m].generation \in 1..attempt[Owner[m]].generation

(* An attempt that waits for a worker, or is held by one, references an    *)
(* upload of its current generation that still has its delivery record, so *)
(* a restart finds something to redeliver or clean up.                     *)
AttachedUploadIsTracked ==
  \A a \in Attempts :
    Active(a) /\ attempt[a].status \in {"uploaded", "processing"} =>
      LET m == attempt[a].media IN
      /\ m \in Media /\ Owner[m] = a
      /\ SameGeneration(m)
      /\ delivery[m].state # "absent"

(* The delivery records identify their uploads: one to a generation, the   *)
(* attached upload has it, and a job that may be claimed names that upload.*)
DeliveriesIdentifyUploads ==
  OneRowPerGeneration /\ AttachedUploadIsTracked /\ JobNamesAttachedMedia

(* A stored result is never replaced or withdrawn except by deletion of    *)
(* the attempt, whichever lease asks (finalizeTerminalResult).             *)
OutcomeIsFinal ==
  [][\A a \in Attempts : result[a] # NoResult /\ result'[a] # result[a]
       => attempt'[a].deletion = "tombstoned"]_storeVars

(* An attempt comes to reference another media only under a generation it  *)
(* never had before, which is what makes stale jobs and leases harmless.   *)
NewMediaNewGeneration ==
  [][\A a \in Attempts : attempt'[a].media \notin {attempt[a].media, NoMedia}
       => attempt'[a].generation > attempt[a].generation]_storeVars

(* The store implements the lifecycle its callers are promised.            *)
Lifecycle == INSTANCE AttemptLifecycle WITH
  status <- [a \in Attempts |-> attempt[a].status],
  deleted <- {a \in Attempts : attempt[a].deletion = "tombstoned"},
  outcome <- [a \in Attempts |-> result[a].outcome],
  ranking <- board
ImplementsLifecycle == Lifecycle!Spec
=============================================================================
