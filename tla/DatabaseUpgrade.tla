--------------------------- MODULE DatabaseUpgrade ---------------------------
(***************************************************************************)
(* How a process comes to hold the SQLite database: it checks the ledger   *)
(* of applied migrations, makes write-ahead logging durable, checks again  *)
(* under the write lock, and applies every migration the file lacks in one *)
(* transaction.  A file may have been left by any earlier program; two     *)
(* processes may open it at once, and either may stop anywhere.            *)
(*                                                                         *)
(* A file holds one attempt, one benchmark receipt with its policy and its *)
(* invalidation, and a few leaderboard entries.  Of a stored document only *)
(* what the migrations tell apart is kept: its shape, and whether it names *)
(* what the columns beside it name.                                        *)
(***************************************************************************)
EXTENDS Integers, FiniteSets

CONSTANTS
  Openers,       \* processes that open the file
  Nobody,
  LegacyFiles    \* files as earlier programs, or none, left them

Latest == 23

VARIABLES
  file,     \* what is committed
  draft,    \* what the transaction that holds the write lock has written
  opener,   \* where each process is in openSqliteDatabase
  lock      \* the process with the write lock

disk == <<file, draft, opener, lock>>

----------------------------------------------------------------------------
(* Stored documents.                                                       *)

(* Shapes of attempts.media_json: the four fields of the first uploads,    *)
(* the six of today, and two predecessors of those; or anything else.      *)
Predecessors == {"six", "resource", "rich"}

(* A delivery row has its generation, whether it names the upload of the   *)
(* attempt (media), whose frames it names ("none", "own", "other"), its    *)
(* state, and whether it may be rolled back and was queued.                *)
Undelivered == {"pending-delivery", "queued"}

(* The types the columns have, and the documents this model tells apart.   *)
DeliveryRows ==
  [generation : Nat, media : BOOLEAN, frame : {"none", "own", "other"},
   state : Undelivered \cup {"cleanup-recoverable", "resolved"},
   rollback : BOOLEAN, queuedAt : BOOLEAN]
EntryRows == [id : Nat, created : Nat, sequence : Nat]
Data ==
  [life : {"active", "tombstoned"},
   status : {"awaiting-upload", "uploaded", "processing", "terminal"},
   generation : Nat, media : {"no", "four", "nested", "unknown"} \cup Predecessors,
   context : {"no", "other", "media", "exact"},
   deliveries : SUBSET DeliveryRows, facts : SUBSET {"original", "frame"},
   result : {"no", "own", "other"}, snapshot : BOOLEAN,
   retries : {"no", "sound", "unsound"}, clash : BOOLEAN,
   receipt : {"no", "predecessor", "current", "corrupt"},
   policy : {"no", "unbound", "bound"},
   policyDigest : {"no", "predecessor", "current", "corrupt"},
   invalidated : {"no", "sound", "no-such-day", "garbled"}, quarantined : BOOLEAN,
   entries : SUBSET EntryRows, clock : Nat]
Files ==
  [ledger : {"no", "sound", "unsound"}, applied : Nat, user : Nat, tables : BOOLEAN,
   wal : BOOLEAN, data : Data]

Live(d) == d.life = "active" /\ d.status \in {"uploaded", "processing"}
Owned(d) == d.facts = {"original", "frame"}

----------------------------------------------------------------------------
(* The migrations that rewrite rows; the others only add what is empty.    *)

(* v5 rebuilds every table under constraints that were not there before.   *)
ConstraintsHold(d) == ~d.clash

(* v6 dates an invalidation it cannot read by its row; v7 and v9 move one  *)
(* whose day does not exist to quarantine, where v22 leaves it alone.      *)
Redated(d) == [d EXCEPT !.invalidated = IF @ = "garbled" THEN "sound" ELSE @]
Quarantined(d) ==
  IF d.invalidated # "no-such-day" THEN d
  ELSE [d EXCEPT !.invalidated = "no", !.quarantined = TRUE]
QuarantineWins(d) ==
  IF d.quarantined THEN [d EXCEPT !.invalidated = "no"] ELSE d

(* v7 takes the snapshot out of the candidate a ranked result came from.   *)
CandidateWithoutSnapshot(d) == [d EXCEPT !.snapshot = FALSE]

(* v9 keeps only the retry counts a number can hold.                       *)
CountedRetries(d) == [d EXCEPT !.retries = IF @ = "unsound" THEN "no" ELSE @]

(* v11 adds the transition to four fields; v12 and v13 project the named   *)
(* predecessors to six; any other shape ends the upgrade.                  *)
Uploaded(d) == d.media # "no"
TransitionAdded(d) == [d EXCEPT !.media = IF @ = "four" THEN "six" ELSE @]
Recognized(d) == Uploaded(d) => d.media \in Predecessors
SixFields(d) == [d EXCEPT !.media = IF Uploaded(d) THEN "six" ELSE @]

(* v14 reads every receipt a policy refers to with the parser of today.    *)
WorkspaceBound(d) == [d EXCEPT !.policy = IF @ = "no" THEN @ ELSE "bound"]

(* v15 adds the evidence versions to a receipt whose digest verifies, and  *)
(* moves its policies to the new digest.                                   *)
EvidenceAdded(d) ==
  IF d.receipt # "predecessor" THEN d
  ELSE [d EXCEPT !.receipt = "current", !.policyDigest = "current"]

Reset(d) ==
  [d EXCEPT !.status = "awaiting-upload", !.generation = @ + 1,
            !.media = "no", !.context = "no"]

(* v16: an upload without a processing context starts again.               *)
WithoutContext(d) == IF Live(d) THEN Reset(d) ELSE d

(* v18: the order in which results were committed is the order of their    *)
(* rows; the clock goes on from there.                                     *)
EarlierTime(e, f) == e.created < f.created
Older(e, f) == EarlierTime(e, f) \/ (e.created = f.created /\ e.id <= f.id)
CommitOrder(d) ==
  LET sequence(f) == Cardinality({e \in d.entries : Older(e, f)})
  IN  [d EXCEPT !.entries = {[f EXCEPT !.sequence = sequence(f)] : f \in @},
                !.clock = Cardinality(d.entries)]
DistinctSequences(d) ==
  \A e, f \in d.entries : e.sequence = f.sequence => e = f

(* v18: live work gets a delivery row, or its missing frames filled in.    *)
HasIdentity(d) == Uploaded(d) /\ d.context \in {"media", "exact"}
Backfilled(d) ==
  LET known == {r \in d.deliveries : r.generation = d.generation}
      row == [generation |-> d.generation, media |-> TRUE, frame |-> "own",
              state |-> IF d.status = "uploaded" THEN "cleanup-recoverable" ELSE "queued",
              rollback |-> d.status = "uploaded", queuedAt |-> FALSE]
      filled(r) == [r EXCEPT !.frame = IF @ = "none" THEN "own" ELSE @]
  IN  IF ~Live(d) THEN d
      ELSE IF ~HasIdentity(d) THEN Reset(d)
      ELSE [d EXCEPT !.deliveries =
              (@ \ known) \cup (IF known = {} THEN {row} ELSE {filled(r) : r \in known})]

(* v19, and v20 for files that already had a v19: live work keeps exactly  *)
(* the delivery its attempt, its context, its retention facts and every    *)
(* existing row agree on, or starts again; a deleted attempt keeps the     *)
(* exact row of its last upload, to be cleaned up; nothing else keeps any. *)
(* (A bug: the retention facts are not asked for.)                         *)
Agrees(d, r) == r.generation = d.generation /\ r.media /\ r.frame = "own"
ContextIsExact(d) == Uploaded(d) /\ d.context = "exact"
AuthorizedByContext(d) ==
  /\ ContextIsExact(d)
  /\ \A r \in d.deliveries : Agrees(d, r)
Authorized(d) ==
  /\ ContextIsExact(d)
  /\ Owned(d)
  /\ \A r \in d.deliveries : Agrees(d, r)

LiveDelivery(d) ==
  [generation |-> d.generation, media |-> TRUE, frame |-> "own",
   state |-> IF d.status = "uploaded" THEN "pending-delivery" ELSE "queued",
   rollback |-> d.status = "uploaded", queuedAt |-> d.status # "uploaded"]

OfLastUpload(d, r) ==
  r.generation + 1 = d.generation /\ r.media /\ r.frame = "own" /\ r.state # "resolved"
CleanupDelivery(d) ==
  {[r EXCEPT !.state = "cleanup-recoverable", !.rollback = FALSE, !.queuedAt = FALSE] :
     r \in {x \in d.deliveries : d.deliveries = {x} /\ Owned(d) /\ OfLastUpload(d, x)}}

DeliveriesNormalized(d) ==
  IF Live(d)
  THEN IF Authorized(d) THEN [d EXCEPT !.deliveries = {LiveDelivery(d)}]
       ELSE [Reset(d) EXCEPT !.deliveries = {}]
  ELSE [d EXCEPT !.deliveries = IF d.life = "tombstoned" THEN CleanupDelivery(d) ELSE {}]

(* v21: an attempt with a terminal result of its own becomes terminal.     *)
OwnResult(d) == d.result = "own"
TerminalSettled(d) ==
  IF d.life # "active" \/ d.status = "terminal" \/ ~OwnResult(d) THEN d
  ELSE [d EXCEPT !.status = "terminal", !.context = "no", !.retries = "no",
                 !.deliveries = {r \in @ : r.state \notin Undelivered}]

Migrated(d, version) ==
  CASE version = 6  -> Redated(d)
    [] version = 7  -> CandidateWithoutSnapshot(Quarantined(d))
    [] version = 9  -> CountedRetries(Quarantined(d))
    [] version = 11 -> TransitionAdded(d)
    [] version \in {12, 13} -> SixFields(d)
    [] version = 14 -> WorkspaceBound(d)
    [] version = 15 -> EvidenceAdded(d)
    [] version = 16 -> WithoutContext(d)
    [] version = 18 -> Backfilled(CommitOrder(d))
    [] version \in {19, 20} -> DeliveriesNormalized(d)
    [] version = 21 -> TerminalSettled(d)
    [] version = 22 -> QuarantineWins(d)
    [] OTHER -> d

(* A migration that throws.                                                *)
Refuses(d, version) ==
  CASE version = 5  -> ~ConstraintsHold(d)
    [] version = 11 -> Uploaded(d) /\ d.media \notin Predecessors \cup {"four"}
    [] version \in {12, 13} -> ~Recognized(d)
    [] version = 14 -> d.policy # "no" /\ d.receipt # "current"
    [] version = 15 -> d.receipt = "corrupt"
    [] version = 18 -> ~DistinctSequences(CommitOrder(d))
    [] OTHER -> FALSE

----------------------------------------------------------------------------
(* The ledger.                                                             *)

(* A fresh file has neither a ledger nor a table.  A ledger is a table of  *)
(* its exact schema whose rows are 1, 2, ... without a gap, none of them   *)
(* newer than this program; user_version may lag behind it.                *)
NoLedger(f) == f.ledger = "no"
LedgerIsSound(f) == f.ledger = "sound" /\ f.applied <= Latest
ValidStartup(f) ==
  IF NoLedger(f) THEN f.user = 0 /\ ~f.tables
  ELSE /\ LedgerIsSound(f)
       /\ f.applied = 0 => ~f.tables
       /\ f.user <= f.applied

UpgradeInit ==
  /\ file \in LegacyFiles /\ draft = file
  /\ opener = [o \in Openers |-> "closed"]
  /\ lock = Nobody

Opening(o, from, to) == opener[o] = from /\ opener' = [opener EXCEPT ![o] = to]

OpenConnection(o) ==
  /\ Opening(o, "closed", IF file.wal THEN "connected" ELSE "bootstrap")
  /\ UNCHANGED <<file, draft, lock>>

(* A connection in exclusive mode checks the ledger, makes the log         *)
(* durable, and is closed: nobody else writes in between.                  *)
BootstrapWal(o) ==
  /\ lock = Nobody
  /\ Opening(o, "bootstrap", IF ValidStartup(file) THEN "connected" ELSE "refused")
  /\ file' = IF ValidStartup(file) THEN [file EXCEPT !.wal = TRUE] ELSE file
  /\ draft' = file'
  /\ UNCHANGED lock

CheckBeforeLock(o) ==
  /\ Opening(o, "connected", IF ValidStartup(file) THEN "checked" ELSE "refused")
  /\ UNCHANGED <<file, draft, lock>>

(* BEGIN IMMEDIATE; the second check reads what another process may have   *)
(* committed since the first.                                              *)
BeginImmediate(o) ==
  /\ lock = Nobody
  /\ Opening(o, "checked", IF ValidStartup(file) THEN "migrating" ELSE "refused")
  /\ lock' = IF ValidStartup(file) THEN o ELSE Nobody
  /\ draft' = IF ValidStartup(file) THEN [file EXCEPT !.ledger = "sound"] ELSE file
  /\ UNCHANGED file

(* busy_timeout passes before the lock is free.                            *)
LockTimesOut(o) ==
  /\ lock \notin {o, Nobody}
  /\ opener[o] \in {"bootstrap", "checked"}
  /\ opener' = [opener EXCEPT ![o] = "busy"]
  /\ UNCHANGED <<file, draft, lock>>

NextVersion(f) == f.applied + 1

Migrate(o) ==
  /\ opener[o] = "migrating" /\ draft.applied < Latest
  /\ IF Refuses(draft.data, NextVersion(draft))
     THEN /\ Opening(o, "migrating", "refused")
          /\ draft' = file /\ lock' = Nobody
     ELSE /\ draft' = [draft EXCEPT !.data = Migrated(@, NextVersion(draft)), !.tables = TRUE,
                                    !.applied = NextVersion(draft), !.user = NextVersion(draft)]
          /\ UNCHANGED <<opener, lock>>
  /\ UNCHANGED file

Commit(o) ==
  /\ draft.applied = Latest
  /\ Opening(o, "migrating", "open")
  /\ file' = [draft EXCEPT !.user = Latest]
  /\ draft' = file' /\ lock' = Nobody

(* A process that stops, or is killed, loses its transaction.              *)
Stop(o) ==
  /\ opener[o] # "closed"
  /\ opener' = [opener EXCEPT ![o] = "closed"]
  /\ IF lock = o THEN draft' = file /\ lock' = Nobody ELSE UNCHANGED <<draft, lock>>
  /\ UNCHANGED file

UpgradeNext ==
  \E o \in Openers :
    \/ OpenConnection(o) \/ BootstrapWal(o) \/ CheckBeforeLock(o)
    \/ BeginImmediate(o) \/ LockTimesOut(o) \/ Migrate(o) \/ Commit(o) \/ Stop(o)

----------------------------------------------------------------------------
(* What the program of today may find in a file it holds, and keeps while  *)
(* it runs.  Live work can be processed and one of its delivery rows names *)
(* it, but that row may be in any state: a compensation may have stopped   *)
(* after beginMediaAttachmentRecovery, and the scavenger may have deleted  *)
(* the bytes of an attempt that still waits.  Nothing else is delivered.   *)
DeliveryIsSound(d) ==
  /\ Live(d) => ContextIsExact(d) /\ \E r \in d.deliveries : Agrees(d, r)
  /\ \A r \in d.deliveries :
       /\ r.frame # "none"
       /\ r.state \in Undelivered => Live(d) /\ Agrees(d, r)
       /\ r.state = "pending-delivery" => r.rollback /\ ~r.queuedAt
       /\ r.state = "queued" => ~r.rollback /\ r.queuedAt

(* What an upgrade from before version 20 promises beyond that: live work  *)
(* owns its bytes and is to be delivered, whatever row it had; the only    *)
(* other rows are deleted attempts' that own theirs; and no row is one at  *)
(* which a claim throws, as those of FailedCompensationStaysClaimable.     *)
DeliveriesAreRepaired(d) ==
  /\ Live(d) =>
       Owned(d) /\ \E r \in d.deliveries : d.deliveries = {r} /\ r.state \in Undelivered
  /\ \A r \in d.deliveries : r.state \notin Undelivered =>
       /\ d.life = "tombstoned" /\ Owned(d)
       /\ r.state = "cleanup-recoverable" /\ ~r.rollback /\ ~r.queuedAt

(* Every document has the one shape its reader accepts, and a result and   *)
(* its attempt agree.                                                      *)
DocumentsAreSound(d) ==
  /\ d.media \in {"no", "six"} /\ ~d.snapshot /\ d.retries # "unsound"
  /\ d.life = "active" /\ OwnResult(d) => d.status = "terminal"

(* A policy has the workspace and the digest of its receipt, and no        *)
(* invalidation is in both tables.                                         *)
PolicyIsSound(d) ==
  /\ d.receipt \in {"no", "current"}
  /\ d.policy # "no" => d.policy = "bound" /\ d.policyDigest = d.receipt
  /\ d.invalidated \in {"no", "sound"}
  /\ d.quarantined => d.invalidated = "no"

(* Every entry has a number of its own that the clock has passed.  A       *)
(* deletion leaves a gap, and the wall clock may go back between results.  *)
RankingIsSound(d) ==
  \A e, f \in d.entries :
    e.sequence \in 1..d.clock /\ (e.sequence = f.sequence => e = f)

(* An upgrade from before version 18 numbers them without a gap, in order. *)
RankedInOrder(d) ==
  /\ d.clock = Cardinality(d.entries)
  /\ \A e, f \in d.entries : EarlierTime(e, f) => e.sequence < f.sequence

(* Why a file cannot be opened: its ledger is not one of this program's,   *)
(* a row breaks a constraint, a document has no known shape.  The last     *)
(* reason is a gap: the receipts v15 is written to upgrade are refused by  *)
(* v14 in a file that has not passed it and has a policy.                  *)
BeforeItsUpgrade(d) == d.policy # "no" /\ d.receipt = "predecessor"
Unreadable(f) ==
  \/ ~ValidStartup(f)
  \/ f.applied < 5 /\ ~ConstraintsHold(f.data)
  \/ f.data.media \in {"nested", "unknown"}
  \/ f.applied < 15 /\ f.data.receipt = "corrupt"
  \/ f.applied < 14 /\ BeforeItsUpgrade(f.data)

(* What the program of each version leaves in a file: its constraints, and *)
(* rows as its own statements write them, wherever it stopped.  That the   *)
(* attempt repository keeps DeliveryIsSound is THEOREM FilesAreLeftSound.  *)
LeftBy(version, d) ==
  /\ IsFiniteSet(d.entries) /\ \A e, f \in d.entries : e.id = f.id => e = f
  /\ d.policy # "no" => d.receipt # "no" /\ d.policyDigest = d.receipt
  /\ version >= 5 => ~d.clash
  /\ version >= 6 => d.invalidated # "garbled"
  /\ version >= 7 => ~d.snapshot
  /\ version >= 9 => d.retries # "unsound" /\ d.invalidated # "no-such-day"
  /\ version >= 11 => d.media # "four"
  /\ version >= 13 => d.media \in {"no", "six"}
  /\ version >= 14 => d.policy # "unbound"
  /\ version >= 15 => d.receipt \in {"no", "current"}
  /\ version >= 18 => RankingIsSound(d)
  /\ version >= 20 => DeliveryIsSound(d)
  /\ version >= 21 => (d.life = "active" /\ OwnResult(d) => d.status = "terminal")
  /\ version >= 22 => (d.quarantined => d.invalidated = "no")
SoundFile(f) ==
  /\ f.ledger = "no" => f.applied = 0
  /\ LeftBy(f.applied, f.data)

ASSUME FileAssumption ==
  /\ Nobody \notin Openers
  /\ \A f \in LegacyFiles : f \in Files /\ (ValidStartup(f) => SoundFile(f))

(* Whoever holds the file finds it upgraded, whatever it was, and whoever  *)
(* else was opening it or stopped while doing so; a transaction that finds *)
(* an older file commits it repaired; and no file is refused but for what  *)
(* it holds.                                                               *)
UpgradeIsSound ==
  /\ (\E o \in Openers : opener[o] = "open") =>
       /\ file.applied = Latest /\ file.user = Latest /\ file.wal
       /\ DeliveryIsSound(file.data) /\ DocumentsAreSound(file.data)
       /\ PolicyIsSound(file.data) /\ RankingIsSound(file.data)
  /\ draft.applied = Latest =>
       /\ file.applied < 20 => DeliveriesAreRepaired(draft.data)
       /\ file.applied < 18 => RankedInOrder(draft.data)
  /\ \A o \in Openers : opener[o] = "refused" => Unreadable(file)
=============================================================================
