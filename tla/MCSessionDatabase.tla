------------------------- MODULE MCSessionDatabase -------------------------
(* Two processes open a file of any version, with one of: an attempt and   *)
(* its delivery rows, a receipt with its policy, an invalidation, a few    *)
(* leaderboard entries, or a ledger no program of this line wrote.         *)
EXTENDS SessionDatabase, MCCalibrationSession

CONSTANTS o1, o2

TwoOpeners == {o1, o2}

Empty ==
  [life |-> "active", status |-> "awaiting-upload", generation |-> 1,
   media |-> "no", context |-> "no", deliveries |-> {}, facts |-> {},
   result |-> "no", snapshot |-> FALSE, retries |-> "no", clash |-> FALSE,
   receipt |-> "no", policy |-> "no", policyDigest |-> "no",
   invalidated |-> "no", quarantined |-> FALSE, entries |-> {}, clock |-> 0]

FactSets == {{}, {"original"}, {"original", "frame"}}

(* What a program before v16 stored of an attempt.                         *)
UploadsBefore(version) ==
  {[Empty EXCEPT !.status = s, !.media = m, !.facts = f, !.result = r] :
     s \in {"uploaded", "processing", "terminal"}, r \in {"no", "own", "other"},
     f \in {{}, {"original", "frame"}},
     m \in CASE version < 10  -> {"four", "unknown"}
             [] version = 10  -> {"four", "unknown"} \cup Predecessors
             [] version = 11  -> {"unknown"} \cup Predecessors
             [] version = 12  -> {"six", "nested"}
             [] OTHER         -> {"six"}}

(* From v17 on delivery rows, from v18 on with their frames.               *)
RowOf(generation, media, frame, state) ==
  [generation |-> generation, media |-> media, frame |-> frame, state |-> state,
   rollback |-> state \in {"pending-delivery", "cleanup-recoverable"},
   queuedAt |-> state = "queued"]
RowsOf(version) ==
  {RowOf(g, m, f, s) : g \in 1..2, m \in BOOLEAN,
     f \in IF version = 17 THEN {"none"} ELSE {"none", "own", "other"},
     s \in {"pending-delivery", "queued", "cleanup-recoverable", "resolved"}}
RowSets(version) ==
  {{}} \cup {{r} : r \in RowsOf(version)}
       \cup {{RowOf(1, TRUE, "own", "resolved"), RowOf(2, TRUE, "own", s)} :
               s \in IF version = 17 THEN {} ELSE Undelivered}
Contexts == {"other", "media", "exact"}

LiveSince17(version) ==
  {[Empty EXCEPT !.status = s, !.generation = 2, !.media = "six", !.context = c,
                 !.facts = f, !.deliveries = d, !.result = r] :
     s \in {"uploaded", "processing"}, c \in Contexts, f \in FactSets,
     d \in RowSets(version), r \in {"no"}}
OthersSince17(version) ==
  {[Empty EXCEPT !.life = l, !.generation = 2, !.facts = f, !.deliveries = d] :
     l \in {"active", "tombstoned"}, f \in FactSets, d \in RowSets(version)}
ResultsSince16 ==
  {[Empty EXCEPT !.status = s, !.media = "six", !.context = "exact", !.result = r,
                 !.facts = {"original", "frame"},
                 !.deliveries = {LiveDelivery([Empty EXCEPT !.status = s])}] :
     s \in {"uploaded", "processing"}, r \in {"no", "own", "other"}}

(* What the program leaves from v20 on: begun and unfinished compensations *)
(* of a live upload, before or after its job was queued, the deliveries of *)
(* earlier uploads, and retention facts the scavenger has acknowledged.    *)
Recoverable(rollback, queuedAt, state) ==
  [RowOf(2, TRUE, "own", state) EXCEPT !.rollback = rollback, !.queuedAt = queuedAt]
CurrentRows ==
  {RowOf(2, TRUE, "own", s) : s \in Undelivered}
  \cup {Recoverable(TRUE, FALSE, "cleanup-recoverable"),
        Recoverable(FALSE, TRUE, "cleanup-recoverable"),
        Recoverable(FALSE, TRUE, "resolved")}
EarlierRows ==
  {{}} \cup {{RowOf(1, FALSE, "other", s)} : s \in {"cleanup-recoverable", "resolved"}}
LiveSince20 ==
  {[Empty EXCEPT !.status = s, !.generation = 2, !.media = "six", !.context = "exact",
                 !.facts = f, !.deliveries = d \cup {r}] :
     s \in {"uploaded", "processing"}, f \in FactSets \cup {{"frame"}},
     d \in EarlierRows, r \in CurrentRows}
EndedSince20 ==
  {[Empty EXCEPT !.status = "terminal", !.generation = 2, !.media = "six", !.result = "own",
                 !.facts = f, !.deliveries = {r}] :
     f \in FactSets, r \in {x \in CurrentRows : x.state \notin Undelivered}}
  \cup {[Empty EXCEPT !.life = l, !.generation = 3, !.facts = f,
                      !.deliveries = {RowOf(2, FALSE, "other", "cleanup-recoverable")}] :
          l \in {"active", "tombstoned"}, f \in FactSets}

Receipts ==
  {[Empty EXCEPT !.receipt = r, !.policy = p, !.policyDigest = IF p = "no" THEN "no" ELSE r] :
     r \in {"predecessor", "current", "corrupt"}, p \in {"no", "unbound"}}
Invalidations(version) ==
  {[Empty EXCEPT !.invalidated = i, !.quarantined = q] :
     i \in CASE version < 6 -> {"sound", "no-such-day", "garbled"}
             [] version < 9 -> {"sound", "no-such-day"}
             [] OTHER       -> {"sound"},
     q \in IF version < 7 THEN {FALSE} ELSE BOOLEAN}
Entries ==
  {[Empty EXCEPT !.entries = {[id |-> 1, created |-> c, sequence |-> 0],
                              [id |-> 2, created |-> d, sequence |-> 0],
                              [id |-> 3, created |-> 1, sequence |-> 0]}] :
     c, d \in 1..2}
(* Three results were committed, the clock went back, one was deleted.     *)
EntriesSince18 ==
  {[Empty EXCEPT !.entries = {[id |-> 1, created |-> 2, sequence |-> s],
                              [id |-> 2, created |-> 1, sequence |-> 3]},
                 !.clock = 3] : s \in 1..2}

DataAt(version) ==
  {Empty}
  \cup (IF version < 5 THEN {[Empty EXCEPT !.clash = TRUE]} ELSE {})
  \cup (IF version \in 2..6 THEN {[Empty EXCEPT !.snapshot = TRUE]} ELSE {})
  \cup (IF version = 8 THEN {[Empty EXCEPT !.retries = "unsound"]} ELSE {})
  \cup (IF version \in {4, 10, 11, 12, 13, 15} THEN UploadsBefore(version) ELSE {})
  \cup (IF version \in {17, 18} THEN LiveSince17(version) \cup OthersSince17(version) ELSE {})
  \cup (IF version \in {18, 19, 20} THEN ResultsSince16 ELSE {})
  \cup (IF version \in {20, 21, 23} THEN LiveSince20 \cup EndedSince20 ELSE {})
  \cup (IF version \in {3, 13} THEN Receipts ELSE {})
  \cup (IF version = 14
        THEN {[d EXCEPT !.policy = IF @ = "no" THEN @ ELSE "bound"] : d \in Receipts} ELSE {})
  \cup (IF version \in {5, 6, 8, 21} THEN Invalidations(version) ELSE {})
  \cup (IF version \in {2, 17} THEN Entries ELSE {})
  \cup (IF version \in {18, 22, 23} THEN EntriesSince18 ELSE {})

LedgerAt(version) ==
  [ledger |-> "sound", applied |-> version, user |-> version, tables |-> version # 0,
   wal |-> TRUE, data |-> Empty]
Foreign ==
  { [LedgerAt(20) EXCEPT !.ledger = "no"],      [LedgerAt(20) EXCEPT !.ledger = "unsound"],
    [LedgerAt(20) EXCEPT !.user = 21],          LedgerAt(24),
    [LedgerAt(0) EXCEPT !.ledger = "no", !.user = 1],
    [LedgerAt(0) EXCEPT !.tables = TRUE] }
Fresh == [LedgerAt(0) EXCEPT !.ledger = "no", !.wal = FALSE]

SomeFiles ==
  {Fresh, [LedgerAt(22) EXCEPT !.wal = FALSE], [LedgerAt(23) EXCEPT !.user = 0]}
  \cup Foreign
  \cup UNION {{[LedgerAt(v) EXCEPT !.data = d] : d \in DataAt(v)} : v \in 1..Latest}

FileSymmetry == Symmetry \cup Permutations(TwoOpeners)
=============================================================================
