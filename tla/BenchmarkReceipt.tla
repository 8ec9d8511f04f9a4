-------------------------- MODULE BenchmarkReceipt --------------------------
(***************************************************************************)
(* What a benchmark receipt says and when it is one: the schema every      *)
(* receipt goes through when it is made, stored or read back, and the      *)
(* receipt createWorkflowBenchmarkReceipt makes.                           *)
(*                                                                         *)
(* Of a duration only whether it is within its limit is kept.  Digests and *)
(* the literals that name a version are left out.                          *)
(***************************************************************************)
EXTENDS Integers, FiniteSets, Sequences, SequencesExt

CONSTANTS
  Manifests,  \* manifests of a benchmark
  Validity    \* how long a receipt is good for

ASSUME ReceiptAssumption == Manifests \in Nat \ {0} /\ Validity \in Nat \ {0}

PassesThresholds(receipt) ==
  /\ receipt.fast
  /\ \A i \in DOMAIN receipt.runs : receipt.runs[i].inTime
  /\ ~receipt.invalidated

InOrder(receipt) ==
  /\ Len(receipt.manifests) = Manifests /\ IsInjective(receipt.manifests)
  /\ Len(receipt.runs) = Manifests
  /\ \A i \in 1..Manifests : receipt.runs[i].manifest = receipt.manifests[i]

(* A bug: a receipt's word is taken for its status.                        *)
ReceiptHoldsAsClaimed(receipt) ==
  InOrder(receipt) /\ receipt.validUntil - receipt.runAt = Validity

(* A receipt is refused if what it claims is not what its numbers say.     *)
ReceiptHolds(receipt) ==
  /\ InOrder(receipt)
  /\ receipt.validUntil - receipt.runAt = Validity
  /\ receipt.status = "passed" <=> PassesThresholds(receipt)

(* What a benchmark writes; only its own numbers decide its status.        *)
ReceiptFor(runs, fast, runAt) ==
  [manifests |-> [i \in DOMAIN runs |-> runs[i].manifest], runs |-> runs,
   fast |-> fast, runAt |-> runAt, validUntil |-> runAt + Validity,
   status |-> IF fast /\ \A i \in DOMAIN runs : runs[i].inTime
              THEN "passed" ELSE "failed",
   invalidated |-> FALSE]
=============================================================================
