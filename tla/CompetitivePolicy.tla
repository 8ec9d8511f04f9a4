------------------------- MODULE CompetitivePolicy -------------------------
(***************************************************************************)
(* Benchmark receipts and the competitive policies that rest on them: the  *)
(* tables of SQLiteCompetitivePolicyRepository, and who may rank.          *)
(*                                                                         *)
(* Operators store, activate and revoke with scripts of their own while    *)
(* the service runs, so any operation here may fall between two steps of   *)
(* an analysis.  Each operation is one BEGIN IMMEDIATE transaction.        *)
(***************************************************************************)
EXTENDS BenchmarkReceipt

CONSTANTS
  Receipts,   \* benchmark receipts
  ReceiptOf,  \* what each says, and the tuple it was measured for
  Policies,   \* policy rows, numbered as they are activated
  LastInstant \* bound: the last instant of the trusted clock

ASSUME PolicyAssumption ==
  /\ \A r \in Receipts :
       /\ ReceiptOf[r].status \in {"passed", "failed"}
       /\ ReceiptOf[r].runAt \in Nat /\ ReceiptOf[r].validUntil \in Nat
  /\ "none" \notin Receipts
  /\ Policies \subseteq Nat /\ LastInstant \in Nat

VARIABLES
  clock,        \* the trusted clock
  stored,       \* workflow_benchmark_receipts
  invalidated,  \* workflow_benchmark_receipt_invalidations
  policy        \* approved_competitive_model_policies

policyVars == <<stored, invalidated, policy>>

NoPolicy == [receipt |-> "none", active |-> FALSE]

PolicyTypeOK ==
  /\ clock \in 0..LastInstant
  /\ invalidated \subseteq stored /\ stored \subseteq Receipts
  /\ \A p \in Policies :
       \/ policy[p] = NoPolicy
       \/ policy[p].receipt \in stored /\ policy[p].active \in BOOLEAN

PolicyInit ==
  /\ clock = 0 /\ stored = {} /\ invalidated = {}
  /\ policy = [p \in Policies |-> NoPolicy]

Tuple(p) == ReceiptOf[policy[p].receipt].tuple

(* Passed, not expired and never revoked.                                  *)
Approved(r) ==
  /\ r \in stored \ invalidated /\ ~ReceiptOf[r].invalidated
  /\ ReceiptOf[r].status = "passed" /\ ReceiptOf[r].validUntil > clock

-----------------------------------------------------------------------------
(* The operator's operations.                                              *)

(* What an operator hands in is parsed again; a known one changes nothing. *)
StoreReceipt(r) ==
  /\ r \notin stored /\ ReceiptHolds(ReceiptOf[r])
  /\ stored' = stored \cup {r}
  /\ UNCHANGED <<clock, invalidated, policy>>

(* The active policy of the same tuple gives way in the same transaction.  *)
Activate(p, r) ==
  /\ policy[p] = NoPolicy /\ \A q \in Policies : q < p => policy[q] # NoPolicy
  /\ Approved(r)
  /\ policy' = [q \in Policies |->
       IF q = p THEN [receipt |-> r, active |-> TRUE]
       ELSE IF policy[q].active /\ Tuple(q) = ReceiptOf[r].tuple
       THEN [policy[q] EXCEPT !.active = FALSE]
       ELSE policy[q]]
  /\ UNCHANGED <<clock, stored, invalidated>>

Deactivate(p) ==
  /\ policy[p].active
  /\ policy' = [policy EXCEPT ![p].active = FALSE]
  /\ UNCHANGED <<clock, stored, invalidated>>

(* A second revocation repeats the first or is refused.                    *)
Invalidate(r) ==
  /\ r \in stored \ invalidated
  /\ invalidated' = invalidated \cup {r}
  /\ UNCHANGED <<clock, stored, policy>>

PolicyNext ==
  \/ \E r \in Receipts : StoreReceipt(r) \/ Invalidate(r)
  \/ \E p \in Policies : Deactivate(p) \/ \E r \in Receipts : Activate(p, r)

-----------------------------------------------------------------------------
(* What an analysis asks.                                                  *)

(* getActiveCompetitivePolicy: the row the lookup's join returns.          *)
ActiveFor(tuple) ==
  {p \in Policies : policy[p].active /\ Approved(policy[p].receipt)
                                     /\ Tuple(p) = tuple}

(* isCurrentExactPolicy, of a row the lookup returned.                     *)
IsCurrent(p) ==
  LET r == ReceiptOf[policy[p].receipt] IN
  r.status = "passed" /\ ~r.invalidated /\ policy[p].receipt \notin invalidated
    /\ r.runAt <= clock /\ clock < r.validUntil

(* evaluateCompetitiveEligibility: the activations it may decide on.       *)
EligibleFor(tuple) == {p \in ActiveFor(tuple) : IsCurrent(p)}

(* isCurrentRankedPolicyFinalization: the lookup again, in the finalizing  *)
(* transaction; the row must be the very activation that was bound.        *)
StillActive(p, tuple) == p \in ActiveFor(tuple)
=============================================================================
