-------------------------- MODULE AttemptLifecycle --------------------------
(***************************************************************************)
(* What a client of the API may assume about one attempt: the domain's     *)
(* attempt machine (advanceAttempt, tombstoneAttempt) with the two         *)
(* withdrawals the persistence port adds to it, the outcome that becomes   *)
(* readable with the terminal status and disappears with the attempt, and  *)
(* the leaderboard entry only a ranked outcome can bring.                  *)
(***************************************************************************)
EXTENDS Naturals

CONSTANT Attempts

VARIABLES
  status,    \* AttemptStatus, or absent before the attempt is created
  deleted,   \* attempts whose deletionState is tombstoned
  outcome,   \* the outcome a reader is shown
  ranking    \* attempts on the live leaderboard

lifecycleVars == <<status, deleted, outcome, ranking>>

TerminalOutcomes == {"ranked", "unranked", "invalid", "failed"}
TerminalStatus(o) == IF o \in {"ranked", "unranked"} THEN "valid" ELSE o

Init ==
  /\ status = [a \in Attempts |-> "absent"]
  /\ deleted = {}
  /\ outcome = [a \in Attempts |-> "none"]
  /\ ranking = {}

(* assertActive and assertTransition: one status change of an attempt that *)
(* is not deleted.                                                         *)
Advance(a, from, to) ==
  /\ a \notin deleted
  /\ status[a] = from
  /\ status' = [status EXCEPT ![a] = to]

Pending == UNCHANGED <<deleted, outcome, ranking>>

Created(a)       == Advance(a, "absent", "awaiting-upload") /\ Pending
MediaAccepted(a) == Advance(a, "awaiting-upload", "uploaded") /\ Pending
QueueClaimed(a)  == Advance(a, "uploaded", "processing") /\ Pending

(* Compensation takes an upload back; a worker lets a claim go.            *)
MediaWithdrawn(a) == Advance(a, "uploaded", "awaiting-upload") /\ Pending
ClaimReleased(a)  == Advance(a, "processing", "uploaded") /\ Pending

Finalized(a, o) ==
  /\ Advance(a, "processing", TerminalStatus(o))
  /\ outcome' = [outcome EXCEPT ![a] = o]
  /\ ranking' = IF o = "ranked" THEN ranking \cup {a} ELSE ranking
  /\ UNCHANGED deleted

Tombstoned(a) ==
  /\ status[a] # "absent" /\ a \notin deleted
  /\ deleted' = deleted \cup {a}
  /\ outcome' = [outcome EXCEPT ![a] = "none"]
  /\ ranking' = ranking \ {a}
  /\ UNCHANGED status

Next ==
  \E a \in Attempts :
    \/ Created(a) \/ MediaAccepted(a) \/ QueueClaimed(a)
    \/ MediaWithdrawn(a) \/ ClaimReleased(a)
    \/ \E o \in TerminalOutcomes : Finalized(a, o)
    \/ Tombstoned(a)

Spec == Init /\ [][Next]_lifecycleVars
=============================================================================
