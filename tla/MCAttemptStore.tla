--------------------------- MODULE MCAttemptStore ---------------------------
(* One attempt that is uploaded to twice, and two processing leases: every *)
(* interleaving of two uploads, two workers, recovery and deletion.        *)
EXTENDS AttemptStore, TLC

CONSTANTS a1, m1, m2, l1, l2

MCAttempts == {a1}
MCMedia == {m1, m2}
MCLeases == {l1, l2}
MCOwner == [m \in MCMedia |-> a1]

Symmetry == Permutations(MCMedia) \cup Permutations(MCLeases)
=============================================================================
