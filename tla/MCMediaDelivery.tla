-------------------------- MODULE MCMediaDelivery --------------------------
(* One attempt, uploaded to once or twice.                                 *)
EXTENDS MediaDelivery, TLC

CONSTANTS a1, m1, m2, l1, l2, l3, d1, d2

OneAttempt == {a1}
OneUpload == {m1}
TwoUploads == {m1, m2}
OwnerOfOne == [m \in OneUpload |-> a1]
OwnerOfTwo == [m \in TwoUploads |-> a1]
OneWorker == {d1}
TwoWorkers == {d1, d2}
TwoLeases == {l1, l2}
ThreeLeases == {l1, l2, l3}

UploadSymmetry == Permutations(TwoUploads)
WorkerSymmetry == Permutations(TwoWorkers)
=============================================================================
