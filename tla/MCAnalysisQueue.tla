-------------------------- MODULE MCAnalysisQueue --------------------------
(* One attempt of each mode, one worker of each mode, two drains at once.  *)
EXTENDS AnalysisQueue, TLC

CONSTANTS f1, v1, wf, wv, free, verified, d1, d2

TwoAttempts == {f1, v1}
TwoWorkers == {wf, wv}
BothModes == {free, verified}
ModeOfAttempt == f1 :> free @@ v1 :> verified
ModeOfWorker == wf :> free @@ wv :> verified
TwoDrains == {d1, d2}
=============================================================================
