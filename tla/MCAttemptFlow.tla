--------------------------- MODULE MCAttemptFlow ---------------------------
(* Trainings and their origins are numbered as they come to exist.  A      *)
(* behaviour is one of the tab's requests or one of its camera, which      *)
(* meet in the steps ChooseMedia, DropMedia and ReplaceMedia only.         *)
EXTENDS AttemptFlow, Capture

VARIABLE subject

TwoTrainings == {1, 2}
TwoOrigins == {1, 2}
BothModes == {"free", "verified"}

MCInit ==
  /\ FlowInit /\ CaptureInit
  /\ subject \in {"requests", "camera"}
  /\ subject = "camera" => mode = "verified"
MCNext ==
  \/ subject = "requests" /\ FlowNext /\ UNCHANGED <<captureVars, subject>>
  \/ subject = "camera" /\ CaptureNext /\ UNCHANGED <<flowVars, subject>>
MCSpec ==
  /\ MCInit /\ [][MCNext]_<<flowVars, captureVars, subject>>
  /\ WF_flowVars(PollProgress)
=============================================================================
