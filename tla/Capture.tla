------------------------------ MODULE Capture ------------------------------
(***************************************************************************)
(* The camera of the verified training: the preview of the set-up's first  *)
(* gate, and the panel that records, or takes a file, for the upload.      *)
(*                                                                         *)
(* A panel is mounted while the tracer shows its stage and not the         *)
(* ranking, so that at most one is; the tracer outlives them and keeps the *)
(* answer of the first and the file of the second.  What a panel remembers *)
(* of a request for the camera, its generation and whether it is still     *)
(* mounted, is kept with the request as `heard`.  The attempt the capture  *)
(* screen waits for is taken to be there; previews, seconds and messages   *)
(* are left out.                                                           *)
(***************************************************************************)
EXTENDS Naturals, FiniteSets

CONSTANT MaxRequests  \* bound: requests for the camera

ASSUME CaptureAssumption == MaxRequests \in Nat

VARIABLES
  stage,         \* of the tracer: "device", "gates", "capture", "uploading", "elsewhere"
  ranking,       \* the ranking is shown instead
  cameraStatus,  \* what the tracer knows of the set-up's camera
  media,         \* the file the tracer would send: "none", "existing", "recorded"
  state,         \* CaptureState of the mounted capture panel
  requesting,    \* the mounted set-up waits for the camera
  stream,        \* streamRef of the mounted panel
  timers,        \* callbacks the capture panel has scheduled
  recorder,      \* the one it listens to: "none", "recording", "ended"
  autoStop,      \* autoStopRef: the last timer ended the recording
  localMedia,    \* localMediaRef
  requests,      \* requests for the camera so far
  asked,         \* those without an answer
  live           \* streams, by their request, whose tracks run

panelVars == <<state, requesting, stream, timers, recorder, autoStop, localMedia>>
cameraVars == <<requests, asked, live>>
captureVars == <<stage, ranking, cameraStatus, media, panelVars, cameraVars>>

NoStream == 0
InSetup(s, r) == s = "device" /\ ~r
InCapture(s, r) == s \in {"capture", "uploading"} /\ ~r
SetupShown == InSetup(stage, ranking)
CaptureShown == InCapture(stage, ranking)
Disabled == stage = "uploading"
Recording == {"countdown", "pre-roll", "active", "stopping"}
Busy == state \in Recording \cup {"requesting-permission"}

CaptureInit ==
  /\ stage = "device" /\ ranking = FALSE
  /\ cameraStatus = "pending" /\ media = "none"
  /\ state = "idle" /\ requesting = FALSE /\ stream = NoStream
  /\ timers = {} /\ recorder = "none" /\ autoStop = FALSE
  /\ localMedia = "none"
  /\ requests = 0 /\ asked = {} /\ live = {}

-----------------------------------------------------------------------------
(* The tracer shows something else: the clean-ups of a panel that goes.    *)

StopTracks == stream' = NoStream /\ live' = live \ {stream}
Unheard == {[r EXCEPT !.heard = FALSE] : r \in asked}

Unmount ==
  /\ cameraStatus' = IF SetupShown /\ stream # NoStream
                     THEN "pending" ELSE cameraStatus
  /\ asked' = Unheard /\ StopTracks
  /\ timers' = {} /\ recorder' = "none" /\ localMedia' = "none"
  /\ state' = "idle" /\ requesting' = FALSE /\ autoStop' = FALSE

Turn(s, r) ==
  /\ stage' = s /\ ranking' = r
  /\ IF \/ SetupShown /\ ~InSetup(s, r)
        \/ CaptureShown /\ ~InCapture(s, r)
     THEN Unmount
     ELSE UNCHANGED <<cameraStatus, panelVars, asked, live>>
  /\ UNCHANGED requests

(* "Continuar" and "Voltar" of the set-up; its last gate leads, through    *)
(* the calibration session, to the capture.                                *)
Continue ==
  /\ ~ranking
  /\ \/ stage = "device" /\ cameraStatus \in {"ready", "existing-video"}
        /\ Turn("gates", FALSE)
     \/ stage = "gates" /\ Turn("capture", FALSE)
  /\ UNCHANGED media

Back == ~ranking /\ stage = "gates" /\ Turn("device", FALSE) /\ UNCHANGED media

ToggleRanking == Turn(stage, ~ranking) /\ UNCHANGED media

(* "Enviar video"; then the server has it, or it failed or was cancelled.  *)
Send ==
  /\ CaptureShown /\ ~Disabled /\ media # "none"
  /\ Turn("uploading", ranking) /\ UNCHANGED media

UploadSettles ==
  /\ stage = "uploading"
  /\ \/ Turn("elsewhere", ranking) /\ media' = "none"
     \/ Turn("capture", ranking) /\ UNCHANGED media

(* The athlete leaves the tracer, which is a new one afterwards, or ends   *)
(* the training in another way; resetToSetup.                              *)
LeaveTracer == stage # "elsewhere" /\ Turn("elsewhere", ranking) /\ media' = "none"

StartOver ==
  /\ stage = "elsewhere" /\ ~ranking
  /\ stage' = "device" /\ cameraStatus' = "pending" /\ media' = "none"
  /\ UNCHANGED <<ranking, panelVars, cameraVars>>

-----------------------------------------------------------------------------
(* ProductionSetupCamera.                                                  *)

Ask ==
  /\ requests < MaxRequests /\ requests' = requests + 1
  /\ asked' = Unheard \cup {[id |-> requests', heard |-> TRUE]}

ActivateCamera ==
  /\ SetupShown /\ ~requesting
  /\ cameraStatus \notin {"ready", "existing-video", "unsupported"}
  /\ StopTracks
  /\ \/ Ask /\ requesting' = TRUE /\ UNCHANGED cameraStatus
     \/ cameraStatus' = "unsupported" /\ UNCHANGED <<requests, asked, requesting>>
  /\ UNCHANGED <<stage, ranking, media, state, timers, recorder, autoStop, localMedia>>

UseExistingVideo ==
  /\ SetupShown /\ ~requesting
  /\ cameraStatus \notin {"ready", "existing-video"}
  /\ StopTracks /\ cameraStatus' = "existing-video" /\ asked' = Unheard
  /\ UNCHANGED <<stage, ranking, media, state, requesting, timers, recorder,
                 autoStop, localMedia, requests>>

SetupAnswered(id, granted) ==
  /\ requesting' = FALSE
  /\ IF granted
     THEN /\ cameraStatus' = "ready" /\ stream' = id /\ live' = live \cup {id}
     ELSE /\ cameraStatus' \in {"denied", "unavailable"}
          /\ UNCHANGED <<stream, live>>
  /\ UNCHANGED <<state, timers, recorder, autoStop, localMedia>>

-----------------------------------------------------------------------------
(* ProductionCapture: the panel.                                           *)

(* releaseLocalMedia: only a file of this panel's own is taken from the    *)
(* tracer.                                                                 *)
ReleaseLocalMedia ==
  /\ localMedia' = "none"
  /\ media' = IF localMedia # "none" THEN "none" ELSE media
KeepLocalMedia(file) == localMedia' = file /\ media' = file

EndsInError == StopTracks /\ state' = "error" /\ UNCHANGED media
Fail == EndsInError /\ timers' = {} /\ recorder' = "none"

(* start: a browser without a recorder or a camera interface stops there.  *)
StartCapture ==
  /\ CaptureShown /\ ~Disabled /\ ~Busy
  /\ timers' = {} /\ StopTracks /\ ReleaseLocalMedia
  /\ \/ Ask /\ state' = "requesting-permission"
     \/ asked' = Unheard /\ state' = "error" /\ UNCHANGED requests
  /\ UNCHANGED <<stage, ranking, cameraStatus, requesting, recorder, autoStop>>

CaptureAnswered(id, granted) ==
  /\ IF granted
     THEN /\ stream' = id /\ live' = live \cup {id}
          /\ state' = "countdown" /\ timers' = timers \cup {"begin"}
          /\ UNCHANGED <<media, recorder>>
     ELSE Fail
  /\ UNCHANGED <<cameraStatus, requesting, autoStop, localMedia>>

(* A bug: an answer is taken by a panel that no longer waits for it.       *)
TakenByAnyone(r) == TRUE
Taken(r) == r.heard

(* What getUserMedia answers is stopped at once if nobody waits for it.    *)
CameraAnswers(r) ==
  /\ asked' = asked \ {r}
  /\ \E granted \in BOOLEAN :
       IF ~Taken(r)
       THEN UNCHANGED <<cameraStatus, media, panelVars, live>>
       ELSE \/ stage = "device" /\ SetupAnswered(r.id, granted) /\ UNCHANGED media
            \/ stage # "device" /\ CaptureAnswered(r.id, granted)
  /\ UNCHANGED <<stage, ranking, requests>>

(* selectExistingVideo and the button that discards.                       *)
SelectExisting ==
  /\ CaptureShown /\ ~Disabled /\ ~Busy
  /\ \/ KeepLocalMedia("existing") /\ state' = "idle"
     \/ ReleaseLocalMedia /\ state' = "error"
  /\ UNCHANGED <<stage, ranking, cameraStatus, requesting, stream, timers,
                 recorder, autoStop, cameraVars>>

Discard ==
  /\ CaptureShown /\ ~Disabled /\ ~Busy /\ localMedia # "none"
  /\ ReleaseLocalMedia /\ state' = "idle"
  /\ UNCHANGED <<stage, ranking, cameraStatus, requesting, stream, timers,
                 recorder, autoStop, cameraVars>>

-----------------------------------------------------------------------------
(* ProductionCapture: its timers and its recorder.                         *)

Due(timer) == timer \in timers /\ timers' = timers \ {timer}

(* A bug: a recording starts with the mark of the one before it.           *)
RecorderStartsMarked ==
  /\ recorder' = "recording" /\ state' = "pre-roll"
  /\ timers' = (timers \ {"begin"}) \cup {"activate", "finish"}
  /\ UNCHANGED <<media, stream, live, autoStop>>

RecorderStarts ==
  /\ recorder' = "recording" /\ autoStop' = FALSE /\ state' = "pre-roll"
  /\ timers' = (timers \ {"begin"}) \cup {"activate", "finish"}
  /\ UNCHANGED <<media, stream, live>>

(* beginRecorder: no format, no recorder, one that does not start (fail,   *)
(* for the last after the mark was reset), or a recording.                 *)
BeginRecorder ==
  /\ "begin" \in timers
  /\ \/ RecorderStarts
     \/ EndsInError /\ Due("begin") /\ UNCHANGED <<recorder, autoStop>>
     \/ Fail /\ autoStop' \in {autoStop, FALSE}
  /\ UNCHANGED <<stage, ranking, cameraStatus, requesting, localMedia, requests, asked>>

Activate ==
  /\ Due("activate") /\ state' = "active"
  /\ UNCHANGED <<stage, ranking, cameraStatus, media, requesting, stream, recorder,
                 autoStop, localMedia, cameraVars>>

(* After 64 s the recorder is told to stop, and says so later.             *)
Finish ==
  /\ "activate" \notin timers /\ Due("finish")
  /\ autoStop' = TRUE /\ state' = "stopping" /\ recorder' = "ended"
  /\ UNCHANGED <<stage, ranking, cameraStatus, media, requesting, stream,
                 localMedia, cameraVars>>

(* onStop                                                                  *)
RecorderStopped ==
  /\ recorder = "ended"
  /\ timers' = {} /\ recorder' = "none" /\ StopTracks
  /\ \/ autoStop /\ KeepLocalMedia("recorded") /\ state' = "idle"
     \/ state' = "error" /\ UNCHANGED <<media, localMedia>>
  /\ UNCHANGED <<stage, ranking, cameraStatus, requesting, autoStop, requests, asked>>

(* onError                                                                 *)
RecorderErred ==
  /\ recorder = "recording" /\ Fail
  /\ UNCHANGED <<stage, ranking, cameraStatus, requesting, autoStop, localMedia,
                 requests, asked>>

(* The camera is unplugged or its permission withdrawn.                    *)
TracksEnd ==
  /\ live # {} /\ live' = {}
  /\ recorder' = IF recorder = "recording" THEN "ended" ELSE recorder
  /\ UNCHANGED <<stage, ranking, cameraStatus, media, state, requesting, stream,
                 timers, autoStop, localMedia, requests, asked>>

-----------------------------------------------------------------------------

CaptureNext ==
  \/ Continue \/ Back \/ ToggleRanking \/ Send \/ UploadSettles \/ LeaveTracer \/ StartOver
  \/ ActivateCamera \/ UseExistingVideo \/ StartCapture
  \/ SelectExisting \/ Discard
  \/ \E r \in asked : CameraAnswers(r)
  \/ BeginRecorder \/ Activate \/ Finish
  \/ RecorderStopped \/ RecorderErred \/ TracksEnd

CaptureSpec == CaptureInit /\ [][CaptureNext]_captureVars

(* Types, and what the panel's references mean together.                   *)
CaptureTypeOK ==
  /\ stage \in {"device", "gates", "capture", "uploading", "elsewhere"}
  /\ media \in {"none", "existing", "recorded"}
  /\ stream \in 0..requests /\ live \subseteq 1..requests
  /\ timers \subseteq {"begin", "activate", "finish"}
  /\ localMedia # "none" => CaptureShown /\ localMedia = media
  /\ Cardinality({r \in asked : r.heard}) <= 1

(* The camera runs only while the athlete sees what it is for: its stream  *)
(* is that of the set-up's preview or of a countdown or recording on the   *)
(* screen.  However late it is granted, whatever fails and wherever the    *)
(* athlete goes meanwhile, no track is left on (stopTracks and the         *)
(* generations of production-capture.tsx, production-setup-camera.tsx).    *)
CameraOnlyWhileShown ==
  \A s \in live :
    /\ s = stream
    /\ \/ SetupShown /\ cameraStatus = "ready"
       \/ CaptureShown /\ state \in Recording

(* A recording becomes the file to send only when its own timers brought   *)
(* it to the end of the 64 s, not when it broke off, after whatever        *)
(* recordings there were before it (autoStopRef, production-capture.tsx).  *)
OnlyFullRecordings ==
  [][localMedia' = "recorded" /\ localMedia # "recorded" => state = "stopping"]_captureVars
=============================================================================
