----------------------------- MODULE WebProofs -----------------------------
(***************************************************************************)
(* One tab of the web application, for any number of trainings, uploads,   *)
(* visits and faults; and the cameras of its verified training.            *)
(***************************************************************************)
EXTENDS AttemptFlow, Capture, FiniteSetTheorems, TLAPS

-----------------------------------------------------------------------------
(* The cameras.                                                            *)

PanelStates == Recording \cup {"idle", "requesting-permission", "error"}

PanelTypes ==
  /\ stage \in {"device", "gates", "capture", "uploading", "elsewhere"}
  /\ media \in {"none", "existing", "recorded"}
  /\ state \in PanelStates
  /\ recorder \in {"none", "recording", "ended"}
  /\ requesting \in BOOLEAN /\ autoStop \in BOOLEAN
  /\ timers \subseteq {"begin", "activate", "finish"}
  /\ requests \in Nat /\ stream \in 0..requests
  /\ asked \subseteq [id : 1..requests, heard : BOOLEAN]

(* Between two handlers the state of the capture panel says what its       *)
(* recorder and its timers are doing, and a panel that is not on the       *)
(* screen keeps nothing.                                                   *)
PanelIsConsistent ==
  /\ state # "idle" => CaptureShown
  /\ requesting => SetupShown
  /\ recorder # "none" => state \in {"pre-roll", "active", "stopping"}
  /\ recorder = "recording" => ~autoStop
  /\ recorder = "ended" /\ autoStop => state = "stopping"
  /\ "begin" \in timers => state = "countdown"
  /\ {"activate", "finish"} \cap timers # {} => state \in {"pre-roll", "active"}
  /\ localMedia # "none" => CaptureShown /\ localMedia = media

(* At most one request will be heard when it is answered, by a panel that  *)
(* shows that it waits and has no camera yet.                              *)
OnlyWaitersHear ==
  /\ \A r, q \in asked : r.heard /\ q.heard => r = q
  /\ \A r \in asked : r.heard =>
       /\ stream = NoStream
       /\ \/ SetupShown /\ requesting
          \/ CaptureShown /\ state = "requesting-permission"

(* A camera that runs is the panel's.                                      *)
StreamIsHeld == NoStream \notin live /\ CameraOnlyWhileShown

PanelInv == PanelTypes /\ PanelIsConsistent /\ OnlyWaitersHear /\ StreamIsHeld

-----------------------------------------------------------------------------
(* Requests that are given up stay requests.                               *)
LEMMA UnheardRequests ==
  ASSUME PanelTypes
  PROVE  /\ Unheard \subseteq [id : 1..requests, heard : BOOLEAN]
         /\ \A q \in Unheard : ~q.heard
<1> SUFFICES ASSUME NEW q \in Unheard
             PROVE  q \in [id : 1..requests, heard : BOOLEAN] /\ ~q.heard
  OBVIOUS
<1>1. PICK r \in asked : q = [r EXCEPT !.heard = FALSE]
  BY DEF Unheard
<1>2. r \in [id : 1..requests, heard : BOOLEAN]
  BY DEF PanelTypes
<1> QED BY <1>1, <1>2

(* A new request is the only one that will be heard.                       *)
LEMMA OneAsks ==
  ASSUME PanelInv, Ask
  PROVE  /\ requests' \in Nat /\ asked' \subseteq [id : 1..requests', heard : BOOLEAN]
         /\ \A r, q \in asked' : r.heard /\ q.heard => r = q
         /\ requests <= requests'
<1>1. requests \in Nat /\ requests' = requests + 1
  BY DEF PanelInv, PanelTypes, Ask
<1>2. asked' = Unheard \cup {[id |-> requests', heard |-> TRUE]}
  BY DEF Ask
<1>3. /\ Unheard \subseteq [id : 1..requests, heard : BOOLEAN]
      /\ \A q \in Unheard : ~q.heard
  BY UnheardRequests DEF PanelInv
<1>4. \A q \in Unheard : q \in [id : 1..requests', heard : BOOLEAN]
  BY <1>1, <1>3
<1>5. [id |-> requests', heard |-> TRUE] \in [id : 1..requests', heard : BOOLEAN]
  BY <1>1
<1>6. asked' \subseteq [id : 1..requests', heard : BOOLEAN]
  BY <1>2, <1>4, <1>5
<1>7. \A q \in asked' : q.heard => q = [id |-> requests', heard |-> TRUE]
  BY <1>2, <1>3
<1> QED BY <1>1, <1>6, <1>7

LEMMA NobodyIsHeard ==
  ASSUME PanelInv, asked' = Unheard, requests' = requests
  PROVE  /\ asked' \subseteq [id : 1..requests', heard : BOOLEAN]
         /\ \A r \in asked' : ~r.heard
BY UnheardRequests DEF PanelInv

(* What the tracer shows changes: the panel stays, or leaves nothing.      *)
LEMMA TurnKeepsPanels ==
  ASSUME PanelInv, NEW s, NEW r, Turn(s, r),
         s \in {"device", "gates", "capture", "uploading", "elsewhere"},
         media' \in {"none", "existing", "recorded"},
         media' = media \/ s = "elsewhere"
  PROVE  PanelInv'
<1> USE DEF PanelInv, PanelTypes, Turn, SetupShown, CaptureShown, InSetup, InCapture, NoStream
<1>1. CASE \/ SetupShown /\ ~InSetup(s, r)
           \/ CaptureShown /\ ~InCapture(s, r)
  <2>1. Unmount /\ requests' = requests
    BY <1>1
  <2> USE <2>1 DEF Unmount, StopTracks
  <2>a. PanelTypes /\ asked' = Unheard
    OBVIOUS
  <2>2. asked' \subseteq [id : 1..requests, heard : BOOLEAN] /\ \A q \in asked' : ~q.heard
    <3> HIDE DEF PanelTypes
    <3> QED BY <2>a, UnheardRequests
  <2>b. /\ state' = "idle" /\ recorder' = "none" /\ requesting' = FALSE /\ autoStop' = FALSE
        /\ timers' = {} /\ requests' = requests /\ requests \in Nat /\ stream' = 0 /\ stage' = s
    OBVIOUS
  <2>c. requesting' \in BOOLEAN /\ autoStop' \in BOOLEAN
    BY <2>b
  <2>3. PanelTypes'
    BY <2>2, <2>b, <2>c DEF PanelStates
  <2>4. PanelIsConsistent' /\ OnlyWaitersHear'
    BY <2>2 DEF PanelIsConsistent, OnlyWaitersHear
  <2>5. StreamIsHeld'
    BY DEF StreamIsHeld, CameraOnlyWhileShown
  <2> QED BY <2>3, <2>4, <2>5
<1>2. CASE ~(\/ SetupShown /\ ~InSetup(s, r)
             \/ CaptureShown /\ ~InCapture(s, r))
  <2>1. UNCHANGED <<cameraStatus, panelVars, asked, live, requests>>
    BY <1>2
  <2> USE <2>1 DEF panelVars
  <2>2. (SetupShown => SetupShown') /\ (CaptureShown => CaptureShown')
    BY <1>2
  <2>3. PanelTypes'
    OBVIOUS
  <2>4. PanelIsConsistent'
    BY <2>2 DEF PanelIsConsistent
  <2>5. OnlyWaitersHear'
    BY <2>2 DEF OnlyWaitersHear
  <2>6. StreamIsHeld'
    BY <2>2 DEF StreamIsHeld, CameraOnlyWhileShown
  <2> QED BY <2>3, <2>4, <2>5, <2>6
<1> QED BY <1>1, <1>2

(* The set-up's handlers.                                                  *)
LEMMA SetupStep ==
  ASSUME PanelInv, ActivateCamera \/ UseExistingVideo
  PROVE  PanelInv'
<1> USE DEF PanelInv, PanelTypes, SetupShown, CaptureShown, InSetup, InCapture, NoStream, StopTracks
<1>1. CASE ActivateCamera /\ Ask /\ requesting' = TRUE /\ cameraStatus' = cameraStatus
  <2> USE <1>1, OneAsks DEF ActivateCamera
  <2>1. PanelTypes'
    OBVIOUS
  <2>2. PanelIsConsistent'
    BY DEF PanelIsConsistent
  <2>3. OnlyWaitersHear'
    BY DEF OnlyWaitersHear
  <2>4. StreamIsHeld'
    BY DEF StreamIsHeld, CameraOnlyWhileShown
  <2> QED BY <2>1, <2>2, <2>3, <2>4
<1>2. CASE /\ ActivateCamera
           /\ cameraStatus' = "unsupported" /\ UNCHANGED <<requests, asked, requesting>>
  <2> USE <1>2 DEF ActivateCamera
  <2>1. PanelTypes'
    OBVIOUS
  <2>2. PanelIsConsistent'
    BY DEF PanelIsConsistent
  <2>3. OnlyWaitersHear'
    BY DEF OnlyWaitersHear
  <2>4. StreamIsHeld'
    BY DEF StreamIsHeld, CameraOnlyWhileShown
  <2> QED BY <2>1, <2>2, <2>3, <2>4
<1>3. CASE UseExistingVideo
  <2> USE <1>3, NobodyIsHeard DEF UseExistingVideo
  <2>1. PanelTypes'
    OBVIOUS
  <2>2. PanelIsConsistent'
    BY DEF PanelIsConsistent
  <2>3. OnlyWaitersHear'
    BY DEF OnlyWaitersHear
  <2>4. StreamIsHeld'
    BY DEF StreamIsHeld, CameraOnlyWhileShown
  <2> QED BY <2>1, <2>2, <2>3, <2>4
<1> QED BY <1>1, <1>2, <1>3 DEF ActivateCamera

(* The camera answers, to a panel that waits for it or to nobody.          *)
LEMMA AnswerStep ==
  ASSUME PanelInv, NEW r \in asked, CameraAnswers(r)
  PROVE  PanelInv'
<1> USE DEF PanelInv, PanelTypes, SetupShown, CaptureShown, InSetup, InCapture, NoStream
<1>1. /\ r.id \in 1..requests /\ r.heard \in BOOLEAN
      /\ asked' \subseteq asked /\ requests' = requests
      /\ r.heard => \A q \in asked' : ~q.heard
      /\ UNCHANGED <<stage, ranking>>
  BY DEF CameraAnswers, OnlyWaitersHear
<1> USE <1>1
<1>2. CASE ~r.heard
  <2> USE <1>2
  <2>1. UNCHANGED <<cameraStatus, media, panelVars, live>>
    BY DEF CameraAnswers, Taken
  <2> QED BY <2>1 DEF PanelIsConsistent, OnlyWaitersHear, StreamIsHeld, CameraOnlyWhileShown,
                      panelVars
<1>3. ASSUME r.heard, NEW granted \in BOOLEAN, stage = "device",
             SetupAnswered(r.id, granted), UNCHANGED media
      PROVE  PanelInv'
  <2> USE <1>3 DEF SetupAnswered
  <2>a. stream = 0 /\ SetupShown
    BY DEF OnlyWaitersHear
  <2>b. live = {}
    BY <2>a DEF StreamIsHeld, CameraOnlyWhileShown
  <2>1. SetupShown /\ stream = 0 /\ live = {}
    BY <2>a, <2>b
  <2>c. /\ UNCHANGED <<stage, ranking, media, state, recorder, autoStop, timers, requests>>
        /\ requesting' = FALSE /\ asked' \subseteq asked
    OBVIOUS
  <2>d. stream' \in 0..requests
    <3>1. CASE granted
      BY <3>1
    <3>2. CASE ~granted
      BY <3>2
    <3> QED BY <3>1, <3>2
  <2>2. PanelTypes'
    BY <2>c, <2>d
  <2>3. PanelIsConsistent'
    BY <2>1 DEF PanelIsConsistent
  <2>4. OnlyWaitersHear'
    BY DEF OnlyWaitersHear
  <2>5. StreamIsHeld'
    BY <2>1 DEF StreamIsHeld, CameraOnlyWhileShown
  <2> QED BY <2>2, <2>3, <2>4, <2>5
<1>4. ASSUME r.heard, NEW granted \in BOOLEAN, stage # "device",
             CaptureAnswered(r.id, granted)
      PROVE  PanelInv'
  <2> USE <1>4 DEF CaptureAnswered, Fail, EndsInError, StopTracks
  <2>1. /\ CaptureShown /\ state = "requesting-permission" /\ stream = 0 /\ live = {}
        /\ recorder = "none" /\ timers = {}
    BY DEF OnlyWaitersHear, StreamIsHeld, CameraOnlyWhileShown, PanelIsConsistent
  <2>2. PanelTypes'
    BY <2>1 DEF PanelStates, Recording
  <2>3. PanelIsConsistent'
    BY <2>1 DEF PanelIsConsistent
  <2>4. OnlyWaitersHear'
    BY DEF OnlyWaitersHear
  <2>5. StreamIsHeld'
    BY <2>1 DEF StreamIsHeld, CameraOnlyWhileShown, Recording
  <2> QED BY <2>2, <2>3, <2>4, <2>5
<1> QED BY <1>2, <1>3, <1>4 DEF CameraAnswers, Taken

(* The panel's buttons.                                                    *)
LEMMA CaptureStep ==
  ASSUME PanelInv, StartCapture \/ SelectExisting \/ Discard
  PROVE  PanelInv'
<1> USE DEF PanelInv, PanelTypes, SetupShown, CaptureShown, InSetup, InCapture, NoStream,
            ReleaseLocalMedia, KeepLocalMedia
<1>1. CaptureShown /\ ~Busy /\ UNCHANGED <<stage, ranking, cameraStatus, requesting, recorder, autoStop>>
  BY DEF StartCapture, SelectExisting, Discard
<1>2. recorder = "none" /\ \A q \in asked : ~q.heard
  BY <1>1 DEF Busy, Recording, PanelIsConsistent, OnlyWaitersHear
<1>3. live = {} /\ timers = {}
  BY <1>1 DEF Busy, Recording, PanelIsConsistent, StreamIsHeld, CameraOnlyWhileShown
<1> USE <1>1, <1>2, <1>3
<1>4. CASE StartCapture /\ Ask /\ state' = "requesting-permission"
  <2> USE <1>4, OneAsks DEF StartCapture, StopTracks
  <2>1. PanelTypes'
    BY DEF PanelStates
  <2>2. PanelIsConsistent'
    BY DEF PanelIsConsistent
  <2>3. OnlyWaitersHear'
    BY DEF OnlyWaitersHear
  <2>4. StreamIsHeld'
    BY DEF StreamIsHeld, CameraOnlyWhileShown
  <2> QED BY <2>1, <2>2, <2>3, <2>4
<1>5. CASE StartCapture /\ asked' = Unheard /\ state' = "error" /\ UNCHANGED requests
  <2> USE <1>5, NobodyIsHeard DEF StartCapture, StopTracks
  <2>1. PanelTypes'
    BY DEF PanelStates
  <2>2. PanelIsConsistent'
    BY DEF PanelIsConsistent
  <2>3. OnlyWaitersHear'
    BY DEF OnlyWaitersHear
  <2>4. StreamIsHeld'
    BY DEF StreamIsHeld, CameraOnlyWhileShown
  <2> QED BY <2>1, <2>2, <2>3, <2>4
<1>6. CASE SelectExisting \/ Discard
  <2>1. /\ UNCHANGED <<stream, timers, cameraVars>> /\ state' \in {"idle", "error"}
        /\ localMedia' \in {"none", "existing"} /\ media' \in {"none", "existing", media}
        /\ localMedia' # "none" => localMedia' = media'
    BY <1>6 DEF SelectExisting, Discard
  <2> QED BY <2>1 DEF PanelStates, PanelIsConsistent, OnlyWaitersHear, StreamIsHeld,
                      CameraOnlyWhileShown, cameraVars
<1> QED BY <1>4, <1>5, <1>6 DEF StartCapture

(* The panel's timers and its recorder, and a camera that goes away.       *)
LEMMA RecorderStep ==
  ASSUME PanelInv,
         \/ BeginRecorder \/ Activate \/ Finish
         \/ RecorderStopped \/ RecorderErred \/ TracksEnd
  PROVE  PanelInv'
<1> USE DEF PanelInv, PanelTypes, PanelStates, Recording, SetupShown, CaptureShown, InSetup,
            InCapture, NoStream, PanelIsConsistent, OnlyWaitersHear, StreamIsHeld,
            CameraOnlyWhileShown, StopTracks, EndsInError, Fail, Due, cameraVars, KeepLocalMedia
<1>1. CASE BeginRecorder
  <2>1. /\ CaptureShown /\ state = "countdown" /\ recorder = "none"
        /\ timers = {"begin"} /\ \A q \in asked : ~q.heard
    BY <1>1 DEF BeginRecorder
  <2>2. CASE RecorderStarts
    BY <1>1, <2>1, <2>2 DEF BeginRecorder, RecorderStarts
  <2>3. CASE EndsInError /\ Due("begin") /\ UNCHANGED <<recorder, autoStop>>
    <3> USE <1>1, <2>1, <2>3 DEF BeginRecorder
    <3>1. PanelTypes'
      OBVIOUS
    <3>2. PanelIsConsistent'
      OBVIOUS
    <3>3. OnlyWaitersHear' /\ StreamIsHeld'
      OBVIOUS
    <3> QED BY <3>1, <3>2, <3>3
  <2>4. CASE Fail /\ autoStop' \in {autoStop, FALSE}
    <3> USE <1>1, <2>1, <2>4 DEF BeginRecorder
    <3>a. autoStop' = autoStop \/ autoStop' = FALSE
      OBVIOUS
    <3>b. autoStop' \in BOOLEAN
      BY <3>a
    <3>1. PanelTypes'
      BY <3>b
    <3>2. PanelIsConsistent'
      OBVIOUS
    <3>3. OnlyWaitersHear' /\ StreamIsHeld'
      OBVIOUS
    <3> QED BY <3>1, <3>2, <3>3
  <2> QED BY <1>1, <2>2, <2>3, <2>4 DEF BeginRecorder
<1>2. CASE Activate
  BY <1>2 DEF Activate
<1>3. CASE Finish
  BY <1>3 DEF Finish
<1>4. CASE RecorderStopped
  BY <1>4 DEF RecorderStopped
<1>5. CASE RecorderErred
  BY <1>5 DEF RecorderErred
<1>6. CASE TracksEnd
  BY <1>6 DEF TracksEnd
<1> QED BY <1>1, <1>2, <1>3, <1>4, <1>5, <1>6

(* The steps of the tracer.                                                *)
LEMMA TracerStep ==
  ASSUME PanelInv,
         \/ Continue \/ Back \/ ToggleRanking \/ Send
         \/ UploadSettles \/ LeaveTracer \/ StartOver
  PROVE  PanelInv'
<1>1. /\ stage \in {"device", "gates", "capture", "uploading", "elsewhere"}
      /\ media \in {"none", "existing", "recorded"}
  BY DEF PanelInv, PanelTypes
<1>2. ASSUME NEW s \in {"device", "gates", "capture", "uploading", "elsewhere"}, NEW r,
             Turn(s, r), \/ UNCHANGED media
                         \/ s = "elsewhere" /\ media' = "none"
      PROVE  PanelInv'
  BY <1>1, <1>2, TurnKeepsPanels
<1>3. CASE StartOver
  BY <1>3 DEF StartOver, PanelInv, PanelTypes, PanelStates, PanelIsConsistent, OnlyWaitersHear,
              StreamIsHeld, CameraOnlyWhileShown, SetupShown, CaptureShown, InSetup, InCapture,
              panelVars, cameraVars, NoStream
<1> QED BY <1>1, <1>2, <1>3 DEF Continue, Back, ToggleRanking, Send, UploadSettles, LeaveTracer

(* The invariant of the two cameras.                                       *)
THEOREM PanelsInvariant == CaptureSpec => []PanelInv
<1>1. CaptureInit => PanelInv
  <2> SUFFICES ASSUME CaptureInit PROVE PanelInv
    OBVIOUS
  <2> USE DEF CaptureInit, NoStream
  <2>a. requests \in Nat /\ stream \in 0..requests /\ asked \subseteq [id : 1..requests, heard : BOOLEAN]
    OBVIOUS
  <2>b. requesting \in BOOLEAN /\ autoStop \in BOOLEAN
    OBVIOUS
  <2>c. /\ stage \in {"device", "gates", "capture", "uploading", "elsewhere"}
        /\ media \in {"none", "existing", "recorded"} /\ state \in PanelStates
        /\ recorder \in {"none", "recording", "ended"}
        /\ timers \subseteq {"begin", "activate", "finish"}
    BY DEF PanelStates
  <2>1. PanelTypes
    BY <2>a, <2>b, <2>c DEF PanelTypes
  <2>2. PanelIsConsistent
    BY DEF PanelIsConsistent
  <2>3. OnlyWaitersHear /\ StreamIsHeld
    BY DEF OnlyWaitersHear, StreamIsHeld, CameraOnlyWhileShown
  <2> QED BY <2>1, <2>2, <2>3 DEF PanelInv
<1>2. PanelInv /\ [CaptureNext]_captureVars => PanelInv'
  <2> SUFFICES ASSUME PanelInv, [CaptureNext]_captureVars PROVE PanelInv'
    OBVIOUS
  <2>1. CASE UNCHANGED captureVars
    BY <2>1 DEF captureVars, panelVars, cameraVars, PanelInv, PanelTypes, PanelIsConsistent,
       OnlyWaitersHear, StreamIsHeld, CameraOnlyWhileShown, SetupShown, CaptureShown
  <2> QED BY <2>1, TracerStep, SetupStep, CaptureStep, AnswerStep, RecorderStep DEF CaptureNext
<1> QED BY <1>1, <1>2, PTL DEF CaptureSpec

(* The camera runs only while the athlete sees what it is for, however     *)
(* late it is granted and wherever the athlete goes meanwhile              *)
(* (production-capture.tsx, production-setup-camera.tsx).                  *)
THEOREM CameraIsShown == CaptureSpec => []CameraOnlyWhileShown
<1>1. PanelInv => CameraOnlyWhileShown
  BY DEF PanelInv, StreamIsHeld
<1> QED BY <1>1, PanelsInvariant, PTL

(* A recording becomes the file to send only when its own timers ended it, *)
(* not when it broke off (autoStopRef, production-capture.tsx).            *)
THEOREM RecordingsAreFull == CaptureSpec => OnlyFullRecordings
<1>1. PanelInv /\ [CaptureNext]_captureVars =>
        [localMedia' = "recorded" /\ localMedia # "recorded" => state = "stopping"]_captureVars
  <2> SUFFICES ASSUME PanelInv, CaptureNext,
                      localMedia' = "recorded", localMedia # "recorded"
               PROVE  state = "stopping"
    OBVIOUS
  <2>1. CASE RecorderStopped
    BY <2>1 DEF RecorderStopped, PanelInv, PanelIsConsistent
  <2>2. CASE ~RecorderStopped
    BY <2>2 DEF CaptureNext, Continue, Back, ToggleRanking, Send, UploadSettles, LeaveTracer,
       StartOver, Turn, Unmount, ActivateCamera, UseExistingVideo, StartCapture, SelectExisting,
       Discard, ReleaseLocalMedia, KeepLocalMedia, CameraAnswers, SetupAnswered,
       CaptureAnswered, BeginRecorder, Activate, Finish, RecorderErred, TracksEnd, panelVars
  <2> QED BY <2>1, <2>2
<1> QED BY <1>1, PanelsInvariant, PTL DEF CaptureSpec, OnlyFullRecordings

-----------------------------------------------------------------------------
(* The requests of a tab.                                                  *)

OfTraining == {"recover", "upload", "reconcile", "poll", "delete", "erase"}
Kinds == OfTraining \cup {"create", "create-verified", "issue", "ready"}
Codes == {"none", "attaching", "ok", "not-found", "duplicate", "error", "lost"}
Outcomes == {"awaiting-upload", "received", "ended"}
Answer == [code : Codes, training : Nat, shown : Outcomes \cup {"none", "deleted"}]
Call == [kind : Kinds, of : Nat, heard : BOOLEAN, current : BOOLEAN, reply : Answer]
Page == [screen : Screens, mine : Trainings \cup {NoTraining}, session : Nat,
         media : BOOLEAN, known : Outcomes \cup {"none"},
         result : Outcomes \cup {"none"}, notice : BOOLEAN,
         started : BOOLEAN, blocked : BOOLEAN, dirty : BOOLEAN,
         overtaken : BOOLEAN, cleanup : Trainings \cup {NoTraining}]

Made(t) == status[t] # "none"
Gone(t) == status[t] = "deleted"

(* What an answer says was so when it was given, and stays so.             *)
Fits(kind, of, reply) ==
  /\ kind \in OfTraining => of \in Trainings /\ Made(of)
  /\ reply = Attaching => kind = "upload"
  /\ reply.code = "ok" =>
       /\ kind \in {"create", "create-verified"} =>
            /\ reply.training \in Trainings /\ Made(reply.training)
            /\ origin[reply.training] = of
       /\ kind = "recover" => reply.training = of
       /\ kind \in {"create", "recover", "upload", "reconcile", "poll"} =>
            reply.shown \in Outcomes
       /\ kind \in {"delete", "erase"} => Gone(of)
  /\ mode = "free" =>
       /\ kind \notin {"create-verified", "issue", "ready"}
       /\ kind = "create" => of \in Origins /\ of <= spent.keys
       /\ reply.code = "not-found" =>
            /\ kind = "create" => \E t \in Trainings : origin[t] = of /\ Gone(t)
            /\ kind = "recover" => Gone(of)

(* Where a page waits for an answer it would heed, and that it waits for   *)
(* one at a time.  A reconciliation is waited for while there is something *)
(* to upload, unless a recording overtook it.                              *)
Awaits(p, c) ==
  /\ c.kind \in {"create", "recover"} => p.screen = "creating" /\ p.started /\ ~p.notice
  /\ c.kind = "issue" => p.screen = "issuing"
  /\ c.kind = "ready" => p.screen = "readying"
  /\ c.kind = "delete" => p.screen = "deleting" /\ c.of = p.mine
  /\ c.kind = "reconcile" =>
       /\ p.mine # NoTraining
       /\ \/ p.screen \in {"capture", "uploading"}
          \/ p.overtaken /\ p.screen \in {"pending", "terminal"}
Apart(p, c, d) ==
  /\ c.kind = d.kind /\ c.kind \in {"issue", "ready", "upload", "delete"} => c = d
  /\ {c.kind, d.kind} \subseteq {"create", "recover"} => c = d
  /\ c.kind = "reconcile" /\ d.kind = "upload" => p.overtaken
OneReconcile(cs) ==
  \A c, d \in cs : c.kind = "reconcile" /\ d.kind = "reconcile" => c = d

Expected(p, cs) ==
  /\ \A c \in cs : Heeded(c) => Awaits(p, c)
  /\ \A c, d \in cs : Heeded(c) /\ Heeded(d) => Apart(p, c, d)
  /\ OneReconcile(cs)

(* The effects of a screen end with it.                                    *)
Listening(p, cs) ==
  \A c \in cs : c.heard =>
    /\ c.kind = "upload" => p.screen = "uploading"
    /\ c.kind = "poll" => p.screen = "pending"
    /\ c.kind = "create-verified" => p.screen = "capture"

(* The screens that one of the two trainings has and what they need.       *)
PageFits ==
  /\ page.overtaken => mode = "verified"
  /\ page.screen \in {"creating", "deleting"} => mode = "free"
  /\ page.screen \in {"challenge", "setup", "issuing", "readying"} => mode = "verified"
  /\ page.mine # NoTraining => Made(page.mine)
  /\ \/ page.media
     \/ page.screen \in {"uploading", "pending", "terminal", "deleting"}
     \/ page.screen = "capture" /\ mode = "free"
     => page.mine # NoTraining
  /\ page.screen = "creating" => page.mine = NoTraining
  /\ page.cleanup # NoTraining => page.screen = "away" /\ Gone(page.cleanup)
  /\ page.dirty => page.screen = "creating" /\ page.blocked /\ page.notice

(* A key the tab ever used is the stored one, unless the athlete left its  *)
(* training for another or that training is deleted: then nothing that is  *)
(* still to come can make a training of it.                                *)
Settled(k) == k \in given \/ \E t \in Trainings : origin[t] = k /\ Gone(t)
KeysAreKept ==
  mode = "free" =>
    /\ \A t \in Trainings : origin[t] = NoOrigin <=> ~Made(t)
    /\ \A t \in Trainings : origin[t] \in Origins \cup {NoOrigin} /\ origin[t] <= spent.keys
    /\ \A t, u \in Trainings : Made(t) /\ origin[t] = origin[u] => t = u
    /\ intent <= spent.keys
    /\ \A k \in Origins : k <= spent.keys => k = intent \/ Settled(k)

(* The stored training, and the one on the screen, is that of the stored   *)
(* key, or both are over.                                                  *)
OwnsIntent(t) == intent = origin[t] \/ (intent = NoOrigin /\ Gone(t))
OwnerIsKept ==
  mode = "free" =>
    /\ owner # NoTraining => Made(owner) /\ OwnsIntent(owner)
    /\ page.mine # NoTraining => OwnsIntent(page.mine)
    /\ \A c \in calls : Heeded(c) =>
         /\ c.kind = "create" => c.of = intent /\ owner = NoTraining
         /\ c.kind = "recover" => OwnsIntent(c.of)
    /\ page.dirty => intent = NoOrigin \/ Settled(intent)

FlowTypes ==
  /\ status \in [Trainings -> Statuses] /\ origin \in [Trainings -> Nat]
  /\ calls \subseteq Call /\ page \in Page
  /\ mode \in {"free", "verified"} /\ storage \in {"ok", "full", "gone"}
  /\ owner \in Trainings \cup {NoTraining} /\ intent \in Origins \cup {NoOrigin}
  /\ spent \in [uploads : Nat, visits : Nat, keys : Nat]

CallsFit == \A c \in calls : Fits(c.kind, c.of, c.reply)

FlowInv ==
  /\ FlowTypes /\ CallsFit /\ Expected(page, calls) /\ Listening(page, calls)
  /\ PageFits /\ KeysAreKept /\ OwnerIsKept

-----------------------------------------------------------------------------
(* What becomes of requests.                                               *)

(* A request that is forgotten, or of an older generation, is the same     *)
(* request, heeded by nobody.                                              *)
Weaker(d, c) ==
  /\ d.kind = c.kind /\ d.of = c.of /\ d.reply = c.reply
  /\ d.heard => c.heard
  /\ d = c \/ ~Heeded(d)
Kept(cs, ds) == \A d \in ds : \E c \in cs : Weaker(d, c)

LEMMA ForgottenIsWeaker ==
  ASSUME NEW c \in Call, NEW d \in Forgotten(c)
  PROVE  /\ d \in Call /\ Weaker(d, c) /\ ~d.heard /\ c.kind \notin Reads
         /\ d.kind = c.kind
<1>1. d = [c EXCEPT !.heard = FALSE, !.current = FALSE] /\ c.kind \notin Reads
  BY DEF Forgotten
<1>2. /\ d \in Call /\ d.kind = c.kind /\ d.of = c.of /\ d.reply = c.reply
      /\ d.heard = FALSE
  BY <1>1 DEF Call
<1> QED BY <1>1, <1>2 DEF Weaker, Heeded

LEMMA AbortForgets ==
  ASSUME NEW cs \in SUBSET Call, NEW kinds
  PROVE  /\ Abort(cs, kinds) \subseteq Call /\ Kept(cs, Abort(cs, kinds))
         /\ \A d \in Abort(cs, kinds) :
              /\ d.heard => d \in cs /\ d.kind \notin kinds
              /\ d.kind \in Reads => d \in cs /\ d.kind \notin kinds
<1> SUFFICES ASSUME NEW d \in Abort(cs, kinds)
             PROVE  /\ d \in Call /\ \E c \in cs : Weaker(d, c)
                    /\ d.heard => d \in cs /\ d.kind \notin kinds
                    /\ d.kind \in Reads => d \in cs /\ d.kind \notin kinds
  BY DEF Kept
<1>1. CASE d \in cs /\ d.kind \notin kinds
  BY <1>1 DEF Weaker
<1>2. CASE \E c \in cs : d \in Forgotten(c)
  BY <1>2, ForgottenIsWeaker
<1> QED BY <1>1, <1>2 DEF Abort

LEMMA GenerationPasses ==
  ASSUME NEW cs \in SUBSET Call
  PROVE  /\ NewGeneration(cs) \subseteq Call /\ Kept(cs, NewGeneration(cs))
         /\ \A d \in NewGeneration(cs) : ~Heeded(d)
<1> SUFFICES ASSUME NEW d \in NewGeneration(cs)
             PROVE  d \in Call /\ (\E c \in cs : Weaker(d, c)) /\ ~Heeded(d)
  BY DEF Kept
<1>1. PICK c \in cs : d = [c EXCEPT !.current = FALSE]
  BY DEF NewGeneration
<1>2. c \in Call
  OBVIOUS
<1>3. /\ d \in Call /\ d.kind = c.kind /\ d.of = c.of /\ d.reply = c.reply
      /\ d.heard = c.heard /\ d.current = FALSE
  BY <1>1, <1>2 DEF Call
<1> QED BY <1>3 DEF Weaker, Heeded

(* There is one reconciliation before and after.                           *)
LEMMA GenerationKeepsOne ==
  ASSUME NEW cs \in SUBSET Call, OneReconcile(cs) PROVE OneReconcile(NewGeneration(cs))
<1> SUFFICES ASSUME NEW d \in NewGeneration(cs), NEW e \in NewGeneration(cs),
                    d.kind = "reconcile", e.kind = "reconcile"
             PROVE  d = e
  BY DEF OneReconcile
<1>1. PICK c \in cs : d = [c EXCEPT !.current = FALSE]
  BY DEF NewGeneration
<1>2. PICK b \in cs : e = [b EXCEPT !.current = FALSE]
  BY DEF NewGeneration
<1>3. c \in Call /\ b \in Call
  OBVIOUS
<1>4. c.kind = "reconcile" /\ b.kind = "reconcile"
  BY <1>1, <1>2, <1>3 DEF Call
<1> QED BY <1>1, <1>2, <1>4 DEF OneReconcile

LEMMA KeptTwice ==
  ASSUME NEW cs, NEW ds, NEW es, Kept(cs, ds), Kept(ds, es)
  PROVE  Kept(cs, es)
BY DEF Kept, Weaker

LEMMA SentIsACall ==
  ASSUME NEW kind \in Kinds, NEW of \in Nat
  PROVE  /\ Sent(kind, of) \in Call /\ Sent(kind, of).kind = kind /\ Sent(kind, of).of = of
         /\ Heeded(Sent(kind, of)) /\ Sent(kind, of).heard
         /\ Sent(kind, of).reply = [code |-> "none", training |-> 0, shown |-> "none"]
<1> DEFINE none == [code |-> "none", training |-> 0, shown |-> "none"]
<1>1. Sent(kind, of) = [kind |-> kind, of |-> of, heard |-> TRUE, current |-> TRUE, reply |-> none]
  BY ServerAssumption DEF Sent, NoReply
<1>2. none \in Answer
  BY DEF Answer, Codes
<1>3. Sent(kind, of).heard /\ Sent(kind, of).current
  BY <1>1
<1> HIDE DEF none
<1>4. Sent(kind, of) \in Call /\ Sent(kind, of).kind = kind /\ Sent(kind, of).of = of
        /\ Sent(kind, of).reply = none
  BY <1>1, <1>2 DEF Call
<1> QED BY <1>3, <1>4 DEF Heeded, none

(* A screen that is shown hears what belongs to it.                        *)
LEMMA ShowListens ==
  ASSUME NEW p, NEW cs \in SUBSET Call, Expected(p, cs), Show(p, cs)
  PROVE  /\ page' = p /\ calls' \subseteq Call /\ Kept(cs, calls')
         /\ Expected(p, calls') /\ Listening(p, calls')
<1> DEFINE kinds == (IF p.screen = "uploading" THEN {} ELSE {"upload"})
              \cup (IF p.screen = "pending" THEN {} ELSE {"poll"})
              \cup (IF p.screen = "capture" THEN {} ELSE {"create-verified"})
<1>1. page' = p /\ calls' = Abort(cs, kinds)
  BY DEF Show, Leaving
<1>2. /\ calls' \subseteq Call /\ Kept(cs, calls')
      /\ \A d \in calls' : /\ d.heard => d \in cs /\ d.kind \notin kinds
                           /\ d.kind \in Reads => d \in cs /\ d.kind \notin kinds
  <2> HIDE DEF kinds
  <2> QED BY <1>1, AbortForgets
<1>3. Listening(p, calls')
  BY <1>2 DEF Listening
<1>4. \A d \in calls' : Heeded(d) => d \in cs
  BY <1>2 DEF Heeded
<1>5. \A d \in calls' : d.kind = "reconcile" => d \in cs
  BY <1>2 DEF Reads
<1>6. Expected(p, calls')
  <2> HIDE DEF kinds
  <2> QED BY <1>4, <1>5 DEF Expected, OneReconcile
<1> QED BY <1>1, <1>2, <1>3, <1>6

(* Fewer requests are expected as well.                                    *)
LEMMA FewerExpected ==
  ASSUME NEW p, NEW cs, NEW ds \in SUBSET cs, Expected(p, cs)
  PROVE  Expected(p, ds)
BY DEF Expected, OneReconcile

LEMMA FewerKept == ASSUME NEW cs, NEW ds \in SUBSET cs PROVE Kept(cs, ds)
BY DEF Kept, Weaker

-----------------------------------------------------------------------------
(* Answers.                                                                *)

LEMMA Answers ==
  /\ NoReply \in Answer /\ NoReply.code = "none"
  /\ Attaching \in Answer /\ Attaching.code = "attaching"
  /\ \A code \in Codes : /\ Refused(code) \in Answer /\ Refused(code).code = code
BY ServerAssumption DEF NoReply, Attaching, Refused, Answer, Codes

(* What was so of trainings stays so.                                      *)
Grows ==
  /\ \A t \in Trainings :
       /\ Made(t) => Made(t)' /\ origin'[t] = origin[t]
       /\ Gone(t) => Gone(t)'
  /\ spent.keys <= spent'.keys /\ mode' = mode

LEMMA FitStays ==
  ASSUME FlowTypes, Grows, spent'.keys \in Nat,
         NEW c \in Call, Fits(c.kind, c.of, c.reply)
  PROVE  Fits(c.kind, c.of, c.reply)'
<1> USE DEF Grows, Fits
<1>1. c.of \in Nat
  BY DEF Call
<1>2. mode = "free" => \A t \in Trainings : Gone(t) => origin'[t] = origin[t]
  BY DEF Gone, Made
<1>3. ASSUME mode = "free", c.kind = "create", c.of <= spent.keys PROVE c.of <= spent'.keys
  BY <1>1, <1>3 DEF FlowTypes
<1>4. ASSUME mode = "free", c.kind = "create", \E t \in Trainings : origin[t] = c.of /\ Gone(t)
      PROVE  \E t \in Trainings : origin'[t] = c.of /\ Gone(t)'
  BY <1>2, <1>4
<1>5. ASSUME c.kind \in {"create", "create-verified"}, c.reply.code = "ok"
      PROVE  /\ c.reply.training \in Trainings /\ Made(c.reply.training)'
             /\ origin'[c.reply.training] = c.of
  BY <1>5
<1>6. c.kind \in OfTraining => c.of \in Trainings /\ Made(c.of)'
  OBVIOUS
<1>7. c.reply.code = "ok" =>
        /\ c.kind = "recover" => c.reply.training = c.of
        /\ c.kind \in {"create", "recover", "upload", "reconcile", "poll"} =>
             c.reply.shown \in Outcomes
        /\ c.kind \in {"delete", "erase"} => Gone(c.of)'
  BY <1>6 DEF OfTraining
<1>8. mode = "free" =>
        /\ c.kind \notin {"create-verified", "issue", "ready"}
        /\ c.kind = "create" => c.of \in Origins /\ c.of <= spent'.keys
        /\ c.reply.code = "not-found" =>
             /\ c.kind = "create" => \E t \in Trainings : origin'[t] = c.of /\ Gone(t)'
             /\ c.kind = "recover" => Gone(c.of)'
  BY <1>3, <1>4, <1>6 DEF OfTraining
<1>9. (c.reply = Attaching)' => c.kind = "upload"
  BY DEF Attaching, NoReply
<1> QED BY <1>5, <1>6, <1>7, <1>8, <1>9

LEMMA SettledStays ==
  ASSUME Grows, given \subseteq given', NEW k, Settled(k) PROVE Settled(k)'
BY DEF Grows, Settled, Gone, Made

LEMMA OwnsStays ==
  ASSUME Grows, intent' = intent, NEW t \in Trainings, Made(t), OwnsIntent(t)
  PROVE  OwnsIntent(t)'
BY DEF Grows, OwnsIntent

(* Requests that come from fitting ones fit.                               *)
LEMMA KeptFit ==
  ASSUME NEW cs \in SUBSET Call, NEW ds \in SUBSET Call, Kept(cs, ds),
         \A c \in cs : Fits(c.kind, c.of, c.reply)'
  PROVE  \A d \in ds : Fits(d.kind, d.of, d.reply)'
<1> SUFFICES ASSUME NEW d \in ds PROVE Fits(d.kind, d.of, d.reply)'
  OBVIOUS
<1>1. PICK c \in cs : d.kind = c.kind /\ d.of = c.of /\ d.reply = c.reply
  BY DEF Kept, Weaker
<1> QED BY <1>1

-----------------------------------------------------------------------------
(* The server.                                                             *)

(* One request is answered, lost or taken by the server only.              *)
Swapped(c, reply) ==
  calls' \subseteq (calls \ {c}) \cup {[c EXCEPT !.reply = reply]} \cup Forgotten(c)

LEMMA SwapWaits ==
  ASSUME FlowTypes, Expected(page, calls), Listening(page, calls), page' = page,
         NEW c \in calls, NEW reply \in Answer, Swapped(c, reply)
  PROVE  /\ calls' \subseteq Call /\ Expected(page', calls') /\ Listening(page', calls')
         /\ \A d \in calls' : \/ d \in calls
                              \/ d.kind = c.kind /\ d.of = c.of /\ d.reply \in {c.reply, reply}
         /\ \A d \in calls' : Heeded(d) =>
              \E e \in calls : Heeded(e) /\ e.kind = d.kind /\ e.of = d.of
<1> DEFINE n == [c EXCEPT !.reply = reply]
<1>1. c \in Call
  BY DEF FlowTypes
<1>2. /\ n \in Call /\ n.kind = c.kind /\ n.of = c.of /\ n.reply = reply
      /\ n.heard = c.heard /\ n.current = c.current
  BY <1>1 DEF Call
<1>3. \A d \in Forgotten(c) : /\ d \in Call /\ d.kind = c.kind /\ d.of = c.of
                             /\ d.reply = c.reply /\ ~d.heard /\ d.kind # "reconcile"
  BY <1>1, ForgottenIsWeaker DEF Weaker, Reads
<1>4. Heeded(n) = Heeded(c)
  BY <1>2 DEF Heeded
<1> HIDE DEF n
<1>5. \A d \in calls' : d \in calls \ {c} \/ d = n \/ d \in Forgotten(c)
  BY DEF Swapped, n
<1>6. \A d \in calls' : Heeded(d) => (d \in calls /\ d # c) \/ (d = n /\ Heeded(c))
  BY <1>3, <1>4, <1>5 DEF Heeded
<1>7. \A d \in calls' : d.kind = "reconcile" =>
        (d \in calls /\ d # c) \/ (d = n /\ c.kind = "reconcile")
  BY <1>2, <1>3, <1>5
<1>8. Expected(page, calls')
  <2>1. \A d \in calls' : Heeded(d) =>
          \E e \in calls : Heeded(e) /\ e.kind = d.kind /\ e.of = d.of
    BY <1>2, <1>6
  <2>2. ASSUME NEW d \in calls', Heeded(d) PROVE Awaits(page, d)
    <3>1. PICK e \in calls : Heeded(e) /\ e.kind = d.kind /\ e.of = d.of
      BY <2>1, <2>2
    <3> QED BY <3>1 DEF Expected, Awaits
  <2>3. ASSUME NEW d \in calls', NEW e \in calls', Heeded(d), Heeded(e)
        PROVE  Apart(page, d, e)
    BY <1>2, <1>6, <2>3 DEF Expected, Apart
  <2>4. OneReconcile(calls')
    BY <1>7 DEF Expected, OneReconcile
  <2> QED BY <2>2, <2>3, <2>4 DEF Expected
<1>9. Listening(page, calls')
  BY <1>2, <1>3, <1>5 DEF Listening
<1>10. calls' \subseteq Call
  BY <1>2, <1>3, <1>5 DEF FlowTypes
<1>11. \A d \in calls' : \/ d \in calls
                         \/ d.kind = c.kind /\ d.of = c.of /\ d.reply \in {c.reply, reply}
  BY <1>2, <1>3, <1>5
<1>12. \A d \in calls' : Heeded(d) =>
         \E e \in calls : Heeded(e) /\ e.kind = d.kind /\ e.of = d.of
  BY <1>2, <1>6
<1> QED BY <1>8, <1>9, <1>10, <1>11, <1>12

(* Which answers fit a request.                                            *)
LEMMA RefusalFits ==
  ASSUME FlowTypes, Grows, spent'.keys \in Nat,
         NEW c \in Call, Fits(c.kind, c.of, c.reply),
         NEW code \in {"not-found", "duplicate", "error", "lost"},
         code = "not-found" /\ mode = "free" =>
           /\ c.kind = "create" => \E t \in Trainings : origin[t] = c.of /\ Gone(t)
           /\ c.kind = "recover" => Gone(c.of)
  PROVE  Refused(code) \in Answer /\ Fits(c.kind, c.of, Refused(code))'
<1> DEFINE n == [c EXCEPT !.reply = Refused(code)]
<1>1. Refused(code) \in Answer /\ Refused(code).code = code
  BY Answers DEF Codes
<1>2. n \in Call /\ n.kind = c.kind /\ n.of = c.of /\ n.reply = Refused(code)
  BY <1>1 DEF Call
<1> HIDE DEF n
<1>3. Refused(code) # Attaching
  BY <1>1, Answers
<1>4. Fits(n.kind, n.of, n.reply)
  BY <1>1, <1>2, <1>3 DEF Fits
<1>5. Fits(n.kind, n.of, n.reply)'
  BY <1>2, <1>4, FitStays
<1> QED BY <1>1, <1>2, <1>5

LEMMA AcceptanceFits ==
  ASSUME FlowTypes, Grows, status' \in [Trainings -> Statuses], spent' = spent,
         NEW c \in Call, Fits(c.kind, c.of, c.reply), NEW t \in Trainings,
         \/ c.kind \in OfTraining /\ t = c.of
         \/ /\ c.kind \in {"create", "create-verified"}
            /\ Made(t)' /\ origin'[t] = c.of,
         IF c.kind \in {"delete", "erase"} THEN Gone(t)' ELSE Exists(t)'
  PROVE  \E r \in Answer : r = Ok(t) /\ Fits(c.kind, c.of, r)'
<1>1. status'[t] \in Statuses /\ t \in Nat
  BY ServerAssumption
<1>2. /\ Shown(t)' \in Outcomes \cup {"none", "deleted"}
      /\ c.kind \notin {"delete", "erase"} => Shown(t)' \in Outcomes
  BY <1>1 DEF Shown, Outcomes, Statuses, Exists
<1>3. Ok(t) = [code |-> "ok", training |-> t, shown |-> Shown(t)']
  BY DEF Ok
<1>4. PICK r \in Answer : r = Ok(t) /\ r.code = "ok" /\ r.training = t /\ r.shown = Shown(t)'
  BY <1>1, <1>2, <1>3 DEF Answer, Codes
<1>5. r # Attaching /\ mode' = mode
  BY <1>4, Answers DEF Grows
<1>6. c.kind \in OfTraining => c.of \in Trainings /\ Made(c.of)'
  BY DEF Fits, Grows
<1>7. mode = "free" =>
        /\ c.kind \notin {"create-verified", "issue", "ready"}
        /\ c.kind = "create" => c.of \in Origins /\ c.of <= spent.keys
  BY DEF Fits
<1>8. /\ c.kind \in {"create", "create-verified"} =>
           /\ r.training \in Trainings /\ Made(r.training)'
           /\ origin'[r.training] = c.of
      /\ c.kind = "recover" => r.training = c.of
      /\ c.kind \in {"delete", "erase"} => Gone(c.of)'
  BY <1>4 DEF OfTraining
<1>9. c.kind \in {"create", "recover", "upload", "reconcile", "poll"} => r.shown \in Outcomes
  BY <1>2, <1>4
<1>10. r.code # "not-found" /\ (r = Attaching)' = (r = Attaching)
  BY <1>4 DEF Attaching, NoReply
<1>11. Fits(c.kind, c.of, r)'
  BY <1>5, <1>6, <1>7, <1>8, <1>9, <1>10 DEF Fits
<1> QED BY <1>4, <1>11

LEMMA PageFitStays ==
  ASSUME FlowTypes, PageFits, Grows, page' = page PROVE PageFits'
BY DEF PageFits, Grows, FlowTypes, Page

LEMMA KeysStay ==
  ASSUME FlowTypes, KeysAreKept, Grows, origin' = origin,
         \A t \in Trainings : Made(t)' => Made(t), UNCHANGED <<intent, given, spent>>
  PROVE  KeysAreKept'
<1> SUFFICES ASSUME mode = "free" PROVE KeysAreKept'
  BY DEF KeysAreKept, Grows
<1> USE DEF KeysAreKept
<1>1. \A k \in Origins : k <= spent.keys => k = intent' \/ Settled(k)'
  BY SettledStays
<1>2. \A t \in Trainings : Made(t)' <=> Made(t)
  BY DEF Grows
<1> QED BY <1>1, <1>2

(* What the server does leaves the tab as it is.                           *)
LEMMA OwnerStays ==
  ASSUME FlowTypes, CallsFit, PageFits, OwnerIsKept, Grows,
         UNCHANGED <<page, owner, intent, given>>,
         \A d \in calls' : Heeded(d) =>
           \E e \in calls : Heeded(e) /\ e.kind = d.kind /\ e.of = d.of
  PROVE  OwnerIsKept'
<1> SUFFICES ASSUME mode = "free" PROVE OwnerIsKept'
  BY DEF OwnerIsKept, Grows
<1> USE DEF OwnerIsKept
<1>1. owner' # NoTraining => Made(owner)' /\ OwnsIntent(owner)'
  BY OwnsStays DEF FlowTypes, Grows
<1>2. page'.mine # NoTraining => OwnsIntent(page.mine)'
  BY OwnsStays DEF FlowTypes, PageFits, Page
<1>3. ASSUME NEW d \in calls', Heeded(d)
      PROVE  /\ d.kind = "create" => d.of = intent' /\ owner' = NoTraining
             /\ d.kind = "recover" => OwnsIntent(d.of)'
  <2>1. PICK e \in calls : Heeded(e) /\ e.kind = d.kind /\ e.of = d.of
    BY <1>3
  <2>2. e.kind \in OfTraining => e.of \in Trainings /\ Made(e.of)
    BY DEF CallsFit, Fits
  <2> QED BY <2>1, <2>2, OwnsStays DEF OfTraining
<1>4. page'.dirty => intent' = NoOrigin \/ Settled(intent)'
  BY SettledStays
<1> QED BY <1>1, <1>2, <1>3, <1>4

LEMMA AnswerKeeps ==
  ASSUME FlowInv, NEW c \in calls, NEW reply \in Answer, Swapped(c, reply),
         Fits(c.kind, c.of, reply)', Grows, KeysAreKept',
         status' \in [Trainings -> Statuses], origin' \in [Trainings -> Nat],
         UNCHANGED <<mode, page, tabVars, given, spent>>
  PROVE  FlowInv'
<1> USE DEF FlowInv
<1>1. /\ calls' \subseteq Call /\ Expected(page', calls') /\ Listening(page', calls')
      /\ \A d \in calls' : \/ d \in calls
                           \/ d.kind = c.kind /\ d.of = c.of /\ d.reply \in {c.reply, reply}
      /\ \A d \in calls' : Heeded(d) =>
           \E e \in calls : Heeded(e) /\ e.kind = d.kind /\ e.of = d.of
  BY SwapWaits
<1>2. FlowTypes'
  BY <1>1 DEF FlowTypes, tabVars
<1>3. \A e \in calls : Fits(e.kind, e.of, e.reply)'
  BY FitStays DEF CallsFit, FlowTypes
<1>4. CallsFit'
  <2> SUFFICES ASSUME NEW d \in calls' PROVE Fits(d.kind, d.of, d.reply)'
    BY DEF CallsFit
  <2>1. CASE d \in calls
    BY <1>3, <2>1
  <2>2. CASE d.kind = c.kind /\ d.of = c.of /\ d.reply = c.reply
    BY <1>3, <2>2
  <2>3. CASE d.kind = c.kind /\ d.of = c.of /\ d.reply = reply
    BY <2>3
  <2> QED BY <1>1, <2>1, <2>2, <2>3
<1>5. PageFits'
  BY PageFitStays
<1>6. OwnerIsKept'
  BY <1>1, OwnerStays DEF tabVars
<1> QED BY <1>1, <1>2, <1>4, <1>5, <1>6

(* A training moves without a request.                                     *)
LEMMA MoveKeeps ==
  ASSUME FlowInv, NEW t \in Trainings, Recover(t) \/ Analyse(t) \/ DeleteElsewhere(t),
         UNCHANGED <<mode, page, tabVars, given, spent>>
  PROVE  FlowInv'
<1> USE DEF FlowInv
<1>1. \E s \in {"queued", "awaiting-upload", "ended", "deleted"} :
        status' = [status EXCEPT ![t] = s]
  BY DEF Recover, Analyse, DeleteElsewhere
<1>2. /\ status[t] \notin {"none", "deleted"} /\ UNCHANGED <<origin, calls>>
  BY DEF Recover, Analyse, DeleteElsewhere, Exists
<1>3. status' \in [Trainings -> Statuses]
  BY <1>1 DEF FlowTypes, Statuses
<1>4. Grows /\ \A u \in Trainings : Made(u)' => Made(u)
  BY <1>1, <1>2 DEF Grows, Made, Gone, FlowTypes
<1>5. FlowTypes'
  BY <1>2, <1>3 DEF FlowTypes, tabVars
<1>6. CallsFit'
  BY <1>2, <1>4, FitStays DEF CallsFit, FlowTypes
<1>7. Expected(page', calls') /\ Listening(page', calls')
  BY <1>2
<1>8. PageFits' /\ KeysAreKept'
  BY <1>2, <1>4, PageFitStays, KeysStay DEF tabVars
<1>9. OwnerIsKept'
  BY <1>2, <1>4, OwnerStays DEF tabVars
<1> QED BY <1>5, <1>6, <1>7, <1>8, <1>9

(* A training is made.                                                     *)
LEMMA MakeKeeps ==
  ASSUME FlowInv, NEW c \in calls, Create(c) \/ CreateVerified(c), Make(c),
         UNCHANGED <<mode, page, tabVars, given, spent>>
  PROVE  FlowInv'
<1> USE DEF FlowInv
<1>1. PICK t \in Trainings :
        /\ status[t] = "none"
        /\ status' = [status EXCEPT ![t] = "awaiting-upload"]
        /\ origin' = [origin EXCEPT ![t] = c.of]
        /\ Reply(c, Ok(t))
  BY DEF Make
<1>2. /\ c.kind \in {"create", "create-verified"} /\ c \in Call /\ Fits(c.kind, c.of, c.reply)
  BY DEF Create, CreateVerified, CallsFit, FlowTypes
<1>3. /\ origin' \in [Trainings -> Nat] /\ status' \in [Trainings -> Statuses]
      /\ status'[t] = "awaiting-upload" /\ origin'[t] = c.of
      /\ \A u \in Trainings : u # t => status'[u] = status[u] /\ origin'[u] = origin[u]
  BY <1>1, <1>2 DEF FlowTypes, Call, Statuses
<1>4. Grows
  BY <1>1, <1>3 DEF Grows, Made, Gone, FlowTypes
<1>5. PICK r \in Answer : r = Ok(t) /\ Fits(c.kind, c.of, r)'
  <2>1. c.kind \notin OfTraining /\ c.kind \notin {"delete", "erase"}
    BY <1>2 DEF OfTraining
  <2>2. Made(t)' /\ origin'[t] = c.of /\ Exists(t)'
    BY <1>3 DEF Made, Exists
  <2> QED BY <1>2, <1>3, <1>4, <2>1, <2>2, AcceptanceFits
<1>6. Swapped(c, r)
  BY <1>1, <1>5 DEF Reply, Swapped
<1>8. KeysAreKept'
  <2> SUFFICES ASSUME mode = "free" PROVE KeysAreKept'
    BY DEF KeysAreKept
  <2>1. c.kind = "create" /\ c.of \in Origins /\ c.of <= spent.keys
    BY <1>2 DEF Fits
  <2>2. \A u \in Trainings : origin[u] # c.of
    BY <1>1, <1>3, <2>1 DEF Create, CreateVerified, MadeBy
  <2>3. \A u \in Trainings : Made(u)' <=> u = t \/ Made(u)
    BY <1>3, <1>4 DEF Made
  <2>4. c.of # NoOrigin /\ NoOrigin \notin Origins
    BY <2>1, ServerAssumption
  <2>5. \A u \in Trainings : origin'[u] = NoOrigin <=> ~Made(u)'
    BY <1>3, <2>3, <2>4 DEF KeysAreKept
  <2>6. /\ \A u \in Trainings :
             origin'[u] \in Origins \cup {NoOrigin} /\ origin'[u] <= spent'.keys
        /\ intent' <= spent'.keys
    BY <1>3, <2>1 DEF KeysAreKept, tabVars
  <2>7. \A u, v \in Trainings : Made(u)' /\ origin'[u] = origin'[v] => u = v
    BY <1>3, <2>2, <2>3 DEF KeysAreKept
  <2>8. \A k \in Origins : k <= spent'.keys => k = intent' \/ Settled(k)'
    BY <1>4, SettledStays DEF KeysAreKept, tabVars
  <2> QED BY <2>5, <2>6, <2>7, <2>8 DEF KeysAreKept
<1> QED BY <1>3, <1>4, <1>5, <1>6, <1>8, AnswerKeeps

(* A training, if any, moves with the answer to a request.                 *)
LEMMA QuietAnswer ==
  ASSUME FlowInv, NEW c \in calls, NEW r \in Answer, Swapped(c, r),
         Grows => Fits(c.kind, c.of, r)', origin' = origin,
         \/ status' = status
         \/ \E t \in Trainings, s \in Statuses \ {"none"} :
              Made(t) /\ (Gone(t) => s = "deleted") /\ status' = [status EXCEPT ![t] = s],
         UNCHANGED <<mode, page, tabVars, given, spent>>
  PROVE  FlowInv'
<1> USE DEF FlowInv
<1>1. status' \in [Trainings -> Statuses] /\ origin' \in [Trainings -> Nat]
  BY DEF FlowTypes
<1>2. Grows /\ \A u \in Trainings : Made(u)' => Made(u)
  BY DEF Grows, Made, Gone, FlowTypes
<1>3. KeysAreKept'
  BY <1>2, KeysStay DEF tabVars
<1> QED BY <1>1, <1>2, <1>3, AnswerKeeps

(* Each answer of the server.                                              *)
LEMMA RoutesKeep ==
  ASSUME FlowInv, NEW c \in calls, Serve(c), UNCHANGED <<mode, page, tabVars, given, spent>>
  PROVE  FlowInv'
<1> USE DEF FlowInv
<1>1. c \in Call /\ Fits(c.kind, c.of, c.reply) /\ spent' = spent /\ spent'.keys \in Nat
      /\ spent.keys <= spent'.keys
  BY DEF FlowTypes, CallsFit
<1>2. CASE (Create(c) \/ CreateVerified(c)) /\ Make(c)
  BY <1>2, MakeKeeps
<1> DEFINE Still == status' = status /\ origin' = origin
<1>3. ASSUME Still PROVE status' \in [Trainings -> Statuses] /\ \A t \in Trainings : (Exists(t) => Exists(t)')
  BY <1>3 DEF FlowTypes, Exists
<1>4. CASE Create(c) /\ ~Make(c)
  <2>1. PICK t \in Trainings : /\ origin[t] = c.of
                               /\ Reply(c, IF Exists(t) THEN Ok(t) ELSE Refused("not-found"))
    BY <1>4 DEF Create, MadeBy
  <2>2. Still /\ c.kind = "create"
    BY <1>4 DEF Create
  <2>3. CASE Exists(t)
    <3>1. Made(t)' /\ Exists(t)' /\ origin'[t] = c.of
      BY <2>1, <2>2, <2>3 DEF Exists, Made
    <3>2. ASSUME Grows PROVE \E r \in Answer : r = Ok(t) /\ Fits(c.kind, c.of, r)'
      BY <1>1, <1>3, <2>2, <3>1, <3>2, AcceptanceFits
    <3>3. Grows
      BY <1>1, <2>2 DEF Grows, Made, Gone
    <3>4. PICK r \in Answer : r = Ok(t) /\ Fits(c.kind, c.of, r)'
      BY <3>2, <3>3
    <3>5. Swapped(c, r)
      BY <2>1, <2>3, <3>4 DEF Reply, Swapped
    <3> QED BY <2>2, <3>4, <3>5, QuietAnswer
  <2>4. CASE ~Exists(t)
    <3>1. mode = "free" => origin[t] = c.of /\ Gone(t)
      <4>1. mode = "free" => c.of \in Origins /\ c.of # NoOrigin
        BY <1>1, <2>2, ServerAssumption DEF Fits
      <4>2. mode = "free" => Made(t)
        BY <2>1, <4>1 DEF KeysAreKept
      <4> QED BY <2>1, <2>4, <4>2 DEF Exists, Made, Gone
    <3>2. Grows => Refused("not-found") \in Answer /\ Fits(c.kind, c.of, Refused("not-found"))'
      BY <1>1, <2>2, <3>1, RefusalFits
    <3>3. Refused("not-found") \in Answer
      BY Answers DEF Codes
    <3>4. Swapped(c, Refused("not-found"))
      BY <2>1, <2>4 DEF Reply, Swapped
    <3> QED BY <2>2, <3>2, <3>3, <3>4, QuietAnswer
  <2> QED BY <2>3, <2>4
<1>5. CASE CreateVerified(c) /\ ~Make(c)
  <2>1. Still /\ Reply(c, Refused("error"))
    BY <1>5 DEF CreateVerified, serverVars
  <2>2. Grows => Fits(c.kind, c.of, Refused("error"))'
    BY <1>1, RefusalFits
  <2>3. Swapped(c, Refused("error")) /\ Refused("error") \in Answer
    BY <2>1, Answers DEF Reply, Swapped, Codes
  <2> QED BY <2>1, <2>2, <2>3, QuietAnswer
<1>6. ASSUME c.kind \in {"issue", "ready"}, Still,
             NEW r \in Answer, r.code = "ok", Reply(c, r)
      PROVE  FlowInv'
  <2>1. mode # "free" /\ mode' = mode /\ c.kind \notin OfTraining
    BY <1>1, <1>6 DEF Fits, OfTraining
  <2>2. r # Attaching
    BY <1>6, Answers
  <2>3. Fits(c.kind, c.of, r)'
    <3> SUFFICES Fits(c.kind, c.of, r)'
      OBVIOUS
    <3>1. (r = Attaching)' = (r = Attaching)
      BY DEF Attaching, NoReply
    <3> QED BY <1>6, <2>1, <2>2, <3>1 DEF Fits
  <2>4. Swapped(c, r)
    BY <1>6 DEF Reply, Swapped
  <2> QED BY <1>6, <2>3, <2>4, QuietAnswer
<1>7. CASE IssueSession(c)
  <2>1. PICK o \in Origins : Reply(c, [NoReply EXCEPT !.code = "ok", !.training = o])
    BY <1>7 DEF IssueSession
  <2> DEFINE r == [NoReply EXCEPT !.code = "ok", !.training = o]
  <2>2. r \in Answer /\ r.code = "ok"
    BY ServerAssumption DEF NoReply, Answer, Codes
  <2>3. Still /\ c.kind = "issue" /\ Reply(c, r)
    BY <1>7, <2>1 DEF IssueSession
  <2> HIDE DEF r
  <2> QED BY <1>6, <2>2, <2>3
<1>8. CASE ReadySession(c)
  <2> DEFINE r == [NoReply EXCEPT !.code = "ok"]
  <2>1. r \in Answer /\ r.code = "ok"
    BY ServerAssumption DEF NoReply, Answer, Codes
  <2>2. Still /\ c.kind = "ready" /\ (Reply(c, r) \/ Reply(c, Refused("error")))
    BY <1>8 DEF ReadySession
  <2> HIDE DEF r
  <2>3. CASE Reply(c, r)
    BY <1>6, <2>1, <2>2, <2>3
  <2>4. CASE Reply(c, Refused("error"))
    <3>1. Grows => Fits(c.kind, c.of, Refused("error"))'
      BY <1>1, RefusalFits
    <3>2. Swapped(c, Refused("error")) /\ Refused("error") \in Answer
      BY <2>4, Answers DEF Reply, Swapped, Codes
    <3> QED BY <2>2, <3>1, <3>2, QuietAnswer
  <2> QED BY <2>2, <2>3, <2>4
<1>9. CASE Read(c)
  <2>1. Still /\ c.kind \in Reads /\ c.kind \in OfTraining
    BY <1>9 DEF Read, serverVars, Reads, OfTraining
  <2>2. c.of \in Trainings /\ Made(c.of) /\ c.kind \notin {"create", "delete", "erase"}
    BY <1>1, <2>1 DEF Fits, Reads
  <2>3. Grows
    BY <1>1, <2>1 DEF Grows, Made, Gone
  <2>4. CASE Exists(c.of)
    <3>1. PICK r \in Answer : r = Ok(c.of) /\ Fits(c.kind, c.of, r)'
      BY <1>1, <1>3, <2>1, <2>2, <2>3, <2>4, AcceptanceFits
    <3>2. Swapped(c, r)
      BY <1>9, <2>4, <3>1 DEF Read, Reply, Swapped
    <3> QED BY <2>1, <3>1, <3>2, QuietAnswer
  <2>5. CASE ~Exists(c.of)
    <3>1. Refused("not-found") \in Answer /\ Fits(c.kind, c.of, Refused("not-found"))'
      BY <1>1, <2>2, <2>3, <2>5, RefusalFits DEF Exists, Made, Gone
    <3>2. Swapped(c, Refused("not-found"))
      BY <1>9, <2>5 DEF Read, Reply, Swapped
    <3> QED BY <2>1, <3>1, <3>2, QuietAnswer
  <2> QED BY <2>4, <2>5
<1>10. CASE Delete(c)
  <2>1. c.kind \in {"delete", "erase"} /\ c.kind \in OfTraining /\ origin' = origin
        /\ c.kind \notin {"create", "recover"}
    BY <1>10 DEF Delete, OfTraining
  <2>2. c.of \in Trainings /\ Made(c.of)
    BY <1>1, <2>1 DEF Fits
  <2>3. status' = [status EXCEPT ![c.of] = "deleted"] /\ "deleted" \in Statuses \ {"none"}
    BY <1>10 DEF Delete, Statuses
  <2>4. status' \in [Trainings -> Statuses] /\ Gone(c.of)'
    BY <2>2, <2>3 DEF FlowTypes, Gone
  <2>5. Grows
    BY <1>1, <2>1, <2>2, <2>3 DEF Grows, Made, Gone, FlowTypes
  <2>6. CASE Exists(c.of)
    <3>1. PICK r \in Answer : r = Ok(c.of) /\ Fits(c.kind, c.of, r)'
      BY <1>1, <2>1, <2>2, <2>4, <2>5, AcceptanceFits
    <3>2. Swapped(c, r)
      BY <1>10, <2>6, <3>1 DEF Delete, Reply, Swapped
    <3> QED BY <2>1, <2>2, <2>3, <3>1, <3>2, QuietAnswer
  <2>7. CASE ~Exists(c.of)
    <3>1. Refused("not-found") \in Answer /\ Fits(c.kind, c.of, Refused("not-found"))'
      BY <1>1, <2>1, <2>5, RefusalFits
    <3>2. Swapped(c, Refused("not-found"))
      BY <1>10, <2>7 DEF Delete, Reply, Swapped
    <3> QED BY <2>1, <2>2, <2>3, <3>1, <3>2, QuietAnswer
  <2> QED BY <2>6, <2>7
<1>11. CASE Upload(c) /\ status[c.of] = "awaiting-upload"
  <2>1. c.kind = "upload" /\ c.kind \in OfTraining /\ origin' = origin
        /\ status' = [status EXCEPT ![c.of] = "attached"]
        /\ calls' = (calls \ {c}) \cup {[c EXCEPT !.reply = Attaching]}
    BY <1>11 DEF Upload, OfTraining
  <2>2. c.of \in Trainings /\ Made(c.of) /\ ~Gone(c.of) /\ "attached" \in Statuses \ {"none"}
    BY <1>1, <1>11, <2>1 DEF Fits, Gone, Statuses
  <2>3. Attaching \in Answer /\ Attaching.code = "attaching"
    BY Answers
  <2>4. Swapped(c, Attaching)
    BY <2>1 DEF Swapped
  <2>5. Grows => Fits(c.kind, c.of, Attaching)'
    <3> SUFFICES ASSUME Grows PROVE Fits(c.kind, c.of, Attaching)'
      OBVIOUS
    <3>1. Made(c.of)' /\ mode' = mode
      BY <2>2 DEF Grows
    <3>2. (Attaching.code)' = "attaching"
      BY DEF Attaching, NoReply
    <3> QED BY <2>1, <2>2, <3>1, <3>2 DEF Fits
  <2> QED BY <2>1, <2>2, <2>3, <2>4, <2>5, QuietAnswer
<1>12. CASE Upload(c) /\ status[c.of] # "awaiting-upload"
  <2>1. Still /\ c.kind = "upload"
        /\ \E code \in {"duplicate", "not-found"} : Reply(c, Refused(code))
    BY <1>12 DEF Upload
  <2>2. PICK code \in {"duplicate", "not-found"} : Reply(c, Refused(code))
    BY <2>1
  <2>3. Grows => Fits(c.kind, c.of, Refused(code))'
    BY <1>1, <2>1, RefusalFits
  <2>4. Swapped(c, Refused(code)) /\ Refused(code) \in Answer
    BY <2>2, Answers DEF Reply, Swapped, Codes
  <2> QED BY <2>1, <2>3, <2>4, QuietAnswer
<1> QED BY <1>2, <1>4, <1>5, <1>7, <1>8, <1>9, <1>10, <1>11, <1>12 DEF Serve

(* The rest of what a server and a connection do.                          *)
LEMMA ServerKeeps ==
  ASSUME FlowInv, ServerStep PROVE FlowInv'
<1> USE DEF FlowInv
<1>1. UNCHANGED <<mode, page, tabVars, given, spent>> /\ spent'.keys \in Nat
      /\ spent.keys <= spent'.keys
  BY DEF ServerStep, FlowTypes
<1>2. ASSUME NEW t \in Trainings, Recover(t) \/ Analyse(t) \/ DeleteElsewhere(t) PROVE FlowInv'
  BY <1>1, <1>2, MoveKeeps
<1>3. ASSUME NEW c \in calls PROVE c \in Call /\ Fits(c.kind, c.of, c.reply)
  BY DEF FlowTypes, CallsFit
<1>4. ASSUME NEW c \in calls, Serve(c) PROVE FlowInv'
  BY <1>1, <1>4, RoutesKeep
<1>5. ASSUME NEW c \in calls, FinishUpload(c) PROVE FlowInv'
  <2>1. c \in Call /\ c.kind = "upload" /\ c.kind \in OfTraining /\ c.of \in Trainings
    BY <1>3, <1>5 DEF FinishUpload, Fits, OfTraining
  <2>2. /\ status[c.of] = "attached" /\ status' = [status EXCEPT ![c.of] = "queued"]
        /\ origin' = origin /\ Made(c.of) /\ ~Gone(c.of) /\ "queued" \in Statuses \ {"none"}
    BY <1>5 DEF FinishUpload, Made, Gone, Statuses
  <2>3. Grows /\ status' \in [Trainings -> Statuses] /\ Exists(c.of)'
    BY <1>1, <2>1, <2>2 DEF Grows, Made, Gone, FlowTypes, Exists
  <2>4. PICK r \in Answer : r = Ok(c.of) /\ Fits(c.kind, c.of, r)'
    BY <1>1, <1>3, <2>1, <2>3, AcceptanceFits
  <2>5. Swapped(c, r)
    BY <1>5, <2>4 DEF FinishUpload, Reply, Swapped
  <2> QED BY <1>1, <2>1, <2>2, <2>4, <2>5, QuietAnswer
<1>6. ASSUME NEW c \in calls, FailUpload(c) PROVE FlowInv'
  <2>1. c \in Call /\ c.kind = "upload" /\ c.of \in Trainings /\ Made(c.of)
    BY <1>3, <1>6 DEF FailUpload, Fits, OfTraining
  <2>2. origin' = origin /\ Reply(c, Refused("error"))
        /\ \/ status' = status
           \/ \E s \in Statuses \ {"none"} : ~Gone(c.of) /\ status' = [status EXCEPT ![c.of] = s]
    BY <1>6 DEF FailUpload, Gone, Statuses
  <2>3. Grows => Fits(c.kind, c.of, Refused("error"))'
    BY <1>1, <1>3, RefusalFits
  <2>4. Swapped(c, Refused("error")) /\ Refused("error") \in Answer
    BY <2>2, Answers DEF Reply, Swapped, Codes
  <2> QED BY <1>1, <2>1, <2>2, <2>3, <2>4, QuietAnswer
<1>7. ASSUME NEW c \in calls, Refuse(c) \/ LoseConnection(c) \/ Vanish(c) PROVE FlowInv'
  <2>1. status' = status /\ origin' = origin
    BY <1>7 DEF Refuse, LoseConnection, Vanish, serverVars
  <2>2. PICK code \in {"error", "lost"} : Swapped(c, Refused(code))
    BY <1>7 DEF Refuse, LoseConnection, Vanish, Swapped, Reply
  <2>3. Grows => Fits(c.kind, c.of, Refused(code))'
    BY <1>1, <1>3, RefusalFits
  <2>4. Refused(code) \in Answer
    BY Answers DEF Codes
  <2> QED BY <1>1, <2>1, <2>2, <2>3, <2>4, QuietAnswer
<1> QED BY <1>2, <1>4, <1>5, <1>6, <1>7 DEF ServerStep

-----------------------------------------------------------------------------
(* The tab.                                                                *)

(* What a request of the free training knows of the stored one.            *)
IsOwners(c) ==
  /\ c.kind = "create" => c.of = intent /\ owner = NoTraining
  /\ c.kind = "recover" => OwnsIntent(c.of)

(* Nothing moves but the tab.                                              *)
LEMMA TabKeeps ==
  ASSUME FlowInv, UNCHANGED <<serverVars, mode>>,
         page' \in Page, storage' \in {"ok", "full", "gone"},
         owner' \in Trainings \cup {NoTraining}, intent' \in Origins \cup {NoOrigin},
         spent' \in [uploads : Nat, visits : Nat, keys : Nat],
         calls' \subseteq Call, \A d \in calls' : Fits(d.kind, d.of, d.reply)',
         Expected(page', calls'), Listening(page', calls'), PageFits', KeysAreKept',
         mode = "free" =>
           /\ owner' # NoTraining => Made(owner') /\ OwnsIntent(owner)'
           /\ page'.mine # NoTraining => OwnsIntent(page.mine)'
           /\ \A d \in calls' : Heeded(d) => IsOwners(d)'
           /\ page'.dirty => intent' = NoOrigin \/ Settled(intent)'
  PROVE  FlowInv'
<1>1. FlowTypes'
  BY DEF FlowInv, FlowTypes, serverVars
<1>2. \A d \in calls' : Heeded(d)' = Heeded(d)
  BY DEF Heeded
<1>3. OwnerIsKept'
  <2> SUFFICES ASSUME mode = "free" PROVE OwnerIsKept'
    BY DEF OwnerIsKept
  <2>1. owner' # NoTraining => Made(owner)' /\ OwnsIntent(owner)'
    BY DEF Made, serverVars
  <2> QED BY <1>2, <2>1 DEF OwnerIsKept, IsOwners
<1>4. CallsFit'
  BY DEF CallsFit
<1> QED BY <1>1, <1>3, <1>4 DEF FlowInv

(* What fits, fits while the keys are the same or more.                    *)
LEMMA FitsMove ==
  ASSUME UNCHANGED <<serverVars, mode>>, FlowTypes, spent'.keys \in Nat, spent.keys <= spent'.keys,
         NEW d \in Call, Fits(d.kind, d.of, d.reply)
  PROVE  Fits(d.kind, d.of, d.reply)'
BY FitStays DEF Grows, Made, Gone, serverVars

(* Neither the stored key nor what the athlete left changes.               *)
LEMMA PageKeeps ==
  ASSUME FlowInv, UNCHANGED <<serverVars, mode, intent, given>>,
         storage' \in {"ok", "full", "gone"},
         spent' \in [uploads : Nat, visits : Nat, keys : Nat], spent'.keys = spent.keys,
         page' \in Page, owner' \in Trainings \cup {NoTraining},
         calls' \subseteq Call, \A d \in calls' : Fits(d.kind, d.of, d.reply),
         Expected(page', calls'), Listening(page', calls'), PageFits',
         mode = "free" =>
           /\ owner' # NoTraining => Made(owner') /\ OwnsIntent(owner')
           /\ page'.mine # NoTraining => OwnsIntent(page'.mine)
           /\ \A d \in calls' : Heeded(d) =>
                /\ d.kind = "create" => d.of = intent /\ owner' = NoTraining
                /\ d.kind = "recover" => OwnsIntent(d.of)
           /\ page'.dirty => intent = NoOrigin \/ Settled(intent)
  PROVE  FlowInv'
<1> USE DEF FlowInv
<1>1. \A d \in calls' : Fits(d.kind, d.of, d.reply)'
  BY FitsMove DEF FlowTypes
<1>2. \A t : /\ Gone(t)' = Gone(t) /\ origin' = origin
             /\ OwnsIntent(t)' = OwnsIntent(t) /\ Made(t)' = Made(t)
  BY DEF Gone, Made, OwnsIntent, serverVars
<1>3. \A k : Settled(k)' <=> Settled(k)
  BY <1>2 DEF Settled
<1>4. KeysAreKept'
  <2> SUFFICES ASSUME mode = "free" PROVE KeysAreKept'
    BY DEF KeysAreKept
  <2> QED BY <1>2, <1>3 DEF KeysAreKept
<1>5. intent' \in Origins \cup {NoOrigin}
  BY DEF FlowTypes
<1>6. mode = "free" =>
        /\ owner' # NoTraining => Made(owner') /\ OwnsIntent(owner)'
        /\ page'.mine # NoTraining => OwnsIntent(page.mine)'
        /\ page'.dirty => intent' = NoOrigin \/ Settled(intent)'
  BY <1>2, <1>3 DEF OwnsIntent, Gone, serverVars
<1>7. mode = "free" => \A d \in calls' : Heeded(d) => IsOwners(d)'
  BY <1>2 DEF IsOwners
<1> QED BY <1>1, <1>4, <1>5, <1>6, <1>7, TabKeeps

(* The same for a step that shows a page.                                  *)
LEMMA ShowKeeps ==
  ASSUME FlowInv, UNCHANGED <<serverVars, mode, intent, given, storage>>,
         spent' \in [uploads : Nat, visits : Nat, keys : Nat], spent'.keys = spent.keys,
         NEW p \in Page, NEW cs \in SUBSET Call, Show(p, cs),
         owner' \in Trainings \cup {NoTraining},
         \A d \in cs : Fits(d.kind, d.of, d.reply), Expected(p, cs),
         page' = p => PageFits',
         mode = "free" =>
           /\ owner' # NoTraining => Made(owner') /\ OwnsIntent(owner')
           /\ p.mine # NoTraining => OwnsIntent(p.mine)
           /\ \A d \in cs : Heeded(d) =>
                /\ d.kind = "create" => d.of = intent /\ owner' = NoTraining
                /\ d.kind = "recover" => OwnsIntent(d.of)
           /\ p.dirty => intent = NoOrigin \/ Settled(intent)
  PROVE  FlowInv'
<1>1. /\ page' = p /\ calls' \subseteq Call /\ Kept(cs, calls')
      /\ Expected(p, calls') /\ Listening(p, calls')
  BY ShowListens
<1>2. \A d \in calls' : Fits(d.kind, d.of, d.reply) /\ (Heeded(d) => d \in cs)
  BY <1>1 DEF Kept, Weaker
<1>3. storage' \in {"ok", "full", "gone"}
  BY DEF FlowInv, FlowTypes
<1> QED BY <1>1, <1>2, <1>3, PageKeeps

LEMMA SentFits ==
  ASSUME NEW kind \in Kinds, NEW of \in Nat, NEW s, s = Sent(kind, of),
         kind \in OfTraining => of \in Trainings /\ Made(of),
         mode = "free" =>
           /\ kind \notin {"create-verified", "issue", "ready"}
           /\ kind = "create" => of \in Origins /\ of <= spent.keys
  PROVE  /\ s \in Call /\ s.kind = kind /\ s.of = of /\ s.heard /\ Heeded(s)
         /\ Fits(s.kind, s.of, s.reply)
<1>1. /\ s \in Call /\ s.kind = kind /\ s.of = of /\ s.heard /\ Heeded(s)
      /\ s.reply = [code |-> "none", training |-> 0, shown |-> "none"]
  BY SentIsACall
<1>2. s.reply.code = "none" /\ s.reply # Attaching
  BY <1>1, Answers
<1> QED BY <1>1, <1>2 DEF Fits

(* One more request is expected.                                           *)
LEMMA OneMore ==
  ASSUME NEW p, NEW cs, Expected(p, cs), NEW s, Awaits(p, s), Apart(p, s, s),
         \A d \in cs : /\ Heeded(d) => Apart(p, s, d) /\ Apart(p, d, s)
                       /\ s.kind = "reconcile" => d.kind # "reconcile"
  PROVE  Expected(p, cs \cup {s})
BY DEF Expected, OneReconcile

LEMMA FreshPages ==
  ASSUME NEW screen \in Screens
  PROVE  /\ FreshPage(screen) \in Page /\ FreshPage(screen).screen = screen
         /\ FreshPage(screen).mine = NoTraining /\ FreshPage(screen).cleanup = NoTraining
         /\ FreshPage(screen).media = FALSE /\ FreshPage(screen).overtaken = FALSE
         /\ FreshPage(screen).dirty = FALSE
BY ServerAssumption DEF FreshPage, Page

(* Steps that send nothing.                                                *)
LEMMA LocalKeeps ==
  ASSUME FlowInv,
         PrepareChallenge \/ PrepareAgain \/ ChooseMedia \/ DropMedia \/ Open \/ StorageChanges
  PROVE  FlowInv'
<1> USE DEF FlowInv
<1>1. /\ UNCHANGED <<serverVars, mode, intent, given, owner, calls>>
      /\ spent'.keys = spent.keys /\ spent' \in [uploads : Nat, visits : Nat, keys : Nat]
      /\ storage' \in {"ok", "full", "gone"}
  BY DEF PrepareChallenge, PrepareAgain, ChooseMedia, DropMedia, Open, StorageChanges,
         tabVars, FlowTypes, serverVars
<1>2. calls' \subseteq Call /\ \A d \in calls' : Fits(d.kind, d.of, d.reply)
  BY <1>1 DEF FlowTypes, CallsFit
<1>3. page \in Page /\ mode \in {"free", "verified"}
  BY DEF FlowTypes
<1>4. ASSUME page' \in Page, PageFits', page'.mine \in {page.mine, NoTraining},
             page'.dirty => page.dirty,
             \A d \in calls : Heeded(d) => Awaits(page', d),
             page.overtaken => page'.overtaken \/ \A d \in calls : ~Heeded(d) \/ d.kind # "upload",
             Listening(page', calls)
      PROVE  FlowInv'
  <2>1. Expected(page', calls)
    BY <1>4 DEF Expected, Apart
  <2>2. mode = "free" =>
           /\ owner' # NoTraining => Made(owner') /\ OwnsIntent(owner')
           /\ page'.mine # NoTraining => OwnsIntent(page'.mine)
           /\ \A d \in calls' : Heeded(d) =>
                /\ d.kind = "create" => d.of = intent /\ owner' = NoTraining
                /\ d.kind = "recover" => OwnsIntent(d.of)
           /\ page'.dirty => intent = NoOrigin \/ Settled(intent)
    BY <1>1, <1>4 DEF OwnerIsKept
  <2>3. owner' \in Trainings \cup {NoTraining} /\ Expected(page', calls') /\ Listening(page', calls')
    BY <1>1, <1>4, <2>1 DEF FlowTypes
  <2> QED BY <1>1, <1>2, <1>4, <2>2, <2>3, PageKeeps
<1>5. CASE PrepareChallenge \/ PrepareAgain \/ ChooseMedia \/ DropMedia
  <2>1. PICK screen \in Screens, file \in BOOLEAN, said \in BOOLEAN :
          /\ page' = [page EXCEPT !.screen = screen, !.media = file, !.notice = said]
          /\ \/ page.screen = "challenge" /\ screen = "setup" /\ file = page.media
             \/ page.screen = "capture" /\ screen = "capture" /\ (file => page.mine # NoTraining)
          /\ said \in {page.notice, FALSE}
    <3>1. CASE PrepareChallenge
      <4>1. page' = [page EXCEPT !.screen = "setup", !.media = page.media, !.notice = FALSE]
        BY <1>3, <3>1 DEF PrepareChallenge, Page
      <4> QED BY <1>3, <3>1, <4>1 DEF PrepareChallenge, Page, Screens
    <3>2. CASE PrepareAgain
      <4>1. page' = [page EXCEPT !.screen = "capture", !.media = page.media, !.notice = FALSE]
            /\ page.screen = "capture"
        BY <1>3, <3>2 DEF PrepareAgain, Page
      <4> QED BY <1>3, <4>1 DEF PageFits, Page, Screens
    <3>3. CASE ChooseMedia
      <4>1. page' = [page EXCEPT !.screen = "capture", !.media = TRUE, !.notice = page.notice]
            /\ page.screen = "capture" /\ page.mine # NoTraining
        BY <1>3, <3>3 DEF ChooseMedia, Page
      <4> QED BY <1>3, <4>1 DEF Page, Screens
    <3>4. CASE DropMedia
      <4>1. page' = [page EXCEPT !.screen = "capture", !.media = FALSE, !.notice = page.notice]
            /\ page.screen = "capture"
        BY <1>3, <3>4 DEF DropMedia, Page
      <4> QED BY <1>3, <4>1 DEF Page, Screens
    <3> QED BY <1>5, <3>1, <3>2, <3>3, <3>4
  <2>2. /\ page' \in Page /\ page'.screen = screen /\ page'.mine = page.mine
        /\ page'.media = file /\ page'.notice = said /\ page'.dirty = page.dirty
        /\ page'.overtaken = page.overtaken /\ page'.cleanup = page.cleanup
        /\ page'.started = page.started /\ page'.blocked = page.blocked
    BY <1>3, <2>1 DEF Page
  <2>3. page.screen \in {"challenge", "capture"} /\ ~page.dirty
    BY <2>1 DEF PageFits
  <2>4. PageFits'
    BY <1>1, <1>3, <2>1, <2>2, <2>3 DEF PageFits, Made, Gone, serverVars
  <2>5. \A d \in calls : Heeded(d) => Awaits(page', d)
    BY <2>1, <2>2, <2>3 DEF Expected, Awaits
  <2>6. Listening(page', calls)
    BY <2>1, <2>2 DEF Listening
  <2> QED BY <1>4, <2>2, <2>3, <2>4, <2>5, <2>6
<1>6. CASE Open
  <2>1. page' = FreshPage(Beginning) /\ page.screen = "away"
        /\ Beginning = IF mode = "free" THEN "creating" ELSE "challenge"
    BY <1>6 DEF Open, Beginning
  <2>2. /\ page' \in Page /\ page'.mine = NoTraining /\ page'.screen = Beginning
        /\ page'.media = FALSE /\ page'.overtaken = FALSE /\ page'.cleanup = NoTraining
        /\ page'.dirty = FALSE
    BY <2>1, FreshPages DEF Screens
  <2>3. PageFits'
    BY <1>1, <1>3, <2>1, <2>2 DEF PageFits
  <2>4. \A d \in calls : Heeded(d) => d.kind # "upload" /\ Awaits(page', d)
    BY <2>1, <2>2 DEF Expected, Awaits, Listening, Heeded
  <2>5. Listening(page', calls)
    BY <2>1 DEF Listening
  <2> QED BY <1>4, <2>2, <2>3, <2>4, <2>5
<1>7. CASE StorageChanges
  <2>1. page' = page
    BY <1>7 DEF StorageChanges
  <2>2. PageFits' <=> PageFits
    BY <1>1, <2>1 DEF PageFits, Made, Gone, serverVars
  <2>3. \A d \in calls : Heeded(d) => Awaits(page', d)
    BY <2>1 DEF Expected
  <2> QED BY <1>3, <1>4, <2>1, <2>2, <2>3
<1> QED BY <1>5, <1>6, <1>7

LEMMA PageIsTyped ==
  ASSUME FlowInv
  PROVE  /\ page \in Page /\ mode \in {"free", "verified"} /\ calls \in SUBSET Call
         /\ page.mine \in Nat /\ page.session \in Nat
<1>1. page \in Page /\ mode \in {"free", "verified"} /\ calls \in SUBSET Call
  BY DEF FlowInv, FlowTypes
<1>2. page.mine \in Trainings \cup {NoTraining}
  BY <1>1 DEF Page
<1>3. page.session \in Nat
  BY <1>1 DEF Page
<1>4. \A t \in Trainings \cup {NoTraining} : t \in Nat
  BY ServerAssumption
<1>5. page.mine \in Nat
  BY <1>2, <1>4
<1> QED BY <1>1, <1>3, <1>5

(* Requests of earlier generations fit, and expect nothing.                *)
LEMMA GenerationFits ==
  ASSUME FlowInv, NEW p, NEW cs, cs = NewGeneration(calls)
  PROVE  /\ cs \in SUBSET Call /\ Expected(p, cs) /\ OneReconcile(cs)
         /\ \A d \in cs : Fits(d.kind, d.of, d.reply) /\ ~Heeded(d)
<1>1. calls \in SUBSET Call /\ OneReconcile(calls)
  BY DEF FlowInv, FlowTypes, Expected
<1>2. cs \in SUBSET Call /\ Kept(calls, cs) /\ (\A d \in cs : ~Heeded(d)) /\ OneReconcile(cs)
  BY <1>1, GenerationPasses, GenerationKeepsOne
<1>3. \A d \in cs : Fits(d.kind, d.of, d.reply)
  BY <1>2 DEF Kept, Weaker, FlowInv, CallsFit
<1> QED BY <1>2, <1>3 DEF Expected

(* What is left when some requests are aborted.                            *)
LEMMA AbortFits ==
  ASSUME FlowTypes, NEW base \in SUBSET Call, \A d \in base : Fits(d.kind, d.of, d.reply),
         NEW p, Expected(p, base), NEW kinds, NEW cs, cs = Abort(base, kinds)
  PROVE  /\ cs \in SUBSET Call /\ Expected(p, cs)
         /\ \A d \in cs : /\ Fits(d.kind, d.of, d.reply)
                          /\ Heeded(d) => d \in base /\ d.kind \notin kinds
                          /\ d.kind = "reconcile" => d \in base /\ d.kind \notin kinds
<1>1. /\ cs \in SUBSET Call /\ Kept(base, cs)
      /\ \A d \in cs : /\ d.heard => d \in base /\ d.kind \notin kinds
                       /\ d.kind \in Reads => d \in base /\ d.kind \notin kinds
  BY AbortForgets
<1>2. \A d \in cs : /\ Heeded(d) => d \in base /\ d.kind \notin kinds
                    /\ d.kind = "reconcile" => d \in base /\ d.kind \notin kinds
  BY <1>1 DEF Heeded, Reads
<1>3. Expected(p, cs)
  BY <1>2 DEF Expected, OneReconcile
<1>4. \A d \in cs : Fits(d.kind, d.of, d.reply)
  BY <1>1 DEF Kept, Weaker
<1> QED BY <1>1, <1>2, <1>3, <1>4

(* Steps that send a request of the verified set-up or of a deletion.      *)
LEMMA RequestsKeep ==
  ASSUME FlowInv, IssueSessions \/ CreateVerifiedAttempt \/ SendPoll \/ DeleteTraining
  PROVE  FlowInv'
<1> USE DEF FlowInv
<1>1. /\ UNCHANGED <<serverVars, mode, intent, given, owner, storage, spent>>
      /\ spent' \in [uploads : Nat, visits : Nat, keys : Nat]
      /\ owner' \in Trainings \cup {NoTraining}
  BY DEF IssueSessions, CreateVerifiedAttempt, SendPoll, DeleteTraining, tabVars, FlowTypes
<1>2. page \in Page /\ mode \in {"free", "verified"} /\ calls \in SUBSET Call
      /\ page.mine \in Nat /\ page.session \in Nat
  BY PageIsTyped
<1>3. PICK kind \in {"issue", "create-verified", "poll", "delete"},
           of \in {NoOrigin, page.session, page.mine},
           screen \in {"issuing", "capture", "pending", "deleting"},
           started \in BOOLEAN, said \in BOOLEAN :
        /\ Show([page EXCEPT !.screen = screen, !.started = started, !.notice = said],
                calls \cup {Sent(kind, of)})
        /\ \/ kind = "issue" /\ screen = "issuing" /\ page.screen = "setup"
           \/ /\ kind = "create-verified" /\ screen = "capture" /\ page.screen = "capture"
              /\ mode = "verified"
           \/ /\ kind = "poll" /\ screen = "pending" /\ page.screen = "pending"
              /\ of = page.mine /\ started = page.started /\ said = page.notice
           \/ /\ kind = "delete" /\ screen = "deleting" /\ page.screen = "terminal"
              /\ of = page.mine /\ mode = "free"
  <2>1. CASE IssueSessions
    <3>1. Show([page EXCEPT !.screen = "issuing", !.started = page.started, !.notice = FALSE],
               calls \cup {Sent("issue", NoOrigin)})
      BY <1>2, <2>1 DEF IssueSessions, Page
    <3> QED BY <1>2, <2>1, <3>1 DEF IssueSessions, Page
  <2>2. CASE CreateVerifiedAttempt
    <3>1. Show([page EXCEPT !.screen = "capture", !.started = TRUE, !.notice = page.notice],
               calls \cup {Sent("create-verified", page.session)})
      BY <1>2, <2>2 DEF CreateVerifiedAttempt, Page
    <3> QED BY <1>2, <2>2, <3>1 DEF CreateVerifiedAttempt, Page
  <2>3. CASE SendPoll
    <3>1. page = [page EXCEPT !.screen = "pending", !.started = page.started, !.notice = page.notice]
      BY <1>2, <2>3 DEF SendPoll, PollDue, Page
    <3>2. Show([page EXCEPT !.screen = "pending", !.started = page.started, !.notice = page.notice],
               calls \cup {Sent("poll", page.mine)})
      BY <2>3, <3>1 DEF SendPoll
    <3> QED BY <1>2, <2>3, <3>2 DEF SendPoll, PollDue, Page
  <2>4. CASE DeleteTraining
    <3>1. Show([page EXCEPT !.screen = "deleting", !.started = page.started, !.notice = FALSE],
               calls \cup {Sent("delete", page.mine)})
      BY <1>2, <2>4 DEF DeleteTraining, Page
    <3> QED BY <1>2, <2>4, <3>1 DEF DeleteTraining, Page
  <2> QED BY <2>1, <2>2, <2>3, <2>4
<1>4. PICK p : p = [page EXCEPT !.screen = screen, !.started = started, !.notice = said]
  OBVIOUS
<1>5. /\ p \in Page /\ p.screen = screen /\ p.mine = page.mine /\ p.media = page.media
      /\ p.dirty = page.dirty /\ p.overtaken = page.overtaken /\ p.cleanup = page.cleanup
  BY <1>2, <1>4, ZenonT(60) DEF Page, Screens
<1>6. PICK s : s = Sent(kind, of)
  OBVIOUS
<1>7. /\ s \in Call /\ s.kind = kind /\ s.of = of /\ s.heard /\ Heeded(s)
      /\ Fits(s.kind, s.of, s.reply)
  <2>1. of \in Nat /\ kind \in Kinds
    BY <1>2, <1>3, ServerAssumption DEF Kinds, OfTraining
  <2>2. kind \in OfTraining => of \in Trainings /\ Made(of)
    BY <1>2, <1>3 DEF OfTraining, PageFits, Page
  <2>3. mode = "free" => kind \notin {"create", "create-verified", "issue", "ready"}
    BY <1>2, <1>3 DEF PageFits
  <2> QED BY <1>6, <2>1, <2>2, <2>3, SentFits
<1>8. Expected(p, calls \cup {s})
  <2>1. page.screen \in {"setup", "capture", "pending", "terminal"}
    BY <1>3
  <2>2. \A d \in calls : Heeded(d) => Awaits(p, d) /\ d.kind \notin {"create", "recover", "issue", "delete"}
    BY <1>2, <1>3, <1>5 DEF Expected, Awaits, PageFits
  <2>3. Expected(p, calls)
    BY <1>5, <2>2 DEF Expected, Apart
  <2>4. Awaits(p, s) /\ Apart(p, s, s)
    BY <1>3, <1>5, <1>7 DEF Awaits, Apart
  <2>5. \A d \in calls : /\ Heeded(d) => Apart(p, s, d) /\ Apart(p, d, s)
                         /\ s.kind # "reconcile"
    BY <1>3, <1>7, <2>2 DEF Apart
  <2> QED BY <2>3, <2>4, <2>5, OneMore
<1>9. page' = p => PageFits'
  <2> SUFFICES ASSUME page' = p PROVE PageFits'
    OBVIOUS
  <2>1. ~page.dirty /\ page.cleanup = NoTraining
    BY <1>3 DEF PageFits
  <2> QED BY <1>1, <1>2, <1>3, <1>5, <2>1 DEF PageFits, Made, Gone, serverVars
<1>10. mode = "free" =>
           /\ owner' # NoTraining => Made(owner') /\ OwnsIntent(owner')
           /\ p.mine # NoTraining => OwnsIntent(p.mine)
           /\ \A d \in calls \cup {s} : Heeded(d) =>
                /\ d.kind = "create" => d.of = intent /\ owner' = NoTraining
                /\ d.kind = "recover" => OwnsIntent(d.of)
           /\ p.dirty => intent = NoOrigin \/ Settled(intent)
  BY <1>1, <1>3, <1>5, <1>7 DEF OwnerIsKept
<1>11. Show(p, calls \cup {s}) /\ calls \cup {s} \in SUBSET Call
       /\ \A d \in calls \cup {s} : Fits(d.kind, d.of, d.reply)
  BY <1>2, <1>3, <1>4, <1>6, <1>7 DEF CallsFit
<1> QED BY <1>1, <1>5, <1>8, <1>9, <1>10, <1>11, ShowKeeps

(* Beginning an upload, and giving one up.                                 *)
LEMMA UploadsKeep ==
  ASSUME FlowInv, SendUpload \/ ReplaceMedia \/ CancelUpload PROVE FlowInv'
<1> USE DEF FlowInv
<1>1. /\ UNCHANGED <<serverVars, mode, intent, given, owner, storage>>
      /\ spent'.keys = spent.keys
      /\ spent' \in [uploads : Nat, visits : Nat, keys : Nat]
      /\ owner' \in Trainings \cup {NoTraining}
  BY DEF SendUpload, ReplaceMedia, CancelUpload, tabVars, FlowTypes
<1>2. page \in Page /\ mode \in {"free", "verified"} /\ calls \in SUBSET Call /\ page.mine \in Nat
  BY PageIsTyped
<1>3. page.screen \in {"capture", "uploading"} /\ page.mine # NoTraining
  BY DEF SendUpload, ReplaceMedia, CancelUpload, PageFits
<1>4. page.mine \in Trainings /\ Made(page.mine) /\ ~page.dirty /\ page.cleanup = NoTraining
  BY <1>2, <1>3 DEF PageFits, Page
<1>5. \A d \in calls : Fits(d.kind, d.of, d.reply)
  BY DEF CallsFit
<1>6. ASSUME NEW p \in Page, NEW cs \in SUBSET Call, Show(p, cs), Expected(p, cs),
             \A d \in cs : Fits(d.kind, d.of, d.reply),
             \A d \in cs : Heeded(d) => d \in calls \/ d.kind \notin {"create", "recover"},
             p.mine = page.mine, p.screen \in {"capture", "uploading"}, p.dirty = page.dirty,
             p.overtaken => mode = "verified", p.cleanup = page.cleanup
      PROVE  FlowInv'
  <2>1. page' = p => PageFits'
    BY <1>1, <1>3, <1>4, <1>6 DEF PageFits, Made, serverVars
  <2>2. mode = "free" =>
           /\ owner' # NoTraining => Made(owner') /\ OwnsIntent(owner')
           /\ p.mine # NoTraining => OwnsIntent(p.mine)
           /\ \A d \in cs : Heeded(d) =>
                /\ d.kind = "create" => d.of = intent /\ owner' = NoTraining
                /\ d.kind = "recover" => OwnsIntent(d.of)
           /\ p.dirty => intent = NoOrigin \/ Settled(intent)
    BY <1>1, <1>6 DEF OwnerIsKept
  <2> QED BY <1>1, <1>6, <2>1, <2>2, ShowKeeps
<1>7. PICK s : s = Sent("upload", page.mine)
  OBVIOUS
<1>8. /\ s \in Call /\ s.kind = "upload" /\ s.of = page.mine /\ Heeded(s)
      /\ Fits(s.kind, s.of, s.reply)
  BY <1>2, <1>4, <1>7, SentFits DEF Kinds, OfTraining
<1>9. CASE SendUpload
  <2>1. PICK p : p = [page EXCEPT !.screen = "uploading", !.notice = FALSE]
    OBVIOUS
  <2>2. /\ p \in Page /\ p.mine = page.mine /\ p.screen = "uploading" /\ p.dirty = page.dirty
        /\ p.overtaken = page.overtaken /\ p.cleanup = page.cleanup
    BY <1>2, <2>1 DEF Page, Screens
  <2>3. PICK base : base = NewGeneration(calls)
    OBVIOUS
  <2>4. /\ base \in SUBSET Call /\ Expected(p, base)
        /\ \A d \in base : Fits(d.kind, d.of, d.reply) /\ ~Heeded(d)
    BY <2>3, GenerationFits
  <2>5. Expected(p, base \cup {s})
    BY <1>8, <2>4, OneMore DEF Awaits, Apart
  <2>6. Show(p, base \cup {s})
    BY <1>7, <1>9, <2>1, <2>3 DEF SendUpload
  <2>7. p.overtaken => mode = "verified"
    BY <2>2 DEF PageFits
  <2> QED BY <1>6, <1>8, <2>2, <2>4, <2>5, <2>6, <2>7
<1>10. CASE ReplaceMedia
  <2>1. PICK over \in BOOLEAN :
          over = (page.overtaken \/ \E c \in calls : c.kind = "reconcile" /\ Heeded(c))
    OBVIOUS
  <2>2. PICK p : p = [page EXCEPT !.overtaken = over]
    OBVIOUS
  <2>3. /\ p \in Page /\ p.mine = page.mine /\ p.screen = page.screen /\ p.dirty = page.dirty
        /\ p.overtaken = over /\ p.cleanup = page.cleanup /\ p.started = page.started
        /\ p.notice = page.notice
    BY <1>2, <2>2 DEF Page
  <2>4. page.screen = "uploading" /\ mode = "verified"
    BY <1>10 DEF ReplaceMedia
  <2>5. Expected(p, calls)
    <3>1. \A d \in calls : Heeded(d) => Awaits(p, d)
      BY <2>3, <2>4 DEF Expected, Awaits
    <3>2. \A c, d \in calls : Heeded(c) /\ Heeded(d) => Apart(p, c, d)
      BY <2>1, <2>3 DEF Expected, Apart
    <3> QED BY <3>1, <3>2 DEF Expected
  <2>6. PICK base : base = Abort(calls, {"upload"})
    OBVIOUS
  <2>7. /\ base \in SUBSET Call /\ Expected(p, base)
        /\ \A d \in base : Fits(d.kind, d.of, d.reply) /\ (Heeded(d) => d \in calls /\ d.kind # "upload")
    BY <1>2, <1>5, <2>5, <2>6, AbortFits
  <2>8. \A d \in base : Heeded(d) => Apart(p, s, d) /\ Apart(p, d, s)
    BY <1>8, <2>1, <2>3, <2>7 DEF Apart
  <2>9. Expected(p, base \cup {s})
    BY <1>8, <2>7, <2>8, OneMore DEF Awaits, Apart
  <2>10. Show(p, base \cup {s})
    <3>1. Show([page EXCEPT !.overtaken = @ \/ \E c \in calls : c.kind = "reconcile" /\ Heeded(c)],
               base \cup {s})
      BY <1>7, <1>10, <2>6 DEF ReplaceMedia
    <3>2. [page EXCEPT !.overtaken = @ \/ \E c \in calls : c.kind = "reconcile" /\ Heeded(c)] = p
      BY <2>1, <2>2
    <3> QED BY <3>1, <3>2
  <2> QED BY <1>6, <1>8, <2>3, <2>4, <2>7, <2>9, <2>10
<1>11. CASE CancelUpload
  <2>1. PICK p : p = [page EXCEPT !.screen = "capture", !.notice = TRUE]
    OBVIOUS
  <2>2. /\ p \in Page /\ p.mine = page.mine /\ p.screen = "capture" /\ p.dirty = page.dirty
        /\ p.overtaken = page.overtaken /\ p.cleanup = page.cleanup
    BY <1>2, <2>1 DEF Page, Screens
  <2>3. PICK old : old = NewGeneration(calls)
    OBVIOUS
  <2>4. /\ old \in SUBSET Call /\ Expected(p, old)
        /\ \A d \in old : Fits(d.kind, d.of, d.reply) /\ ~Heeded(d)
    BY <2>3, GenerationFits
  <2>5. PICK base : base = Abort(old, {"reconcile"})
    OBVIOUS
  <2>6. /\ base \in SUBSET Call /\ Expected(p, base)
        /\ \A d \in base : /\ Fits(d.kind, d.of, d.reply) /\ ~Heeded(d)
                           /\ d.kind # "reconcile"
    <3>1. \A d \in old : Fits(d.kind, d.of, d.reply)
      BY <2>4
    <3>2. /\ base \in SUBSET Call /\ Expected(p, base)
          /\ \A d \in base : /\ Fits(d.kind, d.of, d.reply)
                             /\ Heeded(d) => d \in old /\ d.kind \notin {"reconcile"}
                             /\ d.kind = "reconcile" => d \in old /\ d.kind \notin {"reconcile"}
      <4> DEFINE kinds == {"reconcile"}
      <4>1. base = Abort(old, kinds)
        BY <2>5
      <4>3. FlowTypes
        OBVIOUS
      <4> HIDE DEF kinds, FlowInv
      <4>2. /\ base \in SUBSET Call /\ Expected(p, base)
            /\ \A d \in base : /\ Fits(d.kind, d.of, d.reply)
                               /\ Heeded(d) => d \in old /\ d.kind \notin kinds
                               /\ d.kind = "reconcile" => d \in old /\ d.kind \notin kinds
        BY <2>4, <3>1, <4>1, <4>3, AbortFits
      <4> QED BY <4>2 DEF kinds
    <3> QED BY <2>4, <3>2
  <2>7. PICK r : r = Sent("reconcile", page.mine)
    OBVIOUS
  <2>8. /\ r \in Call /\ r.kind = "reconcile" /\ r.of = page.mine /\ Heeded(r)
        /\ Fits(r.kind, r.of, r.reply)
    BY <1>2, <1>4, <2>7, SentFits DEF Kinds, OfTraining
  <2>9. Awaits(p, r) /\ Apart(p, r, r)
    BY <1>3, <2>2, <2>8 DEF Awaits, Apart
  <2>10. Expected(p, base \cup {r})
    BY <2>6, <2>9, OneMore
  <2>11. Show(p, base \cup {r})
    BY <1>11, <2>1, <2>3, <2>5, <2>7 DEF CancelUpload, Reconciling
  <2>12. p.overtaken => mode = "verified"
    BY <2>2 DEF PageFits
  <2> QED BY <1>6, <2>2, <2>6, <2>8, <2>10, <2>11, <2>12
<1> QED BY <1>9, <1>10, <1>11

(* The athlete leaves the screen, or deletes a training of the history.    *)
LEMMA LeavingKeeps ==
  ASSUME FlowInv, Leave \/ \E t \in Trainings : Erase(t) PROVE FlowInv'
<1> USE DEF FlowInv
<1>1. /\ UNCHANGED <<serverVars, mode, intent, given, owner, storage, spent>>
      /\ spent' \in [uploads : Nat, visits : Nat, keys : Nat]
      /\ storage' \in {"ok", "full", "gone"} /\ owner' \in Trainings \cup {NoTraining}
  BY DEF Leave, Erase, tabVars, FlowTypes
<1>2. page \in Page /\ mode \in {"free", "verified"} /\ calls \in SUBSET Call
  BY PageIsTyped
<1>3. ASSUME NEW t \in Trainings, Erase(t) PROVE FlowInv'
  <2>1. PICK s : s = Sent("erase", t)
    OBVIOUS
  <2>2. page' = page /\ calls' = calls \cup {s} /\ Made(t)
    BY <1>3, <2>1 DEF Erase, Made
  <2>3. /\ s \in Call /\ s.kind = "erase" /\ Fits(s.kind, s.of, s.reply)
    BY <2>1, <2>2, SentFits, ServerAssumption DEF Kinds, OfTraining
  <2>4. Awaits(page, s) /\ Apart(page, s, s) /\ \A d \in calls : Apart(page, s, d) /\ Apart(page, d, s)
    BY <2>3 DEF Awaits, Apart
  <2>5. Expected(page, calls \cup {s})
    BY <2>3, <2>4, OneMore
  <2>6. Listening(page, calls \cup {s})
    BY <2>3 DEF Listening
  <2>7. PageFits'
    BY <1>1, <2>2 DEF PageFits, Made, Gone, serverVars
  <2>8. calls' \subseteq Call /\ \A d \in calls' : Fits(d.kind, d.of, d.reply)
    BY <1>2, <2>2, <2>3 DEF CallsFit
  <2>9. mode = "free" =>
           /\ owner' # NoTraining => Made(owner') /\ OwnsIntent(owner')
           /\ page'.mine # NoTraining => OwnsIntent(page'.mine)
           /\ \A d \in calls' : Heeded(d) =>
                /\ d.kind = "create" => d.of = intent /\ owner' = NoTraining
                /\ d.kind = "recover" => OwnsIntent(d.of)
           /\ page'.dirty => intent = NoOrigin \/ Settled(intent)
    BY <1>1, <2>2, <2>3 DEF OwnerIsKept
  <2> QED BY <1>1, <1>2, <2>2, <2>5, <2>6, <2>7, <2>8, <2>9, PageKeeps
<1>4. CASE Leave
  <2>1. PICK kept \in {{}, {"erase"}} :
          calls' = {c \in calls : c.kind \in kept}
                     \cup UNION {Forgotten(c) : c \in {d \in calls : d.kind \notin kept}}
    BY <1>4 DEF Leave
  <2>2. \A d \in calls' : \/ d \in calls /\ d.kind = "erase"
                          \/ \E c \in calls : d \in Forgotten(c)
    BY <2>1
  <2>3. \A d \in calls' : \/ d \in calls /\ d.kind = "erase"
                          \/ /\ d \in Call /\ ~d.heard /\ d.kind \notin Reads
                             /\ \E c \in calls : Weaker(d, c)
    BY <1>2, <2>2, ForgottenIsWeaker
  <2>4. calls' \subseteq Call
    BY <1>2, <2>3
  <2>5. \A d \in calls' : Fits(d.kind, d.of, d.reply)
    BY <2>3 DEF CallsFit, Weaker
  <2>6. \A d \in calls' : d.heard => d.kind = "erase"
    BY <2>3
  <2>7. \A d \in calls' : d.kind # "reconcile"
    BY <2>3 DEF Reads
  <2>8. \A d \in calls' : Heeded(d) => d.kind = "erase"
    BY <2>6 DEF Heeded
  <2>9. Expected(page', calls')
    BY <2>7, <2>8 DEF Expected, OneReconcile, Awaits, Apart
  <2>10. Listening(page', calls')
    BY <2>6 DEF Listening
  <2>11. /\ page' \in Page /\ page'.screen = "away" /\ page'.mine = NoTraining
         /\ page'.cleanup = NoTraining /\ page'.media = FALSE /\ page'.overtaken = FALSE
         /\ page'.dirty = FALSE
    <3>1. page' = FreshPage("away") /\ "away" \in Screens
      BY <1>4 DEF Leave, Screens
    <3> HIDE DEF FlowInv
    <3> QED BY <3>1, FreshPages
  <2>12. PageFits'
    BY <2>11 DEF PageFits
  <2>13. mode = "free" =>
           /\ owner' # NoTraining => Made(owner') /\ OwnsIntent(owner')
           /\ page'.mine # NoTraining => OwnsIntent(page'.mine)
           /\ \A d \in calls' : Heeded(d) =>
                /\ d.kind = "create" => d.of = intent /\ owner' = NoTraining
                /\ d.kind = "recover" => OwnsIntent(d.of)
           /\ page'.dirty => intent = NoOrigin \/ Settled(intent)
    BY <1>1, <2>8, <2>11 DEF OwnerIsKept
  <2> QED BY <1>1, <2>4, <2>5, <2>9, <2>10, <2>11, <2>12, <2>13, PageKeeps
<1> QED BY <1>3, <1>4

-----------------------------------------------------------------------------
(* Answers that arrive.                                                    *)

LEMMA AnswerShows ==
  ASSUME FlowInv, UNCHANGED <<serverVars, mode, intent, given, owner, storage, spent>>,
         NEW p \in Page, NEW cs \in SUBSET Call, Show(p, cs), Expected(p, cs),
         \A d \in cs : /\ Fits(d.kind, d.of, d.reply)
                       /\ Heeded(d) /\ d.kind \in {"create", "recover"} => d \in calls,
         mode = "free" => p.mine \in {page.mine, NoTraining},
         p.dirty => page.dirty, page' = p => PageFits'
  PROVE  FlowInv'
<1> USE DEF FlowInv
<1>1. /\ spent' \in [uploads : Nat, visits : Nat, keys : Nat]
      /\ owner' \in Trainings \cup {NoTraining}
  BY DEF FlowTypes
<1>2. mode = "free" =>
         /\ owner' # NoTraining => Made(owner') /\ OwnsIntent(owner')
         /\ p.mine # NoTraining => OwnsIntent(p.mine)
         /\ \A d \in cs : Heeded(d) =>
              /\ d.kind = "create" => d.of = intent /\ owner' = NoTraining
              /\ d.kind = "recover" => OwnsIntent(d.of)
         /\ p.dirty => intent = NoOrigin \/ Settled(intent)
  BY DEF OwnerIsKept
<1> QED BY <1>1, <1>2, ShowKeeps

LEMMA AppliedPages ==
  ASSUME NEW p \in Page, NEW shown \in Outcomes, NEW q, q = Applied(p, shown)
  PROVE  /\ q \in Page /\ q.mine = p.mine /\ q.overtaken = p.overtaken
         /\ q.dirty = p.dirty /\ q.cleanup = p.cleanup
         /\ q.screen \in {"capture", "pending", "terminal"}
         /\ q.screen # "capture" => q.media = FALSE
<1>1. CASE shown = "awaiting-upload"
  BY <1>1 DEF Applied, Page, Screens, Outcomes
<1>2. CASE shown = "received"
  BY <1>2 DEF Applied, Page, Screens, Outcomes
<1>3. CASE shown = "ended"
  BY <1>3 DEF Applied, Page, Screens, Outcomes
<1> QED BY <1>1, <1>2, <1>3 DEF Outcomes

(* Without the request that is answered.                                   *)
LEMMA OneLess ==
  ASSUME FlowInv, NEW c \in calls, NEW cs, cs = calls \ {c}
  PROVE  /\ cs \in SUBSET Call /\ Expected(page, cs) /\ c \in Call
         /\ \A d \in cs : Fits(d.kind, d.of, d.reply) /\ d \in calls /\ d # c
         /\ Fits(c.kind, c.of, c.reply) /\ c.reply \in Answer /\ c.of \in Nat
<1>1. c \in Call /\ cs \in SUBSET Call
  BY DEF FlowInv, FlowTypes
<1>2. c.reply \in Answer /\ c.of \in Nat
  BY <1>1 DEF Call
<1>3. Fits(c.kind, c.of, c.reply) /\ \A d \in cs : Fits(d.kind, d.of, d.reply)
  BY DEF FlowInv, CallsFit
<1>4. Expected(page, cs)
  BY FewerExpected DEF FlowInv
<1> QED BY <1>1, <1>2, <1>3, <1>4

(* The answers of the verified set-up.                                     *)
LEMMA SetupAnswersKeep ==
  ASSUME FlowInv, NEW c \in calls, Heeded(c), c.heard,
         UNCHANGED <<serverVars, mode, intent, given, owner, storage, spent>>,
         \/ c.kind = "issue" /\ IssueAnswered(c)
         \/ c.kind = "ready" /\ ReadyAnswered(c)
         \/ c.kind = "create-verified" /\ CreateVerifiedAnswered(c)
  PROVE  FlowInv'
<1> USE DEF FlowInv
<1>1. page \in Page /\ mode \in {"free", "verified"} /\ calls \in SUBSET Call
  BY PageIsTyped
<1>2. PICK cs : cs = calls \ {c}
  OBVIOUS
<1>3. /\ cs \in SUBSET Call /\ Expected(page, cs) /\ c \in Call
      /\ \A d \in cs : Fits(d.kind, d.of, d.reply) /\ d \in calls /\ d # c
      /\ Fits(c.kind, c.of, c.reply) /\ c.reply \in Answer /\ c.of \in Nat
  BY <1>2, OneLess
<1>4. c.reply.training \in Nat
  BY <1>3 DEF Answer
<1>5. mode = "verified"
  BY <1>1, <1>3 DEF Fits
<1>6. /\ c.kind = "issue" => page.screen = "issuing"
      /\ c.kind = "ready" => page.screen = "readying"
      /\ c.kind = "create-verified" => page.screen = "capture"
  BY DEF Expected, Awaits, Listening
<1>7. page.screen \in {"issuing", "readying", "capture"} /\ ~page.dirty /\ page.cleanup = NoTraining
  BY <1>6 DEF PageFits
<1>8. ASSUME NEW p \in Page, NEW ds \in SUBSET Call, Show(p, ds), Expected(p, ds),
             \A d \in ds : Fits(d.kind, d.of, d.reply) /\ (d \in calls \/ d.kind = "ready"),
             p.dirty = page.dirty, p.cleanup = page.cleanup,
             p.screen \in {"readying", "setup", "capture"}, p.media = page.media,
             p.mine # NoTraining => Made(p.mine), page.mine # NoTraining => p.mine # NoTraining
      PROVE  FlowInv'
  <2>1. page' = p => PageFits'
    <3> SUFFICES ASSUME page' = p PROVE PageFits'
      OBVIOUS
    <3>1. \A t : Made(t)' <=> Made(t)
      BY DEF Made, serverVars
    <3> QED BY <1>5, <1>7, <1>8, <3>1 DEF PageFits
  <2>2. ~(mode = "free")
    BY <1>5
  <2>3. \A d \in ds : /\ Fits(d.kind, d.of, d.reply)
                      /\ Heeded(d) /\ d.kind \in {"create", "recover"} => d \in calls
    BY <1>8
  <2> QED BY <1>8, <2>1, <2>2, <2>3, AnswerShows
<1>9. ASSUME NEW p \in Page, p.overtaken = page.overtaken,
             \A d \in cs : Heeded(d) => Awaits(p, d)
      PROVE  Expected(p, cs)
  BY <1>3, <1>9 DEF Expected, Apart
<1>10. \A d \in cs : Heeded(d) =>
         /\ d.kind \notin {"create", "recover", "issue", "ready", "delete"}
         /\ page.screen # "capture" => d.kind # "reconcile"
  <2>1. ASSUME NEW d \in cs, Heeded(d) PROVE Awaits(page, d) /\ Apart(page, c, d)
    BY <1>3, <2>1 DEF Expected
  <2>2. ASSUME NEW d \in cs, Heeded(d), d.kind = c.kind PROVE c.kind = "create-verified"
    BY <1>3, <2>1, <2>2 DEF Apart
  <2> QED BY <1>6, <1>7, <2>1, <2>2 DEF Awaits
<1>11. CASE c.kind = "issue" /\ Succeeded(c)
  <2>1. PICK p : p = [page EXCEPT !.screen = "readying", !.session = c.reply.training]
    OBVIOUS
  <2>2. /\ p \in Page /\ p.mine = page.mine /\ p.screen = "readying" /\ p.dirty = page.dirty
        /\ p.overtaken = page.overtaken /\ p.cleanup = page.cleanup /\ p.media = page.media
    BY <1>1, <1>4, <2>1 DEF Page, Screens
  <2>3. PICK s : s = Sent("ready", c.reply.training)
    OBVIOUS
  <2>4. /\ s \in Call /\ s.kind = "ready" /\ Heeded(s) /\ Fits(s.kind, s.of, s.reply)
    BY <1>4, <1>5, <2>3, SentFits DEF Kinds, OfTraining
  <2>5. Expected(p, cs)
    BY <1>6, <1>9, <1>10, <1>11, <2>2 DEF Awaits
  <2>6. Expected(p, cs \cup {s})
    BY <1>10, <2>2, <2>4, <2>5, OneMore DEF Awaits, Apart
  <2>7. Show(p, cs \cup {s})
    BY <1>2, <1>11, <2>1, <2>3 DEF IssueAnswered
  <2>8. \A d \in cs \cup {s} : Fits(d.kind, d.of, d.reply) /\ (d \in calls \/ d.kind = "ready")
    BY <1>3, <2>4
  <2> QED BY <1>3, <1>8, <2>2, <2>4, <2>6, <2>7, <2>8 DEF PageFits
<1>12. ASSUME NEW p, p \in Page, Show(p, cs), p.dirty = page.dirty,
              p.overtaken = page.overtaken, p.cleanup = page.cleanup, p.media = page.media,
              \/ p.screen = "setup" /\ page.screen \in {"issuing", "readying"}
              \/ p.screen = "capture",
              \/ p.mine = page.mine
              \/ p.mine # NoTraining /\ Made(p.mine)
       PROVE  FlowInv'
  <2>1. \A d \in cs : Heeded(d) => Awaits(p, d)
    <3>1. ASSUME NEW d \in cs, Heeded(d), d.kind = "reconcile" PROVE Awaits(p, d)
      <4>1. Awaits(page, d)
        BY <1>3, <3>1 DEF Expected
      <4> QED BY <1>10, <1>12, <3>1, <4>1 DEF Awaits
    <3> QED BY <1>10, <3>1 DEF Awaits
  <2>2. Expected(p, cs)
    BY <1>9, <1>12, <2>1
  <2> QED BY <1>3, <1>8, <1>12, <2>2 DEF PageFits
<1>13. CASE ~(c.kind = "issue" /\ Succeeded(c))
  <2>1. BackToSetup \in Page /\ BackToSetup.screen = "setup" /\ BackToSetup.mine = page.mine
        /\ BackToSetup.dirty = page.dirty /\ BackToSetup.overtaken = page.overtaken
        /\ BackToSetup.cleanup = page.cleanup /\ BackToSetup.media = page.media
    BY <1>1 DEF BackToSetup, Page, Screens
  <2>2. CASE c.kind \in {"issue", "ready"} /\ ~Succeeded(c)
    <3>1. Show(BackToSetup, cs)
      BY <1>2, <2>2 DEF IssueAnswered, ReadyAnswered
    <3> QED BY <1>6, <1>12, <2>1, <2>2, <3>1
  <2>3. CASE c.kind = "ready" /\ Succeeded(c)
    <3>1. PICK p : p = [page EXCEPT !.screen = "capture"]
      OBVIOUS
    <3>2. /\ p \in Page /\ p.mine = page.mine /\ p.screen = "capture" /\ p.dirty = page.dirty
          /\ p.overtaken = page.overtaken /\ p.cleanup = page.cleanup /\ p.media = page.media
      BY <1>1, <3>1 DEF Page, Screens
    <3>3. Show(p, cs)
      BY <1>2, <2>3, <3>1 DEF ReadyAnswered
    <3> QED BY <1>12, <3>2, <3>3
  <2>4. CASE c.kind = "create-verified"
    <3>1. CASE Succeeded(c)
      <4>1. c.reply.training \in Trainings /\ Made(c.reply.training) /\ c.reply.training # NoTraining
        BY <1>3, <2>4, <3>1, ServerAssumption DEF Fits, Succeeded
      <4>2. PICK p : p = [page EXCEPT !.mine = c.reply.training]
        OBVIOUS
      <4>3. /\ p \in Page /\ p.mine = c.reply.training /\ p.screen = page.screen
            /\ p.dirty = page.dirty /\ p.overtaken = page.overtaken
            /\ p.cleanup = page.cleanup /\ p.media = page.media
        BY <1>1, <4>1, <4>2 DEF Page
      <4>4. Show(p, cs)
        BY <1>2, <2>4, <3>1, <4>2 DEF CreateVerifiedAnswered
      <4> QED BY <1>6, <1>12, <2>4, <4>1, <4>3, <4>4
    <3>2. CASE ~Succeeded(c)
      <4>1. PICK p : p = Halted(page)
        OBVIOUS
      <4>2. /\ p \in Page /\ p.mine = page.mine /\ p.screen = page.screen
            /\ p.dirty = page.dirty /\ p.overtaken = page.overtaken
            /\ p.cleanup = page.cleanup /\ p.media = page.media
        BY <1>1, <4>1 DEF Page, Halted
      <4>3. Show(p, cs)
        BY <1>2, <2>4, <3>2, <4>1 DEF CreateVerifiedAnswered
      <4> QED BY <1>6, <1>12, <2>4, <4>2, <4>3
    <3> QED BY <3>1, <3>2
  <2> QED BY <1>13, <2>2, <2>3, <2>4
<1> QED BY <1>11, <1>13

(* The answers of uploads, reconciliations and polls.                      *)
LEMMA UploadAnswersKeep ==
  ASSUME FlowInv, NEW c \in calls, Heeded(c), c.heard,
         UNCHANGED <<serverVars, mode, intent, given, owner, storage, spent>>,
         \/ c.kind = "upload" /\ UploadAnswered(c)
         \/ c.kind = "reconcile" /\ ReconcileAnswered(c)
         \/ c.kind = "poll" /\ PollAnswered(c)
  PROVE  FlowInv'
<1> USE DEF FlowInv
<1>1. page \in Page /\ mode \in {"free", "verified"} /\ calls \in SUBSET Call
  BY PageIsTyped
<1>2. PICK cs : cs = calls \ {c}
  OBVIOUS
<1>3. /\ cs \in SUBSET Call /\ Expected(page, cs) /\ c \in Call
      /\ \A d \in cs : Fits(d.kind, d.of, d.reply) /\ d \in calls /\ d # c
      /\ Fits(c.kind, c.of, c.reply) /\ c.reply \in Answer /\ c.of \in Nat
  BY <1>2, OneLess
<1>4. Succeeded(c) => c.reply.shown \in Outcomes
  BY <1>3 DEF Fits, Succeeded
<1>5. /\ c.kind = "upload" => page.screen = "uploading"
      /\ c.kind = "poll" => page.screen = "pending"
      /\ c.kind = "reconcile" =>
           \/ page.screen \in {"capture", "uploading"}
           \/ page.overtaken /\ page.screen \in {"pending", "terminal"}
      /\ c.kind = "reconcile" => page.mine # NoTraining
  BY DEF Expected, Awaits, Listening
<1>6. /\ page.screen \in {"uploading", "pending", "capture", "terminal"}
      /\ page.mine # NoTraining /\ ~page.dirty /\ page.cleanup = NoTraining
  BY <1>5 DEF PageFits
<1>7. \A d \in cs : Heeded(d) =>
         /\ d.kind \notin {"create", "recover", "issue", "ready", "delete"}
         /\ d.kind = "reconcile" => c.kind # "reconcile" /\ (c.kind = "upload" => page.overtaken)
         /\ ~(c.kind = "upload" /\ d.kind = "upload")
  <2>1. ASSUME NEW d \in cs, Heeded(d) PROVE Awaits(page, d)
    BY <1>3, <2>1 DEF Expected
  <2>2. ASSUME NEW d \in cs, Heeded(d) PROVE Apart(page, d, c) /\ d \in calls /\ d # c
    BY <1>3, <2>2 DEF Expected
  <2>3. ASSUME NEW d \in cs, d.kind = "reconcile" PROVE c.kind # "reconcile"
    BY <1>3, <2>3 DEF Expected, OneReconcile
  <2>4. ASSUME NEW d \in cs, Heeded(d)
        PROVE  d.kind \notin {"create", "recover", "issue", "ready", "delete"}
    BY <1>6, <2>1, <2>4 DEF Awaits
  <2>5. ASSUME NEW d \in cs, Heeded(d), c.kind = "upload"
        PROVE  d.kind # "upload" /\ (d.kind = "reconcile" => page.overtaken)
    BY <2>2, <2>5 DEF Apart
  <2> QED BY <2>3, <2>4, <2>5
<1>8. ASSUME NEW p \in Page, NEW ds \in SUBSET Call, Show(p, ds), Expected(p, ds),
             \A d \in ds : Fits(d.kind, d.of, d.reply) /\ (d \in calls \/ d.kind = "reconcile"),
             p.dirty = page.dirty, p.cleanup = page.cleanup, p.mine = page.mine,
             p.overtaken = page.overtaken,
             p.screen \in {"capture", "uploading", "pending", "terminal"}
      PROVE  FlowInv'
  <2>1. page' = p => PageFits'
    <3> SUFFICES ASSUME page' = p PROVE PageFits'
      OBVIOUS
    <3>1. Made(page.mine)' <=> Made(page.mine)
      BY <1>8 DEF Made, serverVars
    <3> QED BY <1>1, <1>6, <1>8, <3>1 DEF PageFits, Made, serverVars
  <2>2. \A d \in ds : /\ Fits(d.kind, d.of, d.reply)
                      /\ Heeded(d) /\ d.kind \in {"create", "recover"} => d \in calls
    BY <1>8
  <2> QED BY <1>8, <2>1, <2>2, AnswerShows
<1>9. ASSUME NEW p \in Page, Show(p, cs), p.overtaken = page.overtaken,
             p.dirty = page.dirty, p.cleanup = page.cleanup, p.mine = page.mine,
             \/ p.screen = page.screen
             \/ c.kind \in {"upload", "reconcile"} /\ p.screen = "capture"
             \/ c.kind \in {"upload", "reconcile"} /\ p.screen \in {"pending", "terminal"}
             \/ c.kind = "poll" /\ p.screen = "terminal"
      PROVE  FlowInv'
  <2>1. \A d \in cs : Heeded(d) => Awaits(p, d)
    <3>1. ASSUME NEW d \in cs, Heeded(d), d.kind = "reconcile" PROVE Awaits(p, d)
      <4>1. Awaits(page, d)
        BY <1>3, <3>1 DEF Expected
      <4> QED BY <1>5, <1>6, <1>7, <1>9, <3>1, <4>1 DEF Awaits
    <3> QED BY <1>7, <3>1 DEF Awaits
  <2>2. Expected(p, cs)
    BY <1>3, <1>9, <2>1 DEF Expected, Apart
  <2>3. p.screen \in {"capture", "uploading", "pending", "terminal"}
    BY <1>6, <1>9
  <2> QED BY <1>3, <1>8, <1>9, <2>2, <2>3
<1>10. ASSUME c.kind \in {"upload", "reconcile"}, Succeeded(c), Show(Applied(page, c.reply.shown), cs)
       PROVE  FlowInv'
  <2>1. PICK p : p = Applied(page, c.reply.shown)
    OBVIOUS
  <2>2. /\ p \in Page /\ p.mine = page.mine /\ p.overtaken = page.overtaken
        /\ p.dirty = page.dirty /\ p.cleanup = page.cleanup
        /\ p.screen \in {"capture", "pending", "terminal"}
    <3>1. PICK shown \in Outcomes : shown = c.reply.shown
      BY <1>4, <1>10
    <3> HIDE DEF FlowInv
    <3> QED BY <1>1, <2>1, <3>1, AppliedPages, ZenonT(60)
  <2> QED BY <1>9, <1>10, <2>1, <2>2
<1>11. ASSUME c.kind \in {"upload", "reconcile"}, Show(BackToCapture, cs) PROVE FlowInv'
  <2>1. PICK p : p = BackToCapture
    OBVIOUS
  <2>2. /\ p \in Page /\ p.mine = page.mine /\ p.overtaken = page.overtaken
        /\ p.dirty = page.dirty /\ p.cleanup = page.cleanup /\ p.screen = "capture"
    BY <1>1, <2>1 DEF BackToCapture, Page, Screens
  <2> QED BY <1>9, <1>11, <2>1, <2>2
<1>12. ASSUME c.kind = "upload", Show(page, Reconciling(cs, c.of)) PROVE FlowInv'
  <2>1. PICK base : base = Abort(cs, {"reconcile"})
    OBVIOUS
  <2>2. FlowTypes
    OBVIOUS
  <2>3. \A d \in cs : Fits(d.kind, d.of, d.reply)
    BY <1>3
  <2>4. /\ base \in SUBSET Call /\ Expected(page, base)
        /\ \A d \in base : /\ Fits(d.kind, d.of, d.reply)
                           /\ Heeded(d) => d \in cs
                           /\ d.kind # "reconcile"
    <3> DEFINE kinds == {"reconcile"}
    <3>1. base = Abort(cs, kinds)
      BY <2>1
    <3> HIDE DEF kinds, FlowInv
    <3>2. /\ base \in SUBSET Call /\ Expected(page, base)
          /\ \A d \in base : /\ Fits(d.kind, d.of, d.reply)
                             /\ Heeded(d) => d \in cs /\ d.kind \notin kinds
                             /\ d.kind = "reconcile" => d \in cs /\ d.kind \notin kinds
      BY <1>3, <2>2, <2>3, <3>1, AbortFits
    <3> QED BY <3>2 DEF kinds
  <2>5. PICK s : s = Sent("reconcile", c.of)
    OBVIOUS
  <2>6. c.of \in Trainings /\ Made(c.of)
    BY <1>3, <1>12 DEF Fits, OfTraining
  <2>7. /\ s \in Call /\ s.kind = "reconcile" /\ Fits(s.kind, s.of, s.reply)
    BY <1>3, <2>5, <2>6, SentFits DEF Kinds, OfTraining
  <2>8. Awaits(page, s) /\ Apart(page, s, s)
    BY <1>5, <1>6, <1>12, <2>7 DEF Awaits, Apart
  <2>9. \A d \in base : Heeded(d) => d.kind # "upload"
    BY <1>7, <1>12, <2>4
  <2>10. \A d \in base : Heeded(d) => Apart(page, s, d) /\ Apart(page, d, s)
    BY <2>4, <2>7, <2>9 DEF Apart
  <2>11. Expected(page, base \cup {s})
    BY <2>4, <2>8, <2>10, OneMore
  <2>12. Show(page, base \cup {s})
    BY <1>12, <2>1, <2>5 DEF Reconciling
  <2>13. base \cup {s} \in SUBSET Call
    BY <2>4, <2>7
  <2>14. \A d \in base \cup {s} :
           /\ Fits(d.kind, d.of, d.reply)
           /\ Heeded(d) /\ d.kind \in {"create", "recover"} => d \in calls
    BY <1>3, <2>4, <2>7
  <2>15. page' = page => PageFits'
    BY DEF PageFits, Made, Gone, serverVars
  <2> QED BY <1>1, <2>11, <2>12, <2>13, <2>14, <2>15, AnswerShows
<1>13. CASE c.kind = "upload"
  <2>1. UploadAnswered(c)
    BY <1>13
  <2>2. CASE Succeeded(c)
    <3>1. Show(Applied(page, c.reply.shown), cs)
      BY <1>2, <2>1, <2>2 DEF UploadAnswered, Succeeded
    <3> QED BY <1>10, <1>13, <2>2, <3>1
  <2>3. CASE ~Succeeded(c) /\ c.reply.code \in {"duplicate", "lost"}
    BY <1>2, <1>12, <1>13, <2>1, <2>3 DEF UploadAnswered
  <2>4. CASE ~Succeeded(c) /\ c.reply.code \notin {"duplicate", "lost"}
    BY <1>2, <1>11, <1>13, <2>1, <2>4 DEF UploadAnswered
  <2> QED BY <2>2, <2>3, <2>4
<1>14. CASE c.kind = "reconcile"
  <2>1. ReconcileAnswered(c)
    BY <1>14
  <2>2. CASE Succeeded(c)
    BY <1>2, <1>10, <1>14, <2>1, <2>2 DEF ReconcileAnswered
  <2>3. CASE ~Succeeded(c)
    BY <1>2, <1>11, <1>14, <2>1, <2>3 DEF ReconcileAnswered
  <2> QED BY <2>2, <2>3
<1>15. CASE c.kind = "poll"
  <2>1. PollAnswered(c)
    BY <1>15
  <2>2. CASE Succeeded(c) /\ c.reply.shown = "ended"
    <3>1. PICK p : p = Applied(page, "ended")
      OBVIOUS
    <3>2. /\ p \in Page /\ p.mine = page.mine /\ p.screen = "terminal" /\ p.dirty = page.dirty
          /\ p.overtaken = page.overtaken /\ p.cleanup = page.cleanup
      BY <1>1, <3>1 DEF Applied, Page, Screens, Outcomes
    <3>3. Show(p, cs)
      BY <1>2, <2>1, <2>2, <3>1 DEF PollAnswered
    <3> QED BY <1>9, <1>15, <3>2, <3>3
  <2>3. CASE Succeeded(c) /\ c.reply.shown # "ended"
    <3>1. PICK p : p = [page EXCEPT !.known = c.reply.shown, !.notice = FALSE]
      OBVIOUS
    <3>2. /\ p \in Page /\ p.mine = page.mine /\ p.screen = page.screen /\ p.dirty = page.dirty
          /\ p.overtaken = page.overtaken /\ p.cleanup = page.cleanup
      BY <1>1, <1>4, <2>3, <3>1 DEF Page
    <3>3. Show(p, cs)
      BY <1>2, <2>1, <2>3, <3>1 DEF PollAnswered
    <3> QED BY <1>9, <3>2, <3>3
  <2>4. CASE ~Succeeded(c)
    <3>1. PICK p : p = [page EXCEPT !.notice = TRUE]
      OBVIOUS
    <3>2. /\ p \in Page /\ p.mine = page.mine /\ p.screen = page.screen /\ p.dirty = page.dirty
          /\ p.overtaken = page.overtaken /\ p.cleanup = page.cleanup
      BY <1>1, <3>1 DEF Page
    <3>3. Show(p, cs)
      BY <1>2, <2>1, <2>4, <3>1 DEF PollAnswered
    <3> QED BY <1>9, <3>2, <3>3
  <2> QED BY <2>2, <2>3, <2>4
<1> QED BY <1>13, <1>14, <1>15

-----------------------------------------------------------------------------
(* The stored key and the stored training.                                 *)

(* A key is forgotten when nothing is to come of it.                       *)
LEMMA ForgottenKeys ==
  ASSUME FlowInv, UNCHANGED <<serverVars, mode, spent>>, given \subseteq given',
         intent' \in {intent, NoOrigin},
         mode = "free" =>
           intent' = intent \/ intent = NoOrigin \/ Settled(intent) \/ intent \in given'
  PROVE  KeysAreKept'
<1> SUFFICES ASSUME mode = "free" PROVE KeysAreKept'
  BY DEF KeysAreKept
<1>1. \A k : Settled(k) \/ k \in given' => Settled(k)'
  BY DEF Settled, Gone, serverVars
<1>2. NoOrigin \notin Origins
  BY ServerAssumption
<1>3. \A k \in Origins : k <= spent'.keys => k = intent' \/ Settled(k)'
  BY <1>1, <1>2 DEF KeysAreKept, FlowInv
<1>4. intent' <= spent'.keys
  BY ServerAssumption DEF KeysAreKept, FlowInv, FlowTypes
<1>5. /\ \A t \in Trainings : origin'[t] = NoOrigin <=> ~Made(t)'
      /\ \A t \in Trainings : origin'[t] \in Origins \cup {NoOrigin} /\ origin'[t] <= spent'.keys
      /\ \A t, u \in Trainings : Made(t)' /\ origin'[t] = origin'[u] => t = u
  BY DEF KeysAreKept, FlowInv, Made, serverVars
<1> QED BY <1>3, <1>4, <1>5 DEF KeysAreKept

(* Those that had the key of a training that is gone are that training.    *)
LEMMA ForgottenOwners ==
  ASSUME FlowInv, mode = "free", UNCHANGED serverVars, intent' \in {intent, NoOrigin},
         NEW t \in Trainings, Gone(t), OwnsIntent(t),
         NEW u \in Trainings, Made(u), OwnsIntent(u)
  PROVE  OwnsIntent(u)'
<1>1. CASE intent' = intent
  BY <1>1 DEF OwnsIntent, Gone, serverVars
<1>2. CASE intent' = NoOrigin /\ intent = origin[t] /\ intent = origin[u]
  <2>1. t = u
    BY <1>2 DEF FlowInv, KeysAreKept
  <2> QED BY <1>2, <2>1 DEF OwnsIntent, Gone, serverVars
<1>3. CASE intent' = NoOrigin /\ (intent = NoOrigin \/ Gone(u))
  <2>1. Gone(u) \/ intent = origin[u]
    BY DEF OwnsIntent
  <2> QED BY <1>3, <2>1 DEF OwnsIntent, Gone, serverVars
<1> QED BY <1>1, <1>2, <1>3 DEF OwnsIntent

(* A deletion clears what is stored of its training.                       *)
LEMMA DeletionKeeps ==
  ASSUME FlowInv, UNCHANGED <<serverVars, mode, storage, given, spent>>,
         NEW t \in Trainings, Gone(t), ClearOwnershipFor(t),
         page' \in Page, page'.mine \in {page.mine, NoTraining},
         mode = "free" => (page'.dirty => page.dirty \/ OwnsIntent(t)),
         calls' \subseteq Call,
         \A d \in calls' : /\ Fits(d.kind, d.of, d.reply)
                           /\ Heeded(d) /\ d.kind \in {"create", "recover"} => d \in calls,
         PageFits', Expected(page', calls'), Listening(page', calls')
  PROVE  FlowInv'
<1> USE DEF FlowInv
<1>1. /\ \/ Owns(t) /\ owner' = NoTraining /\ intent' = NoOrigin
         \/ UNCHANGED <<owner, intent>>
  BY DEF ClearOwnershipFor, ClearOwnership, Removable, Owns, Healthy
<1>2. CASE UNCHANGED <<owner, intent>>
  <2>1. /\ spent' \in [uploads : Nat, visits : Nat, keys : Nat] /\ storage' \in {"ok", "full", "gone"}
        /\ owner' \in Trainings \cup {NoTraining}
    BY <1>2 DEF FlowTypes
  <2>2. mode = "free" =>
           /\ owner' # NoTraining => Made(owner') /\ OwnsIntent(owner')
           /\ page'.mine # NoTraining => OwnsIntent(page'.mine)
           /\ \A d \in calls' : Heeded(d) =>
                /\ d.kind = "create" => d.of = intent /\ owner' = NoTraining
                /\ d.kind = "recover" => OwnsIntent(d.of)
    BY <1>2 DEF OwnerIsKept
  <2>3. mode = "free" => (page'.dirty => intent = NoOrigin \/ Settled(intent))
    BY DEF OwnerIsKept, OwnsIntent, Settled
  <2> QED BY <1>2, <2>1, <2>2, <2>3, PageKeeps
<1>3. CASE Owns(t) /\ owner' = NoTraining /\ intent' = NoOrigin
  <2>1. owner = t
    BY <1>3 DEF Owns
  <2>2. t # NoTraining
    BY ServerAssumption
  <2>3. mode = "free" => OwnsIntent(t)
    BY <2>1, <2>2 DEF OwnerIsKept
  <2>4. KeysAreKept'
    <3>1. mode = "free" => intent = NoOrigin \/ Settled(intent)
      BY <2>3 DEF OwnsIntent, Settled
    <3> QED BY <1>3, <3>1, ForgottenKeys
  <2>5. /\ spent' \in [uploads : Nat, visits : Nat, keys : Nat] /\ storage' \in {"ok", "full", "gone"}
        /\ owner' \in Trainings \cup {NoTraining} /\ intent' \in Origins \cup {NoOrigin}
        /\ spent'.keys \in Nat
    BY <1>3 DEF FlowTypes
  <2>6. \A d \in calls' : Fits(d.kind, d.of, d.reply)'
    <3>1. spent.keys <= spent'.keys
      BY <2>5
    <3> QED BY <2>5, <3>1, FitsMove
  <2>7. mode = "free" => (page'.mine # NoTraining => OwnsIntent(page.mine)')
    <3> SUFFICES ASSUME mode = "free", page'.mine # NoTraining PROVE OwnsIntent(page.mine)'
      OBVIOUS
    <3>1. page.mine # NoTraining /\ page'.mine = page.mine
      OBVIOUS
    <3>2. page.mine \in Trainings /\ Made(page.mine) /\ OwnsIntent(page.mine)
      <4>1. page.mine \in Trainings \cup {NoTraining}
        BY DEF FlowTypes, Page
      <4> QED BY <3>1, <4>1 DEF PageFits, OwnerIsKept
    <3>3. PICK u \in Trainings : u = page.mine
      BY <3>2
    <3>4. OwnsIntent(u)'
      BY <1>3, <2>3, <3>2, <3>3, ForgottenOwners
    <3> QED BY <3>1, <3>3, <3>4 DEF OwnsIntent, Gone
  <2>8. mode = "free" => \A d \in calls' : Heeded(d) => IsOwners(d)'
    <3> SUFFICES ASSUME mode = "free", NEW d \in calls', Heeded(d), d.kind \in {"create", "recover"}
                 PROVE  IsOwners(d)'
      BY DEF IsOwners
    <3>1. d \in calls /\ d.kind = "recover"
      BY <2>1, <2>2 DEF OwnerIsKept
    <3>2. OwnsIntent(d.of)
      BY <3>1 DEF OwnerIsKept
    <3>3. d.of \in Trainings /\ Made(d.of)
      BY <3>1 DEF CallsFit, Fits, OfTraining
    <3>4. OwnsIntent(d.of)'
      BY <1>3, <2>3, <3>2, <3>3, ForgottenOwners
    <3> QED BY <3>1, <3>4 DEF IsOwners
  <2> QED BY <1>3, <2>4, <2>5, <2>6, <2>7, <2>8, TabKeeps
<1> QED BY <1>1, <1>2, <1>3

LEMMA EraseAnswersKeep ==
  ASSUME FlowInv, NEW c \in calls, c.kind = "erase", EraseAnswered(c),
         UNCHANGED <<serverVars, mode, storage, given, spent>>
  PROVE  FlowInv'
<1> USE DEF FlowInv
<1>1. page \in Page /\ mode \in {"free", "verified"} /\ calls \in SUBSET Call
  BY PageIsTyped
<1>2. PICK cs : cs = calls \ {c}
  OBVIOUS
<1>3. /\ cs \in SUBSET Call /\ Expected(page, cs) /\ c \in Call
      /\ \A d \in cs : Fits(d.kind, d.of, d.reply) /\ d \in calls /\ d # c
      /\ Fits(c.kind, c.of, c.reply) /\ c.reply \in Answer /\ c.of \in Nat
  BY <1>2, OneLess
<1>4. c.of \in Trainings /\ (Succeeded(c) => Gone(c.of))
  BY <1>3 DEF Fits, OfTraining, Succeeded
<1>5. PICK other : page' = [page EXCEPT !.cleanup = other] /\
                   (other = page.cleanup \/ (Succeeded(c) /\ other = c.of /\ page.screen = "away"))
  <2>1. page = [page EXCEPT !.cleanup = page.cleanup]
    BY <1>1 DEF Page
  <2> QED BY <2>1 DEF EraseAnswered
<1>6. other \in Trainings \cup {NoTraining}
  BY <1>1, <1>4, <1>5 DEF Page
<1>7. /\ page' \in Page /\ page'.mine = page.mine /\ page'.screen = page.screen
      /\ page'.dirty = page.dirty /\ page'.overtaken = page.overtaken /\ page'.cleanup = other
      /\ page'.media = page.media /\ page'.started = page.started /\ page'.notice = page.notice
      /\ page'.blocked = page.blocked
  BY <1>1, <1>5, <1>6 DEF Page
<1>8. PageFits'
  <2>1. other # NoTraining => page.screen = "away" /\ Gone(other)
    BY <1>4, <1>5 DEF PageFits
  <2> QED BY <1>7, <2>1 DEF PageFits, Made, Gone, serverVars
<1>9. calls' = cs
  BY <1>2 DEF EraseAnswered
<1>10. Expected(page', calls')
  BY <1>3, <1>7, <1>9 DEF Expected, Awaits, Apart
<1>11. Listening(page', calls')
  BY <1>3, <1>7, <1>9 DEF Listening
<1>12. CASE Succeeded(c)
  <2>1. ClearOwnershipFor(c.of)
    BY <1>12 DEF EraseAnswered
  <2> QED BY <1>3, <1>4, <1>7, <1>8, <1>9, <1>10, <1>11, <1>12, <2>1, DeletionKeeps
<1>13. CASE ~Succeeded(c)
  <2>1. UNCHANGED <<owner, intent>>
    BY <1>13 DEF EraseAnswered
  <2>2. /\ spent' \in [uploads : Nat, visits : Nat, keys : Nat] /\ storage' \in {"ok", "full", "gone"}
        /\ owner' \in Trainings \cup {NoTraining}
    BY <2>1 DEF FlowTypes
  <2>3. mode = "free" =>
         /\ owner' # NoTraining => Made(owner') /\ OwnsIntent(owner')
         /\ page'.mine # NoTraining => OwnsIntent(page'.mine)
         /\ \A d \in calls' : Heeded(d) =>
              /\ d.kind = "create" => d.of = intent /\ owner' = NoTraining
              /\ d.kind = "recover" => OwnsIntent(d.of)
         /\ page'.dirty => intent = NoOrigin \/ Settled(intent)
    BY <1>3, <1>7, <1>9, <2>1 DEF OwnerIsKept
  <2> QED BY <1>3, <1>7, <1>8, <1>9, <1>10, <1>11, <2>1, <2>2, <2>3, PageKeeps
<1> QED BY <1>12, <1>13

LEMMA RetriesKeep ==
  ASSUME FlowInv, RetryCleanup PROVE FlowInv'
<1> USE DEF FlowInv
<1>1. page \in Page /\ mode \in {"free", "verified"} /\ calls \in SUBSET Call
  BY PageIsTyped
<1>2. PICK t : t = page.cleanup
  OBVIOUS
<1>3. t \in Trainings /\ Gone(t) /\ ClearOwnershipFor(t)
  BY <1>1, <1>2 DEF RetryCleanup, PageFits, Page
<1>4. page' = [page EXCEPT !.cleanup = NoTraining]
      /\ UNCHANGED <<serverVars, mode, storage, given, spent, calls>>
  BY DEF RetryCleanup
<1>5. /\ page' \in Page /\ page'.mine = page.mine /\ page'.screen = page.screen
      /\ page'.dirty = page.dirty /\ page'.overtaken = page.overtaken /\ page'.cleanup = NoTraining
      /\ page'.media = page.media /\ page'.started = page.started /\ page'.notice = page.notice
      /\ page'.blocked = page.blocked
  BY <1>1, <1>4 DEF Page
<1>6. PageFits'
  BY <1>4, <1>5 DEF PageFits, Made, Gone, serverVars
<1>7. Expected(page', calls')
  BY <1>4, <1>5 DEF Expected, Awaits, Apart
<1>8. Listening(page', calls')
  BY <1>4, <1>5 DEF Listening
<1>9. \A d \in calls' : Fits(d.kind, d.of, d.reply) /\ d \in calls
  BY <1>4 DEF CallsFit
<1>10. calls' \subseteq Call
  BY <1>1, <1>4
<1> QED BY <1>3, <1>4, <1>5, <1>6, <1>7, <1>8, <1>9, <1>10, DeletionKeeps

LEMMA DeleteAnswersKeep ==
  ASSUME FlowInv, NEW c \in calls, c.kind = "delete", Heeded(c), DeleteAnswered(c),
         UNCHANGED <<serverVars, mode, storage, given, spent>>
  PROVE  FlowInv'
<1> USE DEF FlowInv
<1>1. page \in Page /\ mode \in {"free", "verified"} /\ calls \in SUBSET Call
  BY PageIsTyped
<1>2. PICK cs : cs = calls \ {c}
  OBVIOUS
<1>3. /\ cs \in SUBSET Call /\ Expected(page, cs) /\ c \in Call
      /\ \A d \in cs : Fits(d.kind, d.of, d.reply) /\ d \in calls /\ d # c
      /\ Fits(c.kind, c.of, c.reply) /\ c.reply \in Answer /\ c.of \in Nat
  BY <1>2, OneLess
<1>4. c.of \in Trainings /\ (Succeeded(c) => Gone(c.of))
  BY <1>3 DEF Fits, OfTraining, Succeeded
<1>5. page.screen = "deleting" /\ c.of = page.mine /\ mode = "free" /\ page.mine # NoTraining
      /\ ~page.dirty /\ page.cleanup = NoTraining /\ ~page.overtaken
  BY <1>1 DEF Expected, Awaits, PageFits
<1>6. \A d \in cs : Heeded(d) => d.kind \notin {"create", "recover", "issue", "ready", "delete", "reconcile"}
  <2>1. ASSUME NEW d \in cs, Heeded(d) PROVE Awaits(page, d) /\ Apart(page, c, d) /\ d # c
    BY <1>3, <2>1 DEF Expected
  <2> QED BY <1>5, <2>1 DEF Awaits, Apart
<1>7. ASSUME NEW p \in Page PROVE Expected(p, cs)
  <2>1. \A d \in cs : Heeded(d) => Awaits(p, d)
    BY <1>6 DEF Awaits
  <2>2. \A d, e \in cs : Heeded(d) /\ Heeded(e) => Apart(p, d, e)
    BY <1>3, <1>6 DEF Expected, Apart
  <2> QED BY <1>3, <2>1, <2>2 DEF Expected
<1>8. CASE ~Succeeded(c)
  <2>1. PICK p : p = [page EXCEPT !.screen = "terminal", !.notice = TRUE]
    OBVIOUS
  <2>2. /\ p \in Page /\ p.mine = page.mine /\ p.screen = "terminal" /\ p.dirty = page.dirty
        /\ p.overtaken = page.overtaken /\ p.cleanup = page.cleanup
    BY <1>1, <2>1 DEF Page, Screens
  <2>3. Show(p, cs) /\ UNCHANGED <<owner, intent>>
    BY <1>2, <1>8, <2>1 DEF DeleteAnswered
  <2>4. page' = p => PageFits'
    BY <1>5, <2>2 DEF PageFits, Made, serverVars
  <2> QED BY <1>3, <1>7, <2>2, <2>3, <2>4, AnswerShows
<1>9. CASE Succeeded(c)
  <2>1. PICK p : p = IF Healthy THEN FreshPage("away") ELSE MustClean(FreshPage("creating"))
    OBVIOUS
  <2>2. Show(p, cs) /\ ClearOwnershipFor(c.of)
    BY <1>2, <1>9, <2>1 DEF DeleteAnswered
  <2>3. /\ p \in Page /\ p.mine = NoTraining /\ p.overtaken = FALSE /\ p.cleanup = NoTraining
        /\ p.media = FALSE /\ p.screen \in {"away", "creating"}
        /\ p.dirty => p.screen = "creating" /\ p.blocked /\ p.notice
    <3>1. "away" \in Screens /\ "creating" \in Screens
      BY DEF Screens
    <3>2. CASE Healthy
      BY <2>1, <3>1, <3>2, FreshPages
    <3>3. CASE ~Healthy
      <4>1. PICK f \in Page :
              /\ f = FreshPage("creating") /\ f.screen = "creating" /\ f.mine = NoTraining
              /\ f.cleanup = NoTraining /\ f.media = FALSE /\ f.overtaken = FALSE
        BY <3>1, FreshPages
      <4>2. p = [f EXCEPT !.started = FALSE, !.notice = TRUE, !.blocked = TRUE, !.dirty = TRUE]
        BY <2>1, <3>3, <4>1 DEF MustClean, Blocked, Halted, Page
      <4> QED BY <4>1, <4>2 DEF Page
    <3> QED BY <3>2, <3>3
  <2>4. /\ page' = p /\ calls' \subseteq Call /\ Kept(cs, calls')
        /\ Expected(p, calls') /\ Listening(p, calls')
    BY <1>3, <1>7, <2>2, <2>3, ShowListens
  <2>5. PageFits'
    BY <1>5, <2>3, <2>4 DEF PageFits
  <2>6. \A d \in calls' : /\ Fits(d.kind, d.of, d.reply)
                          /\ Heeded(d) => d \in calls
    BY <1>3, <2>4 DEF Kept, Weaker
  <2>7. OwnsIntent(c.of)
    BY <1>5 DEF OwnerIsKept
  <2> QED BY <1>4, <1>9, <2>2, <2>3, <2>4, <2>5, <2>6, <2>7, DeletionKeeps
<1> QED BY <1>8, <1>9

LEMMA Cleanings ==
  ASSUME NEW p \in Page
  PROVE  /\ Halted(p) = [p EXCEPT !.started = FALSE, !.notice = TRUE, !.blocked = p.blocked,
                                  !.dirty = p.dirty]
         /\ Blocked(p) = [p EXCEPT !.started = FALSE, !.notice = TRUE, !.blocked = TRUE,
                                   !.dirty = p.dirty]
         /\ MustClean(p) = [p EXCEPT !.started = FALSE, !.notice = TRUE, !.blocked = TRUE,
                                     !.dirty = TRUE]
         /\ p.blocked \in BOOLEAN /\ p.dirty \in BOOLEAN
<1>1. Halted(p) = [p EXCEPT !.started = FALSE, !.notice = TRUE, !.blocked = p.blocked,
                            !.dirty = p.dirty]
  BY DEF Halted, Page
<1>2. Blocked(p) = [p EXCEPT !.started = FALSE, !.notice = TRUE, !.blocked = TRUE,
                             !.dirty = p.dirty]
  BY DEF Blocked, Halted, Page
<1>3. MustClean(p) = [p EXCEPT !.started = FALSE, !.notice = TRUE, !.blocked = TRUE, !.dirty = TRUE]
  BY DEF MustClean, Blocked, Halted, Page
<1>4. p.blocked \in BOOLEAN
  BY DEF Page
<1>5. p.dirty \in BOOLEAN
  BY DEF Page
<1> QED BY <1>1, <1>2, <1>3, <1>4, <1>5

(* Another training: the athlete leaves this one.                          *)
LEMMA ResetKeeps ==
  ASSUME FlowInv, Reset PROVE FlowInv'
<1> USE DEF FlowInv
<1>1. page \in Page /\ mode \in {"free", "verified"} /\ calls \in SUBSET Call
  BY PageIsTyped
<1>2. UNCHANGED <<serverVars, mode, storage, spent>> /\ given' = given \cup {origin[page.mine]}
  BY DEF Reset
<1>3. page.mine # NoTraining /\ page.mine \in Trainings /\ Made(page.mine)
  <2>1. page.mine # NoTraining
    BY DEF Reset, PageFits
  <2>2. page.mine \in Trainings \cup {NoTraining}
    BY <1>1 DEF Page
  <2> QED BY <2>1, <2>2 DEF PageFits
<1>4. PICK p : p = IF mode = "free" /\ ~Healthy THEN MustClean(FreshPage(Beginning))
                   ELSE FreshPage(Beginning)
  OBVIOUS
<1>5. PICK others : others = {"create", "recover", "delete", "poll"}
  OBVIOUS
<1>6. PICK base : base = Abort(calls, others)
  OBVIOUS
<1>7. PICK cs : cs = NewGeneration(base)
  OBVIOUS
<1>8. Show(p, cs)
  BY <1>4, <1>5, <1>6, <1>7 DEF Reset
<1>9. /\ p \in Page /\ p.mine = NoTraining /\ p.overtaken = FALSE /\ p.cleanup = NoTraining
      /\ p.media = FALSE /\ p.screen = Beginning
      /\ p.dirty => mode = "free" /\ ~Healthy /\ p.blocked /\ p.notice
  <2>1. PICK f \in Page :
          /\ f = FreshPage(Beginning) /\ f.screen = Beginning /\ f.mine = NoTraining
          /\ f.cleanup = NoTraining /\ f.media = FALSE /\ f.overtaken = FALSE /\ f.dirty = FALSE
    <3>1. Beginning \in Screens
      BY DEF Beginning, Screens
    <3> QED BY <3>1, FreshPages
  <2>2. CASE mode = "free" /\ ~Healthy
    <3>1. p = [f EXCEPT !.started = FALSE, !.notice = TRUE, !.blocked = TRUE, !.dirty = TRUE]
      BY <1>4, <2>1, <2>2, Cleanings
    <3>2. /\ p \in Page /\ p.screen = f.screen /\ p.mine = f.mine /\ p.media = f.media
          /\ p.overtaken = f.overtaken /\ p.cleanup = f.cleanup /\ p.notice = TRUE
          /\ p.blocked = TRUE
      BY <2>1, <3>1 DEF Page
    <3> QED BY <2>1, <2>2, <3>2
  <2>3. CASE ~(mode = "free" /\ ~Healthy)
    BY <1>4, <2>1, <2>3
  <2> QED BY <2>2, <2>3
<1>10. /\ cs \in SUBSET Call /\ Expected(p, cs)
       /\ \A d \in cs : Fits(d.kind, d.of, d.reply) /\ ~Heeded(d)
  <2>1. FlowTypes /\ Expected(page, calls) /\ \A d \in calls : Fits(d.kind, d.of, d.reply)
    BY DEF CallsFit
  <2> HIDE DEF FlowInv
  <2>2. /\ base \in SUBSET Call /\ Expected(page, base)
        /\ \A d \in base : Fits(d.kind, d.of, d.reply)
    BY <1>1, <1>6, <2>1, AbortFits
  <2>3. OneReconcile(base)
    BY <2>2 DEF Expected
  <2>4. cs \in SUBSET Call /\ Kept(base, cs) /\ (\A d \in cs : ~Heeded(d)) /\ OneReconcile(cs)
    BY <1>7, <2>2, <2>3, GenerationPasses, GenerationKeepsOne
  <2>5. \A d \in cs : Fits(d.kind, d.of, d.reply)
    BY <2>2, <2>4 DEF Kept, Weaker
  <2> QED BY <2>4, <2>5 DEF Expected
<1>11. /\ page' = p /\ calls' \subseteq Call /\ Kept(cs, calls')
       /\ Expected(p, calls') /\ Listening(p, calls')
  BY <1>8, <1>9, <1>10, ShowListens
<1>12. \A d \in calls' : Fits(d.kind, d.of, d.reply) /\ ~Heeded(d)
  BY <1>10, <1>11 DEF Kept, Weaker
<1>13. \A d \in calls' : Fits(d.kind, d.of, d.reply)'
  <2>1. spent'.keys \in Nat /\ spent.keys <= spent'.keys
    BY <1>2 DEF FlowTypes
  <2> QED BY <1>2, <1>11, <1>12, <2>1, FitsMove
<1>14. PageFits'
  BY <1>1, <1>2, <1>9, <1>11 DEF PageFits, Beginning
<1>15. /\ owner' \in {owner, NoTraining} /\ intent' \in {intent, NoOrigin}
       /\ mode = "free" /\ Removable => owner' = NoTraining /\ intent' = NoOrigin
       /\ ~Removable \/ mode # "free" => UNCHANGED <<owner, intent>>
  BY DEF Reset, ClearOwnership
<1>16. mode = "free" => intent = NoOrigin \/ intent \in given'
  BY <1>2, <1>3 DEF OwnerIsKept, OwnsIntent
<1>17. KeysAreKept'
  BY <1>2, <1>15, <1>16, ForgottenKeys
<1>18. /\ storage' \in {"ok", "full", "gone"} /\ owner' \in Trainings \cup {NoTraining}
       /\ intent' \in Origins \cup {NoOrigin}
       /\ spent' \in [uploads : Nat, visits : Nat, keys : Nat]
  BY <1>2, <1>15 DEF FlowTypes
<1>19. mode = "free" =>
           /\ owner' # NoTraining => Made(owner') /\ OwnsIntent(owner)'
           /\ page'.dirty => intent' = NoOrigin \/ Settled(intent)'
  <2> SUFFICES ASSUME mode = "free"
               PROVE  /\ owner' # NoTraining => Made(owner') /\ OwnsIntent(owner)'
                      /\ intent' = NoOrigin \/ Settled(intent)'
    OBVIOUS
  <2>1. CASE Removable
    BY <1>15, <2>1
  <2>2. CASE ~Removable
    <3>1. UNCHANGED <<owner, intent>>
      BY <1>15, <2>2
    <3> QED BY <1>2, <1>16, <3>1 DEF OwnerIsKept, OwnsIntent, Settled, Gone, serverVars
  <2> QED BY <2>1, <2>2
<1> QED BY <1>2, <1>9, <1>11, <1>12, <1>13, <1>14, <1>17, <1>18, <1>19, TabKeeps

(* The button of a creating screen with a message.                         *)
LEMMA TryAgainKeeps ==
  ASSUME FlowInv, TryAgain PROVE FlowInv'
<1> USE DEF FlowInv
<1>1. page \in Page /\ mode \in {"free", "verified"} /\ calls \in SUBSET Call
  BY PageIsTyped
<1>2. UNCHANGED <<serverVars, mode, storage, spent, calls, given>>
      /\ page.screen = "creating" /\ page.notice
  BY DEF TryAgain
<1>3. page.mine = NoTraining /\ ~page.media /\ page.cleanup = NoTraining /\ mode = "free" /\ ~page.overtaken
  BY <1>1, <1>2 DEF PageFits
<1>4. \/ page' = page /\ page.dirty /\ ~Healthy
      \/ page' = [page EXCEPT !.dirty = FALSE, !.blocked = FALSE, !.started = FALSE, !.notice = FALSE]
  BY DEF TryAgain
<1>5. /\ page' \in Page /\ page'.screen = "creating" /\ page'.mine = NoTraining
      /\ page'.media = page.media /\ page'.cleanup = NoTraining /\ page'.overtaken = page.overtaken
      /\ page'.dirty =>
           page.dirty /\ page'.blocked = page.blocked /\ page'.notice = page.notice
  <2>1. CASE page' = page
    BY <1>1, <1>2, <1>3, <2>1
  <2>2. CASE page' = [page EXCEPT !.dirty = FALSE, !.blocked = FALSE, !.started = FALSE, !.notice = FALSE]
    BY <1>1, <1>2, <1>3, <2>2 DEF Page
  <2> QED BY <1>4, <2>1, <2>2
<1>6. \A d \in calls : Heeded(d) =>
        d.kind \notin {"create", "recover", "issue", "ready", "delete", "reconcile"}
  BY <1>2 DEF Expected, Awaits
<1>7. Expected(page', calls')
  <2>1. \A d \in calls : Heeded(d) => Awaits(page', d)
    BY <1>6 DEF Awaits
  <2>2. \A d, e \in calls : Heeded(d) /\ Heeded(e) => Apart(page', d, e)
    BY <1>6 DEF Expected, Apart
  <2> QED BY <1>2, <2>1, <2>2 DEF Expected
<1>8. Listening(page', calls')
  BY <1>2, <1>5 DEF Listening
<1>9. PageFits'
  BY <1>2, <1>3, <1>5 DEF PageFits
<1>10. \/ UNCHANGED <<owner, intent>>
       \/ page.dirty /\ owner' = NoTraining /\ intent' = NoOrigin
  BY DEF TryAgain, ClearOwnership
<1>11. \A d \in calls' : Fits(d.kind, d.of, d.reply)
  BY <1>2 DEF CallsFit
<1>12. page.dirty => intent = NoOrigin \/ Settled(intent)
  BY <1>3 DEF OwnerIsKept
<1>13. storage' \in {"ok", "full", "gone"} /\ owner' \in Trainings \cup {NoTraining}
       /\ intent' \in Origins \cup {NoOrigin}
       /\ spent' \in [uploads : Nat, visits : Nat, keys : Nat]
  BY <1>2, <1>10 DEF FlowTypes
<1>14. CASE UNCHANGED <<owner, intent>>
  <2>1. mode = "free" =>
           /\ owner' # NoTraining => Made(owner') /\ OwnsIntent(owner')
           /\ page'.mine # NoTraining => OwnsIntent(page'.mine)
           /\ \A d \in calls' : Heeded(d) =>
                /\ d.kind = "create" => d.of = intent /\ owner' = NoTraining
                /\ d.kind = "recover" => OwnsIntent(d.of)
           /\ page'.dirty => intent = NoOrigin \/ Settled(intent)
    BY <1>2, <1>5, <1>6, <1>12, <1>14 DEF OwnerIsKept
  <2>2. calls' \subseteq Call
    BY <1>1, <1>2
  <2> QED BY <1>2, <1>5, <1>7, <1>8, <1>9, <1>11, <1>13, <1>14, <2>1, <2>2, PageKeeps
<1>15. CASE page.dirty /\ owner' = NoTraining /\ intent' = NoOrigin
  <2>1. KeysAreKept'
    BY <1>2, <1>12, <1>15, ForgottenKeys
  <2>2. \A d \in calls' : Fits(d.kind, d.of, d.reply)'
    <3>1. spent'.keys \in Nat /\ spent.keys <= spent'.keys
      BY <1>2 DEF FlowTypes
    <3> QED BY <1>1, <1>2, <1>11, <3>1, FitsMove
  <2>3. \A d \in calls' : Heeded(d) => IsOwners(d)'
    BY <1>2, <1>6 DEF IsOwners
  <2>4. calls' \subseteq Call
    BY <1>1, <1>2
  <2> QED BY <1>2, <1>5, <1>7, <1>8, <1>9, <1>13, <1>15, <2>1, <2>2, <2>3, <2>4, TabKeeps
<1> QED BY <1>10, <1>14, <1>15

(* The creating screen, and the request it waits for.                      *)
LEMMA CreatingPage ==
  ASSUME FlowInv, page.screen = "creating"
  PROVE  /\ page \in Page /\ mode = "free" /\ page.mine = NoTraining /\ page.media = FALSE
         /\ page.cleanup = NoTraining /\ page.overtaken = FALSE
         /\ page.dirty => page.blocked /\ page.notice
         /\ \A d \in calls : Heeded(d) => d.kind \notin {"issue", "ready", "delete", "reconcile"}
<1>1. page \in Page /\ mode \in {"free", "verified"} /\ calls \in SUBSET Call
  BY PageIsTyped
<1>2. page.media \in BOOLEAN /\ page.overtaken \in BOOLEAN
  BY <1>1 DEF Page
<1>3. mode = "free" /\ page.mine = NoTraining /\ ~page.media /\ page.cleanup = NoTraining /\ ~page.overtaken
      /\ (page.dirty => page.blocked /\ page.notice)
  BY <1>1 DEF FlowInv, PageFits
<1>4. \A d \in calls : Heeded(d) => d.kind \notin {"issue", "ready", "delete", "reconcile"}
  BY DEF FlowInv, Expected, Awaits
<1> QED BY <1>1, <1>2, <1>3, <1>4

LEMMA Created ==
  ASSUME FlowInv, NEW c \in calls, Heeded(c), c.kind \in {"create", "recover"},
         NEW cs, cs = calls \ {c}
  PROVE  /\ page.screen = "creating" /\ page.started /\ ~page.notice /\ ~page.dirty
         /\ c.kind = "create" => c.of = intent /\ owner = NoTraining
         /\ c.kind = "recover" => OwnsIntent(c.of) /\ c.of \in Trainings /\ Made(c.of)
         /\ \A d \in cs : Heeded(d) =>
              d.kind \notin {"create", "recover", "issue", "ready", "delete", "reconcile"}
         /\ \A p \in Page : Expected(p, cs)
<1> USE DEF FlowInv
<1>1. page.screen = "creating" /\ page.started /\ ~page.notice
  BY DEF Expected, Awaits
<1>2. mode = "free" /\ ~page.dirty
        /\ \A d \in calls : Heeded(d) => d.kind \notin {"issue", "ready", "delete", "reconcile"}
  BY <1>1, CreatingPage
<1>3. \A d \in cs : Heeded(d) =>
              d.kind \notin {"create", "recover", "issue", "ready", "delete", "reconcile"}
  BY <1>2 DEF Expected, Apart
<1>4. /\ cs \in SUBSET Call /\ Expected(page, cs) /\ Fits(c.kind, c.of, c.reply)
  BY OneLess
<1>5. ASSUME NEW p \in Page PROVE Expected(p, cs)
  <2>1. \A d \in cs : Heeded(d) => Awaits(p, d)
    BY <1>3 DEF Awaits
  <2>2. \A d, e \in cs : Heeded(d) /\ Heeded(e) => Apart(p, d, e)
    BY <1>3, <1>4 DEF Expected, Apart
  <2> QED BY <1>4, <2>1, <2>2 DEF Expected
<1>6. /\ c.kind = "create" => c.of = intent /\ owner = NoTraining
      /\ c.kind = "recover" => OwnsIntent(c.of) /\ c.of \in Trainings /\ Made(c.of)
  BY <1>2, <1>4 DEF OwnerIsKept, Fits, OfTraining
<1> QED BY <1>1, <1>2, <1>3, <1>5, <1>6

(* adopt: the training of the answer is that of the stored key.            *)
LEMMA AdoptKeeps ==
  ASSUME FlowInv, NEW c \in calls, Heeded(c), c.kind \in {"create", "recover"},
         Succeeded(c), Adopt(c), UNCHANGED <<serverVars, mode, storage, given>>
  PROVE  FlowInv'
<1> USE DEF FlowInv
<1>1. PICK cs : cs = calls \ {c}
  OBVIOUS
<1>2. /\ page.screen = "creating" /\ ~page.dirty
      /\ c.kind = "create" => c.of = intent /\ owner = NoTraining
      /\ c.kind = "recover" => OwnsIntent(c.of) /\ c.of \in Trainings /\ Made(c.of)
      /\ \A d \in cs : Heeded(d) => d.kind \notin {"create", "recover"}
      /\ \A p \in Page : Expected(p, cs)
  BY <1>1, Created
<1>3. /\ page \in Page /\ mode = "free" /\ page.cleanup = NoTraining /\ page.overtaken = FALSE
  BY <1>2, CreatingPage
<1>4. /\ cs \in SUBSET Call /\ Fits(c.kind, c.of, c.reply)
      /\ \A d \in cs : Fits(d.kind, d.of, d.reply)
  BY <1>1, OneLess
<1>5. PICK t \in Trainings : t = c.reply.training /\ Made(t) /\ OwnsIntent(t) /\ t # NoTraining
  <2>1. CASE c.kind = "create"
    BY <1>2, <1>4, <2>1, ServerAssumption DEF Fits, Succeeded, OwnsIntent
  <2>2. CASE c.kind = "recover"
    BY <1>2, <1>4, <2>2, ServerAssumption DEF Fits, Succeeded
  <2> QED BY <2>1, <2>2
<1>6. c.reply.shown \in Outcomes
  BY <1>4 DEF Fits, Succeeded
<1>7. PICK q : q = [page EXCEPT !.mine = t]
  OBVIOUS
<1>8. /\ q \in Page /\ q.mine = t /\ q.overtaken = FALSE /\ q.cleanup = NoTraining
      /\ q.dirty = page.dirty
  BY <1>3, <1>7 DEF Page
<1>9. PICK p : p = Applied(q, c.reply.shown)
  OBVIOUS
<1>10. /\ p \in Page /\ p.mine = t /\ p.overtaken = FALSE /\ p.cleanup = NoTraining
       /\ p.dirty = page.dirty /\ p.screen \in {"capture", "pending", "terminal"}
  BY <1>6, <1>8, <1>9, AppliedPages
<1>11. /\ Show(p, cs) /\ UNCHANGED <<intent, spent>>
       /\ owner' \in {owner, t}
  BY <1>1, <1>5, <1>7, <1>9 DEF Adopt, PersistOwner
<1>12. page' = p => PageFits'
  BY <1>2, <1>3, <1>5, <1>10 DEF PageFits, Made, serverVars
<1>13. /\ owner' \in Trainings \cup {NoTraining}
       /\ spent' \in [uploads : Nat, visits : Nat, keys : Nat]
  BY <1>11 DEF FlowTypes
<1>14. /\ owner' # NoTraining => Made(owner') /\ OwnsIntent(owner')
       /\ p.mine # NoTraining => OwnsIntent(p.mine)
       /\ p.dirty => intent = NoOrigin \/ Settled(intent)
  BY <1>2, <1>3, <1>5, <1>10, <1>11 DEF OwnerIsKept
<1>15. Expected(p, cs)
  BY <1>2, <1>10
<1> QED BY <1>2, <1>4, <1>10, <1>11, <1>12, <1>13, <1>14, <1>15, ShowKeeps

(* An error, or an answer without what the stored training is.             *)
LEMMA HaltKeeps ==
  ASSUME FlowInv, NEW c \in calls, Heeded(c), c.kind \in {"create", "recover"},
         UNCHANGED <<serverVars, mode, storage, given, owner, intent, spent>>,
         \/ Show(Halted(page), calls \ {c})
         \/ Show(MustClean(page), calls \ {c}) /\ (intent = NoOrigin \/ Settled(intent))
  PROVE  FlowInv'
<1> USE DEF FlowInv
<1>1. PICK cs : cs = calls \ {c}
  OBVIOUS
<1>2. /\ page.screen = "creating" /\ ~page.dirty
      /\ \A d \in cs : Heeded(d) => d.kind \notin {"create", "recover"}
      /\ \A p \in Page : Expected(p, cs)
  BY <1>1, Created
<1>3. /\ page \in Page /\ mode = "free" /\ page.mine = NoTraining /\ page.media = FALSE
      /\ page.cleanup = NoTraining /\ page.overtaken = FALSE
  BY <1>2, CreatingPage
<1>4. /\ cs \in SUBSET Call /\ \A d \in cs : Fits(d.kind, d.of, d.reply)
  BY <1>1, OneLess
<1>5. PICK blocked \in BOOLEAN, dirty \in BOOLEAN, p \in Page :
        /\ p = [page EXCEPT !.started = FALSE, !.notice = TRUE, !.blocked = blocked, !.dirty = dirty]
        /\ Show(p, cs)
        /\ dirty => blocked /\ (intent = NoOrigin \/ Settled(intent))
  <2>1. CASE Show(Halted(page), cs)
    <3>1. /\ Halted(page) = [page EXCEPT !.started = FALSE, !.notice = TRUE,
                                         !.blocked = page.blocked, !.dirty = page.dirty]
          /\ page.blocked \in BOOLEAN /\ page.dirty \in BOOLEAN
      BY <1>3, Cleanings
    <3>2. Halted(page) \in Page
      BY <1>3, <3>1 DEF Page
    <3> QED BY <1>2, <2>1, <3>1, <3>2
  <2>2. CASE Show(MustClean(page), cs) /\ (intent = NoOrigin \/ Settled(intent))
    <3>1. MustClean(page) = [page EXCEPT !.started = FALSE, !.notice = TRUE,
                                         !.blocked = TRUE, !.dirty = TRUE]
      BY <1>3, Cleanings
    <3>2. MustClean(page) \in Page
      BY <1>3, <3>1 DEF Page
    <3> QED BY <2>2, <3>1, <3>2
  <2> QED BY <1>1, <2>1, <2>2
<1>6. /\ p.screen = "creating" /\ p.mine = NoTraining /\ p.media = FALSE
      /\ p.cleanup = NoTraining /\ p.overtaken = FALSE /\ p.notice = TRUE
      /\ p.blocked = blocked /\ p.dirty = dirty
  BY <1>2, <1>3, <1>5 DEF Page
<1>7. page' = p => PageFits'
  BY <1>3, <1>5, <1>6 DEF PageFits
<1>8. /\ owner' \in Trainings \cup {NoTraining}
      /\ spent' \in [uploads : Nat, visits : Nat, keys : Nat]
  BY DEF FlowTypes
<1>9. /\ owner' # NoTraining => Made(owner') /\ OwnsIntent(owner')
      /\ p.dirty => intent = NoOrigin \/ Settled(intent)
  BY <1>3, <1>5, <1>6 DEF OwnerIsKept
<1> QED BY <1>2, <1>4, <1>5, <1>6, <1>7, <1>8, <1>9, ShowKeeps

(* The training of the stored key is deleted: the key is forgotten.        *)
LEMMA UnknownKeeps ==
  ASSUME FlowInv, NEW c \in calls, Heeded(c), c.kind = "create",
         c.reply.code = "not-found", CreateAnswered(c),
         UNCHANGED <<serverVars, mode, storage, given>>
  PROVE  FlowInv'
<1> USE DEF FlowInv
<1>1. PICK cs : cs = calls \ {c}
  OBVIOUS
<1>2. /\ page.screen = "creating" /\ ~page.dirty
      /\ c.of = intent /\ owner = NoTraining
      /\ \A d \in cs : Heeded(d) => d.kind \notin {"create", "recover"}
      /\ \A p \in Page : Expected(p, cs)
  BY <1>1, Created
<1>3. /\ page \in Page /\ mode = "free" /\ page.mine = NoTraining /\ page.media = FALSE
      /\ page.cleanup = NoTraining /\ page.overtaken = FALSE
  BY <1>2, CreatingPage
<1>4. /\ cs \in SUBSET Call /\ Fits(c.kind, c.of, c.reply)
      /\ \A d \in cs : Fits(d.kind, d.of, d.reply)
  BY <1>1, OneLess
<1>5. PICK t \in Trainings : origin[t] = intent /\ Gone(t)
  BY <1>2, <1>3, <1>4 DEF Fits
<1>6. Settled(intent)
  BY <1>5 DEF Settled
<1>7. PICK p : p = IF Healthy THEN [Blocked(page) EXCEPT !.dirty = FALSE] ELSE MustClean(page)
  OBVIOUS
<1>8. ClearOwnership /\ spent' = spent /\ Show(p, cs)
  BY <1>1, <1>7 DEF CreateAnswered, Succeeded
<1>9. PICK dirty \in BOOLEAN :
        p = [page EXCEPT !.started = FALSE, !.notice = TRUE, !.blocked = TRUE, !.dirty = dirty]
  <2>1. CASE Healthy
    <3>1. Blocked(page) = [page EXCEPT !.started = FALSE, !.notice = TRUE, !.blocked = TRUE,
                                       !.dirty = page.dirty]
      BY <1>3, Cleanings
    <3>2. p = [page EXCEPT !.started = FALSE, !.notice = TRUE, !.blocked = TRUE, !.dirty = FALSE]
      BY <1>3, <1>7, <2>1, <3>1 DEF Page
    <3> QED BY <3>2
  <2>2. CASE ~Healthy
    BY <1>3, <1>7, <2>2, Cleanings
  <2> QED BY <2>1, <2>2
<1>10. /\ p \in Page /\ p.screen = "creating" /\ p.mine = NoTraining /\ p.media = FALSE
       /\ p.cleanup = NoTraining /\ p.overtaken = FALSE /\ p.notice = TRUE
       /\ p.blocked = TRUE
  BY <1>2, <1>3, <1>9 DEF Page
<1>11. /\ page' = p /\ calls' \subseteq Call /\ Kept(cs, calls')
       /\ Expected(p, calls') /\ Listening(p, calls')
  BY <1>2, <1>4, <1>8, <1>10, ShowListens
<1>12. PageFits'
  BY <1>3, <1>10, <1>11 DEF PageFits
<1>13. owner' = NoTraining /\ intent' \in {intent, NoOrigin}
  BY <1>2, <1>8 DEF ClearOwnership
<1>14. KeysAreKept'
  BY <1>6, <1>8, <1>13, ForgottenKeys
<1>15. \A d \in calls' : Fits(d.kind, d.of, d.reply) /\ (Heeded(d) => d \in cs)
  BY <1>4, <1>11 DEF Kept, Weaker
<1>16. \A d \in calls' : Fits(d.kind, d.of, d.reply)'
  <2>1. spent'.keys \in Nat /\ spent.keys <= spent'.keys
    BY <1>8 DEF FlowTypes
  <2> QED BY <1>11, <1>15, <2>1, FitsMove
<1>17. \A d \in calls' : Heeded(d) => IsOwners(d)'
  BY <1>2, <1>15 DEF IsOwners
<1>18. intent' = NoOrigin \/ Settled(intent)'
  BY <1>5, <1>13 DEF Settled, Gone, serverVars
<1>19. /\ storage' \in {"ok", "full", "gone"} /\ owner' \in Trainings \cup {NoTraining}
       /\ intent' \in Origins \cup {NoOrigin}
       /\ spent' \in [uploads : Nat, visits : Nat, keys : Nat]
  BY <1>8, <1>13 DEF FlowTypes
<1> QED BY <1>10, <1>11, <1>12, <1>13, <1>14, <1>16, <1>17, <1>18, <1>19, TabKeeps

(* create: with the stored key, or with a new one when nothing is to come  *)
(* of the stored one.                                                      *)
LEMMA BeginKeeps ==
  ASSUME FlowInv, UNCHANGED <<serverVars, mode, storage, given>>, page.screen = "creating",
         NEW p \in Page, p.screen = "creating", p.mine = NoTraining, p.media = FALSE,
         p.cleanup = NoTraining, p.overtaken = FALSE, p.started, ~p.notice, ~p.dirty,
         NEW cs \in SUBSET Call, \A d \in cs : Fits(d.kind, d.of, d.reply),
         \A q \in Page : Expected(q, cs),
         \A d \in cs : Heeded(d) => d.kind \notin {"create", "recover"},
         NEW stored \in {{}, StoredIntent},
         stored = {} => intent = NoOrigin \/ Settled(intent),
         BeginCreate(p, stored, cs),
         owner' \in {owner, NoTraining}, Healthy => owner' = NoTraining
  PROVE  FlowInv'
<1> USE DEF FlowInv
<1>1. mode = "free"
  BY CreatingPage
<1>2. owner' \in Trainings \cup {NoTraining} /\ (owner' # NoTraining => Made(owner') /\ OwnsIntent(owner'))
  BY <1>1 DEF FlowTypes, OwnerIsKept
<1>3. CASE ~Healthy
  <2>1. Show(Blocked(p), cs) /\ UNCHANGED <<intent, spent>>
    BY <1>3 DEF BeginCreate
  <2>2. Blocked(p) = [p EXCEPT !.started = FALSE, !.notice = TRUE, !.blocked = TRUE,
                               !.dirty = p.dirty]
    BY Cleanings
  <2>3. PICK q : q = Blocked(p)
    OBVIOUS
  <2>4. /\ q \in Page /\ q.screen = "creating" /\ q.mine = NoTraining /\ q.media = FALSE
        /\ q.cleanup = NoTraining /\ q.overtaken = FALSE /\ q.dirty = p.dirty
    BY <2>2, <2>3 DEF Page
  <2>5. page' = q => PageFits'
    BY <1>1, <2>4 DEF PageFits
  <2>6. spent' \in [uploads : Nat, visits : Nat, keys : Nat]
    BY <2>1 DEF FlowTypes
  <2> QED BY <1>2, <2>1, <2>3, <2>4, <2>5, <2>6, ShowKeeps
<1>4. CASE Healthy
  <2>1. PICK key \in IF stored # {} THEN stored ELSE {spent.keys + 1} \cap Origins :
          /\ intent' = key
          /\ spent' = [spent EXCEPT !.keys = IF key > @ THEN key ELSE @]
          /\ Show(p, cs \cup {Sent("create", key)})
    BY <1>4 DEF BeginCreate
  <2>2. owner' = NoTraining /\ NoOrigin \notin Origins /\ Origins \subseteq Nat
    BY <1>4, ServerAssumption
  <2>3. /\ spent \in [uploads : Nat, visits : Nat, keys : Nat] /\ spent.keys \in Nat
        /\ intent \in Origins \cup {NoOrigin} /\ intent <= spent.keys
    BY <1>1 DEF FlowTypes, KeysAreKept
  <2>4. \/ key = intent /\ key \in Origins /\ spent'.keys = spent.keys
        \/ /\ key = spent.keys + 1 /\ key \in Origins /\ spent'.keys = key
           /\ intent = NoOrigin \/ Settled(intent)
    <3>1. spent'.keys = IF key > spent.keys THEN key ELSE spent.keys
      BY <2>1, <2>3
    <3>2. CASE stored # {}
      <4>1. key = intent /\ key \in Origins
        BY <2>1, <2>3, <3>2 DEF StoredIntent
      <4>2. ~(key > spent.keys)
        <5>1. key \in Nat /\ key <= spent.keys /\ spent.keys \in Nat
          BY <2>2, <2>3, <4>1
        <5> HIDE DEF FlowInv
        <5> QED BY <5>1
      <4>3. spent'.keys = spent.keys
        BY <3>1, <4>2
      <4> QED BY <4>1, <4>3
    <3>3. CASE stored = {}
      <4>1. key = spent.keys + 1 /\ key \in Origins
        BY <2>1, <3>3
      <4>2. key > spent.keys
        BY <2>3, <4>1
      <4> QED BY <3>1, <3>3, <4>1, <4>2
    <3> QED BY <3>2, <3>3
  <2>5. /\ key \in Origins /\ key \in Nat /\ key <= spent'.keys /\ spent.keys <= spent'.keys
        /\ spent'.keys \in Nat
    BY <2>2, <2>3, <2>4
  <2>6. spent' \in [uploads : Nat, visits : Nat, keys : Nat]
    <3>1. PICK n \in Nat : spent' = [spent EXCEPT !.keys = n]
      BY <2>1, <2>3, <2>5
    <3> QED BY <2>3, <3>1
  <2>7. KeysAreKept'
    <3>1. \A k : Settled(k) => Settled(k)'
      BY DEF Settled, Gone, serverVars
    <3>2. /\ \A t \in Trainings : origin'[t] = NoOrigin <=> ~Made(t)'
          /\ \A t, u \in Trainings : Made(t)' /\ origin'[t] = origin'[u] => t = u
      BY <1>1 DEF KeysAreKept, Made, serverVars
    <3>3. \A t \in Trainings : origin'[t] \in Origins \cup {NoOrigin} /\ origin'[t] <= spent'.keys
      <4> SUFFICES ASSUME NEW t \in Trainings
                   PROVE  origin'[t] \in Origins \cup {NoOrigin} /\ origin'[t] <= spent'.keys
        OBVIOUS
      <4>1. /\ origin'[t] \in Origins \cup {NoOrigin} /\ origin'[t] <= spent.keys
            /\ origin'[t] \in Nat
        BY <1>1 DEF KeysAreKept, FlowTypes, serverVars
      <4> QED BY <2>3, <2>5, <4>1
    <3>4. ASSUME NEW k \in Origins, k <= spent'.keys PROVE k = intent' \/ Settled(k)'
      <4>1. k \in Nat /\ (k <= spent.keys => k = intent \/ Settled(k))
        BY <1>1, <2>2 DEF KeysAreKept
      <4>2. CASE key = intent /\ spent'.keys = spent.keys
        BY <2>1, <3>1, <3>4, <4>1, <4>2
      <4>3. CASE key = spent.keys + 1 /\ spent'.keys = key /\ (intent = NoOrigin \/ Settled(intent))
        <5>1. k = key \/ k <= spent.keys
          BY <2>3, <3>4, <4>1, <4>3
        <5> QED BY <2>1, <2>2, <3>1, <4>1, <4>3, <5>1
      <4> QED BY <2>4, <4>2, <4>3
    <3>5. intent' <= spent'.keys
      BY <2>1, <2>5
    <3> QED BY <3>2, <3>3, <3>4, <3>5 DEF KeysAreKept
  <2>8. PICK s : s = Sent("create", key)
    OBVIOUS
  <2>9. /\ s \in Call /\ s.kind = "create" /\ s.of = key /\ Heeded(s)
        /\ s.reply = [code |-> "none", training |-> 0, shown |-> "none"]
    BY <2>5, <2>8, SentIsACall DEF Kinds
  <2>10. Expected(p, cs \cup {s})
    <3>1. \A d \in cs : Heeded(d) => Apart(p, s, d) /\ Apart(p, d, s)
      BY <2>9 DEF Apart
    <3>2. Awaits(p, s) /\ Apart(p, s, s)
      BY <2>9 DEF Awaits, Apart
    <3> QED BY <2>9, <3>1, <3>2, OneMore
  <2>11. /\ page' = p /\ calls' \subseteq Call /\ Kept(cs \cup {s}, calls')
         /\ Expected(p, calls') /\ Listening(p, calls')
    BY <2>1, <2>8, <2>9, <2>10, ShowListens
  <2>12. PageFits'
    BY <1>1, <2>11 DEF PageFits
  <2>13. \A d \in cs : Fits(d.kind, d.of, d.reply)'
    BY <2>5, FitsMove DEF FlowTypes
  <2>14. Fits(s.kind, s.of, s.reply)'
    <3>1. s.reply.code = "none" /\ s.reply # Attaching /\ (s.reply = Attaching)' = (s.reply = Attaching)
      BY <2>9, Answers DEF Attaching, NoReply
    <3> QED BY <2>5, <2>9, <3>1 DEF Fits, OfTraining
  <2>15. \A d \in calls' : \E e \in cs \cup {s} :
           d.kind = e.kind /\ d.of = e.of /\ d.reply = e.reply /\ (Heeded(d) => d = e)
    BY <2>11 DEF Kept, Weaker
  <2>16. \A d \in calls' : Fits(d.kind, d.of, d.reply)'
    <3> SUFFICES ASSUME NEW d \in calls' PROVE Fits(d.kind, d.of, d.reply)'
      OBVIOUS
    <3>1. PICK e \in cs \cup {s} : d.kind = e.kind /\ d.of = e.of /\ d.reply = e.reply
      BY <2>15
    <3>2. Fits(e.kind, e.of, e.reply)'
      BY <2>13, <2>14
    <3> QED BY <3>1, <3>2
  <2>17. \A d \in calls' : Heeded(d) => IsOwners(d)'
    BY <2>1, <2>2, <2>9, <2>15 DEF IsOwners
  <2>18. storage' \in {"ok", "full", "gone"} /\ intent' \in Origins \cup {NoOrigin}
    BY <2>1, <2>5 DEF FlowTypes
  <2> QED BY <1>2, <2>2, <2>6, <2>7, <2>11, <2>12, <2>16, <2>17, <2>18, TabKeeps
<1> QED BY <1>3, <1>4

(* The free training screen asks for its training.                         *)
LEMMA CreateOrRecoverKeeps ==
  ASSUME FlowInv, CreateOrRecover PROVE FlowInv'
<1> USE DEF FlowInv
<1>1. /\ page.screen = "creating" /\ ~page.started /\ ~page.blocked /\ ~page.notice
      /\ UNCHANGED <<serverVars, mode, storage, owner, given>>
  BY DEF CreateOrRecover
<1>2. /\ page \in Page /\ mode = "free" /\ page.mine = NoTraining /\ page.media = FALSE
      /\ page.cleanup = NoTraining /\ page.overtaken = FALSE /\ ~page.dirty
      /\ \A d \in calls : Heeded(d) => d.kind \notin {"issue", "ready", "delete", "reconcile"}
  BY <1>1, CreatingPage
<1>3. PICK p : p = [page EXCEPT !.started = TRUE]
  OBVIOUS
<1>4. /\ p \in Page /\ p.screen = "creating" /\ p.mine = NoTraining /\ p.media = FALSE
      /\ p.cleanup = NoTraining /\ p.overtaken = FALSE /\ p.started
  BY <1>1, <1>2, <1>3 DEF Page
<1>5. ~p.notice /\ ~p.dirty
  BY <1>1, <1>2, <1>3 DEF Page
<1>6. \A d \in calls : Heeded(d) =>
        d.kind \notin {"create", "recover", "issue", "ready", "delete", "reconcile"}
  BY <1>1, <1>2 DEF Expected, Awaits
<1>7. calls \in SUBSET Call /\ \A d \in calls : Fits(d.kind, d.of, d.reply)
  BY DEF FlowTypes, CallsFit
<1>8. ASSUME NEW q \in Page PROVE Expected(q, calls)
  <2>1. \A d \in calls : Heeded(d) => Awaits(q, d)
    BY <1>6 DEF Awaits
  <2>2. \A d, e \in calls : Heeded(d) /\ Heeded(e) => Apart(q, d, e)
    BY <1>6 DEF Expected, Apart
  <2> QED BY <2>1, <2>2 DEF Expected
<1>9. CASE storage # "gone" /\ owner # NoTraining
  <2>1. PICK s : s = Sent("recover", owner)
    OBVIOUS
  <2>2. Show(p, calls \cup {s}) /\ UNCHANGED <<intent, spent>>
    BY <1>3, <1>9, <2>1 DEF CreateOrRecover
  <2>3. owner \in Trainings /\ Made(owner) /\ OwnsIntent(owner)
    BY <1>2, <1>9 DEF FlowTypes, OwnerIsKept
  <2>4. /\ s \in Call /\ s.kind = "recover" /\ s.of = owner /\ Heeded(s)
        /\ Fits(s.kind, s.of, s.reply)
    <3>1. owner \in Nat
      BY <2>3, ServerAssumption
    <3> QED BY <2>1, <2>3, <3>1, SentFits DEF Kinds, OfTraining
  <2>5. Expected(p, calls \cup {s})
    <3>1. Awaits(p, s) /\ Apart(p, s, s)
      BY <1>4, <1>5, <2>4 DEF Awaits, Apart
    <3>2. \A d \in calls : Heeded(d) => Apart(p, s, d) /\ Apart(p, d, s)
      BY <1>6, <2>4 DEF Apart
    <3> QED BY <1>4, <1>8, <2>4, <3>1, <3>2, OneMore
  <2>6. page' = p => PageFits'
    BY <1>1, <1>2, <1>4, <1>5 DEF PageFits
  <2>7. /\ owner' \in Trainings \cup {NoTraining}
        /\ spent' \in [uploads : Nat, visits : Nat, keys : Nat]
    BY <1>1, <2>2 DEF FlowTypes
  <2>8. calls \cup {s} \in SUBSET Call /\ \A d \in calls \cup {s} : Fits(d.kind, d.of, d.reply)
    BY <1>7, <2>4
  <2>9. /\ owner' # NoTraining => Made(owner') /\ OwnsIntent(owner')
        /\ \A d \in calls \cup {s} : Heeded(d) =>
             d.kind # "create" /\ (d.kind = "recover" => OwnsIntent(d.of))
    BY <1>1, <1>6, <2>3, <2>4
  <2> QED BY <1>1, <1>4, <1>5, <2>2, <2>5, <2>6, <2>7, <2>8, <2>9, ShowKeeps
<1>10. CASE ~(storage # "gone" /\ owner # NoTraining)
  <2>1. PICK stored \in {{}, StoredIntent} : stored = StoredIntent
    OBVIOUS
  <2>2. BeginCreate(p, stored, calls)
    BY <1>3, <1>10, <2>1 DEF CreateOrRecover
  <2>3. stored = {} => intent = NoOrigin \/ Settled(intent)
    BY <2>1 DEF StoredIntent
  <2>4. owner' \in {owner, NoTraining} /\ (Healthy => owner' = NoTraining)
    BY <1>1, <1>10 DEF Healthy
  <2> QED BY <1>1, <1>4, <1>5, <1>6, <1>7, <1>8, <2>1, <2>2, <2>3, <2>4, BeginKeeps
<1> QED BY <1>9, <1>10

LEMMA CreateAnswersKeep ==
  ASSUME FlowInv, NEW c \in calls, Heeded(c), c.kind = "create", CreateAnswered(c),
         UNCHANGED <<serverVars, mode, storage, given>>
  PROVE  FlowInv'
<1>1. CASE Succeeded(c)
  <2>1. Adopt(c)
    BY <1>1 DEF CreateAnswered, Succeeded
  <2> QED BY <1>1, <2>1, AdoptKeeps
<1>2. CASE c.reply.code = "not-found"
  BY <1>2, UnknownKeeps
<1>3. CASE ~Succeeded(c) /\ c.reply.code # "not-found"
  <2>1. Show(Halted(page), calls \ {c}) /\ UNCHANGED <<owner, intent, spent>>
    BY <1>3 DEF CreateAnswered
  <2> QED BY <2>1, HaltKeeps
<1> QED BY <1>1, <1>2, <1>3

LEMMA RecoverAnswersKeep ==
  ASSUME FlowInv, NEW c \in calls, Heeded(c), c.kind = "recover", RecoverAnswered(c),
         UNCHANGED <<serverVars, mode, storage, given>>
  PROVE  FlowInv'
<1> USE DEF FlowInv
<1>1. PICK cs : cs = calls \ {c}
  OBVIOUS
<1>2. /\ page.screen = "creating" /\ page.started /\ ~page.notice /\ ~page.dirty
      /\ OwnsIntent(c.of) /\ c.of \in Trainings
      /\ \A d \in cs : Heeded(d) => d.kind \notin {"create", "recover"}
      /\ \A p \in Page : Expected(p, cs)
  BY <1>1, Created
<1>3. /\ page \in Page /\ mode = "free" /\ page.mine = NoTraining /\ page.media = FALSE
      /\ page.cleanup = NoTraining /\ page.overtaken = FALSE
  BY <1>2, CreatingPage
<1>4. /\ cs \in SUBSET Call /\ Fits(c.kind, c.of, c.reply)
      /\ \A d \in cs : Fits(d.kind, d.of, d.reply)
  BY <1>1, OneLess
<1>5. c.reply.code = "not-found" => intent = NoOrigin \/ Settled(intent)
  BY <1>2, <1>3, <1>4 DEF Fits, OwnsIntent, Settled
<1>6. CASE Succeeded(c)
  <2>1. Adopt(c)
    BY <1>6 DEF RecoverAnswered, Succeeded
  <2> QED BY <1>6, <2>1, AdoptKeeps
<1>7. CASE c.reply.code = "not-found" /\ Owns(c.of)
  <2>1. PICK p : p = [page EXCEPT !.dirty = FALSE]
    OBVIOUS
  <2>2. PICK stored \in {{}, StoredIntent} : stored = {}
    OBVIOUS
  <2>3. owner' = NoTraining /\ BeginCreate(p, stored, cs)
    BY <1>1, <1>7, <2>1, <2>2 DEF RecoverAnswered, Succeeded
  <2>4. /\ p \in Page /\ p.screen = "creating" /\ p.mine = NoTraining /\ p.media = FALSE
        /\ p.cleanup = NoTraining /\ p.overtaken = FALSE /\ p.dirty = FALSE
        /\ p.started = page.started /\ p.notice = page.notice
    BY <1>2, <1>3, <2>1 DEF Page
  <2>5. p.started /\ ~p.notice /\ ~p.dirty
    BY <1>2, <2>4
  <2> QED BY <1>2, <1>4, <1>5, <1>7, <2>3, <2>4, <2>5, BeginKeeps
<1>8. CASE c.reply.code = "not-found" /\ ~Owns(c.of)
  <2>1. Show(MustClean(page), calls \ {c}) /\ UNCHANGED <<owner, intent, spent>>
    BY <1>8 DEF RecoverAnswered, Succeeded
  <2> QED BY <1>5, <1>8, <2>1, HaltKeeps
<1>9. CASE ~Succeeded(c) /\ c.reply.code # "not-found"
  <2>1. Show(Halted(page), calls \ {c}) /\ UNCHANGED <<owner, intent, spent>>
    BY <1>9 DEF RecoverAnswered
  <2> QED BY <2>1, HaltKeeps
<1> QED BY <1>6, <1>7, <1>8, <1>9

(* An answer nobody heeds is dropped.                                      *)
LEMMA DroppedKeeps ==
  ASSUME FlowInv, NEW c \in calls, calls' = calls \ {c},
         UNCHANGED <<serverVars, mode, storage, given, page, owner, intent, spent>>
  PROVE  FlowInv'
<1> USE DEF FlowInv
<1>1. PICK cs : cs = calls \ {c}
  OBVIOUS
<1>2. /\ cs \in SUBSET Call /\ Expected(page, cs)
      /\ \A d \in cs : Fits(d.kind, d.of, d.reply) /\ d \in calls
  BY <1>1, OneLess
<1>3. Listening(page, cs)
  BY <1>2 DEF Listening
<1>4. PageFits' /\ page' \in Page
  BY DEF PageFits, Made, Gone, serverVars, FlowTypes
<1>5. /\ storage' \in {"ok", "full", "gone"} /\ owner' \in Trainings \cup {NoTraining}
      /\ spent' \in [uploads : Nat, visits : Nat, keys : Nat]
  BY DEF FlowTypes
<1>6. mode = "free" =>
         /\ owner' # NoTraining => Made(owner') /\ OwnsIntent(owner')
         /\ page'.mine # NoTraining => OwnsIntent(page'.mine)
         /\ \A d \in calls' : Heeded(d) =>
              /\ d.kind = "create" => d.of = intent /\ owner' = NoTraining
              /\ d.kind = "recover" => OwnsIntent(d.of)
         /\ page'.dirty => intent = NoOrigin \/ Settled(intent)
  BY <1>1, <1>2 DEF OwnerIsKept
<1> QED BY <1>1, <1>2, <1>3, <1>4, <1>5, <1>6, PageKeeps

LEMMA ReceiveKeeps ==
  ASSUME FlowInv, NEW c \in calls, Receive(c) PROVE FlowInv'
<1>1. c.heard /\ UNCHANGED <<serverVars, mode, storage, given>>
  BY DEF Receive
<1>2. CASE ~Heeded(c)
  BY <1>1, <1>2, DroppedKeeps DEF Receive
<1>3. CASE Heeded(c)
  <2>1. Handled(c)
    BY <1>3 DEF Receive
  <2>2. CASE c.kind = "create" /\ CreateAnswered(c)
    BY <1>1, <1>3, <2>2, CreateAnswersKeep
  <2>3. CASE c.kind = "recover" /\ RecoverAnswered(c)
    BY <1>1, <1>3, <2>3, RecoverAnswersKeep
  <2>4. CASE c.kind = "delete" /\ DeleteAnswered(c) /\ UNCHANGED spent
    BY <1>1, <1>3, <2>4, DeleteAnswersKeep
  <2>5. CASE c.kind = "erase" /\ EraseAnswered(c) /\ UNCHANGED spent
    BY <1>1, <2>5, EraseAnswersKeep
  <2>6. CASE /\ \/ c.kind = "issue" /\ IssueAnswered(c)
                \/ c.kind = "ready" /\ ReadyAnswered(c)
                \/ c.kind = "create-verified" /\ CreateVerifiedAnswered(c)
             /\ UNCHANGED <<owner, intent, spent>>
    BY <1>1, <1>3, <2>6, SetupAnswersKeep
  <2>7. CASE /\ \/ c.kind = "upload" /\ UploadAnswered(c)
                \/ c.kind = "reconcile" /\ ReconcileAnswered(c)
                \/ c.kind = "poll" /\ PollAnswered(c)
             /\ UNCHANGED <<owner, intent, spent>>
    BY <1>1, <1>3, <2>7, UploadAnswersKeep
  <2> QED BY <2>1, <2>2, <2>3, <2>4, <2>5, <2>6, <2>7 DEF Handled
<1> QED BY <1>2, <1>3

-----------------------------------------------------------------------------
(* What holds of the two trainings.                                        *)

LEMMA FlowBegins == FlowInit => FlowInv
<1> SUFFICES ASSUME FlowInit PROVE FlowInv
  OBVIOUS
<1>1. /\ status = [t \in Trainings |-> "none"] /\ origin = [t \in Trainings |-> NoOrigin]
      /\ calls = {} /\ mode \in {"free", "verified"} /\ storage = "ok"
      /\ owner = NoTraining /\ intent = NoOrigin /\ given = {}
      /\ spent = [uploads |-> 0, visits |-> 0, keys |-> 0]
  BY FlowAssumption DEF FlowInit, ServerInit
<1>2. /\ page \in Page /\ page.screen = "away" /\ page.mine = NoTraining
      /\ page.cleanup = NoTraining /\ page.media = FALSE /\ page.overtaken = FALSE
      /\ page.dirty = FALSE
  BY FreshPages DEF FlowInit, Screens
<1>3. ~page.media /\ ~page.overtaken /\ ~page.dirty
  BY <1>2
<1>4. spent.keys = 0 /\ spent \in [uploads : Nat, visits : Nat, keys : Nat]
  BY <1>1
<1>5. FlowTypes
  BY <1>1, <1>2, <1>4, ServerAssumption DEF FlowTypes, Statuses
<1>6. CallsFit /\ Expected(page, calls) /\ Listening(page, calls)
  BY <1>1 DEF CallsFit, Expected, OneReconcile, Listening
<1>7. PageFits
  BY <1>2, <1>3 DEF PageFits
<1>8. KeysAreKept
  <2>1. \A t \in Trainings : origin[t] = NoOrigin /\ ~Made(t)
    BY <1>1 DEF Made
  <2>2. \A k \in Origins : ~(k <= 0)
    BY ServerAssumption
  <2> QED BY <1>1, <1>4, <2>1, <2>2, ServerAssumption DEF KeysAreKept
<1>9. OwnerIsKept
  BY <1>1, <1>2, <1>3 DEF OwnerIsKept
<1> QED BY <1>5, <1>6, <1>7, <1>8, <1>9 DEF FlowInv

LEMMA FlowRests ==
  ASSUME FlowInv, UNCHANGED flowVars PROVE FlowInv'
<1> USE DEF FlowInv
<1>1. /\ UNCHANGED <<serverVars, mode, storage, page, owner, intent, spent, given>>
      /\ calls' = calls
  BY DEF flowVars, tabVars
<1>2. /\ page \in Page /\ calls \subseteq Call /\ storage \in {"ok", "full", "gone"}
      /\ owner \in Trainings \cup {NoTraining}
      /\ spent \in [uploads : Nat, visits : Nat, keys : Nat]
  BY DEF FlowTypes
<1>3. PageFits' /\ \A d \in calls : Fits(d.kind, d.of, d.reply)
  BY <1>1 DEF PageFits, Made, Gone, serverVars, CallsFit
<1> QED BY <1>1, <1>2, <1>3, PageKeeps DEF OwnerIsKept

(* A tab and the server keep to the invariant, whatever fails and however  *)
(* the answers are ordered.                                                *)
THEOREM FlowInvariant == FlowSpec => []FlowInv
<1>1. FlowInv /\ [FlowNext]_flowVars => FlowInv'
  <2> SUFFICES ASSUME FlowInv, [FlowNext]_flowVars PROVE FlowInv'
    OBVIOUS
  <2>1. CASE UNCHANGED flowVars
    BY <2>1, FlowRests
  <2>2. CASE ServerStep
    BY <2>2, ServerKeeps
  <2>3. CASE StorageChanges
    BY <2>3, LocalKeeps
  <2>4. ASSUME NEW c \in calls, Receive(c) PROVE FlowInv'
    BY <2>4, ReceiveKeeps
  <2>5. CASE PageStep
    <3>1. CASE PrepareChallenge \/ PrepareAgain \/ ChooseMedia \/ DropMedia \/ Open
      BY <3>1, LocalKeeps
    <3>2. CASE IssueSessions \/ CreateVerifiedAttempt \/ SendPoll \/ DeleteTraining
      BY <3>2, RequestsKeep
    <3>3. CASE SendUpload \/ ReplaceMedia \/ CancelUpload
      BY <3>3, UploadsKeep
    <3>4. CASE Leave \/ \E t \in Trainings : Erase(t)
      BY <3>4, LeavingKeeps
    <3>5. CASE CreateOrRecover
      BY <3>5, CreateOrRecoverKeeps
    <3>6. CASE TryAgain
      BY <3>6, TryAgainKeeps
    <3>7. CASE Reset
      BY <3>7, ResetKeeps
    <3>8. CASE RetryCleanup
      BY <3>8, RetriesKeep
    <3> QED BY <2>5, <3>1, <3>2, <3>3, <3>4, <3>5, <3>6, <3>7, <3>8 DEF PageStep
  <2> QED BY <2>1, <2>2, <2>3, <2>4, <2>5 DEF FlowNext
<1> QED BY <1>1, FlowBegins, PTL DEF FlowSpec

(* However the connection and the storage of the tab fail, and whenever it *)
(* is reloaded, a free training of it that still exists is the one that    *)
(* the stored key finds again, unless the athlete asked for another        *)
(* (owner.ts, free-training/tracer.tsx, history.tsx).                      *)
THEOREM TrainingsAreKept == FlowSpec => []TrainingIsNeverLost
<1>1. FlowInv => TrainingIsNeverLost
  <2> SUFFICES ASSUME FlowInv, mode = "free", NEW t \in Trainings,
                      Exists(t), origin[t] \notin given
               PROVE  intent = origin[t]
    BY DEF TrainingIsNeverLost
  <2>1. KeysAreKept /\ Made(t) /\ ~Gone(t)
    BY DEF FlowInv, Exists, Made, Gone
  <2>2. origin[t] \in Origins /\ origin[t] <= spent.keys
    BY <2>1 DEF KeysAreKept
  <2>3. ~Settled(origin[t])
    BY <2>1 DEF KeysAreKept, Settled
  <2> QED BY <2>1, <2>2, <2>3 DEF KeysAreKept
<1> QED BY <1>1, FlowInvariant, PTL

(* No answer turns back a page that shows an upload as received: what it   *)
(* reads was asked for by this page, and later than the upload.            *)
LEMMA PendingHears ==
  ASSUME FlowInv, page.screen = "pending", ~page.overtaken, NEW c \in calls, Receive(c)
  PROVE  page'.screen \notin {"capture", "uploading"}
<1> USE DEF FlowInv
<1>1. Heeded(c) => Awaits(page, c)
  BY DEF Expected
<1>2. CASE ~Heeded(c)
  BY <1>2 DEF Receive
<1>3. CASE Heeded(c)
  <2>1. c.kind \notin {"create", "recover", "issue", "ready", "delete", "reconcile"}
    BY <1>1, <1>3 DEF Awaits
  <2>2. c.kind \notin {"upload", "create-verified"}
    BY <1>3 DEF Listening, Heeded
  <2>3. page \in Page
    BY DEF FlowTypes
  <2>4. CASE c.kind = "erase" /\ EraseAnswered(c)
    BY <2>3, <2>4 DEF EraseAnswered, Page
  <2>5. CASE c.kind = "poll" /\ PollAnswered(c)
    <3>1. PICK p : page' = p /\ p \in { [page EXCEPT !.notice = TRUE], Applied(page, "ended"),
                           [page EXCEPT !.known = c.reply.shown, !.notice = FALSE]}
      BY <2>5 DEF PollAnswered, Show
    <3>2. Applied(page, "ended") =
            [page EXCEPT !.known = "ended", !.screen = "terminal", !.media = FALSE,
                         !.result = "ended"]
      BY DEF Applied
    <3> QED BY <2>3, <3>1, <3>2 DEF Page
  <2> QED BY <1>3, <2>1, <2>2, <2>4, <2>5 DEF Receive, Handled
<1> QED BY <1>2, <1>3

(* A reconciliation that read the training before its upload does not send *)
(* the athlete back to upload again, unless a recording that ended beside  *)
(* it began that upload (upload-lifecycle.ts).                             *)
THEOREM AcceptedUploadsStay == FlowSpec => AcceptedUploadStays
<1>1. FlowInv /\ [FlowNext]_flowVars =>
        [page.screen = "pending" /\ ~page.overtaken
           => page'.screen \notin {"capture", "uploading"}]_flowVars
  <2> SUFFICES ASSUME FlowInv, FlowNext, page.screen = "pending", ~page.overtaken
               PROVE  page'.screen \notin {"capture", "uploading"}
    OBVIOUS
  <2>1. page \in Page /\ page.cleanup = NoTraining
    BY DEF FlowInv, FlowTypes, PageFits, Page
  <2>2. CASE ServerStep \/ StorageChanges
    BY <2>2 DEF ServerStep, StorageChanges
  <2>3. ASSUME NEW c \in calls, Receive(c) PROVE page'.screen \notin {"capture", "uploading"}
    BY <2>3, PendingHears
  <2>4. CASE PageStep
    <3>1. CASE Reset
      <4>1. PICK screen \in Screens : screen = Beginning /\ screen \notin {"capture", "uploading"}
        BY DEF Beginning, Screens
      <4>2. PICK f : f = FreshPage(screen)
        OBVIOUS
      <4>3. f \in Page /\ f.screen = screen
        BY <4>2, FreshPages
      <4>4. page' = f \/ page' = MustClean(f)
        BY <3>1, <4>1, <4>2 DEF Reset, Show
      <4> QED BY <4>1, <4>3, <4>4 DEF MustClean, Blocked, Halted, Page
    <3>2. CASE Leave
      BY <3>2, FreshPages DEF Leave, Screens
    <3>3. CASE SendPoll \/ \E t \in Trainings : Erase(t)
      BY <3>3 DEF SendPoll, Erase
    <3> QED BY <2>1, <2>4, <3>1, <3>2, <3>3 DEF PageStep, CreateOrRecover, TryAgain,
          PrepareChallenge, IssueSessions, CreateVerifiedAttempt, PrepareAgain, ChooseMedia,
          DropMedia, SendUpload, ReplaceMedia, CancelUpload, DeleteTraining, Open, RetryCleanup
  <2> QED BY <2>2, <2>3, <2>4 DEF FlowNext
<1> QED BY <1>1, FlowInvariant, PTL DEF FlowSpec, AcceptedUploadStays
=============================================================================
