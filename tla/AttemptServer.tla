--------------------------- MODULE AttemptServer ---------------------------
(***************************************************************************)
(* The API as one browser sees it: which training an origin (the key of a  *)
(* free creation, the calibration session of a verified one) made, and how *)
(* far each training is.  It abstracts AttemptStore, CalibrationSession    *)
(* and MediaDelivery to what an answer shows.                              *)
(*                                                                         *)
(* A call is in flight until its answer is read: a record of what it asks, *)
(* of which training or origin, of whether the page that sent it listens,  *)
(* of whether that page has moved on, and of the reply once there is one.  *)
(* Two calls alike in all of this are one call here.                       *)
(***************************************************************************)
EXTENDS Naturals, FiniteSets

CONSTANTS
  Trainings,  \* attempts that can come to exist
  Origins,    \* keys and sessions they can come from
  MaxFaults,  \* bound: things that go wrong
  NoTraining, NoOrigin

ASSUME ServerAssumption ==
  /\ Trainings \subseteq Nat \ {0} /\ Origins \subseteq Nat \ {0}
  /\ MaxFaults \in Nat /\ NoTraining = 0 /\ NoOrigin = 0

VARIABLES
  status,   \* attempts.status; "attached": uploaded, and its job not queued
  origin,   \* attempts.idempotency_key, or the session it consumed
  session,  \* calibration_sessions.state
  calls,    \* requests and answers in flight
  faults    \* errors, lost answers, deletions elsewhere, storage failures

serverVars == <<status, origin, session>>

Statuses ==
  {"none", "awaiting-upload", "attached", "queued", "ended", "deleted"}
SessionStates == {"none", "issued", "ready", "consumed"}

ServerTypeOK ==
  /\ status \in [Trainings -> Statuses]
  /\ origin \in [Trainings -> Origins \cup {NoOrigin}]
  /\ session \in [Origins -> SessionStates]
  /\ faults \in 0..MaxFaults

ServerInit ==
  /\ status = [t \in Trainings |-> "none"]
  /\ origin = [t \in Trainings |-> NoOrigin]
  /\ session = [o \in Origins |-> "none"]
  /\ calls = {} /\ faults = 0

Exists(t) == status[t] \notin {"none", "deleted"}

(* AttemptOutcome: uploaded, queued and processing are pending alike.      *)
Shown(t) == IF status[t] \in {"attached", "queued"} THEN "received" ELSE status[t]

NoReply == [code |-> "none", training |-> NoTraining, shown |-> "none"]
Attaching == [NoReply EXCEPT !.code = "attaching"]
Ok(t) == [code |-> "ok", training |-> t, shown |-> Shown(t)']
Refused(code) == [NoReply EXCEPT !.code = code]

Sent(kind, of) ==
  [kind |-> kind, of |-> of, heard |-> TRUE, current |-> TRUE, reply |-> NoReply]

Answered(c) == c.reply \notin {NoReply, Attaching}
Reads == {"recover", "reconcile", "poll"}

(* A request nobody listens to any more: what it asked may still be done.  *)
Forgotten(c) ==
  IF c.kind \in Reads \/ Answered(c) THEN {}
  ELSE {[c EXCEPT !.heard = FALSE, !.current = FALSE]}

(* The reply goes to whoever still listens.                                *)
Reply(c, reply) ==
  calls' = (calls \ {c}) \cup IF c.heard THEN {[c EXCEPT !.reply = reply]} ELSE {}

-----------------------------------------------------------------------------
(* The routes.                                                             *)

MadeBy(o) == {t \in Trainings : origin[t] = o}

Make(c) ==
  \E t \in Trainings :
    /\ status[t] = "none" /\ \A u \in Trainings : u < t => status[u] # "none"
    /\ status' = [status EXCEPT ![t] = "awaiting-upload"]
    /\ origin' = [origin EXCEPT ![t] = c.of]
    /\ Reply(c, Ok(t))

(* A free creation replays the training of its key.                        *)
Create(c) ==
  /\ c.kind = "create"
  /\ UNCHANGED session
  /\ \/ MadeBy(c.of) = {} /\ Make(c)
     \/ /\ UNCHANGED <<status, origin>>
        /\ \E t \in MadeBy(c.of) :
             Reply(c, IF Exists(t) THEN Ok(t) ELSE Refused("not-found"))

(* A verified one consumes its session, and has no key.                    *)
CreateVerified(c) ==
  /\ c.kind = "create-verified"
  /\ IF session[c.of] = "ready"
     THEN Make(c) /\ session' = [session EXCEPT ![c.of] = "consumed"]
     ELSE Reply(c, Refused("error")) /\ UNCHANGED serverVars

IssueSession(c) ==
  /\ c.kind = "issue"
  /\ \E o \in Origins :
       /\ session[o] = "none" /\ \A p \in Origins : p < o => session[p] # "none"
       /\ session' = [session EXCEPT ![o] = "issued"]
       /\ Reply(c, [NoReply EXCEPT !.code = "ok", !.training = o])
  /\ UNCHANGED <<status, origin>>

ReadySession(c) ==
  /\ c.kind = "ready"
  /\ session' = [session EXCEPT ![c.of] = IF @ = "issued" THEN "ready" ELSE @]
  /\ Reply(c, IF session[c.of] \in {"issued", "ready"}
              THEN [NoReply EXCEPT !.code = "ok"] ELSE Refused("error"))
  /\ UNCHANGED <<status, origin>>

Read(c) ==
  /\ c.kind \in Reads
  /\ UNCHANGED serverVars
  /\ Reply(c, IF Exists(c.of) THEN Ok(c.of) ELSE Refused("not-found"))

Delete(c) ==
  /\ c.kind \in {"delete", "erase"}
  /\ UNCHANGED <<origin, session>>
  /\ status' = [status EXCEPT ![c.of] = "deleted"]
  /\ Reply(c, IF Exists(c.of) THEN Ok(c.of) ELSE Refused("not-found"))

Upload(c) ==
  /\ c.kind = "upload"
  /\ IF status[c.of] = "awaiting-upload"
     THEN /\ status' = [status EXCEPT ![c.of] = "attached"]
          /\ calls' = (calls \ {c}) \cup {[c EXCEPT !.reply = Attaching]}
     ELSE /\ UNCHANGED status
          /\ Reply(c, Refused(IF Exists(c.of) THEN "duplicate" ELSE "not-found"))
  /\ UNCHANGED <<origin, session>>

Serve(c) ==
  /\ c.reply = NoReply
  /\ \/ Create(c) \/ CreateVerified(c) \/ IssueSession(c) \/ ReadySession(c)
     \/ Read(c) \/ Delete(c) \/ Upload(c)
  /\ UNCHANGED faults

Fault == faults < MaxFaults /\ faults' = faults + 1

(* The job of an attached upload is queued, and the request says so.       *)
FinishUpload(c) ==
  /\ c.reply = Attaching /\ status[c.of] = "attached"
  /\ status' = [status EXCEPT ![c.of] = "queued"]
  /\ Reply(c, Ok(c.of))
  /\ UNCHANGED <<origin, session, faults>>

(* attachAcceptedMedia fails: after it queued the job, or with a rollback, *)
(* or with one that is left to the recovery runtime.                       *)
FailUpload(c) ==
  /\ c.reply = Attaching
  /\ Reply(c, Refused("error"))
  /\ IF status[c.of] = "attached"
     THEN /\ Fault
          /\ \E s \in {"queued", "awaiting-upload", "attached"} :
               status' = [status EXCEPT ![c.of] = s]
     ELSE UNCHANGED <<status, faults>>
  /\ UNCHANGED <<origin, session>>

(* An error that changed nothing.                                          *)
Refuse(c) ==
  /\ c.reply = NoReply /\ Fault
  /\ Reply(c, Refused("error")) /\ UNCHANGED serverVars

-----------------------------------------------------------------------------
(* What the browser did not ask for.                                       *)

(* The connection breaks before the answer.  The server may still have the *)
(* request, and go on with it, or not (Vanish).                            *)
LoseConnection(c) ==
  /\ c.heard /\ ~Answered(c) /\ Fault
  /\ calls' = (calls \ {c}) \cup {[c EXCEPT !.reply = Refused("lost")]} \cup Forgotten(c)
  /\ UNCHANGED serverVars

Vanish(c) ==
  /\ ~c.heard /\ c.reply = NoReply
  /\ calls' = calls \ {c}
  /\ UNCHANGED <<serverVars, faults>>

(* The recovery runtime delivers or withdraws what no request works on.    *)
Recover(t) ==
  /\ status[t] = "attached"
  /\ \A c \in calls : ~(c.of = t /\ c.reply = Attaching)
  /\ \E s \in {"queued", "awaiting-upload"} : status' = [status EXCEPT ![t] = s]
  /\ UNCHANGED <<origin, session, calls, faults>>

Analyse(t) ==
  /\ status[t] = "queued"
  /\ status' = [status EXCEPT ![t] = "ended"]
  /\ UNCHANGED <<origin, session, calls, faults>>

(* The athlete deletes it in another tab.                                  *)
DeleteElsewhere(t) ==
  /\ Exists(t) /\ Fault
  /\ status' = [status EXCEPT ![t] = "deleted"]
  /\ UNCHANGED <<origin, session, calls>>
=============================================================================
