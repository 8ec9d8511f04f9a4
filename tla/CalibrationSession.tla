------------------------- MODULE CalibrationSession -------------------------
(***************************************************************************)
(* Calibration sessions and the creation of attempts from them: the part   *)
(* of the attempt repository a client retries, races and replays.  Every   *)
(* operation is one transaction; an operation that throws is rolled back,  *)
(* so it leaves nothing but the answer the client was given.               *)
(*                                                                         *)
(* A request whose answer was lost is the same request made again, so      *)
(* requests are arbitrary here and `told` remembers what was answered.     *)
(* There is one challenge, so a challenge mismatch cannot be asked for.    *)
(***************************************************************************)
EXTENDS Naturals, FiniteSets

CONSTANTS
  Athletes, Sessions,
  Attempts,      \* attempt identifiers (ids.next())
  Keys,          \* idempotency keys
  NoKey,         \* no Idempotency-Key header
  FreeInput,     \* the input of a free attempt
  NoAthlete

ASSUME CalibrationAssumption ==
  /\ NoKey \notin Keys
  /\ FreeInput \notin Sessions
  /\ NoAthlete \notin Athletes

VARIABLES
  session,   \* calibration_sessions
  over,      \* sessions whose expires_at has passed
  made,      \* attempts, with the request that made each
  told       \* answers given: returned attempts, and sessions called expired

vars == <<session, over, made, told>>

(* A verified attempt's input names its session.                           *)
Inputs == Sessions \cup {FreeInput}
SessionStates == {"none", "issued", "ready", "consumed", "expired"}
NotMade == [athlete |-> NoAthlete, input |-> FreeInput, key |-> NoKey, deleted |-> FALSE]

TypeOK ==
  /\ session \in [Sessions -> [state : SessionStates, athlete : Athletes \cup {NoAthlete}]]
  /\ over \subseteq Sessions
  /\ made \in [Attempts -> [athlete : Athletes \cup {NoAthlete}, input : Inputs,
                            key : Keys \cup {NoKey}, deleted : BOOLEAN]]
  /\ told \in [returned : SUBSET [athlete : Athletes, key : Keys, input : Inputs,
                                  attempt : Attempts],
               expired : SUBSET Sessions]
  /\ \A a \in Attempts : made[a].athlete = NoAthlete => made[a] = NotMade

Init ==
  /\ session = [s \in Sessions |-> [state |-> "none", athlete |-> NoAthlete]]
  /\ over = {}
  /\ made = [a \in Attempts |-> NotMade]
  /\ told = [returned |-> {}, expired |-> {}]

-----------------------------------------------------------------------------
Issue(s, athlete) ==
  /\ session[s].state = "none"
  /\ session' = [session EXCEPT ![s] = [state |-> "issued", athlete |-> athlete]]
  /\ UNCHANGED <<over, made, told>>

TimePasses(s) ==
  /\ session[s].state # "none" /\ s \notin over
  /\ over' = over \cup {s}
  /\ UNCHANGED <<session, made, told>>

Known(s, athlete) == session[s].state # "none" /\ session[s].athlete = athlete

(* UPDATE ... SET state = 'expired' ... WHERE state IN ('issued', 'ready') *)
Expired(s) ==
  IF session[s].state \in {"issued", "ready"}
  THEN [session EXCEPT ![s].state = "expired"] ELSE session

(* The read answers null, so its transaction commits the expiry.           *)
GetCalibrationSession(s, athlete) ==
  /\ Known(s, athlete) /\ s \in over
  /\ session' = Expired(s)
  /\ UNCHANGED <<over, made, told>>

ReadyAnswer(s, athlete) ==
  CASE ~Known(s, athlete) -> "not_found"
    [] Known(s, athlete) /\ s \in over -> "expired"
    [] OTHER -> IF session[s].state = "consumed" THEN "consumed"
                ELSE IF session[s].state # "issued" THEN "not_ready" ELSE "ok"

(* Answering "expired" throws: the UPDATE before the throw is rolled back. *)
ReadyCalibrationSession(s, athlete) ==
  /\ \/ /\ ReadyAnswer(s, athlete) = "ok"
        /\ session' = [session EXCEPT ![s].state = "ready"]
        /\ UNCHANGED told
     \/ /\ ReadyAnswer(s, athlete) = "expired"
        /\ told' = [told EXCEPT !.expired = @ \cup {s}]
        /\ UNCHANGED session
  /\ UNCHANGED <<over, made>>

-----------------------------------------------------------------------------
ConsumeAnswerAnyTime(s, athlete) ==
  CASE ~Known(s, athlete) -> "not_found"
    [] OTHER -> IF session[s].state = "consumed" THEN "consumed"
                ELSE IF session[s].state # "ready" THEN "not_ready" ELSE "ok"
ConsumeAnswer(s, athlete) ==
  CASE ~Known(s, athlete) -> "not_found"
    [] Known(s, athlete) /\ s \in over -> "expired"
    [] OTHER -> IF session[s].state = "consumed" THEN "consumed"
                ELSE IF session[s].state # "ready" THEN "not_ready" ELSE "ok"

ConsumedNowhere(s) == session
Consumed(s) == [session EXCEPT ![s].state = "consumed"]

(* The attempt an idempotency key already names for this athlete.          *)
Existing(athlete, key) ==
  {a \in Attempts : key # NoKey /\ made[a].athlete = athlete /\ made[a].key = key}

Returned(athlete, input, key, a) ==
  told' = IF key = NoKey THEN told
          ELSE [told EXCEPT !.returned = @ \cup
                 {[athlete |-> athlete, key |-> key, input |-> input, attempt |-> a]}]

(* A replay with another body is a conflict; a deleted attempt is not      *)
(* found again, and its key stays taken.                                   *)
ReplayAllowedForAnyInput(a, input) == ~made[a].deleted
ReplayAllowed(a, input) == made[a].input = input /\ ~made[a].deleted

ReplayAttempt(athlete, input, key) ==
  \E a \in Existing(athlete, key) :
    /\ ReplayAllowed(a, input)
    /\ Returned(athlete, input, key, a)
    /\ UNCHANGED <<session, over, made>>

CreateAttempt(a, athlete, input, key) ==
  /\ made[a] = NotMade
  /\ Existing(athlete, key) = {}
  /\ input \in Sessions => ConsumeAnswer(input, athlete) = "ok"
  /\ session' = IF input \in Sessions THEN Consumed(input) ELSE session
  /\ made' = [made EXCEPT ![a] = [athlete |-> athlete, input |-> input, key |-> key,
                                  deleted |-> FALSE]]
  /\ Returned(athlete, input, key, a)
  /\ UNCHANGED over

(* As above, the expiry it writes does not survive the throw.              *)
RefuseExpired(athlete, s, key) ==
  /\ Existing(athlete, key) = {}
  /\ ConsumeAnswer(s, athlete) = "expired"
  /\ told' = [told EXCEPT !.expired = @ \cup {s}]
  /\ UNCHANGED <<session, over, made>>

TombstoneAttempt(a) ==
  /\ made[a] # NotMade /\ ~made[a].deleted
  /\ made' = [made EXCEPT ![a].deleted = TRUE]
  /\ UNCHANGED <<session, over, told>>

Next ==
  \/ \E s \in Sessions, athlete \in Athletes :
       \/ Issue(s, athlete)
       \/ GetCalibrationSession(s, athlete)
       \/ ReadyCalibrationSession(s, athlete)
  \/ \E s \in Sessions : TimePasses(s)
  \/ \E athlete \in Athletes, key \in Keys \cup {NoKey} :
       \/ \E input \in Inputs : ReplayAttempt(athlete, input, key)
       \/ \E a \in Attempts, input \in Inputs : CreateAttempt(a, athlete, input, key)
       \/ \E s \in Sessions : RefuseExpired(athlete, s, key)
  \/ \E a \in Attempts : TombstoneAttempt(a)

Spec == Init /\ [][Next]_vars

-----------------------------------------------------------------------------
Users(s) == {a \in Attempts : made[a].input = s}

(* "One session creates at most one Attempt", however often creation is    *)
(* retried, by whomever and with whatever key, and even after the attempt  *)
(* was deleted; and the two tables agree on which sessions were used.      *)
SessionMakesOneAttempt ==
  \A s \in Sessions :
    /\ \A a, b \in Users(s) : a = b
    /\ Users(s) # {} <=> session[s].state = "consumed"
    /\ \A a \in Users(s) : made[a].athlete = session[s].athlete

(* Whoever retries with an idempotency key is only ever given the attempt  *)
(* that key first made, and only for the body it was made with.            *)
KeyNamesOneAttempt ==
  \A r1, r2 \in told.returned :
    r1.athlete = r2.athlete /\ r1.key = r2.key => r1 = r2

(* A session that ran out unused never makes an attempt afterwards,        *)
(* although its row may still say issued or ready.                         *)
ExpiredSessionStaysUnused ==
  [][\A s \in over : Users(s) = {} => Users(s)' = {}]_vars

(* The MVP specification: "expired sessions transition to internal         *)
(* `expired` and return `410 calibration_session_expired`".                *)
ExpiredAnswerIsRecorded ==
  \A s \in told.expired : session[s].state \in {"expired", "consumed"}
=============================================================================
