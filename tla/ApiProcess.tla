----------------------------- MODULE ApiProcess -----------------------------
(***************************************************************************)
(* The upload of MediaIntake served by the applications of ServiceHost,    *)
(* through starts that fail, shutdowns and crashes.  They meet in four     *)
(* places: a request arrives only at an application that listens; the      *)
(* retention pass over its records runs only while the retention runtime   *)
(* has one in flight; a shutdown waits for the connection of the request,  *)
(* not for its handler; and it closes the database both use.               *)
(***************************************************************************)
EXTENDS MediaIntake

CONSTANT MaxStarts

ASSUME HostAssumption == MaxStarts \in Nat \ {0}

VARIABLES app, runtime, timers, owner, users

INSTANCE ServiceHost

process == <<upload, app, runtime, timers, owner, users>>
hosting == <<app, runtime, timers, owner, users>>

(* Bounds: an upload arrives in a process whose first start succeeded, and *)
(* no other application is composed from there on; after a crash one is,   *)
(* which starts and is not shut down.                                      *)
(* Of the host's own work only the retention pass meets an upload; a job   *)
(* and a probe are not at work together.                                   *)
MayCompose(i) == At("absent") \/ (At("lost") /\ i = 1)
StaysUp == At("lost") => app'[1] \notin Closing \cup {"rollback", "abandoned"}
MayArrive ==
  /\ \A i \in Apps \ {1} : app[i] = "none"
  /\ users[1] \subseteq {"retention"}
MayStart(i, work) ==
  \/ work = "retention"
  \/ At("absent") /\ (work # "recovery" => users[i] \cap {"job", "probe"} = {})

InPass == \E i \in Apps : "retention" \in users[i]

(* What Fastify waits for after it has stopped to listen.  A handler whose *)
(* client is gone holds no connection.  Two bugs: only arriving bodies are *)
(* waited for; every handler is.                                           *)
BodyArriving == client.at = "sending" /\ ~At("absent")
HandlerRunning == Running \/ BodyArriving
ConnectionOpen == BodyArriving \/ (client.at = "sent" /\ Running)

Arrival ==
  /\ Arrive /\ Settled /\ app[1] = "listening"
  /\ MayArrive
  /\ UNCHANGED <<hosting, database>>

Scavenging == Settled /\ InPass /\ PassStep /\ UNCHANGED hosting

(* A pass is over between two records. *)
Working(i, work) ==
  /\ WorkEnds(i, work)
  /\ work = "retention" => scavenger.at = "idle"

Progress(i) ==
  \/ StartStep(i) /\ StaysUp
  \/ CloseStep(i)
  \/ HttpEnds(i) /\ ~ConnectionOpen
Works(i) ==
  \/ \E k \in Kinds : MayStart(i, k) /\ TimerFires(i, k)
  \/ \E work \in {"job", "probe"} : MayStart(i, work) /\ WorkStarts(i, work)
Operated(i) ==
  /\ OperatorStep(i)
  /\ app[i] = "none" => MayCompose(i)
  /\ StaysUp

Serving(step) ==
  /\ step
  /\ UNCHANGED <<transport, request, disk, facts, late, scavenger, context,
                 residue, faults>>

(* The next process opens the database again and starts from nothing. *)
Crash ==
  /\ Settled /\ ProcessStops
  /\ app' = [i \in Apps |-> "none"]
  /\ runtime' = [i \in Apps |-> [k \in Kinds |-> "none"]]
  /\ timers' = [i \in Apps |-> {}]
  /\ owner' = [k \in Kinds |-> Nobody]
  /\ users' = [i \in Apps |-> {}]
  /\ database' = "open"

ProcessInit == UploadInit /\ HostInit
StreamRuns == Settled /\ StreamStep /\ UNCHANGED hosting
RequestRuns == Settled /\ RequestStep /\ UNCHANGED hosting
OutsideRuns == Settled /\ OutsideStep /\ UNCHANGED hosting
HostRuns == Serving(\E i \in Apps : Progress(i))
WorkIsDone(kinds) == Serving(\E i \in Apps, work \in kinds : Working(i, work))
ProcessNext ==
  \/ Arrival \/ StreamRuns \/ RequestRuns \/ OutsideRuns \/ Scavenging
  \/ Crash \/ HostRuns
  \/ Serving(\E i \in Apps : Works(i) \/ Operated(i))
  \/ WorkIsDone(Kinds \cup {"job", "probe"})

ProcessSpec == ProcessInit /\ [][ProcessNext]_process

(* A start that began and a close that began go on; work in flight ends.   *)
(* Nobody has to start or stop an application, and no timer has to fire.   *)
FairProcessSpec ==
  /\ ProcessSpec
  /\ WF_process(StreamRuns) /\ WF_process(RequestRuns)
  /\ WF_process(Scavenging) /\ WF_process(HostRuns)
  /\ WF_process(WorkIsDone(Kinds)) /\ WF_process(WorkIsDone({"job", "probe"}))

----------------------------------------------------------------------------
(* Of all the applications composed over the same repositories only the    *)
(* one that owns a runtime has a pass of it in flight or a timer that can  *)
(* start one.  A start that failed before its runtimes were active owns    *)
(* nothing, so the next start can succeed, whatever the scheduler kept.    *)
OwnerRunsAlone ==
  \A i \in Apps, k \in Kinds :
    /\ k \in users[i] \/ (k \in timers[i] /\ runtime[i][k] = "active") => owner[k] = i
    /\ app[i] \in {"failed", "closed"} => owner[k] # i

(* The database is closed after everything that uses it has ended.  Two    *)
(* users are left behind: the immediate passes of an application whose     *)
(* workers could not be started, and the handler of a request whose client *)
(* is gone, which Fastify does not wait for.                               *)
DatabaseOutlivesItsUsers ==
  database = "closed" =>
    /\ \A i \in Apps : users[i] = {} \/ app[i] = "abandoned"
    /\ Running => client.at \in {"gone", "unheard", "left", "closed"}

(* A shutdown ends, whatever the upload in flight meets; an application    *)
(* closed behind its caller's back gives its runtimes up.                  *)
Ending ==
  \E i \in Apps :
    \/ app[i] \in Closing \ {"closed"}
    \/ app[i] = "abandoned" /\ \E k \in Kinds : owner[k] = i

CloseEnds == Ending ~> ~Ending
=============================================================================
