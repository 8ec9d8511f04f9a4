---------------------------- MODULE ServiceHost ----------------------------
(***************************************************************************)
(* The process around the requests: how an application is composed and     *)
(* started, the two hourly runtimes it owns (recovery of deliveries,       *)
(* retention), and the order in which it is shut down before the database  *)
(* is closed (attempt-api.ts, c8-runtime-supervisor.ts, retention-         *)
(* runtime.ts, media-attachment-recovery.ts, operability-routes.ts,        *)
(* training-analysis-composition.ts, local-demo-runtime.ts, startup.ts).   *)
(*                                                                         *)
(* Several applications may be composed over the same repositories; the    *)
(* owner maps let one at a time run.  Starting is synchronous code: its    *)
(* steps are separate here so that each can fail, and nothing else moves   *)
(* while one is under way (Settled).                                       *)
(***************************************************************************)
EXTENDS Naturals

CONSTANT MaxStarts   \* bound: applications composed in one process

Kinds == {"recovery", "retention"}
Apps == 1..MaxStarts     \* in the order in which they are composed
Nobody == 0

VARIABLES
  app,       \* each application: the step its start or its close is at
  runtime,   \* its two background runtimes
  timers,    \* the callbacks the scheduler holds
  owner,     \* productionRuntimeByRepository, runtimeByRetentionRepository
  users,     \* what of an application is at work on the database
  database

host == <<app, runtime, timers, owner, users, database>>

HostInit ==
  /\ app = [i \in Apps |-> "none"]
  /\ runtime = [i \in Apps |-> [k \in Kinds |-> "none"]]
  /\ timers = [i \in Apps |-> {}]
  /\ owner = [k \in Kinds |-> Nobody]
  /\ users = [i \in Apps |-> {}]
  /\ database = "open"

Starting == {"reserve recovery", "reserve retention", "register recovery",
             "register retention", "activate", "workers", "rollback"}
Closing == {"http", "stop workers", "stop runtimes", "drain", "stop probes",
            "close resources", "closed"}
Settled == \A i \in Apps : app[i] \notin Starting

To(i, at) == app' = [app EXCEPT ![i] = at]
Become(i, k, state) == runtime' = [runtime EXCEPT ![i][k] = state]
Among(i, state) == {k \in Kinds : runtime[i][k] = state}

(***************************************************************************)
(* createAttemptApi and startC8RuntimeSupervisor.                          *)
(***************************************************************************)
(* Nobody composes an application over resources that are being closed; it *)
(* may over those of one that runs, or whose start failed.                 *)
Begin(i) ==
  /\ Settled /\ app[i] = "none" /\ database = "open"
  /\ \A j \in Apps : app[j] \notin Closing /\ (j < i => app[j] # "none")
  /\ To(i, "reserve recovery")
  /\ UNCHANGED <<runtime, timers, owner, users, database>>

ReserveOwner(i, k) ==
  /\ app[i] = IF k = "recovery" THEN "reserve recovery" ELSE "reserve retention"
  /\ \/ /\ owner[k] = Nobody
        /\ owner' = [owner EXCEPT ![k] = i]
        /\ Become(i, k, "reserved")
        /\ To(i, IF k = "recovery" THEN "reserve retention" ELSE "register recovery")
     \/ /\ owner[k] # Nobody
        /\ To(i, "rollback") /\ UNCHANGED <<owner, runtime>>
  /\ UNCHANGED <<timers, users, database>>

(* The scheduler may throw before or after it has taken the callback. *)
Register(i, k) ==
  /\ app[i] = IF k = "recovery" THEN "register recovery" ELSE "register retention"
  /\ \/ /\ Become(i, k, "registered")
        /\ timers' = [timers EXCEPT ![i] = @ \cup {k}]
        /\ To(i, IF k = "recovery" THEN "register retention" ELSE "activate")
     \/ /\ UNCHANGED runtime /\ To(i, "rollback")
        /\ timers' \in {timers, [timers EXCEPT ![i] = @ \cup {k}]}
  /\ UNCHANGED <<owner, users, database>>

(* One reading of the clock, then the immediate pass of both runtimes. *)
Activate(i) ==
  /\ app[i] = "activate"
  /\ \/ /\ runtime' = [runtime EXCEPT ![i] = [k \in Kinds |-> "active"]]
        /\ users' = [users EXCEPT ![i] = @ \cup Kinds]
        /\ To(i, "workers")
     \/ To(i, "rollback") /\ UNCHANGED <<runtime, users>>
  /\ UNCHANGED <<timers, owner, database>>

(* cancelScheduled: the timers the runtimes know of; the scheduler may     *)
(* throw, which is logged, and the callbacks stay.                         *)
Cancelled(i, known) ==
  timers' \in {timers, [timers EXCEPT ![i] = @ \ known]}

(* abortStartup of whatever was prepared. *)
Rollback(i) ==
  /\ app[i] = "rollback"
  /\ Cancelled(i, Among(i, "registered"))
  /\ runtime' = [runtime EXCEPT ![i] = [k \in Kinds |-> "stopped"]]
  /\ owner' = [k \in Kinds |-> IF owner[k] = i THEN Nobody ELSE owner[k]]
  /\ To(i, "failed")
  /\ UNCHANGED <<users, database>>

(* The two workers subscribe.  When the second cannot be made the first is *)
(* stopped and the application closed behind the caller's back.            *)
StartWorkers(i) ==
  /\ app[i] = "workers"
  /\ To(i, "built") \/ To(i, "abandoned")
  /\ UNCHANGED <<runtime, timers, owner, users, database>>

(* startConfiguredApi: a port that cannot be bound closes what was built. *)
Listen(i) ==
  /\ Settled /\ app[i] = "built"
  /\ To(i, "listening") \/ To(i, "http")
  /\ UNCHANGED <<runtime, timers, owner, users, database>>

(***************************************************************************)
(* At work: the hourly timers, the workers' jobs and the readiness probes, *)
(* which go on after their request was answered at the deadline.           *)
(***************************************************************************)
TimerFires(i, k) ==
  /\ Settled /\ k \in timers[i]
  /\ runtime[i][k] = "active" /\ k \notin users[i]
  /\ users' = [users EXCEPT ![i] = @ \cup {k}]
  /\ UNCHANGED <<app, runtime, timers, owner, database>>

WorkStarts(i, work) ==
  /\ Settled
  /\ \/ work = "job" /\ app[i] \in {"built", "listening", "http"}
     \/ work = "probe" /\ app[i] = "listening"
  /\ work \notin users[i]
  /\ users' = [users EXCEPT ![i] = @ \cup {work}]
  /\ UNCHANGED <<app, runtime, timers, owner, database>>

WorkEnds(i, work) ==
  /\ Settled /\ work \in users[i]
  /\ users' = [users EXCEPT ![i] = @ \ {work}]
  /\ UNCHANGED <<app, runtime, timers, owner, database>>

(***************************************************************************)
(* Shutdown.  Fastify stops listening and waits for its connections, then  *)
(* runs the onClose hooks from the last one added to the first.            *)
(***************************************************************************)
BeginClose(i) ==
  /\ Settled /\ app[i] \in {"built", "listening"}
  /\ To(i, "http")
  /\ UNCHANGED <<runtime, timers, owner, users, database>>

HttpEnds(i) ==
  /\ Settled /\ app[i] = "http" /\ To(i, "stop workers")
  /\ UNCHANGED <<runtime, timers, owner, users, database>>

WorkersStopped(i) ==
  /\ Settled /\ app[i] = "stop workers" /\ "job" \notin users[i]
  /\ To(i, "stop runtimes")
  /\ UNCHANGED <<runtime, timers, owner, users, database>>

(* stop: no new pass from here on; the owner is released after the drain. *)
StopRuntimes(i) ==
  /\ Settled /\ app[i] \in {"stop runtimes", "abandoned"}
  /\ Among(i, "active") # {}
  /\ Cancelled(i, Among(i, "active"))
  /\ runtime' = [runtime EXCEPT ![i] = [k \in Kinds |-> "stopping"]]
  /\ app' = IF app[i] = "abandoned" THEN app ELSE [app EXCEPT ![i] = "drain"]
  /\ UNCHANGED <<owner, users, database>>

(* A bug: nobody waits for the pass. *)
PassAbandoned(i, k) == TRUE
PassOver(i, k) == k \notin users[i]

RuntimeDrained(i, k) ==
  /\ Settled /\ runtime[i][k] = "stopping" /\ PassOver(i, k)
  /\ Become(i, k, "stopped")
  /\ owner' = IF owner[k] = i THEN [owner EXCEPT ![k] = Nobody] ELSE owner
  /\ UNCHANGED <<app, timers, users, database>>

RuntimesStopped(i) ==
  /\ Settled /\ app[i] = "drain" /\ Among(i, "stopped") = Kinds
  /\ To(i, "stop probes")
  /\ UNCHANGED <<runtime, timers, owner, users, database>>

ProbesSettled(i) ==
  /\ Settled /\ app[i] = "stop probes" /\ "probe" \notin users[i]
  /\ To(i, "close resources")
  /\ UNCHANGED <<runtime, timers, owner, users, database>>

CloseResources(i) ==
  /\ Settled /\ app[i] = "close resources" /\ To(i, "closed")
  /\ database' = "closed"
  /\ UNCHANGED <<runtime, timers, owner, users>>

(* The catch of createLocalDemoRuntime: the composition threw, there is no *)
(* application to close, the resources are closed at once.                 *)
GiveUp(i) ==
  /\ Settled /\ app[i] \in {"failed", "abandoned"} /\ database = "open"
  /\ \A j \in Apps \ {i} : app[j] \in {"none", "failed"}
  /\ database' = "closed"
  /\ UNCHANGED <<app, runtime, timers, owner, users>>

----------------------------------------------------------------------------
StartStep(i) ==
  \/ \E k \in Kinds : ReserveOwner(i, k) \/ Register(i, k)
  \/ Activate(i) \/ Rollback(i) \/ StartWorkers(i)
CloseStep(i) ==
  \/ WorkersStopped(i) \/ StopRuntimes(i) \/ RuntimesStopped(i)
  \/ \E k \in Kinds : RuntimeDrained(i, k)
  \/ ProbesSettled(i) \/ CloseResources(i)
OperatorStep(i) == Begin(i) \/ Listen(i) \/ BeginClose(i) \/ GiveUp(i)
=============================================================================
