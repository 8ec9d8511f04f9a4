--------------------------- MODULE AnalysisQueue ---------------------------
(***************************************************************************)
(* The in-memory analysis queue and the mode-scoped workers it feeds.      *)
(*                                                                         *)
(* The queue runs `drain` from a microtask: a drain takes the first job    *)
(* some subscriber accepts, awaits its callback, and looks for the next.   *)
(* Every enqueue, subscription and rejection may schedule another drain,   *)
(* so several run at once, each inside a callback of its own.  An action   *)
(* is the code between two awaits.                                         *)
(*                                                                         *)
(* A job carries the mode of its attempt as a tag, or none (an older       *)
(* payload).  The tag only selects a consumer: the claim answers with the  *)
(* durable mode, and a worker of another mode hands the job on.            *)
(* Persistence faults, crashes and deletion are MediaDelivery's subject;   *)
(* here the store is one claim per attempt, and its calls succeed.         *)
(***************************************************************************)
EXTENDS Naturals, SequencesExt

CONSTANTS
  Attempts, Workers, Modes,
  AttemptMode,    \* AttemptMode[a]: the durable mode of attempt a
  WorkerMode,     \* WorkerMode[w]: the mode worker w was composed for
  NoMode,         \* the tag of an untagged job
  Drains,         \* bound: drains that run at once
  NoDrain, NoAttempt, NoWorker,
  MaxAttempts,    \* UnexpectedRetryPolicy.maxAttempts
  MaxEnqueues,    \* bound: jobs the host enqueues
  MaxExpiries     \* bound: leases that run out under a live callback

ASSUME QueueAssumption ==
  /\ AttemptMode \in [Attempts -> Modes] /\ WorkerMode \in [Workers -> Modes]
  /\ NoMode \notin Modes /\ NoDrain \notin Drains
  /\ NoAttempt \notin Attempts /\ NoWorker \notin Workers
  /\ IsFiniteSet(Drains)
  /\ MaxAttempts \in Nat \ {0} /\ MaxEnqueues \in Nat /\ MaxExpiries \in Nat

VARIABLES
  pending,    \* state.pending
  subs,       \* state.subscribers, in insertion order
  scheduled,  \* state.drainScheduled
  closed,     \* state.closed
  drain,      \* drain[d]: a drain, and the callback it awaits
  worker,     \* worker[w]: lifecycle of a worker
  claim,      \* claim[a]: the processing claim of attempt a in the store
  retries,    \* retries[a]: its recorded failures
  enqueued,   \* attempts the host enqueued
  enqueues,   \* jobs the host enqueued so far
  expiries    \* leases that ran out so far

queueState == <<pending, subs, scheduled, closed>>
storeState == <<claim, retries>>
bounds == <<enqueued, enqueues, expiries>>
vars == <<queueState, drain, worker, storeState, bounds>>

Job == [attempt : Attempts, tag : Modes \cup {NoMode}]
NoJob == [attempt |-> NoAttempt, tag |-> NoMode]
Idle == [pc |-> "idle", job |-> NoJob, worker |-> NoWorker]
Checking == [Idle EXCEPT !.pc = "checking"]
InCallback == {"returning", "misrouted", "reroute", "processing", "rejecting"}
Unclaimed == [status |-> "uploaded", holder |-> NoDrain, live |-> FALSE]

TypeOK ==
  /\ pending \in Seq(Job)
  /\ subs \in Seq(Workers) /\ IsInjective(subs)
  /\ scheduled \in BOOLEAN /\ closed \in BOOLEAN
  /\ drain \in [Drains -> [pc : {"idle", "checking"} \cup InCallback,
                           job : Job \cup {NoJob}, worker : Workers \cup {NoWorker}]]
  /\ worker \in [Workers -> {"new", "running", "stopping", "stopped"}]
  /\ claim \in [Attempts -> [status : {"uploaded", "processing", "done"},
                             holder : Drains \cup {NoDrain}, live : BOOLEAN]]
  /\ retries \in [Attempts -> 0..MaxAttempts]
  /\ enqueued \subseteq Attempts /\ enqueues \in 0..MaxEnqueues
  /\ expiries \in 0..MaxExpiries

Init ==
  /\ pending = <<>> /\ subs = <<>> /\ scheduled = FALSE /\ closed = FALSE
  /\ drain = [d \in Drains |-> Idle]
  /\ worker = [w \in Workers |-> "new"]
  /\ claim = [a \in Attempts |-> Unclaimed]
  /\ retries = [a \in Attempts |-> 0]
  /\ enqueued = {} /\ enqueues = 0 /\ expiries = 0

-----------------------------------------------------------------------------
(* The queue.                                                              *)

(* acceptsDelivery                                                         *)
Accepts(w, job) == job.tag = NoMode \/ WorkerMode[w] = job.tag

(* scheduleDrain, after pending became `jobs`.                             *)
ScheduledOnlyWhenIdle(jobs) ==
  scheduled \/ (jobs # <<>> /\ \A d \in Drains : drain[d].pc = "idle")
Scheduled(jobs) == scheduled \/ jobs # <<>>

Pushed(job) ==
  /\ ~closed
  /\ pending' = Append(pending, job)
  /\ scheduled' = Scheduled(pending')
  /\ UNCHANGED <<subs, closed>>

(* The host, at upload or at redelivery; a closed queue throws instead.    *)
Enqueue(a, tag) ==
  /\ enqueues < MaxEnqueues
  /\ tag \in {AttemptMode[a], NoMode}
  /\ Pushed([attempt |-> a, tag |-> tag])
  /\ enqueued' = enqueued \cup {a} /\ enqueues' = enqueues + 1
  /\ UNCHANGED <<drain, worker, storeState, expiries>>

IdleDrains == {d \in Drains : drain[d].pc = "idle"}

(* The scheduled microtask resets the flag before it drains.               *)
StartDrain ==
  /\ scheduled /\ IdleDrains # {}
  /\ scheduled' = FALSE
  /\ drain' = [drain EXCEPT ![CHOOSE d \in IdleDrains : TRUE] = Checking]
  /\ UNCHANGED <<pending, subs, closed, worker, storeState, bounds>>

Deliverable ==
  {i \in DOMAIN pending : \E w \in ToSet(subs) : Accepts(w, pending[i])}

EndDrain(d) ==
  /\ drain[d].pc = "checking"
  /\ closed \/ Deliverable = {}
  /\ drain' = [drain EXCEPT ![d] = Idle]
  /\ UNCHANGED <<queueState, worker, storeState, bounds>>

Smallest(S) == CHOOSE i \in S : \A j \in S : i <= j

(* claimProcessing, which runs in the same step as the removal of the job: *)
(* null, a claim of the worker's own mode, or a claim of another mode.     *)
Claimable(a) ==
  \/ claim[a].status = "uploaded"
  \/ claim[a].status = "processing" /\ ~claim[a].live
AfterClaimAnyMode(a, w) == IF Claimable(a) THEN "processing" ELSE "returning"
AfterClaim(a, w) ==
  IF ~Claimable(a) THEN "returning"
  ELSE IF WorkerMode[w] = AttemptMode[a] THEN "processing" ELSE "misrouted"

(* A stopping worker is not subscribed any more, so no job reaches it: its *)
(* WorkerStoppingError is out of reach as long as unsubscribing succeeds.  *)
Deliver(d) ==
  /\ drain[d].pc = "checking" /\ ~closed /\ Deliverable # {}
  /\ LET i == Smallest(Deliverable)
         job == pending[i]
         w == subs[Smallest({k \in DOMAIN subs : Accepts(subs[k], job)})]
         a == job.attempt
     IN
     /\ pending' = RemoveAt(pending, i)
     /\ drain' = [drain EXCEPT ![d] =
                    [pc |-> AfterClaim(a, w), job |-> job, worker |-> w]]
     /\ claim' = IF Claimable(a)
                 THEN [claim EXCEPT ![a] =
                         [status |-> "processing", holder |-> d, live |-> TRUE]]
                 ELSE claim
  /\ UNCHANGED <<subs, scheduled, closed, worker, retries, bounds>>

(* The callback returned: the drain looks for the next job.                *)
Return(d) ==
  /\ drain[d].pc = "returning"
  /\ drain' = [drain EXCEPT ![d] = Checking]
  /\ UNCHANGED <<queueState, worker, storeState, bounds>>

(* The callback rejected: the job goes back to the head, and the drain is  *)
(* over.                                                                   *)
PutBackNowhere(job) == pending
PutBack(job) == <<job>> \o pending

Reject(d) ==
  /\ drain[d].pc = "rejecting"
  /\ pending' = PutBack(drain[d].job)
  /\ scheduled' = Scheduled(pending')
  /\ drain' = [drain EXCEPT ![d] = Idle]
  /\ UNCHANGED <<subs, closed, worker, storeState, bounds>>

Close ==
  /\ ~closed
  /\ \A w \in Workers : worker[w] \in {"new", "stopped"}
  /\ closed' = TRUE /\ subs' = <<>>
  /\ UNCHANGED <<pending, scheduled, drain, worker, storeState, bounds>>

-----------------------------------------------------------------------------
(* AnalysisWorker.deliver, once it has its claim.                          *)

Goto(d, pc) == drain' = [drain EXCEPT ![d].pc = pc]
Holds(d, a) == claim[a].status = "processing" /\ claim[a].holder = d
Released(d, a) == IF Holds(d, a) THEN [claim EXCEPT ![a] = Unclaimed] ELSE claim

(* A claim of another mode is released, and the job enqueued under it.     *)
ReleaseMisrouted(d) ==
  LET a == drain[d].job.attempt IN
  /\ drain[d].pc = "misrouted"
  /\ claim' = Released(d, a)
  /\ Goto(d, IF Holds(d, a) THEN "reroute" ELSE "rejecting")
  /\ UNCHANGED <<queueState, worker, retries, bounds>>

RouteTagUnchanged(job) == job.tag
RouteTag(job) == AttemptMode[job.attempt]

Reroute(d) ==
  LET job == drain[d].job IN
  /\ drain[d].pc = "reroute"
  /\ \/ Pushed([job EXCEPT !.tag = RouteTag(job)]) /\ Goto(d, "returning")
     \/ closed /\ Goto(d, "rejecting") /\ UNCHANGED queueState
  /\ UNCHANGED <<worker, storeState, bounds>>

(* The terminal write needs a live lease; a lost claim is let go, and the  *)
(* job rejected.                                                           *)
Finalize(d) ==
  LET a == drain[d].job.attempt IN
  IF Holds(d, a) /\ claim[a].live
  THEN /\ claim' = [claim EXCEPT ![a] = [Unclaimed EXCEPT !.status = "done"]]
       /\ Goto(d, "returning")
  ELSE claim' = Released(d, a) /\ Goto(d, "rejecting")

Process(d) ==
  /\ drain[d].pc = "processing"
  /\ Finalize(d)
  /\ UNCHANGED <<queueState, worker, retries, bounds>>

(* recover(): a counted failure is retried until it has to be terminal.    *)
(* The count stops here at what the worker compares it with.               *)
RetryableFailure(d) ==
  LET a == drain[d].job.attempt IN
  /\ drain[d].pc = "processing"
  /\ \/ /\ Holds(d, a)
        /\ retries' = [retries EXCEPT ![a] = IF @ < MaxAttempts THEN @ + 1 ELSE @]
        /\ \/ retries'[a] >= MaxAttempts /\ Finalize(d)
           \/ retries'[a] < MaxAttempts /\ claim' = Released(d, a) /\ Goto(d, "rejecting")
     \/ ~Holds(d, a) /\ Goto(d, "rejecting") /\ UNCHANGED storeState
  /\ UNCHANGED <<queueState, worker, bounds>>

LeaseExpires(a) ==
  /\ claim[a].live /\ expiries < MaxExpiries
  /\ claim' = [claim EXCEPT ![a].live = FALSE]
  /\ expiries' = expiries + 1
  /\ UNCHANGED <<queueState, drain, worker, retries, enqueued, enqueues>>

-----------------------------------------------------------------------------
(* Worker lifecycle.                                                       *)

StartAllowed(w) == worker[w] = "new"

Start(w) ==
  /\ StartAllowed(w) /\ ~closed
  /\ worker' = [worker EXCEPT ![w] = "running"]
  /\ subs' = Append(subs, w)
  /\ scheduled' = Scheduled(pending)
  /\ UNCHANGED <<pending, closed, drain, storeState, bounds>>

(* Stop intake first, ...                                                  *)
Stop(w) ==
  /\ worker[w] = "running"
  /\ worker' = [worker EXCEPT ![w] = "stopping"]
  /\ subs' = RemoveAt(subs, CHOOSE k \in DOMAIN subs : subs[k] = w)
  /\ UNCHANGED <<pending, scheduled, closed, drain, storeState, bounds>>

(* ... then drain the callbacks that already hold a lease.                 *)
AnythingSettled(w) ==
  \E d \in Drains : ~(drain[d].worker = w /\ drain[d].pc \in InCallback)
NothingLeftToDo(w) ==
  /\ pending = <<>>
  /\ \A d \in Drains : ~(drain[d].worker = w /\ drain[d].pc \in InCallback)
NothingInFlight(w) ==
  \A d \in Drains : ~(drain[d].worker = w /\ drain[d].pc \in InCallback)

Stopped(w) ==
  /\ worker[w] = "stopping" /\ NothingInFlight(w)
  /\ worker' = [worker EXCEPT ![w] = "stopped"]
  /\ UNCHANGED <<queueState, drain, storeState, bounds>>

-----------------------------------------------------------------------------
CallbackStep(d) ==
  \/ ReleaseMisrouted(d) \/ Reroute(d) \/ Process(d) \/ RetryableFailure(d)
DrainStep(d) == EndDrain(d) \/ Deliver(d) \/ Return(d) \/ Reject(d) \/ CallbackStep(d)

Next ==
  \/ \E a \in Attempts, tag \in Modes \cup {NoMode} : Enqueue(a, tag)
  \/ StartDrain
  \/ \E d \in Drains : DrainStep(d)
  \/ \E a \in Attempts : LeaseExpires(a)
  \/ \E w \in Workers : Start(w) \/ Stop(w) \/ Stopped(w)
  \/ Close

(* Microtasks run, and every awaited callback settles: a processor has a   *)
(* deadline of its own.  Nothing makes the host start, stop or enqueue.    *)
Spec == Init /\ [][Next]_vars
FairSpec ==
  /\ Spec
  /\ WF_vars(StartDrain)
  /\ \A d \in Drains : WF_vars(DrainStep(d))
  /\ \A w \in Workers : WF_vars(Stopped(w))

-----------------------------------------------------------------------------
(* No wake-up is lost: whenever an open queue holds a job a subscriber     *)
(* accepts, a drain is scheduled or still running that will look for it.   *)
NoLostWakeUp ==
  ~closed /\ Deliverable # {} =>
    scheduled \/ \E d \in Drains : drain[d].pc # "idle"

(* A live lease belongs to a callback that is still working under it, and  *)
(* a processor only sees claims of its worker's mode: "Free can never      *)
(* terminalize a Verified row", however the job was tagged.                *)
LiveLeaseIsWorkedOn ==
  \A a \in Attempts : claim[a].live =>
    LET d == claim[a].holder IN
    /\ drain[d].pc \in {"processing", "misrouted"} /\ drain[d].job.attempt = a
    /\ drain[d].pc = "processing" => WorkerMode[drain[d].worker] = AttemptMode[a]

(* Once a worker's stop has answered, nothing of it is in flight and it    *)
(* holds no lease; once the queue is closed, nobody's callback is.         *)
StopDrainsEverything ==
  /\ \A w \in Workers : worker[w] = "stopped" =>
       \A d \in Drains : drain[d].worker = w => drain[d].pc \notin InCallback
  /\ closed => \A a \in Attempts : claim[a].status # "processing"

(* Counted jobs, whatever their order, tag and consumer: the queue is the  *)
(* at-least-once queue MediaDelivery assumes.                              *)
JobsOf(jobs, a) == {i \in DOMAIN jobs : jobs[i].attempt = a}
DrainsAt(pcs, a) == {d \in Drains : drain[d].pc \in pcs /\ drain[d].job.attempt = a}
Waiting == [a \in Attempts |-> Cardinality(JobsOf(pending, a))]
Held == [a \in Attempts |-> Cardinality(DrainsAt(InCallback \ {"rejecting"}, a))]
Refused == [a \in Attempts |-> Cardinality(DrainsAt({"rejecting"}, a))]

Promised == INSTANCE AtLeastOnceQueue WITH waiting <- Waiting, held <- Held, refused <- Refused
ImplementsAtLeastOnce == Promised!Spec

(* An enqueued attempt becomes terminal as long as a worker of its mode    *)
(* runs, whichever worker its job reaches first and whatever waits before  *)
(* it.                                                                     *)
Served(a) == \E w \in Workers : worker[w] = "running" /\ WorkerMode[w] = AttemptMode[a]
EnqueuedIsAnalysed ==
  \A a \in Attempts :
    a \in enqueued /\ Served(a) ~> claim[a].status = "done" \/ ~Served(a)

(* Stopping a worker ends.                                                 *)
StopEnds == \A w \in Workers : worker[w] = "stopping" ~> worker[w] = "stopped"
=============================================================================
