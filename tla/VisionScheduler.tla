-------------------------- MODULE VisionScheduler --------------------------
(***************************************************************************)
(* VisionBatchScheduler.run: a batch of frames sent to a vision provider   *)
(* by a few workers that share a cursor.                                   *)
(*                                                                         *)
(* A worker takes the next frame and calls the provider, at most           *)
(* Len(RetryDelays) + 1 times, until it is observed or cannot be.  A call  *)
(* races with a timer; a call that lost the race is abandoned, not         *)
(* stopped: the provider may go on with it for as long as it likes.  The   *)
(* first failure and the batch deadline abort the batch.  No processor     *)
(* passes a signal of its own.                                             *)
(*                                                                         *)
(* An action is the code between two awaits.  `now` is the time since the  *)
(* batch started, in steps that keep the order of the constants.           *)
(***************************************************************************)
EXTENDS VisionProvider, FiniteSetsExt

CONSTANTS
  Frames,          \* frames 1..Frames of the batch, in order
  MaxInFlight,     \* workers of a batch
  RequestTimeout,  \* the longest one call may take
  BatchDeadline,   \* the longest the batch may take
  RetryDelays,     \* pauses before the second and later calls of a frame
  Horizon          \* bound: the last instant of the clock

ASSUME SchedulerAssumption ==
  /\ Frames \in Nat \ {0} /\ MaxInFlight \in Nat \ {0}
  /\ RequestTimeout \in Nat \ {0} /\ BatchDeadline \in Nat \ {0}
  /\ RetryDelays \in Seq(Nat \ {0})
  /\ Horizon \in Nat /\ Horizon >= BatchDeadline

VARIABLES
  now,      \* clock.now() - startedAt
  cursor,   \* the last frame a worker took
  worker,   \* worker[w]: what the w-th worker awaits
  calls,    \* calls[f]: provider calls for frame f that have not settled
  results,  \* results[i]: the frame whose answer is the i-th result, or 0
  failure,  \* firstFailure, or NoFailure
  aborted,  \* controller.signal.aborted
  outcome   \* how run settled

batchVars == <<now, cursor, worker, calls, results, failure, aborted, outcome>>

FrameSet == 1..Frames
Workers == 1..Min({MaxInFlight, Frames})
Failures == {"temporary", "invalid"}
NoFailure == "none"
NoResults == [i \in FrameSet |-> 0]
Ready == [pc |-> "ready", frame |-> 0, retry |-> 0, until |-> 0]
Finished == [Ready EXCEPT !.pc = "finished"]

SchedulerTypeOK ==
  /\ now \in 0..Horizon /\ cursor \in Nat
  /\ worker \in [Workers -> [pc : {"ready", "calling", "sleeping", "finished"},
                             frame : 0..Frames, retry : 0..Len(RetryDelays),
                             until : 0..BatchDeadline]]
  /\ calls \in [FrameSet -> 0..(Len(RetryDelays) + 1)]
  /\ results \in [FrameSet -> 0..Frames]
  /\ failure \in Failures \cup {NoFailure} /\ aborted \in BOOLEAN
  /\ outcome \in {"idle", "running", "complete"} \cup Failures

BatchInit(started) ==
  /\ now = 0 /\ cursor = 0
  /\ worker = [w \in Workers |-> Ready]
  /\ calls = [f \in FrameSet |-> 0]
  /\ results = NoResults /\ failure = NoFailure /\ aborted = FALSE
  /\ outcome = started

-----------------------------------------------------------------------------
(* One worker.  dispatchWithRetry is the part from a call to its end.      *)

Running == outcome = "running"

(* The worker's catch: the first error is kept, and the batch is aborted.  *)
GiveUp(w, code) ==
  /\ failure' = IF failure = NoFailure THEN code ELSE failure
  /\ aborted' = TRUE
  /\ worker' = [worker EXCEPT ![w] = Finished]

(* The head of the retry loop: no call once the batch ran out of time or   *)
(* was aborted; otherwise one with what is left of both budgets.           *)
CallProvider(w, f, retry) ==
  IF now >= BatchDeadline \/ aborted
  THEN GiveUp(w, "temporary") /\ UNCHANGED calls
  ELSE /\ worker' = [worker EXCEPT ![w] =
            [pc |-> "calling", frame |-> f, retry |-> retry,
             until |-> Min({now + RequestTimeout, BatchDeadline})]]
       /\ calls' = [calls EXCEPT ![f] = @ + 1]
       /\ UNCHANGED <<failure, aborted>>

TakeFrame(w) ==
  /\ Running /\ worker[w].pc = "ready" /\ ~aborted
  /\ cursor' = cursor + 1
  /\ IF cursor' > Frames
     THEN /\ worker' = [worker EXCEPT ![w] = Finished]
          /\ UNCHANGED <<calls, failure, aborted>>
     ELSE CallProvider(w, cursor', 0)
  /\ UNCHANGED <<now, results, outcome>>

LeaveAborted(w) ==
  /\ Running /\ worker[w].pc = "ready" /\ aborted
  /\ worker' = [worker EXCEPT ![w] = Finished]
  /\ UNCHANGED <<now, cursor, calls, results, failure, aborted, outcome>>

(* What the provider can answer: a frame, an error worth another call      *)
(* (isRetryable), or one that is not.                                      *)
ProviderAnswer(w, answer) ==
  LET call == worker[w]
      late == now >= call.until
  IN /\ Running /\ call.pc = "calling"
     /\ calls' = [calls EXCEPT ![call.frame] = @ - 1]
     /\ CASE answer = "frame" /\ ~late ->
               /\ worker' = [worker EXCEPT ![w] = Ready]
               /\ results' = [results EXCEPT ![call.frame] = call.frame]
               /\ UNCHANGED <<failure, aborted>>
          [] answer # "frame" /\ ~late /\ ~aborted
               /\ answer = "temporary" /\ call.retry < Len(RetryDelays) ->
               /\ worker' = [worker EXCEPT ![w] =
                    [call EXCEPT !.pc = "sleeping",
                       !.until = Min({now + RetryDelays[call.retry + 1],
                                      BatchDeadline})]]
               /\ UNCHANGED <<results, failure, aborted>>
          [] OTHER ->
               /\ GiveUp(w, IF late \/ aborted THEN "temporary" ELSE answer)
               /\ UNCHANGED results
     /\ UNCHANGED <<now, cursor, outcome>>

(* Two bugs: a timed-out request is sent again at once; the abort of the   *)
(* batch clears the request timers.                                        *)
RequestTimesOutAndRetries(w) ==
  /\ Running /\ worker[w].pc = "calling" /\ now >= worker[w].until
  /\ CallProvider(w, worker[w].frame, worker[w].retry)
  /\ UNCHANGED <<now, cursor, results, outcome>>
RequestTimesOutUnlessAborted(w) ==
  /\ Running /\ worker[w].pc = "calling" /\ now >= worker[w].until /\ ~aborted
  /\ GiveUp(w, "temporary")
  /\ UNCHANGED <<now, cursor, calls, results, outcome>>

(* The request timer fires first.  The call stays out; nothing waits for   *)
(* it, and nothing will send its frame again.                              *)
RequestTimesOut(w) ==
  /\ Running /\ worker[w].pc = "calling" /\ now >= worker[w].until
  /\ GiveUp(w, "temporary")
  /\ UNCHANGED <<now, cursor, calls, results, outcome>>

(* The pause ends, or the abort of the batch ends it.                      *)
WakeUp(w) ==
  /\ Running /\ worker[w].pc = "sleeping"
  /\ now >= worker[w].until \/ aborted
  /\ CallProvider(w, worker[w].frame, worker[w].retry + 1)
  /\ UNCHANGED <<now, cursor, results, outcome>>

-----------------------------------------------------------------------------
(* The batch and its surroundings.                                         *)

(* An abandoned call settles; its worker is gone.                          *)
LateAnswer(f) ==
  /\ calls[f] > Cardinality({w \in Workers : worker[w].pc = "calling"
                                              /\ worker[w].frame = f})
  /\ calls' = [calls EXCEPT ![f] = @ - 1]
  /\ UNCHANGED <<now, cursor, worker, results, failure, aborted, outcome>>

BatchTimesOut ==
  /\ Running /\ ~aborted /\ now >= BatchDeadline
  /\ aborted' = TRUE
  /\ UNCHANGED <<now, cursor, worker, calls, results, failure, outcome>>

AllFinished == \A w \in Workers : worker[w].pc = "finished"

(* assertFrameCorrelation: every request has its own answer, in its place. *)
Correlated == \A i \in FrameSet : results[i] = i

SettleBatch ==
  /\ Running /\ AllFinished
  /\ outcome' = IF failure # NoFailure THEN failure
                ELSE IF aborted THEN "temporary"
                ELSE IF Correlated THEN "complete" ELSE "invalid"
  /\ UNCHANGED <<now, cursor, worker, calls, results, failure, aborted>>

Tick ==
  /\ Running /\ now < Horizon
  /\ now' = now + 1
  /\ UNCHANGED <<cursor, worker, calls, results, failure, aborted, outcome>>

WorkerStep(w) ==
  TakeFrame(w) \/ LeaveAborted(w) \/ RequestTimesOut(w) \/ WakeUp(w)

(* What happens by itself.                                                 *)
SchedulerStep ==
  \/ \E w \in Workers : WorkerStep(w)
  \/ BatchTimesOut \/ SettleBatch \/ Tick

BatchNext ==
  \/ SchedulerStep
  \/ \E w \in Workers, reply \in Replies : ProviderAnswer(w, AnswerOf(reply))
  \/ \E f \in FrameSet : LateAnswer(f)

(* Timers fire and continuations run.  Nothing makes a provider answer.    *)
BatchFairness == WF_batchVars(SchedulerStep)

-----------------------------------------------------------------------------
(* At most one call of a frame is out, counting calls the scheduler has    *)
(* given up on: a timed-out request is never sent again beside its late    *)
(* answer (the deadline check in dispatchWithRetry's catch).               *)
NoOverlappingRequests == \A f \in FrameSet : calls[f] <= 1
=============================================================================
