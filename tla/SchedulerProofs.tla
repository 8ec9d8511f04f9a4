--------------------------- MODULE SchedulerProofs ---------------------------
(***************************************************************************)
(* The vision scheduler and the benchmark that measures through it, for    *)
(* any number of frames, workers and retries and any deadlines.            *)
(***************************************************************************)
EXTENDS WorkflowBenchmark, FiniteSetTheorems, TLAPS

-----------------------------------------------------------------------------
(* The invariant of a batch.                                               *)

Busy(w) == worker[w].pc \in {"calling", "sleeping"}
CallerOf(f) == {w \in Workers : worker[w].pc = "calling" /\ worker[w].frame = f}

(* A worker's frame was taken, has no answer yet, and has one call out     *)
(* while the worker waits for it and none while it pauses.                 *)
FramesAreTaken ==
  \A w \in Workers : Busy(w) =>
    /\ worker[w].frame \in FrameSet /\ worker[w].frame <= cursor
    /\ results[worker[w].frame] = 0
    /\ worker[w].pc = "calling" => calls[worker[w].frame] = 1
    /\ worker[w].pc = "sleeping" => /\ calls[worker[w].frame] = 0
                                    /\ worker[w].retry < Len(RetryDelays)

WorkersHaveOwnFrames ==
  \A w, v \in Workers :
    Busy(w) /\ Busy(v) /\ worker[w].frame = worker[v].frame => w = v

(* The frames the cursor has not reached are untouched.                    *)
AheadIsUntouched ==
  \A f \in FrameSet : f > cursor => calls[f] = 0 /\ results[f] = 0

CallsAreSingle == \A f \in FrameSet : calls[f] \in {0, 1}
ResultsAreInPlace == \A f \in FrameSet : results[f] \in {0, f}

(* Until the first failure, every call that is out has its worker.         *)
CallsHaveCallers ==
  failure = NoFailure => \A f \in FrameSet : calls[f] = 1 => CallerOf(f) # {}

CompleteIsCorrelated ==
  outcome = "complete" => failure = NoFailure /\ AllFinished /\ Correlated

BatchInv ==
  /\ SchedulerTypeOK
  /\ FramesAreTaken /\ WorkersHaveOwnFrames /\ AheadIsUntouched
  /\ CallsAreSingle /\ ResultsAreInPlace /\ CallsHaveCallers
  /\ CompleteIsCorrelated

(* The invariant of a benchmark: while nothing has failed, a frame has one *)
(* sample of every earlier batch, and one of this batch once it answered.  *)
BenchType ==
  [stage : {"none", "running", "passed", "failed", "refused"},
   sent : [Workers -> Nat], samples : [FrameSet -> Nat], slow : Nat,
   runs : Seq([manifest : Nat, inTime : BOOLEAN])]

SamplesAreCounted ==
  Measuring /\ failure = NoFailure =>
    \A f \in FrameSet :
      bench.samples[f] = Len(bench.runs) + (IF results[f] = f THEN 1 ELSE 0)

ReceiptRests ==
  /\ bench.stage \in {"passed", "failed"} =>
       \A f \in FrameSet : bench.samples[f] = Manifests
  /\ bench.stage = "passed" =>
       /\ \A i \in 1..Manifests : bench.runs[i].inTime
       /\ 100 * bench.slow <= (100 - Percentile) * Manifests * Frames

BenchInv == bench \in BenchType /\ SamplesAreCounted /\ ReceiptRests

-----------------------------------------------------------------------------
(* Smaller facts.                                                          *)

Row == [pc : {"ready", "calling", "sleeping", "finished"}, frame : 0..Frames,
        retry : 0..Len(RetryDelays), until : 0..BatchDeadline]

LEMMA LesserOfTwo ==
  ASSUME NEW m \in Nat, NEW n \in Nat
  PROVE  Min({m, n}) \in Nat /\ Min({m, n}) <= n /\ Min({m, n}) \in {m, n}
<1>1. \E x \in {m, n} : \A y \in {m, n} : x <= y
  OBVIOUS
<1>2. Min({m, n}) \in {m, n} /\ \A y \in {m, n} : Min({m, n}) <= y
  BY <1>1 DEF Min
<1> QED BY <1>2

LEMMA WorkersAreFinite == Workers \subseteq Nat /\ IsFiniteSet(Workers)
<1>1. Min({MaxInFlight, Frames}) \in Nat
  BY LesserOfTwo, SchedulerAssumption
<1>2. IsFiniteSet(Workers)
  BY <1>1, FS_Interval DEF Workers
<1> QED BY <1>1, <1>2 DEF Workers

(* Writing one worker's row leaves the others.                             *)
LEMMA OneRowChanges ==
  ASSUME worker \in [Workers -> Row], NEW w \in Workers, NEW row \in Row,
         worker' = [worker EXCEPT ![w] = row]
  PROVE  /\ worker' \in [Workers -> Row] /\ worker'[w] = row
         /\ \A v \in Workers \ {w} : worker'[v] = worker[v]
<1> HIDE DEF Row
<1> QED OBVIOUS

LEMMA StillRows ==
  Ready \in Row /\ Finished \in Row /\ Ready.pc = "ready" /\ Finished.pc = "finished"
BY SchedulerAssumption DEF Ready, Finished, Row

LEMMA AnswersAreThree ==
  ASSUME NEW reply \in Replies
  PROVE  AnswerOf(reply) \in {"frame", "temporary", "invalid"}
BY DEF AnswerOf

-----------------------------------------------------------------------------
(* What a worker's step does to the invariant.                             *)

(* The state between steps, with the failure flag left out.                *)
BatchTypes ==
  /\ worker \in [Workers -> Row]
  /\ now \in 0..Horizon /\ cursor \in Nat
  /\ calls \in [FrameSet -> Int] /\ results \in [FrameSet -> 0..Frames]
  /\ failure \in Failures \cup {NoFailure} /\ aborted \in BOOLEAN
  /\ outcome \in {"idle", "running", "complete"} \cup Failures

LEMMA BatchTypesAndCounts ==
  BatchTypes /\ CallsAreSingle <=> SchedulerTypeOK /\ CallsAreSingle
<1>1. ASSUME BatchTypes, CallsAreSingle PROVE SchedulerTypeOK
  <2>1. calls \in [FrameSet -> 0..(Len(RetryDelays) + 1)]
    BY <1>1, SchedulerAssumption DEF BatchTypes, CallsAreSingle
  <2> QED BY <1>1, <2>1 DEF BatchTypes, SchedulerTypeOK, Row
<1>2. ASSUME SchedulerTypeOK PROVE BatchTypes
  <2>1. calls \in [FrameSet -> Int]
    BY <1>2, SchedulerAssumption DEF SchedulerTypeOK
  <2> QED BY <1>2, <2>1 DEF BatchTypes, SchedulerTypeOK, Row
<1> QED BY <1>1, <1>2

Core ==
  /\ BatchTypes /\ FramesAreTaken /\ WorkersHaveOwnFrames /\ AheadIsUntouched
  /\ CallsAreSingle /\ ResultsAreInPlace /\ CallsHaveCallers
  /\ CompleteIsCorrelated

LEMMA CoreIsBatchInv == Core <=> BatchInv
BY BatchTypesAndCounts DEF Core, BatchInv

(* A worker without a frame ends.                                          *)
LEMMA ReadyWorkerStops ==
  ASSUME Core, Running, NEW w \in Workers, ~Busy(w),
         worker' = [worker EXCEPT ![w] = Finished],
         cursor' \in Nat, cursor' >= cursor,
         UNCHANGED <<now, calls, results, failure, aborted, outcome>>
  PROVE  Core'
<1>1. /\ worker' \in [Workers -> Row] /\ worker'[w] = Finished
      /\ \A v \in Workers \ {w} : worker'[v] = worker[v]
  BY OneRowChanges, StillRows DEF Core, BatchTypes
<1>2. BatchTypes'
  BY <1>1 DEF Core, BatchTypes
<1>3. ~Busy(w)' /\ \A v \in Workers \ {w} : Busy(v)' <=> Busy(v)
  BY <1>1, StillRows DEF Busy
<1>4. FramesAreTaken'
  <2>1. ASSUME NEW v \in Workers, Busy(v)'
        PROVE  v # w /\ Busy(v) /\ worker'[v] = worker[v]
    BY <2>1, <1>1, <1>3
  <2> SUFFICES ASSUME NEW v \in Workers, Busy(v)'
               PROVE  /\ worker'[v].frame \in FrameSet /\ worker'[v].frame <= cursor'
                      /\ results'[worker'[v].frame] = 0
                      /\ worker'[v].pc = "calling" => calls'[worker'[v].frame] = 1
                      /\ worker'[v].pc = "sleeping" =>
                           /\ calls'[worker'[v].frame] = 0
                           /\ worker'[v].retry < Len(RetryDelays)
    BY DEF FramesAreTaken
  <2> QED BY <2>1 DEF Core, BatchTypes, FramesAreTaken, FrameSet
<1>5. WorkersHaveOwnFrames'
  BY <1>1, <1>3 DEF Core, WorkersHaveOwnFrames
<1>6. AheadIsUntouched'
  BY DEF Core, BatchTypes, AheadIsUntouched, FrameSet
<1>7. CallsHaveCallers'
  <2> SUFFICES ASSUME failure = NoFailure, NEW f \in FrameSet, calls[f] = 1
               PROVE  CallerOf(f)' # {}
    BY DEF CallsHaveCallers
  <2>1. PICK v \in Workers : worker[v].pc = "calling" /\ worker[v].frame = f
    BY DEF Core, CallsHaveCallers, CallerOf
  <2>2. v # w
    BY <2>1 DEF Busy
  <2> QED BY <2>1, <2>2, <1>1 DEF CallerOf
<1> QED BY <1>2, <1>4, <1>5, <1>6, <1>7
        DEF Core, CallsAreSingle, ResultsAreInPlace, CompleteIsCorrelated, Running

(* A worker moves on with its frame, or takes one, or lets it go.          *)
LEMMA WorkerMoves ==
  ASSUME Core, Running, NEW w \in Workers, NEW row \in Row, NEW f \in FrameSet,
         Busy(w) => worker[w].frame = f,
         \A v \in Workers \ {w} : Busy(v) => worker[v].frame # f,
         worker' = [worker EXCEPT ![w] = row],
         cursor' \in Nat, cursor' >= cursor, f <= cursor',
         calls' \in [FrameSet -> Int], results' \in [FrameSet -> 0..Frames],
         \A g \in FrameSet \ {f} : calls'[g] = calls[g] /\ results'[g] = results[g],
         calls'[f] \in {0, 1}, results'[f] \in {0, f},
         row.pc \in {"calling", "sleeping"} =>
           /\ row.frame = f /\ results'[f] = 0
           /\ row.pc = "calling" => calls'[f] = 1
           /\ row.pc = "sleeping" => calls'[f] = 0 /\ row.retry < Len(RetryDelays),
         failure' \in Failures \cup {NoFailure}, aborted' \in BOOLEAN,
         failure' = NoFailure =>
           failure = NoFailure /\ (calls'[f] = 1 => row.pc = "calling"),
         UNCHANGED <<now, outcome>>
  PROVE  Core'
<1>1. /\ worker' \in [Workers -> Row] /\ worker'[w] = row
      /\ \A v \in Workers \ {w} : worker'[v] = worker[v]
  BY OneRowChanges DEF Core, BatchTypes
<1>2. BatchTypes'
  BY <1>1 DEF Core, BatchTypes
<1>3. \A v \in Workers \ {w} : Busy(v)' <=> Busy(v)
  BY <1>1 DEF Busy
<1>4. FramesAreTaken'
  <2> SUFFICES ASSUME NEW v \in Workers, Busy(v)'
               PROVE  /\ worker'[v].frame \in FrameSet /\ worker'[v].frame <= cursor'
                      /\ results'[worker'[v].frame] = 0
                      /\ worker'[v].pc = "calling" => calls'[worker'[v].frame] = 1
                      /\ worker'[v].pc = "sleeping" =>
                           /\ calls'[worker'[v].frame] = 0
                           /\ worker'[v].retry < Len(RetryDelays)
    BY DEF FramesAreTaken
  <2>1. CASE v = w
    BY <2>1, <1>1 DEF Busy
  <2>2. CASE v # w
    <3>1. Busy(v) /\ worker'[v] = worker[v] /\ worker[v].frame # f
      BY <2>2, <1>1, <1>3
    <3> DEFINE g == worker[v].frame
    <3>2. /\ g \in FrameSet /\ g <= cursor /\ results[g] = 0
          /\ worker[v].pc = "calling" => calls[g] = 1
          /\ worker[v].pc = "sleeping" => calls[g] = 0 /\ worker[v].retry < Len(RetryDelays)
      BY <3>1 DEF Core, FramesAreTaken
    <3>3. g \in FrameSet \ {f} /\ g <= cursor'
      BY <3>1, <3>2 DEF Core, BatchTypes, FrameSet
    <3> QED BY <3>1, <3>2, <3>3
  <2> QED BY <2>1, <2>2
<1>5. WorkersHaveOwnFrames'
  <2> SUFFICES ASSUME NEW u \in Workers, NEW v \in Workers, Busy(u)', Busy(v)',
                      worker'[u].frame = worker'[v].frame
               PROVE  u = v
    BY DEF WorkersHaveOwnFrames
  <2>1. worker'[w].pc \in {"calling", "sleeping"} => worker'[w].frame = f
    BY <1>1
  <2> QED BY <2>1, <1>1, <1>3 DEF Core, WorkersHaveOwnFrames, Busy
<1>6. AheadIsUntouched'
  BY DEF Core, BatchTypes, AheadIsUntouched, FrameSet
<1>7. CallsHaveCallers'
  <2> SUFFICES ASSUME failure' = NoFailure, NEW g \in FrameSet, calls'[g] = 1
               PROVE  CallerOf(g)' # {}
    BY DEF CallsHaveCallers
  <2>1. CASE g = f
    BY <2>1, <1>1 DEF CallerOf
  <2>2. CASE g # f
    <3>1. PICK v \in Workers : worker[v].pc = "calling" /\ worker[v].frame = g
      BY <2>2 DEF Core, CallsHaveCallers, CallerOf
    <3>2. v # w
      BY <3>1, <2>2 DEF Busy
    <3> QED BY <3>1, <3>2, <1>1 DEF CallerOf
  <2> QED BY <2>1, <2>2
<1>8. CallsAreSingle' /\ ResultsAreInPlace'
  BY DEF Core, CallsAreSingle, ResultsAreInPlace
<1> QED BY <1>2, <1>4, <1>5, <1>6, <1>7, <1>8
        DEF Core, CompleteIsCorrelated, Running

-----------------------------------------------------------------------------
(* The steps of a batch.                                                   *)

LEMMA CoreTypes ==
  ASSUME Core
  PROVE  /\ worker \in [Workers -> Row] /\ now \in 0..Horizon /\ cursor \in Nat
         /\ cursor >= cursor
         /\ calls \in [FrameSet -> Int] /\ results \in [FrameSet -> 0..Frames]
         /\ failure \in Failures \cup {NoFailure} /\ aborted \in BOOLEAN
BY DEF Core, BatchTypes

LEMMA TakeFrameKeeps ==
  ASSUME Core, NEW w \in Workers, TakeFrame(w)
  PROVE  Core'
<1>1. /\ Running /\ ~Busy(w) /\ cursor \in Nat /\ cursor' = cursor + 1
      /\ ~aborted
  BY DEF TakeFrame, Core, BatchTypes, Busy
<1>2. CASE cursor' > Frames
  BY <1>1, <1>2, ReadyWorkerStops DEF TakeFrame
<1>3. CASE ~(cursor' > Frames)
  <2> DEFINE f == cursor'
  <2>1. f \in FrameSet /\ f > cursor
    BY <1>1, <1>3, SchedulerAssumption DEF FrameSet
  <2>2. calls[f] = 0 /\ results[f] = 0
    BY <2>1 DEF Core, AheadIsUntouched
  <2>3. \A v \in Workers \ {w} : Busy(v) => worker[v].frame # f
    <3> SUFFICES ASSUME NEW v \in Workers, Busy(v) PROVE worker[v].frame # f
      OBVIOUS
    <3>1. worker[v].frame \in FrameSet /\ worker[v].frame <= cursor
      BY DEF Core, FramesAreTaken
    <3> QED BY <3>1, <2>1, <1>1 DEF FrameSet
  <2>4. CallProvider(w, f, 0) /\ UNCHANGED <<now, results, outcome>>
    BY <1>3 DEF TakeFrame
  <2>a. f <= cursor' /\ cursor' >= cursor /\ cursor' \in Nat
    BY <1>1
  <2> HIDE DEF f
  <2>5. CASE now >= BatchDeadline \/ aborted
    <3>1. GiveUp(w, "temporary") /\ UNCHANGED calls
      BY <2>4, <2>5 DEF CallProvider
    <3>2. failure' \in Failures /\ failure' # NoFailure /\ aborted' = TRUE
      BY <3>1 DEF GiveUp, Core, BatchTypes, Failures, NoFailure
    <3>3. worker' = [worker EXCEPT ![w] = Finished]
      BY <3>1 DEF GiveUp
    <3> QED BY <1>1, <2>1, <2>2, <2>3, <2>4, <2>a, <3>1, <3>2, <3>3, StillRows, WorkerMoves, CoreTypes
  <2>6. CASE ~(now >= BatchDeadline \/ aborted)
    <3> DEFINE row == [pc |-> "calling", frame |-> f, retry |-> 0,
                       until |-> Min({now + RequestTimeout, BatchDeadline})]
    <3>1. /\ worker' = [worker EXCEPT ![w] = row]
          /\ calls' = [calls EXCEPT ![f] = @ + 1]
          /\ UNCHANGED <<failure, aborted>>
      BY <2>4, <2>6 DEF CallProvider
    <3>2. Min({now + RequestTimeout, BatchDeadline}) \in 0..BatchDeadline
      <4>1. now + RequestTimeout \in Nat /\ BatchDeadline \in Nat
        BY SchedulerAssumption DEF Core, BatchTypes
      <4> QED BY <4>1, LesserOfTwo
    <3>3. row \in Row /\ row.pc = "calling" /\ row.frame = f
      BY <3>2, <2>1, SchedulerAssumption DEF Row, FrameSet
    <3>4. /\ calls' \in [FrameSet -> Int] /\ calls'[f] = 1
          /\ \A g \in FrameSet \ {f} : calls'[g] = calls[g]
      BY <3>1, <2>1, <2>2 DEF Core, BatchTypes
    <3> HIDE DEF row
    <3> QED BY <1>1, <2>1, <2>2, <2>3, <2>4, <2>a, <3>1, <3>3, <3>4, WorkerMoves, CoreTypes
  <2> QED BY <2>5, <2>6
<1> QED BY <1>2, <1>3

(* What a worker with a frame can rely on.                                 *)
LEMMA OwnFrame ==
  ASSUME Core, NEW w \in Workers, Busy(w)
  PROVE  /\ worker[w] \in Row
         /\ worker[w].frame \in FrameSet /\ worker[w].frame <= cursor
         /\ results[worker[w].frame] = 0
         /\ calls[worker[w].frame] = IF worker[w].pc = "calling" THEN 1 ELSE 0
         /\ \A v \in Workers \ {w} : Busy(v) => worker[v].frame # worker[w].frame
<1>1. worker[w] \in Row
  BY DEF Core, BatchTypes
<1>2. \A v \in Workers \ {w} : Busy(v) => worker[v].frame # worker[w].frame
  BY DEF Core, WorkersHaveOwnFrames
<1> QED BY <1>1, <1>2 DEF Core, FramesAreTaken, Busy

LEMMA RequestTimesOutKeeps ==
  ASSUME Core, NEW w \in Workers, RequestTimesOut(w)
  PROVE  Core'
<1> DEFINE f == worker[w].frame
<1>1. /\ Running /\ Busy(w) /\ GiveUp(w, "temporary")
      /\ UNCHANGED <<now, cursor, calls, results, outcome>>
  BY DEF RequestTimesOut, Busy
<1>2. failure' \in Failures /\ failure' # NoFailure /\ aborted' = TRUE
  BY <1>1 DEF GiveUp, Core, BatchTypes, Failures, NoFailure
<1>3. worker' = [worker EXCEPT ![w] = Finished]
  BY <1>1 DEF GiveUp
<1>4. calls[f] \in {0, 1} /\ results[f] \in {0, f} /\ f \in FrameSet /\ f <= cursor
  BY <1>1, OwnFrame
<1> QED BY <1>1, <1>2, <1>3, <1>4, OwnFrame, StillRows, WorkerMoves, CoreTypes

LEMMA WakeUpKeeps ==
  ASSUME Core, NEW w \in Workers, WakeUp(w)
  PROVE  Core'
<1> DEFINE f == worker[w].frame
           retry == worker[w].retry + 1
<1>1. /\ Running /\ Busy(w) /\ worker[w].pc = "sleeping"
      /\ CallProvider(w, f, retry) /\ UNCHANGED <<now, cursor, results, outcome>>
  BY DEF WakeUp, Busy
<1>2. /\ f \in FrameSet /\ f <= cursor /\ results[f] = 0 /\ calls[f] = 0
      /\ \A v \in Workers \ {w} : Busy(v) => worker[v].frame # f
  BY <1>1, OwnFrame
<1>3. retry \in 0..Len(RetryDelays)
  <2>1. worker[w].retry \in 0..Len(RetryDelays)
    BY <1>1, OwnFrame DEF Row
  <2>2. worker[w].retry < Len(RetryDelays)
    BY <1>1 DEF Core, FramesAreTaken
  <2> QED BY <2>1, <2>2, SchedulerAssumption
<1>4. CASE now >= BatchDeadline \/ aborted
  <2>1. GiveUp(w, "temporary") /\ UNCHANGED calls
    BY <1>1, <1>4 DEF CallProvider
  <2>2. failure' \in Failures /\ failure' # NoFailure /\ aborted' = TRUE
    BY <2>1 DEF GiveUp, Core, BatchTypes, Failures, NoFailure
  <2>3. worker' = [worker EXCEPT ![w] = Finished]
    BY <2>1 DEF GiveUp
  <2> QED BY <1>1, <1>2, <2>1, <2>2, <2>3, StillRows, WorkerMoves, CoreTypes
<1>5. CASE ~(now >= BatchDeadline \/ aborted)
  <2> DEFINE row == [pc |-> "calling", frame |-> f, retry |-> retry,
                     until |-> Min({now + RequestTimeout, BatchDeadline})]
  <2>1. /\ worker' = [worker EXCEPT ![w] = row]
        /\ calls' = [calls EXCEPT ![f] = @ + 1]
        /\ UNCHANGED <<failure, aborted>>
    BY <1>1, <1>5 DEF CallProvider
  <2>2. Min({now + RequestTimeout, BatchDeadline}) \in 0..BatchDeadline
    <3>1. now + RequestTimeout \in Nat /\ BatchDeadline \in Nat
      BY SchedulerAssumption DEF Core, BatchTypes
    <3> QED BY <3>1, LesserOfTwo
  <2>3. row \in Row /\ row.pc = "calling" /\ row.frame = f
    BY <1>2, <1>3, <2>2, SchedulerAssumption DEF Row, FrameSet
  <2>4. /\ calls' \in [FrameSet -> Int] /\ calls'[f] = 1
        /\ \A g \in FrameSet \ {f} : calls'[g] = calls[g]
    BY <1>2, <2>1 DEF Core, BatchTypes
  <2> HIDE DEF row
  <2> QED BY <1>1, <1>2, <2>1, <2>3, <2>4, WorkerMoves, CoreTypes
<1> QED BY <1>4, <1>5

LEMMA ProviderAnswerKeeps ==
  ASSUME Core, NEW w \in Workers, NEW answer \in {"frame", "temporary", "invalid"},
         ProviderAnswer(w, answer)
  PROVE  Core'
<1> DEFINE call == worker[w]
           f == call.frame
           late == now >= call.until
<1>1. /\ Running /\ Busy(w) /\ call.pc = "calling"
      /\ calls' = [calls EXCEPT ![f] = @ - 1]
      /\ UNCHANGED <<now, cursor, outcome>>
  BY DEF ProviderAnswer, Busy
<1>2. /\ call \in Row /\ f \in FrameSet /\ f <= cursor
      /\ results[f] = 0 /\ calls[f] = 1
      /\ \A v \in Workers \ {w} : Busy(v) => worker[v].frame # f
  BY <1>1, OwnFrame
<1>3. /\ calls' \in [FrameSet -> Int] /\ calls'[f] = 0
      /\ \A g \in FrameSet \ {f} : calls'[g] = calls[g]
  BY <1>1, <1>2 DEF Core, BatchTypes
<1>4. CASE answer = "frame" /\ ~late
  <2>1. /\ worker' = [worker EXCEPT ![w] = Ready]
        /\ results' = [results EXCEPT ![f] = f]
        /\ UNCHANGED <<failure, aborted>>
    BY <1>4 DEF ProviderAnswer
  <2>2. /\ results' \in [FrameSet -> 0..Frames] /\ results'[f] = f
        /\ \A g \in FrameSet \ {f} : results'[g] = results[g]
    BY <1>2, <2>1, SchedulerAssumption DEF Core, BatchTypes, FrameSet
  <2>3. \A g \in FrameSet \ {f} : calls'[g] = calls[g] /\ results'[g] = results[g]
    BY <1>3, <2>2
  <2>4. failure' = failure /\ aborted' = aborted /\ cursor' = cursor
    BY <1>1, <2>1
  <2> HIDE DEF f
  <2>5. Busy(w) => worker[w].frame = f
    BY DEF f
  <2>6. /\ calls'[f] \in {0, 1} /\ results'[f] \in {0, f} /\ f <= cursor'
        /\ cursor' \in Nat /\ cursor' >= cursor
        /\ failure' \in Failures \cup {NoFailure} /\ aborted' \in BOOLEAN
        /\ UNCHANGED <<now, outcome>>
    BY <1>1, <1>2, <1>3, <2>2, <2>4, CoreTypes
  <2>7. Ready \in Row /\ Ready.pc \notin {"calling", "sleeping"}
    BY StillRows
  <2>8. failure' = NoFailure =>
           failure = NoFailure /\ (calls'[f] = 1 => Ready.pc = "calling")
    BY <1>3, <2>4
  <2> QED BY <1>1, <1>2, <1>3, <2>1, <2>2, <2>3, <2>5, <2>6, <2>7, <2>8, WorkerMoves
<1>5. CASE /\ answer # "frame" /\ ~late /\ ~aborted
           /\ answer = "temporary" /\ call.retry < Len(RetryDelays)
  <2> DEFINE pause == Min({now + RetryDelays[call.retry + 1], BatchDeadline})
             row == [call EXCEPT !.pc = "sleeping", !.until = pause]
  <2>1. worker' = [worker EXCEPT ![w] = row] /\ UNCHANGED <<results, failure, aborted>>
    BY <1>5 DEF ProviderAnswer
  <2>2. pause \in 0..BatchDeadline
    <3>1. call.retry + 1 \in 1..Len(RetryDelays)
      BY <1>2, <1>5, SchedulerAssumption DEF Row
    <3>2. now + RetryDelays[call.retry + 1] \in Nat /\ BatchDeadline \in Nat
      BY <3>1, SchedulerAssumption DEF Core, BatchTypes
    <3> QED BY <3>2, LesserOfTwo
  <2>3. /\ row \in Row /\ row.pc = "sleeping" /\ row.frame = f
        /\ row.retry < Len(RetryDelays)
    BY <1>2, <1>5, <2>2 DEF Row
  <2>4. \A g \in FrameSet \ {f} : calls'[g] = calls[g] /\ results'[g] = results[g]
    BY <1>3, <2>1
  <2>5. failure' = failure /\ aborted' = aborted /\ cursor' = cursor
    BY <1>1, <2>1
  <2> HIDE DEF row, f
  <2>6. Busy(w) => worker[w].frame = f
    BY DEF f
  <2>7. /\ calls'[f] \in {0, 1} /\ results'[f] \in {0, f} /\ f <= cursor'
        /\ cursor' \in Nat /\ cursor' >= cursor
        /\ failure' \in Failures \cup {NoFailure} /\ aborted' \in BOOLEAN
        /\ UNCHANGED <<now, outcome>> /\ results'[f] = 0
        /\ results' \in [FrameSet -> 0..Frames]
    BY <1>1, <1>2, <1>3, <2>1, <2>5, CoreTypes
  <2>8. failure' = NoFailure =>
           failure = NoFailure /\ (calls'[f] = 1 => row.pc = "calling")
    BY <1>3, <2>5
  <2> QED BY <1>1, <1>2, <1>3, <2>1, <2>3, <2>4, <2>6, <2>7, <2>8, WorkerMoves
<1>6. CASE ~(answer = "frame" /\ ~late)
            /\ ~(/\ answer # "frame" /\ ~late /\ ~aborted
                 /\ answer = "temporary" /\ call.retry < Len(RetryDelays))
  <2>1. /\ GiveUp(w, IF late \/ aborted THEN "temporary" ELSE answer)
        /\ UNCHANGED results
    BY <1>6 DEF ProviderAnswer
  <2>2. failure' \in Failures /\ failure' # NoFailure /\ aborted' = TRUE
    <3>1. answer # "frame" \/ late
      BY <1>6
    <3> QED BY <2>1, <3>1 DEF GiveUp, Core, BatchTypes, Failures, NoFailure
  <2>3. worker' = [worker EXCEPT ![w] = Finished]
    BY <2>1 DEF GiveUp
  <2> QED BY <1>1, <1>2, <1>3, <2>1, <2>2, <2>3, StillRows, WorkerMoves, CoreTypes
<1> QED BY <1>4, <1>5, <1>6

LEMMA LateAnswerKeeps ==
  ASSUME Core, NEW f \in FrameSet, LateAnswer(f)
  PROVE  Core' /\ failure # NoFailure
<1>1. IsFiniteSet(CallerOf(f))
  BY WorkersAreFinite, FS_Subset DEF CallerOf
<1>2. Cardinality(CallerOf(f)) \in Nat /\ calls[f] > Cardinality(CallerOf(f))
  <2>1. Cardinality(CallerOf(f)) \in Nat
    BY <1>1, FS_CardinalityType
  <2> QED BY <2>1 DEF LateAnswer, CallerOf
<1>3. calls[f] = 1 /\ CallerOf(f) = {}
  <2>1. calls[f] = 1 /\ Cardinality(CallerOf(f)) = 0
    BY <1>2 DEF Core, CallsAreSingle
  <2> QED BY <2>1, <1>1, FS_EmptySet
<1>4. failure # NoFailure
  BY <1>3 DEF Core, CallsHaveCallers
<1>5. /\ calls' \in [FrameSet -> Int] /\ calls'[f] = 0
      /\ \A g \in FrameSet \ {f} : calls'[g] = calls[g]
      /\ UNCHANGED <<now, cursor, worker, results, failure, aborted, outcome>>
  BY <1>3 DEF LateAnswer, Core, BatchTypes
<1>6. BatchTypes'
  BY <1>5 DEF Core, BatchTypes
<1>7. FramesAreTaken'
  <2> SUFFICES ASSUME NEW w \in Workers, Busy(w)
               PROVE  /\ worker[w].frame \in FrameSet /\ worker[w].frame <= cursor
                      /\ results[worker[w].frame] = 0
                      /\ worker[w].pc = "calling" => calls'[worker[w].frame] = 1
                      /\ worker[w].pc = "sleeping" =>
                           /\ calls'[worker[w].frame] = 0
                           /\ worker[w].retry < Len(RetryDelays)
    BY <1>5 DEF FramesAreTaken, Busy
  <2>1. ~(worker[w].pc = "calling" /\ worker[w].frame = f)
    BY <1>3 DEF CallerOf
  <2> QED BY <1>5, <2>1 DEF Core, FramesAreTaken
<1>8. AheadIsUntouched' /\ CallsAreSingle' /\ ResultsAreInPlace'
  BY <1>5 DEF Core, AheadIsUntouched, CallsAreSingle, ResultsAreInPlace
<1>9. WorkersHaveOwnFrames' /\ CallsHaveCallers' /\ CompleteIsCorrelated'
  BY <1>4, <1>5 DEF Core, WorkersHaveOwnFrames, CallsHaveCallers,
                    CompleteIsCorrelated, Busy
<1> QED BY <1>4, <1>6, <1>7, <1>8, <1>9 DEF Core

LEMMA SettleKeeps ==
  ASSUME Core, SettleBatch
  PROVE  Core'
<1>1. /\ UNCHANGED <<now, cursor, worker, calls, results, failure, aborted>>
      /\ AllFinished
      /\ outcome' = IF failure # NoFailure THEN failure
                    ELSE IF aborted THEN "temporary"
                    ELSE IF Correlated THEN "complete" ELSE "invalid"
  BY DEF SettleBatch
<1>2. outcome' \in {"idle", "running", "complete"} \cup Failures
  BY <1>1, CoreTypes DEF Failures, NoFailure
<1>3. outcome' = "complete" => failure = NoFailure /\ Correlated
  BY <1>1, CoreTypes DEF Failures, NoFailure
<1>4. BatchTypes'
  BY <1>1, <1>2, CoreTypes DEF BatchTypes, Core
<1>5. CompleteIsCorrelated'
  BY <1>1, <1>3 DEF CompleteIsCorrelated, AllFinished, Correlated
<1> QED BY <1>1, <1>4, <1>5 DEF Core, FramesAreTaken, WorkersHaveOwnFrames,
             AheadIsUntouched, CallsAreSingle, ResultsAreInPlace,
             CallsHaveCallers, CallerOf, Busy

(* The clock and the deadline touch neither frames nor workers.            *)
LEMMA TimeKeeps ==
  ASSUME Core, Tick \/ BatchTimesOut
  PROVE  Core'
<1>1. /\ UNCHANGED <<cursor, worker, calls, results, failure, outcome>>
      /\ now' \in 0..Horizon /\ aborted' \in BOOLEAN
  <2>1. now \in 0..Horizon /\ aborted \in BOOLEAN /\ Horizon \in Nat
    BY CoreTypes, SchedulerAssumption
  <2>2. CASE Tick
    BY <2>1, <2>2 DEF Tick
  <2>3. CASE BatchTimesOut
    BY <2>1, <2>3 DEF BatchTimesOut
  <2> QED BY <2>2, <2>3
<1>2. BatchTypes'
  BY <1>1 DEF Core, BatchTypes
<1> QED BY <1>1, <1>2 DEF Core, FramesAreTaken, WorkersHaveOwnFrames,
             AheadIsUntouched, CallsAreSingle, ResultsAreInPlace,
             CallsHaveCallers, CallerOf, CompleteIsCorrelated, Busy,
             AllFinished, Correlated

LEMMA SchedulerStepKeeps ==
  ASSUME Core, SchedulerStep
  PROVE  Core' /\ results' = results /\ (failure' = NoFailure => failure = NoFailure)
<1>1. ASSUME NEW w \in Workers, TakeFrame(w)
      PROVE  Core' /\ results' = results /\ (failure' = NoFailure => failure = NoFailure)
  BY <1>1, TakeFrameKeeps DEF TakeFrame, CallProvider, GiveUp
<1>2. ASSUME NEW w \in Workers, LeaveAborted(w)
      PROVE  Core' /\ results' = results /\ failure' = failure
  <2>1. ~Busy(w) /\ cursor \in Nat /\ cursor >= cursor
    BY <1>2, CoreTypes DEF LeaveAborted, Busy
  <2> QED BY <1>2, <2>1, ReadyWorkerStops DEF LeaveAborted
<1>3. ASSUME NEW w \in Workers, RequestTimesOut(w)
      PROVE  Core' /\ results' = results /\ (failure' = NoFailure => failure = NoFailure)
  BY <1>3, RequestTimesOutKeeps DEF RequestTimesOut, GiveUp
<1>4. ASSUME NEW w \in Workers, WakeUp(w)
      PROVE  Core' /\ results' = results /\ (failure' = NoFailure => failure = NoFailure)
  BY <1>4, WakeUpKeeps DEF WakeUp, CallProvider, GiveUp
<1>5. ASSUME Tick \/ BatchTimesOut
      PROVE  Core' /\ results' = results /\ failure' = failure
  BY <1>5, TimeKeeps DEF Tick, BatchTimesOut
<1>6. ASSUME SettleBatch
      PROVE  Core' /\ results' = results /\ failure' = failure
  BY <1>6, SettleKeeps DEF SettleBatch
<1> QED BY <1>1, <1>2, <1>3, <1>4, <1>5, <1>6 DEF SchedulerStep, WorkerStep

LEMMA BatchNextKeeps ==
  ASSUME Core, BatchNext
  PROVE  Core'
BY SchedulerStepKeeps, ProviderAnswerKeeps, LateAnswerKeeps, AnswersAreThree
   DEF BatchNext

(* A batch begins with nothing taken.                                      *)
LEMMA BatchInitHolds ==
  ASSUME NEW started \in {"idle", "running"}, BatchInit(started)
  PROVE  Core
<1>1. BatchTypes
  <2>1. 0 \in 0..Horizon /\ 0 \in Nat /\ 0 \in 0..Frames
    BY SchedulerAssumption
  <2>2. worker \in [Workers -> Row]
    BY StillRows DEF BatchInit
  <2>3. calls \in [FrameSet -> Int] /\ results \in [FrameSet -> 0..Frames]
    BY <2>1 DEF BatchInit, NoResults
  <2> QED BY <2>1, <2>2, <2>3 DEF BatchInit, BatchTypes
<1>2. \A w \in Workers : ~Busy(w)
  BY StillRows DEF BatchInit, Busy
<1> QED BY <1>1, <1>2 DEF Core, BatchInit, FramesAreTaken, WorkersHaveOwnFrames,
             AheadIsUntouched, CallsAreSingle, ResultsAreInPlace,
             CallsHaveCallers, CompleteIsCorrelated, NoResults

LEMMA EmptyBatchHolds ==
  ASSUME NEW started \in {"idle", "running"}, EmptyBatch(started)
  PROVE  Core' /\ outcome' = started /\ results' = NoResults
<1>1. BatchTypes'
  <2>1. 0 \in 0..Horizon /\ 0 \in Nat /\ 0 \in 0..Frames
    BY SchedulerAssumption
  <2>2. worker' \in [Workers -> Row]
    BY StillRows DEF EmptyBatch
  <2>3. calls' \in [FrameSet -> Int] /\ results' \in [FrameSet -> 0..Frames]
    BY <2>1 DEF EmptyBatch, NoResults
  <2> QED BY <2>1, <2>2, <2>3 DEF EmptyBatch, BatchTypes
<1>2. \A w \in Workers : ~Busy(w)'
  BY StillRows DEF EmptyBatch, Busy
<1>3. /\ calls' = [f \in FrameSet |-> 0] /\ results' = NoResults
      /\ failure' = NoFailure /\ outcome' = started
  BY DEF EmptyBatch
<1> QED BY <1>1, <1>2, <1>3 DEF Core, FramesAreTaken, WorkersHaveOwnFrames,
             AheadIsUntouched, CallsAreSingle, ResultsAreInPlace,
             CallsHaveCallers, CompleteIsCorrelated, NoResults

LEMMA BatchStays ==
  ASSUME Core, UNCHANGED batchVars
  PROVE  Core'
BY DEF Core, batchVars, BatchTypes, FramesAreTaken, WorkersHaveOwnFrames,
       AheadIsUntouched, CallsAreSingle, ResultsAreInPlace, CallsHaveCallers,
       CallerOf, CompleteIsCorrelated, Busy, AllFinished, Correlated

(* At most one call of a frame is out (the check of the deadlines in       *)
(* dispatchWithRetry's catch): the batch's part of the invariant.          *)
LEMMA CallsDoNotOverlap ==
  ASSUME Core
  PROVE  NoOverlappingRequests
BY DEF Core, CallsAreSingle, NoOverlappingRequests

-----------------------------------------------------------------------------
(* Samples.                                                                *)

LEMMA OneMoreSample ==
  ASSUME bench \in BenchType, NEW f \in FrameSet, NEW fast \in BOOLEAN
  PROVE  /\ Sampled(f, fast) \in BenchType
         /\ Sampled(f, fast).stage = bench.stage /\ Sampled(f, fast).runs = bench.runs
         /\ Sampled(f, fast).samples = [bench.samples EXCEPT ![f] = @ + 1]
<1> DEFINE row == [stage |-> bench.stage, sent |-> bench.sent,
                   samples |-> [bench.samples EXCEPT ![f] = @ + 1],
                   slow |-> IF fast THEN bench.slow ELSE bench.slow + 1,
                   runs |-> bench.runs]
<1>1. row \in BenchType
  BY DEF BenchType
<1>2. Sampled(f, fast) = row
  <2>1. bench = [stage |-> bench.stage, sent |-> bench.sent,
                 samples |-> bench.samples, slow |-> bench.slow,
                 runs |-> bench.runs]
    BY DEF BenchType
  <2>2. CASE fast
    <3>1. Sampled(f, fast) = [bench EXCEPT !.samples[f] = @ + 1, !.slow = @]
      BY <2>2 DEF Sampled
    <3> QED BY <2>1, <2>2, <3>1
  <2>3. CASE ~fast
    <3>1. Sampled(f, fast) = [bench EXCEPT !.samples[f] = @ + 1, !.slow = @ + 1]
      BY <2>3 DEF Sampled
    <3> QED BY <2>1, <2>3, <3>1
  <2> QED BY <2>2, <2>3
<1> QED BY <1>1, <1>2

LEMMA SentForgotten ==
  ASSUME NEW b \in BenchType, NEW w \in Workers
  PROVE  /\ [b EXCEPT !.sent[w] = 0] \in BenchType
         /\ [b EXCEPT !.sent[w] = 0].stage = b.stage
         /\ [b EXCEPT !.sent[w] = 0].runs = b.runs
         /\ [b EXCEPT !.sent[w] = 0].samples = b.samples
BY DEF BenchType

LEMMA DispatchIsNoted ==
  ASSUME bench \in BenchType, now \in Nat, bench' = Dispatched
  PROVE  /\ bench' \in BenchType /\ bench'.stage = bench.stage
         /\ bench'.runs = bench.runs /\ bench'.samples = bench.samples
<1> DEFINE noted == [w \in Workers |->
      IF \E f \in FrameSet : /\ calls'[f] > calls[f]
                             /\ worker'[w].pc = "calling" /\ worker'[w].frame = f
      THEN now ELSE bench.sent[w]]
<1>1. noted \in [Workers -> Nat]
  BY DEF BenchType
<1>2. Dispatched = [bench EXCEPT !.sent = noted]
  BY DEF Dispatched
<1> HIDE DEF noted
<1> QED BY <1>1, <1>2 DEF BenchType

LEMMA MeasuredStepKeeps ==
  ASSUME Core, BenchInv, MeasuredStep
  PROVE  Core' /\ BenchInv'
<1>1. /\ Core' /\ results' = results /\ (failure' = NoFailure => failure = NoFailure)
      /\ Measuring
  BY SchedulerStepKeeps DEF MeasuredStep
<1>2. /\ bench' \in BenchType /\ bench'.stage = bench.stage
      /\ bench'.runs = bench.runs /\ bench'.samples = bench.samples
  <2>1. now \in Nat
    BY CoreTypes, SchedulerAssumption
  <2> QED BY <2>1, DispatchIsNoted DEF MeasuredStep, BenchInv
<1>3. SamplesAreCounted'
  BY <1>1, <1>2 DEF BenchInv, SamplesAreCounted, Measuring
<1>4. ReceiptRests'
  BY <1>1, <1>2 DEF ReceiptRests, Measuring
<1> QED BY <1>1, <1>2, <1>3, <1>4 DEF BenchInv

LEMMA MeasuredAnswerKeeps ==
  ASSUME Core, BenchInv, NEW w \in Workers, NEW answer \in {"frame", "temporary", "invalid"},
         MeasuredAnswer(w, answer)
  PROVE  Core' /\ BenchInv'
<1> DEFINE f == worker[w].frame
           late == now >= worker[w].until
<1>1. ProviderAnswer(w, answer) /\ Measuring /\ bench' = SampleAnswer(w, answer)
  BY DEF MeasuredAnswer
<1>2. Core' /\ Busy(w)
  BY <1>1, ProviderAnswerKeeps DEF ProviderAnswer, Busy
<1>3. f \in FrameSet /\ results[f] = 0 /\ f # 0
  BY <1>2, OwnFrame, SchedulerAssumption DEF FrameSet
<1>4. CASE answer # "frame"
  <2>1. bench' = bench
    BY <1>1, <1>4 DEF SampleAnswer
  <2>2. results' = results /\ (failure' = NoFailure => failure = NoFailure)
    BY <1>1, <1>4 DEF ProviderAnswer, GiveUp
  <2> QED BY <1>2, <2>1, <2>2 DEF BenchInv, SamplesAreCounted, ReceiptRests, Measuring
<1>5. CASE answer = "frame"
  <2> DEFINE fast == now - bench.sent[w] <= FrameLimit
  <2>1. fast \in BOOLEAN /\ bench' = [Sampled(f, fast) EXCEPT !.sent[w] = 0]
    BY <1>1, <1>5 DEF SampleAnswer
  <2> HIDE DEF fast
  <2>2. /\ bench' \in BenchType /\ bench'.stage = bench.stage
        /\ bench'.runs = bench.runs
        /\ bench'.samples = [bench.samples EXCEPT ![f] = @ + 1]
    BY <2>1, <1>3, OneMoreSample, SentForgotten DEF BenchInv
  <2>3. ReceiptRests'
    BY <2>2, <1>1 DEF ReceiptRests, Measuring
  <2>4. SamplesAreCounted'
    <3> SUFFICES ASSUME failure' = NoFailure, NEW g \in FrameSet
                 PROVE  bench'.samples[g] =
                          Len(bench'.runs) + (IF results'[g] = g THEN 1 ELSE 0)
      BY DEF SamplesAreCounted
    <3>1. /\ ~late /\ results' = [results EXCEPT ![f] = f] /\ failure = NoFailure
      <4>1. CASE late
        <5>1. GiveUp(w, "temporary")
          BY <4>1, <1>1, <1>5 DEF ProviderAnswer
        <5> QED BY <5>1 DEF GiveUp, NoFailure
      <4>2. CASE ~late
        BY <4>2, <1>1, <1>5 DEF ProviderAnswer
      <4> QED BY <4>1, <4>2
    <3>2. bench.samples[g] = Len(bench.runs) + (IF results[g] = g THEN 1 ELSE 0)
      BY <3>1, <1>1 DEF BenchInv, SamplesAreCounted
    <3>3. results \in [FrameSet -> 0..Frames] /\ Len(bench.runs) \in Nat
      BY CoreTypes DEF BenchInv, BenchType
    <3>4. bench.samples \in [FrameSet -> Nat]
      BY DEF BenchInv, BenchType
    <3> HIDE DEF f
    <3>5. CASE g = f
      <4>1. results'[f] = f /\ bench'.samples[f] = bench.samples[f] + 1
        BY <1>3, <2>2, <3>1, <3>3, <3>4
      <4>2. bench.samples[f] = Len(bench.runs)
        <5>1. results[g] # g
          BY <3>5, <1>3
        <5>2. bench.samples[g] = Len(bench.runs) + 0
          BY <5>1, <3>2
        <5> QED BY <5>2, <3>3, <3>5
      <4> QED BY <3>5, <4>1, <4>2, <2>2, <3>3
    <3>6. CASE g # f
      BY <3>6, <1>3, <2>2, <3>1, <3>2, <3>3, <3>4
    <3> QED BY <3>5, <3>6
  <2> QED BY <1>2, <2>2, <2>3, <2>4 DEF BenchInv
<1> QED BY <1>4, <1>5

LEMMA MeasuredLateAnswerKeeps ==
  ASSUME Core, BenchInv, NEW f \in FrameSet, MeasuredLateAnswer(f)
  PROVE  Core' /\ BenchInv'
<1>1. Core' /\ failure # NoFailure /\ failure' = failure /\ Measuring
  BY LateAnswerKeeps DEF MeasuredLateAnswer, LateAnswer
<1>2. bench' \in BenchType /\ bench'.stage = bench.stage
  <2>1. CASE bench' = bench
    BY <2>1 DEF BenchInv
  <2>2. CASE bench' # bench
    <3>1. PICK fast \in BOOLEAN : bench' = Sampled(f, fast)
      BY <2>2 DEF MeasuredLateAnswer
    <3> QED BY <3>1, OneMoreSample DEF BenchInv
  <2> QED BY <2>1, <2>2
<1> QED BY <1>1, <1>2 DEF BenchInv, SamplesAreCounted, ReceiptRests, Measuring

(* A settled batch that counts has sampled every frame once more.          *)
LEMMA SettledBatchIsSampled ==
  ASSUME Core, BenchInv, BatchSettled, outcome = "complete"
  PROVE  /\ Runs \in Seq([manifest : Nat, inTime : BOOLEAN])
         /\ Len(Runs) = Len(bench.runs) + 1
         /\ \A f \in FrameSet : bench.samples[f] = Len(Runs)
<1>1. Measuring /\ failure = NoFailure /\ Correlated
  BY DEF BatchSettled, Core, CompleteIsCorrelated
<1>2. /\ bench.runs \in Seq([manifest : Nat, inTime : BOOLEAN])
      /\ Len(bench.runs) \in Nat
  BY DEF BenchInv, BenchType
<1>3. [manifest |-> Len(bench.runs) + 1, inTime |-> now <= BatchLimit]
        \in [manifest : Nat, inTime : BOOLEAN]
  BY <1>2
<1>4. /\ Runs \in Seq([manifest : Nat, inTime : BOOLEAN])
      /\ Len(Runs) = Len(bench.runs) + 1
  BY <1>2, <1>3 DEF Runs
<1>5. \A f \in FrameSet : bench.samples[f] = Len(bench.runs) + 1
  BY <1>1 DEF BenchInv, SamplesAreCounted, Correlated
<1> QED BY <1>4, <1>5

(* The percentile: enough of n samples were fast.                          *)
LEMMA PercentileBoundsSlow ==
  ASSUME NEW n \in Nat, bench.slow \in Nat, PercentileIsFast(n)
  PROVE  100 * bench.slow <= 100 * n - n * Percentile
<1>1. n * Percentile \in Nat
  BY BenchmarkAssumption
<1>2. \A x \in Nat : 100 * ((x + 99) \div 100) >= x
  OBVIOUS
<1>3. 100 * Rank(n) >= n * Percentile /\ Rank(n) \in Int
  BY <1>1, <1>2 DEF Rank
<1>4. n - bench.slow >= Rank(n)
  BY DEF PercentileIsFast
<1> QED BY <1>1, <1>3, <1>4

LEMMA MakeReceiptKeeps ==
  ASSUME Core, BenchInv, MakeReceipt
  PROVE  Core' /\ BenchInv'
<1> DEFINE fast == PercentileIsFast(SampleCount)
           receipt == ReceiptFor(Runs, fast, 0)
           stage == IF SampleCount = Manifests * Frames /\ ReceiptHolds(receipt)
                    THEN receipt.status ELSE "refused"
<1>1. /\ BatchSettled /\ outcome = "complete" /\ Len(Runs) = Manifests
      /\ bench' = [bench EXCEPT !.runs = Runs, !.stage = stage]
      /\ EmptyBatch("idle")
  BY DEF MakeReceipt, BatchCounts
<1>2. Core'
  BY <1>1, EmptyBatchHolds
<1>3. stage \in {"passed", "failed", "refused"}
  BY DEF ReceiptFor
<1>4. ASSUME stage = "passed"
      PROVE  /\ \A i \in 1..Manifests : Runs[i].inTime
             /\ 100 * bench.slow <= (100 - Percentile) * Manifests * Frames
  <2>1. SampleCount = Manifests * Frames /\ ReceiptHolds(receipt)
        /\ receipt.status = "passed"
    BY <1>4
  <2>2. fast /\ \A i \in DOMAIN Runs : Runs[i].inTime
    BY <2>1 DEF ReceiptHolds, PassesThresholds, ReceiptFor
  <2>3. DOMAIN Runs = 1..Manifests
    BY <1>1, SettledBatchIsSampled
  <2>4. SampleCount \in Nat /\ bench.slow \in Nat
    BY <2>1, SchedulerAssumption, ReceiptAssumption DEF BenchInv, BenchType
  <2>5. 100 * bench.slow <= 100 * SampleCount - SampleCount * Percentile
    BY <2>2, <2>4, PercentileBoundsSlow
  <2>6. \A m, n, p \in Int :
          100 * (m * n) - (m * n) * p = (100 - p) * m * n
    OBVIOUS
  <2>7. 100 * SampleCount - SampleCount * Percentile
          = (100 - Percentile) * Manifests * Frames
    BY <2>1, <2>6, SchedulerAssumption, ReceiptAssumption, BenchmarkAssumption
  <2> QED BY <2>2, <2>3, <2>5, <2>7
<1> HIDE DEF stage
<1>5. /\ bench' \in BenchType /\ bench'.stage = stage /\ bench'.runs = Runs
      /\ bench'.samples = bench.samples /\ bench'.slow = bench.slow
  BY <1>1, <1>3, SettledBatchIsSampled DEF BenchInv, BenchType
<1>6. \A f \in FrameSet : bench.samples[f] = Manifests
  BY <1>1, SettledBatchIsSampled
<1>7. ReceiptRests'
  BY <1>4, <1>5, <1>6 DEF ReceiptRests
<1>8. SamplesAreCounted'
  BY <1>3, <1>5 DEF SamplesAreCounted, Measuring
<1> QED BY <1>2, <1>5, <1>7, <1>8 DEF BenchInv

LEMMA NotRunIsTyped == NotRun \in BenchType
BY DEF NotRun, BenchType

LEMMA BenchmarkEndsKeeps ==
  ASSUME Core, BenchInv, BenchmarkEnds
  PROVE  Core' /\ BenchInv'
<1>1. CASE GiveUpBenchmark
  <2>1. Core' /\ bench' = [NotRun EXCEPT !.stage = "refused"]
    BY <1>1, EmptyBatchHolds DEF GiveUpBenchmark
  <2>2. bench' \in BenchType /\ bench'.stage = "refused"
    BY <2>1, NotRunIsTyped DEF BenchType
  <2> QED BY <2>1, <2>2 DEF BenchInv, SamplesAreCounted, ReceiptRests, Measuring
<1>2. CASE NextManifest
  <2>1. /\ BatchSettled /\ outcome = "complete"
        /\ bench' = [bench EXCEPT !.runs = Runs] /\ EmptyBatch("running")
    BY <1>2 DEF NextManifest, BatchCounts
  <2>2. Core' /\ results' = NoResults
    BY <2>1, EmptyBatchHolds
  <2>3. /\ bench' \in BenchType /\ bench'.stage = bench.stage
        /\ bench'.runs = Runs /\ bench'.samples = bench.samples
    BY <2>1, SettledBatchIsSampled DEF BenchInv, BenchType
  <2>4. \A f \in FrameSet : results'[f] # f
    BY <2>2 DEF NoResults, FrameSet
  <2>5. \A f \in FrameSet : bench'.samples[f] = Len(bench'.runs) + 0
    BY <2>1, <2>3, SettledBatchIsSampled DEF BenchInv, BenchType
  <2>6. SamplesAreCounted'
    BY <2>4, <2>5 DEF SamplesAreCounted
  <2>7. bench.stage = "running"
    BY <2>1 DEF BatchSettled, Measuring
  <2> QED BY <2>2, <2>3, <2>6, <2>7 DEF BenchInv, ReceiptRests
<1> QED BY <1>1, <1>2, MakeReceiptKeeps DEF BenchmarkEnds

LEMMA BenchmarkNextKeeps ==
  ASSUME Core, BenchInv, BenchmarkNext
  PROVE  Core' /\ BenchInv'
BY MeasuredStepKeeps, MeasuredAnswerKeeps, MeasuredLateAnswerKeeps,
   BenchmarkEndsKeeps, AnswersAreThree DEF BenchmarkNext

LEMMA BenchmarkInitHolds ==
  ASSUME BenchmarkInit
  PROVE  Core /\ BenchInv
<1>1. Core
  BY BatchInitHolds DEF BenchmarkInit
<1>2. /\ bench \in BenchType /\ bench.stage = "running"
      /\ bench.runs = <<>> /\ bench.samples = [f \in FrameSet |-> 0]
  BY NotRunIsTyped DEF BenchmarkInit, BenchType, NotRun
<1>3. SamplesAreCounted
  <2>1. \A f \in FrameSet : f # 0
    BY SchedulerAssumption DEF FrameSet
  <2>a. \A f \in FrameSet : results[f] # f /\ bench.samples[f] = 0
    BY <1>2, <2>1 DEF BenchmarkInit, BatchInit, NoResults
  <2>2. Len(bench.runs) = 0
    BY <1>2
  <2> QED BY <2>a, <2>2 DEF SamplesAreCounted
<1> QED BY <1>1, <1>2, <1>3 DEF BenchInv, ReceiptRests

(* What the benchmark promises follows (workflow-benchmark.ts).            *)
LEMMA BenchmarkPromise ==
  ASSUME Core, BenchInv
  PROVE  ReceiptIsEarned
<1>1. outcome = "complete" => \A f \in FrameSet : results[f] = f
  BY DEF Core, CompleteIsCorrelated, Correlated
<1>2. BatchSettled /\ outcome = "complete" =>
        \A f \in FrameSet : bench.samples[f] = Len(Runs)
  BY SettledBatchIsSampled
<1> QED BY <1>1, <1>2 DEF BenchInv, ReceiptRests, ReceiptIsEarned
=============================================================================
