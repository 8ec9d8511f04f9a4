------------------------- MODULE WorkflowBenchmark -------------------------
(***************************************************************************)
(* runWorkflowBenchmark: the operator's measurement of a provider.  A few  *)
(* manifests of frames go, one after the other, through the scheduler the  *)
(* analyses use; a sample is taken whenever a call answers with a frame,   *)
(* whether or not the scheduler still waits for it.  The receipt says      *)
(* whether the provider was fast enough to rank results by.                *)
(*                                                                         *)
(* Of a sample only whether it is within the limit is kept, of a batch     *)
(* only whether it was; digests and dates are left out.                    *)
(***************************************************************************)
EXTENDS VisionScheduler, BenchmarkReceipt

CONSTANTS
  FrameLimit,  \* the slowest the percentile of the samples may be
  BatchLimit,  \* the longest a batch may take
  Percentile   \* the share of samples, in percent, that has to be as fast

ASSUME BenchmarkAssumption ==
  /\ FrameLimit \in Nat /\ BatchLimit \in Nat
  /\ Percentile \in 1..100

VARIABLE
  bench  \* the benchmark: its batch, its samples and what came of it

NotRun ==
  [stage |-> "none", sent |-> [w \in Workers |-> 0],
   samples |-> [f \in FrameSet |-> 0], slow |-> 0, runs |-> <<>>]

BenchmarkTypeOK ==
  /\ bench.stage \in {"none", "running", "passed", "failed", "refused"}
  /\ bench.samples \in [FrameSet -> Nat] /\ bench.slow \in Nat
  /\ \A i \in DOMAIN bench.runs :
       bench.runs[i].manifest = i /\ bench.runs[i].inTime \in BOOLEAN

(* The manifests are five, whole, decodable and distinct, or it throws.    *)
BenchmarkInit ==
  /\ bench = [NotRun EXCEPT !.stage = "running"]
  /\ BatchInit("running")

Measuring == bench.stage = "running"

-----------------------------------------------------------------------------
(* A batch, with the clock read around each call.                          *)

EmptyBatch(started) ==
  /\ now' = 0 /\ cursor' = 0 /\ worker' = [w \in Workers |-> Ready]
  /\ calls' = [f \in FrameSet |-> 0] /\ results' = NoResults
  /\ failure' = NoFailure /\ aborted' = FALSE /\ outcome' = started

Sampled(f, fast) ==
  [bench EXCEPT !.samples[f] = @ + 1, !.slow = IF fast THEN @ ELSE @ + 1]

Dispatched ==
  [bench EXCEPT !.sent = [w \in Workers |->
     IF \E f \in FrameSet : /\ calls'[f] > calls[f]
                            /\ worker'[w].pc = "calling" /\ worker'[w].frame = f
     THEN now ELSE @[w]]]

MeasuredStep == Measuring /\ SchedulerStep /\ bench' = Dispatched

(* A bug: every answer is sampled, the ones that will be retried included. *)
SampleAnyAnswer(w, answer) ==
  [Sampled(worker[w].frame, now - bench.sent[w] <= FrameLimit)
     EXCEPT !.sent[w] = 0]

(* A frame that answers is checked against its request and sampled before  *)
(* the scheduler looks at the time.                                        *)
SampleAnswer(w, answer) ==
  IF answer # "frame" THEN bench
  ELSE [Sampled(worker[w].frame, now - bench.sent[w] <= FrameLimit)
          EXCEPT !.sent[w] = 0]

MeasuredAnswer(w, answer) ==
  /\ Measuring /\ ProviderAnswer(w, answer)
  /\ bench' = SampleAnswer(w, answer)

MeasuredLateAnswer(f) ==
  /\ Measuring /\ LateAnswer(f)
  /\ bench' \in {bench} \cup {Sampled(f, fast) : fast \in BOOLEAN}

-----------------------------------------------------------------------------
(* Between batches, and the receipt.                                       *)

BatchSettled == Measuring /\ outcome # "running"

(* A batch that fails, or took no time, throws away the benchmark.         *)
BatchCounts == outcome = "complete" /\ now > 0

GiveUpBenchmark ==
  /\ BatchSettled /\ ~BatchCounts
  /\ bench' = [NotRun EXCEPT !.stage = "refused"]
  /\ EmptyBatch("idle")

Runs == Append(bench.runs, [manifest |-> Len(bench.runs) + 1,
                            inTime |-> now <= BatchLimit])

NextManifest ==
  /\ BatchSettled /\ BatchCounts /\ Len(Runs) < Manifests
  /\ bench' = [bench EXCEPT !.runs = Runs]
  /\ EmptyBatch("running")

(* percentile95: the sample that so many of the ordered samples are not    *)
(* above.                                                                  *)
Rank(n) == (n * Percentile + 99) \div 100
PercentileIsFast(n) == n - bench.slow >= Rank(n)

SampleCount == FoldFunction(+, 0, bench.samples)

(* The receipt is made only from one sample per frame, and only if the     *)
(* schema takes it.                                                        *)
MakeReceipt ==
  LET receipt == ReceiptFor(Runs, PercentileIsFast(SampleCount), 0) IN
  /\ BatchSettled /\ BatchCounts /\ Len(Runs) = Manifests
  /\ bench' = [bench EXCEPT
       !.runs = Runs,
       !.stage = IF SampleCount = Manifests * Frames /\ ReceiptHolds(receipt)
                 THEN receipt.status ELSE "refused"]
  /\ EmptyBatch("idle")

BenchmarkEnds == NextManifest \/ MakeReceipt \/ GiveUpBenchmark
BenchmarkNext ==
  \/ MeasuredStep \/ BenchmarkEnds
  \/ \E w \in Workers, reply \in Replies : MeasuredAnswer(w, AnswerOf(reply))
  \/ \E f \in FrameSet : MeasuredLateAnswer(f)

-----------------------------------------------------------------------------
(* A receipt rests on exactly one sample of every frame of every manifest, *)
(* late answers and retries notwithstanding, and a passed one on batches   *)
(* that all kept their limit and on samples of which no larger share was   *)
(* slow than the percentile leaves.  A batch that resolves, in a benchmark *)
(* or not, has an entry for every frame, whichever worker found the cursor *)
(* at its end while others failed or were aborted.                         *)
ReceiptIsEarned ==
  /\ bench.stage \in {"passed", "failed"} =>
       \A f \in FrameSet : bench.samples[f] = Manifests
  /\ bench.stage = "passed" =>
       /\ \A i \in 1..Manifests : bench.runs[i].inTime
       /\ 100 * bench.slow <= (100 - Percentile) * Manifests * Frames
  /\ outcome = "complete" => \A f \in FrameSet : results[f] = f
  /\ BatchSettled /\ outcome = "complete" =>
       \A f \in FrameSet : bench.samples[f] = Len(Runs)
=============================================================================
