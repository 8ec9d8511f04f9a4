-------------------------- MODULE TrainingAnalysis --------------------------
(***************************************************************************)
(* The analysis of uploaded attempts, from the claim of a job to the       *)
(* committed outcome: the free and the verified processor and the worker   *)
(* around them, on top of the vision scheduler, the evidence and scoring   *)
(* of a wall pass, the competitive policies and the leaderboard.           *)
(*                                                                         *)
(* A verified attempt is observed, judged, scored and looked up in the     *)
(* policy table; what it claims to be is decided again in the transaction  *)
(* that commits it.  Operators, deletions, other analyses and readers of   *)
(* the leaderboard go on in between.                                       *)
(*                                                                         *)
(* Batches do not share state with any of those.  An attempt of Alone is   *)
(* analysed while nothing else happens, and only its analysis may fail; of *)
(* those, one of Stepwise goes through its batch call by call and the      *)
(* others settle it in a step.                                             *)
(* Leases, redelivery and restarts are in AttemptStore, MediaDelivery and  *)
(* AnalysisQueue.  In one more behaviour no attempt is analysed and an     *)
(* operator benchmarks the provider.                                       *)
(***************************************************************************)
EXTENDS Leaderboard, VerifiedEvidence, WorkflowBenchmark

CONSTANTS
  Mode,         \* "free" or "verified", of each attempt
  Bundle,       \* the policy tuple of its provider's provenance, or Demo
  Demo,         \* the provenance that never ranks
  Footage,      \* the videos each attempt may be
  Alone,        \* attempts analysed with nothing beside them
  Stepwise,     \* of those: followed call by call
  Withdrawn,    \* attempts their athlete may delete meanwhile
  MaxAttempts   \* maxAttempts of the retry policy

ASSUME AnalysisAssumption ==
  /\ Mode \in [Attempts -> {"free", "verified"}]
  /\ Stepwise \subseteq Alone /\ Alone \subseteq Attempts
  /\ Withdrawn \subseteq Attempts \ Alone
  /\ MaxAttempts \in Nat \ {0}

VARIABLE
  attempt  \* the attempts of this behaviour, and how far each is

analysisVars == <<attempt, clock, stored, invalidated, policy, board, sequence,
                  reader, batchVars, bench>>

Present == DOMAIN attempt

Nothing == [kind |-> "none", code |-> "none"]
Valid(status) == [kind |-> "valid", code |-> status]
Invalid(code) == [kind |-> "invalid", code |-> code]
Failed(code) == [kind |-> "failed", code |-> code]
InternalError == Failed("internal_error")

NotYet(video) ==
  [stage |-> "waiting", video |-> video, tries |-> 0, policy |-> {},
   score |-> 0, completedAt |-> 0, candidate |-> Nothing,
   report |-> {}]

AnalysisTypeOK ==
  /\ PolicyTypeOK /\ LeaderboardTypeOK /\ SchedulerTypeOK /\ BenchmarkTypeOK
  /\ \A a \in Present :
       /\ attempt[a].stage
            \in {"waiting", "batching", "decided", "done", "deleted"}
       /\ attempt[a].tries \in 0..MaxAttempts
       /\ attempt[a].policy \subseteq Policies
       /\ attempt[a].score \in 0..100
       /\ attempt[a].completedAt \in 0..LastInstant
       /\ attempt[a].candidate.kind \in {"none", "valid", "invalid", "failed"}

Measured == attempt = <<>> /\ BenchmarkInit
Analysed ==
  /\ bench = NotRun /\ BatchInit("idle")
  /\ \E group \in {{a} : a \in Alone} \cup {Attempts \ Alone} :
       \E video \in [group -> UNION {Footage[a] : a \in group}] :
         /\ \A a \in group : video[a] \in Footage[a]
         /\ attempt = [a \in group |-> NotYet(video[a])]

Init == (Analysed \/ Measured) /\ PolicyInit /\ LeaderboardInit

-----------------------------------------------------------------------------
(* The batch of an attempt.                                                *)

(* The claim, the durable context and the frames it names hold together.   *)
Begin(a) ==
  /\ attempt[a].stage = "waiting"
  /\ attempt' = [attempt EXCEPT ![a].stage = "batching"]
  /\ IF a \in Stepwise THEN EmptyBatch("running") ELSE UNCHANGED batchVars
  /\ UNCHANGED <<clock, policyVars, boardVars, reader>>

(* They do not: getProcessingContext, reconstruct or an assertion throws.  *)
CannotReconstruct(a) ==
  /\ a \in Alone /\ attempt[a].stage = "waiting"
  /\ attempt' = [attempt EXCEPT ![a].stage = "decided",
                                ![a].candidate = InternalError]
  /\ UNCHANGED <<clock, policyVars, boardVars, reader, batchVars>>

(* How the batch came out: call by call, or any way it can.                *)
BatchOutcomes(a) ==
  IF a \in Stepwise THEN {outcome} \ {"running"}
  ELSE IF a \in Alone THEN {"complete", "temporary", "invalid"}
  ELSE {"complete"}

AfterBatch(a, result) ==
  /\ attempt[a].stage = "batching" /\ result \in BatchOutcomes(a)
  /\ IF a \in Stepwise THEN EmptyBatch("idle") ELSE UNCHANGED batchVars
  /\ UNCHANGED <<clock, policyVars, boardVars, reader>>

(* Only this failure is worth another delivery, up to the retry budget.    *)
RetryOrGiveUp(a) ==
  /\ AfterBatch(a, "temporary")
  /\ attempt' = [attempt EXCEPT
       ![a].tries = @ + 1,
       ![a].stage = IF attempt[a].tries + 1 < MaxAttempts
                    THEN "waiting" ELSE "decided",
       ![a].candidate = IF attempt[a].tries + 1 < MaxAttempts
                        THEN Nothing ELSE Failed("temporary_unavailable")]

BatchRefused(a) ==
  /\ AfterBatch(a, "invalid")
  /\ attempt' = [attempt EXCEPT ![a].stage = "decided",
                                ![a].candidate = Failed("configuration_invalid")]

-----------------------------------------------------------------------------
(* What a complete batch is worth.                                         *)

Decide(a, candidate) ==
  attempt' = [attempt EXCEPT ![a].stage = "decided", ![a].candidate = candidate]

GiveInsight(a) ==
  /\ Mode[a] = "free" /\ AfterBatch(a, "complete")
  /\ attempt' = [attempt EXCEPT
       ![a].stage = "decided", ![a].candidate = Valid("free-insight"),
       ![a].report = {FreeInsight(attempt[a].video.active)}]

(* evaluateCompetitiveEligibility: what the result may claim to be, and    *)
(* under which activation.  A lookup that fails in a way the repository    *)
(* names leaves it experimental; any other is marked as worth a retry, but *)
(* the verified processor makes it the end of the attempt.                 *)
Claims(a) ==
  LET Claim(status, chosen) == [candidate |-> Valid(status), policy |-> chosen]
      eligible == EligibleFor(Bundle[a])
  IN IF Bundle[a] = Demo THEN {Claim("demo", {})}
     ELSE {Claim("ranked", {p}) : p \in eligible}
            \cup (IF eligible = {} \/ a \in Alone
                  THEN {Claim("experimental", {})} ELSE {})
            \cup (IF a \in Alone
                  THEN {[candidate |-> InternalError, policy |-> {}]} ELSE {})

(* The integrity evaluator's word on each video that may come, and the     *)
(* score of each; both depend on the video alone.                          *)
VerifiedVideos ==
  UNION {Footage[a] : a \in {b \in Attempts : Mode[b] = "verified"}}
Assembled == [video \in VerifiedVideos |-> Evidence(video)]
Verdict == [video \in VerifiedVideos |-> IntegrityOf(Assembled[video])]
Score ==
  [video \in {v \in VerifiedVideos : Verdict[v] = "integrity-valid"} |->
     ScoreOf(CanonicalEvents(Assembled[video].active))]

(* The integrity evaluator, then the claim, then the score.                *)
Judge(a) ==
  LET verdict == Verdict[attempt[a].video] IN
  /\ Mode[a] = "verified" /\ AfterBatch(a, "complete")
  /\ \E claim \in IF verdict = "integrity-valid" THEN Claims(a)
                  ELSE {[candidate |-> Invalid(verdict), policy |-> {}]} :
       attempt' = [attempt EXCEPT
         ![a].stage = "decided", ![a].candidate = claim.candidate,
         ![a].policy = claim.policy, ![a].completedAt = clock,
         ![a].score = IF claim.candidate.kind # "valid" THEN 0
                      ELSE Score[attempt[a].video]]

-----------------------------------------------------------------------------
(* The commit.                                                             *)

(* A bug: what was decided before the transaction is what is committed.    *)
MayRankAsDecided(a) == attempt[a].policy # {}

(* Whether the bound activation still stands, in the transaction.          *)
MayRank(a) ==
  \E p \in attempt[a].policy : StillActive(p, Bundle[a])

(* The row that stays; its other columns are those of AttemptStore.        *)
Ended(row, candidate, report) ==
  [NotYet(row.video) EXCEPT !.stage = "done", !.candidate = candidate,
                            !.report = report]

FinalizeRanked(a) ==
  LET score == attempt[a].score
      entry == Published(a, score, attempt[a].completedAt)
  IN /\ attempt[a].stage = "decided" /\ attempt[a].candidate = Valid("ranked")
     /\ MayRank(a)
     /\ Publish(a, score, attempt[a].completedAt)
     /\ attempt' = [attempt EXCEPT ![a] = Ended(@, Valid("ranked"),
                                     {Snapshot(board \cup {entry}, entry)})]
     /\ UNCHANGED <<clock, policyVars, reader, batchVars>>

(* A stale ranking authority never blocks a valid analysis result.         *)
FinalizeUnranked(a) ==
  /\ attempt[a].stage = "decided"
  /\ ~(attempt[a].candidate = Valid("ranked") /\ MayRank(a))
  /\ attempt' = [attempt EXCEPT ![a] = Ended(@,
       IF @.candidate = Valid("ranked") THEN Valid("experimental")
       ELSE @.candidate, @.report)]
  /\ UNCHANGED <<clock, policyVars, boardVars, reader, batchVars>>

(* A rejected write is replaced once by an internal failure.               *)
FinalizeThrows(a) ==
  /\ a \in Alone /\ attempt[a].stage = "decided" /\ attempt[a].candidate # InternalError
  /\ Decide(a, InternalError)
  /\ UNCHANGED <<clock, policyVars, boardVars, reader, batchVars>>

Analyse(a) ==
  \/ Begin(a) \/ CannotReconstruct(a) \/ RetryOrGiveUp(a) \/ BatchRefused(a)
  \/ GiveInsight(a) \/ Judge(a)
  \/ FinalizeRanked(a) \/ FinalizeUnranked(a) \/ FinalizeThrows(a)

-----------------------------------------------------------------------------
(* What goes on beside the analyses.                                       *)

Tombstone(a) ==
  /\ attempt[a].stage # "deleted"
  /\ Retract(a)
  /\ attempt' = [attempt EXCEPT ![a] = [NotYet(@.video) EXCEPT !.stage = "deleted"]]
  /\ UNCHANGED <<clock, policyVars, reader, batchVars>>

OperatorActs ==
  PolicyNext /\ UNCHANGED <<attempt, boardVars, reader, batchVars>>

Read ==
  /\ ReaderNext
  /\ UNCHANGED <<attempt, clock, policyVars, boardVars, batchVars>>

TimePasses ==
  /\ clock < LastInstant /\ clock' = clock + 1
  /\ UNCHANGED <<attempt, policyVars, boardVars, reader, batchVars>>

BatchGoesOn ==
  Present # {} /\ BatchNext /\ UNCHANGED <<attempt, clock, policyVars, boardVars, reader>>

Beside == Present # {} /\ Present \cap Alone = {}

Next ==
  \/ /\ \/ \E a \in Present : Analyse(a)
        \/ BatchGoesOn
        \/ Beside /\ (\/ \E a \in Withdrawn : Tombstone(a)
                      \/ OperatorActs \/ Read \/ TimePasses)
     /\ UNCHANGED bench
  \/ BenchmarkNext /\ UNCHANGED <<attempt, clock, policyVars, boardVars, reader>>

Spec == Init /\ [][Next]_analysisVars

(* A delivered job is worked on until it ends (AnalysisQueue); timers fire *)
(* and continuations run.  Nothing makes a provider answer.                *)
FairSpec ==
  /\ Spec /\ BatchFairness
  /\ WF_analysisVars((\E a \in Present : Analyse(a)) /\ UNCHANGED bench)

-----------------------------------------------------------------------------
(* An attempt is committed as ranked only at a moment when the very policy *)
(* it was scored under is active for its provider, rests on a receipt that *)
(* passed, has begun, has not expired and was not revoked, whatever        *)
(* operators did since the lookup (finalizeTerminalResult), and whose      *)
(* batches and percentile kept their limits, whatever they handed in.      *)
RankedUnderCurrentPolicy ==
  [][\A e \in board' \ board :
       \E p \in attempt[e.attempt].policy :
         /\ policy[p].active /\ IsCurrent(p) /\ Tuple(p) = Bundle[e.attempt]
         /\ PassesThresholds(ReceiptOf[policy[p].receipt])
     ]_analysisVars

(* A wall impact belongs to one pass: two scored passes never share one,   *)
(* nor the contact that completes them, for any video that is scored.      *)
NoImpactCountsTwice ==
  \A a \in Present :
    attempt[a].stage = "decided" /\ Mode[a] = "verified"
      /\ attempt[a].candidate.kind = "valid" =>
      LET ev == CanonicalEvents(Assembled[attempt[a].video].active)
          passes == CompletedPasses(ev)
      IN \A c, d \in passes :
           c # d => NextImpact(ev, c) # NextImpact(ev, d)
                      /\ ReturnOf(ev, c) # ReturnOf(ev, d)

(* Every analysis ends, or its attempt is deleted, even if the provider    *)
(* never answers one of its calls.                                         *)
AnalysisEnds ==
  <>(\A a \in Present : attempt[a].stage \in {"done", "deleted"})
=============================================================================
