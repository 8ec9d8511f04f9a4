--------------------------- MODULE TrainingProofs ---------------------------
(***************************************************************************)
(* The analysis of uploaded attempts, for any attempts, videos, providers, *)
(* receipts, policies, score rules and integrity thresholds.               *)
(***************************************************************************)
EXTENDS TrainingAnalysis, SchedulerProofs, SequenceTheorems

-----------------------------------------------------------------------------
(* The invariant.                                                          *)

(* Whatever a policy rests on was parsed when it was stored.               *)
PolicyInv ==
  /\ clock \in Nat /\ stored \subseteq Receipts
  /\ policy \in [Policies -> [receipt : Receipts \cup {"none"}, active : BOOLEAN]]
  /\ \A r \in stored : ReceiptHolds(ReceiptOf[r])

Fields == {"stage", "video", "tries", "policy", "score", "completedAt",
           "candidate", "report"}
AttemptsAreWhole ==
  /\ Present \subseteq Attempts
  /\ \A a \in Present : DOMAIN attempt[a] = Fields /\ attempt[a].video \in Footage[a]

(* An activation a result was scored under is a row that stays, and its    *)
(* receipt had begun.                                                      *)
BoundActivationsStay ==
  \A a \in Present : \A p \in attempt[a].policy :
    /\ p \in Policies /\ policy[p].receipt \in Receipts
    /\ ReceiptOf[policy[p].receipt].runAt <= clock

(* What is scored passed the integrity evaluator.                          *)
ScoredIsValid ==
  \A a \in Present :
    attempt[a].stage = "decided" /\ Mode[a] = "verified"
      /\ attempt[a].candidate.kind = "valid" =>
      Verdict[attempt[a].video] = "integrity-valid"

(* Attempts are analysed, or the provider is benchmarked.                  *)
OneBehaviour == Present # {} => bench = NotRun

TrainingInv ==
  /\ PolicyInv /\ AttemptsAreWhole /\ BoundActivationsStay /\ ScoredIsValid
  /\ OneBehaviour /\ Core /\ BenchInv

-----------------------------------------------------------------------------
(* Scoring.                                                                *)

(* Of rows at natural instants there is a first.                           *)
LEMMA EarliestRow ==
  ASSUME NEW rows, rows # {}, \A r \in rows : r.at \in Nat
  PROVE  First(rows) \in rows /\ \A s \in rows : First(rows).at <= s.at
<1> DEFINE upTo == {1..r.at : r \in rows}
<1>1. upTo \subseteq FiniteSubsetsOf(Nat)
  <2>1. \A n \in Nat : 1..n \in FiniteSubsetsOf(Nat)
    BY FS_Interval DEF FiniteSubsetsOf
  <2> QED BY <2>1
<1>2. upTo # {}
  OBVIOUS
<1>3. PICK U \in upTo : \A V \in upTo : <<V, U>> \notin StrictSubsetOrdering(Nat)
  BY <1>1, <1>2, FS_StrictSubsetOrderingWellFounded, WFMin
<1>4. PICK r \in rows : U = 1..r.at
  OBVIOUS
<1>5. \A s \in rows : r.at <= s.at
  <2> SUFFICES ASSUME NEW s \in rows, s.at < r.at
               PROVE  FALSE
    OBVIOUS
  <2>1. r.at \in 1..r.at /\ r.at \notin 1..s.at /\ (1..s.at) \subseteq 1..r.at
    OBVIOUS
  <2>2. <<1..s.at, 1..r.at>> \in StrictSubsetOrdering(Nat)
    BY <2>1 DEF StrictSubsetOrdering
  <2> QED BY <2>2, <1>3, <1>4
<1> QED BY <1>4, <1>5 DEF First

LEMMA InstantsAreNatural ==
  ASSUME NEW ev, Acceptable(ev)
  PROVE  /\ \A c \in ev.contacts : c.at \in Nat
         /\ \A i \in ev.impacts : i.at \in Nat
         /\ \A c, d \in ev.contacts : c.at = d.at => c = d
BY RuleAssumption DEF Acceptable, InActiveWindow

(* Of two completed passes of one ball track, the earlier is over before   *)
(* the later begins: a contact between a contact and its impact would be   *)
(* the return.                                                             *)
LEMMA PassesFollowEachOther ==
  ASSUME NEW ev, Acceptable(ev),
         NEW c \in CompletedPasses(ev), NEW d \in CompletedPasses(ev),
         c.track = d.track, c.at < d.at
  PROVE  /\ NextImpact(ev, c).at < ReturnOf(ev, c).at
         /\ ReturnOf(ev, c).at <= d.at
         /\ d.at < NextImpact(ev, d).at
         /\ NextImpact(ev, d).at < ReturnOf(ev, d).at
<1>1. c \in ev.contacts /\ d \in ev.contacts
  BY DEF CompletedPasses, Starts
<1>2. ASSUME NEW b \in CompletedPasses(ev)
      PROVE  /\ b.at \in Nat /\ NextImpact(ev, b).at \in Nat
             /\ ReturnOf(ev, b).at \in Nat
             /\ b.at < NextImpact(ev, b).at
             /\ NextImpact(ev, b).at < ReturnOf(ev, b).at
             /\ \A r \in After(ev.contacts, b) : ReturnOf(ev, b).at <= r.at
  <2>1. /\ b \in ev.contacts
        /\ After(ev.impacts, b) # {} /\ After(ev.contacts, b) # {}
        /\ ReturnOf(ev, b).at - NextImpact(ev, b).at
             \in Rule.minReturn..Rule.maxReturn
    BY DEF CompletedPasses, IsCompletedPass, Starts
  <2>2. /\ \A r \in After(ev.impacts, b) : r.at \in Nat /\ r.at > b.at
        /\ \A r \in After(ev.contacts, b) : r.at \in Nat
    BY InstantsAreNatural DEF After
  <2>3. NextImpact(ev, b) \in After(ev.impacts, b)
    BY <2>1, <2>2, EarliestRow DEF NextImpact
  <2>4. /\ ReturnOf(ev, b) \in After(ev.contacts, b)
        /\ \A r \in After(ev.contacts, b) : ReturnOf(ev, b).at <= r.at
    BY <2>1, <2>2, EarliestRow DEF ReturnOf
  <2>5. b.at \in Nat /\ NextImpact(ev, b).at \in Nat /\ ReturnOf(ev, b).at \in Nat
        /\ b.at < NextImpact(ev, b).at
    BY <2>1, <2>2, <2>3, <2>4, InstantsAreNatural
  <2>6. ReturnOf(ev, b).at - NextImpact(ev, b).at > 0
    BY <2>1, <2>5, RuleAssumption
  <2> QED BY <2>4, <2>5, <2>6
<1>3. d \in After(ev.contacts, c)
  BY <1>1, <1>2 DEF After
<1> QED BY <1>2, <1>3

(* The tracks of a pass's impact and return are its own.                   *)
LEMMA PassesKeepTheirTrack ==
  ASSUME NEW ev, Acceptable(ev), NEW c \in CompletedPasses(ev)
  PROVE  NextImpact(ev, c).track = c.track /\ ReturnOf(ev, c).track = c.track
<1>1. After(ev.impacts, c) # {} /\ After(ev.contacts, c) # {}
  BY DEF CompletedPasses, IsCompletedPass
<1>2. /\ \A r \in After(ev.impacts, c) : r.at \in Nat /\ r.track = c.track
      /\ \A r \in After(ev.contacts, c) : r.at \in Nat /\ r.track = c.track
  BY InstantsAreNatural DEF After
<1>3. NextImpact(ev, c) \in After(ev.impacts, c)
  BY <1>1, <1>2, EarliestRow DEF NextImpact
<1>4. ReturnOf(ev, c) \in After(ev.contacts, c)
  BY <1>1, <1>2, EarliestRow DEF ReturnOf
<1> QED BY <1>2, <1>3, <1>4

(* findCompletedPasses, for any evidence the domain package accepts.       *)
LEMMA PassesShareNothing ==
  ASSUME NEW ev, Acceptable(ev),
         NEW c \in CompletedPasses(ev), NEW d \in CompletedPasses(ev), c # d
  PROVE  NextImpact(ev, c) # NextImpact(ev, d) /\ ReturnOf(ev, c) # ReturnOf(ev, d)
<1>1. ASSUME NEW x \in CompletedPasses(ev), NEW y \in CompletedPasses(ev), x.at < y.at,
             NextImpact(ev, x) = NextImpact(ev, y) \/ ReturnOf(ev, x) = ReturnOf(ev, y)
      PROVE  FALSE
  <2>1. x.track = y.track
    BY <1>1, PassesKeepTheirTrack
  <2>2. /\ NextImpact(ev, x).at < ReturnOf(ev, x).at /\ ReturnOf(ev, x).at <= y.at
        /\ y.at < NextImpact(ev, y).at /\ NextImpact(ev, y).at < ReturnOf(ev, y).at
    BY <1>1, <2>1, PassesFollowEachOther
  <2>3. /\ x \in ev.contacts /\ y \in ev.contacts
        /\ ReturnOf(ev, x) \in ev.contacts /\ NextImpact(ev, x) \in ev.impacts
        /\ ReturnOf(ev, y) \in ev.contacts /\ NextImpact(ev, y) \in ev.impacts
    <3>1. ASSUME NEW b \in CompletedPasses(ev)
          PROVE  /\ b \in ev.contacts
                 /\ ReturnOf(ev, b) \in ev.contacts /\ NextImpact(ev, b) \in ev.impacts
      <4>1. After(ev.impacts, b) # {} /\ After(ev.contacts, b) # {}
        BY DEF CompletedPasses, IsCompletedPass
      <4>2. \A r \in After(ev.impacts, b) \cup After(ev.contacts, b) : r.at \in Nat
        BY InstantsAreNatural DEF After
      <4>3. /\ NextImpact(ev, b) \in After(ev.impacts, b)
            /\ ReturnOf(ev, b) \in After(ev.contacts, b)
        BY <4>1, <4>2, EarliestRow DEF NextImpact, ReturnOf
      <4> QED BY <4>3 DEF After, CompletedPasses, Starts
    <3> QED BY <3>1
  <2>4. /\ x.at \in Nat /\ y.at \in Nat /\ ReturnOf(ev, x).at \in Nat
        /\ NextImpact(ev, x).at \in Nat /\ ReturnOf(ev, y).at \in Nat
        /\ NextImpact(ev, y).at \in Nat
    BY <2>3, InstantsAreNatural
  <2>5. NextImpact(ev, x).at < NextImpact(ev, y).at
    BY <2>2, <2>4
  <2>6. ReturnOf(ev, x).at < ReturnOf(ev, y).at
    BY <2>2, <2>4
  <2> QED BY <1>1, <2>4, <2>5, <2>6
<1>2. c \in ev.contacts /\ d \in ev.contacts
  BY DEF CompletedPasses, Starts
<1>3. c.at \in Nat /\ d.at \in Nat /\ c.at # d.at
  BY <1>2, InstantsAreNatural
<1>4. c.at < d.at \/ d.at < c.at
  BY <1>3
<1> QED BY <1>1, <1>4

(* What the integrity evaluator passes is evidence the domain accepts.     *)
LEMMA ValidIsAcceptable ==
  ASSUME NEW video \in VerifiedVideos, Verdict[video] = "integrity-valid"
  PROVE  Acceptable(CanonicalEvents(Assembled[video].active))
<1>1. IntegrityOf(Assembled[video]) = "integrity-valid"
  BY DEF Verdict
<1>2. EventsAreBound(Assembled[video].active)
  BY <1>1 DEF IntegrityOf
<1> QED BY <1>2 DEF EventsAreBound

LEMMA ScoredPassesShareNothing ==
  ASSUME AttemptsAreWhole, ScoredIsValid
  PROVE  NoImpactCountsTwice
<1> SUFFICES ASSUME NEW a \in Present,
                    attempt[a].stage = "decided", Mode[a] = "verified",
                    attempt[a].candidate.kind = "valid"
             PROVE  LET ev == CanonicalEvents(Assembled[attempt[a].video].active)
                        passes == CompletedPasses(ev)
                    IN \A c, d \in passes :
                         c # d => NextImpact(ev, c) # NextImpact(ev, d)
                                    /\ ReturnOf(ev, c) # ReturnOf(ev, d)
  BY DEF NoImpactCountsTwice
<1>1. attempt[a].video \in VerifiedVideos
  BY DEF AttemptsAreWhole, VerifiedVideos
<1>2. Verdict[attempt[a].video] = "integrity-valid"
  BY DEF ScoredIsValid
<1>3. Acceptable(CanonicalEvents(Assembled[attempt[a].video].active))
  BY <1>1, <1>2, ValidIsAcceptable
<1> QED BY <1>3, PassesShareNothing

-----------------------------------------------------------------------------
(* Policies.                                                               *)

(* A receipt, once a policy names it, stays named.                         *)
ActivationsStay ==
  \A p \in Policies :
    policy[p].receipt \in Receipts => policy'[p].receipt = policy[p].receipt

LEMMA PolicyStepKeeps ==
  ASSUME PolicyInv, PolicyNext
  PROVE  PolicyInv' /\ ActivationsStay /\ clock' = clock
<1> DEFINE Line == [receipt : Receipts \cup {"none"}, active : BOOLEAN]
<1>1. ASSUME NEW r \in Receipts, StoreReceipt(r)
      PROVE  PolicyInv' /\ ActivationsStay /\ clock' = clock
  BY <1>1 DEF PolicyInv, StoreReceipt, ActivationsStay
<1>2. ASSUME NEW r \in Receipts, Invalidate(r)
      PROVE  PolicyInv' /\ ActivationsStay /\ clock' = clock
  BY <1>2 DEF PolicyInv, Invalidate, ActivationsStay
<1>3. ASSUME NEW p \in Policies, Deactivate(p)
      PROVE  PolicyInv' /\ ActivationsStay /\ clock' = clock
  <2> DEFINE row == [policy[p] EXCEPT !.active = FALSE]
  <2>1. policy \in [Policies -> Line] /\ policy[p] \in Line
    BY DEF PolicyInv
  <2>2. row \in Line /\ row.receipt = policy[p].receipt
    BY <2>1
  <2>3. policy' = [policy EXCEPT ![p] = row] /\ UNCHANGED <<clock, stored>>
    BY <1>3 DEF Deactivate
  <2> HIDE DEF row, Line
  <2>4. policy' \in [Policies -> Line]
    BY <2>1, <2>2, <2>3
  <2>5. \A q \in Policies : policy'[q].receipt = policy[q].receipt
    BY <2>1, <2>2, <2>3
  <2> QED BY <2>3, <2>4, <2>5 DEF PolicyInv, ActivationsStay, Line
<1>4. ASSUME NEW p \in Policies, NEW r \in Receipts, Activate(p, r)
      PROVE  PolicyInv' /\ ActivationsStay /\ clock' = clock
  <2> DEFINE Next1(q) ==
        IF q = p THEN [receipt |-> r, active |-> TRUE]
        ELSE IF policy[q].active /\ Tuple(q) = ReceiptOf[r].tuple
        THEN [policy[q] EXCEPT !.active = FALSE]
        ELSE policy[q]
  <2>1. policy' = [q \in Policies |-> Next1(q)] /\ policy[p] = NoPolicy
        /\ UNCHANGED <<clock, stored>>
    BY <1>4 DEF Activate
  <2>2. policy[p].receipt \notin Receipts
    BY <2>1, PolicyAssumption DEF NoPolicy
  <2>3. ASSUME NEW q \in Policies
        PROVE  Next1(q) \in Line /\ (q # p => Next1(q).receipt = policy[q].receipt)
    <3>1. policy[q] \in Line
      BY DEF PolicyInv
    <3>2. CASE q = p
      BY <3>2
    <3>3. CASE q # p
      <4>1. [policy[q] EXCEPT !.active = FALSE] \in Line
            /\ [policy[q] EXCEPT !.active = FALSE].receipt = policy[q].receipt
        BY <3>1
      <4> QED BY <3>1, <3>3, <4>1
    <3> QED BY <3>2, <3>3
  <2> HIDE DEF Next1, Line
  <2>4. policy' \in [Policies -> Line]
    BY <2>1, <2>3
  <2>5. \A q \in Policies : q # p => policy'[q].receipt = policy[q].receipt
    BY <2>1, <2>3
  <2> QED BY <2>1, <2>2, <2>4, <2>5 DEF PolicyInv, ActivationsStay, Line
<1> QED BY <1>1, <1>2, <1>3, <1>4 DEF PolicyNext

(* Who may rank now and was eligible once ranks under a current policy.    *)
LEMMA RankingIsCurrent ==
  ASSUME PolicyInv, NEW a, NEW p, StillActive(p, Bundle[a]),
         policy[p].receipt \in Receipts,
         ReceiptOf[policy[p].receipt].runAt <= clock
  PROVE  /\ policy[p].active /\ IsCurrent(p) /\ Tuple(p) = Bundle[a]
         /\ PassesThresholds(ReceiptOf[policy[p].receipt])
<1> DEFINE r == policy[p].receipt
<1>1. policy[p].active /\ Approved(r) /\ Tuple(p) = Bundle[a]
  BY DEF StillActive, ActiveFor
<1>2. IsCurrent(p)
  <2>1. ReceiptOf[r].validUntil \in Nat /\ ReceiptOf[r].validUntil > clock
        /\ clock \in Nat
    BY <1>1, PolicyAssumption DEF Approved, PolicyInv
  <2> QED BY <1>1, <2>1 DEF IsCurrent, Approved
<1>3. PassesThresholds(ReceiptOf[r])
  BY <1>1 DEF Approved, PolicyInv, ReceiptHolds
<1> QED BY <1>1, <1>2, <1>3

LEMMA EligibleIsBound ==
  ASSUME PolicyInv, NEW tuple, NEW p \in EligibleFor(tuple)
  PROVE  /\ p \in Policies /\ policy[p].receipt \in Receipts
         /\ ReceiptOf[policy[p].receipt].runAt <= clock
BY DEF EligibleFor, ActiveFor, IsCurrent, Approved, PolicyInv

-----------------------------------------------------------------------------
(* Attempts.  What one step may do to a row.                               *)

RowStep(a) ==
  /\ DOMAIN attempt' = Present
  /\ \A b \in Present \ {a} : attempt'[b] = attempt[b]
  /\ DOMAIN attempt'[a] = Fields /\ attempt'[a].video = attempt[a].video
  /\ \A p \in attempt'[a].policy :
       p \in attempt[a].policy \/ p \in EligibleFor(Bundle[a])
  /\ attempt'[a].stage = "decided" /\ Mode[a] = "verified"
       /\ attempt'[a].candidate.kind = "valid" =>
       Verdict[attempt[a].video] = "integrity-valid"

LEMMA BeginRow ==
  ASSUME AttemptsAreWhole, NEW a \in Present, Begin(a)
  PROVE  RowStep(a)
BY DEF AttemptsAreWhole, Begin, RowStep, Fields, Present

LEMMA RefusedRow ==
  ASSUME AttemptsAreWhole, NEW a \in Present,
         CannotReconstruct(a) \/ BatchRefused(a) \/ FinalizeThrows(a)
  PROVE  RowStep(a)
<1>1. PICK code :
        attempt' = [attempt EXCEPT ![a].stage = "decided",
                                   ![a].candidate = Failed(code)]
  BY DEF CannotReconstruct, BatchRefused, FinalizeThrows, Decide, InternalError
<1> QED BY <1>1 DEF AttemptsAreWhole, Failed, RowStep, Fields, Present

LEMMA RetriedRow ==
  ASSUME AttemptsAreWhole, NEW a \in Present, RetryOrGiveUp(a)
  PROVE  RowStep(a)
BY DEF AttemptsAreWhole, RetryOrGiveUp, Nothing, Failed, RowStep, Fields, Present

LEMMA InsightRow ==
  ASSUME AttemptsAreWhole, NEW a \in Present, GiveInsight(a)
  PROVE  RowStep(a)
BY DEF AttemptsAreWhole, GiveInsight, Valid, RowStep, Fields, Present

LEMMA ClaimsAreEligible ==
  ASSUME NEW a, NEW claim \in Claims(a)
  PROVE  claim.policy \subseteq EligibleFor(Bundle[a])
BY DEF Claims

LEMMA JudgedRow ==
  ASSUME AttemptsAreWhole, NEW a \in Present, Judge(a)
  PROVE  RowStep(a)
<1> DEFINE verdict == Verdict[attempt[a].video]
           claims == IF verdict = "integrity-valid" THEN Claims(a)
                     ELSE {[candidate |-> Invalid(verdict), policy |-> {}]}
<1>1. PICK claim \in claims :
        attempt' = [attempt EXCEPT
          ![a].stage = "decided", ![a].candidate = claim.candidate,
          ![a].policy = claim.policy, ![a].completedAt = clock,
          ![a].score = IF claim.candidate.kind # "valid" THEN 0
                       ELSE Score[attempt[a].video]]
  BY DEF Judge
<1>2. DOMAIN attempt[a] = Fields
  BY DEF AttemptsAreWhole
<1>3. claim.policy \subseteq EligibleFor(Bundle[a])
  BY ClaimsAreEligible
<1>4. claim.candidate.kind = "valid" => verdict = "integrity-valid"
  BY DEF Invalid
<1> HIDE DEF verdict, claims
<1>5. /\ DOMAIN attempt' = Present
      /\ \A b \in Present \ {a} : attempt'[b] = attempt[b]
      /\ DOMAIN attempt'[a] = Fields /\ attempt'[a].video = attempt[a].video
      /\ attempt'[a].policy = claim.policy
      /\ attempt'[a].candidate = claim.candidate
  BY <1>1, <1>2 DEF Fields, Present
<1> QED BY <1>3, <1>4, <1>5 DEF RowStep, verdict

(* A row that has ended is bound to nothing.                               *)
LEMMA EndedRow ==
  ASSUME NEW row, NEW candidate, NEW report
  PROVE  /\ DOMAIN Ended(row, candidate, report) = Fields
         /\ Ended(row, candidate, report).video = row.video
         /\ Ended(row, candidate, report).policy = {}
         /\ Ended(row, candidate, report).stage = "done"
BY DEF Ended, NotYet, Fields

LEMMA FinalizedRow ==
  ASSUME AttemptsAreWhole, NEW a \in Present,
         FinalizeRanked(a) \/ FinalizeUnranked(a)
  PROVE  RowStep(a)
<1>1. PICK candidate, report :
        attempt' = [attempt EXCEPT ![a] = Ended(@, candidate, report)]
  BY DEF FinalizeRanked, FinalizeUnranked
<1> DEFINE row == Ended(attempt[a], candidate, report)
<1>2. DOMAIN row = Fields /\ row.video = attempt[a].video /\ row.policy = {}
      /\ row.stage = "done"
  BY EndedRow
<1> HIDE DEF row
<1>3. attempt' = [attempt EXCEPT ![a] = row]
  BY <1>1 DEF row
<1> QED BY <1>2, <1>3 DEF RowStep, Present

LEMMA TombstonedRow ==
  ASSUME NEW a \in Present, Tombstone(a)
  PROVE  RowStep(a)
<1> DEFINE row == [NotYet(attempt[a].video) EXCEPT !.stage = "deleted"]
<1>1. DOMAIN row = Fields /\ row.video = attempt[a].video /\ row.policy = {}
      /\ row.stage = "deleted"
  BY DEF NotYet, Fields
<1>2. attempt' = [attempt EXCEPT ![a] = row]
  BY DEF Tombstone
<1> HIDE DEF row
<1> QED BY <1>1, <1>2 DEF RowStep, Present

LEMMA AnalysedRow ==
  ASSUME AttemptsAreWhole, NEW a \in Present, Analyse(a)
  PROVE  RowStep(a)
BY BeginRow, RefusedRow, RetriedRow, InsightRow, JudgedRow, FinalizedRow DEF Analyse

(* A row changes; policies do not, and time stands still.                  *)
LEMMA RowStepKeeps ==
  ASSUME PolicyInv, AttemptsAreWhole, BoundActivationsStay, ScoredIsValid,
         NEW a \in Present, RowStep(a), UNCHANGED <<clock, policyVars>>
  PROVE  /\ PolicyInv' /\ AttemptsAreWhole' /\ BoundActivationsStay'
         /\ ScoredIsValid'
<1>1. PolicyInv'
  BY DEF PolicyInv, policyVars
<1>2. AttemptsAreWhole'
  BY DEF AttemptsAreWhole, RowStep, Present
<1>3. BoundActivationsStay'
  <2> SUFFICES ASSUME NEW b \in Present, NEW p \in attempt'[b].policy
               PROVE  /\ p \in Policies /\ policy[p].receipt \in Receipts
                      /\ ReceiptOf[policy[p].receipt].runAt <= clock
    BY DEF BoundActivationsStay, RowStep, policyVars, Present
  <2>1. p \in attempt[b].policy \/ p \in EligibleFor(Bundle[a])
    BY DEF RowStep, Present
  <2> QED BY <2>1, EligibleIsBound DEF BoundActivationsStay
<1>4. ScoredIsValid'
  <2> SUFFICES ASSUME NEW b \in Present,
                      attempt'[b].stage = "decided", Mode[b] = "verified",
                      attempt'[b].candidate.kind = "valid"
               PROVE  Verdict[attempt'[b].video] = "integrity-valid"
    <3>1. Verdict' = Verdict
      BY DEF Verdict, Assembled, VerifiedVideos
    <3> QED BY <3>1 DEF ScoredIsValid, RowStep, Present
  <2>1. CASE b = a
    BY <2>1 DEF RowStep
  <2>2. CASE b # a
    BY <2>2 DEF RowStep, ScoredIsValid
  <2> QED BY <2>1, <2>2
<1> QED BY <1>1, <1>2, <1>3, <1>4

LEMMA RowsStay ==
  ASSUME PolicyInv, AttemptsAreWhole, BoundActivationsStay, ScoredIsValid,
         UNCHANGED <<attempt, clock, policyVars>>
  PROVE  /\ PolicyInv' /\ AttemptsAreWhole' /\ BoundActivationsStay'
         /\ ScoredIsValid'
BY DEF PolicyInv, policyVars, AttemptsAreWhole, BoundActivationsStay,
       ScoredIsValid, Present, Verdict, Assembled, VerifiedVideos

(* Operators act, or time passes: what was bound stays bound.              *)
LEMMA SurroundingsKeep ==
  ASSUME PolicyInv, AttemptsAreWhole, BoundActivationsStay, ScoredIsValid,
         OperatorActs \/ TimePasses
  PROVE  /\ PolicyInv' /\ AttemptsAreWhole' /\ BoundActivationsStay'
         /\ ScoredIsValid'
<1>1. PolicyInv' /\ ActivationsStay /\ clock' \in Nat /\ clock' >= clock
      /\ attempt' = attempt
  <2>1. CASE OperatorActs
    BY <2>1, PolicyStepKeeps DEF OperatorActs, PolicyInv
  <2>2. CASE TimePasses
    BY <2>2 DEF TimePasses, policyVars, PolicyInv, ActivationsStay
  <2> QED BY <2>1, <2>2
<1>2. AttemptsAreWhole' /\ ScoredIsValid'
  BY <1>1 DEF AttemptsAreWhole, ScoredIsValid, Present, Verdict, Assembled,
              VerifiedVideos
<1>3. BoundActivationsStay'
  <2> SUFFICES ASSUME NEW a \in Present, NEW p \in attempt[a].policy
               PROVE  /\ p \in Policies /\ policy'[p].receipt \in Receipts
                      /\ ReceiptOf[policy'[p].receipt].runAt <= clock'
    BY <1>1 DEF BoundActivationsStay, Present
  <2>1. /\ p \in Policies /\ policy[p].receipt \in Receipts
        /\ ReceiptOf[policy[p].receipt].runAt <= clock
    BY DEF BoundActivationsStay
  <2>2. policy'[p].receipt = policy[p].receipt
    BY <2>1, <1>1 DEF ActivationsStay
  <2>3. ReceiptOf[policy[p].receipt].runAt \in Nat /\ clock \in Nat
    BY <2>1, PolicyAssumption DEF PolicyInv
  <2> QED BY <1>1, <2>1, <2>2, <2>3
<1> QED BY <1>1, <1>2, <1>3

(* What a step of an analysis does to the batch beside it.                 *)
LEMMA AnalysisKeepsBatch ==
  ASSUME Core, NEW a, Analyse(a)
  PROVE  Core'
<1>1. UNCHANGED batchVars \/ EmptyBatch("running") \/ EmptyBatch("idle")
  BY DEF Analyse, Begin, CannotReconstruct, RetryOrGiveUp, BatchRefused,
         GiveInsight, Judge, AfterBatch, FinalizeRanked, FinalizeUnranked,
         FinalizeThrows
<1> QED BY <1>1, BatchStays, EmptyBatchHolds

(* The benchmark waits while attempts are analysed.                        *)
LEMMA BenchStays ==
  ASSUME BenchInv, bench = NotRun, bench' = bench
  PROVE  BenchInv'
BY DEF BenchInv, SamplesAreCounted, ReceiptRests, Measuring, NotRun

-----------------------------------------------------------------------------
(* The specification.                                                      *)

LEMMA TrainingInit == Init => TrainingInv
<1> SUFFICES ASSUME Init PROVE TrainingInv
  OBVIOUS
<1>1. PolicyInv
  BY DEF Init, PolicyInit, PolicyInv, NoPolicy
<1>2. CASE Measured
  <2>1. Present = {}
    BY <1>2 DEF Measured, Present
  <2> QED BY <1>1, <1>2, <2>1, BenchmarkInitHolds
          DEF Measured, TrainingInv, AttemptsAreWhole, BoundActivationsStay,
              ScoredIsValid, OneBehaviour
<1>3. CASE Analysed
  <2>1. bench = NotRun /\ BatchInit("idle")
    BY <1>3 DEF Analysed
  <2>2. PICK group \in {{a} : a \in Alone} \cup {Attempts \ Alone} :
          \E video : /\ \A a \in group : video[a] \in Footage[a]
                     /\ attempt = [a \in group |-> NotYet(video[a])]
    BY <1>3 DEF Analysed
  <2>3. PICK video : /\ \A a \in group : video[a] \in Footage[a]
                     /\ attempt = [a \in group |-> NotYet(video[a])]
    BY <2>2
  <2>4. Present = group /\ group \subseteq Attempts
    BY <2>3, AnalysisAssumption DEF Present
  <2>5. \A a \in Present : /\ DOMAIN attempt[a] = Fields
                           /\ attempt[a].video = video[a]
                           /\ attempt[a].policy = {} /\ attempt[a].stage = "waiting"
    BY <2>3, <2>4 DEF NotYet, Fields
  <2>6. BenchInv
    BY <2>1, NotRunIsTyped DEF BenchInv, SamplesAreCounted, ReceiptRests, Measuring, NotRun
  <2> QED BY <1>1, <2>1, <2>3, <2>4, <2>5, <2>6, BatchInitHolds
          DEF TrainingInv, AttemptsAreWhole, BoundActivationsStay,
              ScoredIsValid, OneBehaviour
<1> QED BY <1>2, <1>3 DEF Init

LEMMA TrainingStep == TrainingInv /\ [Next]_analysisVars => TrainingInv'
<1> SUFFICES ASSUME TrainingInv, [Next]_analysisVars PROVE TrainingInv'
  OBVIOUS
<1> USE DEF TrainingInv
<1>1. ASSUME NEW a \in Present, Analyse(a), bench' = bench
      PROVE  TrainingInv'
  <2>1. bench = NotRun
    BY DEF OneBehaviour
  <2>2. RowStep(a) /\ UNCHANGED <<clock, policyVars>>
    BY <1>1, AnalysedRow DEF Analyse, Begin, CannotReconstruct, RetryOrGiveUp,
         BatchRefused, GiveInsight, Judge, AfterBatch, FinalizeRanked,
         FinalizeUnranked, FinalizeThrows
  <2> QED BY <1>1, <2>1, <2>2, RowStepKeeps, AnalysisKeepsBatch, BenchStays
          DEF OneBehaviour
<1>2. ASSUME BatchGoesOn, bench' = bench
      PROVE  TrainingInv'
  <2>1. bench = NotRun
    BY <1>2 DEF OneBehaviour, BatchGoesOn
  <2> QED BY <1>2, <2>1, RowsStay, BatchNextKeeps, BenchStays
          DEF BatchGoesOn, OneBehaviour
<1>3. ASSUME Present # {}, bench' = bench,
             OperatorActs \/ TimePasses \/ Read \/ \E a \in Withdrawn : Tombstone(a)
      PROVE  TrainingInv'
  <2>1. bench = NotRun /\ UNCHANGED batchVars
    BY <1>3 DEF OneBehaviour, OperatorActs, TimePasses, Read, Tombstone
  <2>2. Core' /\ BenchInv' /\ OneBehaviour'
    BY <1>3, <2>1, BatchStays, BenchStays DEF OneBehaviour
  <2>3. CASE OperatorActs \/ TimePasses
    BY <2>2, <2>3, SurroundingsKeep
  <2>4. CASE Read
    BY <2>2, <2>4, RowsStay DEF Read
  <2>5. ASSUME NEW a \in Withdrawn, Tombstone(a)
        PROVE  TrainingInv'
    <3>1. CASE a \in Present
      BY <2>2, <2>5, <3>1, TombstonedRow, RowStepKeeps DEF Tombstone
    <3>2. CASE a \notin Present
      <4>1. /\ DOMAIN attempt' = DOMAIN attempt
            /\ \A b \in DOMAIN attempt : attempt'[b] = attempt[b]
            /\ UNCHANGED <<clock, policyVars>>
        BY <2>5, <3>2 DEF Tombstone, Present
      <4> QED BY <2>2, <4>1
              DEF PolicyInv, policyVars, AttemptsAreWhole, BoundActivationsStay,
                  ScoredIsValid, Present, Verdict, Assembled, VerifiedVideos
    <3> QED BY <3>1, <3>2
  <2> QED BY <1>3, <2>3, <2>4, <2>5
<1>4. ASSUME BenchmarkNext, UNCHANGED <<attempt, clock, policyVars, boardVars, reader>>
      PROVE  TrainingInv'
  <2>1. Core' /\ BenchInv'
    BY <1>4, BenchmarkNextKeeps
  <2>2. bench # NotRun
    BY <1>4 DEF BenchmarkNext, MeasuredStep, BenchmarkEnds, NextManifest,
         MakeReceipt, GiveUpBenchmark, BatchSettled, MeasuredAnswer,
         MeasuredLateAnswer, Measuring, NotRun
  <2>3. OneBehaviour'
    BY <1>4, <2>2 DEF OneBehaviour, Present
  <2> QED BY <1>4, <2>1, <2>3, RowsStay
<1>5. CASE UNCHANGED analysisVars
  <2>1. UNCHANGED <<attempt, clock, policyVars>> /\ UNCHANGED batchVars /\ bench' = bench
    BY <1>5 DEF analysisVars, policyVars
  <2>2. BenchInv'
    BY <2>1 DEF BenchInv, SamplesAreCounted, ReceiptRests, Measuring, batchVars
  <2> QED BY <2>1, <2>2, RowsStay, BatchStays DEF OneBehaviour, Present
<1> QED BY <1>1, <1>2, <1>3, <1>4, <1>5 DEF Next, Beside

(* The inductive invariant of the analyses, their batches and the policies.*)
THEOREM TrainingInvariant == Spec => []TrainingInv
<1> QED BY TrainingInit, TrainingStep, PTL DEF Spec

(* No frame of any batch, of an analysis or of the benchmark, ever has two *)
(* calls of the provider out (VisionBatchScheduler.dispatchWithRetry).     *)
THEOREM CallsNeverOverlap == Spec => []NoOverlappingRequests
<1>1. TrainingInv => NoOverlappingRequests
  BY CallsDoNotOverlap DEF TrainingInv
<1> QED BY <1>1, TrainingInvariant, PTL

(* A receipt rests on one sample of every frame of every manifest, and a   *)
(* passed one on batches and samples that kept their limits                *)
(* (runWorkflowBenchmark).                                                 *)
THEOREM ReceiptsAreEarned == Spec => []ReceiptIsEarned
<1>1. TrainingInv => ReceiptIsEarned
  BY BenchmarkPromise DEF TrainingInv
<1> QED BY <1>1, TrainingInvariant, PTL

(* Two scored passes of a video never share an impact or a return          *)
(* (wall-pass-v1).                                                         *)
THEOREM ImpactsCountOnce == Spec => []NoImpactCountsTwice
<1>1. TrainingInv => NoImpactCountsTwice
  BY ScoredPassesShareNothing DEF TrainingInv
<1> QED BY <1>1, TrainingInvariant, PTL

-----------------------------------------------------------------------------
(* Ranking.                                                                *)

LEMMA BoardGrowsByRanking ==
  ASSUME Next, NEW e \in board' \ board
  PROVE  \E a \in Present : FinalizeRanked(a) /\ e.attempt = a
<1>1. ASSUME NEW a \in Present, Analyse(a)
      PROVE  FinalizeRanked(a) /\ e.attempt = a
  <2>1. FinalizeRanked(a) \/ UNCHANGED boardVars
    BY <1>1 DEF Analyse, Begin, CannotReconstruct, RetryOrGiveUp, BatchRefused,
         GiveInsight, Judge, AfterBatch, FinalizeUnranked, FinalizeThrows
  <2>2. FinalizeRanked(a)
    BY <2>1 DEF boardVars
  <2>3. board' = board \cup {Published(a, attempt[a].score, attempt[a].completedAt)}
    BY <2>2 DEF FinalizeRanked, Publish
  <2>4. e = Published(a, attempt[a].score, attempt[a].completedAt)
    BY <2>3
  <2> QED BY <2>2, <2>4 DEF Published
<1>2. ASSUME NEW a \in Withdrawn, Tombstone(a)
      PROVE  FALSE
  BY <1>2 DEF Tombstone, Retract
<1>3. ~(BatchGoesOn \/ OperatorActs \/ Read \/ TimePasses)
  BY DEF BatchGoesOn, OperatorActs, Read, TimePasses, boardVars
<1>4. ~UNCHANGED boardVars
  BY DEF boardVars
<1> QED BY <1>1, <1>2, <1>3, <1>4 DEF Next

(* A result joins the board only under a policy that stands at that moment,*)
(* on a receipt that passed (finalizeTerminalResult).                      *)
THEOREM RankingHoldsAtCommit == Spec => RankedUnderCurrentPolicy
<1> DEFINE OnlyCurrent ==
      \A e \in board' \ board :
        \E p \in attempt[e.attempt].policy :
          /\ policy[p].active /\ IsCurrent(p) /\ Tuple(p) = Bundle[e.attempt]
          /\ PassesThresholds(ReceiptOf[policy[p].receipt])
<1>1. TrainingInv /\ [Next]_analysisVars => [OnlyCurrent]_analysisVars
  <2> SUFFICES ASSUME TrainingInv, Next, NEW e \in board' \ board
               PROVE  \E p \in attempt[e.attempt].policy :
                        /\ policy[p].active /\ IsCurrent(p)
                        /\ Tuple(p) = Bundle[e.attempt]
                        /\ PassesThresholds(ReceiptOf[policy[p].receipt])
    OBVIOUS
  <2>1. PICK a \in Present : FinalizeRanked(a) /\ e.attempt = a
    BY BoardGrowsByRanking
  <2>2. PICK p \in attempt[a].policy : StillActive(p, Bundle[a])
    BY <2>1 DEF FinalizeRanked, MayRank
  <2>3. policy[p].receipt \in Receipts /\ ReceiptOf[policy[p].receipt].runAt <= clock
    BY DEF TrainingInv, BoundActivationsStay
  <2> QED BY <2>1, <2>2, <2>3, RankingIsCurrent DEF TrainingInv
<1> QED BY <1>1, TrainingInvariant, PTL DEF Spec, RankedUnderCurrentPolicy

-----------------------------------------------------------------------------
(* The board and its reader.                                               *)

Rows == [attempt : Attempts, score : Int, completedAt : Nat, createdAt : Nat,
         sequence : Nat]
SentCursors == [opens : BOOLEAN, calculatedAt : Nat, snapshotSequence : Nat, last : Rows]

(* Numbers are integers, scores among them, whatever video they are of.    *)
CandidatesFit ==
  \A a \in Present : attempt[a].score \in Int /\ attempt[a].completedAt \in Nat

(* An attempt has one entry, once it is done.                              *)
BoardFits ==
  /\ board \subseteq Rows /\ IsFiniteSet(board) /\ sequence \in Nat
  /\ \A e \in board : /\ e.attempt \in Present /\ attempt[e.attempt].stage = "done"
                      /\ e.sequence <= sequence
  /\ \A e, f \in board : e.attempt = f.attempt => e = f

(* A reader waits for one answer, to its cursor or to none.  The cursor    *)
(* marks the last row shown, and what it selects of the board is what is   *)
(* left of the list its reader began with.                                 *)
OneQuestion == \E sent \in {{}, reader.cursor} : reader.asked \subseteq {sent}
CursorSelects(c) ==
  /\ c \in SentCursors /\ c.snapshotSequence <= sequence
  /\ \A e \in board :
       e \in reader.cohort <=>
         e.completedAt <= c.calculatedAt /\ e.sequence <= c.snapshotSequence
  /\ \A e \in Range(reader.shown) : e = c.last \/ Precedes(e, c.last)
ReaderFits ==
  /\ DOMAIN reader = {"cursor", "asked", "shown", "cohort"}
  /\ reader.shown \in Seq(Rows) /\ reader.cohort \subseteq Rows
  /\ \A e \in reader.cohort : e.sequence <= sequence
  /\ OneQuestion /\ \A c \in reader.cursor : CursorSelects(c)
  /\ \A c, d \in reader.cursor : c = d

BoardInv == CandidatesFit /\ BoardFits /\ ReaderFits /\ PagesShowOneSnapshot

-----------------------------------------------------------------------------
(* Pages.                                                                  *)

Distinct(S) == \A e, f \in S : e.attempt = f.attempt => e = f

(* Rows of distinct attempts come one after the other.                     *)
LEMMA RowsAreOrdered ==
  ASSUME NEW S \in SUBSET Rows, Distinct(S), NEW e \in S, NEW f \in S
  PROVE  /\ ~Precedes(e, e)
         /\ e = f \/ Precedes(e, f) \/ Precedes(f, e)
         /\ \A g \in Rows : Precedes(e, f) /\ Precedes(f, g) => Precedes(e, g)
<1>1. \A g \in Rows : g.score \in Int /\ g.completedAt \in Nat /\ g.attempt \in Nat
  BY LeaderboardAssumption DEF Rows
<1>2. e = f \/ e.attempt # f.attempt
  BY DEF Distinct
<1> QED BY <1>1, <1>2 DEF Precedes

(* The number of rows before a row is its place in the list.               *)
LEMMA RankedRows ==
  ASSUME NEW S \in SUBSET Rows, Distinct(S), IsFiniteSet(S)
  PROVE  /\ Cardinality(S) \in Nat /\ Ranked(S) \in [1..Cardinality(S) -> S]
         /\ \A i, j \in 1..Cardinality(S) :
              i < j => Precedes(Ranked(S)[i], Ranked(S)[j])
         /\ \A e \in S : \E i \in 1..Cardinality(S) : Ranked(S)[i] = e
<1> DEFINE before(e) == {f \in S : Precedes(f, e)}
           place == [e \in S |-> Cardinality(before(e)) + 1]
<1>1. PICK n \in Nat : n = Cardinality(S)
  BY FS_CardinalityType
<1>2. ASSUME NEW e \in S
      PROVE  /\ IsFiniteSet(before(e)) /\ Cardinality(before(e)) \in Nat
             /\ Cardinality(before(e)) < n
  <2>1. before(e) \in SUBSET S /\ before(e) # S
    BY RowsAreOrdered
  <2>2. /\ IsFiniteSet(before(e)) /\ Cardinality(before(e)) <= n
        /\ Cardinality(before(e)) # n
    BY <1>1, <2>1, FS_Subset
  <2>3. Cardinality(before(e)) \in Nat
    BY <2>2, FS_CardinalityType
  <2> HIDE DEF before
  <2> QED BY <2>2, <2>3
<1>3. ASSUME NEW e \in S, NEW f \in S, Precedes(e, f)
      PROVE  Cardinality(before(e)) < Cardinality(before(f))
  <2>1. before(e) \in SUBSET before(f)
    BY <1>3, RowsAreOrdered
  <2>2. before(e) # before(f)
    BY <1>3, RowsAreOrdered
  <2>3. /\ Cardinality(before(e)) <= Cardinality(before(f))
        /\ Cardinality(before(e)) # Cardinality(before(f))
    BY <1>2, <2>1, <2>2, FS_Subset
  <2> HIDE DEF before
  <2> QED BY <1>2, <2>3
<1>4. ASSUME NEW e \in S, NEW f \in S, Cardinality(before(e)) = Cardinality(before(f))
      PROVE  e = f
  <2>1. ~Precedes(e, f) /\ ~Precedes(f, e)
    <3> HIDE DEF before
    <3> QED BY <1>2, <1>3, <1>4
  <2> QED BY <2>1, RowsAreOrdered
<1> HIDE DEF before
<1>5. place \in Surjection(S, 1..n)
  <2>1. place \in Injection(S, 1..n)
    <3>1. place \in [S -> 1..n]
      BY <1>2
    <3>2. \A e, f \in S : place[e] = place[f] => e = f
      BY <1>2, <1>4
    <3> QED BY <3>1, <3>2 DEF Injection, IsInjective
  <2>2. IsFiniteSet(1..n) /\ Cardinality(1..n) = n
    BY FS_Interval
  <2> HIDE DEF place
  <2> QED BY <1>1, <2>1, <2>2, FS_Injection
<1>6. \A i \in 1..n : \E e \in S : Cardinality(before(e)) = i - 1
  <2> SUFFICES ASSUME NEW i \in 1..n PROVE \E e \in S : Cardinality(before(e)) = i - 1
    OBVIOUS
  <2>1. PICK e \in S : place[e] = i
    BY <1>5 DEF Surjection
  <2> QED BY <1>2, <2>1
<1>7. Ranked(S) = [i \in 1..n |-> CHOOSE e \in S : Cardinality(before(e)) = i - 1]
  BY <1>1 DEF Ranked, before
<1>8. ASSUME NEW i \in 1..n
      PROVE  Ranked(S)[i] \in S /\ Cardinality(before(Ranked(S)[i])) = i - 1
  BY <1>6, <1>7
<1>9. Ranked(S) \in [1..n -> S]
  BY <1>7, <1>8
<1>10. ASSUME NEW i \in 1..n, NEW j \in 1..n, i < j
       PROVE  Precedes(Ranked(S)[i], Ranked(S)[j])
  <2>1. PICK e \in S : e = Ranked(S)[i] /\ Cardinality(before(e)) = i - 1
    BY <1>8
  <2>2. PICK f \in S : f = Ranked(S)[j] /\ Cardinality(before(f)) = j - 1
    BY <1>8
  <2>3. e # f /\ ~Precedes(f, e)
    BY <1>3, <1>10, <2>1, <2>2
  <2> QED BY <2>1, <2>2, <2>3, RowsAreOrdered
<1>11. ASSUME NEW e \in S PROVE \E i \in 1..n : Ranked(S)[i] = e
  <2>1. PICK i \in 1..n : i - 1 = Cardinality(before(e))
    <3>1. Cardinality(before(e)) + 1 \in 1..n
      BY <1>2
    <3> QED BY <1>2, <3>1
  <2> QED BY <1>4, <1>8, <2>1
<1> QED BY <1>1, <1>9, <1>10, <1>11

(* A page is the beginning of the list; its cursor is the last of it, and  *)
(* is there when something follows.                                        *)
LEMMA FirstRows ==
  ASSUME NEW S \in SUBSET Rows, Distinct(S), IsFiniteSet(S)
  PROVE  /\ Page(S) \in Seq(Rows) /\ Range(Page(S)) \subseteq S
         /\ \A i, j \in DOMAIN Page(S) : i < j => Precedes(Page(S)[i], Page(S)[j])
         /\ Cardinality(S) <= PageLimit => S \subseteq Range(Page(S))
         /\ Cardinality(S) > PageLimit =>
              /\ Ranked(S)[PageLimit] \in Range(Page(S))
              /\ \A e \in Range(Page(S)) :
                   e = Ranked(S)[PageLimit] \/ Precedes(e, Ranked(S)[PageLimit])
              /\ \A e \in S : e \in Range(Page(S)) \/ Precedes(Ranked(S)[PageLimit], e)
<1>1. PICK n \in Nat : n = Cardinality(S)
  BY RankedRows
<1>2. PICK list : list = Ranked(S)
  OBVIOUS
<1>3. /\ list \in [1..n -> S]
      /\ \A i, j \in 1..n : i < j => Precedes(list[i], list[j])
      /\ \A e \in S : \E i \in 1..n : list[i] = e
  BY <1>1, <1>2, RankedRows
<1>4. PICK k \in Nat : k = Min({PageLimit, n}) /\ k <= n /\ k \in {PageLimit, n}
  BY LesserOfTwo, LeaderboardAssumption
<1>5. k <= PageLimit /\ PageLimit \in Nat /\ PageLimit > 0
  <2>1. \E x \in {PageLimit, n} : \A y \in {PageLimit, n} : x <= y
    BY LeaderboardAssumption
  <2> QED BY <1>4, <2>1, LeaderboardAssumption DEF Min
<1>6. PICK page : page = SubSeq(list, 1, k) /\ page = Page(S)
  BY <1>1, <1>2, <1>4 DEF Page
<1>7. page \in Seq(S) /\ Len(page) = k /\ \A i \in 1..k : page[i] = list[i]
  <2>1. \A i \in 1..k : list[i] \in S
    BY <1>3, <1>4
  <2>2. /\ SubSeq(list, 1, k) \in Seq(S)
        /\ Len(SubSeq(list, 1, k)) = IF 1 <= k THEN k - 1 + 1 ELSE 0
        /\ \A i \in 1..k - 1 + 1 : SubSeq(list, 1, k)[i] = list[1 + i - 1]
    BY <2>1, SubSeqProperties
  <2>3. \A i \in 1..k : page[i] = list[i]
    BY <1>6, <2>2
  <2> QED BY <1>6, <2>2, <2>3
<1>8. DOMAIN page = 1..k /\ page \in Seq(Rows)
  BY <1>7
<1>9. Range(page) = {list[i] : i \in 1..k}
  BY <1>7, <1>8 DEF Range
<1>10. Range(page) \subseteq S
  BY <1>3, <1>4, <1>9
<1>11. ASSUME NEW i \in 1..k, NEW j \in 1..k, i < j
       PROVE  Precedes(page[i], page[j])
  <2>1. i \in 1..n /\ j \in 1..n
    BY <1>4
  <2>2. Precedes(list[i], list[j])
    BY <1>3, <1>11, <2>1
  <2>3. page[i] = list[i] /\ page[j] = list[j]
    BY <1>7
  <2> QED BY <2>2, <2>3
<1>12. ASSUME n <= PageLimit PROVE S \subseteq Range(page)
  <2>1. k = n
    BY <1>4, <1>5, <1>12
  <2> QED BY <1>3, <1>9, <2>1
<1>13. ASSUME n > PageLimit
       PROVE  /\ list[PageLimit] \in Range(page)
              /\ \A e \in Range(page) : e = list[PageLimit] \/ Precedes(e, list[PageLimit])
              /\ \A e \in S : e \in Range(page) \/ Precedes(list[PageLimit], e)
  <2>1. k = PageLimit /\ k \in 1..n /\ k \in 1..k
    BY <1>4, <1>5, <1>13
  <2>2. \A i \in 1..n : i \in 1..k \/ k < i
    BY <2>1
  <2>3. \A i \in 1..k : (i = k \/ i < k) /\ i \in 1..n
    BY <2>1
  <2>4. \A e \in S : e \in Range(page) \/ Precedes(list[k], e)
    BY <1>3, <1>9, <2>1, <2>2
  <2>5. \A e \in Range(page) : e = list[k] \/ Precedes(e, list[k])
    BY <1>3, <1>9, <2>1, <2>3
  <2> QED BY <1>9, <2>1, <2>4, <2>5
<1>14. /\ page \in Seq(Rows) /\ Range(page) \subseteq S
       /\ \A i, j \in DOMAIN page : i < j => Precedes(page[i], page[j])
       /\ Cardinality(S) <= PageLimit => S \subseteq Range(page)
  BY <1>1, <1>8, <1>10, <1>11, <1>12
<1>15. Cardinality(S) > PageLimit =>
         /\ Ranked(S)[PageLimit] \in Range(page)
         /\ \A e \in Range(page) :
              e = Ranked(S)[PageLimit] \/ Precedes(e, Ranked(S)[PageLimit])
         /\ \A e \in S : e \in Range(page) \/ Precedes(Ranked(S)[PageLimit], e)
  BY <1>1, <1>2, <1>13
<1>16. Page(S) = page
  BY <1>6
<1> QED BY <1>14, <1>15, <1>16, Zenon

(* Two lists, of which one begins where the other ends, are one.           *)
LEMMA PagesJoin ==
  ASSUME NEW s \in Seq(Rows), NEW t \in Seq(Rows), NEW last,
         \A i, j \in DOMAIN s : i < j => Precedes(s[i], s[j]),
         \A i, j \in DOMAIN t : i < j => Precedes(t[i], t[j]),
         \A e \in Range(s) : e = last \/ Precedes(e, last),
         last \in Rows, \A e \in Range(t) : Precedes(last, e)
  PROVE  /\ s \o t \in Seq(Rows) /\ Range(s \o t) = Range(s) \cup Range(t)
         /\ \A i, j \in DOMAIN (s \o t) : i < j => Precedes((s \o t)[i], (s \o t)[j])
         /\ \A e \in Range(s), f \in Range(t) : Precedes(e, f)
<1> DEFINE u == s \o t
<1>1. /\ u \in Seq(Rows) /\ Len(u) = Len(s) + Len(t)
      /\ \A i \in 1..Len(s) + Len(t) : u[i] = IF i <= Len(s) THEN s[i] ELSE t[i - Len(s)]
  BY ConcatProperties
<1>2. /\ Len(s) \in Nat /\ Len(t) \in Nat /\ DOMAIN s = 1..Len(s) /\ DOMAIN t = 1..Len(t)
      /\ DOMAIN u = 1..Len(s) + Len(t)
  BY <1>1
<1>3. \A e \in Rows : e.score \in Int /\ e.completedAt \in Nat /\ e.attempt \in Nat
  BY LeaderboardAssumption DEF Rows
<1>4. ASSUME NEW e \in Range(s), NEW f \in Range(t) PROVE Precedes(e, f)
  <2>1. e \in Rows /\ f \in Rows
    BY <1>2 DEF Range
  <2>2. Precedes(last, f) /\ (e = last \/ Precedes(e, last))
    OBVIOUS
  <2> QED BY <1>3, <2>1, <2>2 DEF Precedes
<1> HIDE DEF u
<1>5. \A i \in 1..Len(s) : u[i] = s[i] /\ u[i] \in Range(s) /\ i \in DOMAIN u
  BY <1>1, <1>2 DEF Range
<1>6. \A i \in 1..Len(t) :
        u[i + Len(s)] = t[i] /\ u[i + Len(s)] \in Range(t) /\ i + Len(s) \in DOMAIN u
  <2> SUFFICES ASSUME NEW i \in 1..Len(t)
               PROVE  u[i + Len(s)] = t[i] /\ u[i + Len(s)] \in Range(t)
                        /\ i + Len(s) \in DOMAIN u
    OBVIOUS
  <2>1. i + Len(s) \in 1..Len(s) + Len(t) /\ ~(i + Len(s) <= Len(s))
        /\ i + Len(s) - Len(s) = i
    BY <1>2
  <2>2. u[i + Len(s)] = t[i]
    BY <1>1, <2>1
  <2> QED BY <1>2, <2>1, <2>2 DEF Range
<1>7. \A i \in DOMAIN u : \/ i \in 1..Len(s)
                          \/ i > Len(s) /\ i - Len(s) \in 1..Len(t) /\ u[i] = t[i - Len(s)]
  BY <1>1, <1>2
<1>8. Range(u) = Range(s) \cup Range(t)
  <2>1. Range(u) \subseteq Range(s) \cup Range(t)
    BY <1>2, <1>5, <1>7 DEF Range
  <2>2. Range(s) \subseteq Range(u)
    BY <1>2, <1>5 DEF Range
  <2>3. Range(t) \subseteq Range(u)
    BY <1>2, <1>6 DEF Range
  <2> QED BY <2>1, <2>2, <2>3
<1>9. ASSUME NEW i \in DOMAIN u, NEW j \in DOMAIN u, i < j PROVE Precedes(u[i], u[j])
  <2>1. i \in Nat /\ j \in Nat
    BY <1>2
  <2>2. CASE i \in 1..Len(s) /\ j \in 1..Len(s)
    BY <1>2, <1>5, <1>9, <2>2
  <2>3. CASE i \in 1..Len(s) /\ j > Len(s)
    <3>1. u[i] \in Range(s) /\ u[j] \in Range(t)
      BY <1>2, <1>5, <1>7, <2>3 DEF Range
    <3> QED BY <1>4, <3>1
  <2>4. CASE i > Len(s) /\ j > Len(s)
    <3>1. /\ i - Len(s) \in DOMAIN t /\ j - Len(s) \in DOMAIN t /\ i - Len(s) < j - Len(s)
          /\ u[i] = t[i - Len(s)] /\ u[j] = t[j - Len(s)]
      BY <1>2, <1>7, <1>9, <2>1, <2>4
    <3> QED BY <3>1
  <2> QED BY <1>2, <1>7, <1>9, <2>1, <2>2, <2>3, <2>4
<1>10. s \o t = u
  BY DEF u
<1> QED BY <1>1, <1>4, <1>8, <1>9, <1>10, Zenon

-----------------------------------------------------------------------------
(* Numbers.                                                                *)

LEMMA GreatestOf ==
  ASSUME NEW S \in SUBSET Int, S # {}, NEW high \in Int, \A s \in S : s <= high
  PROVE  Max(S) \in S
<1> DEFINE rows == {[at |-> high - s] : s \in S}
<1>1. rows # {} /\ \A r \in rows : r.at \in Nat
  <2>1. rows # {}
    OBVIOUS
  <2>2. \A s \in S : high - s \in Nat
    OBVIOUS
  <2>3. \A r \in rows : r.at \in Nat
    <3> SUFFICES ASSUME NEW r \in rows PROVE r.at \in Nat
      OBVIOUS
    <3>1. PICK s \in S : r = [at |-> high - s]
      OBVIOUS
    <3> QED BY <2>2, <3>1
  <2> QED BY <2>1, <2>3
<1>2. First(rows) \in rows /\ \A s \in rows : First(rows).at <= s.at
  <2> HIDE DEF rows
  <2> QED BY <1>1, EarliestRow
<1>3. PICK x \in S : First(rows) = [at |-> high - x]
  BY <1>2
<1>4. \A y \in S : x >= y
  <2> SUFFICES ASSUME NEW y \in S PROVE x >= y
    OBVIOUS
  <2>1. [at |-> high - y] \in rows
    OBVIOUS
  <2>2. high - x <= high - y
    BY <1>2, <1>3, <2>1
  <2> QED BY <2>2
<1> QED BY <1>4 DEF Max

LEMMA LeastOf ==
  ASSUME NEW S \in SUBSET Nat, S # {}
  PROVE  Min(S) \in S
<1> DEFINE rows == {[at |-> s] : s \in S}
<1>1. rows # {} /\ \A r \in rows : r.at \in Nat
  <2>1. rows # {}
    OBVIOUS
  <2>2. \A r \in rows : r.at \in Nat
    OBVIOUS
  <2> QED BY <2>1, <2>2
<1>2. First(rows) \in rows /\ \A s \in rows : First(rows).at <= s.at
  <2> HIDE DEF rows
  <2> QED BY <1>1, EarliestRow
<1>3. PICK x \in S : First(rows) = [at |-> x]
  BY <1>2
<1>4. \A y \in S : x <= y
  <2> SUFFICES ASSUME NEW y \in S PROVE x <= y
    OBVIOUS
  <2>1. [at |-> y] \in rows
    OBVIOUS
  <2> QED BY <1>2, <1>3, <2>1
<1> QED BY <1>4 DEF Min

(* The commit sequence of an instant is one that was reached.              *)
LEMMA SequenceIsReached ==
  ASSUME BoardFits, NEW instant
  PROVE  SequenceAt(instant) \in Nat /\ SequenceAt(instant) <= sequence
<1> DEFINE S == {0} \cup {e.sequence : e \in {f \in board : f.createdAt <= instant}}
<1>1. S \in SUBSET Int /\ S # {} /\ sequence \in Int
      /\ \A s \in S : s \in Nat /\ s <= sequence
  BY DEF BoardFits, Rows
<1>2. SequenceAt(instant) = Max(S)
  BY DEF SequenceAt
<1> HIDE DEF S
<1> QED BY <1>1, <1>2, GreatestOf

LEMMA ProductIsPositive ==
  ASSUME NEW m \in Nat \ {0}, NEW n \in Nat \ {0}
  PROVE  m * n \in Nat \ {0}
OBVIOUS

LEMMA RoundingIsWhole ==
  ASSUME NEW num \in Int, NEW den \in Nat \ {0}
  PROVE  RoundHalfUp(num, den) \in Int
<1>1. 2 * num + den \in Int /\ 2 * den \in Nat \ {0}
  OBVIOUS
<1> QED BY <1>1 DEF RoundHalfUp

LEMMA ClampingIsWhole ==
  ASSUME NEW x \in Int, NEW low \in Int, NEW high \in Int
  PROVE  Clamped(x, low, high) \in Int
BY DEF Clamped

(* Contacts have instants of their own in a bounded window.                *)
LEMMA ContactsAreFinite ==
  ASSUME NEW ev, Acceptable(ev)
  PROVE  IsFiniteSet(ev.contacts)
<1> DEFINE window == Rule.start..(Rule.end - 1)
           at == [c \in ev.contacts |-> c.at]
<1>1. \A c \in ev.contacts : c.at \in window /\ \A d \in ev.contacts : c.at = d.at => c = d
  BY DEF Acceptable, InActiveWindow
<1>2. at \in Injection(ev.contacts, window)
  <2> HIDE DEF window
  <2>1. at \in [ev.contacts -> window] /\ \A c, d \in ev.contacts : at[c] = at[d] => c = d
    BY <1>1
  <2> QED BY <2>1 DEF Injection, IsInjective
<1>3. IsFiniteSet(window)
  <2>1. Rule.start \in Int /\ Rule.end - 1 \in Int
    BY RuleAssumption
  <2> QED BY <2>1, FS_Interval
<1> HIDE DEF at, window
<1> QED BY <1>2, <1>3, FS_Injection

(* The last completion and the first are instants.                         *)
LEMMA SpanIsWhole ==
  ASSUME NEW ev, Acceptable(ev), CompletedPasses(ev) # {}
  PROVE  CadenceSpan(ev, CompletedPasses(ev)) \in Int
<1> DEFINE S == {ReturnOf(ev, c).at : c \in CompletedPasses(ev)}
<1>1. ASSUME NEW c \in CompletedPasses(ev)
      PROVE  ReturnOf(ev, c).at \in Nat /\ ReturnOf(ev, c).at <= Rule.end
  <2>1. After(ev.contacts, c) # {}
    BY DEF CompletedPasses, IsCompletedPass
  <2>2. \A r \in After(ev.contacts, c) : r.at \in Nat
    BY InstantsAreNatural DEF After
  <2>3. ReturnOf(ev, c) \in ev.contacts
    BY <2>1, <2>2, EarliestRow DEF ReturnOf, After
  <2> QED BY <2>3, RuleAssumption DEF Acceptable, InActiveWindow
<1>2. S \in SUBSET Nat /\ S # {} /\ Rule.end \in Int /\ \A s \in S : s <= Rule.end
  BY <1>1, RuleAssumption
<1>3. CadenceSpan(ev, CompletedPasses(ev)) = Max(S) - Min(S)
  BY DEF CadenceSpan
<1> HIDE DEF S
<1>4. PICK high \in Nat : high = Max(S)
  <2>1. S \in SUBSET Int
    BY <1>2
  <2>2. Max(S) \in S
    BY <1>2, <2>1, GreatestOf
  <2> QED BY <1>2, <2>2
<1>5. PICK low \in Nat : low = Min(S)
  BY <1>2, LeastOf
<1> QED BY <1>3, <1>4, <1>5

(* calculateWallPassScore, for any evidence the domain package accepts.    *)
LEMMA ScoreIsWhole ==
  ASSUME NEW ev, Acceptable(ev)
  PROVE  ScoreOf(ev) \in Int
<1>1. PICK passes : passes = CompletedPasses(ev)
  OBVIOUS
<1>2. PICK v : v = Cardinality(passes)
  OBVIOUS
<1>3. PICK left : left = Cardinality({c \in passes : c.side = "left"})
  OBVIOUS
<1>4. PICK o : o = Cardinality(Starts(ev))
  OBVIOUS
<1>5. v \in Nat /\ left \in Nat /\ o \in Nat /\ v <= o /\ (passes = {} => v = 0)
  <2>1. Starts(ev) \in SUBSET ev.contacts /\ passes \in SUBSET Starts(ev)
        /\ {c \in passes : c.side = "left"} \in SUBSET passes
    BY <1>1 DEF Starts, CompletedPasses
  <2>2. IsFiniteSet(Starts(ev))
    BY <2>1, ContactsAreFinite, FS_Subset
  <2>3. IsFiniteSet(passes) /\ Cardinality(passes) <= Cardinality(Starts(ev))
    BY <2>1, <2>2, FS_Subset
  <2>4. IsFiniteSet({c \in passes : c.side = "left"})
    BY <2>1, <2>3, FS_Subset
  <2> QED BY <1>2, <1>3, <1>4, <2>2, <2>3, <2>4, FS_CardinalityType, FS_EmptySet
<1>6. PICK slow, fast, target : slow = Rule.slowestCadence /\ fast = Rule.fastestCadence
                                /\ target = Rule.targetPasses
  OBVIOUS
<1>7. slow \in Nat /\ fast \in Nat /\ fast < slow /\ target \in Nat \ {0}
  BY <1>6, RuleAssumption
<1>8. PICK range : range = slow - fast
  OBVIOUS
<1>9. range \in Nat \ {0}
  BY <1>7, <1>8
<1>10. PICK span : span = CadenceSpan(ev, passes)
  OBVIOUS
<1>11. PICK cadence : cadence = Clamped(20 * (slow * (v - 1) - span), 0, 20 * range * (v - 1))
  OBVIOUS
<1>12. PICK volume : volume = Clamped(40 * v, 0, 40 * target)
  OBVIOUS
<1>13. PICK den : den = o * v * target
  OBVIOUS
<1>14. PICK base : base = volume * o * v + 30 * v * v * target
                          + (10 * v - Abs(20 * left - 10 * v)) * o * target
  OBVIOUS
<1>15. ScoreOf(ev) = IF v = 0 THEN 0
                     ELSE IF v < 2 THEN RoundHalfUp(base, den)
                     ELSE RoundHalfUp(base * range * (v - 1) + cadence * den,
                                      den * range * (v - 1))
  BY <1>1, <1>2, <1>3, <1>4, <1>6, <1>8, <1>10, <1>11, <1>12, <1>13, <1>14, ZenonT(60)
     DEF ScoreOf
<1>16. CASE v = 0
  BY <1>15, <1>16
<1>17. CASE v # 0
  <2>1. v \in Nat \ {0} /\ o \in Nat \ {0} /\ span \in Int
    BY <1>1, <1>5, <1>10, <1>17, SpanIsWhole
  <2>2. den \in Nat \ {0}
    BY <1>7, <1>13, <2>1, ProductIsPositive
  <2>3. volume \in Int
    BY <1>7, <1>12, <2>1, ClampingIsWhole
  <2>4. base \in Int
    <3>1. Abs(20 * left - 10 * v) \in Int
      BY <1>5 DEF Abs
    <3> QED BY <1>5, <1>7, <1>14, <2>1, <2>3, <3>1
  <2>5. CASE v < 2
    BY <1>15, <1>17, <2>2, <2>4, <2>5, RoundingIsWhole
  <2>6. CASE ~(v < 2)
    <3>1. v - 1 \in Nat \ {0}
      BY <2>1, <2>6
    <3>2. den * range \in Nat \ {0}
      BY <1>9, <2>2, ProductIsPositive
    <3>3. den * range * (v - 1) \in Nat \ {0}
      BY <3>1, <3>2, ProductIsPositive
    <3>4. cadence \in Int
      <4>1. 20 * (slow * (v - 1) - span) \in Int /\ 20 * range * (v - 1) \in Int
        BY <1>7, <1>9, <2>1, <3>1
      <4> QED BY <1>11, <4>1, ClampingIsWhole
    <3>5. base * range * (v - 1) + cadence * den \in Int
      BY <1>9, <2>2, <2>4, <3>1, <3>4
    <3> QED BY <1>15, <1>17, <2>6, <3>3, <3>5, RoundingIsWhole
  <2> QED BY <2>5, <2>6
<1> QED BY <1>16, <1>17

-----------------------------------------------------------------------------
(* Attempts and the board.                                                 *)

(* An analysis leaves a whole score, and never goes on after its end.      *)
LEMMA AnalysedCandidate ==
  ASSUME PolicyInv, AttemptsAreWhole, CandidatesFit, NEW a \in Present, Analyse(a)
  PROVE  /\ attempt[a].stage # "done"
         /\ attempt'[a].score \in Int /\ attempt'[a].completedAt \in Nat
<1>1. DOMAIN attempt[a] = Fields /\ attempt[a].video \in Footage[a] /\ a \in Attempts
  BY DEF AttemptsAreWhole
<1>2. attempt[a].score \in Int /\ attempt[a].completedAt \in Nat /\ clock \in Nat
  BY DEF CandidatesFit, PolicyInv
<1>3. attempt[a].stage # "done"
  BY DEF Analyse, Begin, CannotReconstruct, RetryOrGiveUp, BatchRefused, GiveInsight,
         Judge, AfterBatch, FinalizeRanked, FinalizeUnranked, FinalizeThrows
<1>4. CASE Begin(a)
  BY <1>1, <1>2, <1>3, <1>4 DEF Begin, Fields, Present
<1>5. CASE CannotReconstruct(a) \/ BatchRefused(a) \/ FinalizeThrows(a)
  <2>1. PICK candidate :
          attempt' = [attempt EXCEPT ![a].stage = "decided", ![a].candidate = candidate]
    BY <1>5 DEF CannotReconstruct, BatchRefused, FinalizeThrows, Decide
  <2> QED BY <1>1, <1>2, <1>3, <2>1 DEF Fields, Present
<1>6. CASE RetryOrGiveUp(a)
  <2>1. PICK tries, stage, candidate :
          attempt' = [attempt EXCEPT ![a].tries = tries, ![a].stage = stage,
                                     ![a].candidate = candidate]
    BY <1>6 DEF RetryOrGiveUp
  <2> QED BY <1>1, <1>2, <1>3, <2>1 DEF Fields, Present
<1>7. CASE GiveInsight(a)
  BY <1>1, <1>2, <1>3, <1>7 DEF GiveInsight, Fields, Present
<1>8. CASE Judge(a)
  <2> DEFINE verdict == Verdict[attempt[a].video]
             claims == IF verdict = "integrity-valid" THEN Claims(a)
                       ELSE {[candidate |-> Invalid(verdict), policy |-> {}]}
  <2>1. PICK claim \in claims :
          attempt' = [attempt EXCEPT
            ![a].stage = "decided", ![a].candidate = claim.candidate,
            ![a].policy = claim.policy, ![a].completedAt = clock,
            ![a].score = IF claim.candidate.kind # "valid" THEN 0
                         ELSE Score[attempt[a].video]]
    BY <1>8 DEF Judge
  <2>2. claim.candidate.kind = "valid" => Verdict[attempt[a].video] = "integrity-valid"
    BY DEF Invalid
  <2> HIDE DEF verdict, claims
  <2>3. attempt[a].video \in VerifiedVideos
    BY <1>1, <1>8 DEF Judge, VerifiedVideos
  <2>4. ASSUME Verdict[attempt[a].video] = "integrity-valid"
        PROVE  Score[attempt[a].video] \in Int
    <3>1. Score[attempt[a].video] =
            ScoreOf(CanonicalEvents(Assembled[attempt[a].video].active))
      BY <2>3, <2>4 DEF Score
    <3> QED BY <2>3, <2>4, <3>1, ValidIsAcceptable, ScoreIsWhole
  <2>5. PICK score \in Int :
          score = IF claim.candidate.kind # "valid" THEN 0 ELSE Score[attempt[a].video]
    BY <2>2, <2>4
  <2>6. attempt' = [attempt EXCEPT
          ![a].stage = "decided", ![a].candidate = claim.candidate,
          ![a].policy = claim.policy, ![a].completedAt = clock, ![a].score = score]
    BY <2>1, <2>5
  <2> QED BY <1>1, <1>2, <1>3, <2>6 DEF Fields, Present
<1>9. CASE FinalizeRanked(a) \/ FinalizeUnranked(a)
  <2>1. PICK candidate, report :
          attempt' = [attempt EXCEPT ![a] = Ended(@, candidate, report)]
    BY <1>9 DEF FinalizeRanked, FinalizeUnranked
  <2>2. Ended(attempt[a], candidate, report).score = 0
        /\ Ended(attempt[a], candidate, report).completedAt = 0
    BY DEF Ended, NotYet
  <2> QED BY <1>3, <2>1, <2>2 DEF Present
<1> QED BY <1>4, <1>5, <1>6, <1>7, <1>8, <1>9 DEF Analyse

(* Entries come with a higher sequence than any before, or go.             *)
BoardStep ==
  /\ reader' = reader /\ sequence' \in Nat /\ sequence' >= sequence
  /\ board' \subseteq Rows
  /\ \A e \in board' : e \in board \/ e.sequence > sequence

LEMMA ReaderSeesNoChange ==
  ASSUME BoardFits, ReaderFits, PagesShowOneSnapshot, BoardStep
  PROVE  ReaderFits' /\ PagesShowOneSnapshot'
<1>1. /\ reader' = reader /\ sequence \in Nat /\ sequence' \in Nat /\ sequence' >= sequence
      /\ board \subseteq Rows /\ board' \subseteq Rows
      /\ \A e \in board' : e \in board \/ e.sequence > sequence
  BY DEF BoardStep, BoardFits
<1>2. \A e \in Rows : e.sequence \in Nat
  BY DEF Rows
<1>3. \A e \in reader.cohort : e \in Rows /\ e.sequence <= sequence
  BY DEF ReaderFits
<1>4. \A e \in board' \cap reader.cohort : e \in board
  BY <1>1, <1>2, <1>3
<1>5. PagesShowOneSnapshot'
  BY <1>1, <1>4 DEF PagesShowOneSnapshot
<1>6. ASSUME NEW c \in reader.cursor PROVE CursorSelects(c)'
  <2>1. /\ c \in SentCursors /\ c.snapshotSequence <= sequence
        /\ \A e \in board : e \in reader.cohort <=>
             e.completedAt <= c.calculatedAt /\ e.sequence <= c.snapshotSequence
        /\ \A e \in Range(reader.shown) : e = c.last \/ Precedes(e, c.last)
    BY DEF ReaderFits, CursorSelects
  <2>2. c.snapshotSequence \in Nat
    BY <2>1 DEF SentCursors
  <2>3. ASSUME NEW e \in board'
        PROVE  e \in reader.cohort <=>
                 e.completedAt <= c.calculatedAt /\ e.sequence <= c.snapshotSequence
    <3>1. CASE e \in board
      BY <2>1, <3>1
    <3>2. CASE e \notin board
      <4>1. e.sequence > sequence /\ e \in Rows
        BY <1>1, <3>2
      <4> QED BY <1>1, <1>2, <1>3, <2>1, <2>2, <4>1
    <3> QED BY <3>1, <3>2
  <2>4. c.snapshotSequence <= sequence'
    BY <1>1, <2>1, <2>2
  <2> QED BY <1>1, <2>1, <2>3, <2>4 DEF CursorSelects
<1>7. \A e \in reader.cohort : e.sequence <= sequence'
  BY <1>1, <1>2, <1>3
<1>8. /\ DOMAIN reader = {"cursor", "asked", "shown", "cohort"}
      /\ reader.shown \in Seq(Rows) /\ reader.cohort \subseteq Rows
      /\ OneQuestion /\ \A c, d \in reader.cursor : c = d
  BY DEF ReaderFits
<1>9. OneQuestion'
  BY <1>1, <1>8 DEF OneQuestion
<1> QED BY <1>1, <1>5, <1>6, <1>7, <1>8, <1>9 DEF ReaderFits

LEMMA AnalysisKeepsBoard ==
  ASSUME PolicyInv, AttemptsAreWhole, BoardInv, NEW a \in Present, Analyse(a)
  PROVE  BoardInv'
<1>1. CandidatesFit /\ BoardFits /\ ReaderFits /\ PagesShowOneSnapshot
  BY DEF BoardInv
<1>2. /\ attempt[a].stage # "done"
      /\ attempt'[a].score \in Int /\ attempt'[a].completedAt \in Nat
  BY <1>1, AnalysedCandidate
<1>3. /\ DOMAIN attempt' = Present /\ Present' = Present
      /\ \A b \in Present \ {a} : attempt'[b] = attempt[b]
  BY AnalysedRow DEF RowStep, Present
<1>4. CandidatesFit'
  BY <1>1, <1>2, <1>3 DEF CandidatesFit
<1>5. \A e \in board : e.attempt # a
  BY <1>1, <1>2 DEF BoardFits
<1>6. reader' = reader
  BY DEF Analyse, Begin, CannotReconstruct, RetryOrGiveUp, BatchRefused, GiveInsight,
         Judge, AfterBatch, FinalizeRanked, FinalizeUnranked, FinalizeThrows
<1>7. CASE UNCHANGED boardVars
  <2>1. board' = board /\ sequence' = sequence
    BY <1>7 DEF boardVars
  <2>2. BoardFits'
    BY <1>1, <1>3, <1>5, <2>1 DEF BoardFits
  <2>3. BoardStep
    BY <1>1, <1>6, <2>1 DEF BoardStep, BoardFits
  <2> QED BY <1>1, <1>4, <2>2, <2>3, ReaderSeesNoChange DEF BoardInv
<1>8. CASE FinalizeRanked(a)
  <2>1. PICK entry : entry = Published(a, attempt[a].score, attempt[a].completedAt)
    OBVIOUS
  <2>2. board' = board \cup {entry} /\ sequence' = sequence + 1
    BY <1>8, <2>1 DEF FinalizeRanked, Publish
  <2>3. /\ entry \in Rows /\ entry.attempt = a /\ entry.sequence = sequence + 1
    BY <1>1, <2>1 DEF Published, Rows, CandidatesFit, BoardFits, PolicyInv, AttemptsAreWhole
  <2>4. attempt'[a].stage = "done"
    <3>1. PICK row : row = Ended(attempt[a], Valid("ranked"), {Snapshot(board \cup {entry}, entry)})
      OBVIOUS
    <3>2. attempt' = [attempt EXCEPT ![a] = row]
      BY <1>8, <2>1, <3>1 DEF FinalizeRanked
    <3>3. row.stage = "done"
      BY <3>1, EndedRow
    <3> QED BY <3>2, <3>3 DEF Present
  <2>5. board \subseteq Rows /\ IsFiniteSet(board) /\ sequence \in Nat
        /\ \A e \in board : e.sequence <= sequence /\ e.sequence \in Nat
    BY <1>1 DEF BoardFits, Rows
  <2>6. IsFiniteSet(board')
    BY <2>2, <2>5, FS_AddElement
  <2>7. \A e \in board' : /\ e.attempt \in Present /\ attempt'[e.attempt].stage = "done"
                          /\ e.sequence <= sequence'
    <3>1. \A e \in board : e.attempt \in Present /\ attempt[e.attempt].stage = "done"
      BY <1>1 DEF BoardFits
    <3>2. \A e \in board : attempt'[e.attempt] = attempt[e.attempt]
      BY <1>3, <1>5, <3>1
    <3> QED BY <2>2, <2>3, <2>4, <2>5, <3>1, <3>2
  <2>8. \A e, f \in board' : e.attempt = f.attempt => e = f
    <3>1. \A e, f \in board : e.attempt = f.attempt => e = f
      BY <1>1 DEF BoardFits
    <3> QED BY <1>5, <2>2, <2>3, <3>1
  <2>9. BoardFits'
    BY <1>3, <2>2, <2>3, <2>5, <2>6, <2>7, <2>8 DEF BoardFits
  <2>10. BoardStep
    BY <1>6, <2>2, <2>3, <2>5 DEF BoardStep
  <2> QED BY <1>1, <1>4, <2>9, <2>10, ReaderSeesNoChange DEF BoardInv
<1> QED BY <1>7, <1>8
        DEF Analyse, Begin, CannotReconstruct, RetryOrGiveUp, BatchRefused,
            GiveInsight, Judge, AfterBatch, FinalizeUnranked, FinalizeThrows

(* The entry goes with the attempt.                                        *)
LEMMA WithdrawalKeepsBoard ==
  ASSUME AttemptsAreWhole, BoardInv, NEW a, Tombstone(a)
  PROVE  BoardInv'
<1>1. CandidatesFit /\ BoardFits /\ ReaderFits /\ PagesShowOneSnapshot
  BY DEF BoardInv
<1> DEFINE row == [NotYet(attempt[a].video) EXCEPT !.stage = "deleted"]
<1>2. row.score = 0 /\ row.completedAt = 0
  BY DEF NotYet
<1>3. attempt' = [attempt EXCEPT ![a] = row]
  BY DEF Tombstone
<1> HIDE DEF row
<1>4. /\ Present' = Present /\ \A b \in Present \ {a} : attempt'[b] = attempt[b]
      /\ a \in Present => attempt'[a] = row
  BY <1>3 DEF Present
<1>5. CandidatesFit'
  BY <1>1, <1>2, <1>4 DEF CandidatesFit
<1>6. board' = {e \in board : e.attempt # a} /\ sequence' = sequence /\ reader' = reader
  BY DEF Tombstone, Retract
<1>7. BoardFits'
  <2>1. IsFiniteSet(board')
    BY <1>1, <1>6, FS_Subset DEF BoardFits
  <2>2. \A e \in board' : e \in board /\ e.attempt \in Present \ {a}
    BY <1>1, <1>6 DEF BoardFits
  <2> QED BY <1>1, <1>4, <1>6, <2>1, <2>2 DEF BoardFits
<1>8. BoardStep
  BY <1>1, <1>6 DEF BoardStep, BoardFits
<1> QED BY <1>1, <1>5, <1>7, <1>8, ReaderSeesNoChange DEF BoardInv

-----------------------------------------------------------------------------
(* The reader.                                                             *)

(* What the reader has is enough to know.                                  *)
LEMMA ReaderHolds ==
  ASSUME NEW C, NEW A, NEW S \in Seq(Rows), NEW H \in SUBSET Rows,
         reader' = [cursor |-> C, asked |-> A, shown |-> S, cohort |-> H],
         UNCHANGED boardVars,
         \A e \in H : e.sequence <= sequence,
         A \subseteq {{}} \/ A \subseteq {C},
         \A c, d \in C : c = d,
         \A c \in C :
           /\ c \in SentCursors /\ c.snapshotSequence <= sequence
           /\ \A e \in board : e \in H <=>
                e.completedAt <= c.calculatedAt /\ e.sequence <= c.snapshotSequence
           /\ \A e \in Range(S) : e = c.last \/ Precedes(e, c.last),
         \A i, j \in DOMAIN S : i < j => Precedes(S[i], S[j]),
         Range(S) \subseteq H,
         \A e \in H \cap board :
           e \in Range(S) \/ \E c \in C : Precedes(c.last, e)
  PROVE  ReaderFits' /\ PagesShowOneSnapshot'
<1>1. board' = board /\ sequence' = sequence
  BY DEF boardVars
<1>2. /\ reader'.cursor = C /\ reader'.asked = A /\ reader'.shown = S
      /\ reader'.cohort = H /\ DOMAIN reader' = {"cursor", "asked", "shown", "cohort"}
  OBVIOUS
<1>3. PagesShowOneSnapshot'
  BY <1>1, <1>2 DEF PagesShowOneSnapshot
<1>4. OneQuestion'
  BY <1>2 DEF OneQuestion
<1>5. \A c \in C : CursorSelects(c)'
  BY <1>1, <1>2 DEF CursorSelects
<1> QED BY <1>1, <1>2, <1>3, <1>4, <1>5 DEF ReaderFits

(* What it had, when it goes on with a request or the end of one.          *)
LEMMA RequestHolds ==
  ASSUME ReaderFits, PagesShowOneSnapshot, UNCHANGED boardVars, NEW A,
         reader' = [reader EXCEPT !.asked = A],
         A \subseteq {{}} \/ A \subseteq {reader.cursor}
  PROVE  ReaderFits' /\ PagesShowOneSnapshot'
<1>1. reader' = [cursor |-> reader.cursor, asked |-> A, shown |-> reader.shown,
                 cohort |-> reader.cohort]
  BY DEF ReaderFits
<1>2. PICK C : C = reader.cursor
  OBVIOUS
<1>3. PICK S \in Seq(Rows) : S = reader.shown
  BY DEF ReaderFits
<1>4. PICK H \in SUBSET Rows : H = reader.cohort
  BY DEF ReaderFits
<1>5. reader' = [cursor |-> C, asked |-> A, shown |-> S, cohort |-> H]
  BY <1>1, <1>2, <1>3, <1>4
<1>6. \A c \in C :
        /\ c \in SentCursors /\ c.snapshotSequence <= sequence
        /\ \A e \in board : e \in H <=>
             e.completedAt <= c.calculatedAt /\ e.sequence <= c.snapshotSequence
        /\ \A e \in Range(S) : e = c.last \/ Precedes(e, c.last)
  BY <1>2, <1>3, <1>4 DEF ReaderFits, CursorSelects
<1>7. \A e \in H : e.sequence <= sequence
  BY <1>4 DEF ReaderFits
<1>8. \A c, d \in C : c = d
  BY <1>2 DEF ReaderFits
<1>9. \A i, j \in DOMAIN S : i < j => Precedes(S[i], S[j])
  BY <1>3 DEF PagesShowOneSnapshot
<1>10. Range(S) \subseteq H
  BY <1>3, <1>4 DEF PagesShowOneSnapshot
<1>11. \A e \in H \cap board : e \in Range(S) \/ \E c \in C : Precedes(c.last, e)
  BY <1>2, <1>3, <1>4 DEF PagesShowOneSnapshot
<1>12. A \subseteq {{}} \/ A \subseteq {C}
  BY <1>2
<1>13. UNCHANGED boardVars
  OBVIOUS
<1> QED BY ONLY <1>5, <1>6, <1>7, <1>8, <1>9, <1>10, <1>11, <1>12, <1>13, ReaderHolds

(* The first rows are one moment of the board.                             *)
LEMMA ListHolds ==
  ASSUME PolicyInv, BoardFits, ReaderFits, ListAnswered, UNCHANGED boardVars
  PROVE  ReaderFits' /\ PagesShowOneSnapshot'
<1>1. PICK upTo \in Nat : upTo = SequenceAt(clock) /\ upTo <= sequence
  BY SequenceIsReached
<1>2. PICK rows : rows = Cohort(clock, upTo)
  OBVIOUS
<1>3. /\ rows \in SUBSET board /\ board \in SUBSET Rows /\ IsFiniteSet(board)
      /\ \A e \in board : e.sequence <= sequence
      /\ \A e \in board : e \in rows <=> e.completedAt <= clock /\ e.sequence <= upTo
  BY <1>2 DEF Cohort, BoardFits
<1>4. rows \in SUBSET Rows /\ Distinct(rows) /\ IsFiniteSet(rows)
  <2>1. IsFiniteSet(rows)
    BY <1>3, FS_Subset
  <2>2. Distinct(rows)
    BY <1>3 DEF Distinct, BoardFits
  <2> QED BY <1>3, <2>1, <2>2
<1>5. PICK page : page = Page(rows)
  OBVIOUS
<1>6. PICK last : last = Ranked(rows)[PageLimit]
  OBVIOUS
<1>7. PICK n \in Nat : n = Cardinality(rows)
  BY <1>4, FS_CardinalityType
<1>a. PageLimit \in Nat
  BY LeaderboardAssumption
<1>8. /\ page \in Seq(Rows) /\ Range(page) \subseteq rows
      /\ \A i, j \in DOMAIN page : i < j => Precedes(page[i], page[j])
      /\ ~(n > PageLimit) => rows \subseteq Range(page)
      /\ n > PageLimit =>
                 /\ last \in Range(page)
                 /\ \A e \in Range(page) : e = last \/ Precedes(e, last)
                 /\ \A e \in rows : e \in Range(page) \/ Precedes(last, e)
  <2>1. /\ page \in Seq(Rows) /\ Range(page) \subseteq rows
        /\ \A i, j \in DOMAIN page : i < j => Precedes(page[i], page[j])
        /\ n <= PageLimit => rows \subseteq Range(page)
        /\ n > PageLimit =>
                 /\ last \in Range(page)
                 /\ \A e \in Range(page) : e = last \/ Precedes(e, last)
                 /\ \A e \in rows : e \in Range(page) \/ Precedes(last, e)
    BY <1>4, <1>5, <1>6, <1>7, FirstRows, Zenon
  <2> QED BY <1>a, <2>1
<1>9. PICK c : c = [opens |-> TRUE, calculatedAt |-> clock, snapshotSequence |-> upTo,
                    last |-> last]
  OBVIOUS
<1>10. CursorAfter(rows, clock, upTo) = IF n > PageLimit THEN {c} ELSE {}
  <2>1. CursorAfter(rows, clock, upTo) = IF n <= PageLimit THEN {} ELSE {c}
    BY <1>6, <1>7, <1>9 DEF CursorAfter
  <2> QED BY <1>a, <2>1
<1>11. PICK C : C = IF n > PageLimit THEN {c} ELSE {}
  OBVIOUS
<1>12. {} \in reader.asked /\ reader' = [cursor |-> C, asked |-> reader.asked \ {{}},
                                         shown |-> page, cohort |-> rows]
  BY <1>1, <1>2, <1>5, <1>10, <1>11 DEF ListAnswered
<1>13. reader.asked \ {{}} = {}
  BY <1>12 DEF ReaderFits, OneQuestion
<1>14. ASSUME n > PageLimit
       PROVE  /\ c \in SentCursors /\ c.snapshotSequence <= sequence
              /\ \A e \in board : e \in rows <=>
                   e.completedAt <= c.calculatedAt /\ e.sequence <= c.snapshotSequence
              /\ \A e \in Range(page) : e = c.last \/ Precedes(e, c.last)
  <2>1. last \in Rows /\ clock \in Nat
    BY <1>4, <1>8, <1>14 DEF PolicyInv
  <2>2. c \in SentCursors
    BY <1>9, <2>1 DEF SentCursors
  <2> QED BY <1>1, <1>3, <1>8, <1>9, <1>14, <2>2
<1>15. \A d \in C : d = c /\ n > PageLimit
  BY <1>11
<1>16. \A e \in rows \cap board : e \in Range(page) \/ \E d \in C : Precedes(d.last, e)
  <2>1. CASE n > PageLimit
    <3>1. c \in C /\ c.last = last
      BY <1>9, <1>11, <2>1
    <3> QED BY <1>8, <2>1, <3>1
  <2>2. CASE ~(n > PageLimit)
    BY <1>8, <2>2
  <2> QED BY <2>1, <2>2
<1>17. {} \subseteq {{}} \/ {} \subseteq {C}
  OBVIOUS
<1>18. \A e \in rows : e.sequence <= sequence
  BY <1>3
<1>19. \A d \in C :
         /\ d \in SentCursors /\ d.snapshotSequence <= sequence
         /\ \A e \in board : e \in rows <=>
              e.completedAt <= d.calculatedAt /\ e.sequence <= d.snapshotSequence
         /\ \A e \in Range(page) : e = d.last \/ Precedes(e, d.last)
  BY <1>14, <1>15
<1>20. reader' = [cursor |-> C, asked |-> {}, shown |-> page, cohort |-> rows]
  BY <1>12, <1>13
<1>21. \A d, e \in C : d = e
  BY <1>15
<1> QED BY <1>4, <1>8, <1>16, <1>17, <1>18, <1>19, <1>20, <1>21, ReaderHolds

(* The rows that follow a cursor continue the list it came with.           *)
LEMMA MoreHolds ==
  ASSUME BoardFits, ReaderFits, PagesShowOneSnapshot, MoreAnswered, UNCHANGED boardVars
  PROVE  ReaderFits' /\ PagesShowOneSnapshot'
<1>1. PICK sent \in reader.asked : \E c \in sent :
        LET rows == Following(c, Cohort(c.calculatedAt, c.snapshotSequence)) IN
        reader' = [reader EXCEPT
          !.cursor = CursorAfter(rows, c.calculatedAt, c.snapshotSequence),
          !.asked = @ \ {sent}, !.shown = @ \o Page(rows)]
  BY DEF MoreAnswered
<1>b. PICK c \in sent :
        LET rows == Following(c, Cohort(c.calculatedAt, c.snapshotSequence)) IN
        reader' = [reader EXCEPT
          !.cursor = CursorAfter(rows, c.calculatedAt, c.snapshotSequence),
          !.asked = @ \ {sent}, !.shown = @ \o Page(rows)]
  BY <1>1
<1>2. c \in reader.cursor /\ reader.asked \ {sent} = {}
  BY DEF ReaderFits, OneQuestion
<1>3. PICK H \in SUBSET Rows : H = reader.cohort
  BY DEF ReaderFits
<1>4. PICK S \in Seq(Rows) : S = reader.shown
  BY DEF ReaderFits
<1>5. /\ c \in SentCursors /\ c.snapshotSequence <= sequence
      /\ \A e \in board : e \in H <=>
           e.completedAt <= c.calculatedAt /\ e.sequence <= c.snapshotSequence
      /\ \A e \in Range(S) : e = c.last \/ Precedes(e, c.last)
      /\ \A d \in reader.cursor : d = c
  BY <1>2, <1>3, <1>4 DEF ReaderFits, CursorSelects
<1>6. /\ \A i, j \in DOMAIN S : i < j => Precedes(S[i], S[j])
      /\ Range(S) \subseteq H
      /\ \A e \in H \cap board : e \in Range(S) \/ Precedes(c.last, e)
  BY <1>3, <1>4, <1>5 DEF PagesShowOneSnapshot
<1>7. PICK rows : rows = Following(c, Cohort(c.calculatedAt, c.snapshotSequence))
  OBVIOUS
<1>8. rows = {e \in board : e \in H /\ Precedes(c.last, e)}
  BY <1>5, <1>7 DEF Following, Cohort
<1>9. rows \in SUBSET Rows /\ Distinct(rows) /\ IsFiniteSet(rows)
  <2>1. IsFiniteSet(rows)
    BY <1>8, FS_Subset DEF BoardFits
  <2>2. Distinct(rows)
    BY <1>8 DEF Distinct, BoardFits
  <2> QED BY <1>3, <1>8, <2>1, <2>2
<1>10. PICK page : page = Page(rows)
  OBVIOUS
<1>11. PICK last : last = Ranked(rows)[PageLimit]
  OBVIOUS
<1>12. PICK n \in Nat : n = Cardinality(rows)
  BY <1>9, FS_CardinalityType
<1>a. PageLimit \in Nat
  BY LeaderboardAssumption
<1>13. /\ page \in Seq(Rows) /\ Range(page) \subseteq rows
       /\ \A i, j \in DOMAIN page : i < j => Precedes(page[i], page[j])
       /\ ~(n > PageLimit) => rows \subseteq Range(page)
       /\ n > PageLimit =>
            /\ last \in Range(page)
            /\ \A e \in Range(page) : e = last \/ Precedes(e, last)
            /\ \A e \in rows : e \in Range(page) \/ Precedes(last, e)
  <2>1. /\ page \in Seq(Rows) /\ Range(page) \subseteq rows
        /\ \A i, j \in DOMAIN page : i < j => Precedes(page[i], page[j])
        /\ n <= PageLimit => rows \subseteq Range(page)
        /\ n > PageLimit =>
             /\ last \in Range(page)
             /\ \A e \in Range(page) : e = last \/ Precedes(e, last)
             /\ \A e \in rows : e \in Range(page) \/ Precedes(last, e)
    BY <1>9, <1>10, <1>11, <1>12, FirstRows, Zenon
  <2> QED BY <1>a, <2>1
<1>14. c.last \in Rows /\ \A e \in Range(page) : Precedes(c.last, e)
  BY <1>5, <1>8, <1>13 DEF SentCursors
<1>15. PICK all : all = S \o page
  OBVIOUS
<1>16. /\ all \in Seq(Rows) /\ Range(all) = Range(S) \cup Range(page)
       /\ \A i, j \in DOMAIN all : i < j => Precedes(all[i], all[j])
       /\ \A e \in Range(S), f \in Range(page) : Precedes(e, f)
  BY <1>5, <1>6, <1>13, <1>14, <1>15, PagesJoin, ZenonT(60)
<1>17. PICK d : d = [opens |-> TRUE, calculatedAt |-> c.calculatedAt,
                     snapshotSequence |-> c.snapshotSequence, last |-> last]
  OBVIOUS
<1>18. PICK C : C = IF n > PageLimit THEN {d} ELSE {}
  OBVIOUS
<1>19. CursorAfter(rows, c.calculatedAt, c.snapshotSequence) = C
  <2>1. CursorAfter(rows, c.calculatedAt, c.snapshotSequence)
          = IF n <= PageLimit THEN {} ELSE {d}
    BY <1>11, <1>12, <1>17 DEF CursorAfter
  <2> QED BY <1>a, <1>18, <2>1
<1>20. reader' = [cursor |-> C, asked |-> {}, shown |-> all, cohort |-> H]
  <2>1. reader' = [reader EXCEPT !.cursor = C, !.asked = @ \ {sent},
                                 !.shown = @ \o page]
    BY <1>b, <1>7, <1>10, <1>19
  <2>2. DOMAIN reader = {"cursor", "asked", "shown", "cohort"}
    BY DEF ReaderFits
  <2> QED BY <1>2, <1>3, <1>4, <1>15, <2>1, <2>2
<1>21. ASSUME n > PageLimit
       PROVE  /\ d \in SentCursors /\ d.snapshotSequence <= sequence
              /\ \A e \in board : e \in H <=>
                   e.completedAt <= d.calculatedAt /\ e.sequence <= d.snapshotSequence
              /\ \A e \in Range(all) : e = d.last \/ Precedes(e, d.last)
  <2>1. last \in Rows /\ last \in Range(page)
    BY <1>9, <1>13, <1>21
  <2>2. d \in SentCursors
    BY <1>5, <1>17, <2>1 DEF SentCursors
  <2>3. \A e \in Range(all) : e = last \/ Precedes(e, last)
    BY <1>13, <1>16, <1>21, <2>1
  <2> QED BY <1>5, <1>17, <2>2, <2>3
<1>22. \A e \in C : e = d /\ n > PageLimit
  BY <1>18
<1>23. \A e \in H \cap board : e \in Range(all) \/ \E f \in C : Precedes(f.last, e)
  <2>1. \A e \in H \cap board : e \in Range(S) \/ e \in rows
    BY <1>6, <1>8
  <2>2. CASE n > PageLimit
    <3>1. d \in C /\ d.last = last
      BY <1>17, <1>18, <2>2
    <3> QED BY <1>13, <1>16, <2>1, <2>2, <3>1
  <2>3. CASE ~(n > PageLimit)
    BY <1>13, <1>16, <2>1, <2>3
  <2> QED BY <2>2, <2>3
<1>24. Range(all) \subseteq H
  BY <1>6, <1>8, <1>13, <1>16
<1>25. \A e \in H : e.sequence <= sequence
  BY <1>3 DEF ReaderFits
<1>26. \A f \in C :
         /\ f \in SentCursors /\ f.snapshotSequence <= sequence
         /\ \A e \in board : e \in H <=>
              e.completedAt <= f.calculatedAt /\ e.sequence <= f.snapshotSequence
         /\ \A e \in Range(all) : e = f.last \/ Precedes(e, f.last)
  BY <1>21, <1>22
<1>27. \A e, f \in C : e = f
  BY <1>22
<1>28. {} \subseteq {{}} \/ {} \subseteq {C}
  OBVIOUS
<1>29. UNCHANGED boardVars
  OBVIOUS
<1>30. all \in Seq(Rows) /\ \A i, j \in DOMAIN all : i < j => Precedes(all[i], all[j])
  BY <1>16
<1>31. H \in SUBSET Rows
  OBVIOUS
<1> QED BY ONLY <1>20, <1>23, <1>24, <1>25, <1>26, <1>27, <1>28, <1>29, <1>30, <1>31,
                ReaderHolds

(* Cursors that no longer open mark the same row.                          *)
LEMMA RestartHolds ==
  ASSUME ReaderFits, PagesShowOneSnapshot, ServerRestarts, UNCHANGED boardVars
  PROVE  ReaderFits' /\ PagesShowOneSnapshot'
<1>1. PICK S \in Seq(Rows) : S = reader.shown
  BY DEF ReaderFits
<1>2. PICK H \in SUBSET Rows : H = reader.cohort
  BY DEF ReaderFits
<1>3. PICK C : C = Sealed(reader.cursor)
  OBVIOUS
<1>4. PICK A : A = {Sealed(sent) : sent \in reader.asked}
  OBVIOUS
<1>5. reader' = [cursor |-> C, asked |-> A, shown |-> S, cohort |-> H]
  BY <1>1, <1>2, <1>3, <1>4 DEF ServerRestarts, ReaderFits
<1>6. A \subseteq {{}} \/ A \subseteq {C}
  <2>1. reader.asked \subseteq {{}} \/ reader.asked \subseteq {reader.cursor}
    BY DEF ReaderFits, OneQuestion
  <2>2. Sealed({}) = {}
    BY DEF Sealed
  <2>3. CASE reader.asked \subseteq {{}}
    BY <1>4, <2>2, <2>3
  <2>4. CASE reader.asked \subseteq {reader.cursor}
    BY <1>3, <1>4, <2>4
  <2> QED BY <2>1, <2>3, <2>4
<1>7. ASSUME NEW c \in reader.cursor
      PROVE  LET d == [c EXCEPT !.opens = FALSE]
             IN  /\ d \in SentCursors /\ d.calculatedAt = c.calculatedAt
                 /\ d.snapshotSequence = c.snapshotSequence /\ d.last = c.last
  <2>1. c \in SentCursors
    BY DEF ReaderFits, CursorSelects
  <2> QED BY <2>1 DEF SentCursors
<1>8. \A d \in C : \E c \in reader.cursor :
        /\ d = [c EXCEPT !.opens = FALSE]
        /\ d \in SentCursors /\ d.calculatedAt = c.calculatedAt
        /\ d.snapshotSequence = c.snapshotSequence /\ d.last = c.last
  BY <1>3, <1>7, ZenonT(60) DEF Sealed
<1>9. \A c \in reader.cursor :
        /\ c \in SentCursors /\ c.snapshotSequence <= sequence
        /\ \A e \in board : e \in H <=>
             e.completedAt <= c.calculatedAt /\ e.sequence <= c.snapshotSequence
        /\ \A e \in Range(S) : e = c.last \/ Precedes(e, c.last)
  BY <1>1, <1>2 DEF ReaderFits, CursorSelects
<1>10. \A d \in C :
         /\ d \in SentCursors /\ d.snapshotSequence <= sequence
         /\ \A e \in board : e \in H <=>
              e.completedAt <= d.calculatedAt /\ e.sequence <= d.snapshotSequence
         /\ \A e \in Range(S) : e = d.last \/ Precedes(e, d.last)
  <2> SUFFICES ASSUME NEW d \in C
               PROVE  /\ d \in SentCursors /\ d.snapshotSequence <= sequence
                      /\ \A e \in board : e \in H <=>
                           e.completedAt <= d.calculatedAt /\ e.sequence <= d.snapshotSequence
                      /\ \A e \in Range(S) : e = d.last \/ Precedes(e, d.last)
    OBVIOUS
  <2>1. PICK c \in reader.cursor :
          /\ d \in SentCursors /\ d.calculatedAt = c.calculatedAt
          /\ d.snapshotSequence = c.snapshotSequence /\ d.last = c.last
    BY <1>8
  <2> QED BY <1>9, <2>1
<1>11. \A d, e \in C : d = e
  BY <1>8 DEF ReaderFits
<1>12. \A e \in H : e.sequence <= sequence
  BY <1>2 DEF ReaderFits
<1>13. /\ \A i, j \in DOMAIN S : i < j => Precedes(S[i], S[j])
       /\ Range(S) \subseteq H
  BY <1>1, <1>2 DEF PagesShowOneSnapshot
<1>14. \A e \in H \cap board : e \in Range(S) \/ \E d \in C : Precedes(d.last, e)
  <2> SUFFICES ASSUME NEW e \in H \cap board, e \notin Range(S)
               PROVE  \E d \in C : Precedes(d.last, e)
    OBVIOUS
  <2>1. PICK c \in reader.cursor : Precedes(c.last, e)
    BY <1>1, <1>2 DEF PagesShowOneSnapshot
  <2>2. PICK d : d = [c EXCEPT !.opens = FALSE]
    OBVIOUS
  <2>3. d \in C /\ d.last = c.last
    BY <1>3, <1>7, <2>2 DEF Sealed
  <2> QED BY <2>1, <2>3
<1>15. UNCHANGED boardVars
  OBVIOUS
<1> QED BY ONLY <1>5, <1>6, <1>10, <1>11, <1>12, <1>13, <1>14, <1>15, ReaderHolds

LEMMA OpenedHolds ==
  ASSUME reader' = Opened, UNCHANGED boardVars
  PROVE  ReaderFits' /\ PagesShowOneSnapshot'
<1>1. <<>> \in Seq(Rows) /\ Range(<<>>) = {} /\ DOMAIN <<>> = {}
  BY DEF Range
<1>2. PagesShowOneSnapshot'
  BY <1>1 DEF Opened, PagesShowOneSnapshot
<1>3. ReaderFits'
  BY <1>1 DEF Opened, ReaderFits, OneQuestion
<1> QED BY <1>2, <1>3

LEMMA ReadingKeepsBoard ==
  ASSUME PolicyInv, BoardInv, Read
  PROVE  BoardInv'
<1>1. CandidatesFit /\ BoardFits /\ ReaderFits /\ PagesShowOneSnapshot
  BY DEF BoardInv
<1>2. UNCHANGED <<attempt, clock, policyVars, boardVars>>
  BY DEF Read
<1>3. CandidatesFit' /\ BoardFits'
  BY <1>1, <1>2 DEF CandidatesFit, BoardFits, Present, boardVars
<1>4. ReaderFits' /\ PagesShowOneSnapshot'
  <2>1. CASE \E sent \in {{}, reader.cursor} : Ask(sent)
    <3>1. PICK sent \in {{}, reader.cursor} : reader' = [reader EXCEPT !.asked = {sent}]
      BY <2>1 DEF Ask
    <3>2. {sent} \subseteq {{}} \/ {sent} \subseteq {reader.cursor}
      BY <3>1
    <3> QED BY <1>1, <1>2, <3>1, <3>2, RequestHolds
  <2>2. CASE ListAnswered
    BY <1>1, <1>2, <2>2, ListHolds
  <2>3. CASE MoreAnswered
    BY <1>1, <1>2, <2>3, MoreHolds
  <2>4. CASE NotAnswered
    <3>1. PICK A : /\ A \subseteq reader.asked
                   /\ reader' = [reader EXCEPT !.asked = A]
      BY <2>4 DEF NotAnswered
    <3>2. reader.asked \subseteq {{}} \/ reader.asked \subseteq {reader.cursor}
      BY <1>1 DEF ReaderFits, OneQuestion
    <3>3. A \subseteq {{}} \/ A \subseteq {reader.cursor}
      BY <3>1, <3>2
    <3> QED BY <1>1, <1>2, <3>1, <3>3, RequestHolds
  <2>5. CASE Leave
    BY <1>2, <2>5, OpenedHolds DEF Leave
  <2>6. CASE ServerRestarts
    BY <1>1, <1>2, <2>6, RestartHolds
  <2> QED BY <2>1, <2>2, <2>3, <2>4, <2>5, <2>6 DEF Read, ReaderNext
<1> QED BY <1>3, <1>4 DEF BoardInv

LEMMA BoardStays ==
  ASSUME BoardInv, UNCHANGED <<attempt, boardVars, reader>>
  PROVE  BoardInv'
<1>1. CandidatesFit' /\ BoardFits'
  BY DEF BoardInv, CandidatesFit, BoardFits, Present, boardVars
<1>2. BoardStep
  BY DEF BoardStep, BoardInv, BoardFits, boardVars
<1> QED BY <1>1, <1>2, ReaderSeesNoChange DEF BoardInv

LEMMA BoardInit == Init => BoardInv
<1> SUFFICES ASSUME Init PROVE BoardInv
  OBVIOUS
<1>1. board = {} /\ sequence = 0 /\ reader = Opened
  BY DEF Init, LeaderboardInit
<1>2. <<>> \in Seq(Rows) /\ Range(<<>>) = {} /\ DOMAIN <<>> = {}
  BY DEF Range
<1>3. PagesShowOneSnapshot /\ ReaderFits
  BY <1>1, <1>2 DEF Opened, PagesShowOneSnapshot, ReaderFits, OneQuestion
<1>4. BoardFits
  BY <1>1, FS_EmptySet DEF BoardFits
<1>5. CandidatesFit
  <2>1. CASE Measured
    BY <2>1 DEF Measured, CandidatesFit, Present
  <2>2. CASE Analysed
    <3>1. PICK group, video : attempt = [a \in group |-> NotYet(video[a])]
      BY <2>2 DEF Analysed
    <3> QED BY <3>1 DEF CandidatesFit, Present, NotYet
  <2> QED BY <2>1, <2>2 DEF Init
<1> QED BY <1>3, <1>4, <1>5 DEF BoardInv

LEMMA BoardNext == TrainingInv /\ BoardInv /\ [Next]_analysisVars => BoardInv'
<1> SUFFICES ASSUME TrainingInv, BoardInv, [Next]_analysisVars PROVE BoardInv'
  OBVIOUS
<1>1. PolicyInv /\ AttemptsAreWhole
  BY DEF TrainingInv
<1>2. CASE \E a \in Present : Analyse(a)
  BY <1>1, <1>2, AnalysisKeepsBoard
<1>3. CASE \E a \in Withdrawn : Tombstone(a)
  BY <1>1, <1>3, WithdrawalKeepsBoard
<1>4. CASE Read
  BY <1>1, <1>4, ReadingKeepsBoard
<1>5. CASE UNCHANGED <<attempt, boardVars, reader>>
  BY <1>5, BoardStays
<1> QED BY <1>2, <1>3, <1>4, <1>5
        DEF Next, BatchGoesOn, OperatorActs, TimePasses, analysisVars, boardVars

(* What the ranking screen shows, whatever is published, retracted and     *)
(* asked again meanwhile, is one moment of the board (listLiveLeaderboard, *)
(* LiveLeaderboard).                                                       *)
THEOREM PagesAreSnapshots == Spec => []PagesShowOneSnapshot
<1>1. BoardInv => PagesShowOneSnapshot
  BY DEF BoardInv
<1> QED BY <1>1, BoardInit, BoardNext, TrainingInvariant, PTL DEF Spec
=============================================================================
