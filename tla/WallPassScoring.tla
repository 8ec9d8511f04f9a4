-------------------------- MODULE WallPassScoring --------------------------
(***************************************************************************)
(* wall-pass-v1: what the domain package accepts as canonical evidence,    *)
(* which passes it finds in it, and the score it gives them.               *)
(*                                                                         *)
(* Evidence is a record of two sets: contacts of a foot with the ball, and *)
(* impacts of the ball on the wall.  Times and distances are integers in   *)
(* any unit that Rule uses too; percentages are exact hundredths.  All of  *)
(* Rule is the code's but missedAfter, the deadline its specification has. *)
(***************************************************************************)
EXTENDS Integers, FiniteSetsExt

CONSTANT Rule  \* WALL_PASS_V1_SCORE_RULE, in the units of the evidence

ASSUME RuleAssumption ==
  /\ Rule.start \in Nat /\ Rule.end \in Nat /\ Rule.start < Rule.end
  /\ \A d \in {"outboundDistance", "outboundWindow", "trackGap", "mergeWindow",
               "wallDistance", "reversalWindow", "contactFrames",
               "minImpact", "maxImpact", "minReturn", "maxReturn",
               "missedAfter", "fastestCadence", "slowestCadence", "targetPasses"} :
       Rule[d] \in Nat
  /\ Rule.minImpact > 0 /\ Rule.minReturn > 0 /\ Rule.targetPasses > 0
  /\ Rule.fastestCadence < Rule.slowestCadence

Feet == {"left", "right"}
NotOutbound == [moved |-> 0, within |-> 0]

InActiveWindow(t) == t \in Rule.start..(Rule.end - 1)

(* assertWallPassCanonicalEvidence.  The rows are listed by time, so that  *)
(* two rows of one kind never share an instant.  Confidence thresholds are *)
(* those of the assembler (a contact's foot and an impact's ball pass).    *)
Acceptable(ev) ==
  /\ \A c \in ev.contacts :
       /\ InActiveWindow(c.at) /\ c.side \in Feet
       /\ \/ c.outbound = NotOutbound
          \/ /\ c.outbound.moved >= Rule.outboundDistance
             /\ c.outbound.within <= Rule.outboundWindow
       /\ \A d \in ev.contacts : d.at = c.at => d = c
  /\ \A i \in ev.impacts :
       InActiveWindow(i.at) /\ \A j \in ev.impacts : j.at = i.at => j = i

-----------------------------------------------------------------------------
(* Passes.                                                                 *)

Starts(ev) == {c \in ev.contacts : c.outbound # NotOutbound}

After(rows, c) == {r \in rows : r.track = c.track /\ r.at > c.at}
First(rows) == CHOOSE r \in rows : \A s \in rows : r.at <= s.at

(* The next impact and the next contact of the same ball track; a contact  *)
(* before the impact ends the opportunity.                                 *)
NextImpact(ev, c) == First(After(ev.impacts, c))
ReturnOf(ev, c) == First(After(ev.contacts, c))
ReturnAfterImpact(ev, c) ==
  First(After(ev.contacts, NextImpact(ev, c)))

(* A bug: the contact that follows the impact closes every open pass.      *)
IsCompletedPassSharingReturns(ev, c) ==
  /\ After(ev.impacts, c) # {} /\ After(ev.contacts, NextImpact(ev, c)) # {}
  /\ LET hit == NextImpact(ev, c).at IN
     /\ hit - c.at \in Rule.minImpact..Rule.maxImpact
     /\ ReturnAfterImpact(ev, c).at - hit \in Rule.minReturn..Rule.maxReturn

IsCompletedPass(ev, c) ==
  /\ After(ev.impacts, c) # {} /\ After(ev.contacts, c) # {}
  /\ LET hit == NextImpact(ev, c).at IN
     /\ hit - c.at \in Rule.minImpact..Rule.maxImpact
     /\ ReturnOf(ev, c).at - hit \in Rule.minReturn..Rule.maxReturn

CompletedPasses(ev) == {c \in Starts(ev) : IsCompletedPass(ev, c)}

-----------------------------------------------------------------------------
(* Metrics and score.                                                      *)

Clamped(x, low, high) == IF x < low THEN low ELSE IF x > high THEN high ELSE x
RoundHalfUp(num, den) == (2 * num + den) \div (2 * den)
Abs(x) == IF x < 0 THEN -x ELSE x

(* A part of n in the whole, in hundredths of a percent.                   *)
Percent(n, whole) == IF whole = 0 THEN 0 ELSE RoundHalfUp(10000 * n, whole)

(* reconcileFootBalance: the larger side takes what rounding left over.    *)
LeftFootPercent(left, valid) ==
  IF valid = 0 THEN 0
  ELSE IF 2 * left >= valid THEN 10000 - Percent(valid - left, valid)
  ELSE Percent(left, valid)
RightFootPercent(left, valid) ==
  IF valid = 0 THEN 0
  ELSE IF 2 * left >= valid THEN Percent(valid - left, valid)
  ELSE 10000 - Percent(left, valid)

(* The mean delta between consecutive completions spans first to last.     *)
CadenceSpan(ev, passes) ==
  Max({ReturnOf(ev, c).at : c \in passes})
    - Min({ReturnOf(ev, c).at : c \in passes})

(* Four weighted parts over one denominator, from unrounded metrics:       *)
(* volume 0.4, accuracy 0.3, cadence 0.2, foot balance 0.1.                *)
ScoreOf(ev) ==
  LET passes == CompletedPasses(ev)
      v == Cardinality(passes)
      left == Cardinality({c \in passes : c.side = "left"})
      o == Cardinality(Starts(ev))
      range == Rule.slowestCadence - Rule.fastestCadence
      cadence == Clamped(20 * (Rule.slowestCadence * (v - 1)
                               - CadenceSpan(ev, passes)),
                         0, 20 * range * (v - 1))
      volume == Clamped(40 * v, 0, 40 * Rule.targetPasses)
  IN IF v = 0 THEN 0
     ELSE LET den == o * v * Rule.targetPasses
              base == volume * o * v + 30 * v * v * Rule.targetPasses
                        + (10 * v - Abs(20 * left - 10 * v))
                            * o * Rule.targetPasses
          IN IF v < 2 THEN RoundHalfUp(base, den)
             ELSE RoundHalfUp(base * range * (v - 1) + cadence * den,
                              den * range * (v - 1))

Evaluation(ev) ==
  LET passes == CompletedPasses(ev)
      v == Cardinality(passes)
      left == Cardinality({c \in passes : c.side = "left"})
  IN [opportunities |-> Cardinality(Starts(ev)), validPasses |-> v,
      accuracyPercent |-> Percent(v, Cardinality(Starts(ev))),
      leftFootPercent |-> LeftFootPercent(left, v),
      rightFootPercent |-> RightFootPercent(left, v),
      score |-> ScoreOf(ev)]
=============================================================================
