-------------------------- MODULE VerifiedEvidence --------------------------
(***************************************************************************)
(* How the frames of a verified video become canonical evidence            *)
(* (assembleVerifiedEvidence), and what the integrity evaluator asks of it *)
(* before it may be scored (evaluateVerifiedIntegrity).                    *)
(*                                                                         *)
(* A frame of the active window is a record:                               *)
(*   at      its instant                                                   *)
(*   view    from where the wall was seen, if its geometry is sure enough  *)
(*           and valid; NoGeometry otherwise                               *)
(*   ball    distance of the tracked ball to the wall, or NoBall           *)
(*   foot    the surest foot within reach of the ball, or NoFoot           *)
(*   sure    how sure that foot is                                         *)
(* Detections of a frame that is not stable are never mapped.  A video is  *)
(* the views of its pre-roll frames and its active frames.  Projection to  *)
(* the ground, outlier rejection and pixel errors are left out: they       *)
(* decide `view`, `ball` and `foot`.                                       *)
(***************************************************************************)
EXTENDS WallPassScoring, Sequences, SequencesExt

CONSTANTS
  NoBall, NoFoot, NoGeometry,
  Anchors,   \* of each view, where the corners of the markers are, on a line
  Required   \* the thresholds of the integrity evaluator

ASSUME EvidenceAssumption ==
  /\ NoFoot \notin Feet
  /\ \A n \in {"preRoll", "stable", "usable", "unstableRun", "medianDrift",
               "drift"} : Required[n] \in Nat

-----------------------------------------------------------------------------
(* The reference the active frames are held against: of the pre-roll       *)
(* frames that have a geometry, the one nearest to all of them together.   *)

Drifts(one, other) ==
  [k \in DOMAIN Anchors[one] |-> Abs(Anchors[one][k] - Anchors[other][k])]
TwiceMedian(values) ==
  LET sorted == SortSeq(values, <)
      n == Len(values)
  IN sorted[(n + 1) \div 2] + sorted[(n \div 2) + 1]
MedianDrift(one, other) == TwiceMedian(Drifts(one, other))
MaximumDrift(one, other) == Max(Range(Drifts(one, other)))

Located(preRoll) == {i \in DOMAIN preRoll : preRoll[i] # NoGeometry}
DistanceSum(preRoll, i) ==
  FoldSet(LAMBDA j, sum : sum + MedianDrift(preRoll[i], preRoll[j]), 0,
          Located(preRoll))
ReferenceFrame(preRoll) ==
  CHOOSE i \in Located(preRoll) : \A j \in Located(preRoll) :
    \/ DistanceSum(preRoll, i) < DistanceSum(preRoll, j)
    \/ DistanceSum(preRoll, i) = DistanceSum(preRoll, j) /\ i <= j

(* A frame of the active window counts only near the reference.            *)
Near(reference, view) ==
  /\ MedianDrift(reference, view) <= 2 * Required.medianDrift
  /\ MaximumDrift(reference, view) <= Required.drift

(* assembleVerifiedEvidence: how many pre-roll frames have a geometry, and *)
(* the active frames, each of them steady or not.                          *)
Evidence(video) ==
  LET located == Located(video.preRoll)
      reference == video.preRoll[ReferenceFrame(video.preRoll)]
      near == {view \in DOMAIN Anchors : located # {} /\ Near(reference, view)}
      Active(f) == [steady |-> f.view \in near, at |-> f.at, ball |-> f.ball,
                    foot |-> f.foot, sure |-> f.sure]
  IN [preRoll |-> Cardinality(located),
      active |-> FoldLeft(LAMBDA rows, f : Append(rows, Active(f)), <<>>,
                          video.active)]

-----------------------------------------------------------------------------
(* Tracks, contacts and impacts, as indices of the active frames.          *)

Steady(fs) == {i \in DOMAIN fs : fs[i].steady}
Tracked(fs) == {i \in Steady(fs) : fs[i].ball # NoBall}

(* Frames of S fall into groups wherever two neighbours are further apart  *)
(* than gap; a frame's group is the number of groups begun up to it.       *)
Groups(fs, S, gap) ==
  LET Begins(j) == \A k \in S : k < j => fs[j].at - fs[k].at > gap
      begins == {j \in S : Begins(j)}
  IN [i \in S |-> Cardinality({j \in begins : j <= i})]

(* collectBallTrackSegments.                                               *)
Tracks(fs) == Groups(fs, Tracked(fs), Rule.trackGap)
Later(track, i) == {j \in DOMAIN track : track[j] = track[i] /\ j > i}
Earlier(track, i) == {j \in DOMAIN track : track[j] = track[i] /\ j < i}

(* collectContacts: one contact per group of two frames or more, at the    *)
(* frame whose foot is surest, the earliest of those.                      *)
Touches(fs) == {i \in Tracked(fs) : fs[i].foot # NoFoot}
Contacts(fs) ==
  LET group == Groups(fs, Touches(fs), Rule.mergeWindow)
      Mates(i) == {j \in DOMAIN group : group[j] = group[i]}
  IN {i \in DOMAIN group :
        /\ Cardinality(Mates(i)) >= Rule.contactFrames
        /\ \A j \in Mates(i) : \/ fs[i].sure > fs[j].sure
                               \/ fs[i].sure = fs[j].sure /\ i <= j}

(* collectWallImpacts: the ball came nearer, is at the wall and goes back. *)
WallImpacts(fs) ==
  LET track == Tracks(fs) IN
  {i \in DOMAIN track :
     /\ fs[i].ball <= Rule.wallDistance
     /\ Earlier(track, i) # {} /\ Later(track, i) # {}
     /\ fs[Max(Earlier(track, i))].ball > fs[i].ball
     /\ LET next == fs[Min(Later(track, i))] IN
        next.ball > fs[i].ball /\ next.at - fs[i].at <= Rule.reversalWindow}

(* outboundMovement: the first sample soon after the contact that is far   *)
(* enough towards the wall.                                                *)
OutboundSamples(fs, track, i) ==
  {j \in Later(track, i) : /\ fs[j].at - fs[i].at <= Rule.outboundWindow
                           /\ fs[i].ball - fs[j].ball >= Rule.outboundDistance}
OutboundMovement(fs, track, i) ==
  IF OutboundSamples(fs, track, i) = {} THEN NotOutbound
  ELSE LET j == Min(OutboundSamples(fs, track, i))
       IN [moved |-> fs[i].ball - fs[j].ball, within |-> fs[j].at - fs[i].at]

CanonicalEvents(fs) ==
  LET track == Tracks(fs) IN
  [contacts |-> {[at |-> fs[i].at, side |-> fs[i].foot, track |-> track[i],
                  outbound |-> OutboundMovement(fs, track, i)] : i \in Contacts(fs)},
   impacts |-> {[at |-> fs[i].at, track |-> track[i]] : i \in WallImpacts(fs)}]

-----------------------------------------------------------------------------
(* The integrity decision.                                                 *)

LongestUnstableRun(fs) ==
  Max({0} \cup {n \in 1..Len(fs) :
         \E i \in 0..(Len(fs) - n) : \A k \in 1..n : ~fs[i + k].steady})

(* hasVerifiedCalibration.                                                 *)
Calibrated(evidence) ==
  /\ evidence.preRoll >= Required.preRoll
  /\ Cardinality(Steady(evidence.active)) >= Required.stable
  /\ LongestUnstableRun(evidence.active) <= Required.unstableRun

(* hasBoundCanonicalEvents: one instant, one event.  Every event lies in a *)
(* steady frame by construction.                                           *)
EventsAreBound(fs) ==
  /\ Acceptable(CanonicalEvents(fs))
  /\ Contacts(fs) \cap WallImpacts(fs) = {}

Usable(fs) == Tracked(fs)

IntegrityOf(evidence) ==
  IF ~Calibrated(evidence) \/ ~EventsAreBound(evidence.active)
  THEN "calibration_not_verified"
  ELSE IF Cardinality(Usable(evidence.active)) < Required.usable
  THEN "tracking_insufficient"
  ELSE "integrity-valid"
=============================================================================
