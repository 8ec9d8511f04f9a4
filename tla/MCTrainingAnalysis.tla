------------------------- MODULE MCTrainingAnalysis -------------------------
(* Three verified attempts race with operators, deletions and a reader; a  *)
(* free one goes through its batch call by call; a verified one may be any *)
(* video of up to five phrases.                                            *)
EXTENDS TrainingAnalysis

CONSTANTS bundle, other

MCAttempts == 1..6
MCAlone == {4, 5, 6}
MCWithdrawn == {1}
MCStepwise == {4}
MCMode == [a \in MCAttempts |-> IF a = 4 THEN "free" ELSE "verified"]
MCBundle == [a \in MCAttempts |-> CASE a = 5 -> other [] a \in {4, 6} -> Demo
                                       [] OTHER -> bundle]

(* One receipt as a benchmark writes it, and copies someone changed.       *)
MCReceipts == {"r1", "late", "long", "repeated"}
Earned == ReceiptFor(<<[manifest |-> 1, inTime |-> TRUE],
                       [manifest |-> 2, inTime |-> TRUE]>>, TRUE, 1)
MCReceiptOf ==
  [r \in MCReceipts |->
     (CASE r = "late" -> [Earned EXCEPT !.runs[2].inTime = FALSE]
        [] r = "long" -> [Earned EXCEPT !.validUntil = @ + 1]
        [] r = "repeated" -> [Earned EXCEPT !.manifests[2] = 1,
                                            !.runs[2].manifest = 1]
        [] OTHER -> Earned) @@ [tuple |-> bundle]]
MCPolicies == 1..2

(* Impacts may come late, so that ten frames hold two contacts before one. *)
MCRule ==
  [start |-> 0, end |-> 20, outboundDistance |-> 1, outboundWindow |-> 2,
   trackGap |-> 2, mergeWindow |-> 1, wallDistance |-> 0, reversalWindow |-> 2,
   contactFrames |-> 2, minImpact |-> 1, maxImpact |-> 6, minReturn |-> 1,
   maxReturn |-> 4, missedAfter |-> 4, fastestCadence |-> 1,
   slowestCadence |-> 8, targetPasses |-> 4]
MCRequired == [preRoll |-> 2, stable |-> 1, usable |-> 1, unstableRun |-> 1,
               medianDrift |-> 1, drift |-> 2]

-----------------------------------------------------------------------------
(* Videos, as phrases of one or two frames.                                *)

MCAnchors == [home |-> <<0, 4, 8>>, nudged |-> <<1, 5, 10>>,
              moved |-> <<2, 6, 10>>, turned |-> <<1, 5, 13>>]
Frame(ball, foot, sure) ==
  [view |-> "home", ball |-> ball, foot |-> foot, sure |-> sure]
Touch(side) == <<Frame(1, side, 2), Frame(1, side, 1)>>
Far == <<Frame(2, NoFoot, 0)>>
Wall == <<Frame(0, NoFoot, 0)>>
Still == Wall \o Wall
Volley == <<Frame(0, "left", 2), Frame(1, "left", 1)>>
Lost == <<Frame(NoBall, NoFoot, 0)>>
Seen(view) == <<[Frame(0, NoFoot, 0) EXCEPT !.view = view]>>

Timed(frames) == [i \in DOMAIN frames |-> frames[i] @@ ("at" :> i)]
Video(phrases) == [preRoll |-> <<"moved", "home", "nudged">>, active |-> Timed(FlattenSeq(phrases))]
Clips == {Touch("left"), Far, Wall, Still, Lost}
ManyVideos ==
  {Video(phrases) : phrases \in SeqOf(Clips, 5)
                       \cup SeqOf(Clips \cup {Touch("right"), Volley}, 3)}
    \cup {Video(<<Touch("left"), Seen(view), Wall, Touch("right")>>) :
            view \in {NoGeometry, "home", "moved", "turned"}}
    \cup {[Video(<<Touch("left"), Wall>>) EXCEPT !.preRoll = preRoll] :
            preRoll \in {<<NoGeometry, NoGeometry, "home">>,
                         <<NoGeometry, "home", "moved">>,
                         <<"moved", "moved", "home">>}}

OnePass == Video(<<Touch("left"), Wall, Touch("right")>>)
NoPass == Video(<<Touch("left"), Far>>)
FreeFrame(at, athlete, ball) == [at |-> at, athlete |-> athlete, ball |-> ball]
FreeVideo ==
  [preRoll |-> <<>>,
   active |-> <<FreeFrame(1, 0, TRUE), FreeFrame(2, 3, FALSE),
                FreeFrame(3, NoAthlete, TRUE)>>]

MCFootage ==
  [a \in MCAttempts |-> CASE a = 4 -> {FreeVideo} [] a = 5 -> ManyVideos
                          [] a = 3 -> {NoPass} [] OTHER -> {OnePass}]

MCDelays == <<1, 2>>
=============================================================================
