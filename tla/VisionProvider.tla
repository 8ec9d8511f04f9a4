--------------------------- MODULE VisionProvider ---------------------------
(***************************************************************************)
(* What one request to the hosted vision workflow comes to (runWorkflow),  *)
(* and what the frames of a free attempt come to (assembleFreeInsight).    *)
(*                                                                         *)
(* Encoding of the image, its coordinates and the text of tips are left    *)
(* out.                                                                    *)
(***************************************************************************)
EXTENDS Integers, Sequences, FiniteSets

CONSTANTS
  NoAthlete,    \* of a free frame without an athlete that is sure enough
  MovementRate  \* the displacement per instant that counts as activity

(* How a request can end.                                                  *)
Replies == {"frame", "busy", "refused", "unreadable", "other workflow",
            "class missing", "class twice", "bad encoding",
            "aborted", "connection lost", "other error"}

(* retryableHttpStatus and isRetryableTransportError: worth another call.  *)
WorthRetrying == {"busy", "aborted", "connection lost"}

AnswerOf(reply) == IF reply = "frame" THEN "frame"
                   ELSE IF reply \in WorthRetrying THEN "temporary"
                   ELSE "invalid"

-----------------------------------------------------------------------------
(* A free frame: its instant, where the athlete is, whether a ball is seen.*)

Share(n, whole) == (200 * n + whole) \div (2 * whole)
VisibilityRange(percent) == IF percent < 50 THEN "limited"
                            ELSE IF percent < 80 THEN "partial"
                            ELSE "consistent"

WithAthlete(fs) == SelectSeq(fs, LAMBDA f : f.athlete # NoAthlete)

(* movementPairs: neighbours among the frames with an athlete, however     *)
(* many frames without one lie between them.                               *)
ActivePairs(fs) ==
  LET seen == WithAthlete(fs)
      Distance(i) == LET d == seen[i + 1].athlete - seen[i].athlete
                     IN IF d < 0 THEN -d ELSE d
  IN {i \in 1..(Len(seen) - 1) :
        Distance(i) >= MovementRate * (seen[i + 1].at - seen[i].at)}

Movement(fs) ==
  IF Len(WithAthlete(fs)) < 2 THEN 0
  ELSE Share(Cardinality(ActivePairs(fs)), Len(WithAthlete(fs)) - 1)

FreeInsight(fs) ==
  LET Visibility(S) == VisibilityRange(Share(Cardinality(S), Len(fs)))
      athlete == Visibility({i \in DOMAIN fs : fs[i].athlete # NoAthlete})
      ball == Visibility({i \in DOMAIN fs : fs[i].ball})
      limited == (IF athlete = "limited" THEN <<"show athlete">> ELSE <<>>)
                   \o (IF ball = "limited" THEN <<"show ball">> ELSE <<>>)
  IN [kind |-> "free-insight", athlete |-> athlete, ball |-> ball,
      tips |-> IF limited # <<>> THEN limited
               ELSE IF Movement(fs) < 20 THEN <<"move more">>
               ELSE <<"good coverage">>]
=============================================================================
