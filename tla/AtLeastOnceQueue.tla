-------------------------- MODULE AtLeastOnceQueue --------------------------
(***************************************************************************)
(* What an analysis queue promises: "at-least-once identifier queue".  A   *)
(* job, named by its attempt, waits or is held by a consumer's callback,   *)
(* and leaves only when its callback returns; once the callback rejected,  *)
(* the job waits again.  MediaDelivery assumes no more of the queue.       *)
(***************************************************************************)
EXTENDS Naturals

CONSTANT Attempts

VARIABLES
  waiting,   \* waiting[a]: jobs of attempt a that no callback holds
  held,      \* held[a]: jobs of attempt a that a callback holds
  refused    \* refused[a]: jobs of attempt a whose callback rejected

queueVars == <<waiting, held, refused>>

Init ==
  /\ waiting = [a \in Attempts |-> 0]
  /\ held = [a \in Attempts |-> 0]
  /\ refused = [a \in Attempts |-> 0]

More(count, a) == [count EXCEPT ![a] = @ + 1]
Fewer(count, a) == [count EXCEPT ![a] = @ - 1]

Enqueue(a) == waiting' = More(waiting, a) /\ UNCHANGED <<held, refused>>
Deliver(a) ==
  /\ waiting[a] > 0
  /\ waiting' = Fewer(waiting, a) /\ held' = More(held, a) /\ UNCHANGED refused
Acknowledge(a) ==
  held[a] > 0 /\ held' = Fewer(held, a) /\ UNCHANGED <<waiting, refused>>
Refuse(a) ==
  /\ held[a] > 0
  /\ held' = Fewer(held, a) /\ refused' = More(refused, a) /\ UNCHANGED waiting
PutBack(a) ==
  /\ refused[a] > 0
  /\ refused' = Fewer(refused, a) /\ waiting' = More(waiting, a) /\ UNCHANGED held

Next ==
  \E a \in Attempts :
    Enqueue(a) \/ Deliver(a) \/ Acknowledge(a) \/ Refuse(a) \/ PutBack(a)
Spec == Init /\ [][Next]_queueVars
=============================================================================
