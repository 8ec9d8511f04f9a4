--------------------------- MODULE MCMediaIntake ---------------------------
(* One upload that nothing is wrong with.                                  *)
EXTENDS MediaIntake

OneBody == { <<"media", "data", "end">> }
FreeOnly == [free |-> [shortest |-> 3, longest |-> 8, side |-> 4, rate |-> 12]]
OneDecoding ==
  { [mode |-> "free", scenes |-> <<>>,
     probe |-> [films |-> <<"clear">>, duration |-> 4, width |-> 6, height |-> 4,
                turns |-> <<>>, rate |-> 12, named |-> "webm", magic |-> "webm"],
     decoded |-> [i \in 1..2 |-> [at |-> 2 * i, picture |-> ToString(i)]]] }
=============================================================================
