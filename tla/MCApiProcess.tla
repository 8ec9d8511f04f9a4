---------------------------- MODULE MCApiProcess ----------------------------
(* Bodies that are accepted, too long for a file, of two parts and above   *)
(* the limit of the envelope, cut off, empty, and without any part; and    *)
(* videos of either mode that are accepted or refused for every reason.    *)
EXTENDS ApiProcess

MCBodies ==
  { <<"media", "data", "end">>,
    <<"media", "data", "data", "end">>,
    <<"media", "data", "other", "data", "end">>,
    <<"media", "cut">>,
    <<"media", "end">>,
    <<"end">> }

Shots(times, spoiled) ==
  [i \in DOMAIN times |-> [at |-> times[i],
     picture |-> IF i = spoiled THEN "spoiled" ELSE ToString(i)]]
(* Filmed upright or with a phone held sideways; unreadable or unfit.      *)
Film(duration, width, height, turns) ==
  [films |-> <<"clear">>, duration |-> duration, width |-> width,
   height |-> height, turns |-> turns, rate |-> 24, named |-> "mp4",
   magic |-> "mov"]
Scenes(times, score) == [i \in DOMAIN times |-> [at |-> times[i], score |-> score]]
Verified(times, spoiled, scenes, score) ==
  [mode |-> "verified", probe |-> Film(6, 9, 16, <<-90, 0>>), decoded |-> Shots(times, spoiled),
   scenes |-> Scenes(scenes, score)]
Free(times) ==
  [mode |-> "free", probe |-> Film(5, 16, 9, <<>>), decoded |-> Shots(times, 0),
   scenes |-> Scenes(<<4>>, 4)]

MCRequired ==
  [free |-> [shortest |-> 3, longest |-> 8, side |-> 4, rate |-> 12],
   verified |-> [shortest |-> 6, longest |-> 7, width |-> 12, height |-> 7,
                 rate |-> 24]]

MCDecodings ==
  { Verified(<<0, 1, 2, 4>>, 2, <<2, 4>>, 1), \* accepted: another is spoiled
    Verified(<<0, 2, 4>>, 2, <<2, 4>>, 1),    \* one of them is spoiled
    Verified(<<0, 2, 4>>, 0, <<2, 4>>, 4),    \* a cut
    Verified(<<0, 2, 3, 4>>, 0, <<2, 3, 4>>, 1), \* one more scene than frames
    Verified(<<0, 1, 3, 5>>, 0, <<3, 5>>, 1), \* a tie takes the earlier frame
    Verified(<<0, 4, 5>>, 0, <<4, 5>>, 1),    \* a gap
    Verified(<<2, 4, 6>>, 0, <<2, 4>>, 1),    \* begins late
    Verified(<<0, 2>>, 0, <<2>>, 1),          \* too short
    Free(<<0, 1, 3, 5>>),                     \* accepted, whatever its scenes
    Free(<<0, 3, 6>>),                        \* goes on after its end
    Free(<<0, 3, 3>>),                        \* stands still
    [Verified(<<0, 2, 4>>, 0, <<2, 4>>, 1) EXCEPT !.probe.turns = <<>>],
    [Free(<<0, 1, 3, 5>>) EXCEPT !.probe.films = <<"clear", "clear">>],
    [Free(<<0, 1, 3, 5>>) EXCEPT !.probe.magic = "webm"],
    Free(<<0, 3>>) }                          \* too short
=============================================================================
