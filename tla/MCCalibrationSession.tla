------------------------ MODULE MCCalibrationSession ------------------------
(* Two athletes race for two sessions, with retries under one key.         *)
EXTENDS CalibrationSession, TLC

CONSTANTS p1, p2, s1, s2, a1, a2, a3, k1

TwoAthletes == {p1, p2}
TwoSessions == {s1, s2}
ThreeAttempts == {a1, a2, a3}
OneKey == {k1}

Symmetry == Permutations(TwoAthletes) \cup Permutations(ThreeAttempts)
              \cup Permutations(TwoSessions)
=============================================================================
