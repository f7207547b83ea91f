----------------------------- MODULE MCScanner -----------------------------
(* Instances of Scanner for TLC. *)
EXTENDS Scanner, TLC

CONSTANTS p1, p2, e1, e2, d1, d2, r1, r2

OnePerson    == {p1}
TwoPeople    == {p1, p2}
OneDevice    == {d1}
TwoDevices   == {d1, d2}
TwoRequests  == {r1, r2}
TwoEvents    == {e1, e2}
DeskSymmetry == Permutations(TwoRequests) \cup Permutations(TwoEvents)
=============================================================================
