----------------------------- MODULE MCAccounts -----------------------------
(* Instances of Accounts for TLC. *)
EXTENDS Accounts, TLC

CONSTANTS p1, p2, p3, f1, f2, f3, l1, r1, r2, r3

OnePerson     == {p1}
TwoPeople     == {p1, p2}
ThreePeople   == {p1, p2, p3}
TwoFamilies   == {f1, f2}
ThreeFamilies == {f1, f2, f3}
NoLinks       == {}
OneLink       == {l1}
TwoRequests   == {r1, r2}
ThreeRequests == {r1, r2, r3}
Symmetry      == Permutations(TwoPeople) \cup Permutations(TwoFamilies) \cup Permutations(TwoRequests)
=============================================================================
