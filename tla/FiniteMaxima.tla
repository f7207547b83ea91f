---------------------------- MODULE FiniteMaxima ----------------------------
(***************************************************************************)
(* Facts about finite sets of numbers that the other proofs cite.          *)
(***************************************************************************)
EXTENDS Integers, FiniteSetsExt, FiniteSetTheorems, TLAPS

\* A finite, nonempty set of integers has a largest element, and Max is it.
\* By well-founded descent: a smallest subset without a largest element would
\* stay without one when an element is taken from it.
LEMMA MaxOfFiniteSet ==
  ASSUME NEW S, S \subseteq Int, IsFiniteSet(S), S # {}
  PROVE  Max(S) \in S /\ \A x \in S : x <= Max(S)
  <1> DEFINE HasMax(U) == \E m \in U : \A x \in U : x <= m
             Bad == {U \in SUBSET S : U # {} /\ ~HasMax(U)}
  <1>1. ASSUME Bad # {} PROVE FALSE
    <2>1. Bad \subseteq FiniteSubsetsOf(S)
      BY FS_FiniteSubsetsOfFinite
    <2>2. PICK U \in Bad : \A V \in Bad : <<V, U>> \notin StrictSubsetOrdering(S)
      BY <1>1, <2>1, FS_StrictSubsetOrderingWellFounded, WFMin
    <2>3. PICK x \in U : TRUE
      BY <2>2
    <2>4. U \ {x} \notin Bad
      <3>1. U \ {x} \in SUBSET S /\ U \in SUBSET S /\ U \ {x} \subseteq U /\ U \ {x} # U
        BY <2>2, <2>3
      <3>2. <<U \ {x}, U>> \in StrictSubsetOrdering(S)
        BY <3>1 DEF StrictSubsetOrdering
      <3> QED BY <2>2, <3>2
    <2>5. CASE U \ {x} = {}
      <3>1. \A y \in U : y = x
        BY <2>5
      <3>2. x \in Int
        BY <2>2, <2>3
      <3>3. HasMax(U)
        BY <2>3, <3>1, <3>2
      <3> QED BY <2>2, <3>3
    <2>6. CASE U \ {x} # {}
      <3>1. PICK m \in U \ {x} : \A y \in U \ {x} : y <= m
        BY <2>2, <2>4, <2>6
      <3>2. U \subseteq Int
        BY <2>2
      <3>3. HasMax(U)
        <4>1. CASE x <= m
          BY <2>3, <3>1, <3>2, <4>1
        <4>2. CASE ~(x <= m)
          BY <2>3, <3>1, <3>2, <4>2
        <4> QED BY <4>1, <4>2
      <3> QED BY <2>2, <3>3
    <2> QED BY <2>5, <2>6
  <1>2. PICK m \in S : \A x \in S : x <= m
    BY <1>1
  <1>3. \E y \in S : \A x \in S : y >= x
    BY <1>2
  <1>4. Max(S) \in S /\ \A x \in S : Max(S) >= x
    BY <1>3 DEF Max
  <1> QED BY <1>4

\* The smaller of two integers.
LEMMA MinOfPair ==
  ASSUME NEW a \in Int, NEW b \in Int
  PROVE  Min({a, b}) = IF a <= b THEN a ELSE b
  BY DEF Min
=============================================================================
