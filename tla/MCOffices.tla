----------------------------- MODULE MCOffices -----------------------------
(***************************************************************************)
(* A small instance of Offices for TLC: one Admin and two students.        *)
(***************************************************************************)
EXTENDS Offices, TLC

CONSTANTS chief, ann, bob, r1, r2

Everybody == {chief, ann, bob}
OneAdmin  == {chief}
Pair      == {r1, r2}
Symmetry  == Permutations({ann, bob}) \union Permutations(Pair)

\* The tables of the web application and of the API, on every set of facts there is.
ASSUME TablesAgree == \A facts \in ActorFacts : MirrorsAgree(facts)
=============================================================================
