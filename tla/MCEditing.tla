----------------------------- MODULE MCEditing -----------------------------
(* Instances of Editing for TLC. *)
EXTENDS Editing, TLC

MCRosters == {{"LEAD"}, {"MARKETING"}}
MCTexts   == {1, 2}
MCSpans   == {<<1, 2>>, <<3, 4>>}

\* A published event without a certificate: one officer may end it earlier while
\* another starts it later, or keeps registration open for longer.
MCRows    == {[startsAt |-> 1, endsAt |-> 4, registrationOpensAt |-> 1, registrationClosesAt |-> 2,
               venue |-> 1, certificateEnabled |-> FALSE, certificateTitle |-> 1, description |-> 1]}

\* Officers differ in nothing but the roles they happen to hold.
Interchangeable == Permutations(Officers)
=============================================================================
