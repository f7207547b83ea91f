------------------------ MODULE RegistrationsLedger ------------------------
(***************************************************************************)
(* The refinement: registration under concurrent requests, as one SeatLedger*)
(* sees it.                                                                *)
(***************************************************************************)
EXTENDS Registrations

HoldersToldOff == \E u \in Users : <<"event.cancelled", u>> \in notices

Ledger ==
  INSTANCE SeatLedger WITH
    capacity <- event.capacity,
    holders <- Seated,
    ticket <- [r \in Waiting |-> reg[r].position],
    gone <- WithStatus(reg, "CANCELLED"),
    calledOff <- HoldersToldOff

\* Whatever the requests interleave, seats and waitlist move as the ledger's
\* atomic steps do: the row lock makes each operation one step.
ImplementsLedger == Ledger!Spec
=============================================================================
