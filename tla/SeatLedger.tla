----------------------------- MODULE SeatLedger -----------------------------
(***************************************************************************)
(* What registration promises, without locks, requests or clocks: a fixed  *)
(* number of seats, a queue for them, and one atomic step per change.      *)
(*                                                                         *)
(* A registration is in one of four places: not made yet, holding a seat,  *)
(* in the queue, or gone for good.                                         *)
(***************************************************************************)
EXTENDS Integers, FiniteSets, FiniteSetsExt

CONSTANT Regs  \* the registrations that can ever be made

VARIABLES
  capacity,  \* how many seats there are
  holders,   \* the registrations holding one
  ticket,    \* the numbers of those waiting, drawn in the order they came
  gone,      \* those withdrawn
  calledOff  \* whether holders were told the event is off

ledger == <<capacity, holders, ticket, gone, calledOff>>

Queued == DOMAIN ticket
New == Regs \ (holders \union Queued \union gone)
SeatsLeft(seats, taken) == seats - Cardinality(taken)

Init ==
  /\ capacity \in Nat \ {0}
  /\ holders = {}
  /\ ticket = [r \in {} |-> 0]
  /\ gone = {}
  /\ calledOff = FALSE

\* Those in `front` stand before everyone else in the queue.
InFront(front) == \A r \in front, s \in Queued \ front : ticket[r] < ticket[s]

\* The others keep their numbers.
Leave(out) == ticket' = [r \in Queued \ out |-> ticket[r]]

\* Every seat left is filled from the queue as far as it goes, and those in
\* `rest` keep theirs.  After the event was called off nobody need be seated.
Refill(seats, rest) ==
  LET due == Min({Cardinality(Queued), SeatsLeft(seats, rest)}) IN
  \E front \in SUBSET Queued :
    /\ Cardinality(front) \in (IF calledOff THEN 0 .. due ELSE {due})
    /\ InFront(front)
    /\ holders' = rest \union front
    /\ Leave(front)

\* A newcomer takes a seat only past an empty queue, ...
Take(r) ==
  /\ SeatsLeft(capacity, holders) > 0
  /\ Queued = {} \/ calledOff
  /\ holders' = holders \union {r}
  /\ UNCHANGED <<capacity, ticket, gone, calledOff>>

\* ... and waits only when no seat is left, behind everyone who waits already.
Wait(r) ==
  /\ SeatsLeft(capacity, holders) = 0
  /\ ticket' \in [Queued \union {r} -> Nat]
  /\ \A s \in Queued : ticket'[s] = ticket[s] /\ ticket[s] < ticket'[r]
  /\ UNCHANGED <<capacity, holders, gone, calledOff>>

GiveUpSeat(r) ==
  /\ gone' = gone \union {r}
  /\ Refill(capacity, holders \ {r})
  /\ UNCHANGED <<capacity, calledOff>>

LeaveQueue(r) ==
  /\ gone' = gone \union {r}
  /\ Leave({r})
  /\ UNCHANGED <<capacity, holders, calledOff>>

Resize ==
  /\ capacity' \in Nat \ {0}
  /\ SeatsLeft(capacity', holders) >= 0
  /\ Refill(capacity', holders)
  /\ UNCHANGED <<gone, calledOff>>

CallOff ==
  /\ holders # {}
  /\ calledOff' = TRUE
  /\ UNCHANGED <<capacity, holders, ticket, gone>>

Next ==
  \/ \E r \in New : Take(r) \/ Wait(r)
  \/ \E r \in holders : GiveUpSeat(r)
  \/ \E r \in Queued : LeaveQueue(r)
  \/ Resize
  \/ CallOff

Spec == Init /\ [][Next]_ledger
=============================================================================
