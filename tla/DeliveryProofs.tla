--------------------------- MODULE DeliveryProofs ---------------------------
(***************************************************************************)
(* What a row says of its mail is true, for any number of rows, actions    *)
(* and overlapping calls of the sweep.                                     *)
(***************************************************************************)
EXTENDS Delivery, TLAPS

\* Every table has its entries.
Shaped ==
    /\ rows = [k \in Keys |-> rows[k]]
    /\ actions = [a \in Actions |-> actions[a]]
    /\ sweeps = [s \in Sweeps |-> [batch |-> sweeps[s].batch, outcome |-> sweeps[s].outcome]]

\* An outcome that a call still holds, and the status an open transaction will
\* commit, are as true as a row is.
OutcomesTrue == \A s \in Sweeps :
    sweeps[s].outcome = "SENT" => Head(sweeps[s].batch) \in mailed.accepted

UncommittedTrue == \A a \in Actions :
    Open(a) /\ actions[a].status = "SENT" => actions[a].inserted \subseteq mailed.accepted

Inv == Shaped /\ SentMeansAccepted /\ OutcomesTrue /\ UncommittedTrue

\* A mail adds to what was accepted, and is reported SENT only if it was.
LEMMA MailIsReported ==
    ASSUME NEW k, NEW outcome, Mails(k, outcome)
    PROVE  /\ mailed.accepted \subseteq mailed'.accepted
           /\ outcome = "SENT" => k \in mailed'.accepted
  <1>1. PICK accepted \in BOOLEAN, heard \in BOOLEAN :
          /\ outcome = Reported(accepted, heard)
          /\ mailed' = [tried    |-> mailed.tried \cup {k},
                        accepted |-> IF accepted /\ Configured THEN mailed.accepted \cup {k}
                                     ELSE mailed.accepted]
    BY DEF Mails
  <1>2. CASE accepted /\ Configured
    <2>1. mailed'.accepted = mailed.accepted \cup {k}
      BY <1>1, <1>2
    <2> QED
      BY <2>1
  <1>3. CASE ~(accepted /\ Configured)
    <2>1. mailed'.accepted = mailed.accepted
      BY <1>1, <1>3
    <2>2. outcome # "SENT"
      <3>1. CASE ~Configured
        BY <1>1, <3>1 DEF Reported
      <3>2. CASE Configured /\ ~accepted
        BY <1>1, <3>2 DEF Reported
      <3> QED
        BY <1>3, <3>1, <3>2
    <2> QED
      BY <2>1, <2>2
  <1> QED
    BY <1>2, <1>3

\* At the start there is no row, no transaction and no call.
LEMMA InitInv == Init => Inv
  BY DeliveryAssumption
  DEF Init, Inv, Shaped, SentMeansAccepted, OutcomesTrue, UncommittedTrue, Open, NoSweep

\* A transaction announces and commits or rolls back.
LEMMA ActionInv ==
    ASSUME NEW a \in Actions, Inv,
           \/ \E entries \in SUBSET Keys \ {{}} : RecordMany(a, entries)
           \/ \E k \in Keys : DeliverNow(a, k)
           \/ Commit(a) \/ RollBack(a)
    PROVE  Inv'
  <1> USE DEF Inv, Shaped, SentMeansAccepted, OutcomesTrue, UncommittedTrue
  <1>1. ASSUME NEW entries \in SUBSET Keys, RecordMany(a, entries) PROVE Inv'
    <2> DEFINE row == [entries |-> entries, inserted |-> {k \in entries : ~Inserted(k)},
                       status |-> "PENDING"]
    <2>1. /\ actions' = [actions EXCEPT ![a] = row]
          /\ UNCHANGED <<rows, announced, sweeps, mailed>>
      BY <1>1 DEF RecordMany, Writes
    <2> QED
      BY <2>1 DEF Open
  <1>2. ASSUME NEW k \in Keys, DeliverNow(a, k) PROVE Inv'
    <2>1. PICK outcome \in Outcomes : Mails(k, outcome) /\ Writes(a, {k}, outcome)
      BY <1>2 DEF DeliverNow
    <2> DEFINE row == [entries |-> {k}, inserted |-> {x \in {k} : ~Inserted(x)},
                       status |-> outcome]
    <2>2. actions' = [actions EXCEPT ![a] = row] /\ UNCHANGED <<rows, announced, sweeps>>
      BY <1>2, <2>1 DEF DeliverNow, Writes
    <2>3. /\ mailed.accepted \subseteq mailed'.accepted
          /\ outcome = "SENT" => k \in mailed'.accepted
      BY <2>1, MailIsReported
    <2> QED
      BY <2>2, <2>3 DEF Open
  <1>3. CASE Commit(a)
    BY <1>3 DEF Commit, Open
  <1>4. CASE RollBack(a)
    BY <1>4 DEF RollBack, Open
  <1> QED
    BY <1>1, <1>2, <1>3, <1>4

\* A call of the sweep reads, mails, saves or dies.
LEMMA SweepInv ==
    ASSUME NEW s \in Sweeps, Inv, SweepStarts(s) \/ Attempt(s) \/ Save(s) \/ Die(s)
    PROVE  Inv'
  <1> USE DeliveryAssumption DEF Inv, Shaped, SentMeansAccepted, OutcomesTrue, UncommittedTrue
  <1>1. CASE SweepStarts(s)
    <2>1. sweeps' = [sweeps EXCEPT ![s] = [batch |-> Batch, outcome |-> None]]
      <3>1. sweeps[s].batch = <<>> /\ sweeps[s].outcome = None
        BY <1>1 DEF SweepStarts, NoSweep
      <3>2. sweeps' = [sweeps EXCEPT ![s].batch = Batch]
        BY <1>1 DEF SweepStarts
      <3> HIDE DEF Shaped
      <3>3. sweeps[s] = [batch |-> sweeps[s].batch, outcome |-> None]
        BY <1>1 DEF SweepStarts, NoSweep
      <3>4. [sweeps[s] EXCEPT !.batch = Batch] = [batch |-> Batch, outcome |-> None]
        BY <3>3
      <3> QED
        BY <3>2, <3>4
    <2> QED
      BY <1>1, <2>1 DEF SweepStarts, Open
  <1>2. CASE Attempt(s)
    <2> DEFINE k == Head(sweeps[s].batch)
    <2>1. PICK outcome \in Outcomes :
            /\ Mails(k, outcome)
            /\ sweeps' = [sweeps EXCEPT ![s].outcome = outcome]
      BY <1>2 DEF Attempt
    <2>2. /\ mailed.accepted \subseteq mailed'.accepted
          /\ outcome = "SENT" => k \in mailed'.accepted
      BY <2>1, MailIsReported
    <2>3. sweeps' = [sweeps EXCEPT ![s] = [batch |-> sweeps[s].batch, outcome |-> outcome]]
      <3> HIDE DEF Shaped
      <3>1. sweeps[s] = [batch |-> sweeps[s].batch, outcome |-> sweeps[s].outcome]
        BY DEF Shaped
      <3>2. [sweeps[s] EXCEPT !.outcome = outcome] = [batch |-> sweeps[s].batch, outcome |-> outcome]
        BY <3>1
      <3> QED
        BY <2>1, <3>2
    <2> QED
      BY <1>2, <2>2, <2>3 DEF Attempt, Open
  <1>3. CASE Save(s)
    <2>1. /\ sweeps' = [sweeps EXCEPT ![s] = [batch |-> Tail(sweeps[s].batch), outcome |-> None]]
          /\ rows' = [rows EXCEPT ![Head(sweeps[s].batch)] = sweeps[s].outcome]
          /\ UNCHANGED <<actions, mailed>>
      BY <1>3 DEF Save, StatusAfter
    <2> QED
      BY <2>1 DEF Open
  <1>4. CASE Die(s)
    BY <1>4 DEF Die, NoSweep, Open
  <1> QED
    BY <1>1, <1>2, <1>3, <1>4

\* Every step keeps the invariant.
LEMMA NextInv == Inv /\ [Next]_vars => Inv'
  <1> SUFFICES ASSUME Inv, [Next]_vars PROVE Inv'
    OBVIOUS
  <1>1. CASE UNCHANGED vars
    BY <1>1 DEF vars, Inv, Shaped, SentMeansAccepted, OutcomesTrue, UncommittedTrue, Open
  <1> QED
    BY <1>1, ActionInv, SweepInv DEF Next

\* A row says SENT only of a mail that was accepted, however many calls of the
\* sweep overlap, die or save over one another (deliverPending, deliver).
THEOREM SentIsTrue == Spec => []SentMeansAccepted
  <1>1. Inv => SentMeansAccepted
    BY DEF Inv
  <1> QED
    BY InitInv, NextInv, <1>1, PTL DEF Spec
=============================================================================
