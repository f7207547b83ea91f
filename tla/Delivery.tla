------------------------------ MODULE Delivery ------------------------------
(***************************************************************************)
(* Notifications, from the transaction that records one to the mail it     *)
(* becomes: notifications/notification.service.ts, brevo.channel.ts and    *)
(* notification-sweep.controller.ts.                                       *)
(*                                                                         *)
(* A row is written in the transaction of the action it announces, under a *)
(* key made of the person, the type and the subject, so an action done     *)
(* twice finds its row there.  A scheduler calls the sweep, which mails    *)
(* what is PENDING row by row and outside any transaction: calls overlap,  *)
(* and a process may die between a mail and the row that says so.          *)
(***************************************************************************)
EXTENDS Naturals, Sequences, SequencesExt, FiniteSets

CONSTANTS
    Keys,       \* the (user_id, dedupe_key) pairs there may be
    Resets,     \* those of password resets, which are mailed at once
    Actions,    \* transactions that announce something
    Sweeps,     \* calls of the sweep that may overlap
    Limit,      \* DELIVERY_SWEEP_LIMIT
    Configured, \* whether there is a BREVO_API_KEY
    None

ASSUME DeliveryAssumption ==
    /\ IsFiniteSet(Keys)
    /\ Resets \subseteq Keys
    /\ Limit \in Nat \ {0}
    /\ Configured \in BOOLEAN
    /\ None \notin {"PENDING", "SENT", "FAILED", "SKIPPED"}

VARIABLES
    rows,      \* email_status of each committed row, None before there is one
    ids,       \* the keys of the rows inserted, in the order of their ids
    actions,   \* what each open transaction announces, and what it inserted
    announced, \* the keys of the actions that committed
    sweeps,    \* the rows each call has still to mail, and the outcome it holds
    mailed     \* history: "tried" and "accepted", the keys a mail was tried or taken for

vars == <<rows, ids, actions, announced, sweeps, mailed>>

Outcomes == {"SENT", "FAILED", "SKIPPED"}
NoSweep  == [batch |-> <<>>, outcome |-> None]

Open(a)     == actions[a] # None
Inserted(k) == k \in ToSet(ids)
-----------------------------------------------------------------------------
(***************************************************************************)
(* A mail.  It is accepted or not, and the answer is heard or not.         *)
(***************************************************************************)

\* Mutant: fetch resolves a 400 as readily as a 201, and nobody looks.
ReportedSent(accepted, heard) == IF ~Configured THEN "SKIPPED" ELSE IF heard THEN "SENT" ELSE "FAILED"

Reported(accepted, heard) ==
    IF ~Configured THEN "SKIPPED" ELSE IF accepted /\ heard THEN "SENT" ELSE "FAILED"

\* The mail for k leaves, with this outcome.
Mails(k, outcome) ==
    \E accepted, heard \in BOOLEAN :
        /\ outcome = Reported(accepted, heard)
        /\ mailed' = [tried    |-> mailed.tried \cup {k},
                      accepted |-> IF accepted /\ Configured THEN mailed.accepted \cup {k}
                                   ELSE mailed.accepted]
-----------------------------------------------------------------------------
(***************************************************************************)
(* Recording.  An insert of a key that another open transaction inserted   *)
(* waits for that transaction; ON CONFLICT DO NOTHING absorbs one that is  *)
(* there.                                                                  *)
(***************************************************************************)
Undecided(a, k) == \E b \in Actions \ {a} : Open(b) /\ k \in actions[b].inserted

Decided(a, entries) == \A k \in entries : ~Undecided(a, k)

Writes(a, entries, status) ==
    LET new == {k \in entries : ~Inserted(k)}
    IN  /\ actions' = [actions EXCEPT ![a] =
               [entries |-> entries, inserted |-> new, status |-> status]]
        /\ \E order \in SetToSeqs(new) : ids' = ids \o order

RecordMany(a, entries) ==
    /\ ~Open(a)
    /\ entries \cap Resets = {}
    /\ Decided(a, entries)
    /\ Writes(a, entries, "PENDING")
    /\ UNCHANGED <<rows, announced, sweeps, mailed>>

\* A reset's link is mailed before its row is written, and the row says how
\* that went.  Each request has a token row, and so a key, of its own.
DeliverNow(a, k) ==
    /\ ~Open(a)
    /\ k \in Resets
    /\ ~Inserted(k)
    /\ \E outcome \in Outcomes : Mails(k, outcome) /\ Writes(a, {k}, outcome)
    /\ UNCHANGED <<rows, announced, sweeps>>

Commit(a) ==
    /\ Open(a)
    /\ rows' = [k \in Keys |-> IF k \in actions[a].inserted THEN actions[a].status ELSE rows[k]]
    /\ announced' = announced \cup actions[a].entries
    /\ actions' = [actions EXCEPT ![a] = None]
    /\ UNCHANGED <<ids, sweeps, mailed>>

\* The action fails, and its notifications with it.
RollBack(a) ==
    /\ Open(a)
    /\ ids' = SelectSeq(ids, LAMBDA k : k \notin actions[a].inserted)
    /\ actions' = [actions EXCEPT ![a] = None]
    /\ UNCHANGED <<rows, announced, sweeps, mailed>>
-----------------------------------------------------------------------------
(***************************************************************************)
(* POST /internal/notification-sweep                                       *)
(***************************************************************************)
Pending == SelectSeq(ids, LAMBDA k : rows[k] = "PENDING")

Batch == SubSeq(Pending, 1, IF Len(Pending) < Limit THEN Len(Pending) ELSE Limit)

SweepStarts(s) ==
    /\ sweeps[s] = NoSweep
    /\ Pending # <<>>
    /\ sweeps' = [sweeps EXCEPT ![s].batch = Batch]
    /\ UNCHANGED <<rows, ids, actions, announced, mailed>>

\* The next mail.  A call that started earlier may have sent it already.
Attempt(s) ==
    /\ sweeps[s].batch # <<>>
    /\ sweeps[s].outcome = None
    /\ \E outcome \in Outcomes :
           /\ Mails(Head(sweeps[s].batch), outcome)
           /\ sweeps' = [sweeps EXCEPT ![s].outcome = outcome]
    /\ UNCHANGED <<rows, ids, actions, announced>>

\* Mutant: a mail that failed is left for the next sweep.
StatusRetried(outcome) == IF outcome = "FAILED" THEN "PENDING" ELSE outcome

StatusAfter(outcome) == outcome

Save(s) ==
    /\ sweeps[s].outcome # None
    /\ rows' = [rows EXCEPT ![Head(sweeps[s].batch)] = StatusAfter(sweeps[s].outcome)]
    /\ sweeps' = [sweeps EXCEPT ![s] = [batch |-> Tail(@.batch), outcome |-> None]]
    /\ UNCHANGED <<ids, actions, announced, mailed>>

\* The process dies, or the row cannot be written: the batch is abandoned.
Die(s) ==
    /\ sweeps[s] # NoSweep
    /\ sweeps' = [sweeps EXCEPT ![s] = NoSweep]
    /\ UNCHANGED <<rows, ids, actions, announced, mailed>>
-----------------------------------------------------------------------------
Init ==
    /\ rows = [k \in Keys |-> None]
    /\ ids = <<>>
    /\ actions = [a \in Actions |-> None]
    /\ announced = {}
    /\ sweeps = [s \in Sweeps |-> NoSweep]
    /\ mailed = [tried |-> {}, accepted |-> {}]

Next ==
    \/ \E a \in Actions :
           \/ \E entries \in SUBSET Keys \ {{}} : RecordMany(a, entries)
           \/ \E k \in Keys : DeliverNow(a, k)
           \/ Commit(a) \/ RollBack(a)
    \/ \E s \in Sweeps : SweepStarts(s) \/ Attempt(s) \/ Save(s) \/ Die(s)

Spec == Init /\ [][Next]_vars

\* The scheduler keeps calling, and not every call dies at the same point.
FairSpec ==
    /\ Spec
    /\ WF_vars(\E s \in Sweeps : SweepStarts(s))
    /\ SF_vars(\E s \in Sweeps : Attempt(s))
    /\ SF_vars(\E s \in Sweeps : Save(s))
-----------------------------------------------------------------------------
\* A row says SENT only of a mail that was accepted, whichever calls overlap
\* and in whatever order they save (brevo.channel.ts, deliver).
SentMeansAccepted == \A k \in Keys : rows[k] = "SENT" => k \in mailed.accepted

\* An action that committed is mailed and its row settled, whatever rolls back
\* beside it under the same key, however often a sweep dies between a mail and
\* its row, and however many mails before it fail (deliverPending's comment).
EverythingAnnouncedIsMailed ==
    \A k \in Keys :
        k \in announced ~> (k \in mailed.tried /\ rows[k] \in Outcomes)
=============================================================================
