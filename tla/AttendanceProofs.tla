-------------------------- MODULE AttendanceProofs --------------------------
(***************************************************************************)
(* What holds of attendance and certificates for every number of people,   *)
(* requests and rows: one valid certificate per registration, a record     *)
(* behind everyone who counts as present, a seat behind every record, and  *)
(* a notice behind every change to a certificate.                          *)
(***************************************************************************)
EXTENDS Attendance, RegistrationsProofs

\* What two open runs have inserted is for different registrations, none of
\* which has a valid certificate.
InsertsApart ==
  /\ \A p \in Clients, c \in CertsWith(certs, "ACTIVE") : certs[c].reg \notin run[p].mine
  /\ \A p, q \in Clients : p # q => run[p].mine \intersect run[q].mine = {}

OneActiveInv ==
  /\ run \in [Clients -> IssueRun]
  /\ OneActivePerRegistration
  /\ InsertsApart

\* No run is open when it has ended.
LEMMA NoRunType == NoRun \in IssueRun
  BY StatusNames DEF NoRun, IssueRun

\* Reading what is pending keeps a run a run.
LEMMA NextRun ==
  ASSUME NEW old \in IssueRun, NEW rows \in SUBSET Regs, NEW n \in Nat,
         NEW s \in {"finish", "insert"}
  PROVE  [old EXCEPT !.pending = rows, !.attempt = n, !.step = s] \in IssueRun
  BY DEF IssueRun

\* Ending or abandoning a request, or leaving certificates alone, is safe.
LEMMA RunsShrink ==
  ASSUME OneActiveInv, UNCHANGED certs,
         run' \in [Clients -> IssueRun],
         \A p \in Clients : run'[p].mine \subseteq run[p].mine
  PROVE  OneActiveInv'
  BY DEF OneActiveInv, OneActivePerRegistration, InsertsApart, CertsWith

\* One request's run ends.
LEMMA RunEnds ==
  ASSUME OneActiveInv, NEW p \in Procs, run' = [run EXCEPT ![p] = NoRun]
  PROVE  /\ run' \in [Clients -> IssueRun]
         /\ \A q \in Clients : run'[q] = IF q = p THEN NoRun ELSE run[q]
         /\ \A q \in Clients : run'[q].mine \subseteq run[q].mine
  BY NoRunType DEF OneActiveInv, NoRun

\* Withdrawing validity from some certificates is safe.
LEMMA RevocationSafe ==
  ASSUME OneActiveInv, NEW gone, certs' = Revoked(gone),
         run' \in [Clients -> IssueRun],
         \A p \in Clients : run'[p].mine \subseteq run[p].mine
  PROVE  OneActiveInv'
  <1>1. \A c \in CertsWith(certs', "ACTIVE") :
          c \in CertsWith(certs, "ACTIVE") /\ certs'[c] = certs[c]
    BY DEF CertsWith, Revoked
  <1>2. OneActivePerRegistration'
    BY <1>1 DEF OneActiveInv, OneActivePerRegistration
  <1>3. InsertsApart'
    BY <1>1 DEF OneActiveInv, InsertsApart
  <1> QED BY <1>2, <1>3 DEF OneActiveInv

\* An insert keeps clear of what is valid and of what other runs inserted.
LEMMA InsertSafe ==
  ASSUME OneActiveInv, NEW p \in Procs, IssueInsert(p)
  PROVE  OneActiveInv'
  <1>1. p \in Clients /\ run[p] \in IssueRun /\ UNCHANGED certs
    BY DEF IssueInsert, Issuing, GoOn, certVars, OneActiveInv
  <1>2. PICK state : /\ state \in IssueRun
                     /\ state.mine = run[p].mine \union Insertable(p)
                     /\ run' = [run EXCEPT ![p] = state]
    <2> DEFINE next == [run[p] EXCEPT
               !.mine = @ \union Insertable(p),
               !.step = IF Insertable(p) = run[p].pending \/ run[p].attempt = InsertAttempts
                        THEN "finish" ELSE "pending"]
    <2>1. run' = [run EXCEPT ![p] = next]
      BY DEF IssueInsert, GoOn
    <2>2. next \in IssueRun /\ next.mine = run[p].mine \union Insertable(p)
      BY <1>1 DEF IssueRun, Insertable
    <2> QED BY <2>1, <2>2
  <1>3. run' \in [Clients -> IssueRun]
    BY <1>1, <1>2 DEF OneActiveInv
  <1>4. /\ run'[p].mine = run[p].mine \union Insertable(p)
        /\ \A q \in Clients \ {p} : run'[q] = run[q]
    BY <1>1, <1>2 DEF OneActiveInv
  <1>5. \A c \in CertsWith(certs, "ACTIVE") : certs[c].reg \notin Insertable(p)
    BY DEF Insertable, ActiveOf
  <1>6. \A q \in Clients : run[q].mine \intersect Insertable(p) = {}
    BY DEF IssueInsert, IndexFree, Insertable
  <1>7. InsertsApart'
    BY <1>1, <1>4, <1>5, <1>6 DEF OneActiveInv, InsertsApart, CertsWith
  <1> QED BY <1>1, <1>3, <1>7 DEF OneActiveInv, OneActivePerRegistration, CertsWith

\* A run's commit makes its certificates valid, one per registration.
LEMMA FinishSafe ==
  ASSUME OneActiveInv, NEW p \in Procs, IssueFinish(p)
  PROVE  OneActiveInv'
  <1>1. p \in Clients /\ run' = [run EXCEPT ![p] = NoRun]
    BY DEF IssueFinish, Issuing, EndDesk
  <1>2. PICK id \in [run[p].mine -> UnusedCerts] :
          /\ \A r, s \in run[p].mine : id[r] = id[s] => r = s
          /\ certs' = [c \in Certs |->
               IF \E r \in run[p].mine : id[r] = c
               THEN [reg |-> CHOOSE r \in run[p].mine : id[r] = c, status |-> "ACTIVE"]
               ELSE certs[c]]
    BY DEF IssueFinish
  <1>3. /\ run' \in [Clients -> IssueRun]
        /\ \A q \in Clients : run'[q] = IF q = p THEN NoRun ELSE run[q]
    BY <1>1, RunEnds
  <1>4. \A c \in CertsWith(certs', "ACTIVE") :
          \/ certs'[c].reg \in run[p].mine /\ id[certs'[c].reg] = c
          \/ c \in CertsWith(certs, "ACTIVE") /\ certs'[c] = certs[c]
    BY <1>2 DEF CertsWith
  <1>5. OneActivePerRegistration'
    <2> SUFFICES ASSUME NEW c \in CertsWith(certs', "ACTIVE"), NEW d \in CertsWith(certs', "ACTIVE"),
                        certs'[c].reg = certs'[d].reg
                 PROVE  c = d
      BY DEF OneActivePerRegistration
    <2> QED BY <1>1, <1>4 DEF OneActiveInv, OneActivePerRegistration, InsertsApart
  <1>6. InsertsApart'
    BY <1>1, <1>3, <1>4 DEF OneActiveInv, InsertsApart, NoRun
  <1> QED BY <1>3, <1>5, <1>6 DEF OneActiveInv

\* A reissue's new certificate is the only valid one of its registration.
LEMMA ReissueSafe ==
  ASSUME OneActiveInv, NEW p \in Procs, ReissueWrite(p)
  PROVE  OneActiveInv'
  <1> DEFINE old == desk[p].cert
             for == certs[old].reg
  <1>1. PICK c \in UnusedCerts :
          certs' = [Revoked({old}) EXCEPT ![c] = [reg |-> for, status |-> "ACTIVE"]]
    BY DEF ReissueWrite
  <1>2. run' = [run EXCEPT ![p] = NoRun]
    BY DEF ReissueWrite, EndDesk
  <1>3. /\ run' \in [Clients -> IssueRun]
        /\ \A q \in Clients : run'[q].mine \subseteq run[q].mine
    BY <1>2, RunEnds
  <1>4. \A d \in CertsWith(certs', "ACTIVE") :
          \/ d = c /\ certs'[d].reg = for
          \/ d # c /\ d # old /\ d \in CertsWith(certs, "ACTIVE") /\ certs'[d] = certs[d]
    BY <1>1 DEF CertsWith, Revoked, UnusedCerts
  <1>5. \A d \in CertsWith(certs, "ACTIVE") : certs[d].reg = for => d = old
    BY DEF ReissueWrite, Replaceable, ActiveOf
  <1>6. \A q \in Clients : for \notin run[q].mine
    BY DEF ReissueWrite, IndexFree
  <1>7. OneActivePerRegistration'
    BY <1>4, <1>5 DEF OneActiveInv, OneActivePerRegistration
  <1>8. InsertsApart'
    BY <1>3, <1>4, <1>6 DEF OneActiveInv, InsertsApart
  <1> QED BY <1>3, <1>7, <1>8 DEF OneActiveInv

\* The other certificate requests.
LEMMA CertificateStepSafe ==
  ASSUME OneActiveInv, NEW p \in Procs, CertificateStep(p)
  PROVE  OneActiveInv'
  <1>1. CASE IssueRead(p)
    <2>1. [NoRun EXCEPT !.step = "pending", !.status = event.status] \in IssueRun
      BY <1>1, NoRunType, StatusNames DEF IssueRead, IssueRun
    <2>2. /\ run' \in [Clients -> IssueRun]
          /\ \A q \in Clients : run'[q].mine \subseteq run[q].mine
      BY <1>1, <2>1 DEF IssueRead, OneActiveInv, NoRun
    <2> QED BY <1>1, <2>2, RunsShrink DEF IssueRead, Begin, certVars
  <1>2. CASE IssuePending(p)
    <2>1. p \in Clients /\ run[p] \in IssueRun
      BY <1>2 DEF IssuePending, Issuing, OneActiveInv
    <2>2. [run[p] EXCEPT !.pending = Pending(p), !.attempt = @ + 1,
                         !.step = IF Pending(p) = {} THEN "finish" ELSE "insert"] \in IssueRun
      <3> DEFINE next == IF Pending(p) = {} THEN "finish" ELSE "insert"
      <3>1. Pending(p) \in SUBSET Regs /\ next \in {"finish", "insert"}
        BY DEF Pending
      <3>2. run[p].attempt + 1 \in Nat
        BY <2>1 DEF IssueRun
      <3> HIDE DEF next
      <3> QED BY <2>1, <3>1, <3>2, NextRun DEF next
    <2>3. /\ run' \in [Clients -> IssueRun]
          /\ \A q \in Clients : run'[q].mine \subseteq run[q].mine
      BY <1>2, <2>1, <2>2 DEF IssuePending, GoOn, OneActiveInv, IssueRun
    <2> QED BY <1>2, <2>3, RunsShrink DEF IssuePending, GoOn, certVars
  <1>3. CASE IssueInsert(p)
    BY <1>3, InsertSafe
  <1>4. CASE IssueFinish(p)
    BY <1>4, FinishSafe
  <1>5. CASE RevokeRead(p) \/ ReissueRead(p)
    <2>1. UNCHANGED <<certs, run>>
      BY <1>5 DEF RevokeRead, ReissueRead, LoadActive, Begin, certVars
    <2> QED BY <2>1, RunsShrink DEF OneActiveInv
  <1>6. CASE RevokeWrite(p)
    BY <1>6, RunEnds, RevocationSafe DEF RevokeWrite, EndDesk
  <1>7. CASE ReissueWrite(p)
    BY <1>7, ReissueSafe
  <1>8. CASE ReissueConflict(p)
    BY <1>8, RunEnds, RunsShrink DEF ReissueConflict, EndDesk, certVars
  <1> QED BY <1>1, <1>2, <1>3, <1>4, <1>5, <1>6, <1>7, <1>8 DEF CertificateStep

\* Attendance touches certificates only to revoke them.
LEMMA DeskStepSafe ==
  ASSUME OneActiveInv, NEW p \in Procs, CheckInStep(p) \/ CorrectStep(p)
  PROVE  OneActiveInv'
  <1>1. \/ UNCHANGED <<certs, run>>
        \/ /\ run' = [run EXCEPT ![p] = NoRun]
           /\ UNCHANGED certs \/ \E gone : certs' = Revoked(gone)
    <2>1. CASE CheckInStep(p)
      BY <2>1 DEF CheckInStep, CheckInRead, CheckInRefused, CheckInWrite, CheckInAlready,
                  Reading, LeaveDesk, CommitAtDesk, EndDesk, certVars
    <2>2. CASE CorrectStep(p)
      BY <2>2 DEF CorrectStep, CorrectRead, CorrectRefused, CorrectReadEvent, CorrectLocked,
                  CorrectPresent, CorrectAbsent, CorrectAbsentFails,
                  Reading, LeaveDesk, CommitAtDesk, EndDesk, certVars
    <2> QED BY <2>1, <2>2
  <1> QED BY <1>1, RunEnds, RunsShrink, RevocationSafe DEF OneActiveInv

\* However many runs, reissues and corrections overlap, a registration never
\* has two valid certificates.
THEOREM OneValidCertificate == AttendanceSpec => []OneActivePerRegistration
  <1>1. AttendanceInit => OneActiveInv
    BY NoRunType DEF AttendanceInit, NothingIssued, OneActiveInv, OneActivePerRegistration,
       InsertsApart, CertsWith, NoCert, NoRun
  <1>2. OneActiveInv /\ [AttendanceNext]_allVars => OneActiveInv'
    <2> SUFFICES ASSUME OneActiveInv, [AttendanceNext]_allVars PROVE OneActiveInv'
      OBVIOUS
    <2>1. CASE UNCHANGED <<certVars, deskVars>>
      BY <2>1, RunsShrink DEF certVars, deskVars, OneActiveInv
    <2>2. ASSUME NEW p \in Procs, RegistrationStep(p) PROVE OneActiveInv'
      <3>1. /\ run' \in [Clients -> IssueRun]
            /\ \A q \in Clients : run'[q].mine \subseteq run[q].mine
        BY <2>2, NoRunType DEF RegistrationStep, OneActiveInv, NoRun
      <3> QED BY <2>2, <3>1, RunsShrink DEF RegistrationStep, certVars
    <2>3. ASSUME NEW p \in Procs, DeskStep(p) PROVE OneActiveInv'
      BY <2>3, CertificateStepSafe, DeskStepSafe DEF DeskStep
    <2> QED BY <2>1, <2>2, <2>3 DEF AttendanceNext, allVars
  <1>3. OneActiveInv => OneActivePerRegistration
    BY DEF OneActiveInv
  <1> QED BY <1>1, <1>2, <1>3, PTL DEF AttendanceSpec
-----------------------------------------------------------------------------
(***************************************************************************)
(* What registration does to one row.  Nothing here supposes that what the *)
(* request read under the lock is still so: desks write around the lock.   *)
(***************************************************************************)

\* Either it leaves the row's status alone, or it marks a no-show, gives out an
\* unused row, withdraws what was open when the lock was taken, or promotes.
RowMoves(p, r) ==
  \/ reg'[r].status = reg[r].status /\ reg'[r].user = reg[r].user
  \/ reg[r].status = "CONFIRMED" /\ reg'[r].status = "NO_SHOW" /\ reg'[r].user = reg[r].user
  \/ /\ reg[r].status = "NONE" /\ reg'[r].user \in Users
     /\ \/ reg'[r].status = "WAITLISTED"
        \/ reg'[r].status = "CONFIRMED" /\ <<"registration.confirmed", r>> \in notices'
  \/ /\ pc[p] = "locked" /\ locked[p].rows[r].status \in {"CONFIRMED", "WAITLISTED"}
     /\ reg'[r].status = "CANCELLED" /\ reg'[r].user = reg[r].user
  \/ /\ reg[r].status = "WAITLISTED" /\ reg'[r].status = "CONFIRMED" /\ reg'[r].user = reg[r].user
     /\ <<"registration.promoted", r>> \in notices'

\* A transaction that promotes moves rows so, whichever rows it starts from.
LEMMA PromotionMoves ==
  ASSUME NEW p \in Procs, NEW rows \in [Regs -> RegRow], NEW chosen \in SUBSET Waiting,
         NEW e, Store(e, Promoted(rows, chosen), PromotionNotices(chosen)),
         \A r \in Regs : \/ rows[r] = reg[r]
                         \/ /\ pc[p] = "locked" /\ locked[p].rows[r].status \in {"CONFIRMED", "WAITLISTED"}
                            /\ rows[r].status = "CANCELLED"
                            /\ rows[r].user = reg[r].user
  PROVE  notices \subseteq notices' /\ \A r \in Regs : RowMoves(p, r)
  <1>1. CASE UNCHANGED <<reg, notices>>
    BY <1>1 DEF RowMoves
  <1>2. CASE reg' = Promoted(rows, chosen) /\ notices' = notices \union PromotionNotices(chosen)
    <2> SUFFICES ASSUME NEW r \in Regs PROVE RowMoves(p, r)
      BY <1>2
    <2>1. /\ reg'[r].status = IF r \in chosen THEN "CONFIRMED" ELSE rows[r].status
          /\ reg'[r].user = rows[r].user
      BY <1>2, PromotedRows
    <2>2. CASE r \in chosen
      <3>1. reg[r].status = "WAITLISTED" /\ <<"registration.promoted", r>> \in notices'
        BY <1>2, <2>2 DEF Waiting, WithStatus, PromotionNotices
      <3>2. rows[r].user = reg[r].user
        OBVIOUS
      <3> QED BY <2>1, <2>2, <3>1, <3>2 DEF RowMoves
    <2>3. CASE r \notin chosen
      BY <2>1, <2>3 DEF RowMoves
    <2> QED BY <2>2, <2>3
  <1> QED BY <1>1, <1>2 DEF Store

\* A newcomer's transaction gives out a row nobody had.
LEMMA NewcomerMoves ==
  ASSUME DataTypeOK, NEW p \in Procs, NEW r \in Unused, NEW u \in Users, NEW s, NEW n, NEW kind, NEW e,
         Store(e, [reg EXCEPT ![r] = [user |-> u, status |-> s, position |-> n]], {<<kind, r>>}),
         \/ s = "WAITLISTED"
         \/ s = "CONFIRMED" /\ kind = "registration.confirmed"
  PROVE  notices \subseteq notices' /\ \A q \in Regs : RowMoves(p, q)
  <1>1. r \in Regs /\ reg[r].status = "NONE"
    BY DEF Unused, WithStatus
  <1>2. CASE UNCHANGED <<reg, notices>>
    BY <1>2 DEF RowMoves
  <1>3. CASE /\ reg' = [reg EXCEPT ![r] = [user |-> u, status |-> s, position |-> n]]
             /\ notices' = notices \union {<<kind, r>>}
    <2>1. \A q \in Regs : reg'[q] = IF q = r THEN [user |-> u, status |-> s, position |-> n] ELSE reg[q]
      BY <1>1, <1>3 DEF DataTypeOK
    <2> QED BY <1>1, <1>3, <2>1 DEF RowMoves
  <1> QED BY <1>2, <1>3 DEF Store

\* So does every step of a request for a place, and no notice is ever taken back.
LEMMA StepMovesRows ==
  ASSUME TypeOK, NEW p \in Procs, Step(p)
  PROVE  notices \subseteq notices' /\ \A r \in Regs : RowMoves(p, r)
  <1>1. CASE UNCHANGED <<reg, notices>>
    BY <1>1 DEF RowMoves
  <1>2. CASE AdvanceWalk(p)
    <2>1. Store([event EXCEPT !.status = DueFor(p)], NoShows(DueFor(p)), {})
      BY <1>2 DEF AdvanceWalk
    <2>2. CASE reg' = NoShows(DueFor(p)) /\ notices' = notices
      BY <2>2, NoShowsRows DEF RowMoves, TypeOK
    <2> QED BY <1>1, <2>1, <2>2 DEF Store
  <1>3. CASE RegisterConfirmed(p)
    <2>1. PICK r \in Unused :
            Store([event EXCEPT !.confirmedCount = @ + 1],
                  [reg EXCEPT ![r] = [user |-> req[p].user, status |-> "CONFIRMED", position |-> 0]],
                  {<<"registration.confirmed", r>>})
      BY <1>3 DEF RegisterConfirmed
    <2>2. req[p].user \in Users
      BY <1>3 DEF RegisterConfirmed, Holds, Registering, OfUser, Requests, CertificateOps,
                  TypeOK, RequestTypeOK
    <2> QED BY <2>1, <2>2, NewcomerMoves DEF TypeOK
  <1>4. CASE RegisterWaitlisted(p)
    <2>1. PICK r \in Unused :
            Store(event,
                  [reg EXCEPT ![r] = [user |-> req[p].user, status |-> "WAITLISTED",
                                      position |-> NextWaitlistPosition]],
                  {<<"registration.waitlisted", r>>})
      BY <1>4 DEF RegisterWaitlisted
    <2>2. req[p].user \in Users
      BY <1>4 DEF RegisterWaitlisted, Holds, Registering, OfUser, Requests, CertificateOps,
                  TypeOK, RequestTypeOK
    <2> QED BY <2>1, <2>2, NewcomerMoves DEF TypeOK
  <1>5. CASE CancelSeat(p) \/ CancelWaitlisted(p)
    <2>1. pc[p] = "locked"
      BY <1>5 DEF CancelSeat, CancelWaitlisted, Holds
    <2>2. \A r \in Withdrawable(p) :
            r \in Regs /\ locked[p].rows[r].status \in {"CONFIRMED", "WAITLISTED"}
      BY DEF Withdrawable, OpenOf
    <2>3. CASE CancelSeat(p)
      <3> DEFINE seats == IF locked[p].event.status = "CANCELLED" THEN 0 ELSE 1
      <3>1. PICK r \in Withdrawable(p), chosen \in Promotable(seats) :
              Store([event EXCEPT !.confirmedCount = (@ - 1) + Cardinality(chosen)],
                    Promoted(Cancelled(r), chosen), PromotionNotices(chosen))
        BY <2>3 DEF CancelSeat
      <3>2. chosen \subseteq Waiting
        BY PromotableBound
      <3>3. /\ Cancelled(r) \in [Regs -> RegRow]
            /\ \A q \in Regs : \/ Cancelled(r)[q] = reg[q]
                               \/ /\ q = r
                                  /\ Cancelled(r)[q].status = "CANCELLED"
                                  /\ Cancelled(r)[q].user = reg[q].user
        BY <2>2, CancelledRows DEF Cancelled, TypeOK, DataTypeOK
      <3>4. \A q \in Regs : \/ Cancelled(r)[q] = reg[q]
                            \/ /\ pc[p] = "locked" /\ locked[p].rows[q].status \in {"CONFIRMED", "WAITLISTED"}
                               /\ Cancelled(r)[q].status = "CANCELLED"
                               /\ Cancelled(r)[q].user = reg[q].user
        BY <2>1, <2>2, <3>3
      <3> QED BY <3>1, <3>2, <3>3, <3>4, PromotionMoves
    <2>4. CASE CancelWaitlisted(p)
      <3>1. PICK r \in Withdrawable(p) : Store(event, Cancelled(r), {})
        BY <2>4 DEF CancelWaitlisted
      <3>2. CASE reg' = Cancelled(r) /\ notices' = notices
        BY <2>1, <2>2, <3>2, CancelledRows DEF RowMoves, TypeOK
      <3> QED BY <1>1, <3>1, <3>2 DEF Store
    <2> QED BY <1>5, <2>3, <2>4
  <1>6. CASE Update(p)
    <2>1. PICK chosen \in Promotable(Headroom(p)) :
            Store([Merged(p) EXCEPT !.confirmedCount = @ + Cardinality(chosen)],
                  Promoted(reg, chosen), PromotionNotices(chosen))
      BY <1>6 DEF Update
    <2>2. Headroom(p) \in Int
      BY <1>6, HeadroomType DEF Update
    <2>3. chosen \subseteq Waiting
      BY <2>2, PromotableBound
    <2> QED BY <2>1, <2>3, PromotionMoves DEF TypeOK, DataTypeOK
  <1>7. CASE PublishWrite(p)
    BY <1>7 DEF PublishWrite, Store, RowMoves
  <1>8. CASE CancelEventWrite(p)
    BY <1>8 DEF CancelEventWrite, Store, RowMoves
  <1>9. CASE \/ Arrive(p) \/ SweepScan(p) \/ PublishRead(p) \/ CancelEventRead(p)
             \/ AdvanceRead(p) \/ AdvanceReread(p) \/ AdvanceBeaten(p) \/ LockEvent(p)
             \/ RegisterUnchanged(p) \/ CancelRefused(p) \/ UpdateRefused(p) \/ Die(p)
    BY <1>1, <1>9 DEF Arrive, SweepScan, PublishRead, CancelEventRead, ReadThenWrite, AdvanceRead,
       AdvanceReread, AdvanceBeaten, LockEvent, RegisterUnchanged, CancelRefused, UpdateRefused, Die,
       dataVars
  <1> QED BY <1>2, <1>3, <1>4, <1>5, <1>6, <1>7, <1>8, <1>9
       DEF Step, Continue, Advance, Register, Cancel, Patch, StatusWrite
-----------------------------------------------------------------------------
(***************************************************************************)
(* Types.  What a request at the desk has read is of the kind its          *)
(* operation reads, and a certificate that was read exists for ever.       *)
(***************************************************************************)
CorrectionReads == [step: {"row"}] \union [step: {"write"}, live: BOOLEAN, recorded: BOOLEAN]

RowsInUse ==
  /\ \A r \in Regs : reg[r].status # "NONE" => reg[r].user \in Users
  /\ \A p \in Procs : pc[p] = "locked" =>
       \A r \in Regs : locked[p].rows[r].status # "NONE" => reg[r].status # "NONE"

\* For request p.
ReadFits(p) ==
  /\ req[p].op = "checkIn" /\ desk[p] # None =>
       desk[p] \in [reg: Regs] /\ reg[desk[p].reg].status # "NONE"
  /\ req[p].op = "correct" /\ desk[p] # None =>
       desk[p] \in CorrectionReads /\ reg[req[p].reg].status # "NONE"
  /\ req[p].op \in {"revoke", "reissue"} =>
       desk[p] \in [cert: Certs] /\ certs[desk[p].cert].status # "NONE"

DeskInOrder ==
  /\ AttendanceTypeOK
  /\ RowsInUse
  /\ \A p \in Procs : pc[p] = "desk" => ReadFits(p)

\* A request that is served under the event row, or only advances the event, is
\* not at the desk: the one thing that can still happen to one that is, is to die.
LEMMA OnlyDeathLeavesTheDesk ==
  ASSUME TypeOK, NEW p \in Procs, Step(p), pc[p] = "desk"
  PROVE  pc'[p] = "idle"
  <1>1. Die(p)
    BY DEF Step, Continue, Arrive, SweepScan, PublishRead, CancelEventRead, ReadThenWrite, Advance,
           AdvanceRead, AdvanceReread, AdvanceWalk, AdvanceBeaten, LockEvent, Register,
           RegisterConfirmed, RegisterWaitlisted, RegisterUnchanged, Cancel, CancelSeat,
           CancelWaitlisted, CancelRefused, Patch, Update, UpdateRefused, Holds, StatusWrite,
           PublishWrite, CancelEventWrite
  <1> QED BY <1>1 DEF Die, Finish, TypeOK, RequestTypeOK

\* A step of one request changes nothing another request knows or waits for.
LEMMA OthersUntouched ==
  ASSUME TypeOK, NEW p \in Procs, Step(p)
  PROVE  \A q \in Procs \ {p} : pc'[q] = pc[q] /\ req'[q] = req[q] /\ locked'[q] = locked[q]
  <1> USE DEF TypeOK, RequestTypeOK
  <1>1. CASE Arrive(p) \/ SweepScan(p) \/ PublishRead(p) \/ CancelEventRead(p)
    BY <1>1 DEF Arrive, SweepScan, PublishRead, CancelEventRead, ReadThenWrite
  <1>2. CASE Advance(p)
    BY <1>2 DEF Advance, AdvanceRead, AdvanceReread, AdvanceWalk, AdvanceBeaten, Proceed, Finish, GoTo
  <1>3. CASE LockEvent(p)
    BY <1>3 DEF LockEvent
  <1>4. CASE Register(p) \/ Cancel(p) \/ Patch(p)
    <2>1. EndTransaction(p)
      BY <1>4 DEF Register, RegisterConfirmed, RegisterWaitlisted, RegisterUnchanged, Cancel,
                  CancelSeat, CancelWaitlisted, CancelRefused, Patch, Update, UpdateRefused
    <2> QED BY <2>1 DEF EndTransaction, Finish
  <1>5. CASE StatusWrite(p)
    BY <1>5 DEF StatusWrite, PublishWrite, CancelEventWrite, Finish
  <1>6. CASE Die(p)
    BY <1>6 DEF Die, Finish
  <1> QED BY <1>1, <1>2, <1>3, <1>4, <1>5, <1>6 DEF Step, Continue

\* A request that holds the row now took it in this very step, unless it is
\* another's step.
LEMMA LockedByLocking ==
  ASSUME TypeOK, NEW p \in Procs, Step(p), pc'[p] = "locked"
  PROVE  UNCHANGED reg /\ locked'[p].rows = reg
  <1> USE DEF TypeOK, RequestTypeOK
  <1>1. CASE Arrive(p) \/ SweepScan(p) \/ PublishRead(p) \/ CancelEventRead(p)
    BY <1>1 DEF Arrive, SweepScan, PublishRead, CancelEventRead, ReadThenWrite
  <1>2. CASE Advance(p)
    BY <1>2 DEF Advance, AdvanceRead, AdvanceReread, AdvanceWalk, AdvanceBeaten, Proceed, Finish,
                GoTo, AfterAdvance
  <1>3. CASE LockEvent(p)
    BY <1>3 DEF LockEvent, dataVars
  <1>4. CASE Register(p) \/ Cancel(p) \/ Patch(p)
    <2>1. EndTransaction(p)
      BY <1>4 DEF Register, RegisterConfirmed, RegisterWaitlisted, RegisterUnchanged, Cancel,
                  CancelSeat, CancelWaitlisted, CancelRefused, Patch, Update, UpdateRefused
    <2> QED BY <2>1 DEF EndTransaction, Finish
  <1>5. CASE StatusWrite(p)
    BY <1>5 DEF StatusWrite, PublishWrite, CancelEventWrite, Finish
  <1>6. CASE Die(p)
    BY <1>6 DEF Die, Finish
  <1> QED BY <1>1, <1>2, <1>3, <1>4, <1>5, <1>6 DEF Step, Continue

\* Rows and certificates are kept for ever, withdrawn or revoked or not.
RowsRemain == \A r \in Regs : reg[r].status # "NONE" => reg'[r].status # "NONE"
CertificatesRemain == \A c \in Certs : certs[c].status # "NONE" => certs'[c].status # "NONE"

\* So what a request has read stays fit to be used while others go about theirs.
LEMMA ReadKept ==
  ASSUME TypeOK, RowsRemain, CertificatesRemain, NEW q \in Procs, pc[q] = "desk", ReadFits(q),
         req'[q] = req[q], desk'[q] = desk[q]
  PROVE  ReadFits(q)'
  <1>1. req[q].op = "correct" => req[q].reg \in Regs
    BY DEF TypeOK, RequestTypeOK, Requests, OfUser, Registering, CertificateOps
  <1> QED BY <1>1 DEF ReadFits, RowsRemain, CertificatesRemain

\* A registration's step writes to rows that are in use, and puts new ones to use.
LEMMA StepRowsInUse ==
  ASSUME TypeOK, RowsInUse, NEW p \in Procs, Step(p)
  PROVE  RowsRemain /\ RowsInUse'
  <1>1. RowsRemain
    BY StepMovesRows DEF RowMoves, RowsRemain
  <1>2. \A r \in Regs : reg'[r].status # "NONE" => reg'[r].user \in Users
    <2> SUFFICES ASSUME NEW r \in Regs, reg'[r].status # "NONE" PROVE reg'[r].user \in Users
      OBVIOUS
    <2> QED BY StepMovesRows DEF RowMoves, RowsInUse
  <1>3. ASSUME NEW q \in Procs, pc'[q] = "locked", NEW r \in Regs, locked'[q].rows[r].status # "NONE"
        PROVE  reg'[r].status # "NONE"
    <2>1. CASE q = p
      BY <1>3, <2>1, LockedByLocking
    <2>2. CASE q # p
      BY <1>1, <1>3, <2>2, OthersUntouched DEF RowsInUse, RowsRemain
    <2> QED BY <2>1, <2>2
  <1> QED BY <1>1, <1>2, <1>3 DEF RowsInUse

\* A registration's step keeps the desk in order.
LEMMA RegistrationStepDesk ==
  ASSUME DeskInOrder, NEW p \in Procs, RegistrationStep(p)
  PROVE  DeskInOrder'
  <1> USE DEF DeskInOrder, AttendanceTypeOK
  <1>1. Step(p) /\ UNCHANGED <<certs, certNotices, records>>
    BY DEF RegistrationStep, certVars
  <1>2. TypeOK'
    BY <1>1, NextType DEF Next
  <1>3. \A q \in Procs : desk'[q] = IF q = p /\ pc'[p] = "idle" THEN None ELSE desk[q]
    BY DEF RegistrationStep
  <1>4. desk' \in [Procs -> DeskReads \union {None}]
    BY DEF RegistrationStep
  <1>5. \A q \in Procs : pc'[q] # "desk" => desk'[q] = None
    BY <1>1, <1>3, OnlyDeathLeavesTheDesk, OthersUntouched
  <1>6. run' \in [Clients -> IssueRun]
    BY NoRunType DEF RegistrationStep, CertificatesTypeOK
  <1>7. AttendanceTypeOK'
    BY <1>1, <1>2, <1>4, <1>5, <1>6 DEF CertificatesTypeOK
  <1>8. RowsRemain /\ RowsInUse'
    BY <1>1, StepRowsInUse
  <1>9. ASSUME NEW q \in Procs, pc'[q] = "desk" PROVE ReadFits(q)'
    <2>1. CASE q # p
      <3>1. pc[q] = "desk" /\ req'[q] = req[q] /\ desk'[q] = desk[q]
        BY <1>1, <1>3, <1>9, <2>1, OthersUntouched
      <3> QED BY <1>1, <1>8, <3>1, ReadKept DEF CertificatesRemain
    <2>2. CASE q = p
      <3>1. pc[p] # "desk"
        BY <1>1, <1>9, <2>2, OnlyDeathLeavesTheDesk
      <3>2. desk'[p] = None
        BY <1>3, <3>1
      <3>3. req'[p].op \notin {"revoke", "reissue"}
        <4>1. Proceed(p, event.status) \/ Proceed(p, DueFor(p)) \/ Proceed(p, seen[p].status)
          BY <1>1, <1>9, <2>2 DEF Step, Continue, Arrive, SweepScan, PublishRead, CancelEventRead,
             ReadThenWrite, Advance, AdvanceRead, AdvanceReread, AdvanceWalk, AdvanceBeaten, GoTo,
             LockEvent, Register, RegisterConfirmed, RegisterWaitlisted, RegisterUnchanged, Cancel,
             CancelSeat, CancelWaitlisted, CancelRefused, Patch, Update, UpdateRefused,
             EndTransaction, Finish, StatusWrite, PublishWrite, CancelEventWrite, Die,
             TypeOK, RequestTypeOK
        <4>2. \E s : AfterAdvance(req[p].op, s) = "desk" /\ req' = req
          BY <1>9, <2>2, <4>1 DEF Proceed, Finish, TypeOK, RequestTypeOK
        <4> QED BY <4>2 DEF AfterAdvance
      <3> QED BY <2>2, <3>2, <3>3 DEF ReadFits
    <2> QED BY <2>1, <2>2
  <1> QED BY <1>7, <1>8, <1>9

\* A request that is over leaves the desk in order, if what it committed was.
LEMMA EndDeskInOrder ==
  ASSUME DeskInOrder, NEW p \in Procs, EndDesk(p), DataTypeOK',
         certs' \in [Certs -> CertRow],
         \A c \in Certs : certs'[c].status # "NONE" => certs'[c].reg \in Regs,
         certNotices' \subseteq {"certificate.issued", "certificate.revoked"} \X Certs,
         records' \subseteq Regs, RowsRemain, CertificatesRemain,
         \A r \in Regs : reg'[r].status # "NONE" => reg'[r].user \in Users
  PROVE  DeskInOrder'
  <1> USE DEF DeskInOrder, AttendanceTypeOK
  <1>1. TypeOK'
    BY FinishType DEF EndDesk, TypeOK, RequestTypeOK
  <1>2. run' \in [Clients -> IssueRun]
    BY NoRunType DEF EndDesk, CertificatesTypeOK
  <1>3. /\ \A q \in Procs : desk'[q] = IF q = p THEN None ELSE desk[q]
        /\ \A q \in Procs \ {p} : pc'[q] = pc[q] /\ req'[q] = req[q] /\ locked'[q] = locked[q]
        /\ pc'[p] = "idle"
    BY DEF EndDesk, Finish, TypeOK, RequestTypeOK
  <1>4. desk' \in [Procs -> DeskReads \union {None}]
    BY DEF EndDesk
  <1>5. AttendanceTypeOK'
    BY <1>1, <1>2, <1>3, <1>4 DEF CertificatesTypeOK
  <1>6. RowsInUse'
    BY <1>3 DEF RowsInUse, RowsRemain
  <1>7. ASSUME NEW q \in Procs, pc'[q] = "desk" PROVE ReadFits(q)'
    BY <1>3, <1>7, ReadKept
  <1> QED BY <1>5, <1>6, <1>7

\* A request that leaves the desk with nothing written keeps it in order.
LEMMA EmptyHandedInOrder ==
  ASSUME DeskInOrder, NEW p \in Procs, EndDesk(p), UNCHANGED <<dataVars, certVars, records>>
  PROVE  DeskInOrder'
  <1>1. DataTypeOK'
    BY DEF dataVars, DeskInOrder, AttendanceTypeOK, TypeOK, DataTypeOK
  <1> QED BY <1>1, EndDeskInOrder DEF dataVars, certVars, DeskInOrder, AttendanceTypeOK,
            CertificatesTypeOK, RowsInUse, RowsRemain, CertificatesRemain

\* A request that reads at the desk keeps it in order, if what it read is fit.
LEMMA ReadingInOrder ==
  ASSUME DeskInOrder, NEW p \in Procs, NEW read \in DeskReads, Reading(p, read),
         pc[p] = "desk", ReadFits(p)'
  PROVE  DeskInOrder'
  <1> USE DEF DeskInOrder, AttendanceTypeOK
  <1>1. UNCHANGED <<vars, certs, certNotices, run, records>>
    BY DEF Reading, certVars
  <1>2. TypeOK' /\ RowsInUse' /\ UNCHANGED <<pc, req>> /\ RowsRemain /\ CertificatesRemain
    BY <1>1, NextType DEF vars, dataVars, procVars, RowsInUse, RowsRemain, CertificatesRemain
  <1>3. /\ desk' \in [Procs -> DeskReads \union {None}]
        /\ \A q \in Procs \ {p} : desk'[q] = desk[q]
    BY DEF Reading
  <1>4. AttendanceTypeOK'
    BY <1>1, <1>2, <1>3 DEF CertificatesTypeOK
  <1>5. ASSUME NEW q \in Procs, pc'[q] = "desk" PROVE ReadFits(q)'
    BY <1>2, <1>3, <1>5, ReadKept
  <1> QED BY <1>2, <1>4, <1>5

\* Revoking leaves certificates where they are, and whose they are.
LEMMA RevokedRows ==
  ASSUME CertificatesTypeOK, NEW gone \in SUBSET Certs,
         \A c \in gone : certs[c].status # "NONE"
  PROVE  /\ Revoked(gone) \in [Certs -> CertRow]
         /\ \A c \in Certs :
              /\ Revoked(gone)[c].status = IF c \in gone THEN "REVOKED" ELSE certs[c].status
              /\ Revoked(gone)[c].reg = certs[c].reg
         /\ RevokedNotices(gone) \subseteq {"certificate.revoked"} \X Certs
  BY DEF Revoked, RevokedNotices, CertificatesTypeOK, CertRow

\* A status written at the desk leaves the rows rows of the same people.
LEMMA MarkedRows ==
  ASSUME DataTypeOK, NEW r \in Regs, NEW s \in SeatStatuses
  PROVE  /\ [reg EXCEPT ![r].status = s] \in [Regs -> RegRow]
         /\ \A q \in Regs :
              /\ [reg EXCEPT ![r].status = s][q].status = IF q = r THEN s ELSE reg[q].status
              /\ [reg EXCEPT ![r].status = s][q].user = reg[q].user
              /\ [reg EXCEPT ![r].status = s][q].position = reg[q].position
  <1>1. [reg[r] EXCEPT !.status = s] \in RegRow
    BY DEF DataTypeOK, RegRow, RegStatuses
  <1> QED BY <1>1 DEF DataTypeOK, RegRow

\* A transaction at the desk writes a status to a row in use, and may revoke.
LEMMA CommitInOrder ==
  ASSUME DeskInOrder, NEW p \in Procs, NEW r \in Regs, NEW s \in SeatStatuses,
         reg[r].status # "NONE", NEW present \in SUBSET Regs, NEW gone \in SUBSET Certs,
         \A c \in gone : certs[c].status # "NONE",
         NEW certRows, certRows = certs \/ certRows = Revoked(gone),
         NEW sent, sent \subseteq RevokedNotices(gone),
         CommitAtDesk(p, [reg EXCEPT ![r].status = s], present, certRows, sent)
  PROVE  DeskInOrder'
  <1> DEFINE rows == [reg EXCEPT ![r].status = s]
  <1> USE DEF DeskInOrder, AttendanceTypeOK, TypeOK
  <1>1. EndDesk(p) /\ Store(event, rows, {})
    BY DEF CommitAtDesk
  <1>2. CASE ~Allowed(event, rows)
    <2>1. UNCHANGED <<event, reg, notices, records, certs, certNotices>> /\ tripped' = TRUE
      BY <1>1, <1>2 DEF CommitAtDesk, Store
    <2>2. DataTypeOK'
      BY <2>1 DEF DataTypeOK
    <2> QED BY <1>1, <2>1, <2>2, EndDeskInOrder DEF CertificatesTypeOK, RowsInUse, RowsRemain,
              CertificatesRemain
  <1>3. CASE Allowed(event, rows)
    <2>1. /\ reg' = rows /\ records' = present
          /\ certs' = certRows /\ certNotices' = certNotices \union sent
      BY <1>1, <1>3 DEF CommitAtDesk, Store
    <2>2. /\ rows \in [Regs -> RegRow]
          /\ \A q \in Regs : /\ rows[q].status = IF q = r THEN s ELSE reg[q].status
                             /\ rows[q].user = reg[q].user
      BY MarkedRows
    <2>3. s # "NONE"
      BY DEF SeatStatuses
    <2>4. \A q \in Regs : rows[q].status # "NONE" => rows[q].user \in Users
      BY <2>2 DEF RowsInUse
    <2>5. DataTypeOK'
      <3>1. \A q \in Regs : IsOpen(rows[q]) => rows[q].user \in Users
        BY <2>4 DEF IsOpen
      <3>2. event \in CandidateRow /\ {} \in SUBSET Notices
        BY DEF DataTypeOK, EventRow, CandidateRow
      <3> HIDE DEF rows
      <3> QED BY <1>1, <2>2, <3>1, <3>2, StoreType
    <2>6. RowsRemain
      BY <2>1, <2>2, <2>3 DEF RowsRemain
    <2>7. /\ certs' \in [Certs -> CertRow]
          /\ \A c \in Certs : certs'[c].status # "NONE" => certs'[c].reg \in Regs
          /\ CertificatesRemain
      BY <2>1, RevokedRows DEF CertificatesTypeOK, CertificatesRemain
    <2>8. certNotices' \subseteq {"certificate.issued", "certificate.revoked"} \X Certs
      BY <2>1, RevokedRows DEF CertificatesTypeOK
    <2> QED BY <1>1, <2>1, <2>2, <2>4, <2>5, <2>6, <2>7, <2>8, EndDeskInOrder
  <1> QED BY <1>2, <1>3

\* Checking in keeps the desk in order.
LEMMA CheckInInOrder ==
  ASSUME DeskInOrder, NEW p \in Procs, CheckInStep(p)
  PROVE  DeskInOrder'
  <1>1. CASE CheckInRead(p)
    <2>1. PICK r \in Checkable(p) : Reading(p, [reg |-> r])
      BY <1>1 DEF CheckInRead
    <2>2. r \in Regs /\ reg[r].status = "CONFIRMED"
      BY DEF Checkable, OpenOf
    <2>3. pc[p] = "desk" /\ req[p].op = "checkIn"
      BY <1>1 DEF CheckInRead, AtDesk
    <2>4. desk'[p] = [reg |-> r] /\ UNCHANGED <<reg, req, pc>>
      BY <2>1 DEF Reading, vars, dataVars, procVars, DeskInOrder, AttendanceTypeOK
    <2>5. ReadFits(p)'
      BY <2>2, <2>3, <2>4 DEF ReadFits
    <2>6. [reg |-> r] \in DeskReads
      BY <2>2 DEF DeskReads
    <2> QED BY <2>1, <2>3, <2>5, <2>6, ReadingInOrder
  <1>2. CASE CheckInRefused(p) \/ CheckInAlready(p)
    BY <1>2, EmptyHandedInOrder DEF CheckInRefused, CheckInAlready, LeaveDesk
  <1>3. CASE CheckInWrite(p)
    <2>1. PICK r \in Regs : desk[p].reg = r /\ reg[r].status # "NONE"
      BY <1>3 DEF CheckInWrite, AtDesk, DeskInOrder, ReadFits
    <2>2. CommitAtDesk(p, [reg EXCEPT ![r].status = "CHECKED_IN"], records \union {r}, certs, {})
      BY <1>3, <2>1 DEF CheckInWrite
    <2>3. "CHECKED_IN" \in SeatStatuses /\ records \union {r} \in SUBSET Regs
      BY DEF SeatStatuses, DeskInOrder, AttendanceTypeOK
    <2>4. PICK gone \in SUBSET Certs : gone = {}
      OBVIOUS
    <2>5. PICK sent : sent = {}
      OBVIOUS
    <2>6. sent \subseteq RevokedNotices(gone) /\ \A c \in gone : certs[c].status # "NONE"
      BY <2>4, <2>5
    <2> QED BY <2>1, <2>2, <2>3, <2>4, <2>5, <2>6, CommitInOrder
  <1> QED BY <1>1, <1>2, <1>3 DEF CheckInStep

\* A registration's valid certificates have been issued.
LEMMA ActiveRows ==
  ASSUME NEW r
  PROVE  ActiveOf(r) \in SUBSET Certs /\ \A c \in ActiveOf(r) : certs[c].status = "ACTIVE"
  BY DEF ActiveOf, CertsWith

\* Correcting keeps it in order.
LEMMA CorrectInOrder ==
  ASSUME DeskInOrder, NEW p \in Procs, CorrectStep(p)
  PROVE  DeskInOrder'
  <1>1. pc[p] = "desk" /\ req[p].op = "correct"
    BY DEF CorrectStep, CorrectRead, CorrectRefused, CorrectReadEvent, CorrectLocked,
           CorrectPresent, CorrectAbsent, CorrectAbsentFails, Correcting, AtDesk
  <1>2. req[p].reg \in Regs
    BY <1>1 DEF DeskInOrder, AttendanceTypeOK, TypeOK, RequestTypeOK, Requests, OfUser, Registering,
                CertificateOps
  <1>3. desk[p] # None => desk[p] \in CorrectionReads /\ reg[req[p].reg].status # "NONE"
    BY <1>1 DEF DeskInOrder, ReadFits
  <1>4. CASE CorrectRead(p) \/ CorrectReadEvent(p)
    <2>1. /\ reg[req[p].reg].status # "NONE"
          /\ \E read \in CorrectionReads : Reading(p, read)
      <3>1. CASE CorrectRead(p)
        BY <3>1 DEF CorrectRead, Correctable, SeatStatuses, CorrectionReads
      <3>2. CASE CorrectReadEvent(p)
        <4>1. [step |-> "write", live |-> event.status = "ONGOING",
               recorded |-> req[p].reg \in records] \in CorrectionReads
          BY DEF CorrectionReads
        <4>2. desk[p] # None
          BY <3>2, NoneIsNoRead DEF CorrectReadEvent, DeskReads
        <4> QED BY <1>3, <3>2, <4>1, <4>2 DEF CorrectReadEvent
      <3> QED BY <1>4, <3>1, <3>2
    <2>2. PICK read \in CorrectionReads : Reading(p, read)
      BY <2>1
    <2>3. desk'[p] = read /\ UNCHANGED <<reg, req, pc>>
      BY <2>2 DEF Reading, vars, dataVars, procVars, DeskInOrder, AttendanceTypeOK
    <2>4. ReadFits(p)'
      BY <1>1, <2>1, <2>3 DEF ReadFits
    <2>5. read \in DeskReads
      BY DEF CorrectionReads, DeskReads
    <2> QED BY <1>1, <2>2, <2>4, <2>5, ReadingInOrder
  <1>5. CASE CorrectRefused(p) \/ CorrectLocked(p) \/ CorrectAbsentFails(p)
    BY <1>5, EmptyHandedInOrder DEF CorrectRefused, CorrectLocked, CorrectAbsentFails, LeaveDesk
  <1>6. CASE CorrectPresent(p)
    <2>1. CommitAtDesk(p, [reg EXCEPT ![req[p].reg].status = "CHECKED_IN"],
                       records \union {req[p].reg}, certs, {})
      BY <1>6 DEF CorrectPresent
    <2>2. "CHECKED_IN" \in SeatStatuses /\ records \union {req[p].reg} \in SUBSET Regs
      BY <1>2 DEF SeatStatuses, DeskInOrder, AttendanceTypeOK
    <2>3. desk[p] # None
      BY <1>6 DEF CorrectPresent, Correcting
    <2>4. PICK gone \in SUBSET Certs : gone = {}
      OBVIOUS
    <2>5. PICK sent : sent = {}
      OBVIOUS
    <2>6. sent \subseteq RevokedNotices(gone) /\ \A c \in gone : certs[c].status # "NONE"
      BY <2>4, <2>5
    <2> QED BY <1>2, <1>3, <2>1, <2>2, <2>3, <2>4, <2>5, <2>6, CommitInOrder
  <1>7. CASE CorrectAbsent(p)
    <2>1. CommitAtDesk(p, [reg EXCEPT ![req[p].reg].status = StatusOfAbsentee(p)],
                       WithoutRecord(p), Revoked(ActiveOf(req[p].reg)),
                       RevokedNotices(ActiveOf(req[p].reg)))
      BY <1>7 DEF CorrectAbsent
    <2>2. StatusOfAbsentee(p) \in SeatStatuses /\ WithoutRecord(p) \in SUBSET Regs
      BY DEF StatusOfAbsentee, WithoutRecord, SeatStatuses, DeskInOrder, AttendanceTypeOK
    <2>3. desk[p] # None
      BY <1>7 DEF CorrectAbsent, Correcting
    <2> QED BY <1>2, <1>3, <2>1, <2>2, <2>3, CommitInOrder, ActiveRows
  <1> QED BY <1>4, <1>5, <1>6, <1>7 DEF CorrectStep

\* A request about certificates begins with the rest of the desk in order.
LEMMA BeginInOrder ==
  ASSUME DeskInOrder, NEW p \in Procs, NEW op \in CertificateOps, Begin(p, op), UNCHANGED records,
         run' \in [Clients -> IssueRun],
         desk' \in [Procs -> DeskReads \union {None}],
         \A q \in Procs \ {p} : desk'[q] = desk[q],
         ReadFits(p)'
  PROVE  DeskInOrder'
  <1> USE DEF DeskInOrder, AttendanceTypeOK
  <1>1. UNCHANGED <<now, clubStatus, event, reg, notices, tripped, lock, seen, locked, certs, certNotices>>
    BY DEF Begin, dataVars, certVars
  <1>2. /\ pc[p] = "idle" /\ pc' = [pc EXCEPT ![p] = "desk"]
        /\ req' = [req EXCEPT ![p] = [op |-> op]]
    BY DEF Begin
  <1>3. [op |-> op] \in Requests
    BY DEF Requests
  <1>4. TypeOK'
    BY <1>1, <1>2, <1>3 DEF TypeOK, DataTypeOK, RequestTypeOK
  <1>5. AttendanceTypeOK'
    BY <1>1, <1>2, <1>4 DEF CertificatesTypeOK, TypeOK, RequestTypeOK
  <1>6. RowsInUse' /\ RowsRemain /\ CertificatesRemain
    BY <1>1, <1>2 DEF RowsInUse, RowsRemain, CertificatesRemain, TypeOK, RequestTypeOK
  <1>7. ASSUME NEW q \in Procs, pc'[q] = "desk" PROVE ReadFits(q)'
    <2>1. CASE q = p
      BY <2>1
    <2>2. CASE q # p
      BY <1>2, <1>6, <1>7, <2>2, ReadKept DEF TypeOK, RequestTypeOK
    <2> QED BY <2>1, <2>2
  <1> QED BY <1>5, <1>6, <1>7

\* The steps of an issuance run before it commits.
LEMMA RunStepsInOrder ==
  ASSUME DeskInOrder, NEW p \in Procs, NEW state \in IssueRun, GoOn(p, state), UNCHANGED records
  PROVE  DeskInOrder'
  <1> USE DEF DeskInOrder, AttendanceTypeOK
  <1>1. UNCHANGED <<vars, certs, certNotices, desk, records>> /\ run' \in [Clients -> IssueRun]
    BY DEF GoOn, certVars, CertificatesTypeOK
  <1>2. TypeOK' /\ UNCHANGED <<pc, req, reg, locked>>
    BY <1>1, NextType DEF vars, dataVars, procVars
  <1>3. AttendanceTypeOK'
    BY <1>1, <1>2 DEF CertificatesTypeOK
  <1> QED BY <1>1, <1>2, <1>3 DEF RowsInUse, ReadFits

\* A run's commit puts unused certificates to use, each for one of those it
\* inserted for, and leaves the others alone.
LEMMA IssuedRows ==
  ASSUME CertificatesTypeOK, NEW p \in Clients, IssueFinish(p)
  PROVE  /\ certs' \in [Certs -> CertRow]
         /\ \A c \in Certs :
              \/ certs'[c] = certs[c]
              \/ /\ certs[c].status = "NONE" /\ certs'[c].status = "ACTIVE"
                 /\ certs'[c].reg \in Regs
  <1>1. run[p].mine \subseteq Regs
    BY DEF CertificatesTypeOK, IssueRun
  <1>2. PICK id \in [run[p].mine -> UnusedCerts] :
          certs' = [c \in Certs |->
            IF \E r \in run[p].mine : id[r] = c
            THEN [reg |-> CHOOSE r \in run[p].mine : id[r] = c, status |-> "ACTIVE"]
            ELSE certs[c]]
    BY DEF IssueFinish
  <1>3. ASSUME NEW c \in Certs, certs'[c] # certs[c]
        PROVE  \E r \in run[p].mine : id[r] = c /\ certs'[c] = [reg |-> r, status |-> "ACTIVE"]
    <2>1. /\ \E r \in run[p].mine : id[r] = c
          /\ certs'[c] = [reg |-> CHOOSE r \in run[p].mine : id[r] = c, status |-> "ACTIVE"]
      BY <1>2, <1>3
    <2> QED BY <2>1
  <1>4. \A r \in run[p].mine : certs[id[r]].status = "NONE"
    BY DEF UnusedCerts, CertsWith
  <1>5. \A r \in Regs : [reg |-> r, status |-> "ACTIVE"] \in CertRow
    BY DEF CertRow
  <1>6. \A c \in Certs : certs'[c] \in CertRow
    <2> SUFFICES ASSUME NEW c \in Certs, certs'[c] # certs[c] PROVE certs'[c] \in CertRow
      BY DEF CertificatesTypeOK
    <2> QED BY <1>1, <1>3, <1>5
  <1>7. \A c \in Certs :
          \/ certs'[c] = certs[c]
          \/ /\ certs[c].status = "NONE" /\ certs'[c].status = "ACTIVE"
             /\ certs'[c].reg \in Regs
    <2> SUFFICES ASSUME NEW c \in Certs, certs'[c] # certs[c]
                 PROVE  /\ certs[c].status = "NONE" /\ certs'[c].status = "ACTIVE"
                        /\ certs'[c].reg \in Regs
      OBVIOUS
    <2>1. PICK r \in run[p].mine : id[r] = c /\ certs'[c] = [reg |-> r, status |-> "ACTIVE"]
      BY <1>3
    <2> QED BY <1>1, <1>4, <2>1
  <1> QED BY <1>2, <1>6, <1>7

\* A reissue puts an unused certificate to use for the old one's registration,
\* and revokes the old one.
LEMMA ReissuedRows ==
  ASSUME DeskInOrder, NEW p \in Procs, ReissueWrite(p)
  PROVE  \E c \in UnusedCerts, old \in Certs :
           /\ old # c /\ certs[old].status # "NONE"
           /\ certs' \in [Certs -> CertRow]
           /\ certs'[c].status = "ACTIVE" /\ certs'[c].reg \in Regs
           /\ certs'[old].status = "REVOKED" /\ certs'[old].reg \in Regs
           /\ \A d \in Certs \ {c, old} : certs'[d] = certs[d]
           /\ certNotices' = certNotices \union {<<"certificate.revoked", old>>, <<"certificate.issued", c>>}
  <1>1. PICK old \in Certs : desk[p].cert = old /\ certs[old].status # "NONE"
    BY DEF ReissueWrite, AtDesk, DeskInOrder, ReadFits
  <1>2. PICK for \in Regs : certs[old].reg = for
    BY <1>1 DEF DeskInOrder, AttendanceTypeOK, CertificatesTypeOK
  <1>3. PICK c \in UnusedCerts :
          /\ certs' = [Revoked({old}) EXCEPT ![c] = [reg |-> for, status |-> "ACTIVE"]]
          /\ certNotices' = certNotices \union RevokedNotices({old}) \union {<<"certificate.issued", c>>}
    BY <1>1, <1>2 DEF ReissueWrite
  <1>4. c \in Certs /\ certs[c].status = "NONE" /\ c # old
    BY <1>1 DEF UnusedCerts, CertsWith
  <1>5. /\ Revoked({old}) \in [Certs -> CertRow]
        /\ Revoked({old})[old] = [reg |-> for, status |-> "REVOKED"]
        /\ \A d \in Certs \ {old} : Revoked({old})[d] = certs[d]
    <2>1. Revoked({old}) \in [Certs -> CertRow]
      BY <1>1, RevokedRows DEF DeskInOrder, AttendanceTypeOK
    <2> QED BY <1>1, <1>2, <2>1 DEF Revoked
  <1>6. [reg |-> for, status |-> "ACTIVE"] \in CertRow
    BY DEF CertRow
  <1>7. /\ certs' \in [Certs -> CertRow]
        /\ certs'[c] = [reg |-> for, status |-> "ACTIVE"]
        /\ certs'[old] = [reg |-> for, status |-> "REVOKED"]
        /\ \A d \in Certs \ {c, old} : certs'[d] = certs[d]
    BY <1>3, <1>4, <1>5, <1>6
  <1>8. certNotices' = certNotices \union {<<"certificate.revoked", old>>, <<"certificate.issued", c>>}
    BY <1>3 DEF RevokedNotices
  <1> QED BY <1>1, <1>4, <1>7, <1>8

\* The certificate requests keep the desk in order.
LEMMA CertificateInOrder ==
  ASSUME DeskInOrder, NEW p \in Procs, CertificateStep(p), UNCHANGED records
  PROVE  DeskInOrder'
  <1> USE DEF DeskInOrder, AttendanceTypeOK
  <1>1. CASE IssueRead(p)
    <2>1. Begin(p, "issue") /\ UNCHANGED desk
      BY <1>1 DEF IssueRead
    <2>2. [NoRun EXCEPT !.step = "pending", !.status = event.status] \in IssueRun
      BY <1>1, NoRunType, StatusNames DEF IssueRead, IssueRun
    <2>3. run' \in [Clients -> IssueRun]
      BY <1>1, <2>2 DEF IssueRead, CertificatesTypeOK
    <2>4. ReadFits(p)'
      BY <2>1 DEF Begin, ReadFits, TypeOK, RequestTypeOK
    <2>5. "issue" \in CertificateOps
      BY DEF CertificateOps
    <2> QED BY <2>1, <2>3, <2>4, <2>5, BeginInOrder
  <1>2. CASE RevokeRead(p) \/ ReissueRead(p)
    <2>1. PICK op \in {"revoke", "reissue"}, c \in CertsWith(certs, "ACTIVE") :
            Begin(p, op) /\ desk' = [desk EXCEPT ![p] = [cert |-> c]] /\ UNCHANGED run
      BY <1>2 DEF RevokeRead, ReissueRead, LoadActive
    <2>2. c \in Certs /\ certs[c].status = "ACTIVE" /\ [cert |-> c] \in DeskReads
      BY DEF CertsWith, DeskReads
    <2>3. /\ desk' \in [Procs -> DeskReads \union {None}]
          /\ desk'[p] = [cert |-> c]
          /\ \A q \in Procs \ {p} : desk'[q] = desk[q]
      BY <2>1, <2>2
    <2>4. req'[p].op = op /\ UNCHANGED certs
      BY <2>1 DEF Begin, certVars, TypeOK, RequestTypeOK
    <2>5. ReadFits(p)'
      BY <2>2, <2>3, <2>4 DEF ReadFits
    <2>6. op \in CertificateOps
      BY DEF CertificateOps
    <2>7. run' \in [Clients -> IssueRun]
      BY <2>1 DEF CertificatesTypeOK
    <2> QED BY <2>1, <2>3, <2>5, <2>6, <2>7, BeginInOrder
  <1>3. CASE IssuePending(p)
    <2> DEFINE next == IF Pending(p) = {} THEN "finish" ELSE "insert"
               state == [run[p] EXCEPT !.pending = Pending(p), !.attempt = @ + 1, !.step = next]
    <2>1. run[p] \in IssueRun /\ GoOn(p, state)
      BY <1>3 DEF IssuePending, Issuing, CertificatesTypeOK
    <2>2. Pending(p) \in SUBSET Regs /\ next \in {"finish", "insert"} /\ run[p].attempt + 1 \in Nat
      BY <2>1 DEF Pending, IssueRun
    <2>3. state \in IssueRun
      <3> HIDE DEF next
      <3> QED BY <2>1, <2>2, NextRun
    <2> QED BY <2>1, <2>3, RunStepsInOrder
  <1>4. CASE IssueInsert(p)
    <2> DEFINE state == [run[p] EXCEPT
               !.mine = @ \union Insertable(p),
               !.step = IF Insertable(p) = run[p].pending \/ run[p].attempt = InsertAttempts
                        THEN "finish" ELSE "pending"]
    <2>1. run[p] \in IssueRun /\ GoOn(p, state)
      BY <1>4 DEF IssueInsert, Issuing, CertificatesTypeOK
    <2>2. state \in IssueRun
      BY <2>1 DEF IssueRun, Insertable
    <2> QED BY <2>1, <2>2, RunStepsInOrder
  <1>5. CASE IssueFinish(p)
    <2>1. p \in Clients
      BY <1>5 DEF IssueFinish, Issuing
    <2>2. EndDesk(p) /\ UNCHANGED <<reg, notices, tripped>>
      BY <1>5 DEF IssueFinish
    <2>3. event' \in EventRow
      BY <1>5, StatusNames DEF IssueFinish, TypeOK, DataTypeOK, EventRow
    <2>4. DataTypeOK'
      BY <2>2, <2>3 DEF TypeOK, DataTypeOK
    <2>5. certNotices' \subseteq {"certificate.issued", "certificate.revoked"} \X Certs
      <3>1. \A rows : IssuedNotices(p, rows) \subseteq {"certificate.issued"} \X Certs
        BY DEF IssuedNotices, CertsWith
      <3>2. certNotices' = certNotices \union IssuedNotices(p, certs')
        BY <1>5 DEF IssueFinish
      <3> QED BY <3>1, <3>2 DEF CertificatesTypeOK
    <2>6. /\ certs' \in [Certs -> CertRow]
          /\ \A c \in Certs : certs'[c].status # "NONE" => certs'[c].reg \in Regs
          /\ CertificatesRemain
      BY <1>5, <2>1, IssuedRows DEF CertificatesTypeOK, CertificatesRemain
    <2>7. RowsRemain /\ \A r \in Regs : reg'[r].status # "NONE" => reg'[r].user \in Users
      BY <2>2 DEF RowsRemain, RowsInUse
    <2> QED BY <2>2, <2>4, <2>5, <2>6, <2>7, EndDeskInOrder
  <1>6. CASE RevokeWrite(p)
    <2>1. PICK old \in Certs : desk[p].cert = old /\ certs[old].status # "NONE"
      BY <1>6 DEF RevokeWrite, AtDesk, ReadFits
    <2>2. EndDesk(p) /\ UNCHANGED <<event, reg, notices, tripped>>
      BY <1>6 DEF RevokeWrite, dataVars
    <2>3. certs' = Revoked({old}) /\ certNotices' = certNotices \union RevokedNotices({old})
      BY <1>6, <2>1 DEF RevokeWrite
    <2>4. /\ certs' \in [Certs -> CertRow]
          /\ \A c \in Certs : certs'[c].status # "NONE" => certs'[c].reg \in Regs
          /\ CertificatesRemain
          /\ certNotices' \subseteq {"certificate.issued", "certificate.revoked"} \X Certs
      BY <2>1, <2>3, RevokedRows DEF CertificatesTypeOK, CertificatesRemain
    <2>5. DataTypeOK' /\ RowsRemain /\ \A r \in Regs : reg'[r].status # "NONE" => reg'[r].user \in Users
      BY <2>2 DEF TypeOK, DataTypeOK, RowsRemain, RowsInUse
    <2> QED BY <2>2, <2>4, <2>5, EndDeskInOrder
  <1>7. CASE ReissueWrite(p)
    <2>1. EndDesk(p) /\ UNCHANGED <<event, reg, notices, tripped>>
      BY <1>7 DEF ReissueWrite, dataVars
    <2>2. /\ certs' \in [Certs -> CertRow]
          /\ \A c \in Certs : certs'[c].status # "NONE" => certs'[c].reg \in Regs
          /\ CertificatesRemain
          /\ certNotices' \subseteq {"certificate.issued", "certificate.revoked"} \X Certs
      <3> HIDE DEF DeskInOrder
      <3>1. PICK c \in UnusedCerts, old \in Certs :
           /\ old # c /\ certs[old].status # "NONE"
           /\ certs' \in [Certs -> CertRow]
           /\ certs'[c].status = "ACTIVE" /\ certs'[c].reg \in Regs
           /\ certs'[old].status = "REVOKED" /\ certs'[old].reg \in Regs
           /\ \A d \in Certs \ {c, old} : certs'[d] = certs[d]
           /\ certNotices' = certNotices \union {<<"certificate.revoked", old>>, <<"certificate.issued", c>>}
        BY <1>7, ReissuedRows
      <3>2. c \in Certs
        BY DEF UnusedCerts, CertsWith
      <3> QED BY <3>1, <3>2 DEF CertificatesTypeOK, CertificatesRemain, DeskInOrder
    <2>3. DataTypeOK' /\ RowsRemain /\ \A r \in Regs : reg'[r].status # "NONE" => reg'[r].user \in Users
      BY <2>1 DEF TypeOK, DataTypeOK, RowsRemain, RowsInUse
    <2> QED BY <2>1, <2>2, <2>3, EndDeskInOrder
  <1>8. CASE ReissueConflict(p)
    <2> HIDE DEF DeskInOrder
    <2> QED BY <1>8, EmptyHandedInOrder DEF ReissueConflict
  <1> QED BY <1>1, <1>2, <1>3, <1>4, <1>5, <1>6, <1>7, <1>8 DEF CertificateStep

\* The desk starts in order, and every step keeps it so.
LEMMA DeskStartsInOrder ==
  ASSUME AttendanceInit
  PROVE  DeskInOrder
  <1>1. TypeOK
    BY InitType DEF AttendanceInit
  <1>2. AttendanceTypeOK
    BY <1>1, NoRunType DEF AttendanceInit, NothingIssued, AttendanceTypeOK, CertificatesTypeOK,
       NoCert, CertRow
  <1>3. \A p \in Procs : pc[p] = "idle"
    BY DEF AttendanceInit, Init
  <1>4. \A r \in Regs : reg[r].status = "NONE"
    BY DEF AttendanceInit, Init, NoRow
  <1> QED BY <1>2, <1>3, <1>4 DEF DeskInOrder, RowsInUse

LEMMA DeskStaysInOrder ==
  ASSUME DeskInOrder, [AttendanceNext]_allVars
  PROVE  DeskInOrder'
  <1>1. CASE UNCHANGED allVars
    BY <1>1, NextType DEF allVars, certVars, deskVars, vars, dataVars, procVars, DeskInOrder,
       AttendanceTypeOK, CertificatesTypeOK, RowsInUse, ReadFits
  <1>2. CASE (Tick \/ ClubStatusChange) /\ UNCHANGED <<certVars, deskVars, records>>
    <2>1. TypeOK'
      BY <1>2, NextType DEF Next, DeskInOrder, AttendanceTypeOK
    <2>2. UNCHANGED <<reg, pc, req, locked>>
      BY <1>2 DEF Tick, ClubStatusChange, dataVars, procVars
    <2> QED BY <1>2, <2>1, <2>2 DEF certVars, deskVars, DeskInOrder, AttendanceTypeOK,
              CertificatesTypeOK, RowsInUse, ReadFits
  <1>3. ASSUME NEW p \in Procs, RegistrationStep(p) \/ DeskStep(p) PROVE DeskInOrder'
    BY <1>3, RegistrationStepDesk, CheckInInOrder, CorrectInOrder, CertificateInOrder DEF DeskStep
  <1> QED BY <1>1, <1>2, <1>3 DEF AttendanceNext

\* The type invariant, with every request there is: what is read and written at
\* the door and the desk is of the kind the code says, on rows that exist.
THEOREM DeskTypeCorrect == AttendanceSpec => []AttendanceTypeOK
  <1>1. AttendanceSpec => []DeskInOrder
    BY DeskStartsInOrder, DeskStaysInOrder, PTL DEF AttendanceSpec
  <1>2. DeskInOrder => AttendanceTypeOK
    BY DEF DeskInOrder
  <1> QED BY <1>1, <1>2, PTL
-----------------------------------------------------------------------------
(***************************************************************************)
(* Certificates are never changed behind their holders' backs.             *)
(***************************************************************************)

\* Revoking with a notice to each holder leaves no holder untold.
LEMMA RevocationTold ==
  ASSUME DeskInOrder, HoldersAreTold, NEW gone \in SUBSET Certs,
         \A c \in gone : certs[c].status # "NONE",
         certs' = Revoked(gone), certNotices' = certNotices \union RevokedNotices(gone)
  PROVE  HoldersAreTold'
  <1>1. \A c \in Certs : certs'[c].status = IF c \in gone THEN "REVOKED" ELSE certs[c].status
    BY RevokedRows DEF DeskInOrder, AttendanceTypeOK
  <1>2. \A c \in gone : <<"certificate.revoked", c>> \in certNotices'
    BY DEF RevokedNotices
  <1> QED BY <1>1, <1>2 DEF HoldersAreTold

\* No step leaves a holder untold.
LEMMA HoldersToldKept ==
  ASSUME DeskInOrder, HoldersAreTold, [AttendanceNext]_allVars
  PROVE  HoldersAreTold'
  <1>1. CASE UNCHANGED certVars
    BY <1>1 DEF certVars, HoldersAreTold
  <1>2. ASSUME NEW p \in Procs, CheckInStep(p) PROVE UNCHANGED certVars
    BY <1>2 DEF CheckInStep, CheckInRead, CheckInRefused, CheckInWrite, CheckInAlready, Reading,
       LeaveDesk, CommitAtDesk, certVars
  <1>3. ASSUME NEW p \in Procs, CorrectStep(p) PROVE HoldersAreTold'
    <2>1. CASE CorrectAbsent(p)
      <3>1. \/ UNCHANGED certVars
            \/ /\ certs' = Revoked(ActiveOf(req[p].reg))
               /\ certNotices' = certNotices \union RevokedNotices(ActiveOf(req[p].reg))
        BY <2>1 DEF CorrectAbsent, CommitAtDesk, certVars
      <3> QED BY <1>1, <3>1, ActiveRows, RevocationTold
    <2>2. CASE CorrectPresent(p)
      BY <1>1, <2>2 DEF CorrectPresent, CommitAtDesk, certVars
    <2> QED BY <1>1, <1>3, <2>1, <2>2 DEF CorrectStep, CorrectRead, CorrectRefused,
              CorrectReadEvent, CorrectLocked, CorrectAbsentFails, Reading, LeaveDesk
  <1>4. ASSUME NEW p \in Procs, IssueFinish(p) PROVE HoldersAreTold'
    <2>1. p \in Clients
      BY <1>4 DEF IssueFinish, Issuing
    <2>2. certNotices' = certNotices \union IssuedNotices(p, certs')
      BY <1>4 DEF IssueFinish
    <2>3. \A c \in Certs : certs'[c].status = "ACTIVE" => <<"certificate.issued", c>> \in certNotices'
      BY <2>2 DEF IssuedNotices, CertsWith
    <2>4. \A c \in Certs : certs'[c].status # "ACTIVE" => certs'[c] = certs[c]
      BY <1>4, <2>1, IssuedRows DEF DeskInOrder, AttendanceTypeOK
    <2> QED BY <2>2, <2>3, <2>4 DEF HoldersAreTold
  <1>5. ASSUME NEW p \in Procs, RevokeWrite(p) PROVE HoldersAreTold'
    <2>1. PICK old \in Certs : desk[p].cert = old /\ certs[old].status # "NONE"
      BY <1>5 DEF RevokeWrite, AtDesk, DeskInOrder, ReadFits
    <2>2. certs' = Revoked({old}) /\ certNotices' = certNotices \union RevokedNotices({old})
      BY <1>5, <2>1 DEF RevokeWrite
    <2> QED BY <2>1, <2>2, RevocationTold
  <1>6. ASSUME NEW p \in Procs, ReissueWrite(p) PROVE HoldersAreTold'
    <2>1. PICK c \in UnusedCerts, old \in Certs :
           /\ certs[old].status # "NONE" /\ old # c
           /\ certs'[c].status = "ACTIVE" /\ certs'[old].status = "REVOKED"
           /\ \A d \in Certs \ {c, old} : certs'[d] = certs[d]
           /\ certNotices' = certNotices \union {<<"certificate.revoked", old>>, <<"certificate.issued", c>>}
      BY <1>6, ReissuedRows
    <2> QED BY <2>1 DEF HoldersAreTold
  <1>7. ASSUME NEW p \in Procs, CertificateStep(p) PROVE HoldersAreTold'
    BY <1>1, <1>4, <1>5, <1>6, <1>7 DEF CertificateStep, IssueRead, IssuePending, IssueInsert, GoOn,
       RevokeRead, ReissueRead, LoadActive, Begin, ReissueConflict
  <1> QED BY <1>1, <1>2, <1>3, <1>7 DEF AttendanceNext, RegistrationStep, DeskStep, allVars

\* Whatever issues, revokes, reissues or corrects, and in whatever order, each
\* certificate's holder was told of it, and told again when it lost its validity.
THEOREM HoldersAlwaysTold == AttendanceSpec => []HoldersAreTold
  <1>1. AttendanceInit => HoldersAreTold
    BY DEF AttendanceInit, NothingIssued, NoCert, HoldersAreTold
  <1>2. DeskInOrder /\ HoldersAreTold /\ [AttendanceNext]_allVars => DeskInOrder' /\ HoldersAreTold'
    BY DeskStaysInOrder, HoldersToldKept
  <1> QED BY <1>1, <1>2, DeskStartsInOrder, PTL DEF AttendanceSpec
-----------------------------------------------------------------------------
(***************************************************************************)
(* Records and statuses.                                                   *)
(***************************************************************************)

\* What a desk's transaction leaves of rows and records, stored or refused.
LEMMA CommitMoves ==
  ASSUME DataTypeOK, NEW p \in Procs, NEW r \in Regs, NEW s \in SeatStatuses,
         NEW present, NEW certRows, NEW sent,
         CommitAtDesk(p, [reg EXCEPT ![r].status = s], present, certRows, sent)
  PROVE  /\ UNCHANGED notices
         /\ \/ UNCHANGED <<reg, records>>
            \/ /\ records' = present
               /\ \A q \in Regs : reg'[q].status = IF q = r THEN s ELSE reg[q].status
  <1> DEFINE rows == [reg EXCEPT ![r].status = s]
  <1>1. \A q \in Regs : rows[q].status = IF q = r THEN s ELSE reg[q].status
    BY MarkedRows
  <1>2. /\ Store(event, rows, {})
        /\ IF Allowed(event, rows) THEN records' = present ELSE UNCHANGED records
    BY DEF CommitAtDesk
  <1> HIDE DEF rows
  <1> QED BY <1>1, <1>2 DEF Store

\* What each of the desk's steps may do to rows and records.
DeskMoves(p) ==
  \/ UNCHANGED <<reg, records>>
  \/ /\ pc[p] = "desk" /\ req[p].op = "checkIn" /\ desk[p] # None /\ RowFree
     /\ records' = records \union {desk[p].reg}
     /\ \A q \in Regs : reg'[q].status = IF q = desk[p].reg THEN "CHECKED_IN" ELSE reg[q].status
  \/ /\ pc[p] = "desk" /\ req[p].op = "correct" /\ desk[p] # None
     /\ records' = records \union {req[p].reg}
     /\ \A q \in Regs : reg'[q].status = IF q = req[p].reg THEN "CHECKED_IN" ELSE reg[q].status
  \/ /\ pc[p] = "desk" /\ req[p].op = "correct" /\ desk[p] # None
     /\ records' \in {records, records \ {req[p].reg}}
     /\ \E s \in {"CONFIRMED", "NO_SHOW"} :
          \A q \in Regs : reg'[q].status = IF q = req[p].reg THEN s ELSE reg[q].status

LEMMA DeskStepMoves ==
  ASSUME DeskInOrder, NEW p \in Procs, DeskStep(p)
  PROVE  UNCHANGED notices /\ DeskMoves(p)
  <1> USE DEF DeskInOrder, AttendanceTypeOK, TypeOK
  <1>1. CASE UNCHANGED <<reg, notices, records>>
    BY <1>1 DEF DeskMoves
  <1>2. CASE CheckInWrite(p)
    <2>1. /\ pc[p] = "desk" /\ req[p].op = "checkIn" /\ desk[p] # None /\ RowFree
          /\ desk[p].reg \in Regs
      BY <1>2 DEF CheckInWrite, AtDesk, EventKeyFree, ReadFits
    <2>2. CommitAtDesk(p, [reg EXCEPT ![desk[p].reg].status = "CHECKED_IN"],
                       records \union {desk[p].reg}, certs, {})
      BY <1>2 DEF CheckInWrite
    <2>3. PICK r \in Regs, s \in SeatStatuses : r = desk[p].reg /\ s = "CHECKED_IN"
      BY <2>1 DEF SeatStatuses
    <2>4. PICK present : present = records \union {desk[p].reg}
      OBVIOUS
    <2>5. CommitAtDesk(p, [reg EXCEPT ![r].status = s], present, certs, {})
      BY <2>2, <2>3, <2>4
    <2>6. /\ UNCHANGED notices
          /\ \/ UNCHANGED <<reg, records>>
             \/ /\ records' = present
                /\ \A q \in Regs : reg'[q].status = IF q = r THEN s ELSE reg[q].status
      BY <2>5, CommitMoves
    <2> QED BY <2>1, <2>3, <2>4, <2>6 DEF DeskMoves
  <1>3. CASE CorrectPresent(p)
    <2>1. pc[p] = "desk" /\ req[p].op = "correct" /\ desk[p] # None
      BY <1>3 DEF CorrectPresent, Correcting, AtDesk
    <2>2. CommitAtDesk(p, [reg EXCEPT ![req[p].reg].status = "CHECKED_IN"],
                       records \union {req[p].reg}, certs, {})
      BY <1>3 DEF CorrectPresent
    <2>3. PICK r \in Regs, s \in SeatStatuses : r = req[p].reg /\ s = "CHECKED_IN"
      BY <2>1 DEF SeatStatuses, RequestTypeOK, Requests, OfUser, Registering, CertificateOps
    <2>4. PICK present : present = records \union {req[p].reg}
      OBVIOUS
    <2>5. CommitAtDesk(p, [reg EXCEPT ![r].status = s], present, certs, {})
      BY <2>2, <2>3, <2>4
    <2>6. /\ UNCHANGED notices
          /\ \/ UNCHANGED <<reg, records>>
             \/ /\ records' = present
                /\ \A q \in Regs : reg'[q].status = IF q = r THEN s ELSE reg[q].status
      BY <2>5, CommitMoves
    <2> QED BY <2>1, <2>3, <2>4, <2>6 DEF DeskMoves
  <1>4. CASE CorrectAbsent(p)
    <2>1. pc[p] = "desk" /\ req[p].op = "correct" /\ desk[p] # None
      BY <1>4 DEF CorrectAbsent, Correcting, AtDesk
    <2>2. CommitAtDesk(p, [reg EXCEPT ![req[p].reg].status = StatusOfAbsentee(p)],
                       WithoutRecord(p), Revoked(ActiveOf(req[p].reg)),
                       RevokedNotices(ActiveOf(req[p].reg)))
      BY <1>4 DEF CorrectAbsent
    <2>3. PICK r \in Regs, s \in SeatStatuses : r = req[p].reg /\ s = StatusOfAbsentee(p)
      BY <2>1 DEF StatusOfAbsentee, SeatStatuses, RequestTypeOK, Requests, OfUser, Registering, CertificateOps
    <2>4. PICK present : present = WithoutRecord(p)
      OBVIOUS
    <2>5. CommitAtDesk(p, [reg EXCEPT ![r].status = s], present, Revoked(ActiveOf(req[p].reg)),
                       RevokedNotices(ActiveOf(req[p].reg)))
      BY <2>2, <2>3, <2>4
    <2>6. /\ UNCHANGED notices
          /\ \/ UNCHANGED <<reg, records>>
             \/ /\ records' = present
                /\ \A q \in Regs : reg'[q].status = IF q = r THEN s ELSE reg[q].status
      BY <2>5, CommitMoves
    <2>7. s \in {"CONFIRMED", "NO_SHOW"} /\ present \in {records, records \ {req[p].reg}}
      BY <2>3, <2>4 DEF StatusOfAbsentee, WithoutRecord
    <2> QED BY <2>1, <2>3, <2>6, <2>7 DEF DeskMoves
  <1>5. CASE CertificateStep(p) /\ UNCHANGED records
    BY <1>1, <1>5 DEF CertificateStep, IssueRead, IssuePending, IssueInsert, IssueFinish, GoOn,
       RevokeRead, ReissueRead, LoadActive, Begin, RevokeWrite, ReissueWrite, ReissueConflict,
       vars, dataVars
  <1>6. CASE \/ CheckInRead(p) \/ CheckInRefused(p) \/ CheckInAlready(p) \/ CorrectRead(p)
             \/ CorrectRefused(p) \/ CorrectReadEvent(p) \/ CorrectLocked(p) \/ CorrectAbsentFails(p)
    BY <1>1, <1>6 DEF CheckInRead, CheckInRefused, CheckInAlready, CorrectRead, CorrectRefused,
       CorrectReadEvent, CorrectLocked, CorrectAbsentFails, Reading, LeaveDesk, vars, dataVars
  <1> QED BY <1>2, <1>3, <1>4, <1>5, <1>6 DEF DeskStep, CheckInStep, CorrectStep

\* How much closer a desk's step brings the request to having read what it needs.
LEMMA DeskStepReads ==
  ASSUME DeskInOrder, NEW p \in Procs, DeskStep(p)
  PROVE  /\ \A q \in Procs \ {p} : pc'[q] = pc[q] /\ req'[q] = req[q] /\ desk'[q] = desk[q]
         /\ \/ pc'[p] = "idle"
            \/ req'[p].op \in CertificateOps
            \/ pc'[p] = pc[p] /\ req'[p] = req[p] /\ desk'[p] = desk[p]
            \/ /\ pc[p] = "desk" /\ req'[p] = req[p] /\ req[p].op = "checkIn"
               /\ desk'[p].reg \in Regs /\ reg[desk'[p].reg].status = "CONFIRMED"
            \/ /\ pc[p] = "desk" /\ req'[p] = req[p] /\ req[p].op = "correct"
               /\ desk[p] # None \/ reg[req[p].reg].status \in SeatStatuses
  <1> USE DEF DeskInOrder, AttendanceTypeOK, TypeOK, RequestTypeOK
  <1>1. CASE EndDesk(p)
    BY <1>1 DEF EndDesk, Finish
  <1>2. CASE \E state : GoOn(p, state)
    BY <1>2 DEF GoOn, vars, procVars
  <1>3. CASE \E op \in CertificateOps : Begin(p, op) /\ \A q \in Procs \ {p} : desk'[q] = desk[q]
    BY <1>3 DEF Begin
  <1>4. CASE CheckInRead(p)
    <2>1. PICK r \in Checkable(p) : Reading(p, [reg |-> r])
      BY <1>4 DEF CheckInRead
    <2>2. r \in Regs /\ reg[r].status = "CONFIRMED"
      BY DEF Checkable, OpenOf
    <2>3. /\ desk'[p] = [reg |-> r] /\ UNCHANGED <<pc, req>>
          /\ \A q \in Procs \ {p} : desk'[q] = desk[q]
      BY <2>1 DEF Reading, vars, procVars
    <2> QED BY <1>4, <2>2, <2>3 DEF CheckInRead, AtDesk
  <1>5. CASE CorrectRead(p) \/ CorrectReadEvent(p)
    <2>1. desk[p] # None \/ reg[req[p].reg].status \in SeatStatuses
      BY <1>5, NoneIsNoRead DEF CorrectRead, CorrectReadEvent, Correctable, DeskReads
    <2>2. \E read : Reading(p, read)
      BY <1>5 DEF CorrectRead, CorrectReadEvent
    <2> QED BY <1>5, <2>1, <2>2 DEF CorrectRead, CorrectReadEvent, AtDesk, Reading, vars, procVars
  <1>6. CASE CertificateStep(p)
    <2>1. CASE IssueRead(p)
      BY <1>3, <2>1 DEF IssueRead, CertificateOps
    <2>2. CASE RevokeRead(p) \/ ReissueRead(p)
      <3>1. \E op \in CertificateOps : Begin(p, op) /\ \E c : desk' = [desk EXCEPT ![p] = [cert |-> c]]
        BY <2>2 DEF RevokeRead, ReissueRead, LoadActive, CertificateOps
      <3>2. \A q \in Procs \ {p} : desk'[q] = desk[q]
        BY <3>1
      <3> QED BY <1>3, <3>1, <3>2
    <2>3. CASE IssuePending(p) \/ IssueInsert(p)
      BY <1>2, <2>3 DEF IssuePending, IssueInsert
    <2>4. CASE IssueFinish(p) \/ RevokeWrite(p) \/ ReissueWrite(p) \/ ReissueConflict(p)
      BY <1>1, <2>4 DEF IssueFinish, RevokeWrite, ReissueWrite, ReissueConflict
    <2> QED BY <1>6, <2>1, <2>2, <2>3, <2>4 DEF CertificateStep
  <1>7. CASE \/ CheckInRefused(p) \/ CheckInWrite(p) \/ CheckInAlready(p) \/ CorrectRefused(p)
             \/ CorrectLocked(p) \/ CorrectPresent(p) \/ CorrectAbsent(p) \/ CorrectAbsentFails(p)
    BY <1>1, <1>7 DEF CheckInRefused, CheckInWrite, CheckInAlready, CorrectRefused, CorrectLocked,
       CorrectPresent, CorrectAbsent, CorrectAbsentFails, LeaveDesk, CommitAtDesk
  <1> QED BY <1>4, <1>5, <1>6, <1>7 DEF DeskStep, CheckInStep, CorrectStep

\* Nothing was read at the desk by the time a request for a place gets there,
\* and nobody else's read changes.
LEMMA RegistrationStepReads ==
  ASSUME DeskInOrder, NEW p \in Procs, RegistrationStep(p),
         NEW q \in Procs, pc'[q] = "desk", desk'[q] # None
  PROVE  pc[q] = "desk" /\ req'[q] = req[q] /\ desk'[q] = desk[q]
  <1>1. Step(p) /\ TypeOK
    BY DEF RegistrationStep, DeskInOrder, AttendanceTypeOK
  <1>2. \A o \in Procs : desk'[o] = IF o = p /\ pc'[p] = "idle" THEN None ELSE desk[o]
    BY DEF RegistrationStep, DeskInOrder, AttendanceTypeOK
  <1>3. q # p
    BY <1>1, <1>2, OnlyDeathLeavesTheDesk DEF DeskInOrder, AttendanceTypeOK
  <1> QED BY <1>1, <1>2, <1>3, OthersUntouched
-----------------------------------------------------------------------------
(***************************************************************************)
(* Nobody counts as present without a record, or has one without a seat.   *)
(***************************************************************************)
SeatNotices(r) == {<<"registration.confirmed", r>>, <<"registration.promoted", r>>}

\* Whoever has a record or holds a seat was told of the seat, and so was
\* whoever a request at the desk is about.
AdmissionInOrder ==
  /\ PresentHaveRecords
  /\ \A r \in Regs : r \in records \/ reg[r].status \in SeatStatuses
                       => notices \intersect SeatNotices(r) # {}
  /\ \A p \in Procs : pc[p] = "desk" /\ desk[p] # None =>
       /\ req[p].op = "checkIn" => notices \intersect SeatNotices(desk[p].reg) # {}
       /\ req[p].op = "correct" => notices \intersect SeatNotices(req[p].reg) # {}

LEMMA AdmissionByRegistration ==
  ASSUME DeskInOrder, AdmissionInOrder, NEW p \in Procs, RegistrationStep(p)
  PROVE  AdmissionInOrder'
  <1>1. /\ UNCHANGED records /\ notices \subseteq notices'
        /\ \A r \in Regs : RowMoves(p, r)
    BY StepMovesRows DEF RegistrationStep, DeskInOrder, AttendanceTypeOK
  <1>2. \A r : notices \intersect SeatNotices(r) # {} => notices' \intersect SeatNotices(r) # {}
    BY <1>1
  <1>3. PresentHaveRecords'
    BY <1>1 DEF RowMoves, PresentHaveRecords, Certifiable, AdmissionInOrder
  <1>4. ASSUME NEW r \in Regs, r \in records' \/ reg'[r].status \in SeatStatuses
        PROVE  notices' \intersect SeatNotices(r) # {}
    <2>1. CASE r \in records \/ reg[r].status \in SeatStatuses
      BY <1>2, <2>1 DEF AdmissionInOrder
    <2>2. CASE r \notin records /\ reg[r].status \notin SeatStatuses
      <3>1. reg'[r].status \in SeatStatuses /\ reg'[r].status # reg[r].status
        BY <1>1, <1>4, <2>2
      <3>2. <<"registration.confirmed", r>> \in notices' \/ <<"registration.promoted", r>> \in notices'
        BY <1>1, <2>2, <3>1 DEF RowMoves, SeatStatuses
      <3> QED BY <3>2 DEF SeatNotices
    <2> QED BY <2>1, <2>2
  <1>5. ASSUME NEW q \in Procs, pc'[q] = "desk", desk'[q] # None
        PROVE  /\ req'[q].op = "checkIn" => notices' \intersect SeatNotices(desk'[q].reg) # {}
               /\ req'[q].op = "correct" => notices' \intersect SeatNotices(req'[q].reg) # {}
    BY <1>2, <1>5, RegistrationStepReads DEF AdmissionInOrder
  <1> QED BY <1>3, <1>4, <1>5 DEF AdmissionInOrder

LEMMA AdmissionAtDesk ==
  ASSUME DeskInOrder, AdmissionInOrder, NEW p \in Procs, DeskStep(p)
  PROVE  AdmissionInOrder'
  <1>1. UNCHANGED notices /\ DeskMoves(p)
    BY DeskStepMoves
  <1>2. PresentHaveRecords'
    BY <1>1 DEF DeskMoves, PresentHaveRecords, Certifiable, AdmissionInOrder
  <1>3. ASSUME NEW r \in Regs, r \in records' \/ reg'[r].status \in SeatStatuses
        PROVE  notices' \intersect SeatNotices(r) # {}
    <2>1. CASE r \in records \/ reg[r].status \in SeatStatuses
      BY <1>1, <2>1 DEF AdmissionInOrder
    <2>2. CASE r \notin records /\ reg[r].status \notin SeatStatuses
      <3>1. \/ pc[p] = "desk" /\ desk[p] # None /\ req[p].op = "checkIn" /\ r = desk[p].reg
            \/ pc[p] = "desk" /\ desk[p] # None /\ req[p].op = "correct" /\ r = req[p].reg
        BY <1>1, <1>3, <2>2 DEF DeskMoves
      <3> QED BY <1>1, <3>1 DEF AdmissionInOrder
    <2> QED BY <2>1, <2>2
  <1>4. ASSUME NEW q \in Procs, pc'[q] = "desk", desk'[q] # None
        PROVE  /\ req'[q].op = "checkIn" => notices' \intersect SeatNotices(desk'[q].reg) # {}
               /\ req'[q].op = "correct" => notices' \intersect SeatNotices(req'[q].reg) # {}
    <2>1. CASE pc'[q] = pc[q] /\ req'[q] = req[q] /\ desk'[q] = desk[q]
      BY <1>1, <1>4, <2>1 DEF AdmissionInOrder
    <2>2. CASE req'[q].op \in CertificateOps
      BY <2>2 DEF CertificateOps
    <2>3. CASE /\ q = p /\ req'[p] = req[p] /\ req[p].op = "checkIn"
               /\ desk'[p].reg \in Regs /\ reg[desk'[p].reg].status = "CONFIRMED"
      BY <1>1, <2>3 DEF AdmissionInOrder, SeatStatuses
    <2>4. CASE /\ q = p /\ pc[p] = "desk" /\ req'[p] = req[p] /\ req[p].op = "correct"
               /\ desk[p] # None \/ reg[req[p].reg].status \in SeatStatuses
      <3>1. req[p].reg \in Regs
        BY <2>4 DEF DeskInOrder, AttendanceTypeOK, TypeOK, RequestTypeOK, Requests, OfUser,
                    Registering, CertificateOps
      <3> QED BY <1>1, <2>4, <3>1 DEF AdmissionInOrder
    <2> QED BY <1>4, <2>1, <2>2, <2>3, <2>4, DeskStepReads
  <1> QED BY <1>2, <1>3, <1>4 DEF AdmissionInOrder

LEMMA AdmissionKept ==
  ASSUME DeskInOrder, AdmissionInOrder, [AttendanceNext]_allVars
  PROVE  AdmissionInOrder'
  <1>1. CASE UNCHANGED <<reg, notices, records, pc, req, desk>>
    BY <1>1 DEF AdmissionInOrder, PresentHaveRecords, Certifiable
  <1> QED BY <1>1, AdmissionByRegistration, AdmissionAtDesk DEF AttendanceNext, Tick,
        ClubStatusChange, allVars, vars, dataVars, procVars, deskVars

\* Every reachable state has the desk and the admissions in order.
LEMMA AdmissionAlwaysInOrder == AttendanceSpec => [](DeskInOrder /\ AdmissionInOrder)
  <1>1. AttendanceInit => AdmissionInOrder
    BY DEF AttendanceInit, Init, NothingIssued, NoRow, AdmissionInOrder, PresentHaveRecords,
       Certifiable, SeatStatuses
  <1>2. AttendanceInit => DeskInOrder
    BY DeskStartsInOrder
  <1>3. DeskInOrder /\ AdmissionInOrder /\ [AttendanceNext]_allVars
          => (DeskInOrder /\ AdmissionInOrder)'
    BY DeskStaysInOrder, AdmissionKept
  <1> QED BY <1>1, <1>2, <1>3, PTL DEF AttendanceSpec

\* No order of scans and corrections makes someone count as present, and so
\* eligible for a certificate, without a record of having been let in.
THEOREM ThePresentAreRecorded == AttendanceSpec => []PresentHaveRecords
  <1>1. AdmissionInOrder => PresentHaveRecords
    BY DEF AdmissionInOrder
  <1> QED BY <1>1, AdmissionAlwaysInOrder, PTL

\* Nobody is let in from the waitlist: whoever has a record was told of a seat,
\* however much their registration has changed since the desk read it.
THEOREM TheAdmittedHeldSeats == AttendanceSpec => []AdmittedHeldSeats
  <1>1. DeskInOrder /\ AdmissionInOrder => AdmittedHeldSeats
    BY DEF AdmissionInOrder, AdmittedHeldSeats, SeatNotices, DeskInOrder, AttendanceTypeOK
  <1> QED BY <1>1, AdmissionAlwaysInOrder, PTL
-----------------------------------------------------------------------------
(***************************************************************************)
(* The door alone: where nobody corrects, records and statuses agree.      *)
(***************************************************************************)
DoorInOrder ==
  /\ \A p \in Procs : req[p].op # "correct"
  /\ LockedReadIsCurrent
  /\ DoorAgrees

\* A request is about a correction only if corrections arrive.
LEMMA NobodyCorrects ==
  ASSUME DeskInOrder, NEW p \in Procs, RegistrationStep(p) \/ DeskStep(p),
         "correct" \notin Ops, \A q \in Procs : req[q].op # "correct"
  PROVE  \A q \in Procs : req'[q].op # "correct"
  <1> USE DEF DeskInOrder, AttendanceTypeOK, TypeOK, RequestTypeOK
  <1>1. CASE RegistrationStep(p)
    <2>1. req'[p].op = req[p].op \/ req'[p].op \in Ops \/ req'[p].op \in {"sweep", "publish", "cancelEvent", "none"}
      <3>1. Step(p)
        BY <1>1 DEF RegistrationStep
      <3>2. CASE Finish(p)
        BY <3>2 DEF Finish, NoRequest
      <3>3. CASE Arrive(p)
        BY <3>3 DEF Arrive
      <3>4. CASE SweepScan(p) \/ PublishRead(p) \/ CancelEventRead(p)
        BY <3>4 DEF SweepScan, PublishRead, CancelEventRead, ReadThenWrite
      <3>5. CASE Advance(p)
        BY <3>2, <3>5 DEF Advance, AdvanceRead, AdvanceReread, AdvanceWalk, AdvanceBeaten, Proceed, GoTo
      <3>6. CASE LockEvent(p)
        BY <3>6 DEF LockEvent
      <3>7. CASE Register(p) \/ Cancel(p) \/ Patch(p)
        BY <3>2, <3>7 DEF Register, RegisterConfirmed, RegisterWaitlisted, RegisterUnchanged, Cancel,
           CancelSeat, CancelWaitlisted, CancelRefused, Patch, Update, UpdateRefused, EndTransaction
      <3>8. CASE StatusWrite(p) \/ Die(p)
        BY <3>2, <3>8 DEF StatusWrite, PublishWrite, CancelEventWrite, Die
      <3> QED BY <3>1, <3>3, <3>4, <3>5, <3>6, <3>7, <3>8 DEF Step, Continue
    <2> QED BY <1>1, <2>1, OthersUntouched DEF RegistrationStep
  <1>2. CASE DeskStep(p)
    <2>1. req'[p].op = req[p].op \/ req'[p].op \in CertificateOps \/ req'[p] = NoRequest
      <3>1. CASE EndDesk(p)
        BY <3>1 DEF EndDesk, Finish
      <3>2. CASE \/ CheckInRead(p) \/ CorrectRead(p) \/ CorrectReadEvent(p) \/ IssuePending(p) \/ IssueInsert(p)
        BY <3>2 DEF CheckInRead, CorrectRead, CorrectReadEvent, IssuePending, IssueInsert, Reading, GoOn,
           vars, procVars
      <3>3. CASE IssueRead(p) \/ RevokeRead(p) \/ ReissueRead(p)
        BY <3>3 DEF IssueRead, RevokeRead, ReissueRead, LoadActive, Begin, CertificateOps
      <3> QED BY <1>2, <3>1, <3>2, <3>3 DEF DeskStep, CheckInStep, CorrectStep, CertificateStep,
           CheckInRefused, CheckInWrite, CheckInAlready, CorrectRefused, CorrectLocked, CorrectPresent,
           CorrectAbsent, CorrectAbsentFails, IssueFinish, RevokeWrite, ReissueWrite, ReissueConflict,
           LeaveDesk, CommitAtDesk
    <2> QED BY <1>2, <2>1, DeskStepReads DEF CertificateOps, NoRequest
  <1> QED BY <1>1, <1>2

\* Without corrections, the desk changes what is committed only while nobody
\* holds the event row: no scan makes what a request read under it stale.
LEMMA DoorKeepsLockedReads ==
  ASSUME DeskInOrder, LockedReadIsCurrent, NEW p \in Procs, DeskStep(p), req[p].op # "correct"
  PROVE  LockedReadIsCurrent'
  <1> USE DEF DeskInOrder, AttendanceTypeOK, TypeOK, RequestTypeOK
  <1>1. CASE UNCHANGED vars
    BY <1>1 DEF vars, dataVars, procVars, LockedReadIsCurrent
  <1>2. CASE /\ UNCHANGED lock
             /\ pc'[p] # "locked"
             /\ RowFree \/ UNCHANGED <<event, reg>>
             /\ \A q \in Procs \ {p} : pc'[q] = pc[q] /\ locked'[q] = locked[q]
    <2> HIDE DEF TypeOK
    <2> QED BY <1>2, OutsideLock
  <1>3. CASE EndDesk(p) /\ (RowFree \/ UNCHANGED <<event, reg>>)
    BY <1>2, <1>3 DEF EndDesk, Finish
  <1>4. CASE \E op : Begin(p, op)
    BY <1>2, <1>4 DEF Begin, dataVars
  <1>5. CASE CheckInStep(p)
    BY <1>1, <1>3, <1>5 DEF CheckInStep, CheckInRead, CheckInRefused, CheckInWrite, CheckInAlready,
       Reading, LeaveDesk, CommitAtDesk, EventKeyFree, dataVars
  <1>6. CASE CorrectStep(p)
    BY <1>6 DEF CorrectStep, CorrectRead, CorrectRefused, CorrectReadEvent, CorrectLocked,
       CorrectPresent, CorrectAbsent, CorrectAbsentFails, Correcting, AtDesk
  <1>7. CASE IssueFinish(p)
    BY <1>3, <1>7 DEF IssueFinish, Certifies
  <1>8. CASE RevokeWrite(p) \/ ReissueWrite(p) \/ ReissueConflict(p)
    BY <1>3, <1>8 DEF RevokeWrite, ReissueWrite, ReissueConflict, dataVars
  <1>9. CASE IssueRead(p) \/ RevokeRead(p) \/ ReissueRead(p) \/ IssuePending(p) \/ IssueInsert(p)
    BY <1>1, <1>4, <1>9 DEF IssueRead, RevokeRead, ReissueRead, LoadActive, IssuePending, IssueInsert, GoOn
  <1> QED BY <1>5, <1>6, <1>7, <1>8, <1>9 DEF DeskStep, CertificateStep

LEMMA DoorKept ==
  ASSUME DeskInOrder, DoorInOrder, "correct" \notin Ops, [AttendanceNext]_allVars
  PROVE  DoorInOrder'
  <1>1. CASE UNCHANGED <<lock, pc, req, locked, event, reg, records>>
    BY <1>1 DEF DoorInOrder, LockedReadIsCurrent, DoorAgrees, Certifiable
  <1>2. ASSUME NEW p \in Procs, RegistrationStep(p) PROVE DoorInOrder'
    <2>1. Step(p) /\ TypeOK /\ UNCHANGED records
      BY <1>2 DEF RegistrationStep, DeskInOrder, AttendanceTypeOK
    <2>2. LockedReadIsCurrent'
      BY <2>1, LockedReadKept DEF Next, DoorInOrder
    <2>3. \A r \in Regs : Certifiable(r)' <=> Certifiable(r)
      <3> SUFFICES ASSUME NEW r \in Regs PROVE Certifiable(r)' <=> Certifiable(r)
        OBVIOUS
      <3>1. RowMoves(p, r)
        BY <2>1, StepMovesRows
      <3>2. pc[p] = "locked" => locked[p].rows[r] = reg[r]
        BY DEF DoorInOrder, LockedReadIsCurrent
      <3> QED BY <3>1, <3>2 DEF RowMoves, Certifiable
    <2>4. DoorAgrees'
      BY <2>1, <2>3 DEF DoorAgrees, DoorInOrder
    <2> QED BY <1>2, <2>2, <2>4, NobodyCorrects DEF DoorInOrder
  <1>3. ASSUME NEW p \in Procs, DeskStep(p) PROVE DoorInOrder'
    <2>1. LockedReadIsCurrent'
      BY <1>3, DoorKeepsLockedReads DEF DoorInOrder
    <2>2. DoorAgrees'
      <3>1. \/ UNCHANGED <<reg, records>>
            \/ /\ records' = records \union {desk[p].reg}
               /\ desk[p].reg \in Regs
               /\ \A q \in Regs : reg'[q].status = IF q = desk[p].reg THEN "CHECKED_IN" ELSE reg[q].status
        BY <1>3, DeskStepMoves DEF DeskMoves, DoorInOrder, DeskInOrder, ReadFits
      <3> QED BY <3>1 DEF DoorInOrder, DoorAgrees, Certifiable
    <2> QED BY <1>3, <2>1, <2>2, NobodyCorrects DEF DoorInOrder
  <1> QED BY <1>1, <1>2, <1>3 DEF AttendanceNext, Tick, ClubStatusChange, allVars, vars, dataVars, procVars

\* Where nobody corrects attendance, no scan is lost: not to a second scan, not
\* to a withdrawal and not to the end of the event.  What it takes is that
\* inserting a record waits for whoever holds the event row.
THEOREM DoorAlwaysAgrees ==
  ASSUME "correct" \notin Ops
  PROVE  AttendanceSpec => []DoorAgrees
  <1>1. AttendanceInit => DoorInOrder
    BY DEF AttendanceInit, Init, NothingIssued, NoRow, NoRequest, DoorInOrder, LockedReadIsCurrent,
       DoorAgrees, Certifiable
  <1>2. AttendanceInit => DeskInOrder
    BY DeskStartsInOrder
  <1>3. DeskInOrder /\ DoorInOrder /\ [AttendanceNext]_allVars => (DeskInOrder /\ DoorInOrder)'
    BY DeskStaysInOrder, DoorKept
  <1>4. DoorInOrder => DoorAgrees
    BY DEF DoorInOrder
  <1> QED BY <1>1, <1>2, <1>3, <1>4, PTL DEF AttendanceSpec
=============================================================================
