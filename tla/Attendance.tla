----------------------------- MODULE Attendance -----------------------------
(***************************************************************************)
(* The door and the desk: check-in and correction of attendance, composed  *)
(* with registration, the event's lifecycle and its certificates.          *)
(*                                                                         *)
(* Check-in and correction advance the event first, as Registrations has   *)
(* it, and then work on the registration without the event row's lock.     *)
(* What little order they keep with withdrawal comes from the foreign key: *)
(* inserting an attendance record waits for whoever holds the event row.   *)
(***************************************************************************)
EXTENDS Certificates

VARIABLE records  \* the registrations that have an attendance record

allVars == <<vars, certVars, deskVars, records>>

\* The statuses a correction accepts.
Correctable == SeatStatuses

\* A transaction at the desk commits, or the open-registration index refuses it.
CommitAtDesk(p, rows, present, certRows, sent) ==
  /\ Store(event, rows, {})
  /\ IF Allowed(event, rows)
     THEN records' = present /\ certs' = certRows /\ certNotices' = certNotices \union sent
     ELSE UNCHANGED <<records, certs, certNotices>>
  /\ EndDesk(p)

\* Reading changes nothing but what the request knows.
Reading(p, read) ==
  /\ desk' = [desk EXCEPT ![p] = read]
  /\ UNCHANGED <<vars, certVars, run, records>>

LeaveDesk(p) == EndDesk(p) /\ UNCHANGED <<dataVars, certVars, records>>
-----------------------------------------------------------------------------
(***************************************************************************)
(* POST /events/:id/attendance/scan and /manual                            *)
(***************************************************************************)

\* Mutant: whoever is registered is let in, the waitlist included.
CheckableAnyOpen(p) == OpenOf(reg, req[p].user) \ records

\* The registration that may be let in, if there is one.
Checkable(p) == {r \in OpenOf(reg, req[p].user) \ records : reg[r].status = "CONFIRMED"}

CheckInRead(p) ==
  /\ AtDesk(p, {"checkIn"})
  /\ desk[p] = None
  /\ AcceptsNewActivity(clubStatus)
  /\ \E r \in Checkable(p) : Reading(p, [reg |-> r])

CheckInRefused(p) ==
  /\ AtDesk(p, {"checkIn"})
  /\ desk[p] = None
  /\ ~AcceptsNewActivity(clubStatus) \/ Checkable(p) = {}
  /\ LeaveDesk(p)

\* Mutant: inserting the record does not wait for the event row.
InsertsFreely == TRUE

\* The record's foreign key takes a share of the event row's key.
EventKeyFree == RowFree

CheckInWrite(p) ==
  /\ AtDesk(p, {"checkIn"})
  /\ desk[p] # None
  /\ EventKeyFree
  /\ desk[p].reg \notin records
  /\ CommitAtDesk(p, [reg EXCEPT ![desk[p].reg].status = "CHECKED_IN"],
                  records \union {desk[p].reg}, certs, {})

\* Another operator was faster: the unique index refuses the record, and the
\* answer is theirs.
CheckInAlready(p) ==
  /\ AtDesk(p, {"checkIn"})
  /\ desk[p] # None
  /\ desk[p].reg \in records
  /\ LeaveDesk(p)
-----------------------------------------------------------------------------
(***************************************************************************)
(* PATCH /events/:id/attendance/:registrationId                            *)
(***************************************************************************)
CorrectRead(p) ==
  /\ AtDesk(p, {"correct"})
  /\ desk[p] = None
  /\ reg[req[p].reg].status \in Correctable
  /\ Reading(p, [step |-> "row"])

\* No such registration, or one that has no attendance to correct.
CorrectRefused(p) ==
  /\ AtDesk(p, {"correct"})
  /\ desk[p] = None
  /\ reg[req[p].reg].status \notin Correctable
  /\ LeaveDesk(p)

\* The event and the record are read next.
CorrectReadEvent(p) ==
  /\ AtDesk(p, {"correct"})
  /\ desk[p] = [step |-> "row"]
  /\ Reading(p, [step |-> "write", live |-> event.status = "ONGOING",
                 recorded |-> req[p].reg \in records])

\* Attendance is locked once certificates are out, except to an Admin.
CorrectLocked(p) ==
  /\ AtDesk(p, {"correct"})
  /\ desk[p] = [step |-> "row"]
  /\ event.status = "CERTIFIED"
  /\ LeaveDesk(p)

Correcting(p, present) ==
  AtDesk(p, {"correct"}) /\ desk[p] \notin {None, [step |-> "row"]} /\ req[p].present = present

\* An upsert; only a fresh record waits for the event row.
CorrectPresent(p) ==
  /\ Correcting(p, TRUE)
  /\ req[p].reg \in records \/ EventKeyFree
  /\ CommitAtDesk(p, [reg EXCEPT ![req[p].reg].status = "CHECKED_IN"],
                  records \union {req[p].reg}, certs, {})

\* The record goes, if there was one to see.
WithoutRecord(p) == IF desk[p].recorded THEN records \ {req[p].reg} ELSE records

\* Mutant: a correction to absent takes the record and leaves the status.
StatusOfAbsenteeLeft(p) == "CHECKED_IN"

StatusOfAbsentee(p) == IF desk[p].live THEN "CONFIRMED" ELSE "NO_SHOW"

\* The valid certificate goes with it.
CorrectAbsent(p) ==
  /\ Correcting(p, FALSE)
  /\ desk[p].recorded => req[p].reg \in records
  /\ CommitAtDesk(p, [reg EXCEPT ![req[p].reg].status = StatusOfAbsentee(p)],
                  WithoutRecord(p), Revoked(ActiveOf(req[p].reg)),
                  RevokedNotices(ActiveOf(req[p].reg)))

\* The record it saw is gone: deleting it fails, all is rolled back.
CorrectAbsentFails(p) ==
  /\ Correcting(p, FALSE)
  /\ desk[p].recorded
  /\ req[p].reg \notin records
  /\ LeaveDesk(p)
-----------------------------------------------------------------------------
CheckInStep(p) == CheckInRead(p) \/ CheckInRefused(p) \/ CheckInWrite(p) \/ CheckInAlready(p)

CorrectStep(p) ==
  \/ CorrectRead(p) \/ CorrectRefused(p) \/ CorrectReadEvent(p) \/ CorrectLocked(p)
  \/ CorrectPresent(p) \/ CorrectAbsent(p) \/ CorrectAbsentFails(p)

\* A run that has inserted certificates shares the event row's key until it
\* commits, so nobody gets that row FOR UPDATE meanwhile.
KeyUnshared == \A p \in Clients : run[p].mine = {}

RegistrationStep(p) ==
  /\ Step(p)
  /\ lock' \in {lock, None} \/ KeyUnshared
  /\ desk' = [desk EXCEPT ![p] = IF pc'[p] = "idle" THEN None ELSE @]
  /\ run' = [run EXCEPT ![p] = IF pc'[p] = "idle" THEN NoRun ELSE @]
  /\ UNCHANGED <<certVars, records>>

DeskStep(p) == CheckInStep(p) \/ CorrectStep(p) \/ (CertificateStep(p) /\ UNCHANGED records)

AttendanceNext ==
  \/ (Tick \/ ClubStatusChange) /\ UNCHANGED <<certVars, deskVars, records>>
  \/ \E p \in Procs : RegistrationStep(p) \/ DeskStep(p)

NothingIssued ==
  /\ certs = [c \in Certs |-> NoCert]
  /\ certNotices = {}
  /\ desk = [p \in Procs |-> None]
  /\ run = [p \in Clients |-> NoRun]

AttendanceInit == Init /\ NothingIssued /\ records = {}

AttendanceSpec == AttendanceInit /\ [][AttendanceNext]_allVars
-----------------------------------------------------------------------------
DeskReads == [reg: Regs] \union [step: {"row"}] \union [cert: Certs]
             \union [step: {"write"}, live: BOOLEAN, recorded: BOOLEAN]

ASSUME NoneIsNoRead == None \notin DeskReads

AttendanceTypeOK ==
  /\ TypeOK
  /\ CertificatesTypeOK
  /\ records \subseteq Regs
  /\ desk \in [Procs -> DeskReads \union {None}]
  /\ \A p \in Procs : pc[p] # "desk" => desk[p] = None

\* Whoever counts as present has a record of having been let in: no order of
\* scans and corrections makes someone eligible for a certificate without one.
PresentHaveRecords == \A r \in Regs : Certifiable(r) => r \in records

\* Nobody is let in from the waitlist: whoever has a record was told of a seat.
AdmittedHeldSeats ==
  \A r \in records : notices \intersect {<<"registration.confirmed", r>>,
                                        <<"registration.promoted", r>>} # {}

\* At the door alone, before any correction, records and statuses agree: no
\* scan is lost to a second one, to a withdrawal or to the end of the event.
DoorAgrees == {r \in Regs : Certifiable(r)} = records

\* "CANCELLED [...] would be resurrected": a withdrawal is for good.
WithdrawnStayWithdrawn ==
  [][WithStatus(reg, "CANCELLED") \subseteq WithStatus(reg', "CANCELLED")]_allVars
=============================================================================
