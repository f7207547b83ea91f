---------------------------- MODULE Certificates ----------------------------
(***************************************************************************)
(* Certificates of one event: issuing them for everyone present, revoking  *)
(* and reissuing them one by one.                                          *)
(*                                                                         *)
(* None of these requests takes the event row's lock before it decides:    *)
(* each reads, then writes by id.  `desk` holds what a request has read,   *)
(* `run` what an issuance run has read and inserted so far.  Module        *)
(* Attendance composes these actions with the rest.                        *)
(***************************************************************************)
EXTENDS Registrations

CONSTANT Certs    \* row ids; as many certificates as can ever be issued

VARIABLES
  certs,          \* the certificate rows; an unused id has status "NONE"
  certNotices,    \* the notification rows about certificates
  desk,           \* what each request at the desk has read; None before it does
  run             \* how far each issuance run has come

certVars == <<certs, certNotices>>
deskVars == <<desk, run>>

InsertAttempts == 3

CertRow == [reg: Regs \union {None}, status: {"NONE", "ACTIVE", "REVOKED"}]
NoCert == [reg |-> None, status |-> "NONE"]

IssueRun == [step: {"none", "pending", "insert", "finish"}, status: EventStatuses, attempt: Nat,
             pending: SUBSET Regs, mine: SUBSET Regs]
NoRun == [step |-> "none", status |-> "COMPLETED", attempt |-> 0, pending |-> {}, mine |-> {}]

CertsWith(rows, s) == {c \in Certs : rows[c].status = s}
UnusedCerts == CertsWith(certs, "NONE")
ActiveOf(r) == {c \in CertsWith(certs, "ACTIVE") : certs[c].reg = r}

\* Who a certificate is for, under the CHECK_IN_ONLY policy.
Certifiable(r) == reg[r].status \in {"CHECKED_IN", "ATTENDED"}

AtDesk(p, ops) == pc[p] = "desk" /\ req[p].op \in ops

\* A certificate request begins by reading.
Begin(p, op) ==
  /\ p \in Clients
  /\ op \in Ops
  /\ pc[p] = "idle"
  /\ pc' = [pc EXCEPT ![p] = "desk"]
  /\ req' = [req EXCEPT ![p] = [op |-> op]]
  /\ UNCHANGED <<now, clubStatus, dataVars, lock, seen, locked, certVars>>

\* Mutant: what an issuance run had read stays behind.
EndDeskStillOpen(p) ==
  /\ Finish(p)
  /\ UNCHANGED <<now, clubStatus, lock, deskVars>>

\* A request at the desk is over.
EndDesk(p) ==
  /\ Finish(p)
  /\ desk' = [desk EXCEPT ![p] = None]
  /\ run' = [run EXCEPT ![p] = NoRun]
  /\ UNCHANGED <<now, clubStatus, lock>>
-----------------------------------------------------------------------------
(***************************************************************************)
(* POST /events/:id/certificates/issue                                     *)
(***************************************************************************)

\* The event is read outside the transaction, and not again.
IssueRead(p) ==
  /\ event.status \in {"COMPLETED", "CERTIFIED"}
  /\ Begin(p, "issue")
  /\ run' = [run EXCEPT ![p] = [NoRun EXCEPT !.step = "pending", !.status = event.status]]
  /\ UNCHANGED desk

Issuing(p, step) == p \in Clients /\ run[p].step = step

GoOn(p, state) ==
  /\ run' = [run EXCEPT ![p] = state]
  /\ UNCHANGED <<vars, certVars, desk>>

\* Those who are owed a certificate.  A run sees what it has itself inserted.
Pending(p) == {r \in Regs \ run[p].mine : Certifiable(r) /\ ActiveOf(r) = {}}

IssuePending(p) ==
  /\ Issuing(p, "pending")
  /\ GoOn(p, [run[p] EXCEPT !.pending = Pending(p), !.attempt = @ + 1,
                            !.step = IF Pending(p) = {} THEN "finish" ELSE "insert"])

\* What an open run has inserted nobody sees yet, but it holds its place in
\* the unique index: inserting for the same registrations waits.
IndexFree(rows) == \A q \in Clients : run[q].mine \intersect rows = {}

\* Mutant: the second run inserts again what the first one inserted.
InsertableAll(p) == run[p].pending

\* INSERT ... ON CONFLICT DO NOTHING skips those with an active certificate.
Insertable(p) == {r \in run[p].pending : ActiveOf(r) = {}}

\* Falling short means another run was faster: read again what is pending.
IssueInsert(p) ==
  /\ Issuing(p, "insert")
  /\ RowFree
  /\ IndexFree(run[p].pending)
  /\ GoOn(p, [run[p] EXCEPT
       !.mine = @ \union Insertable(p),
       !.step = IF Insertable(p) = run[p].pending \/ run[p].attempt = InsertAttempts
                THEN "finish" ELSE "pending"])

\* The conditional write of CERTIFIED, if the event was COMPLETED when read.
Certifies(p) == run[p].status = "COMPLETED" /\ event.status = "COMPLETED"

\* Mutant: only the run that certifies the event announces anything.
IssuedNoticesFirstTime(p, rows) ==
  IF Certifies(p) THEN {<<"certificate.issued", c>> : c \in CertsWith(rows, "ACTIVE")} ELSE {}

\* Every active certificate of the event is announced; the dedupe key absorbs
\* a second announcement.
IssuedNotices(p, rows) == {<<"certificate.issued", c>> : c \in CertsWith(rows, "ACTIVE")}

IssueFinish(p) ==
  /\ Issuing(p, "finish")
  /\ run[p].status = "COMPLETED" => RowFree
  /\ \E id \in [run[p].mine -> UnusedCerts] :
       /\ \A r, s \in run[p].mine : id[r] = id[s] => r = s
       /\ certs' = [c \in Certs |->
            IF \E r \in run[p].mine : id[r] = c
            THEN [reg |-> CHOOSE r \in run[p].mine : id[r] = c, status |-> "ACTIVE"]
            ELSE certs[c]]
  /\ certNotices' = certNotices \union IssuedNotices(p, certs')
  /\ IF Certifies(p)
     THEN event' = [event EXCEPT !.status = "CERTIFIED"]
     ELSE UNCHANGED event
  /\ EndDesk(p)
  /\ UNCHANGED <<reg, notices, tripped>>
-----------------------------------------------------------------------------
(***************************************************************************)
(* POST /certificates/:id/revoke and /reissue                              *)
(***************************************************************************)
LoadActive(p, op) ==
  /\ Begin(p, op)
  /\ \E c \in CertsWith(certs, "ACTIVE") : desk' = [desk EXCEPT ![p] = [cert |-> c]]
  /\ UNCHANGED run

RevokeRead(p) == LoadActive(p, "revoke")
ReissueRead(p) == LoadActive(p, "reissue")

Revoked(gone) ==
  [c \in Certs |-> IF c \in gone THEN [reg |-> certs[c].reg, status |-> "REVOKED"] ELSE certs[c]]

RevokedNotices(gone) == {<<"certificate.revoked", c>> : c \in gone}

\* By id: whatever the row has become since it was read.
RevokeWrite(p) ==
  /\ AtDesk(p, {"revoke"})
  /\ certs' = Revoked({desk[p].cert})
  /\ certNotices' = certNotices \union RevokedNotices({desk[p].cert})
  /\ EndDesk(p)
  /\ UNCHANGED dataVars

\* No other active certificate stands in the new one's way.
Replaceable(p) == ActiveOf(certs[desk[p].cert].reg) \subseteq {desk[p].cert}

\* The old row is revoked and a new one inserted for the same registration.
ReissueWrite(p) ==
  /\ AtDesk(p, {"reissue"})
  /\ RowFree
  /\ IndexFree({certs[desk[p].cert].reg})
  /\ Replaceable(p)
  /\ \E c \in UnusedCerts :
       /\ certs' = [Revoked({desk[p].cert}) EXCEPT
            ![c] = [reg |-> certs[desk[p].cert].reg, status |-> "ACTIVE"]]
       /\ certNotices' = certNotices \union RevokedNotices({desk[p].cert})
                           \union {<<"certificate.issued", c>>}
  /\ EndDesk(p)
  /\ UNCHANGED dataVars

\* Another reissue was faster: the unique index refuses, all is rolled back.
ReissueConflict(p) ==
  /\ AtDesk(p, {"reissue"})
  /\ ~Replaceable(p)
  /\ EndDesk(p)
  /\ UNCHANGED <<dataVars, certVars>>

CertificateStep(p) ==
  \/ IssueRead(p) \/ IssuePending(p) \/ IssueInsert(p) \/ IssueFinish(p)
  \/ RevokeRead(p) \/ RevokeWrite(p)
  \/ ReissueRead(p) \/ ReissueWrite(p) \/ ReissueConflict(p)
-----------------------------------------------------------------------------
CertificatesTypeOK ==
  /\ certs \in [Certs -> CertRow]
  /\ \A c \in Certs : certs[c].status # "NONE" => certs[c].reg \in Regs
  /\ certNotices \subseteq {"certificate.issued", "certificate.revoked"} \X Certs
  /\ run \in [Clients -> IssueRun]

\* However many runs, reissues and corrections overlap, a registration never
\* has two valid certificates.
OneActivePerRegistration ==
  \A c, d \in CertsWith(certs, "ACTIVE") : certs[c].reg = certs[d].reg => c = d

\* No document changes standing behind its holder's back: every certificate
\* was announced, and so was every revocation, whichever of the three ways of
\* revoking it came by.
HoldersAreTold ==
  \A c \in Certs :
    /\ certs[c].status # "NONE" => <<"certificate.issued", c>> \in certNotices
    /\ certs[c].status = "REVOKED" => <<"certificate.revoked", c>> \in certNotices

\* "not having been there": a person now recorded as absent holds no valid
\* certificate.
AbsenteesHoldNoCertificate ==
  \A c \in CertsWith(certs, "ACTIVE") : Certifiable(certs[c].reg)
=============================================================================
