------------------------ MODULE RegistrationsProofs ------------------------
(***************************************************************************)
(* What holds of Registrations for every number of users, rows, requests,  *)
(* patches and clock ticks: the types, the exact seat count, that the      *)
(* event row's lock keeps the database constraints from ever firing, that  *)
(* the requests are serializable, and what follows from that: the queue,   *)
(* the notices, the end and the cancellation of an event, and the seat     *)
(* ledger.                                                                 *)
(***************************************************************************)
EXTENDS RegistrationsLedger, FiniteMaxima

\* The statuses an event can have, by name.
LEMMA StatusNames ==
  EventStatuses = {"CANCELLED", "DRAFT", "PUBLISHED", "REGISTRATION_CLOSED",
                   "ONGOING", "COMPLETED", "CERTIFIED"}
  BY DEF EventStatuses, ChainIndex

\* What the clock calls for is a status.
LEMMA DueStatusType ==
  ASSUME NEW s \in EventStatuses, NEW w \in Windows, NEW t \in Nat
  PROVE  DueStatus(s, w, t) \in EventStatuses
  BY StatusNames DEF DueStatus, ClockFree
-----------------------------------------------------------------------------
(***************************************************************************)
(* Types of the helpers                                                    *)
(***************************************************************************)

\* A request's own variables after it ends.
LEMMA FinishType ==
  ASSUME RequestTypeOK, NEW p \in Procs, Finish(p)
  PROVE  RequestTypeOK' <=> lock' \in Procs \union {None}
  <1>1. NoRequest \in Requests
    BY DEF NoRequest, Requests, CertificateOps
  <1> QED BY <1>1 DEF RequestTypeOK, Finish

\* ... and after it goes on from the advance.
LEMMA ProceedType ==
  ASSUME RequestTypeOK, NEW p \in Procs, NEW s, Proceed(p, s), UNCHANGED lock
  PROVE  RequestTypeOK'
  <1>1. CASE Finish(p)
    BY <1>1, FinishType DEF RequestTypeOK
  <1>2. CASE ~Finish(p)
    BY <1>2 DEF RequestTypeOK, Proceed, AfterAdvance
  <1> QED BY <1>1, <1>2

\* What a transaction may ask to store: the count need not be within the
\* constraints, nor even natural.
CandidateRow == [status: EventStatuses, capacity: Nat \ {0}, confirmedCount: Int,
                 waitlistEnabled: BOOLEAN, windows: Windows]

\* A transaction leaves the stored data well typed, whether it is stored or refused.
LEMMA StoreType ==
  ASSUME DataTypeOK,
         NEW e \in CandidateRow, NEW rows \in [Regs -> RegRow],
         \A r \in Regs : IsOpen(rows[r]) => rows[r].user \in Users,
         NEW sent \in SUBSET Notices,
         Store(e, rows, sent)
  PROVE  DataTypeOK'
  <1>1. CASE Allowed(e, rows)
    <2>1. e \in EventRow
      BY <1>1 DEF Allowed, CapacityBounds, EventRow, CandidateRow
    <2> QED BY <1>1, <2>1 DEF Store, DataTypeOK
  <1>2. CASE ~Allowed(e, rows)
    BY <1>2 DEF Store, DataTypeOK
  <1> QED BY <1>1, <1>2

\* Promotion rewrites rows into rows.
LEMMA PromotedType ==
  ASSUME NEW rows \in [Regs -> RegRow], NEW chosen \in SUBSET Regs
  PROVE  Promoted(rows, chosen) \in [Regs -> RegRow]
  BY DEF Promoted, RegRow, RegStatuses, SeatStatuses

\* What the promoted are told is a notice.
LEMMA PromotionNoticesType ==
  ASSUME NEW chosen \in SUBSET Regs
  PROVE  PromotionNotices(chosen) \in SUBSET Notices
  BY DEF PromotionNotices, Notices

\* The promoted come off the waitlist, no more of them than there are seats.
LEMMA PromotableBound ==
  ASSUME NEW seats \in Int, NEW chosen \in Promotable(seats)
  PROVE  /\ chosen \subseteq Waiting
         /\ Cardinality(chosen) \in Nat
         /\ Cardinality(chosen) <= seats \/ chosen = {}
  <1>1. Waiting \subseteq Regs /\ IsFiniteSet(Waiting)
    BY FiniteRows, FS_Subset DEF Waiting, WithStatus
  <1>2. CASE seats <= 0
    BY <1>2, FS_EmptySet DEF Promotable
  <1>3. CASE seats > 0
    <2>1. /\ chosen \subseteq Waiting
          /\ Cardinality(chosen) = Min({seats, Cardinality(Waiting)})
      BY <1>3 DEF Promotable, FrontOfQueue
    <2>2. Cardinality(Waiting) \in Nat /\ Cardinality(chosen) \in Nat
      BY <1>1, <2>1, FS_CardinalityType, FS_Subset
    <2>3. Min({seats, Cardinality(Waiting)}) <= seats
      BY <2>2, MinOfPair
    <2> QED BY <2>1, <2>2, <2>3
  <1> QED BY <1>2, <1>3

\* The next position on the waitlist is a natural number: the waitlist is finite.
LEMMA NextWaitlistPositionType ==
  ASSUME DataTypeOK
  PROVE  NextWaitlistPosition \in Nat
  <1> DEFINE Position == [r \in Waiting |-> reg[r].position]
             Positions == {reg[r].position : r \in Waiting}
  <1>1. Waiting \subseteq Regs /\ IsFiniteSet(Waiting)
    BY FiniteRows, FS_Subset DEF Waiting, WithStatus
  <1>2. Positions \subseteq Nat
    BY <1>1 DEF DataTypeOK, RegRow
  <1>3. IsFiniteSet(Positions)
    <2>1. Position \in Surjection(Waiting, Positions)
      BY DEF Surjection
    <2> HIDE DEF Position, Positions
    <2> QED BY <1>1, <2>1, FS_Surjection
  <1>4. IsFiniteSet({0} \union Positions)
    BY <1>3, FS_Singleton, FS_Union
  <1>5. Max({0} \union Positions) \in {0} \union Positions
    <2> HIDE DEF Positions
    <2>1. {0} \union Positions \subseteq Int /\ {0} \union Positions # {}
      BY <1>2
    <2> QED BY <1>4, <2>1, MaxOfFiniteSet
  <1> QED BY <1>2, <1>5 DEF NextWaitlistPosition
-----------------------------------------------------------------------------
(***************************************************************************)
(* The requests.  Each lemma below covers the actions of one kind.         *)
(***************************************************************************)

\* A request that begins keeps the types.
LEMMA ArrivalType ==
  ASSUME TypeOK, NEW p \in Procs,
         Arrive(p) \/ SweepScan(p) \/ PublishRead(p) \/ CancelEventRead(p)
  PROVE  TypeOK'
  <1> USE DEF TypeOK, DataTypeOK, RequestTypeOK, dataVars
  <1>1. CASE Arrive(p)
    BY <1>1 DEF Arrive
  <1>2. CASE SweepScan(p)
    BY <1>2 DEF SweepScan, Requests, CertificateOps
  <1>3. CASE PublishRead(p)
    BY <1>3 DEF PublishRead, ReadThenWrite, Requests, CertificateOps
  <1>4. CASE CancelEventRead(p)
    BY <1>4 DEF CancelEventRead, ReadThenWrite, Requests, CertificateOps
  <1> QED BY <1>1, <1>2, <1>3, <1>4

\* The lifecycle advance keeps the types: each of its two reads, the walk, and
\* the walk that finds itself overtaken.
LEMMA AdvanceType ==
  ASSUME TypeOK, NEW p \in Procs, Advance(p)
  PROVE  TypeOK'
  <1>1. now \in Nat /\ [status |-> event.status, windows |-> event.windows, at |-> now] \in Reads
    BY ClockBound DEF TypeOK, DataTypeOK, EventRow, Reads
  <1>2. CASE AdvanceRead(p)
    <2>1. DataTypeOK' /\ UNCHANGED <<now, clubStatus, lock>>
      BY <1>2 DEF AdvanceRead, dataVars, TypeOK, DataTypeOK
    <2>2. CASE Proceed(p, event.status)
      BY <2>1, <2>2, ProceedType DEF TypeOK
    <2>3. CASE Read(p, now) /\ GoTo(p, "reread")
      <3>1. RequestTypeOK'
        BY <1>1, <2>1, <2>3 DEF Read, GoTo, TypeOK, RequestTypeOK
      <3> QED BY <2>1, <3>1 DEF TypeOK
    <2> QED BY <1>2, <2>2, <2>3 DEF AdvanceRead
  <1>3. CASE AdvanceReread(p)
    <2>1. DataTypeOK' /\ UNCHANGED <<now, clubStatus, lock>>
      BY <1>3 DEF AdvanceReread, dataVars, TypeOK, DataTypeOK
    <2>2. CASE Proceed(p, event.status)
      BY <2>1, <2>2, ProceedType DEF TypeOK
    <2>3. CASE Read(p, seen[p].at) /\ GoTo(p, "walk")
      <3>1. [status |-> event.status, windows |-> event.windows, at |-> seen[p].at] \in Reads
        BY <1>3 DEF AdvanceReread, TypeOK, DataTypeOK, RequestTypeOK, EventRow, Reads
      <3>2. RequestTypeOK'
        BY <3>1, <2>1, <2>3 DEF Read, GoTo, TypeOK, RequestTypeOK
      <3> QED BY <2>1, <3>2 DEF TypeOK
    <2> QED BY <1>3, <2>2, <2>3 DEF AdvanceReread
  <1>4. CASE AdvanceWalk(p)
    <2> DEFINE due == DueFor(p)
               e == [event EXCEPT !.status = due]
    <2>1. due \in EventStatuses
      BY <1>4, DueStatusType DEF AdvanceWalk, DueFor, TypeOK, RequestTypeOK, Reads
    <2>2. e \in CandidateRow
      BY <2>1 DEF TypeOK, DataTypeOK, EventRow, CandidateRow
    <2>3. /\ NoShows(due) \in [Regs -> RegRow]
          /\ \A r \in Regs : IsOpen(NoShows(due)[r]) => NoShows(due)[r].user \in Users
      BY DEF NoShows, TypeOK, DataTypeOK, RegRow, RegStatuses, SeatStatuses, IsOpen
    <2>4. DataTypeOK'
      BY <1>4, <2>2, <2>3, StoreType DEF AdvanceWalk, TypeOK
    <2>5. RequestTypeOK'
      BY <1>4, ProceedType DEF AdvanceWalk, TypeOK
    <2> QED BY <1>4, <2>4, <2>5 DEF AdvanceWalk, TypeOK
  <1>5. CASE AdvanceBeaten(p)
    <2>1. RequestTypeOK'
      BY <1>5, ProceedType DEF AdvanceBeaten, TypeOK
    <2> QED BY <1>5, <2>1 DEF AdvanceBeaten, dataVars, TypeOK, DataTypeOK
  <1> QED BY <1>2, <1>3, <1>4, <1>5 DEF Advance

\* Taking the event row keeps the types.
LEMMA LockEventType ==
  ASSUME TypeOK, NEW p \in Procs, LockEvent(p)
  PROVE  TypeOK'
  <1>1. event \in EventRow /\ clubStatus \in ClubStatuses /\ reg \in [Regs -> RegRow]
    BY DEF TypeOK, DataTypeOK
  <1>2. [event |-> event, club |-> clubStatus, rows |-> reg] \in LockedReads
    BY <1>1 DEF LockedReads
  <1> QED BY <1>2 DEF LockEvent, TypeOK, DataTypeOK, RequestTypeOK, dataVars

\* The end of a transaction, when what it stored was well typed.
LEMMA EndTransactionType ==
  ASSUME TypeOK, NEW p \in Procs, EndTransaction(p), DataTypeOK'
  PROVE  TypeOK'
  BY FinishType DEF EndTransaction, TypeOK

\* Registering keeps the types, wherever the person ends up.
LEMMA RegisterType ==
  ASSUME TypeOK, NEW p \in Procs, Register(p)
  PROVE  TypeOK'
  <1>1. CASE RegisterConfirmed(p)
    <2>1. PICK r \in Unused :
            Store([event EXCEPT !.confirmedCount = @ + 1],
                  [reg EXCEPT ![r] = [user |-> req[p].user, status |-> "CONFIRMED", position |-> 0]],
                  {<<"registration.confirmed", r>>})
      BY <1>1 DEF RegisterConfirmed
    <2> DEFINE row == [user |-> req[p].user, status |-> "CONFIRMED", position |-> 0]
               rows == [reg EXCEPT ![r] = row]
               e == [event EXCEPT !.confirmedCount = @ + 1]
    <2>2. r \in Regs /\ req[p].user \in Users
      BY <1>1 DEF RegisterConfirmed, Holds, Registering, OfUser, Requests, CertificateOps, Unused, WithStatus,
                  TypeOK, RequestTypeOK
    <2>3. row \in RegRow
      BY <2>2 DEF RegRow, RegStatuses, SeatStatuses
    <2>4. rows \in [Regs -> RegRow] /\ \A q \in Regs : IsOpen(rows[q]) => rows[q].user \in Users
      BY <2>2, <2>3 DEF TypeOK, DataTypeOK
    <2>5. e \in CandidateRow
      BY DEF TypeOK, DataTypeOK, EventRow, CandidateRow
    <2>6. {<<"registration.confirmed", r>>} \in SUBSET Notices
      BY <2>2 DEF Notices
    <2>7. DataTypeOK'
      BY <2>1, <2>4, <2>5, <2>6, StoreType DEF TypeOK
    <2> QED BY <1>1, <2>7, EndTransactionType DEF RegisterConfirmed
  <1>2. CASE RegisterWaitlisted(p)
    <2>1. PICK r \in Unused :
            Store(event,
                  [reg EXCEPT ![r] = [user |-> req[p].user, status |-> "WAITLISTED",
                                      position |-> NextWaitlistPosition]],
                  {<<"registration.waitlisted", r>>})
      BY <1>2 DEF RegisterWaitlisted
    <2> DEFINE row == [user |-> req[p].user, status |-> "WAITLISTED",
                       position |-> NextWaitlistPosition]
               rows == [reg EXCEPT ![r] = row]
    <2>2. r \in Regs /\ req[p].user \in Users
      BY <1>2 DEF RegisterWaitlisted, Holds, Registering, OfUser, Requests, CertificateOps, Unused, WithStatus,
                  TypeOK, RequestTypeOK
    <2>3. row \in RegRow
      BY <2>2, NextWaitlistPositionType DEF TypeOK, RegRow, RegStatuses, SeatStatuses
    <2>4. rows \in [Regs -> RegRow] /\ \A q \in Regs : IsOpen(rows[q]) => rows[q].user \in Users
      BY <2>2, <2>3 DEF TypeOK, DataTypeOK
    <2>5. event \in CandidateRow
      BY DEF TypeOK, DataTypeOK, EventRow, CandidateRow
    <2>6. {<<"registration.waitlisted", r>>} \in SUBSET Notices
      BY <2>2 DEF Notices
    <2>7. DataTypeOK'
      BY <2>1, <2>4, <2>5, <2>6, StoreType DEF TypeOK
    <2> QED BY <1>2, <2>7, EndTransactionType DEF RegisterWaitlisted
  <1>3. CASE RegisterUnchanged(p)
    BY <1>3, EndTransactionType DEF RegisterUnchanged, TypeOK, DataTypeOK, dataVars
  <1> QED BY <1>1, <1>2, <1>3 DEF Register

\* Withdrawing a row that was somebody's.
LEMMA CancelledType ==
  ASSUME DataTypeOK, NEW p \in Procs, NEW r \in Withdrawable(p)
  PROVE  /\ r \in Regs
         /\ Cancelled(r) \in [Regs -> RegRow]
         /\ \A q \in Regs : IsOpen(Cancelled(r)[q]) => Cancelled(r)[q].user \in Users
  <1>1. r \in Regs
    BY DEF Withdrawable, OpenOf, OpenRows
  <1>2. [reg[r] EXCEPT !.status = "CANCELLED"] \in RegRow
    BY <1>1 DEF DataTypeOK, RegRow, RegStatuses
  <1>3. Cancelled(r) \in [Regs -> RegRow]
    BY <1>1, <1>2 DEF Cancelled, DataTypeOK
  <1>4. \A q \in Regs : IsOpen(Cancelled(r)[q]) => Cancelled(r)[q].user \in Users
    BY <1>1 DEF Cancelled, DataTypeOK, IsOpen, RegRow
  <1> QED BY <1>1, <1>3, <1>4

\* Withdrawing keeps the types, with or without a promotion.
LEMMA CancelType ==
  ASSUME TypeOK, NEW p \in Procs, Cancel(p)
  PROVE  TypeOK'
  <1>1. CASE CancelSeat(p)
    <2> DEFINE seats == IF locked[p].event.status = "CANCELLED" THEN 0 ELSE 1
    <2>1. PICK r \in Withdrawable(p), chosen \in Promotable(seats) :
            Store([event EXCEPT !.confirmedCount = (@ - 1) + Cardinality(chosen)],
                  Promoted(Cancelled(r), chosen), PromotionNotices(chosen))
      BY <1>1 DEF CancelSeat
    <2> DEFINE e == [event EXCEPT !.confirmedCount = (@ - 1) + Cardinality(chosen)]
               rows == Promoted(Cancelled(r), chosen)
    <2>2. chosen \subseteq Waiting /\ Cardinality(chosen) \in Nat
      BY PromotableBound
    <2>3. chosen \subseteq Regs /\ \A q \in chosen : reg[q].status = "WAITLISTED"
      BY <2>2 DEF Waiting, WithStatus
    <2>4. rows \in [Regs -> RegRow]
      BY <2>3, CancelledType, PromotedType DEF TypeOK
    <2>5. \A q \in Regs : IsOpen(rows[q]) => rows[q].user \in Users
      <3>1. \A q \in Regs : Cancelled(r)[q] \in RegRow /\ Cancelled(r)[q].user = reg[q].user
        BY CancelledType DEF Cancelled, TypeOK, DataTypeOK, RegRow
      <3>2. \A q \in Regs : rows[q].user = reg[q].user
        BY <3>1 DEF Promoted, RegRow
      <3>3. \A q \in chosen : reg[q].user \in Users
        BY <2>3 DEF TypeOK, DataTypeOK, IsOpen
      <3>4. \A q \in Regs \ chosen : rows[q] = Cancelled(r)[q]
        BY DEF Promoted
      <3> QED BY <3>2, <3>3, <3>4, CancelledType DEF TypeOK
    <2>6. e \in CandidateRow
      BY <2>2 DEF TypeOK, DataTypeOK, EventRow, CandidateRow
    <2>7. DataTypeOK'
      BY <2>1, <2>3, <2>4, <2>5, <2>6, StoreType, PromotionNoticesType DEF TypeOK
    <2> QED BY <1>1, <2>7, EndTransactionType DEF CancelSeat
  <1>2. CASE CancelWaitlisted(p)
    <2>1. PICK r \in Withdrawable(p) : Store(event, Cancelled(r), {})
      BY <1>2 DEF CancelWaitlisted
    <2>2. event \in CandidateRow /\ {} \in SUBSET Notices
      BY DEF TypeOK, DataTypeOK, EventRow, CandidateRow
    <2>3. DataTypeOK'
      BY <2>1, <2>2, CancelledType, StoreType DEF TypeOK
    <2> QED BY <1>2, <2>3, EndTransactionType DEF CancelWaitlisted
  <1>3. CASE CancelRefused(p)
    BY <1>3, EndTransactionType DEF CancelRefused, TypeOK, DataTypeOK, dataVars
  <1> QED BY <1>1, <1>2, <1>3 DEF Cancel

\* A patch of well-typed fields leaves a well-typed event row.
LEMMA MergedType ==
  ASSUME TypeOK, NEW p \in Procs, Holds(p, {"update"})
  PROVE  /\ Merged(p) \in EventRow
         /\ Merged(p).confirmedCount = event.confirmedCount
  <1>1. req[p].patch \in PatchBodies
    BY KnownPatches DEF Holds, TypeOK, RequestTypeOK, Requests, CertificateOps, OfUser, Registering
  <1>2. locked[p].event \in EventRow
    BY DEF Holds, TypeOK, RequestTypeOK, LockedReads
  <1> DEFINE e == locked[p].event
             b == req[p].patch
             w == [field \in DOMAIN e.windows |-> Merge(b[field], e.windows[field])]
  <1>3. w \in Windows
    <2>1. DOMAIN e.windows = {"registrationOpensAt", "registrationClosesAt", "startsAt", "endsAt"}
      BY <1>2 DEF EventRow, Windows
    <2>2. \A field \in DOMAIN e.windows : w[field] \in Nat
      BY <1>1, <1>2, <2>1 DEF PatchBodies, EventRow, Windows, Merge
    <2> QED BY <2>1, <2>2 DEF Windows
  <1>4. Merge(b.capacity, event.capacity) \in Nat \ {0}
    BY <1>1 DEF PatchBodies, Merge, TypeOK, DataTypeOK, EventRow
  <1>5. Merge(b.waitlistEnabled, event.waitlistEnabled) \in BOOLEAN
    BY <1>1 DEF PatchBodies, Merge, TypeOK, DataTypeOK, EventRow
  <1>6. Merged(p) = [event EXCEPT !.capacity = Merge(b.capacity, @),
                                  !.waitlistEnabled = Merge(b.waitlistEnabled, @), !.windows = w]
    BY DEF Merged
  <1> HIDE DEF w
  <1> QED BY <1>3, <1>4, <1>5, <1>6 DEF TypeOK, DataTypeOK, EventRow

\* Promoting people off the waitlist keeps every open row somebody's.
LEMMA PromotedOwners ==
  ASSUME DataTypeOK, NEW chosen \in SUBSET Waiting
  PROVE  /\ Promoted(reg, chosen) \in [Regs -> RegRow]
         /\ \A q \in Regs : IsOpen(Promoted(reg, chosen)[q]) => Promoted(reg, chosen)[q].user \in Users
  <1>1. chosen \subseteq Regs /\ \A q \in chosen : IsOpen(reg[q])
    BY DEF Waiting, WithStatus, IsOpen
  <1>2. Promoted(reg, chosen) \in [Regs -> RegRow]
    BY <1>1, PromotedType DEF DataTypeOK
  <1>3. \A q \in Regs : Promoted(reg, chosen)[q].user = reg[q].user
    BY DEF Promoted, DataTypeOK, RegRow
  <1>4. \A q \in Regs \ chosen : Promoted(reg, chosen)[q] = reg[q]
    BY DEF Promoted
  <1> QED BY <1>1, <1>2, <1>3, <1>4 DEF DataTypeOK

\* The seats a patch frees are a number.
LEMMA HeadroomType ==
  ASSUME TypeOK, NEW p \in Procs, Holds(p, {"update"})
  PROVE  Headroom(p) \in Int
  BY MergedType DEF Headroom, Holds, TypeOK, RequestTypeOK, LockedReads, EventRow

\* PATCH /events/:id keeps the types.
LEMMA PatchType ==
  ASSUME TypeOK, NEW p \in Procs, Patch(p)
  PROVE  TypeOK'
  <1>1. CASE Update(p)
    <2>0. Holds(p, {"update"})
      BY <1>1 DEF Update
    <2>1. PICK chosen \in Promotable(Headroom(p)) :
            Store([Merged(p) EXCEPT !.confirmedCount = @ + Cardinality(chosen)],
                  Promoted(reg, chosen), PromotionNotices(chosen))
      BY <1>1 DEF Update
    <2> DEFINE e == [Merged(p) EXCEPT !.confirmedCount = @ + Cardinality(chosen)]
    <2>2. chosen \subseteq Waiting /\ Cardinality(chosen) \in Nat
      BY <2>0, HeadroomType, PromotableBound
    <2>3. chosen \in SUBSET Regs
      BY <2>2 DEF Waiting, WithStatus
    <2>4. e \in CandidateRow
      BY <2>0, <2>2, MergedType DEF EventRow, CandidateRow
    <2>5. DataTypeOK'
      BY <2>1, <2>2, <2>3, <2>4, PromotedOwners, PromotionNoticesType, StoreType DEF TypeOK
    <2> QED BY <1>1, <2>5, EndTransactionType DEF Update
  <1>2. CASE UpdateRefused(p)
    BY <1>2, EndTransactionType DEF UpdateRefused, TypeOK, DataTypeOK, dataVars
  <1> QED BY <1>1, <1>2 DEF Patch

\* Publishing and cancelling an event keep the types.
LEMMA StatusWriteType ==
  ASSUME TypeOK, NEW p \in Procs, StatusWrite(p)
  PROVE  TypeOK'
  <1>1. \A s \in EventStatuses : [event EXCEPT !.status = s] \in CandidateRow
    BY DEF TypeOK, DataTypeOK, EventRow, CandidateRow
  <1>2. CASE PublishWrite(p)
    <2>1. {} \in SUBSET Notices /\ "PUBLISHED" \in EventStatuses
      BY StatusNames
    <2>2. DataTypeOK'
      BY <1>1, <1>2, <2>1, StoreType DEF PublishWrite, TypeOK, DataTypeOK
    <2> QED BY <1>2, <2>2 DEF PublishWrite, TypeOK, RequestTypeOK
  <1>3. CASE CancelEventWrite(p)
    <2>1. Holders \subseteq Users
      BY DEF Holders, OpenRows, TypeOK, DataTypeOK
    <2>2. {<<"event.cancelled", u>> : u \in Holders} \in SUBSET Notices
      BY <2>1 DEF Notices
    <2>3. "CANCELLED" \in EventStatuses
      BY StatusNames
    <2>4. DataTypeOK'
      BY <1>1, <1>3, <2>2, <2>3, StoreType DEF CancelEventWrite, TypeOK, DataTypeOK
    <2> QED BY <1>3, <2>4, FinishType DEF CancelEventWrite, TypeOK, RequestTypeOK
  <1> QED BY <1>2, <1>3 DEF StatusWrite

\* A request that dies lets go of the row and of everything it had read.
LEMMA DieType ==
  ASSUME TypeOK, NEW p \in Procs, Die(p)
  PROVE  TypeOK'
  <1>1. RequestTypeOK'
    BY FinishType DEF Die, TypeOK, RequestTypeOK
  <1> QED BY <1>1 DEF Die, TypeOK, DataTypeOK, dataVars

\* The event as created, with no registration yet, is well typed.
LEMMA InitType ==
  ASSUME Init
  PROVE  TypeOK
  <1>1. event \in EventRow
    BY ValidDrafts, StatusNames DEF Init, DraftBodies, EventRow
  <1>2. NoRow \in RegRow /\ ~IsOpen(NoRow)
    BY DEF NoRow, RegRow, RegStatuses, IsOpen
  <1>3. DataTypeOK
    BY <1>1, <1>2 DEF Init, DataTypeOK
  <1>4. NoRequest \in Requests
    BY DEF NoRequest, Requests, CertificateOps
  <1>5. RequestTypeOK
    BY <1>4 DEF Init, RequestTypeOK
  <1> QED BY <1>3, <1>5, ClockBound DEF Init, TypeOK, ClubStatuses

\* The types are an inductive invariant by themselves: every step of every
\* request keeps them.
LEMMA NextType ==
  ASSUME TypeOK, [Next]_vars
  PROVE  TypeOK'
  <1> USE DEF TypeOK, DataTypeOK, RequestTypeOK
  <1>1. CASE UNCHANGED vars
    BY <1>1 DEF vars, dataVars, procVars
  <1>2. CASE Tick
    BY <1>2, ClockBound DEF Tick, dataVars, procVars
  <1>3. CASE ClubStatusChange
    BY <1>3, ClubStatesKnown DEF ClubStatusChange, dataVars, procVars
  <1>4. ASSUME NEW p \in Procs, Step(p) PROVE TypeOK'
    <2> USE DEF Step, Continue
    <2> HIDE DEF TypeOK
    <2> QED BY <1>4, ArrivalType, AdvanceType, LockEventType, RegisterType, CancelType,
               PatchType, StatusWriteType, DieType
  <1> QED BY <1>1, <1>2, <1>3, <1>4 DEF Next

\* Every variable keeps its type, whatever the constants: no stored row, no
\* request and nothing a request has read ever leaves its domain.
THEOREM TypeCorrect == Spec => []TypeOK
  <1>1. Init => TypeOK
    BY InitType
  <1>2. TypeOK /\ [Next]_vars => TypeOK'
    BY NextType
  <1> QED BY <1>1, <1>2, PTL DEF Spec
-----------------------------------------------------------------------------
(***************************************************************************)
(* The row lock                                                            *)
(***************************************************************************)

\* The end of the transaction of whoever holds the row.
LEMMA HolderLetsGo ==
  ASSUME TypeOK, LockedReadIsCurrent, NEW p \in Procs, pc[p] = "locked", EndTransaction(p)
  PROVE  LockedReadIsCurrent'
  BY DEF EndTransaction, Finish, LockedReadIsCurrent, TypeOK, RequestTypeOK

\* A step outside every critical section that leaves the lock alone: either it
\* leaves the event row alone too, or it found the row free.
LEMMA OutsideLock ==
  ASSUME TypeOK, LockedReadIsCurrent, NEW p \in Procs, UNCHANGED lock,
         \A q \in Procs \ {p} : pc'[q] = pc[q] /\ locked'[q] = locked[q],
         pc'[p] # "locked",
         RowFree \/ UNCHANGED <<event, reg>>
  PROVE  LockedReadIsCurrent'
  BY NamedApart DEF LockedReadIsCurrent, RowFree

\* Every step keeps what the holder of the row read equal to what is committed.
LEMMA LockedReadKept ==
  ASSUME TypeOK, LockedReadIsCurrent, [Next]_vars
  PROVE  LockedReadIsCurrent'
  <1> USE DEF dataVars, procVars
  <1>1. CASE UNCHANGED vars
    BY <1>1 DEF vars, LockedReadIsCurrent
  <1>2. CASE Tick \/ ClubStatusChange
    BY <1>2 DEF Tick, ClubStatusChange, LockedReadIsCurrent
  <1>3. ASSUME NEW p \in Procs, Arrive(p) \/ SweepScan(p) \/ PublishRead(p) \/ CancelEventRead(p)
        PROVE  LockedReadIsCurrent'
    <2>1. /\ UNCHANGED <<lock, event, reg, locked>>
          /\ pc' = [pc EXCEPT ![p] = "advance"] \/ pc' = [pc EXCEPT ![p] = "write"]
      BY <1>3 DEF Arrive, SweepScan, PublishRead, CancelEventRead, ReadThenWrite
    <2> QED BY <2>1, OutsideLock DEF TypeOK, RequestTypeOK
  <1>4. ASSUME NEW p \in Procs, Advance(p) PROVE LockedReadIsCurrent'
    <2>1. UNCHANGED lock /\ (RowFree \/ UNCHANGED <<event, reg>>)
      BY <1>4 DEF Advance, AdvanceRead, AdvanceReread, AdvanceWalk, AdvanceBeaten
    <2>2. \E s \in {"idle", "lock", "desk", "reread", "walk"} : pc' = [pc EXCEPT ![p] = s]
      BY <1>4 DEF Advance, AdvanceRead, AdvanceReread, AdvanceWalk, AdvanceBeaten,
                  Proceed, AfterAdvance, Finish, GoTo
    <2>3. UNCHANGED locked \/ locked' = [locked EXCEPT ![p] = None]
      BY <1>4 DEF Advance, AdvanceRead, AdvanceReread, AdvanceWalk, AdvanceBeaten,
                  Proceed, Finish, GoTo
    <2> QED BY <2>1, <2>2, <2>3, OutsideLock DEF TypeOK, RequestTypeOK
  <1>5. ASSUME NEW p \in Procs, LockEvent(p) PROVE LockedReadIsCurrent'
    BY <1>5, NamedApart DEF LockEvent, RowFree, LockedReadIsCurrent, TypeOK, RequestTypeOK
  <1>6. ASSUME NEW p \in Procs, Register(p) \/ Cancel(p) \/ Patch(p) PROVE LockedReadIsCurrent'
    <2>1. pc[p] = "locked" /\ EndTransaction(p)
      BY <1>6 DEF Register, RegisterConfirmed, RegisterWaitlisted, RegisterUnchanged, Cancel,
                  CancelSeat, CancelWaitlisted, CancelRefused, Patch, Update, UpdateRefused, Holds
    <2> QED BY <2>1, HolderLetsGo
  <1>7. ASSUME NEW p \in Procs, StatusWrite(p) PROVE LockedReadIsCurrent'
    <2>1. UNCHANGED lock /\ RowFree
      BY <1>7 DEF StatusWrite, PublishWrite, CancelEventWrite
    <2>2. pc' = [pc EXCEPT ![p] = "advance"] \/ pc' = [pc EXCEPT ![p] = "idle"]
      BY <1>7 DEF StatusWrite, PublishWrite, CancelEventWrite, Finish
    <2>3. UNCHANGED locked \/ locked' = [locked EXCEPT ![p] = None]
      BY <1>7 DEF StatusWrite, PublishWrite, CancelEventWrite, Finish
    <2> QED BY <2>1, <2>2, <2>3, OutsideLock DEF TypeOK, RequestTypeOK
  <1>8. ASSUME NEW p \in Procs, Die(p) PROVE LockedReadIsCurrent'
    BY <1>8 DEF Die, Finish, LockedReadIsCurrent, TypeOK, RequestTypeOK
  <1> QED BY <1>1, <1>2, <1>3, <1>4, <1>5, <1>6, <1>7, <1>8 DEF Next, Step, Continue

\* Whoever holds the event row decides on what is committed, never on
\* something it read before: the row lock serialises every write to the row.
THEOREM LockedReadNeverStale == Spec => []LockedReadIsCurrent
  <1>1. Init => LockedReadIsCurrent
    BY DEF Init, LockedReadIsCurrent
  <1>2. TypeOK /\ LockedReadIsCurrent /\ [Next]_vars => LockedReadIsCurrent'
    BY LockedReadKept
  <1> QED BY <1>1, <1>2, TypeCorrect, PTL DEF Spec
-----------------------------------------------------------------------------
(***************************************************************************)
(* The seats.  The count is exact and within the capacity, nobody is open  *)
(* twice, and so no write has yet been refused: none of these is inductive *)
(* alone, since a write that was refused would change neither.             *)
(***************************************************************************)
SeatsInOrder ==
  /\ SeatCountExact
  /\ CapacityBounds(event)
  /\ OneOpenPerUser(reg)
  /\ ConstraintsNeverFire

\* Rows that keep the constraints and the count are stored as they are asked for.
LEMMA StoreSeats ==
  ASSUME SeatsInOrder,
         NEW e, NEW rows, NEW sent, Store(e, rows, sent),
         CapacityBounds(e), OneOpenPerUser(rows),
         e.confirmedCount = Cardinality(HoldingSeat(rows))
  PROVE  SeatsInOrder'
  BY DEF Store, Allowed, SeatsInOrder, SeatCountExact, ConstraintsNeverFire, Seated, HoldingSeat,
         CapacityBounds, OneOpenPerUser

\* Rows that change neither who is open nor who holds a seat.
LEMMA SameSeats ==
  ASSUME TypeOK, SeatsInOrder,
         NEW rows \in [Regs -> RegRow],
         \A r \in Regs : /\ rows[r].user = reg[r].user
                         /\ IsOpen(rows[r]) => IsOpen(reg[r])
                         /\ rows[r].status \in SeatStatuses <=> reg[r].status \in SeatStatuses
  PROVE  OneOpenPerUser(rows) /\ Cardinality(HoldingSeat(rows)) = event.confirmedCount
  <1>1. HoldingSeat(rows) = Seated
    BY DEF HoldingSeat, Seated
  <1> QED BY <1>1 DEF SeatsInOrder, OneOpenPerUser, SeatCountExact

\* The rows holding a seat are finitely many, and none of them waits.
LEMMA SeatedFinite ==
  /\ Seated \subseteq Regs /\ IsFiniteSet(Seated) /\ Cardinality(Seated) \in Nat
  /\ Waiting \subseteq Regs /\ IsFiniteSet(Waiting)
  /\ Seated \intersect Waiting = {}
  <1>1. Seated \subseteq Regs /\ Waiting \subseteq Regs
    BY DEF Seated, HoldingSeat, Waiting, WithStatus
  <1>2. IsFiniteSet(Seated) /\ IsFiniteSet(Waiting)
    BY <1>1, FiniteRows, FS_Subset
  <1>3. Seated \intersect Waiting = {}
    BY DEF Seated, HoldingSeat, Waiting, WithStatus, SeatStatuses
  <1> QED BY <1>1, <1>2, <1>3, FS_CardinalityType

\* Two sets of rows that share none count together.
LEMMA DisjointCount ==
  ASSUME NEW A, NEW B, IsFiniteSet(A), IsFiniteSet(B), A \intersect B = {}
  PROVE  Cardinality(A \union B) = Cardinality(A) + Cardinality(B)
  <1>1. Cardinality(A \intersect B) = 0
    BY FS_EmptySet
  <1>2. Cardinality(A) \in Nat /\ Cardinality(B) \in Nat
    BY FS_CardinalityType
  <1>3. Cardinality(A \union B) = Cardinality(A) + Cardinality(B) - Cardinality(A \intersect B)
    BY FS_Union
  <1> QED BY <1>1, <1>2, <1>3

\* The clock's writes seat nobody and unseat nobody: a no-show keeps the seat.
LEMMA AdvanceSeats ==
  ASSUME TypeOK, SeatsInOrder, NEW p \in Procs, Advance(p)
  PROVE  SeatsInOrder'
  <1>1. CASE AdvanceWalk(p)
    <2> DEFINE due == DueFor(p)
    <2>1. NoShows(due) \in [Regs -> RegRow]
      BY DEF NoShows, TypeOK, DataTypeOK, RegRow, RegStatuses, SeatStatuses
    <2>2. \A r \in Regs : /\ NoShows(due)[r].user = reg[r].user
                          /\ IsOpen(NoShows(due)[r]) => IsOpen(reg[r])
                          /\ NoShows(due)[r].status \in SeatStatuses <=> reg[r].status \in SeatStatuses
      BY DEF NoShows, TypeOK, DataTypeOK, RegRow, SeatStatuses, IsOpen
    <2>3. OneOpenPerUser(NoShows(due)) /\ Cardinality(HoldingSeat(NoShows(due))) = event.confirmedCount
      BY <2>1, <2>2, SameSeats
    <2>4. /\ CapacityBounds([event EXCEPT !.status = due])
          /\ [event EXCEPT !.status = due].confirmedCount = event.confirmedCount
      BY DEF SeatsInOrder, CapacityBounds, TypeOK, DataTypeOK, EventRow
    <2> HIDE DEF due
    <2>5. Store([event EXCEPT !.status = due], NoShows(due), {})
      BY <1>1 DEF AdvanceWalk, due
    <2> QED BY <2>3, <2>4, <2>5, StoreSeats
  <1>2. CASE UNCHANGED dataVars
    BY <1>2 DEF dataVars, SeatsInOrder, SeatCountExact, ConstraintsNeverFire, Seated, HoldingSeat
  <1> QED BY <1>1, <1>2 DEF Advance, AdvanceRead, AdvanceReread, AdvanceBeaten

\* A new row for somebody with no open one, in an unused id.
LEMMA NewRow ==
  ASSUME TypeOK, SeatsInOrder, NEW r \in Unused, NEW u \in Users, OpenOf(reg, u) = {},
         NEW row \in RegRow, row.user = u
  PROVE  OneOpenPerUser([reg EXCEPT ![r] = row])
  BY DEF SeatsInOrder, OneOpenPerUser, OpenOf, OpenRows, Unused, WithStatus, TypeOK, DataTypeOK

\* A registration is admitted to a seat only if the committed count leaves one.
LEMMA RegisterSeats ==
  ASSUME TypeOK, LockedReadIsCurrent, SeatsInOrder, NEW p \in Procs, Register(p)
  PROVE  SeatsInOrder'
  <1>1. CASE RegisterConfirmed(p)
    <2>1. PICK r \in Unused :
            Store([event EXCEPT !.confirmedCount = @ + 1],
                  [reg EXCEPT ![r] = [user |-> req[p].user, status |-> "CONFIRMED", position |-> 0]],
                  {<<"registration.confirmed", r>>})
      BY <1>1 DEF RegisterConfirmed
    <2> DEFINE row == [user |-> req[p].user, status |-> "CONFIRMED", position |-> 0]
               rows == [reg EXCEPT ![r] = row]
               e == [event EXCEPT !.confirmedCount = @ + 1]
    <2>2. r \in Regs /\ req[p].user \in Users
      BY <1>1 DEF RegisterConfirmed, Holds, Registering, OfUser, Requests, CertificateOps, Unused, WithStatus,
                  TypeOK, RequestTypeOK
    <2>3. row \in RegRow
      BY <2>2 DEF RegRow, RegStatuses, SeatStatuses
    <2>4. OneOpenPerUser(rows)
      BY <1>1, <2>2, <2>3, NewRow DEF RegisterConfirmed, Admissible, LockedReadIsCurrent, Holds
    <2>5. HoldingSeat(rows) = Seated \union {r} /\ r \notin Seated
      BY <2>2 DEF HoldingSeat, Seated, Unused, WithStatus, SeatStatuses, TypeOK, DataTypeOK
    <2>6. Cardinality(HoldingSeat(rows)) = event.confirmedCount + 1
      BY <2>5, SeatedFinite, FS_AddElement DEF SeatsInOrder, SeatCountExact
    <2>7. event.confirmedCount < event.capacity
      BY <1>1 DEF RegisterConfirmed, SeatFree, LockedReadIsCurrent, Holds
    <2>8. e.confirmedCount = event.confirmedCount + 1 /\ CapacityBounds(e)
      BY <2>7 DEF CapacityBounds, TypeOK, DataTypeOK, EventRow
    <2> HIDE DEF rows, e
    <2>9. Store(e, rows, {<<"registration.confirmed", r>>})
      BY <2>1 DEF rows, e
    <2> QED BY <2>4, <2>6, <2>8, <2>9, StoreSeats
  <1>2. CASE RegisterWaitlisted(p)
    <2>1. PICK r \in Unused :
            Store(event,
                  [reg EXCEPT ![r] = [user |-> req[p].user, status |-> "WAITLISTED",
                                      position |-> NextWaitlistPosition]],
                  {<<"registration.waitlisted", r>>})
      BY <1>2 DEF RegisterWaitlisted
    <2> DEFINE row == [user |-> req[p].user, status |-> "WAITLISTED",
                       position |-> NextWaitlistPosition]
               rows == [reg EXCEPT ![r] = row]
    <2>2. r \in Regs /\ req[p].user \in Users
      BY <1>2 DEF RegisterWaitlisted, Holds, Registering, OfUser, Requests, CertificateOps, Unused, WithStatus,
                  TypeOK, RequestTypeOK
    <2>3. row \in RegRow
      BY <2>2, NextWaitlistPositionType DEF TypeOK, RegRow, RegStatuses, SeatStatuses
    <2>4. OneOpenPerUser(rows)
      BY <1>2, <2>2, <2>3, NewRow DEF RegisterWaitlisted, Admissible, LockedReadIsCurrent, Holds
    <2>5. HoldingSeat(rows) = Seated
      BY <2>2 DEF HoldingSeat, Seated, Unused, WithStatus, SeatStatuses, TypeOK, DataTypeOK
    <2> HIDE DEF rows
    <2>6. Store(event, rows, {<<"registration.waitlisted", r>>})
      BY <2>1 DEF rows
    <2> QED BY <2>4, <2>5, <2>6, StoreSeats DEF SeatsInOrder, SeatCountExact
  <1>3. CASE RegisterUnchanged(p)
    BY <1>3 DEF RegisterUnchanged, dataVars, SeatsInOrder, SeatCountExact, ConstraintsNeverFire,
                Seated, HoldingSeat
  <1> QED BY <1>1, <1>2, <1>3 DEF Register

\* What promotion does to seats: the chosen come to hold one, and nobody else
\* opens or changes hands.
LEMMA PromotionSeats ==
  ASSUME NEW rows \in [Regs -> RegRow], NEW chosen \in SUBSET Waiting,
         \A r \in Regs : rows[r].user = reg[r].user /\ (IsOpen(rows[r]) => IsOpen(reg[r])),
         OneOpenPerUser(reg)
  PROVE  /\ HoldingSeat(Promoted(rows, chosen)) = HoldingSeat(rows) \union chosen
         /\ OneOpenPerUser(Promoted(rows, chosen))
  <1>1. chosen \subseteq Regs /\ \A r \in chosen : IsOpen(reg[r])
    BY DEF Waiting, WithStatus, IsOpen
  <1>2. \A r \in Regs : /\ r \in chosen => Promoted(rows, chosen)[r].status = "CONFIRMED"
                        /\ r \notin chosen => Promoted(rows, chosen)[r] = rows[r]
                        /\ Promoted(rows, chosen)[r].user = reg[r].user
    BY DEF Promoted, RegRow
  <1>3. HoldingSeat(Promoted(rows, chosen)) = HoldingSeat(rows) \union chosen
    BY <1>1, <1>2 DEF HoldingSeat, SeatStatuses
  <1>4. \A r \in Regs : IsOpen(Promoted(rows, chosen)[r]) => IsOpen(reg[r])
    BY <1>1, <1>2
  <1> QED BY <1>2, <1>3, <1>4 DEF OneOpenPerUser

\* A withdrawal frees at most its own seat and gives it to at most one other.
LEMMA CancelSeats ==
  ASSUME TypeOK, LockedReadIsCurrent, SeatsInOrder, NEW p \in Procs, Cancel(p)
  PROVE  SeatsInOrder'
  <1>1. ASSUME NEW r \in Withdrawable(p)
        PROVE  /\ r \in Regs
               /\ Cancelled(r) \in [Regs -> RegRow]
               /\ \A q \in Regs : /\ Cancelled(r)[q].user = reg[q].user
                                  /\ IsOpen(Cancelled(r)[q]) => IsOpen(reg[q])
               /\ HoldingSeat(Cancelled(r)) = Seated \ {r}
    <2>1. r \in Regs /\ Cancelled(r) \in [Regs -> RegRow]
      BY CancelledType DEF TypeOK
    <2>2. \A q \in Regs : /\ Cancelled(r)[q].user = reg[q].user
                          /\ IsOpen(Cancelled(r)[q]) => IsOpen(reg[q])
      BY <2>1 DEF Cancelled, TypeOK, DataTypeOK, RegRow, IsOpen
    <2>3. HoldingSeat(Cancelled(r)) = Seated \ {r}
      BY <2>1 DEF Cancelled, HoldingSeat, Seated, SeatStatuses, TypeOK, DataTypeOK, RegRow
    <2> QED BY <2>1, <2>2, <2>3
  <1>2. CASE CancelSeat(p)
    <2> DEFINE seats == IF locked[p].event.status = "CANCELLED" THEN 0 ELSE 1
    <2>1. PICK r \in Withdrawable(p) :
            /\ reg[r].status = "CONFIRMED"
            /\ \E chosen \in Promotable(seats) :
                 Store([event EXCEPT !.confirmedCount = (@ - 1) + Cardinality(chosen)],
                       Promoted(Cancelled(r), chosen), PromotionNotices(chosen))
      BY <1>2 DEF CancelSeat, LockedReadIsCurrent, Holds
    <2>2. PICK chosen \in Promotable(seats) :
            Store([event EXCEPT !.confirmedCount = (@ - 1) + Cardinality(chosen)],
                  Promoted(Cancelled(r), chosen), PromotionNotices(chosen))
      BY <2>1
    <2> DEFINE e == [event EXCEPT !.confirmedCount = (@ - 1) + Cardinality(chosen)]
               rows == Promoted(Cancelled(r), chosen)
    <2>3. chosen \subseteq Waiting /\ Cardinality(chosen) \in 0 .. 1
      <3>1. seats \in {0, 1} /\ Cardinality({}) = 0
        BY FS_EmptySet
      <3> HIDE DEF seats
      <3>2. /\ chosen \subseteq Waiting /\ Cardinality(chosen) \in Nat
            /\ Cardinality(chosen) <= seats \/ chosen = {}
        BY <3>1, PromotableBound
      <3> QED BY <3>1, <3>2
    <2>4. HoldingSeat(rows) = (Seated \ {r}) \union chosen /\ OneOpenPerUser(rows)
      BY <1>1, <2>3, PromotionSeats DEF SeatsInOrder
    <2>5. r \in Seated
      BY <1>1, <2>1 DEF Seated, HoldingSeat, SeatStatuses
    <2>6. Cardinality(Seated \ {r}) = event.confirmedCount - 1 /\ IsFiniteSet(Seated \ {r})
      BY <2>5, SeatedFinite, FS_RemoveElement DEF SeatsInOrder, SeatCountExact
    <2>7. IsFiniteSet(chosen) /\ (Seated \ {r}) \intersect chosen = {}
      BY <2>3, SeatedFinite, FS_Subset
    <2>8. Cardinality(HoldingSeat(rows)) = (event.confirmedCount - 1) + Cardinality(chosen)
      BY <2>4, <2>6, <2>7, DisjointCount
    <2>9. event.confirmedCount >= 1
      <3>1. Cardinality(Seated \ {r}) \in Nat
        BY <2>6, FS_CardinalityType
      <3> QED BY <2>6, <3>1 DEF TypeOK, DataTypeOK, EventRow
    <2>10. /\ e.confirmedCount = (event.confirmedCount - 1) + Cardinality(chosen)
           /\ CapacityBounds(e)
      BY <2>3, <2>9 DEF SeatsInOrder, CapacityBounds, TypeOK, DataTypeOK, EventRow
    <2> HIDE DEF e, rows
    <2>11. Store(e, rows, PromotionNotices(chosen))
      BY <2>2 DEF e, rows
    <2> QED BY <2>4, <2>8, <2>10, <2>11, StoreSeats
  <1>3. CASE CancelWaitlisted(p)
    <2>1. PICK r \in Withdrawable(p) : reg[r].status = "WAITLISTED" /\ Store(event, Cancelled(r), {})
      BY <1>3 DEF CancelWaitlisted, LockedReadIsCurrent, Holds
    <2>2. HoldingSeat(Cancelled(r)) = Seated
      BY <1>1, <2>1 DEF Seated, HoldingSeat, SeatStatuses
    <2>3. OneOpenPerUser(Cancelled(r))
      BY <1>1 DEF SeatsInOrder, OneOpenPerUser
    <2> QED BY <2>1, <2>2, <2>3, StoreSeats DEF SeatsInOrder, SeatCountExact
  <1>4. CASE CancelRefused(p)
    BY <1>4 DEF CancelRefused, dataVars, SeatsInOrder, SeatCountExact, ConstraintsNeverFire,
                Seated, HoldingSeat
  <1> QED BY <1>2, <1>3, <1>4 DEF Cancel

\* A patch promotes no more people than the seats it adds, and never takes the
\* capacity below the seats already given.
LEMMA PatchSeats ==
  ASSUME TypeOK, LockedReadIsCurrent, SeatsInOrder, NEW p \in Procs, Patch(p)
  PROVE  SeatsInOrder'
  <1>1. CASE Update(p)
    <2>1. Holds(p, {"update"}) /\ Editable(p)
      BY <1>1 DEF Update
    <2>2. PICK chosen \in Promotable(Headroom(p)) :
            Store([Merged(p) EXCEPT !.confirmedCount = @ + Cardinality(chosen)],
                  Promoted(reg, chosen), PromotionNotices(chosen))
      BY <1>1 DEF Update
    <2> DEFINE e == [Merged(p) EXCEPT !.confirmedCount = @ + Cardinality(chosen)]
               rows == Promoted(reg, chosen)
    <2>3. /\ chosen \subseteq Waiting /\ Cardinality(chosen) \in Nat
          /\ Cardinality(chosen) <= Headroom(p) \/ chosen = {}
      BY <2>1, HeadroomType, PromotableBound
    <2>4. HoldingSeat(rows) = Seated \union chosen /\ OneOpenPerUser(rows)
      BY <2>3, PromotionSeats DEF SeatsInOrder, TypeOK, DataTypeOK, Seated
    <2>5. Cardinality(HoldingSeat(rows)) = event.confirmedCount + Cardinality(chosen)
      <3>1. IsFiniteSet(chosen) /\ Seated \intersect chosen = {}
        BY <2>3, SeatedFinite, FS_Subset
      <3> QED BY <2>4, <3>1, SeatedFinite, DisjointCount DEF SeatsInOrder, SeatCountExact
    <2>6. locked[p].event = event
      BY <2>1 DEF Holds, LockedReadIsCurrent
    <2>7. event.confirmedCount + Cardinality(chosen) <= Merged(p).capacity
      <3>1. event.confirmedCount <= Merged(p).capacity
        BY <2>1, <2>6 DEF Editable
      <3>2. Merged(p).capacity \in Nat /\ event.confirmedCount \in Nat
        BY <2>1, MergedType DEF EventRow, TypeOK, DataTypeOK
      <3>3. CASE chosen = {}
        BY <3>1, <3>2, <3>3, FS_EmptySet
      <3>4. CASE Cardinality(chosen) <= Headroom(p)
        BY <2>3, <2>6, <3>1, <3>2, <3>4 DEF Headroom
      <3> QED BY <2>3, <3>3, <3>4
    <2>8. e.confirmedCount = event.confirmedCount + Cardinality(chosen) /\ e.capacity = Merged(p).capacity
      BY <2>1, MergedType DEF EventRow
    <2>9. CapacityBounds(e)
      BY <2>3, <2>7, <2>8, MergedType, <2>1 DEF CapacityBounds, EventRow, TypeOK, DataTypeOK
    <2> HIDE DEF e, rows
    <2>10. Store(e, rows, PromotionNotices(chosen))
      BY <2>2 DEF e, rows
    <2> QED BY <2>4, <2>5, <2>8, <2>9, <2>10, StoreSeats
  <1>2. CASE UpdateRefused(p)
    BY <1>2 DEF UpdateRefused, dataVars, SeatsInOrder, SeatCountExact, ConstraintsNeverFire,
                Seated, HoldingSeat
  <1> QED BY <1>1, <1>2 DEF Patch

\* An operator's status write touches no registration.
LEMMA StatusWriteSeats ==
  ASSUME TypeOK, SeatsInOrder, NEW p \in Procs, StatusWrite(p)
  PROVE  SeatsInOrder'
  <1>1. ASSUME NEW s, NEW sent, Store([event EXCEPT !.status = s], reg, sent)
        PROVE  SeatsInOrder'
    <2> DEFINE e == [event EXCEPT !.status = s]
    <2>1. e.confirmedCount = event.confirmedCount /\ e.capacity = event.capacity
      BY DEF TypeOK, DataTypeOK, EventRow
    <2> HIDE DEF e
    <2>2. Store(e, reg, sent)
      BY <1>1 DEF e
    <2> QED BY <2>1, <2>2, StoreSeats DEF SeatsInOrder, SeatCountExact, CapacityBounds, Seated
  <1> QED BY <1>1 DEF StatusWrite, PublishWrite, CancelEventWrite

\* Every step keeps the seats in order.
LEMMA SeatsKept ==
  ASSUME TypeOK, LockedReadIsCurrent, SeatsInOrder, [Next]_vars
  PROVE  SeatsInOrder'
  <1>1. CASE UNCHANGED dataVars
    BY <1>1 DEF dataVars, SeatsInOrder, SeatCountExact, ConstraintsNeverFire, Seated, HoldingSeat
  <1>2. ASSUME NEW p \in Procs, Step(p) PROVE SeatsInOrder'
    <2>1. CASE Arrive(p) \/ SweepScan(p) \/ PublishRead(p) \/ CancelEventRead(p) \/ LockEvent(p) \/ Die(p)
      BY <1>1, <2>1 DEF Arrive, SweepScan, PublishRead, CancelEventRead, ReadThenWrite, LockEvent, Die
    <2> QED BY <1>2, <2>1, AdvanceSeats, RegisterSeats, CancelSeats, PatchSeats, StatusWriteSeats
            DEF Step, Continue
  <1> QED BY <1>1, <1>2 DEF Next, Tick, ClubStatusChange, vars

\* The seats start in order: no row is made yet.
LEMMA InitSeats ==
  ASSUME Init
  PROVE  SeatsInOrder
  <1>1. Seated = {} /\ OneOpenPerUser(reg)
    BY DEF Init, NoRow, Seated, HoldingSeat, SeatStatuses, OneOpenPerUser, IsOpen
  <1>2. event.confirmedCount = 0 /\ event.capacity \in Nat
    BY ValidDrafts DEF Init, DraftBodies
  <1> QED BY <1>1, <1>2, FS_EmptySet DEF Init, SeatsInOrder, SeatCountExact, CapacityBounds,
             ConstraintsNeverFire

\* The inductive invariant behind the two theorems that follow.
THEOREM SeatsAlwaysInOrder == Spec => []SeatsInOrder
  <1>1. Init => SeatsInOrder
    BY InitSeats
  <1>2. TypeOK /\ LockedReadIsCurrent /\ SeatsInOrder /\ [Next]_vars => SeatsInOrder'
    BY SeatsKept
  <1> QED BY <1>1, <1>2, TypeCorrect, LockedReadNeverStale, PTL DEF Spec

\* The counter on the event row is the number of rows holding a seat, in every
\* reachable state and for any number of concurrent requests.
THEOREM SeatCountAlwaysExact == Spec => []SeatCountExact
  <1>1. SeatsInOrder => SeatCountExact
    BY DEF SeatsInOrder
  <1> QED BY <1>1, SeatsAlwaysInOrder, PTL

\* No interleaving makes a write that the capacity check or the
\* one-open-registration index refuses: no event is oversold and nobody
\* registers twice, by the row lock alone.
THEOREM ConstraintsAreNeverTheMechanism == Spec => []ConstraintsNeverFire
  <1>1. SeatsInOrder => ConstraintsNeverFire
    BY DEF SeatsInOrder
  <1> QED BY <1>1, SeatsAlwaysInOrder, PTL
-----------------------------------------------------------------------------
(***************************************************************************)
(* One operation at a time.  Whatever the requests interleave, what is     *)
(* committed moves as if each operation ran alone, on what is committed    *)
(* when it commits.                                                        *)
(***************************************************************************)
committed == <<event, reg, notices>>

\* The lifecycle moves the event on to a status some schedule and clock call for.
MovesOn ==
  \E w \in Windows, t \in Nat :
    /\ Behind(event.status, DueStatus(event.status, w, t))
    /\ event' = [event EXCEPT !.status = DueStatus(event.status, w, t)]
    /\ reg' = NoShows(DueStatus(event.status, w, t))
    /\ notices' = notices

TakesSeat ==
  /\ event.status = "PUBLISHED"
  /\ event.confirmedCount < event.capacity
  /\ \E r \in Unused, u \in Users :
       /\ OpenOf(reg, u) = {}
       /\ event' = [event EXCEPT !.confirmedCount = @ + 1]
       /\ reg' = [reg EXCEPT ![r] = [user |-> u, status |-> "CONFIRMED", position |-> 0]]
       /\ notices' = notices \union {<<"registration.confirmed", r>>}

JoinsWaitlist ==
  /\ event.status = "PUBLISHED"
  /\ event.confirmedCount = event.capacity
  /\ \E r \in Unused, u \in Users :
       /\ OpenOf(reg, u) = {}
       /\ reg' = [reg EXCEPT ![r] = [user |-> u, status |-> "WAITLISTED",
                                     position |-> NextWaitlistPosition]]
       /\ notices' = notices \union {<<"registration.waitlisted", r>>}
  /\ event' = event

GivesUpSeat ==
  /\ event.status \in {"PUBLISHED", "REGISTRATION_CLOSED", "CANCELLED"}
  /\ \E r \in WithStatus(reg, "CONFIRMED"),
        chosen \in Promotable(IF event.status = "CANCELLED" THEN 0 ELSE 1) :
       /\ event' = [event EXCEPT !.confirmedCount = (@ - 1) + Cardinality(chosen)]
       /\ reg' = Promoted(Cancelled(r), chosen)
       /\ notices' = notices \union PromotionNotices(chosen)

LeavesWaitlist ==
  /\ \E r \in Waiting : reg' = Cancelled(r)
  /\ UNCHANGED <<event, notices>>

\* A patch: the seats already given fit, and a larger capacity is filled from
\* the waitlist.
Amends ==
  /\ event.status \notin {"CANCELLED", "COMPLETED", "CERTIFIED"}
  /\ \E new \in EventRow :
       /\ new.status = event.status
       /\ new.confirmedCount = event.confirmedCount
       /\ new.confirmedCount <= new.capacity
       /\ \E chosen \in Promotable(IF new.capacity > event.capacity
                                   THEN new.capacity - event.confirmedCount ELSE 0) :
            /\ event' = [new EXCEPT !.confirmedCount = @ + Cardinality(chosen)]
            /\ reg' = Promoted(reg, chosen)
            /\ notices' = notices \union PromotionNotices(chosen)

IsPublished ==
  /\ event' = [event EXCEPT !.status = "PUBLISHED"]
  /\ UNCHANGED <<reg, notices>>

IsCalledOff ==
  /\ event' = [event EXCEPT !.status = "CANCELLED"]
  /\ notices' = notices \union {<<"event.cancelled", u>> : u \in Holders}
  /\ UNCHANGED reg

SerialStep ==
  \/ MovesOn \/ TakesSeat \/ JoinsWaitlist \/ GivesUpSeat \/ LeavesWaitlist
  \/ Amends \/ IsPublished \/ IsCalledOff

\* A walk is under way only towards a status that lies ahead of the one it read.
WalksAhead == \A p \in Procs : pc[p] = "walk" => Behind(seen[p].status, DueFor(p))

\* What one process does to its own step and its own reads is all that WalksAhead
\* can notice.
LEMMA WalkOf ==
  ASSUME WalksAhead, NEW p \in Procs,
         \A q \in Procs \ {p} : pc'[q] = pc[q] /\ seen'[q] = seen[q],
         pc'[p] # "walk" \/ (pc'[p] = pc[p] /\ seen'[p] = seen[p])
  PROVE  WalksAhead'
  BY DEF WalksAhead, DueFor

\* Every step keeps walks ahead: the second read starts one only if it finds
\* the event behind.
LEMMA WalksAheadKept ==
  ASSUME TypeOK, WalksAhead, [Next]_vars
  PROVE  WalksAhead'
  <1> USE DEF procVars
  <1>1. CASE UNCHANGED procVars
    BY <1>1 DEF WalksAhead, DueFor
  <1>2. ASSUME NEW p \in Procs, Step(p) PROVE WalksAhead'
    <2>1. CASE Arrive(p) \/ SweepScan(p) \/ PublishRead(p) \/ CancelEventRead(p)
      BY <2>1, WalkOf DEF Arrive, SweepScan, PublishRead, CancelEventRead, ReadThenWrite,
                          TypeOK, RequestTypeOK
    <2>2. CASE AdvanceReread(p)
      <3> DEFINE due == DueStatus(event.status, event.windows, seen[p].at)
      <3>1. CASE Behind(event.status, due)
        <4>1. /\ seen' = [seen EXCEPT ![p] = [status |-> event.status, windows |-> event.windows,
                                              at |-> seen[p].at]]
              /\ pc' = [pc EXCEPT ![p] = "walk"]
          BY <2>2, <3>1 DEF AdvanceReread, Read, GoTo
        <4>2. \A q \in Procs \ {p} : pc'[q] = pc[q] /\ seen'[q] = seen[q]
          BY <4>1 DEF TypeOK, RequestTypeOK
        <4>3. /\ seen'[p].status = event.status /\ seen'[p].windows = event.windows
              /\ seen'[p].at = seen[p].at
          BY <4>1 DEF TypeOK, RequestTypeOK
        <4> QED BY <3>1, <4>2, <4>3 DEF WalksAhead, DueFor
      <3>2. CASE Proceed(p, event.status)
        BY <3>2, WalkOf DEF Proceed, AfterAdvance, Finish, TypeOK, RequestTypeOK
      <3> QED BY <2>2, <3>1, <3>2 DEF AdvanceReread
    <2>3. CASE AdvanceRead(p) \/ AdvanceWalk(p) \/ AdvanceBeaten(p)
      <3>1. \E s \in {"idle", "lock", "desk", "reread"} : pc' = [pc EXCEPT ![p] = s]
        BY <2>3 DEF AdvanceRead, AdvanceWalk, AdvanceBeaten, Proceed, AfterAdvance, Finish, GoTo
      <3>2. \E t : seen' = [seen EXCEPT ![p] = t]
        BY <2>3 DEF AdvanceRead, AdvanceWalk, AdvanceBeaten, Proceed, Finish, Read
      <3> QED BY <3>1, <3>2, WalkOf DEF TypeOK, RequestTypeOK
    <2>4. CASE LockEvent(p)
      BY <2>4, WalkOf DEF LockEvent, TypeOK, RequestTypeOK
    <2>5. CASE Register(p) \/ Cancel(p) \/ Patch(p)
      <3>1. EndTransaction(p)
        BY <2>5 DEF Register, RegisterConfirmed, RegisterWaitlisted, RegisterUnchanged, Cancel,
                    CancelSeat, CancelWaitlisted, CancelRefused, Patch, Update, UpdateRefused
      <3> QED BY <3>1, WalkOf DEF EndTransaction, Finish, TypeOK, RequestTypeOK
    <2>6. CASE StatusWrite(p)
      BY <2>6, WalkOf DEF StatusWrite, PublishWrite, CancelEventWrite, Finish, TypeOK, RequestTypeOK
    <2>7. CASE Die(p)
      BY <2>7, WalkOf DEF Die, Finish, TypeOK, RequestTypeOK
    <2> QED BY <1>2, <2>1, <2>2, <2>3, <2>4, <2>5, <2>6, <2>7 DEF Step, Continue, Advance
  <1> QED BY <1>1, <1>2 DEF Next, Tick, ClubStatusChange, vars

\* What a request does to the committed data when no constraint fires.
LEMMA Stored ==
  ASSUME NEW e, NEW rows, NEW sent, Store(e, rows, sent), ~tripped'
  PROVE  event' = e /\ reg' = rows /\ notices' = notices \union sent
  BY DEF Store

\* The walk is the lifecycle's operation: it starts from the status that is committed.
LEMMA AdvanceIsSerial ==
  ASSUME TypeOK, WalksAhead, ~tripped', NEW p \in Procs, Advance(p)
  PROVE  MovesOn \/ UNCHANGED committed
  <1>1. CASE AdvanceWalk(p)
    <2>1. /\ event.status = seen[p].status
          /\ Store([event EXCEPT !.status = DueFor(p)], NoShows(DueFor(p)), {})
          /\ pc[p] = "walk"
      BY <1>1 DEF AdvanceWalk, StillAsRead
    <2>2. /\ event' = [event EXCEPT !.status = DueFor(p)]
          /\ reg' = NoShows(DueFor(p))
          /\ notices' = notices
      BY <2>1, Stored
    <2>3. seen[p].windows \in Windows /\ seen[p].at \in Nat
      BY <2>1 DEF TypeOK, RequestTypeOK, Reads
    <2>4. DueFor(p) = DueStatus(event.status, seen[p].windows, seen[p].at)
      BY <2>1 DEF DueFor
    <2>5. Behind(event.status, DueFor(p))
      BY <2>1 DEF WalksAhead
    <2> QED BY <2>2, <2>3, <2>4, <2>5 DEF MovesOn
  <1>2. CASE UNCHANGED dataVars
    BY <1>2 DEF dataVars, committed
  <1> QED BY <1>1, <1>2 DEF Advance, AdvanceRead, AdvanceReread, AdvanceBeaten

\* A registration decides on the seats, the status and the open registrations
\* that are committed.
LEMMA RegisterIsSerial ==
  ASSUME TypeOK, LockedReadIsCurrent, SeatsInOrder, ~tripped', NEW p \in Procs, Register(p)
  PROVE  TakesSeat \/ JoinsWaitlist \/ UNCHANGED committed
  <1>1. CASE RegisterConfirmed(p) \/ RegisterWaitlisted(p)
    <2>1. Holds(p, Registering) /\ Admissible(p)
      BY <1>1 DEF RegisterConfirmed, RegisterWaitlisted
    <2>2. locked[p].event = event /\ locked[p].rows = reg
      BY <2>1 DEF Holds, LockedReadIsCurrent
    <2>3. req[p].user \in Users
      BY <2>1 DEF Holds, Registering, OfUser, Requests, CertificateOps, TypeOK, RequestTypeOK
    <2>4. OpenOf(reg, req[p].user) = {} /\ event.status = "PUBLISHED"
      BY <2>1, <2>2 DEF Admissible
    <2>5. CASE RegisterConfirmed(p)
      <3>1. event.confirmedCount < event.capacity
        BY <2>2, <2>5 DEF RegisterConfirmed, SeatFree
      <3>2. PICK r \in Unused :
              Store([event EXCEPT !.confirmedCount = @ + 1],
                    [reg EXCEPT ![r] = [user |-> req[p].user, status |-> "CONFIRMED", position |-> 0]],
                    {<<"registration.confirmed", r>>})
        BY <2>5 DEF RegisterConfirmed
      <3>3. /\ event' = [event EXCEPT !.confirmedCount = @ + 1]
            /\ reg' = [reg EXCEPT ![r] = [user |-> req[p].user, status |-> "CONFIRMED", position |-> 0]]
            /\ notices' = notices \union {<<"registration.confirmed", r>>}
        BY <3>2, Stored
      <3> QED BY <2>3, <2>4, <3>1, <3>3 DEF TakesSeat
    <2>6. CASE RegisterWaitlisted(p)
      <3>1. event.confirmedCount = event.capacity
        BY <2>2, <2>6 DEF RegisterWaitlisted, SeatFree, SeatsInOrder, CapacityBounds,
                          TypeOK, DataTypeOK, EventRow
      <3>2. PICK r \in Unused :
              Store(event,
                    [reg EXCEPT ![r] = [user |-> req[p].user, status |-> "WAITLISTED",
                                        position |-> NextWaitlistPosition]],
                    {<<"registration.waitlisted", r>>})
        BY <2>6 DEF RegisterWaitlisted
      <3>3. /\ event' = event
            /\ reg' = [reg EXCEPT ![r] = [user |-> req[p].user, status |-> "WAITLISTED",
                                          position |-> NextWaitlistPosition]]
            /\ notices' = notices \union {<<"registration.waitlisted", r>>}
        BY <3>2, Stored
      <3> QED BY <2>3, <2>4, <3>1, <3>3 DEF JoinsWaitlist
    <2> QED BY <1>1, <2>5, <2>6
  <1>2. CASE RegisterUnchanged(p)
    BY <1>2 DEF RegisterUnchanged, dataVars, committed
  <1> QED BY <1>1, <1>2 DEF Register

\* A withdrawal works on the row and the waitlist that are committed.
LEMMA CancelIsSerial ==
  ASSUME TypeOK, LockedReadIsCurrent, ~tripped', NEW p \in Procs, Cancel(p)
  PROVE  GivesUpSeat \/ LeavesWaitlist \/ UNCHANGED committed
  <1>1. locked[p].event = event /\ locked[p].rows = reg
    BY DEF Cancel, CancelSeat, CancelWaitlisted, CancelRefused, Holds, LockedReadIsCurrent
  <1>2. CASE CancelSeat(p)
    <2> DEFINE seats == IF event.status = "CANCELLED" THEN 0 ELSE 1
    <2>1. PICK r \in Withdrawable(p) :
            /\ reg[r].status = "CONFIRMED"
            /\ \E chosen \in Promotable(seats) :
                 Store([event EXCEPT !.confirmedCount = (@ - 1) + Cardinality(chosen)],
                       Promoted(Cancelled(r), chosen), PromotionNotices(chosen))
      BY <1>1, <1>2 DEF CancelSeat
    <2>2. PICK chosen \in Promotable(seats) :
            Store([event EXCEPT !.confirmedCount = (@ - 1) + Cardinality(chosen)],
                  Promoted(Cancelled(r), chosen), PromotionNotices(chosen))
      BY <2>1
    <2>3. /\ event' = [event EXCEPT !.confirmedCount = (@ - 1) + Cardinality(chosen)]
          /\ reg' = Promoted(Cancelled(r), chosen)
          /\ notices' = notices \union PromotionNotices(chosen)
      BY <2>2, Stored
    <2>4. event.status \in {"PUBLISHED", "REGISTRATION_CLOSED", "CANCELLED"}
      BY <1>1 DEF Withdrawable
    <2>5. r \in WithStatus(reg, "CONFIRMED")
      BY <2>1 DEF Withdrawable, OpenOf, WithStatus
    <2> QED BY <2>3, <2>4, <2>5 DEF GivesUpSeat
  <1>3. CASE CancelWaitlisted(p)
    <2>1. PICK r \in Withdrawable(p) : reg[r].status = "WAITLISTED" /\ Store(event, Cancelled(r), {})
      BY <1>1, <1>3 DEF CancelWaitlisted
    <2>2. event' = event /\ reg' = Cancelled(r) /\ notices' = notices
      BY <2>1, Stored
    <2>3. r \in Waiting
      BY <2>1 DEF Withdrawable, OpenOf, Waiting, WithStatus
    <2> QED BY <2>2, <2>3 DEF LeavesWaitlist
  <1>4. CASE CancelRefused(p)
    BY <1>4 DEF CancelRefused, dataVars, committed
  <1> QED BY <1>2, <1>3, <1>4 DEF Cancel

\* A patch is merged into the row that is committed.
LEMMA PatchIsSerial ==
  ASSUME TypeOK, LockedReadIsCurrent, ~tripped', NEW p \in Procs, Patch(p)
  PROVE  Amends \/ UNCHANGED committed
  <1>1. CASE Update(p)
    <2>1. Holds(p, {"update"}) /\ Editable(p)
      BY <1>1 DEF Update
    <2>2. locked[p].event = event
      BY <2>1 DEF Holds, LockedReadIsCurrent
    <2>3. PICK chosen \in Promotable(Headroom(p)) :
            Store([Merged(p) EXCEPT !.confirmedCount = @ + Cardinality(chosen)],
                  Promoted(reg, chosen), PromotionNotices(chosen))
      BY <1>1 DEF Update
    <2>4. /\ event' = [Merged(p) EXCEPT !.confirmedCount = @ + Cardinality(chosen)]
          /\ reg' = Promoted(reg, chosen)
          /\ notices' = notices \union PromotionNotices(chosen)
      BY <2>3, Stored
    <2>5. Merged(p) \in EventRow /\ Merged(p).confirmedCount = event.confirmedCount
      BY <2>1, MergedType
    <2>6. Merged(p).status = event.status
      BY DEF Merged, TypeOK, DataTypeOK, EventRow
    <2>7. event.status \notin {"CANCELLED", "COMPLETED", "CERTIFIED"}
      BY <2>1, <2>2 DEF Editable, AcceptsEdits
    <2>8. Merged(p).confirmedCount <= Merged(p).capacity
      BY <2>1, <2>2, <2>5 DEF Editable, EventRow
    <2>9. Headroom(p) = IF Merged(p).capacity > event.capacity
                        THEN Merged(p).capacity - event.confirmedCount ELSE 0
      BY <2>2 DEF Headroom
    <2> QED BY <2>4, <2>5, <2>6, <2>7, <2>8, <2>9 DEF Amends
  <1>2. CASE UpdateRefused(p)
    BY <1>2 DEF UpdateRefused, dataVars, committed
  <1> QED BY <1>1, <1>2 DEF Patch

\* Publication and cancellation write the status, whatever it has become.
LEMMA StatusWriteIsSerial ==
  ASSUME ~tripped', NEW p \in Procs, StatusWrite(p)
  PROVE  IsPublished \/ IsCalledOff
  <1>1. CASE PublishWrite(p)
    <2>1. event' = [event EXCEPT !.status = "PUBLISHED"] /\ reg' = reg /\ notices' = notices
      BY <1>1, Stored DEF PublishWrite
    <2> QED BY <2>1 DEF IsPublished
  <1>2. CASE CancelEventWrite(p)
    <2>1. /\ event' = [event EXCEPT !.status = "CANCELLED"] /\ reg' = reg
          /\ notices' = notices \union {<<"event.cancelled", u>> : u \in Holders}
      BY <1>2, Stored DEF CancelEventWrite
    <2> QED BY <2>1 DEF IsCalledOff
  <1> QED BY <1>1, <1>2 DEF StatusWrite

\* Every step commits one operation, or nothing.
LEMMA StepIsSerial ==
  ASSUME TypeOK, LockedReadIsCurrent, SeatsInOrder, WalksAhead, [Next]_vars
  PROVE  SerialStep \/ UNCHANGED committed
  <1>1. ~tripped'
    BY SeatsKept DEF SeatsInOrder, ConstraintsNeverFire
  <1>2. CASE UNCHANGED dataVars
    BY <1>2 DEF dataVars, committed
  <1>3. ASSUME NEW p \in Procs, Step(p) PROVE SerialStep \/ UNCHANGED committed
    <2>1. CASE Arrive(p) \/ SweepScan(p) \/ PublishRead(p) \/ CancelEventRead(p) \/ LockEvent(p) \/ Die(p)
      BY <1>2, <2>1 DEF Arrive, SweepScan, PublishRead, CancelEventRead, ReadThenWrite, LockEvent, Die
    <2> QED BY <1>1, <1>3, <2>1, AdvanceIsSerial, RegisterIsSerial, CancelIsSerial, PatchIsSerial,
               StatusWriteIsSerial DEF Step, Continue, SerialStep
  <1> QED BY <1>2, <1>3 DEF Next, Tick, ClubStatusChange, vars

\* A lifecycle walk is only ever under way towards a status that lies ahead of
\* the one it read, so that its write, which checks the status it read, can
\* only move the event on.
THEOREM WalksAlwaysAhead == Spec => []WalksAhead
  <1>1. Init => WalksAhead
    BY DEF Init, WalksAhead
  <1>2. TypeOK /\ WalksAhead /\ [Next]_vars => WalksAhead'
    BY WalksAheadKept
  <1> QED BY <1>1, <1>2, TypeCorrect, PTL DEF Spec

\* The requests are serializable: whatever they read before they took the event
\* row, every commit is one of eight operations on what is committed at that
\* moment, done whole.
THEOREM Serializable == Spec => [][SerialStep]_committed
  <1>1. TypeOK /\ LockedReadIsCurrent /\ SeatsInOrder /\ WalksAhead /\ [Next]_vars
          => [SerialStep]_committed
    BY StepIsSerial
  <1> QED BY <1>1, TypeCorrect, LockedReadNeverStale, SeatsAlwaysInOrder, WalksAlwaysAhead, PTL DEF Spec
-----------------------------------------------------------------------------
(***************************************************************************)
(* Rows after each operation                                               *)
(***************************************************************************)

\* The hop to COMPLETED changes nothing of a row but CONFIRMED into NO_SHOW.
LEMMA NoShowsRows ==
  ASSUME DataTypeOK, NEW due, NEW r \in Regs
  PROVE  /\ NoShows(due)[r].status =
              IF due = "COMPLETED" /\ reg[r].status = "CONFIRMED" THEN "NO_SHOW" ELSE reg[r].status
         /\ NoShows(due)[r].position = reg[r].position
         /\ NoShows(due)[r].user = reg[r].user
  BY DEF NoShows, DataTypeOK, RegRow

\* A withdrawal changes the status of one row.
LEMMA CancelledRows ==
  ASSUME DataTypeOK, NEW r \in Regs
  PROVE  /\ Cancelled(r) \in [Regs -> RegRow]
         /\ \A q \in Regs : /\ Cancelled(r)[q].status = IF q = r THEN "CANCELLED" ELSE reg[q].status
                            /\ Cancelled(r)[q].position = reg[q].position
                            /\ Cancelled(r)[q].user = reg[q].user
  <1>1. [reg[r] EXCEPT !.status = "CANCELLED"] \in RegRow
    BY DEF DataTypeOK, RegRow, RegStatuses
  <1> QED BY <1>1 DEF Cancelled, DataTypeOK, RegRow

\* Promotion makes the chosen CONFIRMED and leaves everyone else alone.
LEMMA PromotedRows ==
  ASSUME NEW rows \in [Regs -> RegRow], NEW chosen, NEW q \in Regs
  PROVE  /\ Promoted(rows, chosen)[q].status = IF q \in chosen THEN "CONFIRMED" ELSE rows[q].status
         /\ Promoted(rows, chosen)[q].user = rows[q].user
         /\ q \notin chosen => Promoted(rows, chosen)[q] = rows[q]
  BY DEF Promoted, RegRow

\* A newcomer's row is the only one that changes.
LEMMA NewcomerRows ==
  ASSUME DataTypeOK, NEW r \in Regs, NEW u, NEW s, NEW n, NEW rows,
         rows = [reg EXCEPT ![r] = [user |-> u, status |-> s, position |-> n]]
  PROVE  \A q \in Regs : rows[q] = IF q = r THEN [user |-> u, status |-> s, position |-> n] ELSE reg[q]
  BY DEF DataTypeOK

\* A newcomer's position lies behind every other.
LEMMA LastInLine ==
  ASSUME DataTypeOK
  PROVE  \A s \in Waiting : reg[s].position < NextWaitlistPosition
  <1> DEFINE Position == [r \in Waiting |-> reg[r].position]
             Positions == {reg[r].position : r \in Waiting}
  <1>1. Waiting \subseteq Regs /\ IsFiniteSet(Waiting)
    BY SeatedFinite
  <1>2. Positions \subseteq Nat
    BY <1>1 DEF DataTypeOK, RegRow
  <1>3. IsFiniteSet(Positions)
    <2>1. Position \in Surjection(Waiting, Positions)
      BY DEF Surjection
    <2> HIDE DEF Position, Positions
    <2> QED BY <1>1, <2>1, FS_Surjection
  <1>4. IsFiniteSet({0} \union Positions)
    BY <1>3, FS_Singleton, FS_Union
  <1>5. /\ Max({0} \union Positions) \in {0} \union Positions
        /\ \A n \in Positions : n <= Max({0} \union Positions)
    <2> HIDE DEF Positions
    <2>1. {0} \union Positions \subseteq Int /\ {0} \union Positions # {}
      BY <1>2
    <2> QED BY <1>4, <2>1, MaxOfFiniteSet
  <1>6. NextWaitlistPosition = Max({0} \union Positions) + 1
    BY DEF NextWaitlistPosition
  <1>7. \A s \in Waiting : reg[s].position \in Positions
    OBVIOUS
  <1> HIDE DEF Positions
  <1>8. PICK m \in {0} \union Positions :
          NextWaitlistPosition = m + 1 /\ \A n \in Positions : n <= m
    BY <1>5, <1>6
  <1>9. m \in Nat
    BY <1>2, <1>8
  <1> SUFFICES ASSUME NEW s \in Waiting PROVE reg[s].position < NextWaitlistPosition
    OBVIOUS
  <1>10. reg[s].position \in Positions /\ reg[s].position \in Nat
    BY <1>2, <1>7
  <1> QED BY <1>8, <1>9, <1>10

\* An operation other than joining the waitlist puts nobody on it, and moves
\* nobody in it.
LEMMA OnlyNewcomersJoin ==
  ASSUME TypeOK, SerialStep, ~JoinsWaitlist
  PROVE  \A r \in WithStatus(reg', "WAITLISTED") :
           r \in Waiting /\ reg'[r].position = reg[r].position
  <1> USE DEF TypeOK, WithStatus, Waiting
  <1>1. CASE MovesOn
    BY <1>1, NoShowsRows DEF MovesOn
  <1>2. CASE TakesSeat
    <2>1. PICK r \in Unused, u \in Users :
            reg' = [reg EXCEPT ![r] = [user |-> u, status |-> "CONFIRMED", position |-> 0]]
      BY <1>2 DEF TakesSeat
    <2>2. r \in Regs
      BY DEF Unused
    <2> QED BY <2>1, <2>2, NewcomerRows
  <1>3. CASE GivesUpSeat
    <2>1. PICK r, chosen : r \in WithStatus(reg, "CONFIRMED") /\ reg' = Promoted(Cancelled(r), chosen)
      BY <1>3 DEF GivesUpSeat
    <2> QED BY <2>1, CancelledRows, PromotedRows
  <1>4. CASE LeavesWaitlist
    BY <1>4, CancelledRows DEF LeavesWaitlist
  <1>5. CASE Amends
    <2>1. PICK chosen : reg' = Promoted(reg, chosen)
      BY <1>5 DEF Amends
    <2> QED BY <2>1, PromotedRows DEF DataTypeOK
  <1>6. CASE IsPublished \/ IsCalledOff
    BY <1>6 DEF IsPublished, IsCalledOff
  <1> QED BY <1>1, <1>2, <1>3, <1>4, <1>5, <1>6 DEF SerialStep

\* A queue that only shrinks stays strict, and a newcomer stands behind it.
LEMMA QueueKept ==
  ASSUME TypeOK, QueueIsStrict, SerialStep
  PROVE  QueueIsStrict'
  <1>1. CASE ~JoinsWaitlist
    BY <1>1, OnlyNewcomersJoin DEF QueueIsStrict, Waiting
  <1>2. CASE JoinsWaitlist
    <2>1. PICK r \in Unused, u \in Users :
            reg' = [reg EXCEPT ![r] = [user |-> u, status |-> "WAITLISTED",
                                       position |-> NextWaitlistPosition]]
      BY <1>2 DEF JoinsWaitlist
    <2>2. r \in Regs
      BY DEF Unused, WithStatus
    <2>3. \A q \in Regs : reg'[q] = IF q = r THEN [user |-> u, status |-> "WAITLISTED",
                                                   position |-> NextWaitlistPosition]
                                    ELSE reg[q]
      BY <2>1, <2>2 DEF TypeOK, DataTypeOK
    <2>4. \A q \in Waiting' : (q = r /\ reg'[q].position = NextWaitlistPosition)
                               \/ (q \in Waiting /\ reg'[q] = reg[q])
      BY <2>3 DEF Waiting, WithStatus
    <2>5. NextWaitlistPosition \in Nat /\ \A q \in Waiting : reg[q].position \in Nat
      BY NextWaitlistPositionType DEF TypeOK, DataTypeOK, RegRow, Waiting, WithStatus
    <2> QED BY <2>4, <2>5, LastInLine DEF QueueIsStrict, TypeOK
  <1> QED BY <1>1, <1>2

\* No two of those waiting ever share a position: a newcomer's is computed
\* under the event row's lock, behind everyone who waits then.
THEOREM QueueAlwaysStrict == Spec => []QueueIsStrict
  <1>1. Init => QueueIsStrict
    BY DEF Init, QueueIsStrict, Waiting, WithStatus, NoRow
  <1>2. QueueIsStrict /\ TypeOK /\ [SerialStep]_committed => QueueIsStrict'
    BY QueueKept DEF committed, QueueIsStrict, Waiting, WithStatus
  <1> QED BY <1>1, <1>2, TypeCorrect, Serializable, PTL DEF Spec
-----------------------------------------------------------------------------
(***************************************************************************)
(* The status after each operation                                         *)
(***************************************************************************)

\* The status the lifecycle moves on to: never one of the clock-free ones, and
\* never from one of them or from COMPLETED.
LEMMA DueAhead ==
  ASSUME NEW s \in EventStatuses, NEW w \in Windows, NEW t \in Nat,
         Behind(s, DueStatus(s, w, t))
  PROVE  /\ s \in {"PUBLISHED", "REGISTRATION_CLOSED", "ONGOING"}
         /\ DueStatus(s, w, t) \in {"REGISTRATION_CLOSED", "ONGOING", "COMPLETED"}
  <1>1. s \notin ClockFree
    <2>1. ChainIndex[s] \in Nat
      BY StatusNames DEF ChainIndex
    <2> QED BY <2>1 DEF Behind, DueStatus
  <1>2. DueStatus(s, w, t) \in {"PUBLISHED", "REGISTRATION_CLOSED", "ONGOING", "COMPLETED"}
    BY <1>1 DEF DueStatus
  <1> QED BY <1>1, <1>2, StatusNames DEF Behind, ChainIndex, ClockFree

\* What each operation does to the status.
LEMMA StatusAfter ==
  ASSUME TypeOK, SerialStep
  PROVE  \/ event'.status = event.status /\ ~MovesOn
         \/ event'.status = "PUBLISHED" /\ IsPublished
         \/ event'.status = "CANCELLED" /\ IsCalledOff
         \/ /\ MovesOn
            /\ event.status \in {"PUBLISHED", "REGISTRATION_CLOSED", "ONGOING"}
            /\ event'.status \in {"REGISTRATION_CLOSED", "ONGOING", "COMPLETED"}
            /\ Behind(event.status, event'.status)
  <1>1. event \in EventRow /\ event.status \in EventStatuses
    BY DEF TypeOK, DataTypeOK, EventRow
  <1>2. CASE MovesOn
    <2>1. PICK w \in Windows, t \in Nat :
            /\ Behind(event.status, DueStatus(event.status, w, t))
            /\ event' = [event EXCEPT !.status = DueStatus(event.status, w, t)]
      BY <1>2 DEF MovesOn
    <2>2. event'.status = DueStatus(event.status, w, t)
      BY <1>1, <2>1 DEF EventRow
    <2> QED BY <1>1, <1>2, <2>1, <2>2, DueAhead
  <1>3. CASE IsPublished
    BY <1>1, <1>3 DEF IsPublished, EventRow
  <1>4. CASE IsCalledOff
    BY <1>1, <1>4 DEF IsCalledOff, EventRow
  <1>5. CASE ~MovesOn /\ (TakesSeat \/ JoinsWaitlist \/ GivesUpSeat \/ LeavesWaitlist)
    BY <1>1, <1>5 DEF TakesSeat, JoinsWaitlist, GivesUpSeat, LeavesWaitlist, EventRow
  <1>6. CASE ~MovesOn /\ Amends
    <2>1. PICK new, n : /\ new \in EventRow /\ new.status = event.status
                        /\ event' = [new EXCEPT !.confirmedCount = n]
      BY <1>6 DEF Amends
    <2> QED BY <1>6, <2>1 DEF EventRow
  <1> QED BY <1>2, <1>3, <1>4, <1>5, <1>6 DEF SerialStep

\* Time and cancellation only ever move an event onward, whatever stale data a
\* walk, a publication or a cancellation was decided on.
THEOREM StatusesNeverRewind == Spec => StatusNeverRewinds
  <1> DEFINE Onward == event'.status \notin {event.status, "PUBLISHED"}
                       => event'.status = "CANCELLED" \/ (event.status # "CANCELLED"
                                                          /\ Behind(event.status, event'.status))
  <1>1. TypeOK /\ [SerialStep]_committed => Onward
    BY StatusAfter DEF committed
  <1>2. TypeOK /\ [SerialStep]_committed => [Onward]_vars
    BY <1>1
  <1> QED BY <1>2, TypeCorrect, Serializable, PTL DEF StatusNeverRewinds
-----------------------------------------------------------------------------
(***************************************************************************)
(* The end of the event                                                    *)
(***************************************************************************)

\* While the event is over nobody becomes CONFIRMED, and the operation that
\* ends it leaves nobody so.
LEMMA EndKept ==
  ASSUME TypeOK, NobodyExpectedAfterTheEnd, SerialStep
  PROVE  NobodyExpectedAfterTheEnd'
  <1> SUFFICES ASSUME event'.status \in {"COMPLETED", "CERTIFIED"},
                      NEW r \in Regs, reg'[r].status = "CONFIRMED"
               PROVE  FALSE
    BY DEF NobodyExpectedAfterTheEnd, WithStatus
  <1>1. CASE event'.status = event.status /\ ~MovesOn
    <2>1. reg[r].status # "CONFIRMED"
      BY <1>1 DEF NobodyExpectedAfterTheEnd, WithStatus
    <2>2. LeavesWaitlist \/ IsPublished \/ IsCalledOff
      BY <1>1 DEF SerialStep, TakesSeat, JoinsWaitlist, GivesUpSeat, Amends
    <2>3. CASE LeavesWaitlist
      <3>1. PICK q \in Regs : reg' = Cancelled(q)
        BY <2>3 DEF LeavesWaitlist, Waiting, WithStatus
      <3> QED BY <2>1, <3>1, CancelledRows DEF TypeOK
    <2> QED BY <2>1, <2>2, <2>3 DEF IsPublished, IsCalledOff
  <1>2. CASE MovesOn /\ event'.status \in {"REGISTRATION_CLOSED", "ONGOING", "COMPLETED"}
    <2>1. PICK due : event' = [event EXCEPT !.status = due] /\ reg' = NoShows(due)
      BY <1>2 DEF MovesOn
    <2>2. due = "COMPLETED"
      BY <1>2, <2>1 DEF TypeOK, DataTypeOK, EventRow
    <2> QED BY <2>1, <2>2, NoShowsRows DEF TypeOK
  <1> QED BY <1>1, <1>2, StatusAfter

\* Once an event is over nobody is still expected, however many statuses the
\* walk that ended it passed at once.
THEOREM NobodyIsExpectedAfterTheEnd == Spec => []NobodyExpectedAfterTheEnd
  <1>1. Init => NobodyExpectedAfterTheEnd
    BY DEF Init, NobodyExpectedAfterTheEnd
  <1>2. TypeOK /\ NobodyExpectedAfterTheEnd /\ [SerialStep]_committed => NobodyExpectedAfterTheEnd'
    BY EndKept DEF committed, NobodyExpectedAfterTheEnd, WithStatus
  <1> QED BY <1>1, <1>2, TypeCorrect, Serializable, PTL DEF Spec
-----------------------------------------------------------------------------
(***************************************************************************)
(* Cancellation                                                            *)
(***************************************************************************)

\* An event stays cancelled only through operations that give nobody a place.
LEMMA CancellationKept ==
  ASSUME TypeOK, CancellationReachesHolders, SerialStep
  PROVE  CancellationReachesHolders'
  <1> SUFFICES ASSUME event'.status = "CANCELLED", NEW r \in Regs, IsOpen(reg'[r])
               PROVE  <<"event.cancelled", reg'[r].user>> \in notices'
    BY DEF CancellationReachesHolders, OpenRows
  <1>1. CASE IsCalledOff
    BY <1>1 DEF IsCalledOff, Holders, OpenRows
  <1>2. CASE event.status = "CANCELLED" /\ ~MovesOn /\ ~IsCalledOff
    <2>1. \A q \in Regs : IsOpen(reg[q]) => <<"event.cancelled", reg[q].user>> \in notices
      BY <1>2 DEF CancellationReachesHolders, OpenRows
    <2>2. CASE GivesUpSeat
      <3>1. PICK q \in WithStatus(reg, "CONFIRMED"), chosen \in Promotable(0) :
              /\ reg' = Promoted(Cancelled(q), chosen)
              /\ notices' = notices \union PromotionNotices(chosen)
        BY <1>2, <2>2 DEF GivesUpSeat
      <3>2. chosen = {}
        BY DEF Promotable
      <3>3. q \in Regs
        BY DEF WithStatus
      <3>4. reg'[r].status = Cancelled(q)[r].status /\ reg'[r].user = Cancelled(q)[r].user
        BY <3>1, <3>2, <3>3, CancelledRows, PromotedRows DEF TypeOK
      <3>5. IsOpen(reg[r]) /\ reg'[r].user = reg[r].user
        BY <3>3, <3>4, CancelledRows DEF TypeOK, IsOpen
      <3> QED BY <2>1, <3>1, <3>5
    <2>3. CASE LeavesWaitlist
      <3>1. PICK q \in Regs : reg' = Cancelled(q) /\ notices' = notices
        BY <2>3 DEF LeavesWaitlist, Waiting, WithStatus
      <3>2. IsOpen(reg[r]) /\ reg'[r].user = reg[r].user
        BY <3>1, CancelledRows DEF TypeOK, IsOpen
      <3> QED BY <2>1, <3>1, <3>2
    <2>4. CASE IsPublished
      BY <2>1, <2>4 DEF IsPublished
    <2> QED BY <1>2, <2>2, <2>3, <2>4 DEF SerialStep, TakesSeat, JoinsWaitlist, Amends
  <1> QED BY <1>1, <1>2, StatusAfter

\* Everyone with a place at a cancelled event has been told so: nobody is given
\* a place after the holders were read.
THEOREM CancellationAlwaysReachesHolders == Spec => []CancellationReachesHolders
  <1>1. Init => CancellationReachesHolders
    BY DEF Init, CancellationReachesHolders
  <1>2. TypeOK /\ CancellationReachesHolders /\ [SerialStep]_committed => CancellationReachesHolders'
    BY CancellationKept DEF committed, CancellationReachesHolders, OpenRows
  <1> QED BY <1>1, <1>2, TypeCorrect, Serializable, PTL DEF Spec
-----------------------------------------------------------------------------
(***************************************************************************)
(* What people were told                                                   *)
(***************************************************************************)
PlaceNotices == {"registration.confirmed", "registration.waitlisted", "registration.promoted"}

\* Nothing was said about a place nobody has taken yet.
NothingSaidYet == \A r \in Unused, k \in PlaceNotices : <<k, r>> \notin notices

\* The two are inductive together: only a row about which nothing was said is
\* taken.
AnnouncedInOrder == PlacesAnnounced /\ NothingSaidYet

\* What makes AnnouncedInOrder of one row.
RowAnnounced(row, r, said) ==
  /\ row.status = "NONE" => \A k \in PlaceNotices : <<k, r>> \notin said
  /\ row.status = "WAITLISTED" => <<"registration.waitlisted", r>> \in said
  /\ row.status \in SeatStatuses =>
       \/ <<"registration.promoted", r>> \in said
       \/ <<"registration.confirmed", r>> \in said /\ <<"registration.waitlisted", r>> \notin said

\* Row by row.
LEMMA AnnouncedByRow ==
  AnnouncedInOrder <=> \A r \in Regs : RowAnnounced(reg[r], r, notices)
  BY DEF AnnouncedInOrder, PlacesAnnounced, NothingSaidYet, RowAnnounced, Unused, Waiting, Seated,
         HoldingSeat, WithStatus

\* An operation that gives nobody a place says nothing about one, and changes a
\* row within what was said of it.
LEMMA SamePlaces ==
  ASSUME NEW old, NEW row, NEW r, NEW said, RowAnnounced(old, r, said),
         \/ row.status = old.status
         \/ row.status = "CANCELLED"
         \/ old.status \in SeatStatuses /\ row.status \in SeatStatuses
  PROVE  RowAnnounced(row, r, said)
  BY DEF RowAnnounced, SeatStatuses

\* A promotion is announced, and nobody else's place is spoken of.
LEMMA PromotionAnnounced ==
  ASSUME NEW rows \in [Regs -> RegRow], NEW chosen \in SUBSET Regs, NEW r \in Regs,
         RowAnnounced(rows[r], r, notices)
  PROVE  RowAnnounced(Promoted(rows, chosen)[r], r, notices \union PromotionNotices(chosen))
  <1>1. CASE r \in chosen
    <2>1. Promoted(rows, chosen)[r].status = "CONFIRMED"
      BY <1>1, PromotedRows
    <2>2. <<"registration.promoted", r>> \in PromotionNotices(chosen)
      BY <1>1 DEF PromotionNotices
    <2> QED BY <2>1, <2>2 DEF RowAnnounced, SeatStatuses
  <1>2. CASE r \notin chosen
    <2>1. Promoted(rows, chosen)[r] = rows[r]
      BY <1>2, PromotedRows
    <2>2. \A k \in PlaceNotices : <<k, r>> \notin PromotionNotices(chosen)
      BY <1>2 DEF PromotionNotices
    <2> QED BY <2>1, <2>2 DEF RowAnnounced, PlaceNotices
  <1> QED BY <1>1, <1>2

\* Every operation announces the places it gives.
LEMMA AnnouncedKept ==
  ASSUME TypeOK, AnnouncedInOrder, SerialStep
  PROVE  AnnouncedInOrder'
  <1> USE DEF TypeOK
  <1>0. \A r \in Regs : RowAnnounced(reg[r], r, notices)
    BY AnnouncedByRow
  <1> SUFFICES ASSUME NEW r \in Regs PROVE RowAnnounced(reg'[r], r, notices')
    BY DEF AnnouncedInOrder, PlacesAnnounced, NothingSaidYet, RowAnnounced, Unused, Waiting, Seated,
           HoldingSeat, WithStatus
  <1>1. CASE MovesOn
    <2>1. PICK due : reg' = NoShows(due) /\ notices' = notices
      BY <1>1 DEF MovesOn
    <2> QED BY <1>0, <2>1, NoShowsRows, SamePlaces DEF SeatStatuses
  <1>2. CASE TakesSeat
    <2>1. PICK q \in Unused, u \in Users :
            /\ reg' = [reg EXCEPT ![q] = [user |-> u, status |-> "CONFIRMED", position |-> 0]]
            /\ notices' = notices \union {<<"registration.confirmed", q>>}
      BY <1>2 DEF TakesSeat
    <2>2. q \in Regs /\ reg[q].status = "NONE"
      BY DEF Unused, WithStatus
    <2>3. reg'[r].status = IF r = q THEN "CONFIRMED" ELSE reg[r].status
      BY <2>1, <2>2 DEF DataTypeOK
    <2>4. RowAnnounced(reg[r], r, notices)
      BY <1>0
    <2> QED BY <2>1, <2>2, <2>3, <2>4 DEF RowAnnounced, PlaceNotices, SeatStatuses
  <1>3. CASE JoinsWaitlist
    <2>1. PICK q \in Unused, u \in Users :
            /\ reg' = [reg EXCEPT ![q] = [user |-> u, status |-> "WAITLISTED",
                                          position |-> NextWaitlistPosition]]
            /\ notices' = notices \union {<<"registration.waitlisted", q>>}
      BY <1>3 DEF JoinsWaitlist
    <2>2. q \in Regs /\ reg[q].status = "NONE"
      BY DEF Unused, WithStatus
    <2>3. reg'[r].status = IF r = q THEN "WAITLISTED" ELSE reg[r].status
      BY <2>1, <2>2 DEF DataTypeOK
    <2>4. RowAnnounced(reg[r], r, notices)
      BY <1>0
    <2> QED BY <2>1, <2>2, <2>3, <2>4 DEF RowAnnounced, PlaceNotices, SeatStatuses
  <1>4. CASE GivesUpSeat
    <2>1. PICK q \in WithStatus(reg, "CONFIRMED"),
               chosen \in Promotable(IF event.status = "CANCELLED" THEN 0 ELSE 1) :
            /\ reg' = Promoted(Cancelled(q), chosen)
            /\ notices' = notices \union PromotionNotices(chosen)
      BY <1>4 DEF GivesUpSeat
    <2>2. q \in Regs /\ chosen \in SUBSET Regs
      BY PromotableBound, SeatedFinite DEF WithStatus
    <2>3. RowAnnounced(Cancelled(q)[r], r, notices)
      BY <1>0, <2>2, CancelledRows, SamePlaces
    <2> QED BY <2>1, <2>2, <2>3, CancelledRows, PromotionAnnounced
  <1>5. CASE LeavesWaitlist
    <2>1. PICK q \in Regs : reg' = Cancelled(q) /\ notices' = notices
      BY <1>5 DEF LeavesWaitlist, Waiting, WithStatus
    <2> QED BY <1>0, <2>1, CancelledRows, SamePlaces
  <1>6. CASE Amends
    <2>1. PICK new \in EventRow :
            \E chosen \in Promotable(IF new.capacity > event.capacity
                                     THEN new.capacity - event.confirmedCount ELSE 0) :
              /\ reg' = Promoted(reg, chosen)
              /\ notices' = notices \union PromotionNotices(chosen)
      BY <1>6 DEF Amends
    <2> DEFINE n == IF new.capacity > event.capacity
                    THEN new.capacity - event.confirmedCount ELSE 0
    <2>2. n \in Int
      BY DEF EventRow, DataTypeOK
    <2> HIDE DEF n
    <2>3. PICK chosen \in Promotable(n) :
            /\ reg' = Promoted(reg, chosen)
            /\ notices' = notices \union PromotionNotices(chosen)
      BY <2>1 DEF n
    <2>4. chosen \in SUBSET Regs
      BY <2>2, <2>3, PromotableBound, SeatedFinite
    <2> QED BY <1>0, <2>3, <2>4, PromotionAnnounced DEF DataTypeOK
  <1>7. CASE IsPublished
    BY <1>0, <1>7 DEF IsPublished
  <1>8. CASE IsCalledOff
    <2>1. \A k \in PlaceNotices : <<k, r>> \notin {<<"event.cancelled", u>> : u \in Holders}
      BY DEF PlaceNotices
    <2> QED BY <1>0, <1>8, <2>1 DEF IsCalledOff, RowAnnounced, PlaceNotices
  <1> QED BY <1>1, <1>2, <1>3, <1>4, <1>5, <1>6, <1>7, <1>8 DEF SerialStep

\* Everyone waiting was told they wait, and everyone with a seat was told they
\* have it, whichever way they came by it.
THEOREM PlacesAlwaysAnnounced == Spec => []PlacesAnnounced
  <1>1. Init => AnnouncedInOrder
    BY DEF Init, AnnouncedInOrder, PlacesAnnounced, NothingSaidYet, NoRow, Waiting, WithStatus,
           Seated, HoldingSeat, SeatStatuses
  <1>2. TypeOK /\ AnnouncedInOrder /\ [SerialStep]_committed => AnnouncedInOrder'
    BY AnnouncedKept DEF committed, AnnouncedInOrder, PlacesAnnounced, NothingSaidYet, Unused, Waiting,
                         WithStatus, Seated, HoldingSeat
  <1>3. AnnouncedInOrder => PlacesAnnounced
    BY DEF AnnouncedInOrder
  <1> QED BY <1>1, <1>2, <1>3, TypeCorrect, Serializable, PTL DEF Spec
-----------------------------------------------------------------------------
(***************************************************************************)
(* Seats and the waitlist                                                  *)
(***************************************************************************)

\* Exactly how many are promoted: as many as there are seats, or everyone.
LEMMA PromotableCount ==
  ASSUME NEW seats \in Int, NEW chosen \in Promotable(seats)
  PROVE  /\ chosen \subseteq Waiting
         /\ Cardinality(Waiting) \in Nat
         /\ seats <= 0 => chosen = {} /\ Cardinality(chosen) = 0
         /\ seats > 0 => Cardinality(chosen) = IF seats <= Cardinality(Waiting)
                                               THEN seats ELSE Cardinality(Waiting)
         /\ Cardinality(chosen) = Cardinality(Waiting) => chosen = Waiting
         /\ \A r \in chosen, s \in Waiting \ chosen : reg[r].position <= reg[s].position
  <1>1. IsFiniteSet(Waiting) /\ Cardinality(Waiting) \in Nat
    BY SeatedFinite, FS_CardinalityType
  <1>2. CASE seats <= 0
    <2>1. chosen = {}
      BY <1>2 DEF Promotable
    <2> QED BY <1>1, <1>2, <2>1, FS_EmptySet
  <1>3. CASE seats > 0
    <2>1. /\ chosen \subseteq Waiting
          /\ Cardinality(chosen) = Min({seats, Cardinality(Waiting)})
          /\ \A r \in chosen, s \in Waiting \ chosen : reg[r].position <= reg[s].position
      BY <1>3 DEF Promotable, FrontOfQueue
    <2>2. Cardinality(chosen) = Cardinality(Waiting) => chosen = Waiting
      BY <1>1, <2>1, FS_Subset
    <2>3. Cardinality(chosen) = IF seats <= Cardinality(Waiting) THEN seats ELSE Cardinality(Waiting)
      BY <1>1, <2>1, MinOfPair
    <2> QED BY <1>1, <1>3, <2>1, <2>2, <2>3
  <1> QED BY <1>2, <1>3

\* The numbers the event row holds, and those who wait.
LEMMA SeatNumbers ==
  ASSUME TypeOK, SeatsInOrder
  PROVE  /\ event.confirmedCount \in Nat /\ event.capacity \in Nat \ {0}
         /\ event.confirmedCount <= event.capacity
         /\ Cardinality(Waiting) \in Nat
         /\ Cardinality(Waiting) = 0 <=> Waiting = {}
  BY SeatedFinite, FS_CardinalityType, FS_EmptySet
     DEF TypeOK, DataTypeOK, EventRow, SeatsInOrder, CapacityBounds

\* Until somebody is told of a cancellation, a cancelled event has nobody.
LEMMA UntoldMeansEmpty ==
  ASSUME TypeOK, CancellationReachesHolders, event.status = "CANCELLED",
         \A u \in Users : <<"event.cancelled", u>> \notin notices
  PROVE  OpenRows = {}
  BY DEF CancellationReachesHolders, OpenRows, TypeOK, DataTypeOK

\* Every operation that frees seats fills them from the waitlist.
LEMMA NoIdleSeatKept ==
  ASSUME TypeOK, SeatsInOrder, CancellationReachesHolders, NoIdleSeat, SerialStep
  PROVE  NoIdleSeat'
  <1> SUFFICES ASSUME \A u \in Users : <<"event.cancelled", u>> \notin notices'
               PROVE  WithStatus(reg', "WAITLISTED") = {} \/ event'.confirmedCount = event'.capacity
    BY DEF NoIdleSeat, Waiting, WithStatus
  <1>1. \A u \in Users : <<"event.cancelled", u>> \notin notices
    BY DEF SerialStep, MovesOn, TakesSeat, JoinsWaitlist, GivesUpSeat, LeavesWaitlist, Amends,
           IsPublished, IsCalledOff
  <1>2. Waiting = {} \/ event.confirmedCount = event.capacity
    BY <1>1 DEF NoIdleSeat
  <1>3. CASE ~JoinsWaitlist /\ event'.confirmedCount = event.confirmedCount
                           /\ event'.capacity = event.capacity
    BY <1>2, <1>3, OnlyNewcomersJoin
  <1>4. CASE TakesSeat /\ ~JoinsWaitlist
    <2>1. Waiting = {}
      BY <1>2, <1>4, SeatNumbers DEF TakesSeat
    <2> QED BY <1>4, <2>1, OnlyNewcomersJoin
  <1>5. CASE JoinsWaitlist
    BY <1>5 DEF JoinsWaitlist
  <1>6. CASE GivesUpSeat /\ ~JoinsWaitlist
    <2>1. PICK r \in WithStatus(reg, "CONFIRMED"),
               chosen \in Promotable(IF event.status = "CANCELLED" THEN 0 ELSE 1) :
            event' = [event EXCEPT !.confirmedCount = (@ - 1) + Cardinality(chosen)]
      BY <1>6 DEF GivesUpSeat
    <2>2. event.status # "CANCELLED"
      <3>1. r \in OpenRows
        BY DEF WithStatus, OpenRows, IsOpen
      <3> QED BY <1>1, <3>1, UntoldMeansEmpty
    <2>3. CASE Waiting = {}
      BY <1>6, <2>3, OnlyNewcomersJoin
    <2>4. CASE Waiting # {} /\ event.confirmedCount = event.capacity
      <3>1. Cardinality(chosen) = 1
        BY <2>2, <2>4, PromotableCount, SeatNumbers
      <3>2. event' = [event EXCEPT !.confirmedCount = (event.confirmedCount - 1) + 1]
        BY <2>1, <3>1
      <3> QED BY <2>4, <3>2, SeatNumbers DEF TypeOK, DataTypeOK, EventRow
    <2> QED BY <1>2, <2>3, <2>4
  <1>7. CASE Amends /\ ~JoinsWaitlist
    <2>1. PICK new \in EventRow :
            /\ new.confirmedCount = event.confirmedCount
            /\ new.confirmedCount <= new.capacity
            /\ \E chosen \in Promotable(IF new.capacity > event.capacity
                                        THEN new.capacity - event.confirmedCount ELSE 0) :
                 /\ event' = [new EXCEPT !.confirmedCount = @ + Cardinality(chosen)]
                 /\ reg' = Promoted(reg, chosen)
      BY <1>7 DEF Amends
    <2> DEFINE n == IF new.capacity > event.capacity
                    THEN new.capacity - event.confirmedCount ELSE 0
    <2>2. /\ n \in Int /\ new.capacity \in Nat
          /\ n > 0 => n = new.capacity - event.confirmedCount
          /\ n <= 0 => new.capacity <= event.capacity
      BY <2>1, SeatNumbers DEF EventRow
    <2> HIDE DEF n
    <2>3. PICK chosen \in Promotable(n) :
            /\ event' = [new EXCEPT !.confirmedCount = event.confirmedCount + Cardinality(chosen)]
            /\ reg' = Promoted(reg, chosen)
      BY <2>1 DEF n
    <2>4. /\ event'.confirmedCount = event.confirmedCount + Cardinality(chosen)
          /\ event'.capacity = new.capacity
      BY <2>3 DEF EventRow
    <2>5. CASE chosen = Waiting
      <3>1. \A r \in Regs : reg'[r].status # "WAITLISTED"
        BY <2>3, <2>5, PromotedRows DEF Waiting, WithStatus, TypeOK, DataTypeOK
      <3> QED BY <3>1 DEF WithStatus
    <2>6. CASE chosen # Waiting /\ n > 0
      BY <2>2, <2>4, <2>6, PromotableCount, SeatNumbers
    <2>7. CASE chosen # Waiting /\ n <= 0
      <3>1. Cardinality(chosen) = 0 /\ Waiting # {}
        BY <2>2, <2>7, PromotableCount
      <3> QED BY <1>2, <2>1, <2>2, <2>4, <2>7, <3>1, SeatNumbers
    <2> QED BY <2>2, <2>5, <2>6, <2>7
  <1>8. CASE MovesOn \/ LeavesWaitlist \/ IsPublished \/ IsCalledOff
    BY <1>3, <1>5, <1>8 DEF MovesOn, LeavesWaitlist, IsPublished, IsCalledOff, TypeOK, DataTypeOK, EventRow
  <1> QED BY <1>4, <1>5, <1>6, <1>7, <1>8 DEF SerialStep

\* Nobody waits while a seat stands empty, unless the holders were told the
\* event is off: whatever frees a seat fills it in the same transaction.
THEOREM NoSeatStandsIdle == Spec => []NoIdleSeat
  <1>1. Init => NoIdleSeat
    BY DEF Init, NoIdleSeat, Waiting, WithStatus, NoRow
  <1>2. /\ TypeOK /\ SeatsInOrder /\ CancellationReachesHolders /\ NoIdleSeat
        /\ [SerialStep]_committed
        => NoIdleSeat'
    BY NoIdleSeatKept DEF committed, NoIdleSeat, Waiting, WithStatus
  <1> QED BY <1>1, <1>2, TypeCorrect, SeatsAlwaysInOrder, CancellationAlwaysReachesHolders,
             Serializable, PTL DEF Spec
-----------------------------------------------------------------------------
(***************************************************************************)
(* The seat ledger.  Each operation is one step of SeatLedger or leaves it *)
(* alone.                                                                  *)
(***************************************************************************)

\* The ledger counts as the model does.
LEMMA LedgerCount ==
  ASSUME NEW S
  PROVE  Ledger!Cardinality(S) = Cardinality(S)
  BY DEF Ledger!Cardinality, Cardinality

\* The smaller of two numbers, in the ledger.
LEMMA LedgerMin ==
  ASSUME NEW a \in Int, NEW b \in Int
  PROVE  Ledger!Min({a, b}) = IF a <= b THEN a ELSE b
  BY DEF Ledger!Min

\* The queue and the seats left, in the terms of the registrations.
LEMMA LedgerTerms ==
  /\ Ledger!Queued = Waiting
  /\ \A n, S : Ledger!SeatsLeft(n, S) = n - Cardinality(S)
  BY LedgerCount DEF Ledger!Queued, Ledger!SeatsLeft

\* Nothing but a cancellation tells holders that the event is off.
LEMMA ToldOffAfter ==
  ASSUME SerialStep, ~IsCalledOff
  PROVE  HoldersToldOff' <=> HoldersToldOff
  <1>1. \/ notices' = notices
        \/ \E r : notices' = notices \union {<<"registration.confirmed", r>>}
        \/ \E r : notices' = notices \union {<<"registration.waitlisted", r>>}
        \/ \E chosen : notices' = notices \union PromotionNotices(chosen)
    <2>1. CASE MovesOn \/ LeavesWaitlist \/ IsPublished
      BY <2>1 DEF MovesOn, LeavesWaitlist, IsPublished
    <2>2. CASE TakesSeat
      BY <2>2 DEF TakesSeat
    <2>3. CASE JoinsWaitlist
      BY <2>3 DEF JoinsWaitlist
    <2>4. CASE GivesUpSeat
      BY <2>4 DEF GivesUpSeat
    <2>5. CASE Amends
      BY <2>5 DEF Amends
    <2> QED BY <2>1, <2>2, <2>3, <2>4, <2>5 DEF SerialStep
  <1> QED BY <1>1 DEF HoldersToldOff, PromotionNotices

\* Those who wait keep their numbers as long as they wait.
LEMMA QueueShrinks ==
  ASSUME NEW out \in SUBSET Waiting,
         WithStatus(reg', "WAITLISTED") = Waiting \ out,
         \A r \in Waiting \ out : reg'[r].position = reg[r].position
  PROVE  Ledger!Leave(out)
  <1>1. [r \in Waiting |-> reg[r].position]' = [r \in Waiting \ out |-> reg[r].position]
    BY DEF Waiting, WithStatus
  <1> QED BY <1>1 DEF Ledger!Leave, Ledger!Queued

\* A refill: the front of the queue is seated beside those who keep their seats.
LEMMA RefillInLedger ==
  ASSUME QueueIsStrict, DataTypeOK,
         NEW seats \in Int, NEW rest, Cardinality(rest) \in Nat,
         NEW chosen \in SUBSET Waiting, Cardinality(chosen) \in Nat, Cardinality(Waiting) \in Nat,
         Cardinality(chosen) <= seats - Cardinality(rest),
         Cardinality(chosen) <= Cardinality(Waiting),
         \/ HoldersToldOff
         \/ Cardinality(chosen) = seats - Cardinality(rest)
         \/ Cardinality(chosen) = Cardinality(Waiting),
         \A r \in chosen, s \in Waiting \ chosen : reg[r].position <= reg[s].position,
         Seated' = rest \union chosen,
         Ledger!Leave(chosen)
  PROVE  Ledger!Refill(seats, rest)
  <1> DEFINE due == Ledger!Min({Ledger!Cardinality(Ledger!Queued), Ledger!SeatsLeft(seats, rest)})
  <1> DEFINE left == seats - Cardinality(rest)
  <1>1. due = IF Cardinality(Waiting) <= left THEN Cardinality(Waiting) ELSE left
    BY LedgerCount, LedgerTerms, LedgerMin
  <1>2. Ledger!Cardinality(chosen) \in (IF HoldersToldOff THEN 0 .. due ELSE {due})
    <2> HIDE DEF due
    <2> QED BY <1>1, LedgerCount
  <1>3. Ledger!InFront(chosen)
    <2>1. \A r \in chosen, s \in Waiting \ chosen :
            reg[r].position \in Nat /\ reg[s].position \in Nat /\ reg[r].position # reg[s].position
      BY DEF QueueIsStrict, DataTypeOK, RegRow, Waiting, WithStatus
    <2>2. \A r \in chosen, s \in Waiting \ chosen : reg[r].position < reg[s].position
      BY <2>1
    <2> QED BY <2>2, LedgerTerms DEF Ledger!InFront
  <1> QED BY <1>2, <1>3, LedgerTerms DEF Ledger!Refill

\* What promotion does to the seats, the queue and those gone.
LEMMA PromotionInLedger ==
  ASSUME DataTypeOK, NEW rows \in [Regs -> RegRow], NEW chosen \in SUBSET Waiting,
         WithStatus(rows, "WAITLISTED") = Waiting,
         \A r \in Waiting : rows[r].position = reg[r].position,
         reg' = Promoted(rows, chosen)
  PROVE  /\ Seated' = HoldingSeat(rows) \union chosen
         /\ Ledger!Leave(chosen)
         /\ WithStatus(reg, "CANCELLED")' = WithStatus(rows, "CANCELLED")
  <1>0. chosen \subseteq Regs
    BY DEF Waiting, WithStatus
  <1>1. \A r \in Regs : /\ reg'[r].status = IF r \in chosen THEN "CONFIRMED" ELSE rows[r].status
                        /\ r \notin chosen => reg'[r] = rows[r]
    BY PromotedRows
  <1>2. Seated' = HoldingSeat(rows) \union chosen
    BY <1>0, <1>1 DEF Seated, HoldingSeat, SeatStatuses
  <1>3. WithStatus(reg', "WAITLISTED") = Waiting \ chosen
    BY <1>1 DEF WithStatus
  <1>4. \A r \in Waiting \ chosen : reg'[r].position = reg[r].position
    BY <1>1 DEF Waiting, WithStatus
  <1>5. WithStatus(reg, "CANCELLED")' = WithStatus(rows, "CANCELLED")
    <2>1. \A r \in chosen : rows[r].status # "CANCELLED"
      BY DEF WithStatus
    <2> QED BY <1>0, <1>1, <2>1 DEF WithStatus
  <1> QED BY <1>2, <1>3, <1>4, <1>5, QueueShrinks

\* The numbers a ledger step decides on.
LEMMA LedgerNumbers ==
  ASSUME TypeOK, SeatsInOrder, NoIdleSeat
  PROVE  /\ Cardinality(Seated) = event.confirmedCount
         /\ HoldersToldOff \/ Waiting = {} \/ event.confirmedCount = event.capacity
         /\ event.confirmedCount # 0 => Seated # {}
  BY FS_EmptySet DEF SeatsInOrder, SeatCountExact, NoIdleSeat, HoldersToldOff

\* The lifecycle and publication touch neither seats nor queue.
LEMMA StutterInLedger ==
  ASSUME TypeOK, MovesOn \/ IsPublished, SerialStep, ~IsCalledOff
  PROVE  UNCHANGED Ledger!ledger
  <1>1. \A r \in Regs : /\ reg'[r].position = reg[r].position
                        /\ reg'[r].status = reg[r].status
                           \/ (reg'[r].status = "NO_SHOW" /\ reg[r].status = "CONFIRMED")
    <2>1. CASE MovesOn
      <3>1. PICK due : reg' = NoShows(due)
        BY <2>1 DEF MovesOn
      <3> QED BY <3>1, NoShowsRows DEF TypeOK
    <2> QED BY <2>1 DEF IsPublished
  <1>2. event'.capacity = event.capacity
    BY DEF MovesOn, IsPublished, TypeOK, DataTypeOK, EventRow
  <1>3. Seated' = Seated /\ WithStatus(reg, "CANCELLED")' = WithStatus(reg, "CANCELLED")
    BY <1>1 DEF Seated, HoldingSeat, SeatStatuses, WithStatus
  <1>4. [r \in Waiting |-> reg[r].position]' = [r \in Waiting |-> reg[r].position]
    BY <1>1 DEF Waiting, WithStatus
  <1>5. HoldersToldOff' = HoldersToldOff
    BY ToldOffAfter DEF HoldersToldOff
  <1> QED BY <1>2, <1>3, <1>4, <1>5 DEF Ledger!ledger

\* A newcomer is seated past an empty queue, or queues behind everyone.
LEMMA NewcomerInLedger ==
  ASSUME TypeOK, SeatsInOrder, NoIdleSeat, TakesSeat \/ JoinsWaitlist
  PROVE  Ledger!Next
  <1> USE DEF TypeOK
  <1>1. ASSUME NEW r \in Unused
        PROVE  r \in Regs /\ r \in Ledger!New /\ reg[r].status = "NONE"
    BY LedgerTerms DEF Unused, WithStatus, Ledger!New, Seated, HoldingSeat, SeatStatuses, Waiting
  <1>2. HoldersToldOff' <=> HoldersToldOff
    BY DEF TakesSeat, JoinsWaitlist, HoldersToldOff
  <1>3. CASE TakesSeat
    <2>1. PICK r \in Unused, u \in Users :
            reg' = [reg EXCEPT ![r] = [user |-> u, status |-> "CONFIRMED", position |-> 0]]
      BY <1>3 DEF TakesSeat
    <2>2. \A q \in Regs : /\ reg'[q].status = IF q = r THEN "CONFIRMED" ELSE reg[q].status
                          /\ q # r => reg'[q] = reg[q]
      BY <1>1, <2>1 DEF DataTypeOK
    <2>3. Seated' = Seated \union {r}
      BY <1>1, <2>2 DEF Seated, HoldingSeat, SeatStatuses
    <2>4. [q \in Waiting |-> reg[q].position]' = [q \in Waiting |-> reg[q].position]
      BY <1>1, <2>2 DEF Waiting, WithStatus
    <2>5. WithStatus(reg, "CANCELLED")' = WithStatus(reg, "CANCELLED")
      BY <1>1, <2>2 DEF WithStatus
    <2>6. event'.capacity = event.capacity
      BY <1>3 DEF TakesSeat, DataTypeOK, EventRow
    <2>7. Ledger!SeatsLeft(event.capacity, Seated) > 0
      BY <1>3, LedgerTerms, LedgerNumbers, SeatNumbers DEF TakesSeat
    <2>8. Waiting = {} \/ HoldersToldOff
      BY <1>3, LedgerNumbers, SeatNumbers DEF TakesSeat
    <2>9. Ledger!Take(r)
      BY <1>2, <2>3, <2>4, <2>5, <2>6, <2>7, <2>8, LedgerTerms DEF Ledger!Take
    <2> QED BY <1>1, <2>9 DEF Ledger!Next
  <1>4. CASE JoinsWaitlist
    <2>1. PICK r \in Unused, u \in Users :
            reg' = [reg EXCEPT ![r] = [user |-> u, status |-> "WAITLISTED",
                                       position |-> NextWaitlistPosition]]
      BY <1>4 DEF JoinsWaitlist
    <2>2. \A q \in Regs : /\ reg'[q].status = IF q = r THEN "WAITLISTED" ELSE reg[q].status
                          /\ reg'[q].position = IF q = r THEN NextWaitlistPosition ELSE reg[q].position
      BY <1>1, <2>1 DEF DataTypeOK
    <2>3. Seated' = Seated
      BY <1>1, <2>2 DEF Seated, HoldingSeat, SeatStatuses
    <2>4. WithStatus(reg', "WAITLISTED") = Waiting \union {r} /\ r \notin Waiting
      BY <1>1, <2>2 DEF Waiting, WithStatus
    <2>5. WithStatus(reg, "CANCELLED")' = WithStatus(reg, "CANCELLED")
      BY <1>1, <2>2 DEF WithStatus
    <2>6. event' = event
      BY <1>4 DEF JoinsWaitlist
    <2>7. Ledger!SeatsLeft(event.capacity, Seated) = 0
      BY <1>4, LedgerTerms, LedgerNumbers, SeatNumbers DEF JoinsWaitlist
    <2>8. [q \in Waiting |-> reg[q].position]' = [q \in Waiting \union {r} |-> reg'[q].position]
      BY <2>4 DEF Waiting
    <2>9. Waiting \subseteq Regs /\ NextWaitlistPosition \in Nat
      BY SeatedFinite, NextWaitlistPositionType
    <2>10. \A q \in Waiting : reg'[q].position = reg[q].position /\ reg[q].position < reg'[r].position
      BY <1>1, <2>2, <2>4, <2>9, LastInLine
    <2>11. [q \in Waiting \union {r} |-> reg'[q].position] \in [Waiting \union {r} -> Nat]
      <3>1. \A q \in Waiting \union {r} : reg'[q].position \in Nat
        BY <1>1, <2>2, <2>9 DEF DataTypeOK, RegRow
      <3> QED BY <3>1
    <2>12. Ledger!Wait(r)
      BY <1>2, <2>3, <2>5, <2>6, <2>7, <2>8, <2>10, <2>11, LedgerTerms DEF Ledger!Wait
    <2> QED BY <1>1, <2>12 DEF Ledger!Next
  <1> QED BY <1>3, <1>4

\* A seat given up goes to the head of the queue, unless its holders were told
\* the event is off.
LEMMA GiveUpInLedger ==
  ASSUME TypeOK, SeatsInOrder, NoIdleSeat, QueueIsStrict, CancellationReachesHolders, GivesUpSeat
  PROVE  Ledger!Next
  <1> USE DEF TypeOK
  <1> DEFINE n == IF event.status = "CANCELLED" THEN 0 ELSE 1
  <1>1. PICK r \in WithStatus(reg, "CONFIRMED"), chosen \in Promotable(n) :
          /\ event' = [event EXCEPT !.confirmedCount = (@ - 1) + Cardinality(chosen)]
          /\ reg' = Promoted(Cancelled(r), chosen)
          /\ notices' = notices \union PromotionNotices(chosen)
    BY DEF GivesUpSeat
  <1>2. r \in Regs /\ r \in Seated /\ reg[r].status = "CONFIRMED"
    BY DEF WithStatus, Seated, HoldingSeat, SeatStatuses
  <1>3. /\ WithStatus(Cancelled(r), "WAITLISTED") = Waiting
        /\ WithStatus(Cancelled(r), "CANCELLED") = WithStatus(reg, "CANCELLED") \union {r}
        /\ HoldingSeat(Cancelled(r)) = Seated \ {r}
    BY <1>2, CancelledRows DEF WithStatus, Waiting, Seated, HoldingSeat, SeatStatuses
  <1>4. /\ chosen \in SUBSET Waiting /\ Cardinality(Waiting) \in Nat
        /\ \A q \in chosen, s \in Waiting \ chosen : reg[q].position <= reg[s].position
    BY PromotableCount
  <1>5. /\ Cardinality(chosen) \in Nat /\ Cardinality(chosen) <= 1
        /\ Cardinality(chosen) <= Cardinality(Waiting)
        /\ event.status # "CANCELLED" =>
             Cardinality(chosen) = 1 \/ Cardinality(chosen) = Cardinality(Waiting)
    <2>1. n \in {0, 1} /\ (event.status # "CANCELLED" => n = 1)
      OBVIOUS
    <2> HIDE DEF n
    <2> QED BY <2>1, PromotableCount
  <1>6. event.status = "CANCELLED" => HoldersToldOff
    BY <1>2 DEF CancellationReachesHolders, HoldersToldOff, OpenRows, IsOpen, DataTypeOK
  <1>7. /\ Cardinality(Seated \ {r}) = event.confirmedCount - 1
        /\ event.confirmedCount \in Nat /\ event.capacity \in Nat
        /\ event.confirmedCount <= event.capacity
    BY <1>2, SeatedFinite, FS_RemoveElement, SeatNumbers DEF SeatsInOrder, SeatCountExact
  <1>8. /\ Seated' = (Seated \ {r}) \union chosen
        /\ Ledger!Leave(chosen)
        /\ WithStatus(reg, "CANCELLED")' = WithStatus(reg, "CANCELLED") \union {r}
    <2>1. Cancelled(r) \in [Regs -> RegRow] /\ \A q \in Waiting : Cancelled(r)[q].position = reg[q].position
      BY <1>2, CancelledRows, SeatedFinite
    <2> QED BY <1>1, <1>3, <1>4, <2>1, PromotionInLedger
  <1>9. /\ Cardinality(Seated \ {r}) \in Nat
        /\ Cardinality(chosen) <= event.capacity - Cardinality(Seated \ {r})
        /\ event.confirmedCount = event.capacity => event.capacity - Cardinality(Seated \ {r}) = 1
    BY <1>2, <1>5, <1>7, SeatedFinite, FS_RemoveElement, FS_CardinalityType
  <1>10. \/ HoldersToldOff
         \/ Cardinality(chosen) = event.capacity - Cardinality(Seated \ {r})
         \/ Cardinality(chosen) = Cardinality(Waiting)
    <2>1. CASE Waiting = {}
      BY <1>5, <2>1, SeatNumbers
    <2>2. CASE event.confirmedCount = event.capacity
      BY <1>5, <1>6, <1>9, <2>2
    <2> QED BY <2>1, <2>2, LedgerNumbers
  <1>11. Ledger!Refill(event.capacity, Seated \ {r})
    <2>1. PICK seats, rest : seats = event.capacity /\ rest = Seated \ {r}
      OBVIOUS
    <2>2. seats \in Int /\ DataTypeOK
      BY <1>7, <2>1
    <2>3. Ledger!Refill(seats, rest)
      BY <1>4, <1>5, <1>8, <1>9, <1>10, <2>1, <2>2, RefillInLedger
    <2> QED BY <2>1, <2>3 DEF Ledger!Refill
  <1>12. event'.capacity = event.capacity
    BY <1>1 DEF DataTypeOK, EventRow
  <1>13. HoldersToldOff' <=> HoldersToldOff
    BY <1>1 DEF HoldersToldOff, PromotionNotices
  <1>14. Ledger!GiveUpSeat(r)
    BY <1>8, <1>11, <1>12, <1>13 DEF Ledger!GiveUpSeat
  <1> QED BY <1>2, <1>14 DEF Ledger!Next

\* A patch fills what seats it adds from the queue, and takes none away that
\* is given.
LEMMA AmendInLedger ==
  ASSUME TypeOK, SeatsInOrder, NoIdleSeat, QueueIsStrict, Amends
  PROVE  Ledger!Next
  <1> USE DEF TypeOK
  <1>1. PICK new \in EventRow :
          /\ new.confirmedCount = event.confirmedCount
          /\ new.confirmedCount <= new.capacity
          /\ \E chosen \in Promotable(IF new.capacity > event.capacity
                                      THEN new.capacity - event.confirmedCount ELSE 0) :
               /\ event' = [new EXCEPT !.confirmedCount = @ + Cardinality(chosen)]
               /\ reg' = Promoted(reg, chosen)
               /\ notices' = notices \union PromotionNotices(chosen)
    BY DEF Amends
  <1> DEFINE n == IF new.capacity > event.capacity
                  THEN new.capacity - event.confirmedCount ELSE 0
  <1>2. /\ n \in Int /\ new.capacity \in Nat \ {0}
        /\ n > 0 => n = new.capacity - event.confirmedCount
        /\ n <= 0 => n = 0 /\ new.capacity <= event.capacity
    BY <1>1, SeatNumbers DEF EventRow
  <1> HIDE DEF n
  <1>3. PICK chosen \in Promotable(n) :
          /\ event' = [new EXCEPT !.confirmedCount = event.confirmedCount + Cardinality(chosen)]
          /\ reg' = Promoted(reg, chosen)
          /\ notices' = notices \union PromotionNotices(chosen)
    BY <1>1 DEF n
  <1>4. /\ chosen \in SUBSET Waiting /\ Cardinality(Waiting) \in Nat
        /\ \A q \in chosen, s \in Waiting \ chosen : reg[q].position <= reg[s].position
    BY <1>2, PromotableCount
  <1>5. /\ Cardinality(chosen) \in Nat
        /\ Cardinality(chosen) <= Cardinality(Waiting)
        /\ n <= 0 => Cardinality(chosen) = 0
        /\ n > 0 => Cardinality(chosen) <= n
        /\ n > 0 => Cardinality(chosen) = n \/ Cardinality(chosen) = Cardinality(Waiting)
    BY <1>2, PromotableCount
  <1>6. /\ event.confirmedCount \in Nat /\ event.capacity \in Nat
        /\ event.confirmedCount <= event.capacity
        /\ Cardinality(Seated) = event.confirmedCount
    BY SeatNumbers, LedgerNumbers
  <1>7. /\ Seated' = Seated \union chosen
        /\ Ledger!Leave(chosen)
        /\ WithStatus(reg, "CANCELLED")' = WithStatus(reg, "CANCELLED")
    <2>1. PICK rows : rows = reg
      OBVIOUS
    <2>2. /\ rows \in [Regs -> RegRow] /\ reg' = Promoted(rows, chosen)
          /\ WithStatus(rows, "WAITLISTED") = Waiting /\ HoldingSeat(rows) = Seated
          /\ \A q \in Waiting : rows[q].position = reg[q].position
      BY <1>3, <2>1 DEF DataTypeOK, Waiting, Seated
    <2> QED BY <1>4, <2>1, <2>2, PromotionInLedger
  <1>8. event'.capacity = new.capacity
    BY <1>3 DEF EventRow
  <1>9. \/ HoldersToldOff
        \/ Cardinality(chosen) = new.capacity - Cardinality(Seated)
        \/ Cardinality(chosen) = Cardinality(Waiting)
    <2>1. CASE n > 0
      BY <1>2, <1>5, <1>6, <2>1
    <2>2. CASE n <= 0 /\ Waiting = {}
      BY <1>5, <2>2, SeatNumbers
    <2>3. CASE n <= 0 /\ event.confirmedCount = event.capacity
      BY <1>1, <1>2, <1>5, <1>6, <2>3
    <2> QED BY <1>2, <2>1, <2>2, <2>3, LedgerNumbers
  <1>10. Cardinality(chosen) <= new.capacity - Cardinality(Seated)
    BY <1>1, <1>2, <1>5, <1>6
  <1>11. Ledger!Refill(event'.capacity, Seated)
    <2>1. PICK seats, rest : seats = new.capacity /\ rest = Seated
      OBVIOUS
    <2>2. /\ seats \in Int /\ DataTypeOK /\ Cardinality(rest) \in Nat
          /\ Cardinality(chosen) <= seats - Cardinality(rest)
          /\ \/ HoldersToldOff
             \/ Cardinality(chosen) = seats - Cardinality(rest)
             \/ Cardinality(chosen) = Cardinality(Waiting)
      BY <1>2, <1>6, <1>9, <1>10, <2>1
    <2>3. Ledger!Refill(seats, rest)
      BY <1>4, <1>5, <1>7, <2>1, <2>2, RefillInLedger
    <2> QED BY <1>8, <2>1, <2>3 DEF Ledger!Refill
  <1>12. HoldersToldOff' = HoldersToldOff
    BY <1>3 DEF HoldersToldOff, PromotionNotices
  <1>13. Ledger!SeatsLeft(event'.capacity, Seated) >= 0
    BY <1>1, <1>2, <1>6, <1>8, LedgerTerms
  <1>14. Ledger!Resize
    BY <1>2, <1>7, <1>8, <1>11, <1>12, <1>13 DEF Ledger!Resize
  <1> QED BY <1>14 DEF Ledger!Next

\* Leaving the waitlist.
LEMMA LeaveInLedger ==
  ASSUME TypeOK, LeavesWaitlist
  PROVE  Ledger!Next
  <1>1. PICK r \in Waiting : reg' = Cancelled(r)
    BY DEF LeavesWaitlist
  <1>2. r \in Regs /\ reg[r].status = "WAITLISTED"
    BY DEF Waiting, WithStatus
  <1>3. \A q \in Regs : /\ reg'[q].status = IF q = r THEN "CANCELLED" ELSE reg[q].status
                        /\ reg'[q].position = reg[q].position
    BY <1>1, <1>2, CancelledRows DEF TypeOK
  <1>4. Seated' = Seated
    BY <1>2, <1>3 DEF Seated, HoldingSeat, SeatStatuses
  <1>5. WithStatus(reg, "CANCELLED")' = WithStatus(reg, "CANCELLED") \union {r}
    BY <1>2, <1>3 DEF WithStatus
  <1>6. WithStatus(reg', "WAITLISTED") = Waiting \ {r}
    BY <1>2, <1>3 DEF WithStatus, Waiting
  <1>7. Ledger!Leave({r})
    BY <1>3, <1>6, SeatedFinite, QueueShrinks
  <1>8. event' = event /\ HoldersToldOff' = HoldersToldOff
    BY DEF LeavesWaitlist, HoldersToldOff
  <1>9. Ledger!LeaveQueue(r)
    BY <1>4, <1>5, <1>7, <1>8 DEF Ledger!LeaveQueue
  <1> QED BY <1>9, LedgerTerms DEF Ledger!Next

\* A cancellation calls the event off if there is anybody to tell: with nobody
\* in a seat nobody waits either.
LEMMA CallOffInLedger ==
  ASSUME TypeOK, SeatsInOrder, NoIdleSeat, IsCalledOff
  PROVE  Ledger!Next \/ UNCHANGED Ledger!ledger
  <1>1. /\ event'.capacity = event.capacity /\ reg' = reg
        /\ Seated' = Seated
        /\ [r \in Waiting |-> reg[r].position]' = [r \in Waiting |-> reg[r].position]
        /\ WithStatus(reg, "CANCELLED")' = WithStatus(reg, "CANCELLED")
    BY DEF IsCalledOff, TypeOK, DataTypeOK, EventRow, Seated, HoldingSeat, Waiting, WithStatus
  <1>2. CASE HoldersToldOff
    <2>1. HoldersToldOff'
      BY <1>2 DEF HoldersToldOff, IsCalledOff
    <2>2. HoldersToldOff' = HoldersToldOff
      BY <1>2, <2>1
    <2> QED BY <1>1, <2>2 DEF Ledger!ledger
  <1>3. CASE ~HoldersToldOff /\ OpenRows = {}
    <2>1. notices' = notices
      BY <1>3 DEF IsCalledOff, Holders
    <2>2. HoldersToldOff' = HoldersToldOff
      BY <2>1 DEF HoldersToldOff
    <2> QED BY <1>1, <2>2 DEF Ledger!ledger
  <1>4. CASE ~HoldersToldOff /\ OpenRows # {}
    <2>1. HoldersToldOff'
      <3>1. PICK r \in OpenRows : TRUE
        BY <1>4
      <3>2. reg[r].user \in Users /\ reg[r].user \in Holders
        BY DEF OpenRows, Holders, TypeOK, DataTypeOK
      <3> QED BY <3>2 DEF HoldersToldOff, IsCalledOff
    <2>2. Seated # {}
      <3>1. OpenRows = Seated \union Waiting
        BY DEF OpenRows, IsOpen, Seated, HoldingSeat, SeatStatuses, Waiting, WithStatus,
               TypeOK, DataTypeOK, RegRow, RegStatuses
      <3> QED BY <1>4, <3>1, LedgerNumbers, SeatNumbers
    <2>3. Ledger!CallOff
      BY <1>1, <2>1, <2>2 DEF Ledger!CallOff
    <2> QED BY <2>3 DEF Ledger!Next
  <1> QED BY <1>2, <1>3, <1>4

\* Every operation is a step of the ledger, or leaves it alone.
LEMMA OperationInLedger ==
  ASSUME TypeOK, SeatsInOrder, NoIdleSeat, QueueIsStrict, CancellationReachesHolders,
         [SerialStep]_committed
  PROVE  [Ledger!Next]_(Ledger!ledger)
  <1>1. CASE UNCHANGED committed
    BY <1>1 DEF committed, Ledger!ledger, Seated, HoldingSeat, Waiting, WithStatus, HoldersToldOff
  <1>2. CASE SerialStep
    BY <1>2, StutterInLedger, NewcomerInLedger, GiveUpInLedger, AmendInLedger, LeaveInLedger,
       CallOffInLedger DEF SerialStep
  <1> QED BY <1>1, <1>2

\* The event as created is an empty ledger.
LEMMA InitInLedger ==
  ASSUME Init
  PROVE  Ledger!Init
  <1>1. event.capacity \in Nat \ {0}
    BY ValidDrafts DEF Init, DraftBodies
  <1>2. \A r \in Regs : reg[r].status = "NONE"
    BY DEF Init, NoRow
  <1>3. Seated = {} /\ Waiting = {} /\ WithStatus(reg, "CANCELLED") = {}
    BY <1>2 DEF Seated, HoldingSeat, SeatStatuses, Waiting, WithStatus
  <1>4. [r \in Waiting |-> reg[r].position] = [r \in {} |-> 0]
    BY <1>3
  <1>5. HoldersToldOff = FALSE
    BY DEF Init, HoldersToldOff
  <1> QED BY <1>1, <1>3, <1>4, <1>5 DEF Ledger!Init

\* Registration under concurrent requests implements the seat ledger: seats,
\* queue and withdrawals move as its atomic steps do, for any number of people,
\* rows and requests.
THEOREM LedgerIsImplemented == Spec => ImplementsLedger
  <1>1. Init => Ledger!Init
    BY InitInLedger
  <1>2. /\ TypeOK /\ SeatsInOrder /\ NoIdleSeat /\ QueueIsStrict /\ CancellationReachesHolders
        /\ [SerialStep]_committed
        => [Ledger!Next]_(Ledger!ledger)
    BY OperationInLedger
  <1> QED BY <1>1, <1>2, TypeCorrect, SeatsAlwaysInOrder, NoSeatStandsIdle, QueueAlwaysStrict,
             CancellationAlwaysReachesHolders, Serializable, PTL
          DEF Spec, ImplementsLedger, Ledger!Spec
=============================================================================
