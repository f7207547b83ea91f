------------------------------ MODULE Scanner ------------------------------
(***************************************************************************)
(* The QR pass and the check-in desk: the pass and its rotation            *)
(* (attendance/qr-pass.service.ts, qr-token.ts), the screen an operator    *)
(* holds (components/scanner/ScanSession.tsx, ScanCamera.tsx,              *)
(* ScanVerdict.tsx) and the check-in it asks for (attendance.service.ts).  *)
(*                                                                         *)
(* An image is a signed token as somebody can print it: a person and the   *)
(* version the signature commits to.  A request is on its way, at the      *)
(* server between two statements, or answered and on its way back.  The    *)
(* event's walk, withdrawals and corrections are in Attendance; here an    *)
(* event is open until it is over and a registration stays as it is.       *)
(***************************************************************************)
EXTENDS Integers, FiniteSets

CONSTANTS
    People,      \* students who may hold a pass
    Events,
    Devices,     \* screens that scan
    Fixed,       \* those of them opened from one event's own page
    Requests,    \* requests in flight at once
    MaxSent,     \* BOUND: check-ins sent
    Bookings,    \* BOUND: what a registration may be
    LastVersion, \* BOUND: what the token's version field holds, 65535 in the code
    None

ASSUME ScannerAssumption ==
    /\ IsFiniteSet(People)
    /\ Fixed \subseteq Devices
    /\ LastVersion \in Nat \ {0}
    /\ MaxSent \in Nat
    /\ Bookings \subseteq {"CONFIRMED", "WAITLISTED", "CANCELLED", "none"}
    /\ None \notin People \cup Events \cup Devices

VARIABLES
    version,    \* qr_pass.token_version of each person, 0 before there is a row
    issued,     \* the images that are about
    retired,    \* the images a rotation was to stop from working
    booked,     \* each person's registration for each event
    open,       \* the events that are ONGOING
    suspended,  \* the people whose account is suspended
    records,    \* attendance records
    requests,   \* check-ins and first looks at a pass in flight
    sent,       \* how many check-ins were sent
    screens     \* what each device shows and remembers

vars == <<version, issued, retired, booked, open, suspended, records, requests, screens, sent>>

passVars == <<version, issued, retired>>
factVars == <<booked, open, suspended>>

Image    == [of : People, version : 1 .. LastVersion]

Results == {"CHECKED_IN", "ALREADY_CHECKED_IN", "NOT_REGISTERED",
            "REGISTRATION_CANCELLED", "EVENT_NOT_OPEN", "INVALID_PASS"}
Naming  == {"CHECKED_IN", "ALREADY_CHECKED_IN"}

\* A verdict names a person at an event, or refuses and names nobody.
Verdict == [of : People, at : Events] \cup {[of |-> None, at |-> None]}

RequestRow == [op : {"create", "scan", "manual"},
               step : {"sent", "gate", "look", "insert", "answered"},
               by : Devices \cup {None}, at : Events \cup {None},
               of : People \cup {None}, image : Image \cup {None},
               dead : BOOLEAN, result : Results \cup {"none"}]

ScreenRow == [event : Events \cup {None}, pending : BOOLEAN, looking : BOOLEAN,
              verdict : Verdict \cup {None}, raw : Image \cup {None},
              ignoring : BOOLEAN]

RecordRow == [told : Nat, revived : BOOLEAN]
NoRecord  == [told |-> 0, revived |-> FALSE]

Seats(p, e)    == booked[p][e]
Recorded(p, e) == records[p][e] # NoRecord
-----------------------------------------------------------------------------
(***************************************************************************)
(* The pass                                                                *)
(***************************************************************************)

\* The row holds version v: the answer draws an image of it.
Presents(p, v) ==
    /\ version' = [version EXCEPT ![p] = v]
    /\ issued' = issued \cup {[of |-> p, version |-> v]}

\* GET /me/qr-pass for somebody who has one.
Mine(p) ==
    /\ version[p] > 0
    /\ Presents(p, version[p])
    /\ UNCHANGED <<retired, factVars, records, requests, screens, sent>>

\* The first look finds no row, and goes on to create one.
FirstLook(r, p) ==
    /\ requests[r] = None
    /\ version[p] = 0
    /\ requests' = [requests EXCEPT ![r] =
           [op |-> "create", step |-> "sent", by |-> None, at |-> None, of |-> p,
            image |-> None, dead |-> FALSE, result |-> "none"]]
    /\ UNCHANGED <<passVars, factVars, records, screens, sent>>

\* What is there once the insert has won, or lost to another look or a rotation.
Created(p) == IF version[p] = 0 THEN 1 ELSE version[p]

Create(r) ==
    /\ requests[r] # None
    /\ requests[r].op = "create"
    /\ Presents(requests[r].of, Created(requests[r].of))
    /\ requests' = [requests EXCEPT ![r] = None]
    /\ UNCHANGED <<retired, factVars, records, screens, sent>>

\* Mutant: the version wraps round instead of refusing to be encoded.
WrapsRound(p) == (version[p] % LastVersion) + 1

Increment(p) == version[p] + 1

\* Mutant: nothing looks whether the version fits.
FitsAlways(v) == TRUE

\* A version that does not fit the token's two bytes throws.
Fits(v) == v <= LastVersion

\* POST /me/qr-pass/rotate.  The throw takes the increment back with it.
Rotate(p) ==
    /\ Fits(Increment(p))
    /\ Presents(p, Increment(p))
    /\ retired' = retired \cup {i \in issued : i.of = p}
    /\ UNCHANGED <<factVars, records, requests, screens, sent>>
-----------------------------------------------------------------------------
(***************************************************************************)
(* The screen                                                              *)
(***************************************************************************)
Screen(d) == screens[d]

Shows(d, screen) == screens' = [screens EXCEPT ![d] = screen]

Blank(event) == [event |-> event, pending |-> FALSE, looking |-> FALSE, verdict |-> None,
                 raw |-> None, ignoring |-> FALSE]

Pick(d, e) ==
    /\ Screen(d).event = None
    /\ Shows(d, [Screen(d) EXCEPT !.event = e])
    /\ UNCHANGED <<passVars, factVars, records, requests, sent>>

\* The camera goes with its event; what was sent, and what is remembered of the
\* last code, stays.
ChangeEvent(d) ==
    /\ d \notin Fixed
    /\ Screen(d).event # None
    /\ Shows(d, [Screen(d) EXCEPT !.event = None, !.verdict = None, !.looking = FALSE])
    /\ UNCHANGED <<passVars, factVars, records, requests, sent>>

\* The page is closed or loaded again: nobody waits for its answers any more.
Reload(d) ==
    /\ Shows(d, Blank(IF d \in Fixed THEN Screen(d).event ELSE None))
    /\ requests' = [r \in Requests |->
           IF requests[r] # None /\ requests[r].by = d
           THEN [requests[r] EXCEPT !.by = None] ELSE requests[r]]
    /\ UNCHANGED <<passVars, factVars, records, sent>>

\* A tick of the camera that is not paused hands a frame to the decoder.
Look(d) ==
    /\ Screen(d).event # None
    /\ ~Screen(d).pending
    /\ Screen(d).verdict = None
    /\ ~Screen(d).looking
    /\ Shows(d, [Screen(d) EXCEPT !.looking = TRUE])
    /\ UNCHANGED <<passVars, factVars, records, requests, sent>>

\* The frame decodes to nothing.
SeesNothing(d) ==
    /\ Screen(d).looking
    /\ Shows(d, [Screen(d) EXCEPT !.looking = FALSE])
    /\ UNCHANGED <<passVars, factVars, records, requests, sent>>

\* The same code is still in the frame.
Repeats(d, image) == Screen(d).ignoring /\ Screen(d).raw = image

Ignores(d, image) ==
    /\ Screen(d).looking
    /\ Repeats(d, image)
    /\ Shows(d, [Screen(d) EXCEPT !.looking = FALSE])
    /\ UNCHANGED <<passVars, factVars, records, requests, sent>>

Sends(r, row) ==
    /\ requests[r] = None
    /\ sent < MaxSent
    /\ sent' = sent + 1
    /\ requests' = [requests EXCEPT ![r] = row]

\* A code decodes and is sent, even if a check-in by email was sent meanwhile.
Scan(d, r, image) ==
    /\ Screen(d).looking
    /\ ~Repeats(d, image)
    /\ Sends(r, [op |-> "scan", step |-> "sent", by |-> d, at |-> Screen(d).event,
                 of |-> image.of, image |-> image, dead |-> image \in retired,
                 result |-> "none"])
    /\ Shows(d, [Screen(d) EXCEPT !.looking = FALSE, !.pending = TRUE, !.raw = image,
                                  !.ignoring = TRUE])
    /\ UNCHANGED <<passVars, factVars, records>>

\* REPEAT_MS have passed since the code was sent.
RepeatOver(d) ==
    /\ Screen(d).ignoring
    /\ Shows(d, [Screen(d) EXCEPT !.ignoring = FALSE, !.raw = None])
    /\ UNCHANGED <<passVars, factVars, records, requests, sent>>

\* The camera fallback.
Manual(d, r, p) ==
    /\ Screen(d).event # None
    /\ ~Screen(d).pending
    /\ Sends(r, [op |-> "manual", step |-> "gate", by |-> d, at |-> Screen(d).event,
                 of |-> p, image |-> None, dead |-> FALSE, result |-> "none"])
    /\ Shows(d, [Screen(d) EXCEPT !.pending = TRUE])
    /\ UNCHANGED <<passVars, factVars, records>>

\* A tap, or the end of the verdict's hold.
ClearVerdict(d) ==
    /\ Screen(d).verdict # None
    /\ Shows(d, [Screen(d) EXCEPT !.verdict = None])
    /\ UNCHANGED <<passVars, factVars, records, requests, sent>>
-----------------------------------------------------------------------------
(***************************************************************************)
(* The server                                                              *)
(***************************************************************************)
At(r, step) == requests[r] # None /\ requests[r].op # "create" /\ requests[r].step = step

Moves(r, step) ==
    /\ requests' = [requests EXCEPT ![r].step = step]
    /\ UNCHANGED <<passVars, factVars, records, screens, sent>>

Answers(r, result) == requests' = [requests EXCEPT ![r].step = "answered", ![r].result = result]

Refuses(r, result) ==
    /\ Answers(r, result)
    /\ UNCHANGED <<passVars, factVars, records, screens, sent>>

\* The version the row holds now.  A code we did not sign is refused as a
\* retired one is, and is left out.
Verifies(image) == image.version = version[image.of]

PassValid(r)   == At(r, "sent") /\ Verifies(requests[r].image) /\ Moves(r, "gate")
PassInvalid(r) == At(r, "sent") /\ ~Verifies(requests[r].image) /\ Refuses(r, "INVALID_PASS")

\* The event is advanced and read before the transaction opens.
Gate(r)       == At(r, "gate") /\ requests[r].at \in open /\ Moves(r, "look")
GateClosed(r) == At(r, "gate") /\ requests[r].at \notin open /\ Refuses(r, "EVENT_NOT_OPEN")

\* The refusal that does not tell whether there is such an account.
Missing(r) == IF requests[r].op = "manual" THEN "NOT_REGISTERED" ELSE "INVALID_PASS"

\* What the transaction's reads say of the person: the answer, or to insert.
Examined(r) ==
    LET p == requests[r].of
        e == requests[r].at
    IN  IF p \in suspended THEN Missing(r)
        ELSE IF Seats(p, e) = "none" THEN "NOT_REGISTERED"
        ELSE IF Seats(p, e) = "CANCELLED" THEN "REGISTRATION_CANCELLED"
        ELSE IF Recorded(p, e) THEN "ALREADY_CHECKED_IN"
        ELSE IF Seats(p, e) = "WAITLISTED" THEN "NOT_REGISTERED"
        ELSE "insert"

Examine(r) ==
    /\ At(r, "look")
    /\ IF Examined(r) = "insert" THEN Moves(r, "insert") ELSE Refuses(r, Examined(r))

\* Mutant: no unique index on registration_id.
AnyInsert(p, e) == TRUE

InsertSucceeds(p, e) == ~Recorded(p, e)

\* The record, the registration's status and the audit row commit together.
Insert(r) ==
    LET p == requests[r].of
        e == requests[r].at
    IN  /\ At(r, "insert")
        /\ InsertSucceeds(p, e)
        /\ records' = [records EXCEPT ![p][e] =
               [told |-> @.told + 1, revived |-> requests[r].dead]]
        /\ Answers(r, "CHECKED_IN")
        /\ UNCHANGED <<passVars, factVars, screens, sent>>

\* Another operator was faster: the index refuses the record, and the answer is theirs.
InsertLoses(r) ==
    /\ At(r, "insert")
    /\ ~InsertSucceeds(requests[r].of, requests[r].at)
    /\ Refuses(r, "ALREADY_CHECKED_IN")

\* The answer arrives at the screen that sent it, whatever that shows by now.
Arrives(r) ==
    LET q == requests[r]
    IN  /\ At(r, "answered")
        /\ requests' = [requests EXCEPT ![r] = None]
        /\ IF q.by = None
           THEN UNCHANGED screens
           ELSE Shows(q.by, [Screen(q.by) EXCEPT
                    !.pending = FALSE,
                    !.verdict = IF q.result \in Naming
                                THEN [of |-> q.of, at |-> q.at] ELSE [of |-> None, at |-> None]])
        /\ UNCHANGED <<passVars, factVars, records, sent>>

\* The request, its server or its answer is lost, or the guard refuses it: the
\* screen says so, and no verdict is given.
Lost(r) ==
    /\ requests[r] # None
    /\ requests' = [requests EXCEPT ![r] = None]
    /\ IF requests[r].by = None
       THEN UNCHANGED screens
       ELSE Shows(requests[r].by, [Screen(requests[r].by) EXCEPT !.pending = FALSE])
    /\ UNCHANGED <<passVars, factVars, records, sent>>
-----------------------------------------------------------------------------
EventEnds(e) ==
    /\ e \in open
    /\ open' = open \ {e}
    /\ UNCHANGED <<passVars, booked, suspended, records, requests, screens, sent>>

Suspend(p) ==
    /\ p \notin suspended
    /\ suspended' = suspended \cup {p}
    /\ UNCHANGED <<passVars, booked, open, records, requests, screens, sent>>

Init ==
    /\ version = [p \in People |-> 0]
    /\ issued = {}
    /\ retired = {}
    /\ booked \in [People -> [Events -> Bookings]]
    /\ open = Events
    /\ suspended = {}
    /\ records = [p \in People |-> [e \in Events |-> NoRecord]]
    /\ requests = [r \in Requests |-> None]
    /\ sent = 0
    /\ \E e \in Events : screens = [d \in Devices |-> Blank(IF d \in Fixed THEN e ELSE None)]

PassStep ==
    \/ \E p \in People : Mine(p) \/ Rotate(p) \/ \E r \in Requests : FirstLook(r, p)
    \/ \E r \in Requests : Create(r)

ScreenStep(d) ==
    \/ ChangeEvent(d) \/ Reload(d) \/ Look(d) \/ SeesNothing(d)
    \/ RepeatOver(d) \/ ClearVerdict(d)
    \/ \E e \in Events : Pick(d, e)
    \/ \E image \in issued : Ignores(d, image) \/ \E r \in Requests : Scan(d, r, image)
    \/ \E r \in Requests, p \in People : Manual(d, r, p)

ServerStep(r) ==
    \/ PassValid(r) \/ PassInvalid(r) \/ Gate(r) \/ GateClosed(r) \/ Examine(r)
    \/ Insert(r) \/ InsertLoses(r) \/ Arrives(r) \/ Lost(r)

Next ==
    \/ PassStep
    \/ \E d \in Devices : ScreenStep(d)
    \/ \E r \in Requests : ServerStep(r)
    \/ \E e \in Events : EventEnds(e)
    \/ \E p \in People : Suspend(p)

Spec == Init /\ [][Next]_vars
-----------------------------------------------------------------------------
\* Every variable has its type.
ScannerTypeOK ==
    /\ version \in [People -> 0 .. LastVersion]
    /\ issued \subseteq Image
    /\ retired \subseteq issued
    /\ booked \in [People -> [Events -> Bookings]]
    /\ open \subseteq Events
    /\ suspended \subseteq People
    /\ records \in [People -> [Events -> RecordRow]]
    /\ requests \in [Requests -> RequestRow \cup {None}]
    /\ sent \in 0 .. MaxSent
    /\ screens \in [Devices -> ScreenRow]

\* Whoever an operator's screen names as let in, now or before, has a record at
\* the event the answer was about, and of all the operators at the desk only
\* one was ever told "checked in" of that person: the rest were told "already",
\* whichever scans crossed (checkIn's catch of the unique index).
ScreensTellTheTruth ==
    /\ \A d \in Devices : LET v == screens[d].verdict IN
           v # None => (v.of # None => Recorded(v.of, v.at))
    /\ \A p \in People, e \in Events : records[p][e].told <= 1

\* "Every previously issued image dies immediately": nobody is let in by a scan
\* sent after the rotation of the pass it shows, and a version once retired
\* does not come round again.
RetiredImagesStayDead ==
    \A p \in People, e \in Events : ~records[p][e].revived

=============================================================================
