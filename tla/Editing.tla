------------------------------ MODULE Editing ------------------------------
(***************************************************************************)
(* The two screens officers edit on, and the saves they make: the event    *)
(* form (apps/web components/event/EventForm.tsx, EventFields.tsx,         *)
(* lib/event-schedule.ts), the club profile (components/ClubProfile.tsx,   *)
(* InlineEdit.tsx, SaveBar.tsx), and the PATCH handlers behind them        *)
(* (apps/api events/events.service.ts, clubs/clubs.service.ts), with the   *)
(* notice of a moved event that the registered are sent.                   *)
(*                                                                         *)
(* A screen holds the columns as they were when it last loaded (base) and  *)
(* as its officer has left them (values).  It is never told of another     *)
(* officer's save: it loads when opened, after a save, after an image and  *)
(* after an assignment.  A call is one such round trip, from the press of  *)
(* a button to the arrival of the row it loads.                            *)
(*                                                                         *)
(* Columns that differ only in their name are one: venue stands for the    *)
(* logistics, certificateTitle for title, signatory and the other texts,   *)
(* description for the club's.  Capacity and the reopening of registration *)
(* are in Registrations.                                                   *)
(***************************************************************************)
EXTENDS EventStatus, Permissions

CONSTANTS
    Officers,
    Students,
    Holders,    \* those who have registered to begin with
    Rosters,    \* the sets of club roles an officer may come to hold
    Texts,      \* what may be typed into a text column
    Spans,      \* the pairs of instants a date picker may give a window
    Rows,       \* what may be stored to begin with
    Slots,      \* BOUND: the calls a screen may have under way at once
    MaxTyped,   \* BOUND: edits typed
    MaxSent,    \* BOUND: calls sent
    MaxAround   \* BOUND: steps of those who are on neither screen

Unset == 0      \* an empty control, and NULL in a column that may be empty

ASSUME EditingAssumption ==
    /\ Rosters \subseteq SUBSET ClubRoles
    /\ Spans \subseteq (Nat \ {Unset}) \X (Nat \ {Unset})
    /\ \E span \in Spans : span[1] < span[2]
    /\ Holders \subseteq Students
    /\ Unset \notin Texts /\ Texts # {}
    /\ MaxTyped \in Nat /\ MaxSent \in Nat /\ MaxAround \in Nat

Screens == {"event", "club"}
Images  == {"posterUploaded", "logoUploaded"}

WindowEnds == {<<"startsAt", "endsAt">>, <<"registrationOpensAt", "registrationClosesAt">>}
Instants   == {"startsAt", "endsAt", "registrationOpensAt", "registrationClosesAt"}
ColumnsOf(screen) ==
    IF screen = "event"
    THEN Instants \union {"venue", "certificateEnabled", "certificateTitle"}
    ELSE {"description"}
Columns  == ColumnsOf("event") \union ColumnsOf("club")

\* What a column may hold, and what its control may.
Holds(c) ==
    CASE c \in Instants                        -> UNION {{span[1], span[2]} : span \in Spans}
      [] c = "certificateEnabled"              -> BOOLEAN
      [] c \in {"venue", "certificateTitle"}   -> Texts \union {Unset}
      [] OTHER                                 -> Texts
Shows(c) == IF c \in Instants THEN Holds(c) \union {Unset} ELSE Holds(c)

\* certificateFieldsComplete, for the form's required marks and for the merged row.
CertificateComplete(v) == v["certificateEnabled"] => v["certificateTitle"] # Unset

Over(columns, v) == v = [c \in columns |-> v[c]]
RowHolds(row)    == WindowsValid([c \in Instants |-> row[c]]) /\ CertificateComplete(row)

ASSUME RowsAssumption == \A row \in Rows :
    Over(Columns, row) /\ RowHolds(row) /\ \A c \in Columns : row[c] \in Holds(c)

VARIABLES
    stored,     \* the columns of the event and of its club
    updatedAt,  \* event.updated_at, as the number of its saves
    closed,     \* which of the two accepts no edits
    roles,      \* the ACTIVE club roles of each officer
    form,       \* the screen each officer has open
    calls,      \* the round trips each screen has under way
    intended,   \* history: each column as it was last typed and saved
    registered, \* students with a registration that is not CANCELLED
    told,       \* history: the plan each registered under, or was last sent since
    notices,    \* the (user, dedupe key) pairs of event.changed rows
    spent       \* edits typed and calls sent so far

vars == <<stored, updatedAt, closed, roles, form, calls, intended,
          registered, told, notices, spent>>

Facts(o) == [platformRole |-> "STUDENT", clubRoles |-> roles[o], eventResponsibilities |-> {}]

Plan(row) == [c \in {"venue", "startsAt", "endsAt"} |-> row[c]]

Bound == [typed |-> MaxTyped, sent |-> MaxSent, around |-> MaxAround]
Spend(what) ==
    /\ spent[what] < Bound[what]
    /\ spent' = [spent EXCEPT ![what] = @ + 1]

-----------------------------------------------------------------------------
(***************************************************************************)
(* The screens.                                                            *)
(***************************************************************************)
NoForm == [screen |-> "none", values |-> <<>>, base |-> <<>>, viewerClubRoles |-> {},
           live |-> FALSE, busy |-> FALSE, typed |-> {}]
NoCall == [step |-> "idle"]

\* A row as a detail read serves it, with the reader's own roles.
Served(o, screen) ==
    [values |-> [c \in ColumnsOf(screen) |-> stored[c]], viewerClubRoles |-> roles[o],
     live |-> screen \notin closed]

\* fromEvent and draftOf: what was typed and not saved is gone.
Loaded(f, row) == [f EXCEPT !.values = row.values, !.base = row.values, !.live = row.live,
                            !.viewerClubRoles = row.viewerClubRoles, !.typed = {}]

Mirror(screen) == IF screen = "event" THEN EVENT_FIELD_ROLES ELSE CLUB_FIELD_ROLES

UnderWay(o) == {calls[o][slot] : slot \in Slots} \ {NoCall}

\* Which controls are not disabled.  Only the profile freezes on its status.
can(f, field) ==
    /\ f.screen = "club" => f.live
    /\ canEditField(field, Mirror(f.screen), f.viewerClubRoles, "STUDENT")

Dirty(f) == {c \in ColumnsOf(f.screen) : f.values[c] # f.base[c]}

\* Mutant: everything on the screen is sent.
ToPatchWhole(f) ==
    [c \in {c \in ColumnsOf(f.screen) : can(f, c) /\ ~(c \in Instants /\ f.values[c] = Unset)}
        |-> f.values[c]]

\* toPatchBody: what differs from what was loaded.  An empty instant is left out.
\* The profile's body is all that differs, which its controls only let differ
\* where they can.
ToPatch(f) ==
    [c \in {c \in Dirty(f) : can(f, c) /\ ~(c \in Instants /\ f.values[c] = Unset)}
        |-> f.values[c]]

\* validateSchedule: a window with an end missing is not wrong yet.
ScheduleBroken(v) ==
    LET Both(a, b) == v[a] # Unset /\ v[b] # Unset
    IN  \/ \E w \in WindowEnds : Both(w[1], w[2]) /\ v[w[1]] >= v[w[2]]
        \/ Both("registrationClosesAt", "endsAt") /\ v["registrationClosesAt"] > v["endsAt"]

\* requireEventAction and requireClubSection, and the page they let through.
Open(o, screen) ==
    /\ form[o].screen = "none"
    /\ IF screen = "event"
       THEN "event" \notin closed /\ "edit" \in eventActionsFor(roles[o], {}, "STUDENT")
       ELSE "edit" \in clubSectionsFor(roles[o], "STUDENT")
    /\ form' = [form EXCEPT ![o] = Loaded([NoForm EXCEPT !.screen = screen], Served(o, screen))]
    /\ UNCHANGED <<stored, updatedAt, closed, roles, calls, intended, registered, told, notices, spent>>

Leave(o) ==
    /\ form[o].screen # "none"
    /\ UnderWay(o) = {}
    /\ form' = [form EXCEPT ![o] = NoForm]
    /\ UNCHANGED <<stored, updatedAt, closed, roles, calls, intended, registered, told, notices, spent>>

Put(o, new) ==
    /\ form' = [form EXCEPT ![o].values = [c \in DOMAIN form[o].values |->
                                             IF c \in DOMAIN new THEN new[c] ELSE form[o].values[c]],
                            ![o].typed  = @ \union DOMAIN new]
    /\ UNCHANGED <<stored, updatedAt, closed, roles, calls, intended, registered, told, notices>>

\* A text, a switch or a select; InlineEdit commits only what differs.
Type(o) ==
    /\ form[o].screen # "none"
    /\ \E c \in ColumnsOf(form[o].screen) \ Instants : \E v \in Shows(c) \ {form[o].values[c]} :
          can(form[o], c) /\ Put(o, [x \in {c} |-> v])
    /\ Spend("typed")

\* A date range gives both ends of its window, or clears both.
Pick(o) ==
    /\ form[o].screen = "event"
    /\ \E w \in WindowEnds : \E span \in Spans \union {<<Unset, Unset>>} :
          /\ can(form[o], w[1])
          /\ span # <<form[o].values[w[1]], form[o].values[w[2]]>>
          /\ Put(o, [x \in {w[1], w[2]} |-> IF x = w[1] THEN span[1] ELSE span[2]])
    /\ Spend("typed")

\* The profile's Discard; the event form has none.
Discard(o) ==
    /\ form[o].screen = "club" /\ ~form[o].busy /\ Dirty(form[o]) # {}
    /\ form' = [form EXCEPT ![o].values = form[o].base, ![o].typed = {}]
    /\ UNCHANGED <<stored, updatedAt, closed, roles, calls, intended, registered, told, notices, spent>>

-----------------------------------------------------------------------------
(***************************************************************************)
(* Calls.  The controls of an image and of an assignment do not wait for a *)
(* save under way, nor for one another, and whichever call ends first      *)
(* frees the buttons: two saves may then be under way as well.             *)
(***************************************************************************)
\* A body on its way, with those of its columns that were typed; and a call whose
\* work is done, whatever it was.
Carrying(o, kind, patch) ==
    [step |-> "sent", kind |-> kind, patch |-> patch, typed |-> form[o].typed \intersect DOMAIN patch]
Written(kind) == [step |-> "written", kind |-> kind]

FreeSlots(o) == {slot \in Slots : calls[o][slot] = NoCall}

Sends(o, call) ==
    /\ FreeSlots(o) # {}
    /\ LET slot == CHOOSE s \in FreeSlots(o) : TRUE
       IN  calls' = [calls EXCEPT ![o][slot] = call]
    /\ Spend("sent")
    /\ UNCHANGED <<stored, updatedAt, closed, roles, intended, registered, told, notices>>

Submit(o) ==
    /\ form[o].screen # "none" /\ ~form[o].busy
    /\ IF form[o].screen = "event"
       THEN ~ScheduleBroken(form[o].values) /\ CertificateComplete(form[o].values)
       ELSE Dirty(form[o]) # {}
    /\ form' = [form EXCEPT ![o].busy = TRUE]
    /\ Sends(o, Carrying(o, "save", ToPatch(form[o])))

ImageField(screen) == IF screen = "event" THEN "posterUploaded" ELSE "logoUploaded"

\* An upload's bytes are written before it is saved, and it is saved on arrival.
Upload(o) ==
    /\ form[o].screen # "none"
    /\ can(form[o], ImageField(form[o].screen))
    /\ form' = [form EXCEPT ![o].busy = @ \/ form[o].screen = "event"]
    /\ Sends(o, Carrying(o, "image", [x \in {ImageField(form[o].screen)} |-> TRUE]))

\* AssignPanel and the roster, once an assignment is made or removed: the whole
\* screen loads again.  Only a removal holds the form's buttons meanwhile, and
\* only the panel waits, for its own last assignment.
Assigned(o) == \E kind \in {"assign", "remove"} :
    /\ form[o].screen = "event" /\ form[o].viewerClubRoles \intersect ClubColumn("event:assign") # {}
    /\ kind = "assign" => \A call \in UnderWay(o) : call.kind # "assign"
    /\ form' = [form EXCEPT ![o].busy = @ \/ kind = "remove"]
    /\ Sends(o, Written(kind))

Finishes(o, slot) == calls' = [calls EXCEPT ![o][slot] = Written(@.kind)]

\* act's finally; the profile's image has no busy of its own.
Settled(f, call) == IF call.kind \in {"save", "remove"} \/ (call.kind = "image" /\ f.screen = "event")
                    THEN [f EXCEPT !.busy = FALSE] ELSE f

-----------------------------------------------------------------------------
(***************************************************************************)
(* The API.                                                                *)
(***************************************************************************)
At(o, slot, screen, step) ==
    calls[o][slot].step = step /\ form[o].screen = screen

\* data, built key by key: an image is no column.
Data(patch) == [c \in DOMAIN patch \intersect Columns |-> patch[c]]

Merged(data) == [c \in Columns \union DOMAIN data |-> IF c \in DOMAIN data THEN data[c] ELSE stored[c]]

\* What was typed before the call was sent is what its officer meant.
Intends(call) ==
    intended' = [c \in Columns |-> IF c \in call.typed \intersect DOMAIN call.patch
                                   THEN call.patch[c] ELSE intended[c]]

\* Mutant: only windows wholly in the body are checked.
WindowsCheckedAlone(row, patch) ==
    /\ {"startsAt", "endsAt"} \subseteq DOMAIN patch => row["startsAt"] < row["endsAt"]
    /\ {"registrationOpensAt", "registrationClosesAt"} \subseteq DOMAIN patch =>
          row["registrationOpensAt"] < row["registrationClosesAt"]
    /\ {"registrationClosesAt", "endsAt"} \subseteq DOMAIN patch =>
          row["registrationClosesAt"] <= row["endsAt"]

\* assertWindows, on the merged row.
WindowsChecked(row, patch) == WindowsValid([c \in Instants |-> row[c]])

Savable(o, call) ==
    /\ closed = {}
    /\ Evaluate("event:edit", Facts(o))
    /\ FieldsAllowed(DOMAIN call.patch, EVENT_FIELDS, Facts(o))
    /\ WindowsChecked(Merged(Data(call.patch)), call.patch)
    /\ CertificateComplete(Merged(Data(call.patch)))

\* Mutant: the subject is the event's alone.
ChangeSubjectOnce(stamp) == 0

\* The dedupe subject of event.changed carries the row's own timestamp.
ChangeSubject(stamp) == stamp

\* notifyRegistered: one row for each who holds a place, if anything moved.
Hearing(row) ==
    IF Plan(row) = Plan(stored) THEN {}
    ELSE {s \in registered : <<s, ChangeSubject(updatedAt')>> \notin notices}

\* EventsService.update: it reads and writes the event under its row's lock, with
\* the roles the guard read just before; a refusal answers from the same reads.
SaveEvent(o, slot) ==
    /\ At(o, slot, "event", "sent")
    /\ Savable(o, calls[o][slot])
    /\ LET row == Merged(Data(calls[o][slot].patch))
       IN  /\ stored' = row
           /\ updatedAt' = updatedAt + 1
           /\ notices' = notices \union {<<s, ChangeSubject(updatedAt')>> : s \in Hearing(row)}
           /\ told' = [s \in Students |-> IF s \in Hearing(row) THEN Plan(row) ELSE told[s]]
    /\ Intends(calls[o][slot])
    /\ Finishes(o, slot)
    /\ UNCHANGED <<closed, roles, form, registered, spent>>

\* ClubsService.update locks nothing: it reads the status and the roles ...
ExamineClub(o, slot) ==
    /\ At(o, slot, "club", "sent")
    /\ "club" \notin closed
    /\ Evaluate("club:edit", Facts(o))
    /\ FieldsAllowed(DOMAIN calls[o][slot].patch, CLUB_FIELDS, Facts(o))
    /\ calls' = [calls EXCEPT ![o][slot].step = "examined"]
    /\ UNCHANGED <<stored, updatedAt, closed, roles, form, intended, registered, told, notices, spent>>

\* ... and writes the keys of the body by id.
SaveClub(o, slot) ==
    /\ At(o, slot, "club", "examined")
    /\ stored' = Merged(Data(calls[o][slot].patch))
    /\ Intends(calls[o][slot])
    /\ Finishes(o, slot)
    /\ UNCHANGED <<updatedAt, closed, roles, form, registered, told, notices, spent>>

\* The problem a refusal answers with: the screen keeps what was typed.
Refuse(o, slot) ==
    /\ \/ At(o, slot, "event", "sent") /\ ~Savable(o, calls[o][slot])
       \/ At(o, slot, "club", "sent")
    /\ form' = [form EXCEPT ![o] = Settled(@, calls[o][slot])]
    /\ calls' = [calls EXCEPT ![o][slot] = NoCall]
    /\ UNCHANGED <<stored, updatedAt, closed, roles, intended, registered, told, notices, spent>>

\* The form asks for the event again; the profile's PATCH answers with a read
\* made after its commit.
ReadBack(o, slot) ==
    /\ calls[o][slot].step = "written"
    /\ calls' = [calls EXCEPT ![o][slot] =
          [step |-> "served", kind |-> @.kind, row |-> Served(o, form[o].screen)]]
    /\ UNCHANGED <<stored, updatedAt, closed, roles, form, intended, registered, told, notices, spent>>

\* The row arrives, whatever has been typed or loaded meanwhile.
Land(o, slot) ==
    /\ calls[o][slot].step = "served"
    /\ form' = [form EXCEPT ![o] = Settled(Loaded(@, calls[o][slot].row), calls[o][slot])]
    /\ calls' = [calls EXCEPT ![o][slot] = NoCall]
    /\ UNCHANGED <<stored, updatedAt, closed, roles, intended, registered, told, notices, spent>>

\* A request or an answer is lost: before the save, or after it.
Lost(o, slot) ==
    /\ calls[o][slot] # NoCall
    /\ form' = [form EXCEPT ![o] = Settled(@, calls[o][slot])]
    /\ calls' = [calls EXCEPT ![o][slot] = NoCall]
    /\ UNCHANGED <<stored, updatedAt, closed, roles, intended, registered, told, notices, spent>>

-----------------------------------------------------------------------------
(***************************************************************************)
(* What goes on around the screens.                                        *)
(***************************************************************************)

\* Appointments begin and end (Offices).
Reappoint(o, held) ==
    /\ Spend("around")
    /\ held # roles[o]
    /\ roles' = [roles EXCEPT ![o] = held]
    /\ UNCHANGED <<stored, updatedAt, closed, form, calls, intended, registered, told, notices>>

\* The event ends or is called off, and the club is archived, perhaps for a while.
Close(screen) ==
    /\ Spend("around")
    /\ screen \notin closed
    /\ closed' = closed \union {screen}
    /\ UNCHANGED <<stored, updatedAt, roles, form, calls, intended, registered, told, notices>>

Unarchive ==
    /\ Spend("around")
    /\ "club" \in closed
    /\ closed' = closed \ {"club"}
    /\ UNCHANGED <<stored, updatedAt, roles, form, calls, intended, registered, told, notices>>

\* Registrations come and go under the event row's lock too (Registrations).
\* Its notice names the event and the seat, and neither a date nor a venue:
\* what is noted here is the plan a registration was made under, whatever the
\* page of its student showed.
Register(s) ==
    /\ Spend("around")
    /\ s \notin registered /\ closed = {}
    /\ registered' = registered \union {s}
    /\ told' = [told EXCEPT ![s] = Plan(stored)]
    /\ UNCHANGED <<stored, updatedAt, closed, roles, form, calls, intended, notices>>

Withdraw(s) ==
    /\ Spend("around")
    /\ s \in registered /\ "event" \notin closed
    /\ registered' = registered \ {s}
    /\ UNCHANGED <<stored, updatedAt, closed, roles, form, calls, intended, told, notices>>

\* What the create form and the club's own may have stored.
Init ==
    /\ stored \in Rows
    /\ updatedAt = 0
    /\ closed \in SUBSET {"club"}
    /\ roles \in [Officers -> Rosters]
    /\ form = [o \in Officers |-> NoForm]
    /\ calls = [o \in Officers |-> [slot \in Slots |-> NoCall]]
    /\ intended = stored
    /\ registered = Holders
    /\ told = [s \in Students |-> Plan(stored)]
    /\ notices = {}
    /\ spent = [typed |-> 0, sent |-> 0, around |-> 0]

ScreenStep(o) ==
    \/ \E screen \in Screens : Open(o, screen)
    \/ Leave(o) \/ Type(o) \/ Pick(o) \/ Discard(o)
    \/ Submit(o) \/ Upload(o) \/ Assigned(o)

CallStep(o, slot) ==
    \/ SaveEvent(o, slot) \/ ExamineClub(o, slot) \/ SaveClub(o, slot)
    \/ Refuse(o, slot) \/ ReadBack(o, slot) \/ Land(o, slot) \/ Lost(o, slot)

Surroundings ==
    \/ \E o \in Officers, held \in Rosters : Reappoint(o, held)
    \/ \E screen \in Screens : Close(screen)
    \/ Unarchive
    \/ \E s \in Students : Register(s) \/ Withdraw(s)

Next ==
    \/ \E o \in Officers : ScreenStep(o) \/ \E slot \in Slots : CallStep(o, slot)
    \/ Surroundings

Spec == Init /\ [][Next]_vars

-----------------------------------------------------------------------------
(***************************************************************************)
(* Properties.                                                             *)
(***************************************************************************)
RowType(screen, v)   == Over(ColumnsOf(screen), v) /\ \A c \in ColumnsOf(screen) : v[c] \in Holds(c)
DraftType(screen, v) == Over(ColumnsOf(screen), v) /\ \A c \in ColumnsOf(screen) : v[c] \in Shows(c)

FormType(f) ==
    \/ f = NoForm
    \/ /\ Over(DOMAIN NoForm, f)
       /\ f.screen \in Screens /\ RowType(f.screen, f.base) /\ DraftType(f.screen, f.values)
       /\ f.viewerClubRoles \in Rosters /\ {f.live, f.busy} \subseteq BOOLEAN
       /\ f.typed \subseteq ColumnsOf(f.screen)

PatchType(screen, patch) ==
    /\ DOMAIN patch \subseteq ColumnsOf(screen) \union Images
    /\ \A c \in DOMAIN patch \intersect Columns : patch[c] \in Holds(c)

CallType(screen, call) ==
    \/ call = NoCall
    \/ /\ call.step \in {"sent", "examined"} /\ screen \in Screens
       /\ DOMAIN call = {"step", "kind", "patch", "typed"}
       /\ call.typed \subseteq Columns /\ PatchType(screen, call.patch)
    \/ /\ call.step = "written" /\ screen \in Screens
       /\ DOMAIN call = {"step", "kind"}
    \/ /\ call.step = "served" /\ screen \in Screens
       /\ DOMAIN call = {"step", "kind", "row"}
       /\ DOMAIN call.row = {"values", "viewerClubRoles", "live"}
       /\ RowType(screen, call.row.values) /\ call.row.viewerClubRoles \in Rosters
       /\ call.row.live \in BOOLEAN

EditingTypeOK ==
    /\ \A v \in {stored, intended} :
          Over(Columns, v) /\ \A c \in Columns : v[c] \in Holds(c)
    /\ updatedAt \in Nat /\ closed \subseteq Screens
    /\ roles \in [Officers -> Rosters]
    /\ Over(Officers, form) /\ \A o \in Officers : FormType(form[o])
    /\ DOMAIN calls = Officers
    /\ \A o \in Officers : DOMAIN calls[o] = Slots
    /\ \A o \in Officers, slot \in Slots : CallType(form[o].screen, calls[o][slot])
    /\ registered \subseteq Students /\ DOMAIN told = Students
    /\ notices \subseteq Students \X Nat
    /\ spent \in [{"typed", "sent", "around"} -> Nat]

\* No save puts back what its officer did not touch.  Two officers edit the
\* same event or club on screens loaded at different times, and save in
\* whatever order: each column stays as it was last typed and then saved,
\* although every screen still shows the others' columns as they once were.
NobodysEditIsUndone == stored = intended

\* Two saves that are each right for the row they were made from never add up
\* to an event that ends before it starts, or closes registration after its
\* end, or has a certificate nobody signs: the merged row is what is checked.
StoredRowHolds == RowHolds(stored)

\* No move made while someone holds a place goes untold: the plan they registered
\* under, or the last they were sent, is the plan, after any number of moves, after
\* a move back, and over a withdrawal and a second registration in between.
NobodyMissesAMove == \A s \in registered : told[s] = Plan(stored)
=============================================================================
