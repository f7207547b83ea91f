--------------------------- MODULE EditingProofs ---------------------------
(***************************************************************************)
(* Concurrent edits keep to what their officers typed, the stored event    *)
(* stays one that can be held, and whoever holds a place hears of every    *)
(* move: for any officers, students, rosters, texts and instants.          *)
(***************************************************************************)
EXTENDS Editing, TLAPS

\* A screen differs from what it loaded only where its officer typed, ...
FormSound(f) ==
    FormType(f) /\ (f.screen # "none" => Dirty(f) \subseteq f.typed)

\* ... and so does what it sends.
CallSound(screen, call) ==
    /\ CallType(screen, call)
    /\ call.step \in {"sent", "examined"} => DOMAIN call.patch \intersect Columns \subseteq call.typed

ScreensSound ==
    /\ DOMAIN form = Officers /\ Over(Officers, form)
    /\ \A o \in Officers : FormSound(form[o])
    /\ DOMAIN calls = Officers
    /\ \A o \in Officers : DOMAIN calls[o] = Slots
    /\ \A o \in Officers, slot \in Slots : CallSound(form[o].screen, calls[o][slot])

ColumnsHold(v) == Over(Columns, v) /\ \A c \in Columns : v[c] \in Holds(c)

RowSound == ColumnsHold(stored) /\ RowHolds(stored) /\ stored = intended

\* No notice carries the stamp of a save still to come.
StampsPast == \A n \in notices : n[2] <= updatedAt

RestSound ==
    /\ updatedAt \in Nat /\ closed \subseteq Screens
    /\ roles \in [Officers -> Rosters]
    /\ registered \subseteq Students /\ DOMAIN told = Students
    /\ notices \subseteq Students \X Nat
    /\ spent \in [{"typed", "sent", "around"} -> Nat]

Inv == ScreensSound /\ RowSound /\ RestSound /\ StampsPast /\ NobodyMissesAMove

LEMMA InvImplies == Inv => EditingTypeOK /\ NobodysEditIsUndone /\ StoredRowHolds /\ NobodyMissesAMove
  BY DEF Inv, ScreensSound, RowSound, RestSound, FormSound, CallSound, ColumnsHold, EditingTypeOK,
         NobodysEditIsUndone, StoredRowHolds

-----------------------------------------------------------------------------
\* The columns, once and for all.
LEMMA ColumnFacts ==
    /\ Columns = ColumnsOf("event") \union ColumnsOf("club")
    /\ ColumnsOf("event") = Instants \union {"venue", "certificateEnabled", "certificateTitle"}
    /\ ColumnsOf("club") = {"description"}
    /\ Instants \subseteq ColumnsOf("event")
    /\ Images \intersect Columns = {}
  BY DEF Columns, ColumnsOf, Instants, Images

LEMMA InstantFacts ==
    \A c \in Columns : \A v \in Shows(c) : v \in Holds(c) \/ (c \in Instants /\ v = Unset)
  BY DEF Shows

\* Whatever a screen loads, it has not been typed on since.
LEMMA LoadedSound ==
    ASSUME NEW f, DOMAIN f = DOMAIN NoForm, f = [x \in DOMAIN f |-> f[x]],
           f.screen \in Screens, f.busy \in BOOLEAN,
           NEW row, RowType(f.screen, row.values), row.viewerClubRoles \in Rosters, row.live \in BOOLEAN
    PROVE  FormSound(Loaded(f, row)) /\ Loaded(f, row).screen = f.screen
  <1> DEFINE g == Loaded(f, row)
  <1>1. /\ DOMAIN g = DOMAIN NoForm /\ g = [x \in DOMAIN g |-> g[x]]
        /\ g.screen = f.screen /\ g.busy = f.busy
        /\ g.values = row.values /\ g.base = row.values /\ g.live = row.live
        /\ g.viewerClubRoles = row.viewerClubRoles /\ g.typed = {}
    BY DEF Loaded, NoForm
  <1>2. DraftType(g.screen, g.values)
    BY <1>1 DEF DraftType, RowType, Shows
  <1>3. Dirty(g) = {}
    BY <1>1 DEF Dirty
  <1> HIDE DEF g
  <1>4. FormType(g)
    BY <1>1, <1>2 DEF FormType, Over
  <1> QED
    BY <1>1, <1>3, <1>4 DEF FormSound, g

\* toPatchBody sends what may be stored, and nothing that was not typed.
LEMMA ToPatchSound ==
    ASSUME NEW f, FormSound(f), f.screen \in Screens
    PROVE  PatchType(f.screen, ToPatch(f)) /\ DOMAIN ToPatch(f) \intersect Columns \subseteq f.typed
  <1>1. FormType(f) /\ DraftType(f.screen, f.values) /\ Dirty(f) \subseteq f.typed
    BY DEF FormSound, FormType, NoForm, Screens
  <1>2. \A c \in DOMAIN ToPatch(f) : c \in ColumnsOf(f.screen) /\ c \in f.typed
                                     /\ ToPatch(f)[c] = f.values[c] /\ f.values[c] \in Shows(c)
                                     /\ ~(c \in Instants /\ f.values[c] = Unset)
    BY <1>1 DEF ToPatch, Dirty, DraftType
  <1>3. ColumnsOf(f.screen) \subseteq Columns
    BY DEF Columns, Screens
  <1> QED
    BY <1>2, <1>3, InstantFacts DEF PatchType

LEMMA ServedSound ==
    ASSUME RowSound, RestSound, NEW o \in Officers, NEW screen \in Screens
    PROVE  LET row == Served(o, screen)
           IN  /\ DOMAIN row = {"values", "viewerClubRoles", "live"}
               /\ RowType(screen, row.values) /\ row.viewerClubRoles \in Rosters /\ row.live \in BOOLEAN
  <1>1. ColumnsOf(screen) \subseteq Columns
    BY DEF Columns, Screens
  <1>2. RowType(screen, [c \in ColumnsOf(screen) |-> stored[c]])
    BY <1>1 DEF RowType, Over, RowSound, ColumnsHold
  <1> QED
    BY <1>2 DEF Served, RestSound

\* The merged row holds the columns, each from the patch or as it was.
LEMMA MergedSound ==
    ASSUME RowSound, NEW screen \in Screens, NEW patch, PatchType(screen, patch)
    PROVE  /\ ColumnsHold(Merged(Data(patch)))
           /\ \A c \in Columns : Merged(Data(patch))[c] = IF c \in DOMAIN patch THEN patch[c] ELSE stored[c]
  <1>1. DOMAIN Data(patch) = DOMAIN patch \intersect Columns
    BY DEF Data
  <1>2. Merged(Data(patch)) = [c \in Columns |-> IF c \in DOMAIN patch THEN patch[c] ELSE stored[c]]
    <2>1. Columns \union DOMAIN Data(patch) = Columns
      BY <1>1
    <2>2. \A c \in Columns : (IF c \in DOMAIN Data(patch) THEN Data(patch)[c] ELSE stored[c])
                               = IF c \in DOMAIN patch THEN patch[c] ELSE stored[c]
      BY <1>1 DEF Data
    <2> QED
      BY <2>1, <2>2 DEF Merged
  <1> QED
    BY <1>2 DEF ColumnsHold, Over, RowSound, PatchType
-----------------------------------------------------------------------------
(***************************************************************************)
(* Steps on one screen.                                                    *)
(***************************************************************************)
LEMMA FormFacts ==
    ASSUME NEW f, FormType(f)
    PROVE  DOMAIN f = DOMAIN NoForm /\ f = [x \in DOMAIN f |-> f[x]] /\ f.busy \in BOOLEAN
           /\ (f.screen # "none" => f.screen \in Screens)
  <1>1. CASE f = NoForm
    BY <1>1 DEF NoForm
  <1>2. CASE f # NoForm
    BY <1>2 DEF FormType, Over
  <1> QED
    BY <1>1, <1>2

\* What a screen shows and sends, if it alone changes and stays the same screen.
LEMMA OneScreen ==
    ASSUME Inv, NEW o \in Officers, NEW f, FormSound(f), f.screen = form[o].screen,
           form' = [form EXCEPT ![o] = f], calls' = calls
    PROVE  ScreensSound'
  BY DEF Inv, ScreensSound, Over

\* The same when one of its calls moves on as well.
LEMMA OneCall ==
    ASSUME Inv, NEW o \in Officers, NEW slot \in Slots, NEW f, NEW call,
           FormSound(f), f.screen = form[o].screen, CallSound(f.screen, call),
           form' = [form EXCEPT ![o] = f], calls' = [calls EXCEPT ![o][slot] = call]
    PROVE  ScreensSound'
  BY DEF Inv, ScreensSound, Over

\* Nothing but the screens has changed.
LEMMA RestKeeps ==
    ASSUME Inv, ScreensSound', UNCHANGED <<stored, intended, updatedAt, closed, roles, registered, told, notices>>,
           spent' \in [{"typed", "sent", "around"} -> Nat]
    PROVE  Inv'
  BY DEF Inv, RowSound, RestSound, StampsPast, NobodyMissesAMove, ColumnsHold, Plan

LEMMA SpendKeeps ==
    ASSUME Inv, NEW what \in {"typed", "sent", "around"}, Spend(what)
    PROVE  spent' \in [{"typed", "sent", "around"} -> Nat]
  BY DEF Inv, RestSound, Spend

LEMMA NoFormSound == FormSound(NoForm) /\ \A screen : CallSound(screen, NoCall)
  BY DEF FormSound, FormType, NoForm, CallSound, CallType, NoCall

LEMMA OpenInv == ASSUME Inv, NEW o \in Officers, NEW screen \in Screens, Open(o, screen) PROVE Inv'
  <1> DEFINE f == Loaded([NoForm EXCEPT !.screen = screen], Served(o, screen))
  <1>1. FormSound(f) /\ f.screen = screen
    <2>1. LET g == [NoForm EXCEPT !.screen = screen]
          IN  DOMAIN g = DOMAIN NoForm /\ g = [x \in DOMAIN g |-> g[x]] /\ g.screen = screen /\ g.busy = FALSE
      BY DEF NoForm
    <2> QED
      BY <2>1, ServedSound, LoadedSound DEF Inv
  <1>2. \A slot \in Slots : calls[o][slot] = NoCall
    BY DEF Open, Inv, ScreensSound, CallSound, CallType, Screens
  <1>3. ScreensSound'
    BY <1>1, <1>2, NoFormSound DEF Open, Inv, ScreensSound, Over
  <1> QED
    BY <1>3, RestKeeps DEF Open, Inv, RestSound

LEMMA LeaveInv == ASSUME Inv, NEW o \in Officers, Leave(o) PROVE Inv'
  <1>0. \A slot \in Slots : calls[o][slot] = NoCall
    BY DEF Leave, UnderWay
  <1>1. ScreensSound'
    BY <1>0, NoFormSound DEF Leave, Inv, ScreensSound, Over
  <1> QED
    BY <1>1, RestKeeps DEF Leave, Inv, RestSound

\* What a control gives is what it may show.
LEMMA PutInv ==
    ASSUME Inv, NEW o \in Officers, form[o].screen \in Screens, NEW new, Put(o, new), Spend("typed"),
           DOMAIN new \subseteq ColumnsOf(form[o].screen), \A c \in DOMAIN new : new[c] \in Shows(c)
    PROVE  Inv'
  <1> DEFINE v == [c \in DOMAIN form[o].values |-> IF c \in DOMAIN new THEN new[c] ELSE form[o].values[c]]
             f == [form[o] EXCEPT !.values = v, !.typed = @ \union DOMAIN new]
  <1>1. FormSound(form[o]) /\ FormType(form[o]) /\ form[o] # NoForm /\ o \in DOMAIN form
    BY DEF Inv, ScreensSound, FormSound, NoForm, Screens
  <1>2. /\ DOMAIN f = DOMAIN NoForm /\ f.values = v /\ f.typed = form[o].typed \union DOMAIN new
        /\ f.screen = form[o].screen /\ f.base = form[o].base /\ f.live = form[o].live /\ f.busy = form[o].busy
        /\ f.viewerClubRoles = form[o].viewerClubRoles
    BY <1>1, FormFacts DEF NoForm
  <1>3. f = [x \in DOMAIN f |-> f[x]]
    OBVIOUS
  <1>4. DOMAIN form[o].values = ColumnsOf(form[o].screen)
    BY <1>1 DEF FormType, DraftType, Over
  <1>5. DraftType(f.screen, v)
    BY <1>1, <1>2, <1>4 DEF FormType, DraftType, Over
  <1>6. Dirty(f) \subseteq f.typed
    BY <1>1, <1>2, <1>4, FormFacts DEF FormSound, Dirty, Screens
  <1>7. form' = [form EXCEPT ![o] = f]
    BY <1>1 DEF Put
  <1> HIDE DEF f, v
  <1>8. FormSound(f)
    BY <1>1, <1>2, <1>3, <1>5, <1>6 DEF FormSound, FormType, Over
  <1> QED
    BY <1>2, <1>7, <1>8, OneScreen, RestKeeps, SpendKeeps DEF Put

LEMMA TypeInv == ASSUME Inv, NEW o \in Officers, Type(o) PROVE Inv'
  <1>1. form[o].screen \in Screens
    BY FormFacts DEF Type, Inv, ScreensSound, FormSound
  <1>2. PICK c \in ColumnsOf(form[o].screen) : \E v \in Shows(c) : Put(o, [x \in {c} |-> v])
    BY DEF Type
  <1>3. PICK v \in Shows(c) : Put(o, [x \in {c} |-> v])
    BY <1>2
  <1> QED
    BY <1>1, <1>3, PutInv DEF Type

LEMMA PickInv == ASSUME Inv, NEW o \in Officers, Pick(o) PROVE Inv'
  <1>1. PICK w \in WindowEnds, span \in Spans \union {<<Unset, Unset>>} :
          Put(o, [x \in {w[1], w[2]} |-> IF x = w[1] THEN span[1] ELSE span[2]])
    BY DEF Pick
  <1>2. {w[1], w[2]} \subseteq Instants
    BY DEF WindowEnds, Instants
  <1>3. \A c \in Instants : \A x : x \in Shows(c) <=> x = Unset \/ \E s \in Spans : x \in {s[1], s[2]}
    <2> SUFFICES ASSUME NEW c \in Instants
                 PROVE  \A x : x \in Shows(c) <=> x = Unset \/ \E s \in Spans : x \in {s[1], s[2]}
      OBVIOUS
    <2>1. Holds(c) = UNION {{s[1], s[2]} : s \in Spans}
      BY DEF Holds, Instants
    <2> QED
      BY <2>1 DEF Shows
  <1>4. \A x \in {span[1], span[2]} : x = Unset \/ \E s \in Spans : x \in {s[1], s[2]}
    <2>1. CASE span \in Spans
      BY <2>1
    <2>2. CASE span = <<Unset, Unset>>
      BY <2>2
    <2> QED
      BY <2>1, <2>2
  <1> QED
    BY <1>1, <1>2, <1>3, <1>4, PutInv, ColumnFacts DEF Pick, Screens

LEMMA DiscardInv == ASSUME Inv, NEW o \in Officers, Discard(o) PROVE Inv'
  <1> DEFINE f == [form[o] EXCEPT !.values = form[o].base, !.typed = {}]
  <1>1. FormType(form[o]) /\ form[o] # NoForm /\ o \in DOMAIN form
    BY DEF Inv, ScreensSound, FormSound, NoForm, Discard
  <1>2. /\ DOMAIN f = DOMAIN NoForm /\ f.values = form[o].base /\ f.typed = {}
        /\ f.screen = form[o].screen /\ f.base = form[o].base /\ f.live = form[o].live /\ f.busy = form[o].busy
        /\ f.viewerClubRoles = form[o].viewerClubRoles
    BY <1>1, FormFacts DEF NoForm
  <1>3. f = [x \in DOMAIN f |-> f[x]]
    OBVIOUS
  <1>4. form' = [form EXCEPT ![o] = f]
    BY <1>1 DEF Discard
  <1> HIDE DEF f
  <1>5. DraftType(f.screen, f.values) /\ Dirty(f) = {}
    BY <1>1, <1>2 DEF FormType, RowType, DraftType, Shows, Dirty
  <1>6. /\ f.screen \in Screens /\ RowType(f.screen, f.base) /\ f.viewerClubRoles \in Rosters
        /\ {f.live, f.busy} \subseteq BOOLEAN
    BY <1>1, <1>2 DEF FormType
  <1>7. FormType(f)
    BY <1>2, <1>3, <1>5, <1>6 DEF FormType, Over
  <1>8. FormSound(f)
    BY <1>5, <1>7 DEF FormSound
  <1> QED
    BY <1>2, <1>4, <1>8, OneScreen, RestKeeps DEF Discard, Inv, RestSound
-----------------------------------------------------------------------------
(***************************************************************************)
(* Calls.                                                                  *)
(***************************************************************************)

\* The buttons being held or let go is nothing to the rest of a screen.
LEMMA BusySound ==
    ASSUME NEW f, FormSound(f), f.screen \in Screens, NEW busy \in BOOLEAN
    PROVE  FormSound([f EXCEPT !.busy = busy]) /\ [f EXCEPT !.busy = busy].screen = f.screen
  <1> DEFINE g == [f EXCEPT !.busy = busy]
  <1>1. FormType(f) /\ f # NoForm
    BY DEF FormSound, NoForm, Screens
  <1>2. /\ Over(DOMAIN NoForm, g) /\ g.values = f.values /\ g.base = f.base /\ g.screen = f.screen
        /\ g.live = f.live /\ g.viewerClubRoles = f.viewerClubRoles /\ g.typed = f.typed /\ g.busy = busy
    BY <1>1, FormFacts DEF Over, NoForm
  <1> HIDE DEF g
  <1>3. FormType(g)
    BY <1>1, <1>2 DEF FormType
  <1>4. Dirty(g) \subseteq g.typed
    BY <1>1, <1>2 DEF Dirty, FormSound, Screens
  <1> QED
    BY <1>2, <1>3, <1>4 DEF FormSound, g

LEMMA SettledSound ==
    ASSUME NEW f, FormSound(f), f.screen \in Screens, NEW call
    PROVE  FormSound(Settled(f, call)) /\ Settled(f, call).screen = f.screen
  BY BusySound DEF Settled

LEMMA SendsInv ==
    ASSUME Inv, NEW o \in Officers, NEW call, Sends(o, call), form[o].screen \in Screens,
           NEW busy \in BOOLEAN, form' = [form EXCEPT ![o].busy = busy],
           CallSound(form[o].screen, call)
    PROVE  Inv'
  <1> DEFINE f == [form[o] EXCEPT !.busy = busy]
  <1>1. FormSound(form[o]) /\ o \in DOMAIN form
    BY DEF Inv, ScreensSound
  <1>2. FormSound(f) /\ f.screen = form[o].screen
    BY <1>1, BusySound
  <1>3. PICK slot \in Slots : calls' = [calls EXCEPT ![o][slot] = call]
    BY DEF Sends, FreeSlots
  <1>4. form' = [form EXCEPT ![o] = f]
    BY <1>1
  <1> HIDE DEF f
  <1> QED
    BY <1>2, <1>3, <1>4, OneCall, RestKeeps, SpendKeeps DEF Sends

\* A body fit for its screen, on its way.
LEMMA CarryingSound ==
    ASSUME Inv, NEW o \in Officers, form[o].screen \in Screens, NEW kind, NEW patch,
           PatchType(form[o].screen, patch), DOMAIN patch \intersect Columns \subseteq form[o].typed
    PROVE  CallSound(form[o].screen, Carrying(o, kind, patch))
  <1>1. form[o].typed \subseteq Columns
    BY DEF Inv, ScreensSound, FormSound, FormType, Columns, Screens, NoForm
  <1> QED
    BY <1>1 DEF Carrying, CallSound, CallType

LEMMA WrittenSound == \A screen \in Screens : \A kind : CallSound(screen, Written(kind))
  BY DEF Written, CallSound, CallType

LEMMA SubmitInv == ASSUME Inv, NEW o \in Officers, Submit(o) PROVE Inv'
  <1>1. FormSound(form[o]) /\ form[o].screen \in Screens
    BY FormFacts DEF Submit, Inv, ScreensSound, FormSound
  <1> QED
    BY <1>1, ToPatchSound, CarryingSound, SendsInv DEF Submit

LEMMA UploadInv == ASSUME Inv, NEW o \in Officers, Upload(o) PROVE Inv'
  <1>1. form[o].screen \in Screens /\ form[o].busy \in BOOLEAN
    BY FormFacts DEF Upload, Inv, ScreensSound, FormSound
  <1>2. DEFINE patch == [x \in {ImageField(form[o].screen)} |-> TRUE]
  <1>3. PatchType(form[o].screen, patch) /\ DOMAIN patch \intersect Columns \subseteq form[o].typed
    BY ColumnFacts DEF PatchType, ImageField, Images
  <1>4. form' = [form EXCEPT ![o].busy = form[o].busy \/ form[o].screen = "event"]
    BY DEF Upload, Inv, ScreensSound
  <1> QED
    BY <1>1, <1>3, <1>4, CarryingSound, SendsInv DEF Upload

LEMMA AssignedInv == ASSUME Inv, NEW o \in Officers, Assigned(o) PROVE Inv'
  <1>1. form[o].screen \in Screens /\ form[o].busy \in BOOLEAN
    BY FormFacts DEF Assigned, Inv, ScreensSound, FormSound, Screens
  <1>2. PICK kind \in {"assign", "remove"} :
          /\ form' = [form EXCEPT ![o].busy = @ \/ kind = "remove"]
          /\ Sends(o, Written(kind))
    BY DEF Assigned
  <1>3. form' = [form EXCEPT ![o].busy = form[o].busy \/ kind = "remove"]
    BY <1>2 DEF Inv, ScreensSound
  <1> QED
    BY <1>1, <1>2, <1>3, WrittenSound, SendsInv

\* A call whose answer is in ends, and its screen lets go.
LEMMA EndsInv ==
    ASSUME Inv, NEW o \in Officers, NEW slot \in Slots, calls[o][slot] # NoCall,
           NEW f, FormSound(f), f.screen = form[o].screen,
           form' = [form EXCEPT ![o] = Settled(f, calls[o][slot])],
           calls' = [calls EXCEPT ![o][slot] = NoCall],
           UNCHANGED <<stored, updatedAt, closed, roles, intended, registered, told, notices, spent>>
    PROVE  Inv'
  <1>1. form[o].screen \in Screens
    BY DEF Inv, ScreensSound, CallSound, CallType
  <1>2. FormSound(Settled(f, calls[o][slot])) /\ Settled(f, calls[o][slot]).screen = form[o].screen
    BY <1>1, SettledSound
  <1>3. CallSound(form[o].screen, NoCall)
    BY NoFormSound
  <1> QED
    BY <1>2, <1>3, OneCall, RestKeeps DEF Inv, RestSound

LEMMA RefuseLostInv ==
    ASSUME Inv, NEW o \in Officers, NEW slot \in Slots, Refuse(o, slot) \/ Lost(o, slot) PROVE Inv'
  <1>1. FormSound(form[o]) /\ o \in DOMAIN form
    BY DEF Inv, ScreensSound
  <1>2. calls[o][slot] # NoCall
    BY DEF Refuse, Lost, At, NoCall
  <1>3. form' = [form EXCEPT ![o] = Settled(form[o], calls[o][slot])]
    BY <1>1 DEF Refuse, Lost
  <1> QED
    BY <1>1, <1>2, <1>3, EndsInv DEF Refuse, Lost

LEMMA LandInv == ASSUME Inv, NEW o \in Officers, NEW slot \in Slots, Land(o, slot) PROVE Inv'
  <1> DEFINE row == calls[o][slot].row
  <1>1. CallSound(form[o].screen, calls[o][slot]) /\ FormSound(form[o]) /\ o \in DOMAIN form
    BY DEF Inv, ScreensSound
  <1>2. calls[o][slot] # NoCall /\ form[o].screen \in Screens
        /\ RowType(form[o].screen, row.values) /\ row.viewerClubRoles \in Rosters /\ row.live \in BOOLEAN
    BY <1>1 DEF Land, CallSound, CallType, NoCall
  <1>3. FormSound(Loaded(form[o], row)) /\ Loaded(form[o], row).screen = form[o].screen
    BY <1>1, <1>2, FormFacts, LoadedSound DEF FormSound
  <1>4. form' = [form EXCEPT ![o] = Settled(Loaded(form[o], row), calls[o][slot])]
    BY <1>1 DEF Land
  <1> QED
    BY <1>2, <1>3, <1>4, EndsInv DEF Land

\* A call goes on; its screen does not notice.
LEMMA ReadBackInv == ASSUME Inv, NEW o \in Officers, NEW slot \in Slots, ReadBack(o, slot) PROVE Inv'
  <1> DEFINE call == [step |-> "served", kind |-> calls[o][slot].kind, row |-> Served(o, form[o].screen)]
  <1>1. FormSound(form[o]) /\ form[o].screen \in Screens /\ o \in DOMAIN form
    BY DEF ReadBack, Inv, ScreensSound, CallSound, CallType, NoCall
  <1>2. CallSound(form[o].screen, call)
    BY <1>1, ServedSound DEF CallSound, CallType, Inv
  <1>3. calls' = [calls EXCEPT ![o][slot] = call]
    BY DEF ReadBack, Inv, ScreensSound
  <1>4. form' = [form EXCEPT ![o] = form[o]]
    BY <1>1 DEF ReadBack, Inv, ScreensSound, Over
  <1> HIDE DEF call
  <1> QED
    BY <1>1, <1>2, <1>3, <1>4, OneCall, RestKeeps DEF ReadBack, Inv, RestSound

\* A call whose work is done.
LEMMA FinishesSound ==
    ASSUME Inv, NEW o \in Officers, NEW slot \in Slots, calls[o][slot].step \in {"sent", "examined"},
           Finishes(o, slot), form' = form
    PROVE  ScreensSound'
  <1> DEFINE call == Written(calls[o][slot].kind)
  <1>1. FormSound(form[o]) /\ form[o].screen \in Screens
    BY DEF Inv, ScreensSound, CallSound, CallType, NoCall
  <1>2. calls' = [calls EXCEPT ![o][slot] = call] /\ form' = [form EXCEPT ![o] = form[o]]
    BY DEF Finishes, Inv, ScreensSound, Over
  <1>3. CallSound(form[o].screen, call)
    BY <1>1, WrittenSound
  <1> HIDE DEF call
  <1> QED
    BY <1>1, <1>2, <1>3, OneCall

LEMMA ExamineClubInv == ASSUME Inv, NEW o \in Officers, NEW slot \in Slots, ExamineClub(o, slot) PROVE Inv'
  <1> DEFINE call == [calls[o][slot] EXCEPT !.step = "examined"]
  <1>1. FormSound(form[o]) /\ CallSound(form[o].screen, calls[o][slot]) /\ calls[o][slot].step = "sent"
    BY DEF ExamineClub, At, Inv, ScreensSound
  <1>2. /\ form[o].screen \in Screens /\ DOMAIN calls[o][slot] = {"step", "kind", "patch", "typed"}
        /\ calls[o][slot].typed \subseteq Columns /\ PatchType(form[o].screen, calls[o][slot].patch)
        /\ DOMAIN calls[o][slot].patch \intersect Columns \subseteq calls[o][slot].typed
    BY <1>1 DEF CallSound, CallType, NoCall
  <1>3. /\ DOMAIN call = {"step", "kind", "patch", "typed"} /\ call.step = "examined"
        /\ call.patch = calls[o][slot].patch /\ call.typed = calls[o][slot].typed
    BY <1>2
  <1>4. calls' = [calls EXCEPT ![o][slot] = call] /\ form' = [form EXCEPT ![o] = form[o]]
    BY DEF ExamineClub, Inv, ScreensSound, Over
  <1> HIDE DEF call
  <1>5. CallSound(form[o].screen, call)
    BY <1>2, <1>3 DEF CallSound, CallType
  <1> QED
    BY <1>1, <1>4, <1>5, OneCall, RestKeeps DEF ExamineClub, Inv, RestSound

-----------------------------------------------------------------------------
(***************************************************************************)
(* Saves.                                                                  *)
(***************************************************************************)
\* What a save needs of the call it makes.
LEMMA SavedCall ==
    ASSUME Inv, NEW o \in Officers, NEW slot \in Slots, calls[o][slot].step \in {"sent", "examined"}
    PROVE  /\ form[o].screen \in Screens
           /\ PatchType(form[o].screen, calls[o][slot].patch)
           /\ DOMAIN calls[o][slot].patch \intersect Columns \subseteq calls[o][slot].typed
           /\ calls[o][slot].typed \subseteq Columns
  BY DEF Inv, ScreensSound, CallSound, CallType, NoCall

\* A save writes what its officer meant, and leaves the rest to the others.
LEMMA SaveIsMeant ==
    ASSUME Inv, NEW o \in Officers, NEW slot \in Slots, calls[o][slot].step \in {"sent", "examined"},
           stored' = Merged(Data(calls[o][slot].patch)), Intends(calls[o][slot])
    PROVE  ColumnsHold(stored') /\ stored' = intended'
  <1> DEFINE patch == calls[o][slot].patch
  <1>1. /\ ColumnsHold(stored')
        /\ \A c \in Columns : stored'[c] = IF c \in DOMAIN patch THEN patch[c] ELSE stored[c]
    BY SavedCall, MergedSound DEF Inv
  <1>2. stored' = [c \in Columns |-> IF c \in DOMAIN patch THEN patch[c] ELSE stored[c]]
    BY <1>1 DEF ColumnsHold, Over
  <1>3. \A c \in Columns : c \in calls[o][slot].typed \intersect DOMAIN patch <=> c \in DOMAIN patch
    BY SavedCall
  <1>4. intended' = [c \in Columns |-> IF c \in DOMAIN patch THEN patch[c] ELSE stored[c]]
    BY <1>3 DEF Intends, Inv, RowSound
  <1> QED
    BY <1>1, <1>2, <1>4

LEMMA SaveEventInv == ASSUME Inv, NEW o \in Officers, NEW slot \in Slots, SaveEvent(o, slot) PROVE Inv'
  <1> DEFINE row == Merged(Data(calls[o][slot].patch))
  <1>1. calls[o][slot].step = "sent" /\ stored' = row /\ Intends(calls[o][slot])
    BY DEF SaveEvent, At
  <1>2. ScreensSound'
    BY <1>1, FinishesSound DEF SaveEvent
  <1>3. ColumnsHold(stored') /\ stored' = intended'
    BY <1>1, SaveIsMeant
  <1>4. RowHolds(stored')
    BY <1>1 DEF SaveEvent, Savable, WindowsChecked, RowHolds
  <1>5. updatedAt \in Nat /\ updatedAt' = updatedAt + 1 /\ registered' = registered
    BY DEF SaveEvent, Inv, RestSound
  <1>6. /\ notices' = notices \union {<<s, updatedAt'>> : s \in Hearing(row)}
        /\ told' = [s \in Students |-> IF s \in Hearing(row) THEN Plan(row) ELSE told[s]]
    BY DEF SaveEvent, ChangeSubject
  <1>7. Hearing(row) \subseteq registered /\ registered \subseteq Students
    BY DEF Hearing, Inv, RestSound
  <1>8. \A s \in registered : <<s, updatedAt'>> \notin notices
    BY <1>5 DEF Inv, StampsPast
  <1>9. NobodyMissesAMove'
    <2>1. CASE Plan(row) = Plan(stored)
      <3>1. Hearing(row) = {}
        BY <2>1 DEF Hearing
      <3>2. \A s \in registered : told'[s] = told[s] /\ told[s] = Plan(row)
        BY <2>1, <3>1, <1>6, <1>7 DEF Inv, NobodyMissesAMove
      <3> QED
        BY <3>2, <1>1, <1>5 DEF NobodyMissesAMove, Plan
    <2>2. CASE Plan(row) # Plan(stored)
      <3>1. Hearing(row) = registered
        BY <2>2, <1>8 DEF Hearing, ChangeSubject
      <3> HIDE DEF row
      <3>2. \A s \in registered : told'[s] = Plan(row)
        BY <3>1, <1>6, <1>7
      <3> QED
        BY <3>2, <1>1, <1>5 DEF NobodyMissesAMove, Plan
    <2> QED
      BY <2>1, <2>2
  <1> HIDE DEF row
  <1>10. StampsPast'
    BY <1>5, <1>6 DEF StampsPast, Inv, RestSound
  <1>11. RestSound'
    BY <1>5, <1>6, <1>7 DEF RestSound, Inv, SaveEvent
  <1> QED
    BY <1>2, <1>3, <1>4, <1>9, <1>10, <1>11 DEF Inv, RowSound

LEMMA SaveClubInv == ASSUME Inv, NEW o \in Officers, NEW slot \in Slots, SaveClub(o, slot) PROVE Inv'
  <1> DEFINE patch == calls[o][slot].patch
  <1>1. /\ calls[o][slot].step = "examined" /\ form[o].screen = "club"
        /\ stored' = Merged(Data(patch)) /\ Intends(calls[o][slot])
    BY DEF SaveClub, At
  <1>2. ScreensSound'
    BY <1>1, FinishesSound DEF SaveClub
  <1>3. ColumnsHold(stored') /\ stored' = intended'
    BY <1>1, SaveIsMeant
  <1>4. \A c \in ColumnsOf("event") : stored'[c] = stored[c]
    <2>1. PatchType("club", patch) /\ \A c \in Columns : stored'[c] = IF c \in DOMAIN patch THEN patch[c] ELSE stored[c]
      BY <1>1, SavedCall, MergedSound DEF Inv
    <2>2. \A c \in ColumnsOf("event") : c \in Columns /\ c \notin ColumnsOf("club") \union Images
      BY ColumnFacts DEF Instants
    <2> QED
      BY <2>1, <2>2 DEF PatchType
  <1>5. RowHolds(stored')
    BY <1>4, ColumnFacts DEF RowHolds, WindowsValid, CertificateComplete, Inv, RowSound, Instants
  <1>6. Plan(stored') = Plan(stored)
    BY <1>4, ColumnFacts DEF Plan, Instants
  <1>7. NobodyMissesAMove' /\ RestSound' /\ StampsPast'
    BY <1>6 DEF SaveClub, Inv, NobodyMissesAMove, RestSound, StampsPast
  <1> QED
    BY <1>2, <1>3, <1>5, <1>7 DEF Inv, RowSound

-----------------------------------------------------------------------------
(***************************************************************************)
(* The others, and the whole.                                              *)
(***************************************************************************)
LEMMA SurroundingsInv == ASSUME Inv, Surroundings PROVE Inv'
  <1>1. ASSUME NEW o \in Officers, NEW held \in Rosters, Reappoint(o, held) PROVE Inv'
    BY <1>1, SpendKeeps DEF Reappoint, Inv, ScreensSound, RowSound, RestSound, StampsPast, NobodyMissesAMove,
       ColumnsHold, Plan
  <1>2. ASSUME NEW screen \in Screens, Close(screen) PROVE Inv'
    BY <1>2, SpendKeeps DEF Close, Inv, ScreensSound, RowSound, RestSound, StampsPast, NobodyMissesAMove,
       ColumnsHold, Plan
  <1>3. ASSUME Unarchive PROVE Inv'
    BY <1>3, SpendKeeps DEF Unarchive, Inv, ScreensSound, RowSound, RestSound, StampsPast, NobodyMissesAMove,
       ColumnsHold, Plan
  <1>4. ASSUME NEW s \in Students, Register(s) \/ Withdraw(s) PROVE Inv'
    <2>1. ScreensSound' /\ RowSound' /\ StampsPast' /\ RestSound'
      BY <1>4, SpendKeeps DEF Register, Withdraw, Inv, ScreensSound, RowSound, RestSound, StampsPast, ColumnsHold
    <2>2. NobodyMissesAMove'
      BY <1>4 DEF Register, Withdraw, Inv, NobodyMissesAMove, RestSound, Plan
    <2> QED
      BY <2>1, <2>2 DEF Inv
  <1> QED
    BY <1>1, <1>2, <1>3, <1>4 DEF Surroundings

LEMMA InitInv == Init => Inv
  <1> SUFFICES ASSUME Init PROVE Inv
    OBVIOUS
  <1>1. ScreensSound
    BY NoFormSound DEF Init, ScreensSound, Over
  <1>2. RowSound
    BY RowsAssumption DEF Init, RowSound, ColumnsHold
  <1>3. RestSound
    BY EditingAssumption DEF Init, RestSound, Screens
  <1>4. StampsPast /\ NobodyMissesAMove
    BY <1>3 DEF Init, StampsPast, NobodyMissesAMove, RestSound
  <1> QED
    BY <1>1, <1>2, <1>3, <1>4 DEF Inv

LEMMA NextInv == Inv /\ [Next]_vars => Inv'
  <1> SUFFICES ASSUME Inv, [Next]_vars PROVE Inv'
    OBVIOUS
  <1>1. ASSUME NEW o \in Officers, ScreenStep(o) PROVE Inv'
    BY <1>1, OpenInv, LeaveInv, TypeInv, PickInv, DiscardInv, SubmitInv, UploadInv, AssignedInv DEF ScreenStep
  <1>2. ASSUME NEW o \in Officers, NEW slot \in Slots, CallStep(o, slot) PROVE Inv'
    BY <1>2, SaveEventInv, ExamineClubInv, SaveClubInv, RefuseLostInv, ReadBackInv, LandInv DEF CallStep
  <1>3. CASE UNCHANGED vars
    BY <1>3, RestKeeps DEF vars, Inv, ScreensSound, RestSound
  <1> QED
    BY <1>1, <1>2, <1>3, SurroundingsInv DEF Next

THEOREM InvAlways == Spec => []Inv
  BY InitInv, NextInv, PTL DEF Spec

\* Every variable keeps its type: in particular no body of a PATCH, nor an
\* image named in one, ever adds a column or a value of the wrong kind.
THEOREM EditingTypeCorrect == Spec => []EditingTypeOK
  BY InvAlways, InvImplies, PTL

\* Officers of one event or club never undo one another's edits: each column
\* stands as it was last typed and saved, however stale the screens.
THEOREM EditsStand == Spec => []NobodysEditIsUndone
  BY InvAlways, InvImplies, PTL

\* Whatever is saved from whatever screen, the stored event keeps its windows
\* in order and its certificate signed.
THEOREM StoredRowAlwaysHolds == Spec => []StoredRowHolds
  BY InvAlways, InvImplies, PTL

\* Whoever holds a place has been told when and where, however often it moves.
THEOREM MovesReachHolders == Spec => []NobodyMissesAMove
  BY InvAlways, InvImplies, PTL
=============================================================================
