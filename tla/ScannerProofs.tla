--------------------------- MODULE ScannerProofs ---------------------------
(***************************************************************************)
(* The check-in desk's invariants hold for any number of people, events,   *)
(* screens and requests, and whatever the version field holds.             *)
(***************************************************************************)
EXTENDS Scanner, TLAPS

\* No image is ahead of its row, and what a rotation retired lies behind it.
RetiredIsPast ==
    /\ \A i \in issued : i.version <= version[i.of]
    /\ \A i \in retired : i.version < version[i.of]

\* The camera decodes only while an event is on the screen.
LookingAtEvent == \A d \in Devices : screens[d].looking => screens[d].event \in Events

\* A check-in knows its person and its event; one that has passed the version
\* check carries an image that was alive when it was sent; one that names
\* somebody has their record.
Sound(q) ==
    /\ q.of \in People
    /\ q.op # "create" => q.at \in Events
    /\ q.op = "scan" => q.image \in Image /\ q.of = q.image.of
    /\ q.dead => q.op = "scan" /\ q.image \in retired /\ q.step \in {"sent", "answered"}
    /\ q.op # "create" /\ q.step = "answered" /\ q.result \in Naming => Recorded(q.of, q.at)
    /\ q.step = "answered" => q.result \in Results

RequestsSound == \A r \in Requests : requests[r] # None => Sound(requests[r])

Inv ==
    /\ ScannerTypeOK
    /\ RetiredIsPast
    /\ LookingAtEvent
    /\ RequestsSound
    /\ ScreensTellTheTruth
    /\ RetiredImagesStayDead

USE DEF passVars, factVars, vars, Screen, Shows, Image

\* At the start there is no pass, no request and no record.
LEMMA InitInv == Init => Inv
  <1> SUFFICES ASSUME Init PROVE Inv
    OBVIOUS
  <1>1. ScannerTypeOK
    BY ScannerAssumption DEF Init, ScannerTypeOK, Blank, ScreenRow, RecordRow, NoRecord
  <1>2. RetiredIsPast /\ LookingAtEvent /\ RequestsSound
    BY DEF Init, RetiredIsPast, LookingAtEvent, RequestsSound, Blank
  <1>3. ScreensTellTheTruth /\ RetiredImagesStayDead
    BY DEF Init, ScreensTellTheTruth, RetiredImagesStayDead, Blank, NoRecord
  <1> QED
    BY <1>1, <1>2, <1>3 DEF Inv

\* A step of the pass leaves the desk alone: versions only grow, and what is
\* retired lies below the version a rotation sets.
LEMMA PassInv == Inv /\ PassStep => Inv'
  <1> SUFFICES ASSUME Inv, PassStep PROVE Inv'
    OBVIOUS
  <1> USE DEF Inv, ScannerTypeOK
  <1>1. ASSUME NEW p \in People, Mine(p) PROVE Inv'
    BY <1>1 DEF Mine, Presents, RetiredIsPast, LookingAtEvent, RequestsSound, Sound, Recorded,
                ScreensTellTheTruth, RetiredImagesStayDead
  <1>2. ASSUME NEW p \in People, Rotate(p) PROVE Inv'
    <2>1. /\ version' = [version EXCEPT ![p] = version[p] + 1]
          /\ version[p] + 1 \in 1 .. LastVersion
          /\ issued' = issued \cup {[of |-> p, version |-> version[p] + 1]}
          /\ retired' = retired \cup {i \in issued : i.of = p}
          /\ UNCHANGED <<factVars, records, requests, screens, sent>>
      BY <1>2, ScannerAssumption DEF Rotate, Presents, Increment, Fits
    <2>2. ScannerTypeOK'
      <3>1. issued' \subseteq Image /\ retired' \subseteq issued'
        BY <2>1
      <3>2. version' \in [People -> 0 .. LastVersion]
        BY <2>1, ScannerAssumption
      <3> QED
        BY <2>1, <3>1, <3>2
    <2>3. RetiredIsPast'
      <3>1. \A i \in issued : i.version \in Nat /\ i.of \in People /\ version[i.of] \in Nat
        BY ScannerAssumption
      <3>2. /\ version'[p] = version[p] + 1
            /\ \A p1 \in People : p1 # p => version'[p1] = version[p1]
        BY <2>1
      <3> QED
        BY <2>1, <3>1, <3>2 DEF RetiredIsPast
    <2>4. RequestsSound'
      BY <2>1 DEF RequestsSound, Sound, Recorded
    <2> QED
      BY <2>1, <2>2, <2>3, <2>4 DEF LookingAtEvent, Recorded, ScreensTellTheTruth, RetiredImagesStayDead
  <1>3. ASSUME NEW p \in People, NEW r \in Requests, FirstLook(r, p) PROVE Inv'
    <2>1. ScannerTypeOK'
      BY <1>3 DEF FirstLook, RequestRow
    <2>2. RequestsSound'
      BY <1>3 DEF FirstLook, RequestsSound, Sound, Recorded
    <2> QED
      BY <1>3, <2>1, <2>2 DEF FirstLook, RetiredIsPast, LookingAtEvent, Recorded,
                              ScreensTellTheTruth, RetiredImagesStayDead
  <1>4. ASSUME NEW r \in Requests, Create(r) PROVE Inv'
    <2> DEFINE p == requests[r].of
    <2>1. /\ p \in People
          /\ version' = [version EXCEPT ![p] = Created(p)]
          /\ Created(p) \in 1 .. LastVersion
          /\ Created(p) >= version[p]
          /\ issued' = issued \cup {[of |-> p, version |-> Created(p)]}
          /\ requests' = [requests EXCEPT ![r] = None]
          /\ UNCHANGED <<retired, factVars, records, screens, sent>>
      BY <1>4, ScannerAssumption DEF Create, Presents, Created, RequestsSound, Sound
    <2>2. ScannerTypeOK'
      BY <2>1
    <2>3. RetiredIsPast'
      BY <2>1 DEF RetiredIsPast
    <2>4. RequestsSound'
      BY <2>1 DEF RequestsSound, Sound, Recorded
    <2> QED
      BY <2>1, <2>2, <2>3, <2>4 DEF LookingAtEvent, Recorded, ScreensTellTheTruth, RetiredImagesStayDead
  <1> QED
    BY <1>1, <1>2, <1>3, <1>4 DEF PassStep

\* What the screens show survives any change of the screens alone that shows no
\* new verdict.
LEMMA ScreenInv == ASSUME NEW d \in Devices PROVE Inv /\ ScreenStep(d) => Inv'
  <1> SUFFICES ASSUME Inv, ScreenStep(d) PROVE Inv'
    OBVIOUS
  <1> USE DEF Inv, ScannerTypeOK
  <1>1. ASSUME NEW row \in ScreenRow, Shows(d, row),
               row.verdict \in {screens[d].verdict, None}, row.looking => row.event \in Events,
               UNCHANGED <<passVars, factVars, records, requests, sent>>
        PROVE  Inv'
    BY <1>1 DEF RetiredIsPast, LookingAtEvent, RequestsSound, Sound, Recorded,
                ScreensTellTheTruth, RetiredImagesStayDead
  <1>2. CASE \/ ChangeEvent(d) \/ Look(d) \/ SeesNothing(d) \/ RepeatOver(d) \/ ClearVerdict(d)
             \/ \E e \in Events : Pick(d, e)
             \/ \E image \in issued : Ignores(d, image)
    <2>1. screens[d] \in ScreenRow
      OBVIOUS
    <2> QED
      BY <1>1, <1>2, <2>1 DEF ChangeEvent, Look, SeesNothing, RepeatOver, ClearVerdict, Pick, Ignores,
                              ScreenRow, LookingAtEvent
  <1>3. CASE Reload(d)
    <2>1. ScannerTypeOK'
      <3>1. Blank(IF d \in Fixed THEN screens[d].event ELSE None) \in ScreenRow
        BY DEF Blank, ScreenRow
      <3>2. screens' \in [Devices -> ScreenRow]
        BY <1>3, <3>1 DEF Reload
      <3>3. ASSUME NEW row \in RequestRow PROVE [row EXCEPT !.by = None] \in RequestRow
        BY DEF RequestRow
      <3>4. requests' \in [Requests -> RequestRow \cup {None}]
        BY <1>3, <3>3 DEF Reload
      <3> QED
        BY <1>3, <3>2, <3>4 DEF Reload
    <2>2. LookingAtEvent' /\ ScreensTellTheTruth'
      BY <1>3 DEF Reload, Blank, LookingAtEvent, ScreensTellTheTruth, Recorded
    <2>3. RequestsSound'
      <3> SUFFICES ASSUME NEW r \in Requests, requests'[r] # None PROVE Sound(requests[r])'
        BY DEF RequestsSound
      <3>1. /\ requests[r] # None /\ requests[r] \in RequestRow
            /\ requests'[r] \in {requests[r], [requests[r] EXCEPT !.by = None]}
            /\ UNCHANGED <<retired, records>>
        BY <1>3 DEF Reload
      <3>2. /\ requests'[r].of = requests[r].of /\ requests'[r].at = requests[r].at
            /\ requests'[r].op = requests[r].op /\ requests'[r].step = requests[r].step
            /\ requests'[r].image = requests[r].image /\ requests'[r].dead = requests[r].dead
            /\ requests'[r].result = requests[r].result
        BY <3>1 DEF RequestRow
      <3> QED
        BY <3>1, <3>2 DEF RequestsSound, Sound, Recorded
    <2> QED
      BY <1>3, <2>1, <2>2, <2>3 DEF Reload, RetiredIsPast, RetiredImagesStayDead
  <1>4. ASSUME NEW image \in issued, NEW r \in Requests, Scan(d, r, image) PROVE Inv'
    <2>1. image \in Image /\ screens[d] \in ScreenRow /\ screens[d].event \in Events
      BY <1>4 DEF Scan, LookingAtEvent
    <2>2. ScannerTypeOK'
      <3> DEFINE asked == [op |-> "scan", step |-> "sent", by |-> d, at |-> screens[d].event,
                           of |-> image.of, image |-> image, dead |-> image \in retired,
                           result |-> "none"]
                 shown == [screens[d] EXCEPT !.looking = FALSE, !.pending = TRUE, !.raw = image,
                                               !.ignoring = TRUE]
      <3>1. asked \in RequestRow /\ shown \in ScreenRow
        <4>1. ASSUME NEW dead \in BOOLEAN
              PROVE  [op |-> "scan", step |-> "sent", by |-> d, at |-> screens[d].event,
                      of |-> image.of, image |-> image, dead |-> dead,
                      result |-> "none"] \in RequestRow
          BY <2>1 DEF RequestRow
        <4>2. (image \in retired) \in BOOLEAN
          OBVIOUS
        <4>3. asked \in RequestRow
          BY <4>1, <4>2, Zenon
        <4>4. shown \in ScreenRow
          BY <2>1 DEF ScreenRow
        <4> QED
          BY <4>3, <4>4
      <3>2. sent' \in 0 .. MaxSent
        BY <1>4, ScannerAssumption DEF Scan, Sends
      <3>3. requests' = [requests EXCEPT ![r] = asked] /\ screens' = [screens EXCEPT ![d] = shown]
        BY <1>4 DEF Scan, Sends
      <3> HIDE DEF asked, shown
      <3> QED
        BY <1>4, <3>1, <3>2, <3>3 DEF Scan
    <2>3. RequestsSound'
      BY <1>4, <2>1 DEF Scan, Sends, RequestsSound, Sound, Recorded
    <2>4. LookingAtEvent' /\ ScreensTellTheTruth'
      BY <1>4, <2>1 DEF Scan, Sends, ScreenRow, LookingAtEvent, ScreensTellTheTruth, Recorded
    <2> QED
      BY <1>4, <2>2, <2>3, <2>4 DEF Scan, Sends, RetiredIsPast, RetiredImagesStayDead
  <1>5. ASSUME NEW p \in People, NEW r \in Requests, Manual(d, r, p) PROVE Inv'
    <2>1. screens[d] \in ScreenRow /\ screens[d].event \in Events
      BY <1>5 DEF Manual, ScreenRow
    <2>2. ScannerTypeOK'
      <3> DEFINE asked == [op |-> "manual", step |-> "gate", by |-> d, at |-> screens[d].event,
                           of |-> p, image |-> None, dead |-> FALSE, result |-> "none"]
                 shown == [screens[d] EXCEPT !.pending = TRUE]
      <3>1. asked \in RequestRow /\ shown \in ScreenRow
        BY <2>1 DEF RequestRow, ScreenRow
      <3>2. sent' \in 0 .. MaxSent
        BY <1>5, ScannerAssumption DEF Manual, Sends
      <3>3. requests' = [requests EXCEPT ![r] = asked] /\ screens' = [screens EXCEPT ![d] = shown]
        BY <1>5 DEF Manual, Sends
      <3> HIDE DEF asked, shown
      <3> QED
        BY <1>5, <3>1, <3>2, <3>3 DEF Manual
    <2>3. RequestsSound'
      BY <1>5, <2>1 DEF Manual, Sends, RequestsSound, Sound, Recorded
    <2>4. LookingAtEvent' /\ ScreensTellTheTruth'
      BY <1>5, <2>1 DEF Manual, Sends, ScreenRow, LookingAtEvent, ScreensTellTheTruth, Recorded
    <2> QED
      BY <1>5, <2>2, <2>3, <2>4 DEF Manual, Sends, RetiredIsPast, RetiredImagesStayDead
  <1> QED
    BY <1>2, <1>3, <1>4, <1>5 DEF ScreenStep

\* The server's steps: no insertion but by an image that was alive when it was
\* sent, one record each, and no name without one.
LEMMA ServerInv == ASSUME NEW r \in Requests PROVE Inv /\ ServerStep(r) => Inv'
  <1> SUFFICES ASSUME Inv, ServerStep(r) PROVE Inv'
    OBVIOUS
  <1> USE DEF Inv, ScannerTypeOK
  <1> DEFINE q == requests[r]
  <1>1. q # None /\ q \in RequestRow /\ Sound(q)
    BY DEF ServerStep, PassValid, PassInvalid, Gate, GateClosed, Examine, Insert, InsertLoses,
           Arrives, Lost, At, RequestsSound
  <1>2. ASSUME NEW row \in RequestRow, requests' = [requests EXCEPT ![r] = row], Sound(row),
               UNCHANGED <<passVars, factVars, records, screens, sent>>
        PROVE  Inv'
    BY <1>2 DEF RetiredIsPast, LookingAtEvent, RequestsSound, Sound, Recorded,
                ScreensTellTheTruth, RetiredImagesStayDead
  <1>3. ASSUME NEW step \in {"gate", "look", "insert"}, Moves(r, step), ~q.dead PROVE Inv'
    <2>1. [q EXCEPT !.step = step] \in RequestRow
      BY <1>1 DEF RequestRow
    <2>2. Sound([q EXCEPT !.step = step])
      BY <1>1, <1>3 DEF Sound, RequestRow
    <2> QED
      BY <1>2, <1>3, <2>1, <2>2 DEF Moves
  <1>4. ASSUME NEW result \in Results, Refuses(r, result),
               result \in Naming => q.op # "create" /\ Recorded(q.of, q.at)
        PROVE  Inv'
    <2> DEFINE row == [q EXCEPT !.step = "answered", !.result = result]
    <2>1. row \in RequestRow
      BY <1>1 DEF RequestRow
    <2>2. Sound(row)
      BY <1>1, <1>4 DEF Sound, RequestRow
    <2>3. requests' = [requests EXCEPT ![r] = row]
      BY <1>4 DEF Refuses, Answers
    <2> QED
      BY <1>2, <1>4, <2>1, <2>2, <2>3 DEF Refuses
  <1>5. CASE PassValid(r)
    <2>1. ~q.dead
      BY <1>1, <1>5 DEF PassValid, Verifies, Sound, RetiredIsPast, At
    <2> QED
      BY <1>3, <1>5, <2>1 DEF PassValid
  <1>6. CASE PassInvalid(r) \/ GateClosed(r)
    BY <1>4, <1>6 DEF PassInvalid, GateClosed, Results, Naming
  <1>7. CASE Gate(r)
    <2>1. ~q.dead
      BY <1>1, <1>7 DEF Gate, Sound, At
    <2> QED
      BY <1>3, <1>7, <2>1 DEF Gate
  <1>8. CASE Examine(r)
    <2>1. ~q.dead /\ q.op # "create"
      BY <1>1, <1>8 DEF Examine, Sound, At
    <2>2. CASE Examined(r) = "insert"
      BY <1>3, <1>8, <2>1, <2>2 DEF Examine
    <2>3. CASE Examined(r) # "insert"
      <3>1. Examined(r) \in Results
        BY <2>3 DEF Examined, Missing, Results
      <3>2. Examined(r) \in Naming => Recorded(q.of, q.at)
        BY DEF Examined, Missing, Naming
      <3> QED
        BY <1>4, <1>8, <2>1, <2>3, <3>1, <3>2 DEF Examine
    <2> QED
      BY <2>2, <2>3
  <1>9. CASE InsertLoses(r)
    BY <1>4, <1>9 DEF InsertLoses, InsertSucceeds, At, Results
  <1>10. CASE Insert(r)
    <2> DEFINE p == q.of
               e == q.at
               row == [told |-> 1, revived |-> FALSE]
               answer == [q EXCEPT !.step = "answered", !.result = "CHECKED_IN"]
    <2>1. p \in People /\ e \in Events /\ ~q.dead /\ q.op # "create" /\ records[p][e] = NoRecord
      BY <1>1, <1>10 DEF Insert, InsertSucceeds, Recorded, Sound, At
    <2>2. records' = [records EXCEPT ![p][e] = row]
      <3>1. q.dead = FALSE
        BY <1>1, <2>1 DEF RequestRow
      <3>2. records[p][e].told + 1 = 1
        BY <2>1 DEF NoRecord
      <3> QED
        BY <1>10, <3>1, <3>2 DEF Insert
    <2>3. /\ requests' = [requests EXCEPT ![r] = answer]
          /\ UNCHANGED <<passVars, factVars, screens, sent>>
      BY <1>10 DEF Insert, Answers
    <2>4. \A p1 \in People, e1 \in Events :
             records'[p1][e1] = IF p1 = p /\ e1 = e THEN row ELSE records[p1][e1]
      BY <2>1, <2>2
    <2>5. \A p1 \in People, e1 \in Events : Recorded(p1, e1) => Recorded(p1, e1)'
      BY <2>4 DEF Recorded, NoRecord
    <2>6. records' \in [People -> [Events -> RecordRow]]
      BY <2>1, <2>2 DEF RecordRow
    <2>7. answer \in RequestRow
      BY <1>1 DEF RequestRow, Results
    <2>8. ScannerTypeOK'
      BY <2>3, <2>6, <2>7
    <2>9. RequestsSound'
      <3>1. Sound(answer)'
        BY <1>1, <2>1, <2>3, <2>4 DEF Sound, RequestRow, Recorded, NoRecord, Results
      <3>2. ASSUME NEW r1 \in Requests, r1 # r, requests[r1] # None PROVE Sound(requests[r1])'
        BY <2>3, <2>5, <3>2 DEF RequestsSound, Sound
      <3> QED
        BY <2>3, <3>1, <3>2 DEF RequestsSound
    <2>10. ScreensTellTheTruth'
      BY <2>3, <2>4, <2>5 DEF ScreensTellTheTruth, ScreenRow, Verdict
    <2>11. RetiredImagesStayDead'
      BY <2>4 DEF RetiredImagesStayDead
    <2> QED
      BY <2>3, <2>8, <2>9, <2>10, <2>11 DEF RetiredIsPast, LookingAtEvent
  <1>11. CASE Arrives(r)
    <2>1. /\ requests' = [requests EXCEPT ![r] = None]
          /\ UNCHANGED <<passVars, factVars, records, sent>>
      BY <1>11 DEF Arrives
    <2>2. RequestsSound'
      BY <2>1 DEF RequestsSound, Sound, Recorded
    <2>3. CASE q.by = None
      BY <1>11, <2>1, <2>2, <2>3 DEF Arrives, RetiredIsPast, LookingAtEvent, Recorded,
                                     ScreensTellTheTruth, RetiredImagesStayDead
    <2>4. CASE q.by # None
      <3> DEFINE d == q.by
                 v == IF q.result \in Naming
                      THEN [of |-> q.of, at |-> q.at] ELSE [of |-> None, at |-> None]
                 row == [screens[d] EXCEPT !.pending = FALSE, !.verdict = v]
      <3>1. d \in Devices /\ q.op # "create" /\ q.step = "answered"
        BY <1>1, <1>11, <2>4 DEF Arrives, RequestRow, At
      <3>2. screens' = [screens EXCEPT ![d] = row]
        BY <1>11, <2>4 DEF Arrives
      <3>3. v \in Verdict /\ (v.of # None => Recorded(v.of, v.at))
        BY <1>1, <3>1 DEF Verdict, Sound
      <3>4. row \in ScreenRow /\ row.verdict = v /\ row.event = screens[d].event
            /\ row.looking = screens[d].looking
        BY <3>1, <3>3 DEF ScreenRow
      <3>5. ScannerTypeOK' /\ LookingAtEvent'
        BY <2>1, <3>1, <3>2, <3>4 DEF LookingAtEvent
      <3>6. ScreensTellTheTruth'
        BY <2>1, <3>1, <3>2, <3>3, <3>4 DEF ScreensTellTheTruth, Recorded
      <3> QED
        BY <2>1, <2>2, <3>5, <3>6 DEF RetiredIsPast, RetiredImagesStayDead
    <2> QED
      BY <2>3, <2>4
  <1>12. CASE Lost(r)
    <2>1. /\ requests' = [requests EXCEPT ![r] = None]
          /\ UNCHANGED <<passVars, factVars, records, sent>>
      BY <1>12 DEF Lost
    <2>2. RequestsSound'
      BY <2>1 DEF RequestsSound, Sound, Recorded
    <2>3. CASE q.by = None
      BY <1>12, <2>1, <2>2, <2>3 DEF Lost, RetiredIsPast, LookingAtEvent, Recorded,
                                     ScreensTellTheTruth, RetiredImagesStayDead
    <2>4. CASE q.by # None
      <3> DEFINE d == q.by
                 row == [screens[d] EXCEPT !.pending = FALSE]
      <3>1. d \in Devices /\ screens' = [screens EXCEPT ![d] = row]
        BY <1>1, <1>12, <2>4 DEF Lost, RequestRow
      <3>2. row \in ScreenRow /\ row.verdict = screens[d].verdict /\ row.event = screens[d].event
            /\ row.looking = screens[d].looking
        BY <3>1 DEF ScreenRow
      <3>3. ScannerTypeOK' /\ LookingAtEvent'
        BY <2>1, <3>1, <3>2 DEF LookingAtEvent
      <3>4. ScreensTellTheTruth'
        BY <2>1, <3>1, <3>2 DEF ScreensTellTheTruth, Recorded
      <3> QED
        BY <2>1, <2>2, <3>3, <3>4 DEF RetiredIsPast, RetiredImagesStayDead
    <2> QED
      BY <2>3, <2>4
  <1> QED
    BY <1>5, <1>6, <1>7, <1>8, <1>9, <1>10, <1>11, <1>12 DEF ServerStep

\* Every step keeps the invariant.
LEMMA NextInv == Inv /\ [Next]_vars => Inv'
  <1> SUFFICES ASSUME Inv, [Next]_vars PROVE Inv'
    OBVIOUS
  <1>1. ASSUME NEW e \in Events, EventEnds(e) PROVE Inv'
    BY <1>1 DEF EventEnds, Inv, ScannerTypeOK, RetiredIsPast, LookingAtEvent, RequestsSound, Sound,
                Recorded, ScreensTellTheTruth, RetiredImagesStayDead
  <1>2. ASSUME NEW p \in People, Suspend(p) PROVE Inv'
    BY <1>2 DEF Suspend, Inv, ScannerTypeOK, RetiredIsPast, LookingAtEvent, RequestsSound, Sound,
                Recorded, ScreensTellTheTruth, RetiredImagesStayDead
  <1>3. CASE UNCHANGED vars
    BY <1>3 DEF Inv, ScannerTypeOK, RetiredIsPast, LookingAtEvent, RequestsSound, Sound,
                Recorded, ScreensTellTheTruth, RetiredImagesStayDead
  <1> QED
    BY <1>1, <1>2, <1>3, PassInv, ScreenInv, ServerInv DEF Next

\* Type correctness of the desk, for every instance.
THEOREM ScannerTypeCorrect == Spec => []ScannerTypeOK
  <1>1. Inv => ScannerTypeOK
    BY DEF Inv
  <1> QED
    BY InitInv, NextInv, <1>1, PTL DEF Spec

\* No screen names a person who has no record, and of any number of operators
\* only one is ever told that somebody was just let in.
THEOREM DeskTellsTheTruth == Spec => []ScreensTellTheTruth
  <1>1. Inv => ScreensTellTheTruth
    BY DEF Inv
  <1> QED
    BY InitInv, NextInv, <1>1, PTL DEF Spec

\* Whatever number of rotations the version field allows, no image lets anybody
\* in once it was sent after its retirement.
THEOREM RotationIsFinal == Spec => []RetiredImagesStayDead
  <1>1. Inv => RetiredImagesStayDead
    BY DEF Inv
  <1> QED
    BY InitInv, NextInv, <1>1, PTL DEF Spec
=============================================================================
