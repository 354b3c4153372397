-------------------------- MODULE FormFillProofs --------------------------
(***************************************************************************)
(* What FormFill keeps, for any number of fills and Sends.  Four of the    *)
(* properties say what schedule they need, and why is what their           *)
(* invariants, EditsWaitInv, FirstWaitsInv and BothWaitInv, spell out.     *)
(***************************************************************************)
EXTENDS FormFill, TLAPS

\* What an action of r does to the request record of r, and of nobody else.
LEMMA OnlyOwn ==
  ASSUME TypeOK, NEW r \in Requests,
         \/ Start(r) \/ ReadEntries(r) \/ ReadSnapshot(r) \/ Put(r) \/ Find(r) \/ Write(r)
         \/ RecordCheck(r) \/ Stop(r) \/ FindForm(r) \/ Upload(r) \/ Persist(r)
  PROVE  /\ req' = [req EXCEPT ![r] = req'[r]]
         /\ UNCHANGED <<kind, overlaps, entries, snapshot>>
BY DEF TypeOK, Start, ReadEntries, ReadSnapshot, Put, Find, Write, RecordCheck, Stop, FindForm,
       Upload, Persist, Goto

LEMMA MergedType == ASSUME TypeOK, NEW r \in Requests PROVE MergedOf(r) \in Merged
BY DEF TypeOK, RequestState, MergedOf, Merged

LEMMA InitTypeOK == Init => TypeOK
<1> SUFFICES ASSUME Init PROVE TypeOK
  OBVIOUS
<1>1. <<entries, snapshot>> \in Merged
  BY DEF Init, Merged
<1>2. req \in [Requests -> RequestState]
  BY DEF Init, RequestState, Ended
<1>3. /\ row \in [Requests -> Row]
      /\ check \in [Requests -> {"none", "passed", "failed"}]
      /\ object \in Drawing
      /\ contract \in [Requests -> Contract]
  BY <1>1 DEF Init, Row, Drawing, Contract
<1> QED
  BY <1>2, <1>3 DEF Init, TypeOK

LEMMA NextTypeOK == TypeOK /\ [Next]_vars => TypeOK'
<1> SUFFICES ASSUME TypeOK, [Next]_vars PROVE TypeOK'
  OBVIOUS
<1> USE DEF TypeOK
<1>1. ASSUME NEW r \in Requests,
             Start(r) \/ ReadEntries(r) \/ ReadSnapshot(r) \/ Find(r) \/ Stop(r)
      PROVE  TypeOK'
  <2>1. req'[r] \in RequestState
    BY <1>1
    DEF Start, ReadEntries, ReadSnapshot, Find, Stop, Goto, RequestState, Ended, Rows
  <2> QED
    BY <1>1, <2>1, OnlyOwn DEF Start, ReadEntries, ReadSnapshot, Find, Stop
<1>2. ASSUME NEW r \in Requests, Put(r) \/ Write(r) \/ RecordCheck(r) PROVE TypeOK'
  <2>1. MergedOf(r) \in Merged
    BY MergedType
  <2>2. req'[r] \in RequestState
    BY <1>2 DEF Put, Write, RecordCheck, Goto, Onward, RequestState, Ended
  <2>3. req' \in [Requests -> RequestState]
    BY <1>2, <2>2, OnlyOwn
  <2>4. CASE Put(r)
    BY <2>1, <2>3, <2>4, OnlyOwn DEF Put, Drawing
  <2>5. CASE Write(r)
    <3>1. req[r].row \in Requests \cup {None}
      BY DEF RequestState
    <3>2. ASSUME NEW x \in Requests, NEW b \in BOOLEAN,
                 row' = [row EXCEPT ![x] = [exists |-> TRUE, values |-> MergedOf(r), filled |-> b]]
          PROVE  row' \in [Requests -> Row]
      BY <2>1, <3>2 DEF Row
    <3>3. \A x \in Requests : row[x].filled \in BOOLEAN
      BY DEF Row
    <3>4. PICK x \in Requests :
            row' = [row EXCEPT ![x] = [exists |-> TRUE, values |-> MergedOf(r),
                                       filled |-> @.filled \/ req[r].phase = "act"]]
      BY <2>5, <3>1 DEF Write
    <3>5. row' \in [Requests -> Row]
      BY <3>2, <3>3, <3>4
    <3> QED
      BY <2>3, <2>5, <3>5, OnlyOwn DEF Write
  <2>6. CASE RecordCheck(r)
    BY <2>3, <2>6, OnlyOwn DEF RecordCheck
  <2> QED
    BY <1>2, <2>4, <2>5, <2>6
<1>3. ASSUME NEW r \in Requests, FindForm(r) \/ Upload(r) \/ Persist(r) PROVE TypeOK'
  <2>1. r \in Requests
    OBVIOUS
  <2>2. req' \in [Requests -> RequestState]
    <3>1. req'[r] \in RequestState
      BY <1>3, <2>1 DEF FindForm, Upload, Persist, Goto, RequestState, Ended, Rows
    <3> QED
      BY <1>3, <2>1, <3>1, OnlyOwn
  <2>3. CASE FindForm(r)
    BY <2>1, <2>2, <2>3, OnlyOwn DEF FindForm
  <2>4. CASE Upload(r)
    <3>1. [row |-> req[r].row, merged |-> object.merged, out |-> FALSE] \in Contract
      BY <2>1 DEF RequestState, Drawing, Contract
    <3> QED
      BY <2>1, <2>2, <2>4, <3>1, OnlyOwn DEF Upload
  <2>5. CASE Persist(r)
    <3>1. [contract[r] EXCEPT !.out = TRUE] \in Contract
      BY DEF Contract
    <3>2. contract' \in [Requests -> Contract]
      BY <2>5, <3>1 DEF Persist
    <3> QED
      BY <2>1, <2>2, <2>5, <3>2, OnlyOwn DEF Persist
  <2> QED
    BY <1>3, <2>3, <2>4, <2>5
<1>4. CASE Edit
  BY <1>4 DEF Edit
<1>5. CASE UNCHANGED vars
  BY <1>5 DEF vars
<1> QED
  BY <1>1, <1>2, <1>3, <1>4, <1>5 DEF Next

LEMMA InitIInv == Init => IInv
<1> SUFFICES ASSUME Init PROVE IInv
  OBVIOUS
<1>1. \A r \in Requests : req[r].pc = "idle" /\ req[r].phase = "gate" /\ ~row[r].filled
                         /\ check[r] = "none"
  BY DEF Init
<1>2. RequestsAreWhereTheySay
  BY <1>1 DEF RequestsAreWhereTheySay, IsWhereItSays
<1>3. \A r \in Requests : ~contract[r].out
  BY DEF Init
<1>4. OutHasAFilledRow /\ OneEnvelopePerRow
  BY <1>3 DEF OutHasAFilledRow, OneEnvelopePerRow
<1>5. FilledRowsExist /\ FilledHasADrawing
  BY <1>1 DEF Init, FilledRowsExist, FilledHasADrawing, Rows, Drawn
<1> QED
  BY <1>2, <1>4, <1>5 DEF IInv

\* Only r moves, and nothing that another request rests on changes.
LEMMA OthersStay ==
  ASSUME TypeOK, RequestsAreWhereTheySay, NEW r \in Requests,
         req' = [req EXCEPT ![r] = req'[r]],
         \A s \in Requests \ {r} :
           /\ check'[s] = check[s]
           /\ s \in Requests => contract'[s].row = contract[s].row,
         \A x \in Requests : row[x].filled => row'[x].filled,
         Drawn => Drawn',
         IsWhereItSays(r)'
  PROVE  RequestsAreWhereTheySay'
<1> SUFFICES ASSUME NEW s \in Requests, s # r PROVE IsWhereItSays(s)'
  BY DEF RequestsAreWhereTheySay
<1>1. req'[s] = req[s]
  BY DEF TypeOK
<1>2. req[s].row \in Requests \cup {None}
  BY DEF TypeOK, RequestState
<1>3. IsWhereItSays(s)
  BY DEF RequestsAreWhereTheySay
<1> QED
  BY <1>1, <1>2, <1>3 DEF IsWhereItSays

LEMMA NextIInv == TypeOK /\ IInv /\ [Next]_vars => IInv'
<1> SUFFICES ASSUME TypeOK, IInv, [Next]_vars PROVE IInv'
  OBVIOUS
<1> USE DEF IInv
<1>1. ASSUME NEW r \in Requests,
             Start(r) \/ ReadEntries(r) \/ ReadSnapshot(r) \/ Find(r) \/ Stop(r)
      PROVE  IInv'
  <2>1. UNCHANGED <<row, check, object, contract>>
    BY <1>1 DEF Start, ReadEntries, ReadSnapshot, Find, Stop
  <2>2. OutHasAFilledRow' /\ OneEnvelopePerRow' /\ FilledRowsExist' /\ FilledHasADrawing'
    BY <2>1
    DEF OutHasAFilledRow, OneEnvelopePerRow, FilledRowsExist, FilledHasADrawing, Rows, Drawn
  <2>3. IsWhereItSays(r)'
    BY <1>1, <2>1
    DEF TypeOK, RequestState, RequestsAreWhereTheySay, IsWhereItSays, Start, ReadEntries,
        ReadSnapshot, Find, Stop, Goto, Drawn, Ended
  <2>4. RequestsAreWhereTheySay'
    BY <1>1, <2>1, <2>3, OthersStay, OnlyOwn DEF Drawn
  <2> QED
    BY <2>2, <2>4
<1>2. ASSUME NEW r \in Requests, Put(r) PROVE IInv'
  <2>1. /\ UNCHANGED <<row, check, contract>>
        /\ object'.by = r
    BY <1>2 DEF Put
  <2>2. check[r] = "passed" /\ r # None
    BY <1>2, FormFillAssumption DEF Put, RequestsAreWhereTheySay, IsWhereItSays
  <2>3. OutHasAFilledRow' /\ OneEnvelopePerRow' /\ FilledRowsExist' /\ FilledHasADrawing'
    BY <2>1, <2>2
    DEF OutHasAFilledRow, OneEnvelopePerRow, FilledRowsExist, FilledHasADrawing, Rows, Drawn
  <2>4. IsWhereItSays(r)'
    BY <1>2, <2>1, <2>2
    DEF TypeOK, RequestState, RequestsAreWhereTheySay, IsWhereItSays, Put, Goto, Drawn
  <2>5. RequestsAreWhereTheySay'
    BY <1>2, <2>1, <2>2, <2>4, OthersStay, OnlyOwn DEF Drawn
  <2> QED
    BY <2>3, <2>5
<1>3. ASSUME NEW r \in Requests, Write(r) PROVE IInv'
  <2>1. req[r].row \in Requests \cup {None}
    BY DEF TypeOK, RequestState
  <2>2. PICK x \in Requests :
          row' = [row EXCEPT ![x] = [exists |-> TRUE, values |-> MergedOf(r),
                                     filled |-> @.filled \/ req[r].phase = "act"]]
    BY <1>3, <2>1 DEF Write
  <2>3. /\ \A y \in Requests \ {x} : row'[y] = row[y]
        /\ row'[x].exists
        /\ row'[x].filled <=> row[x].filled \/ req[r].phase = "act"
        /\ UNCHANGED <<check, object, contract>>
    <3>1. row[x].filled \in BOOLEAN
      BY DEF TypeOK, Row
    <3>2. row'[x] = [exists |-> TRUE, values |-> MergedOf(r),
                     filled |-> row[x].filled \/ req[r].phase = "act"]
      BY <2>2 DEF TypeOK
    <3>3. \A y \in Requests \ {x} : row'[y] = row[y]
      BY <2>2 DEF TypeOK
    <3>4. row'[x].exists
      BY <3>2
    <3>5. row'[x].filled = (row[x].filled \/ req[r].phase = "act")
      BY <3>2
    <3> QED
      BY <1>3, <3>3, <3>4, <3>5 DEF Write
  <2>4. \A y \in Requests : row[y].filled => row'[y].filled
    BY <2>3
  <2>5. OutHasAFilledRow' /\ OneEnvelopePerRow'
    <3>1. \A s \in Requests : contract[s].row \in Requests \cup {None}
      BY DEF TypeOK, Contract
    <3> QED
      BY <2>3, <2>4, <3>1 DEF OutHasAFilledRow, OneEnvelopePerRow
  <2>6. FilledRowsExist' /\ FilledHasADrawing'
    <3>1. req[r].phase = "act" => Drawn
      BY <1>3 DEF RequestsAreWhereTheySay, IsWhereItSays, Write
    <3> QED
      BY <2>3, <3>1 DEF FilledRowsExist, FilledHasADrawing, Rows, Drawn
  <2>7. IsWhereItSays(r)'
    BY <1>3, <2>3
    DEF TypeOK, RequestState, RequestsAreWhereTheySay, IsWhereItSays, Write, Goto
  <2>8. RequestsAreWhereTheySay'
    BY <1>3, <2>3, <2>4, <2>7, OthersStay, OnlyOwn DEF Drawn
  <2> QED
    BY <2>5, <2>6, <2>8
<1>4. ASSUME NEW r \in Requests, RecordCheck(r) PROVE IInv'
  <2>1. /\ UNCHANGED <<row, object, contract>>
        /\ \A s \in Requests \ {r} : check'[s] = check[s]
        /\ check[r] # "passed"
    BY <1>4 DEF TypeOK, RecordCheck, RequestsAreWhereTheySay, IsWhereItSays
  <2>2. \A s \in Requests : check[s] = "passed" => check'[s] = "passed"
    BY <2>1
  <2>3. OutHasAFilledRow' /\ OneEnvelopePerRow' /\ FilledRowsExist' /\ FilledHasADrawing'
    <3>1. object.by \in Requests \cup {None}
      BY DEF TypeOK, Drawing
    <3> QED
      BY <2>1, <2>2, <3>1
      DEF OutHasAFilledRow, OneEnvelopePerRow, FilledRowsExist, FilledHasADrawing, Rows, Drawn
  <2>4. IsWhereItSays(r)'
    BY <1>4, <2>1
    DEF TypeOK, RequestState, RequestsAreWhereTheySay, IsWhereItSays, RecordCheck, Goto,
        Onward
  <2>5. RequestsAreWhereTheySay'
    BY <1>4, <2>1, <2>4, OthersStay, OnlyOwn DEF Drawn
  <2> QED
    BY <2>3, <2>5
<1>5. ASSUME NEW r \in Requests, FindForm(r) PROVE IInv'
  <2>1. UNCHANGED <<row, check, object, contract>> /\ r \in Requests
    BY <1>5 DEF FindForm
  <2>2. OutHasAFilledRow' /\ OneEnvelopePerRow' /\ FilledRowsExist' /\ FilledHasADrawing'
    BY <2>1
    DEF OutHasAFilledRow, OneEnvelopePerRow, FilledRowsExist, FilledHasADrawing, Rows, Drawn
  <2>3. IsWhereItSays(r)'
    BY <1>5, <2>1, FormFillAssumption
    DEF TypeOK, RequestState, RequestsAreWhereTheySay, IsWhereItSays, FindForm, Goto, Rows
  <2>4. RequestsAreWhereTheySay'
    BY <1>5, <2>1, <2>3, OthersStay, OnlyOwn DEF Drawn
  <2> QED
    BY <2>2, <2>4
<1>6. ASSUME NEW r \in Requests, Upload(r) PROVE IInv'
  <2>1. UNCHANGED <<row, check, object>> /\ r \in Requests
    BY <1>6 DEF Upload
  <2>2. /\ contract'[r].row = req[r].row
        /\ ~contract'[r].out
        /\ \A s \in Requests \ {r} : contract'[s] = contract[s]
    BY <1>6 DEF TypeOK, Upload
  <2>3. OutHasAFilledRow' /\ OneEnvelopePerRow' /\ FilledRowsExist' /\ FilledHasADrawing'
    BY <2>1, <2>2
    DEF OutHasAFilledRow, OneEnvelopePerRow, FilledRowsExist, FilledHasADrawing, Rows, Drawn
  <2>4. IsWhereItSays(r)'
    BY <1>6, <2>1, <2>2
    DEF TypeOK, RequestState, RequestsAreWhereTheySay, IsWhereItSays, Upload, Goto
  <2>5. RequestsAreWhereTheySay'
    BY <1>6, <2>1, <2>2, <2>4, OthersStay, OnlyOwn DEF Drawn
  <2> QED
    BY <2>3, <2>5
<1>7. ASSUME NEW r \in Requests, Persist(r) PROVE IInv'
  <2>1. UNCHANGED <<row, check, object>> /\ r \in Requests
    BY <1>7 DEF Persist
  <2>2. /\ \A s \in Requests : contract'[s].row = contract[s].row
        /\ \A s \in Requests \ {r} : contract'[s] = contract[s]
        /\ contract'[r].out => contract[r].out \/ ~Held(req[r].row)
    <3>1. CASE Held(req[r].row)
      BY <1>7, <3>1 DEF Persist
    <3>2. CASE ~Held(req[r].row)
      <4>1. contract' = [contract EXCEPT ![r].out = TRUE]
        BY <1>7, <3>2 DEF Persist
      <4>2. [contract[r] EXCEPT !.out = TRUE].row = contract[r].row
        BY DEF TypeOK, Contract
      <4> QED
        BY <3>2, <4>1, <4>2 DEF TypeOK
    <3> QED
      BY <3>1, <3>2
  <2>3. /\ contract[r].row = req[r].row /\ req[r].row # None
        /\ row[req[r].row].filled /\ check[r] = "passed"
    BY <1>7, <2>1 DEF Persist, RequestsAreWhereTheySay, IsWhereItSays
  <2>4. OutHasAFilledRow'
    BY <2>1, <2>2, <2>3 DEF OutHasAFilledRow
  <2>5. OneEnvelopePerRow'
    BY <2>2, <2>3 DEF OneEnvelopePerRow, Held
  <2>6. FilledRowsExist' /\ FilledHasADrawing'
    BY <2>1 DEF FilledRowsExist, FilledHasADrawing, Rows, Drawn
  <2>7. IsWhereItSays(r)'
    BY <1>7, <2>1, <2>2
    DEF TypeOK, RequestState, RequestsAreWhereTheySay, IsWhereItSays, Persist, Goto
  <2>8. RequestsAreWhereTheySay'
    BY <1>7, <2>1, <2>2, <2>7, OthersStay, OnlyOwn DEF Drawn
  <2> QED
    BY <2>4, <2>5, <2>6, <2>8
<1>8. CASE Edit \/ UNCHANGED vars
  <2>1. UNCHANGED <<req, row, check, object, contract>>
    BY <1>8 DEF Edit, vars
  <2> QED
    BY <2>1
    DEF RequestsAreWhereTheySay, IsWhereItSays, OutHasAFilledRow, OneEnvelopePerRow,
        FilledRowsExist, FilledHasADrawing, Rows, Drawn
<1> QED
  BY <1>1, <1>2, <1>3, <1>4, <1>5, <1>6, <1>7, <1>8 DEF Next

\* TypeOK and IInv hold in every reachable state.
THEOREM FormFillInvariant == Spec => [](TypeOK /\ IInv)
BY InitTypeOK, InitIInv, NextTypeOK, NextIInv, PTL DEF Spec

\* Rows, requests and contracts keep their types, wherever requests stop.
THEOREM FormFillTyping == Spec => []TypeOK
BY FormFillInvariant, PTL

\* Wherever fills and Sends stop and however they interleave, a row that says
\* FILLED has a PDF under its key, and whoever drew that PDF passed the gate.
THEOREM Filled == Spec => []FilledHasADrawing
<1>1. IInv => FilledHasADrawing
  BY DEF IInv
<1> QED
  BY <1>1, FormFillInvariant, PTL

\* What is out for signature was drawn, and the Send that put it out passed the
\* gate.
THEOREM Sent == Spec => []SentWasDrawn
<1>1. TypeOK /\ IInv => SentWasDrawn
  <2> SUFFICES ASSUME TypeOK, IInv, NEW r \in Requests, contract[r].out
               PROVE  Drawn /\ check[r] = "passed" /\ row[contract[r].row].filled
    BY DEF SentWasDrawn
  <2>1. contract[r].row \in Requests /\ check[r] = "passed" /\ row[contract[r].row].filled
    BY DEF TypeOK, Contract, IInv, OutHasAFilledRow
  <2> QED
    BY <2>1 DEF IInv, FilledRowsExist, FilledHasADrawing, Rows
<1> QED
  BY <1>1, FormFillInvariant, PTL

\* What may overlap on this occasion is settled at the start.
LEMMA OverlapsStay == [Next]_vars => overlaps' = overlaps
BY DEF Next, vars, Start, ReadEntries, ReadSnapshot, Put, Find, Write, RecordCheck, FindForm,
       Upload, Persist, Stop, Edit

-----------------------------------------------------------------------------
(* Nothing is edited while a request is running. *)

LEMMA InitEditsWait == Init => HeldStill
<1> SUFFICES ASSUME Init PROVE HeldStill
  OBVIOUS
<1>1. \A r \in Requests : HasReadWhatIsSo(r)
  BY DEF Init, HasReadWhatIsSo, Running, Ended
<1>2. NothingIncomplete
  BY DEF Init, NothingIncomplete, Drawn
<1> QED
  BY <1>1, <1>2 DEF HeldStill

\* Only r moves, and neither the data nor another's contract changes.
LEMMA OthersHaveRead ==
  ASSUME TypeOK, IInv, HeldStill, NEW r \in Requests,
         req' = [req EXCEPT ![r] = req'[r]],
         UNCHANGED <<entries, snapshot>>,
         \A s \in Requests \ {r} : contract'[s] = contract[s],
         HasReadWhatIsSo(r)'
  PROVE  \A s \in Requests : HasReadWhatIsSo(s)'
<1> SUFFICES ASSUME NEW s \in Requests, s # r PROVE HasReadWhatIsSo(s)'
  OBVIOUS
<1>1. req'[s] = req[s] /\ HasReadWhatIsSo(s)
  BY DEF TypeOK, HeldStill
<1>2. req[s].pc = "persist" => contract'[s] = contract[s]
  BY DEF IInv, RequestsAreWhereTheySay, IsWhereItSays
<1> QED
  BY <1>1, <1>2 DEF HasReadWhatIsSo, Running

LEMMA NextEditsWait ==
  ASSUME "edit" \notin overlaps, TypeOK, IInv, HeldStill, [Next]_vars
  PROVE  HeldStill'
<1>1. ASSUME NEW r \in Requests,
             \/ Start(r) \/ ReadEntries(r) \/ ReadSnapshot(r) \/ Find(r) \/ Write(r)
             \/ RecordCheck(r) \/ Stop(r) \/ FindForm(r)
      PROVE  HeldStill'
  <2>1. UNCHANGED <<entries, snapshot, object, contract>>
    BY <1>1
    DEF Start, ReadEntries, ReadSnapshot, Find, Write, RecordCheck, Stop, FindForm
  <2>2. HasReadWhatIsSo(r)'
    BY <1>1, <2>1
    DEF TypeOK, RequestState, IInv, RequestsAreWhereTheySay, IsWhereItSays, HeldStill,
        HasReadWhatIsSo, Running, Ended, MergedOf, Start, ReadEntries, ReadSnapshot, Find,
        Write, RecordCheck, Stop, FindForm, Goto, Onward
  <2>3. NothingIncomplete'
    BY <2>1 DEF HeldStill, NothingIncomplete, Drawn
  <2> QED
    BY <1>1, <2>1, <2>2, <2>3, OnlyOwn, OthersHaveRead DEF HeldStill
<1>2. ASSUME NEW r \in Requests, Put(r) PROVE HeldStill'
  <2>1. UNCHANGED <<entries, snapshot, contract>>
    BY <1>2 DEF Put
  <2>2. object'.merged \in Complete
    BY <1>2
    DEF Put, MergedOf, HeldStill, HasReadWhatIsSo, Running, Ended, IInv,
        RequestsAreWhereTheySay, IsWhereItSays
  <2>3. NothingIncomplete'
    BY <2>1, <2>2 DEF HeldStill, NothingIncomplete
  <2>4. HasReadWhatIsSo(r)'
    BY <1>2, <2>1
    DEF TypeOK, RequestState, HeldStill, HasReadWhatIsSo, Running, Ended, Put, Goto
  <2> QED
    BY <1>2, <2>1, <2>3, <2>4, OnlyOwn, OthersHaveRead DEF HeldStill
<1>3. ASSUME NEW r \in Requests, Upload(r) PROVE HeldStill'
  <2>1. UNCHANGED <<entries, snapshot, object>> /\ r \in Requests
    BY <1>3 DEF Upload
  <2>2. object.merged \in Complete
    <3>1. row[req[r].row].filled /\ req[r].row \in Requests
      BY <1>3, <2>1
      DEF Upload, TypeOK, RequestState, IInv, RequestsAreWhereTheySay, IsWhereItSays
    <3> QED
      BY <3>1
      DEF IInv, FilledRowsExist, FilledHasADrawing, Rows, HeldStill, NothingIncomplete
  <2>3. /\ \A s \in Requests \ {r} : contract'[s] = contract[s]
        /\ contract'[r].merged = object.merged
        /\ ~contract'[r].out
    BY <1>3 DEF Upload, TypeOK
  <2>4. NothingIncomplete'
    BY <2>1, <2>3 DEF HeldStill, NothingIncomplete, Drawn
  <2>5. HasReadWhatIsSo(r)'
    BY <1>3, <2>1, <2>2, <2>3
    DEF TypeOK, RequestState, HeldStill, HasReadWhatIsSo, Running, Ended, Upload, Goto
  <2> QED
    BY <1>3, <2>1, <2>3, <2>4, <2>5, OnlyOwn, OthersHaveRead DEF HeldStill
<1>4. ASSUME NEW r \in Requests, Persist(r) PROVE HeldStill'
  <2>1. UNCHANGED <<entries, snapshot, object>> /\ r \in Requests
    BY <1>4 DEF Persist
  <2>2. contract[r].merged \in Complete
    BY <1>4, <2>1 DEF Persist, HeldStill, HasReadWhatIsSo
  <2>3. /\ \A s \in Requests \ {r} : contract'[s] = contract[s]
        /\ contract'[r].merged = contract[r].merged
    <3>1. CASE Held(req[r].row)
      BY <1>4, <3>1 DEF Persist
    <3>2. CASE ~Held(req[r].row)
      <4>1. contract' = [contract EXCEPT ![r].out = TRUE]
        BY <1>4, <3>2 DEF Persist
      <4>2. [contract[r] EXCEPT !.out = TRUE].merged = contract[r].merged
        BY DEF TypeOK, Contract
      <4> QED
        BY <4>1, <4>2 DEF TypeOK
    <3> QED
      BY <3>1, <3>2
  <2>4. NothingIncomplete'
    BY <2>1, <2>2, <2>3 DEF HeldStill, NothingIncomplete, Drawn
  <2>5. HasReadWhatIsSo(r)'
    BY <1>4, <2>1, <2>2, <2>3
    DEF TypeOK, RequestState, HeldStill, HasReadWhatIsSo, Running, Ended, Persist, Goto
  <2> QED
    BY <1>4, <2>1, <2>3, <2>4, <2>5, OnlyOwn, OthersHaveRead DEF HeldStill
<1>5. CASE Edit
  <2>1. UNCHANGED <<req, object, contract>> /\ \A r \in Requests : ~Running(r)
    BY <1>5 DEF Edit
  <2> QED
    BY <2>1
    DEF HeldStill, HasReadWhatIsSo, Running, Ended, NothingIncomplete, Drawn
<1>6. CASE UNCHANGED vars
  BY <1>6
  DEF vars, HeldStill, HasReadWhatIsSo, Running, NothingIncomplete, Drawn
<1> QED
  BY <1>1, <1>2, <1>3, <1>4, <1>5, <1>6 DEF Next

LEMMA EditsWait == Spec => []EditsWaitInv
<1>1. Init => EditsWaitInv
  BY InitEditsWait DEF EditsWaitInv
<1>2. TypeOK /\ IInv /\ EditsWaitInv /\ [Next]_vars => EditsWaitInv'
  BY OverlapsStay, NextEditsWait DEF EditsWaitInv
<1> QED
  BY <1>1, <1>2, FormFillInvariant, PTL DEF Spec

\* The gate keeps its promise (forms.controller.ts:81) as long as nothing is
\* edited between its read and the fill's: then nothing incomplete is ever drawn
\* or sent, however many fills and Sends run at once.
THEOREM GateHolds == Spec => []NothingIncompleteIsDrawn
<1>1. EditsWaitInv => NothingIncompleteIsDrawn
  BY DEF EditsWaitInv, HeldStill, NothingIncompleteIsDrawn
<1> QED
  BY <1>1, EditsWait, PTL

-----------------------------------------------------------------------------
(* The request that makes the first row runs alone until it has. *)

LEMMA InitFirstAlone == Init => FirstAlone
<1> SUFFICES ASSUME Init PROVE FirstAlone
  OBVIOUS
<1>1. \A r \in Requests : req[r].pc = "idle" /\ ~row[r].exists
  BY DEF Init
<1> QED
  BY <1>1 DEF FirstAlone, Running, Ended, Rows

\* What r writes: the row it found, or one of its own if there is none.
LEMMA WritesOne ==
  ASSUME TypeOK, FirstAlone, NEW r \in Requests, Write(r)
  PROVE  \E x \in Requests :
           /\ Rows \subseteq {x} /\ Rows' = {x}
           /\ row'[x].values = MergedOf(r)
<1>1. req[r].row \in Requests \cup {None}
  BY DEF TypeOK, RequestState
<1>2. PICK x \in Requests :
        /\ x = IF req[r].row = None THEN r ELSE req[r].row
        /\ row' = [row EXCEPT ![x] = [exists |-> TRUE, values |-> MergedOf(r),
                                     filled |-> @.filled \/ req[r].phase = "act"]]
  BY <1>1 DEF Write
<1>3. IF req[r].row = None THEN Rows = {} ELSE req[r].row \in Rows
  BY DEF FirstAlone, Write
<1>4. Rows \subseteq {x}
  BY <1>2, <1>3 DEF FirstAlone
<1>5. /\ \A y \in Requests \ {x} : row'[y] = row[y]
      /\ row'[x].exists /\ row'[x].values = MergedOf(r)
  BY <1>2 DEF TypeOK
<1>6. Rows' = {x}
  BY <1>4, <1>5 DEF Rows
<1> QED
  BY <1>4, <1>5, <1>6

LEMMA NextFirstAlone ==
  ASSUME "first" \notin overlaps, TypeOK, FirstAlone, [Next]_vars
  PROVE  FirstAlone'
<1>1. ASSUME NEW r \in Requests,
             \/ ReadEntries(r) \/ ReadSnapshot(r) \/ Put(r) \/ RecordCheck(r)
             \/ Stop(r) \/ FindForm(r) \/ Upload(r) \/ Persist(r) \/ Find(r)
      PROVE  FirstAlone'
  <2>1. row' = row /\ Running(r)
    BY <1>1
    DEF ReadEntries, ReadSnapshot, Put, RecordCheck, Stop, FindForm, Upload, Persist, Find,
        Running, Ended
  <2>2. \A q \in Requests \ {r} : req'[q] = req[q]
    BY <1>1, OnlyOwn DEF TypeOK
  <2>3. Rows' = {} => \A q, s \in Requests : Running(q)' /\ Running(s)' => q = s
    BY <2>1, <2>2 DEF FirstAlone, Rows, Running
  <2>4. req'[r].pc = "write" => IF req'[r].row = None THEN Rows = {} ELSE req'[r].row \in Rows
    BY <1>1, FormFillAssumption
    DEF TypeOK, RequestState, ReadEntries, ReadSnapshot, Put, RecordCheck, Stop, FindForm, Upload,
        Persist, Find, Goto, Onward, Rows
  <2> QED
    BY <2>1, <2>2, <2>3, <2>4 DEF FirstAlone, Rows
<1>2. ASSUME NEW r \in Requests, Start(r) PROVE FirstAlone'
  <2>1. row' = row /\ req'[r].pc = "entries"
    BY <1>2 DEF Start, Goto, TypeOK, RequestState
  <2>2. \A q \in Requests \ {r} : req'[q] = req[q]
    BY <1>2, OnlyOwn DEF TypeOK
  <2>3. Rows = {} => \A q \in Requests : ~Running(q)
    BY <1>2 DEF Start
  <2> QED
    BY <2>1, <2>2, <2>3 DEF FirstAlone, Rows, Running
<1>3. ASSUME NEW r \in Requests, Write(r) PROVE FirstAlone'
  <2>1. PICK x \in Requests : Rows \subseteq {x} /\ Rows' = {x}
    BY <1>3, WritesOne
  <2>2. req'[r].pc # "write"
    BY <1>3 DEF TypeOK, RequestState, Write, Goto
  <2>3. ASSUME NEW q \in Requests, q # r, req'[q].pc = "write"
        PROVE  req'[q].row \in Rows' /\ req'[q].row # None
    <3>1. req'[q] = req[q]
      BY <1>3, <2>3, OnlyOwn DEF TypeOK
    <3>2. Running(q) /\ Running(r)
      BY <1>3, <2>3, <3>1 DEF Running, Ended, Write
    <3>3. Rows # {}
      BY <2>3, <3>2 DEF FirstAlone
    <3>4. req[q].row \in Rows /\ req[q].row # None
      BY <2>3, <3>1, <3>3 DEF FirstAlone
    <3> QED
      BY <2>1, <3>1, <3>4
  <2> QED
    BY <2>1, <2>2, <2>3 DEF FirstAlone
<1>4. CASE Edit \/ UNCHANGED vars
  BY <1>4 DEF Edit, vars, FirstAlone, Running, Rows
<1> QED
  BY <1>1, <1>2, <1>3, <1>4 DEF Next

LEMMA FirstWaits == Spec => []FirstWaitsInv
<1>1. Init => FirstWaitsInv
  BY InitFirstAlone DEF FirstWaitsInv
<1>2. TypeOK /\ FirstWaitsInv /\ [Next]_vars => FirstWaitsInv'
  BY OverlapsStay, NextFirstAlone DEF FirstWaitsInv
<1> QED
  BY <1>1, <1>2, FormFillInvariant, PTL DEF Spec

\* A form has one row (compliance.service.ts:527), whatever overlaps and is edited later,
\* if the request that made it ran alone until it was there.
THEOREM OneRow == Spec => []OneRowPerForm
<1>1. FirstWaitsInv => OneRowPerForm
  BY DEF FirstWaitsInv, FirstAlone, OneRowPerForm
<1> QED
  BY <1>1, FirstWaits, PTL

\* Under the same condition a form has one contract out, however many Sends find its row
\* free at once: one row per form, and one contract per row.
THEOREM OneOut == Spec => []OneContractOut
<1>1. TypeOK /\ IInv /\ FirstWaitsInv => OneContractOut
  <2> SUFFICES ASSUME TypeOK, IInv, FirstAlone, NEW q \in Requests, NEW r \in Requests,
                      contract[q].out, contract[r].out
               PROVE  q = r
    BY DEF FirstWaitsInv, OneContractOut
  <2>1. contract[q].row \in Rows /\ contract[r].row \in Rows
    BY DEF TypeOK, Contract, IInv, OutHasAFilledRow, FilledRowsExist, Rows
  <2> QED
    BY <2>1 DEF FirstAlone, IInv, OneEnvelopePerRow
<1> QED
  BY <1>1, FirstWaits, FormFillInvariant, PTL

-----------------------------------------------------------------------------
(* Both wait. *)

\* While a request is at work the row says what is so from its gate's write on.
LEMMA NextDescribed ==
  ASSUME overlaps = {}, TypeOK, IInv, HeldStill, FirstAlone,
         \A r \in Requests : Described(r), [Next]_vars
  PROVE  \A r \in Requests : Described(r)'
<1>1. ASSUME NEW r \in Requests,
             \/ Start(r) \/ ReadEntries(r) \/ ReadSnapshot(r) \/ RecordCheck(r)
             \/ Stop(r) \/ FindForm(r) \/ Upload(r) \/ Persist(r) \/ Find(r)
      PROVE  \A s \in Requests : Described(s)'
  <2>1. UNCHANGED <<row, object, entries, snapshot>>
    BY <1>1
    DEF Start, ReadEntries, ReadSnapshot, RecordCheck, Stop, FindForm, Upload, Persist, Find
  <2>2. \A s \in Requests \ {r} : req'[s] = req[s]
    BY <1>1, OnlyOwn DEF TypeOK
  <2>3. /\ Running(r)' => (Running(r) \/ Start(r))
        /\ Running(r)' /\ (req'[r].phase = "act" \/ req'[r].pc = "check")
             => Running(r) /\ (req[r].phase = "act" \/ req[r].pc = "check")
    BY <1>1
    DEF TypeOK, RequestState, IInv, RequestsAreWhereTheySay, IsWhereItSays, Running, Ended, Start,
        ReadEntries, ReadSnapshot, RecordCheck, Stop, FindForm, Upload, Persist, Find, Goto, Onward
  <2>4. req'[r].phase = "act" /\ req'[r].pc \in {"find", "write"}
          => req[r].phase = "act" /\ req[r].pc \in {"find", "write"}
    BY <1>1
    DEF TypeOK, RequestState, Ended, Start, ReadEntries, ReadSnapshot, RecordCheck, Stop, FindForm,
        Upload, Persist, Find, Goto, Onward
  <2> QED
    BY <2>1, <2>2, <2>3, <2>4 DEF Described, Rows, Running
<1>2. ASSUME NEW r \in Requests, Put(r) PROVE \A s \in Requests : Described(s)'
  <2>1. UNCHANGED <<row, entries, snapshot>> /\ object'.merged = MergedOf(r)
    BY <1>2, OnlyOwn DEF Put
  <2>2. MergedOf(r) = <<entries, snapshot>>
    BY <1>2 DEF Put, HeldStill, HasReadWhatIsSo, MergedOf
  <2>3. \A s \in Requests \ {r} : req'[s] = req[s]
    BY <1>2, OnlyOwn DEF TypeOK
  <2>4. req[r].phase = "act" /\ Running(r)
    BY <1>2 DEF Put, IInv, RequestsAreWhereTheySay, IsWhereItSays, Running, Ended
  <2> QED
    BY <2>1, <2>2, <2>3, <2>4 DEF Described, Rows, Running
<1>3. ASSUME NEW r \in Requests, Write(r) PROVE \A s \in Requests : Described(s)'
  <2>1. PICK x \in Requests : Rows' = {x} /\ row'[x].values = MergedOf(r)
    BY <1>3, WritesOne
  <2>2. MergedOf(r) = <<entries, snapshot>>
    BY <1>3 DEF Write, HeldStill, HasReadWhatIsSo, MergedOf
  <2>3. UNCHANGED <<object, entries, snapshot>>
    BY <1>3 DEF Write
  <2>4. \A s \in Requests \ {r} : req'[s] = req[s]
    BY <1>3, OnlyOwn DEF TypeOK
  <2>5. req'[r].pc \notin {"find", "write"}
    BY <1>3 DEF TypeOK, RequestState, Write, Goto
  <2> QED
    BY <2>1, <2>2, <2>3, <2>4, <2>5 DEF Described
<1>4. CASE Edit
  <2>1. \A r \in Requests : ~Running(r) /\ req' = req
    BY <1>4 DEF Edit
  <2> QED
    BY <2>1 DEF Described, Running, Ended
<1>5. CASE UNCHANGED vars
  BY <1>5 DEF vars, Described, Running, Rows
<1> QED
  BY <1>1, <1>2, <1>3, <1>4, <1>5 DEF Next

LEMMA BothWait == Spec => []BothWaitInv
<1>1. Init => BothWaitInv
  BY DEF Init, BothWaitInv, Described, Running, Ended
<1>2. TypeOK /\ IInv /\ EditsWaitInv /\ FirstWaitsInv /\ BothWaitInv /\ [Next]_vars => BothWaitInv'
  BY OverlapsStay, NextDescribed DEF EditsWaitInv, FirstWaitsInv, BothWaitInv
<1> QED
  BY <1>1, <1>2, EditsWait, FirstWaits, FormFillInvariant, PTL DEF Spec

\* If nothing is edited while a request runs and the first row is made by one alone, then
\* when a fill has stored its PDF, and again when it has written its row, the row's values
\* are those of the drawing, whoever else fills, checks or sends meanwhile and wherever
\* they stop.
THEOREM Describe == Spec => FillsDescribeDrawings
<1>1. ASSUME overlaps = {}, TypeOK, IInv, HeldStill, FirstAlone, \A r \in Requests : Described(r),
             Next, NEW r \in Requests, Put(r) \/ (req[r].phase = "act" /\ Write(r)), NEW x \in Rows
      PROVE  row'[x].values = object'.merged
  <2>1. MergedOf(r) = <<entries, snapshot>>
    BY <1>1 DEF Put, Write, HeldStill, HasReadWhatIsSo, MergedOf
  <2>2. CASE Put(r)
    <3>1. Running(r) /\ req[r].phase = "act"
      BY <1>1, <2>2 DEF Put, IInv, RequestsAreWhereTheySay, IsWhereItSays, Running, Ended
    <3>2. row'[x].values = <<entries, snapshot>>
      BY <1>1, <2>2, <3>1 DEF Described, Put
    <3> QED
      BY <2>1, <2>2, <3>2 DEF Put
  <2>3. CASE req[r].phase = "act" /\ Write(r)
    <3>1. row'[x].values = MergedOf(r)
      BY <1>1, <2>3, WritesOne
    <3>2. object'.merged = <<entries, snapshot>>
      BY <1>1, <2>3 DEF Described, Write
    <3> QED
      BY <2>1, <3>1, <3>2
  <2> QED
    BY <1>1, <2>2, <2>3
<1>2. ASSUME Next, object' # object PROVE \E r \in Requests : Put(r)
  BY <1>2
  DEF Next, Start, ReadEntries, ReadSnapshot, Find, Write, RecordCheck, Stop, FindForm, Upload,
      Persist, Edit
<1>3. TypeOK /\ IInv /\ EditsWaitInv /\ FirstWaitsInv /\ BothWaitInv /\ [Next]_vars =>
        [overlaps = {} /\ (object' # object \/ \E r \in Requests : req[r].phase = "act" /\ Write(r))
           => \A x \in Rows : row'[x].values = object'.merged]_<<object, row>>
  BY <1>1, <1>2 DEF EditsWaitInv, FirstWaitsInv, BothWaitInv, vars
<1> QED
  BY <1>3, EditsWait, FirstWaits, BothWait, FormFillInvariant, PTL DEF Spec, FillsDescribeDrawings
=============================================================================
