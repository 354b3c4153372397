----------------------------- MODULE FormFill -----------------------------
(***************************************************************************)
(* One form of one transaction, from the gate to the contract              *)
(* (src/modules/forms, src/modules/compliance, src/modules/signing).       *)
(*                                                                         *)
(* A fill and a Send both start with the gate: read everything, evaluate,  *)
(* write what was read to the TransactionForm row, record the verdict.  A  *)
(* fill then reads everything again, draws it, stores the PDF under the    *)
(* form's one key and writes the row once more; a Send looks the row up    *)
(* and takes the PDF under the key to signNow.  Nothing is locked and no   *)
(* two of these steps share a database transaction.                        *)
(*                                                                         *)
(* What a form is filled from is two reads: the entries, and the snapshot  *)
(* (profile, property, parties).  A row is named after the request that    *)
(* created it.  What Signing says of a Send step by step (the vendor's     *)
(* document, the callbacks, the release of a form) is one step here.       *)
(*                                                                         *)
(* A definition commented "Mutant" is a plausible bug in the definition    *)
(* that follows it, not part of the model.                                 *)
(***************************************************************************)
EXTENDS Naturals, FiniteSets

CONSTANTS
  Requests,   \* calls of POST .../forms/:formCode/fill and POST .../signing
  Entries,    \* what the entries may be
  Snapshots,  \* what the profile, the property and the parties may be
  Complete,   \* the pairs evaluateCompliance passes
  None        \* no row

ASSUME FormFillAssumption ==
  /\ Complete \subseteq Entries \X Snapshots
  /\ None \notin Requests

VARIABLES
  kind,      \* what each request is
  overlaps,  \* "first": requests may run at once even before the form has a row;
             \* "edit": the data may be edited while a request is running
  entries,   \* TransactionEntries
  snapshot,  \* Agent, Property, TransactionParty
  req,       \* where each request is, what it read and the row it found
  row,       \* TransactionForm rows of this transaction and form
  check,     \* ComplianceCheck rows, one per request at most
  object,    \* S3: what the PDF under keys.filledForm shows, and who drew it
  contract   \* per Send: what the contract out for signature shows, and of which row

vars == <<kind, overlaps, entries, snapshot, req, row, check, object, contract>>

Merged == Entries \X Snapshots

Ended == {"idle", "done", "refused", "failed"}

RequestState ==
  [phase : {"gate", "act"},
   pc : Ended \cup {"entries", "snapshot", "put", "find", "write", "check",
                   "form", "upload", "persist"},
   entries : Entries, snapshot : Snapshots,
   row : Requests \cup {None}]

\* filled: the row has a filledS3Key and its status is FILLED.
Row == [exists : BOOLEAN, values : Merged, filled : BOOLEAN]

\* by = None: there is no PDF yet.
Drawing == [by : Requests \cup {None}, merged : Merged]

\* out: it has an envelope, holding activeFormId for its row.
Contract == [row : Requests \cup {None}, merged : Merged, out : BOOLEAN]

TypeOK ==
  /\ kind \in [Requests -> {"fill", "send"}]
  /\ overlaps \subseteq {"first", "edit"}
  /\ entries \in Entries
  /\ snapshot \in Snapshots
  /\ req \in [Requests -> RequestState]
  /\ row \in [Requests -> Row]
  /\ check \in [Requests -> {"none", "passed", "failed"}]
  /\ object \in Drawing
  /\ contract \in [Requests -> Contract]

Init ==
  /\ kind \in [Requests -> {"fill", "send"}]
  /\ overlaps \in SUBSET {"first", "edit"}
  /\ entries \in Entries
  /\ snapshot \in Snapshots
  /\ req = [r \in Requests |-> [phase |-> "gate", pc |-> "idle", entries |-> entries,
                                snapshot |-> snapshot, row |-> None]]
  /\ row = [r \in Requests |-> [exists |-> FALSE, values |-> <<entries, snapshot>>,
                                filled |-> FALSE]]
  /\ check = [r \in Requests |-> "none"]
  /\ object = [by |-> None, merged |-> <<entries, snapshot>>]
  /\ contract = [r \in Requests |-> [row |-> None, merged |-> <<entries, snapshot>>, out |-> FALSE]]

Running(r) == req[r].pc \notin Ended
Rows == {x \in Requests : row[x].exists}
MergedOf(r) == <<req[r].entries, req[r].snapshot>>
Goto(r, pc) == req' = [req EXCEPT ![r].pc = pc]

-----------------------------------------------------------------------------
(* postFill and postEnvelope: runComplianceGate, then fillTransactionForm or
   createEnvelopeForForm *)

Start(r) ==
  /\ req[r].pc = "idle"
  /\ "first" \in overlaps \/ Rows # {} \/ \A q \in Requests : ~Running(q)
  /\ Goto(r, "entries")
  /\ UNCHANGED <<kind, overlaps, entries, snapshot, row, check, object, contract>>

\* Mutant: the entries are not passed on, so they are as if never saved.
ReadEntries_Dropped(r) ==
  /\ req[r].pc = "entries"
  /\ req' = [req EXCEPT ![r].pc = "snapshot", ![r].entries = None]
  /\ UNCHANGED <<kind, overlaps, entries, snapshot, row, check, object, contract>>

\* loadEntryInput
ReadEntries(r) ==
  /\ req[r].pc = "entries"
  /\ req' = [req EXCEPT ![r].pc = "snapshot", ![r].entries = entries]
  /\ UNCHANGED <<kind, overlaps, entries, snapshot, row, check, object, contract>>

\* loadTransactionSnapshot, then evaluateCompliance or renderFilledForm.
ReadSnapshot(r) ==
  /\ req[r].pc = "snapshot"
  /\ req' = [req EXCEPT ![r].pc = IF req[r].phase = "gate" THEN "find" ELSE "put",
                          ![r].snapshot = snapshot]
  /\ UNCHANGED <<kind, overlaps, entries, snapshot, row, check, object, contract>>

\* Mutant: a failure to store the PDF is logged and the fill goes on.
Put_FailureIgnored(r) ==
  /\ req[r].pc = "put"
  /\ object' \in {object, [by |-> r, merged |-> MergedOf(r)]}
  /\ Goto(r, "find")
  /\ UNCHANGED <<kind, overlaps, entries, snapshot, row, check, contract>>

\* putObject, over whatever is under the key.
Put(r) ==
  /\ req[r].pc = "put"
  /\ object' = [by |-> r, merged |-> MergedOf(r)]
  /\ Goto(r, "find")
  /\ UNCHANGED <<kind, overlaps, entries, snapshot, row, check, contract>>

\* Mutant: only a filled row counts as the form's row.
Find_OnlyFilled(r) ==
  /\ req[r].pc = "find"
  /\ \E x \in IF \A q \in Rows : ~row[q].filled THEN {None}
              ELSE {q \in Rows : row[q].filled} :
       req' = [req EXCEPT ![r].pc = "write", ![r].row = x]
  /\ UNCHANGED <<kind, overlaps, entries, snapshot, row, check, object, contract>>

\* transactionForm.findFirst, in no particular order.
Find(r) ==
  /\ req[r].pc = "find"
  /\ \E x \in IF Rows = {} THEN {None} ELSE Rows :
       req' = [req EXCEPT ![r].pc = "write", ![r].row = x]
  /\ UNCHANGED <<kind, overlaps, entries, snapshot, row, check, object, contract>>

\* Mutant: a check leaves the values of a form that has a row alone.
Write_FillsOnly(r) ==
  /\ req[r].pc = "write"
  /\ LET x == IF req[r].row = None THEN r ELSE req[r].row IN
       row' = [row EXCEPT ![x] =
                [exists |-> TRUE, filled |-> @.filled \/ req[r].phase = "act",
                 values |-> IF @.exists /\ req[r].phase = "gate" THEN @.values ELSE MergedOf(r)]]
  /\ Goto(r, IF req[r].phase = "gate" THEN "check" ELSE "done")
  /\ UNCHANGED <<kind, overlaps, entries, snapshot, check, object, contract>>

\* Update the row that was found, or create one; the gate writes the values, the
\* fill also the key and FILLED.
Write(r) ==
  /\ req[r].pc = "write"
  /\ LET x == IF req[r].row = None THEN r ELSE req[r].row IN
       row' = [row EXCEPT ![x] = [exists |-> TRUE, values |-> MergedOf(r),
                                  filled |-> @.filled \/ req[r].phase = "act"]]
  /\ Goto(r, IF req[r].phase = "gate" THEN "check" ELSE "done")
  /\ UNCHANGED <<kind, overlaps, entries, snapshot, check, object, contract>>

\* Where the gate lets a request go on to.
Onward(r) == IF kind[r] = "fill" THEN "entries" ELSE "form"

\* Mutant: the verdict is recorded, but does not stop the request.
RecordCheck_Advisory(r) ==
  /\ req[r].pc = "check"
  /\ check' = [check EXCEPT ![r] = IF MergedOf(r) \in Complete THEN "passed" ELSE "failed"]
  /\ req' = [req EXCEPT ![r].phase = "act", ![r].pc = Onward(r)]
  /\ UNCHANGED <<kind, overlaps, entries, snapshot, row, object, contract>>

\* complianceCheck.create; a failed gate is a 422.
RecordCheck(r) ==
  /\ req[r].pc = "check"
  /\ IF MergedOf(r) \in Complete
     THEN /\ check' = [check EXCEPT ![r] = "passed"]
          /\ req' = [req EXCEPT ![r].phase = "act", ![r].pc = Onward(r)]
     ELSE /\ check' = [check EXCEPT ![r] = "failed"]
          /\ Goto(r, "refused")
  /\ UNCHANGED <<kind, overlaps, entries, snapshot, row, object, contract>>

\* An envelope holds the row.
Held(x) == \E q \in Requests : contract[q].out /\ contract[q].row = x

\* Mutant: a form is sent as soon as it has a row.
FindForm_Unfilled(r) ==
  /\ req[r].pc = "form"
  /\ \E x \in Rows :
       IF ~Held(x)
       THEN req' = [req EXCEPT ![r].pc = "upload", ![r].row = x]
       ELSE Goto(r, "refused")
  /\ UNCHANGED <<kind, overlaps, entries, snapshot, row, check, object, contract>>

\* transactionForm.findFirst again, and the envelope that holds the row.
FindForm(r) ==
  /\ req[r].pc = "form"
  /\ \E x \in Rows :
       IF row[x].filled /\ ~Held(x)
       THEN req' = [req EXCEPT ![r].pc = "upload", ![r].row = x]
       ELSE Goto(r, "refused")
  /\ UNCHANGED <<kind, overlaps, entries, snapshot, row, check, object, contract>>

\* getObjectBytes, and the document made from it.
Upload(r) ==
  /\ req[r].pc = "upload"
  /\ contract' = [contract EXCEPT ![r] = [row |-> req[r].row, merged |-> object.merged,
                                         out |-> FALSE]]
  /\ Goto(r, "persist")
  /\ UNCHANGED <<kind, overlaps, entries, snapshot, row, check, object>>

\* Mutant: no unique index on activeFormId.
Persist_NoUniqueIndex(r) ==
  /\ req[r].pc = "persist"
  /\ contract' = [contract EXCEPT ![r].out = TRUE]
  /\ Goto(r, "done")
  /\ UNCHANGED <<kind, overlaps, entries, snapshot, row, check, object>>

\* signingEnvelope.create, refused by the unique index on activeFormId.
Persist(r) ==
  /\ req[r].pc = "persist"
  /\ IF Held(req[r].row)
     THEN Goto(r, "refused") /\ UNCHANGED contract
     ELSE /\ contract' = [contract EXCEPT ![r].out = TRUE]
          /\ Goto(r, "done")
  /\ UNCHANGED <<kind, overlaps, entries, snapshot, row, check, object>>

\* A fault, a time-out or a crash ends the request where it is.
Stop(r) ==
  /\ Running(r)
  /\ Goto(r, "failed")
  /\ UNCHANGED <<kind, overlaps, entries, snapshot, row, check, object, contract>>

\* The agent saves entries, the property, the parties or the profile.
Edit ==
  /\ "edit" \in overlaps \/ \A r \in Requests : ~Running(r)
  /\ \E e \in Entries, p \in Snapshots :
       <<e, p>> # <<entries, snapshot>> /\ entries' = e /\ snapshot' = p
  /\ UNCHANGED <<kind, overlaps, req, row, check, object, contract>>

Next ==
  \/ \E r \in Requests :
       \/ Start(r) \/ ReadEntries(r) \/ ReadSnapshot(r) \/ Put(r) \/ Find(r) \/ Write(r)
       \/ RecordCheck(r) \/ FindForm(r) \/ Upload(r) \/ Persist(r) \/ Stop(r)
  \/ Edit

Spec == Init /\ [][Next]_vars

-----------------------------------------------------------------------------
Drawn == object.by # None

\* A form that says it is filled can be downloaded and sent, wherever the fill
\* that said so stopped: there is a PDF under its key, and whoever drew it has a
\* passed check on record.
FilledHasADrawing ==
  /\ \A x \in Rows : row[x].filled => Drawn
  /\ Drawn => check[object.by] = "passed"

\* What is out for signature was drawn, and its Send passed the gate too.
SentWasDrawn ==
  \A r \in Requests : contract[r].out => /\ Drawn /\ check[r] = "passed"
                                      /\ row[contract[r].row].filled

\* forms.controller.ts:81: "the fill only happens if" the gate passed, so nothing
\* incomplete is drawn, nor sent: true as long as nothing is edited while a request
\* is running, since the gate and the fill each read the data for themselves.
NothingIncomplete ==
  /\ Drawn => object.merged \in Complete
  /\ \A r \in Requests : contract[r].out => contract[r].merged \in Complete

NothingIncompleteIsDrawn == "edit" \notin overlaps => NothingIncomplete

\* compliance.service.ts:527: "One row per form per transaction, found and updated
\* rather than accumulated": true, whatever overlaps afterwards, as long as the request
\* that makes the first row runs alone until it is there.
OneRowPerForm == "first" \notin overlaps => \A x, y \in Rows : x = y

\* The same condition keeps a form to one contract out: the unique index refuses the
\* second Send of one row, however many found it free, and nobody makes another row.
OneContractOut ==
  "first" \notin overlaps => \A q, r \in Requests : contract[q].out /\ contract[r].out => q = r

\* The PDF that a fill stores, and the row that it writes, are each described by the
\* other when it has done so: a fill that stops in between, and two that store and write
\* in different orders, leave the row's values those of the drawing, because the gate of
\* each has written them before.  What makes them differ is a later check alone.
FillsDescribeDrawings ==
  [][overlaps = {} /\ (object' # object \/ \E r \in Requests : req[r].phase = "act" /\ Write(r))
       => \A x \in Rows : row'[x].values = object'.merged]_<<object, row>>

-----------------------------------------------------------------------------
(* What the comments claim and the code does not keep (see README). *)

\* fill.service.ts:441: "the compliance gate and the signing flow read what was
\* actually drawn", so what a Send sends is what its gate passed.
SentIsWhatWasChecked ==
  \A r \in Requests : contract[r].out => contract[r].merged = MergedOf(r)

-----------------------------------------------------------------------------
(* The inductive invariants the proofs in FormFillProofs rest on. *)

\* A row has at most one contract out, though two Sends find it free.
OneEnvelopePerRow ==
  \A q, r \in Requests :
    contract[q].out /\ contract[r].out /\ contract[q].row = contract[r].row => q = r

\* Where a request is says what it may do and what it has behind it.
IsWhereItSays(r) ==
  LET q == req[r] IN
    /\ q.phase = "act" <=> check[r] = "passed"
    /\ q.pc \in {"idle", "check"} => q.phase = "gate"
    /\ q.pc = "put" => q.phase = "act"
    /\ q.pc \in {"find", "write"} /\ q.phase = "act" => Drawn
    /\ q.pc \in {"form", "upload", "persist"} => q.phase = "act"
    /\ q.pc \in {"upload", "persist"} => q.row # None /\ row[q.row].filled
    /\ q.pc = "persist" => contract[r].row = q.row

RequestsAreWhereTheySay == \A r \in Requests : IsWhereItSays(r)

OutHasAFilledRow ==
  \A r \in Requests : contract[r].out =>
    /\ check[r] = "passed" /\ contract[r].row # None /\ row[contract[r].row].filled

FilledRowsExist == \A x \in Requests : row[x].filled => row[x].exists

IInv ==
  /\ RequestsAreWhereTheySay
  /\ OutHasAFilledRow
  /\ OneEnvelopePerRow
  /\ FilledRowsExist
  /\ FilledHasADrawing

\* While nothing is edited, what a running request has read is what is so, and
\* once past the gate it is complete.
HasReadWhatIsSo(r) ==
  LET q == req[r] IN
    /\ q.pc \in {"snapshot", "put", "find", "write", "check"} => q.entries = entries
    /\ q.pc \in {"put", "find", "write", "check"} => q.snapshot = snapshot
    /\ Running(r) /\ q.phase = "act" => <<entries, snapshot>> \in Complete
    /\ q.pc = "persist" => contract[r].merged \in Complete

HeldStill ==
  /\ \A r \in Requests : HasReadWhatIsSo(r)
  /\ NothingIncomplete

EditsWaitInv == "edit" \notin overlaps => HeldStill

\* While the request that makes the first row runs alone, the row one is about to write
\* is the only one.
FirstAlone ==
  /\ Rows = {} => \A q, r \in Requests : Running(q) /\ Running(r) => q = r
  /\ \A r \in Requests :
       req[r].pc = "write" =>
         IF req[r].row = None THEN Rows = {} ELSE req[r].row \in Rows
  /\ \A x, y \in Rows : x = y

FirstWaitsInv == "first" \notin overlaps => FirstAlone

\* While both wait: once a request's gate has written the row it says what is so, and once
\* a fill has drawn so does the drawing.
Described(r) ==
  /\ Running(r) /\ (req[r].phase = "act" \/ req[r].pc = "check")
       => \A x \in Rows : row[x].values = <<entries, snapshot>>
  /\ req[r].phase = "act" /\ req[r].pc \in {"find", "write"}
       => object.merged = <<entries, snapshot>>

BothWaitInv == overlaps = {} => \A r \in Requests : Described(r)
=============================================================================
