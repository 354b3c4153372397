------------------------------ MODULE Office ------------------------------
(***************************************************************************)
(* What an agent types in (src/modules/property, entries, party, agent):   *)
(* the property and the entries of one transaction, its parties and the    *)
(* agent's own profile.                                                    *)
(*                                                                         *)
(* Every request is two statements: the first finds out whether the caller *)
(* may, and what is there; the second writes or reads.  Nothing holds the  *)
(* two together.  A PUT carries the whole form, so a field it leaves out   *)
(* is cleared; a PATCH changes the fields it names.                        *)
(*                                                                         *)
(* A value is named after the request that gave it, a property row after   *)
(* the request that made it.  A definition commented "Mutant" is a         *)
(* plausible bug in the definition that follows it, not part of the model. *)
(***************************************************************************)
EXTENDS Naturals

CONSTANTS
  Requests,   \* calls of the routes under /api/transactions/:id and /api/agent/profile
  Parties,    \* TransactionParty rows that may come to exist
  Profile,    \* the agent's own row
  Fields,     \* fields of a form that may be left empty
  None        \* an empty field, no row, nothing read

ASSUME OfficeAssumption ==
  /\ Profile \notin Parties
  /\ None \notin Requests \cup Parties \cup {Profile}
  /\ None \notin [Fields -> Requests \cup {None}]

VARIABLES
  overlaps,   \* whether saves of the property may overlap; chosen at the start
  ask,        \* what each request asks for
  at,         \* where each request is
  saw,        \* the propertyId each request's first statement found
  link,       \* Transaction.propertyId
  property,   \* Property
  entries,    \* TransactionEntries: one row, or None
  sheet,      \* TransactionParty with its Party, and Agent: rows edited by PATCH
  state       \* of each such row: not there, live, or soft-deleted

officeVars == <<overlaps, ask, at, saw, link, property, entries, sheet, state>>

Sheets == Parties \cup {Profile}
Values == Requests \cup {None}
Forms == [Fields -> Values]

Saves == {"saveProperty", "saveEntries"}
Creates == {"createParty"}
Edits == {"editParty", "editProfile"}
Removes == {"removeParty"}
Ops == Saves \cup Creates \cup Edits \cup Removes

\* The fields the body names, those of them it clears, and whose sheet it is about.
Asks == {a \in [op : Ops, mine : BOOLEAN, names : SUBSET Fields, clears : SUBSET Fields,
                about : Sheets] :
           /\ a.clears \subseteq a.names
           /\ (a.about = Profile) <=> (a.op \in {"editProfile"} \cup Saves)
           /\ a.op \in Removes => a.names = {}
           /\ a.op = "editProfile" => a.mine}

OfficeTypeOK ==
  /\ overlaps \in BOOLEAN
  /\ ask \in [Requests -> Asks]
  /\ at \in [Requests -> {"idle", "act", "done", "refused", "stopped"}]
  /\ saw \in [Requests -> Values]
  /\ link \in Values
  /\ property \in [Requests -> Forms \cup {None}]
  /\ entries \in Forms \cup {None}
  /\ sheet \in [Sheets -> Forms]
  /\ state \in [Sheets -> {"absent", "live", "removed"}]

Blank == [f \in Fields |-> None]

\* The ids of new parties are fresh.
FreshIds ==
  \A q, r \in Requests :
    ask[q].op \in Creates /\ ask[r].op \in Creates /\ ask[q].about = ask[r].about => q = r

OfficeInit ==
  /\ overlaps \in BOOLEAN
  /\ ask \in [Requests -> Asks]
  /\ FreshIds
  /\ at = [r \in Requests |-> "idle"]
  /\ saw = [r \in Requests |-> None]
  /\ link = None
  /\ property = [r \in Requests |-> None]
  /\ entries = None
  /\ sheet = [s \in Sheets |-> Blank]
  /\ state = [s \in Sheets |->
                IF \E r \in Requests : ask[r].op \in Creates /\ ask[r].about = s
                THEN "absent" ELSE "live"]

-----------------------------------------------------------------------------
OfficeGoto(r, place) == at' = [at EXCEPT ![r] = place]

Running(r) == at[r] = "act"

\* toColumns, `?? null`: the whole form a request carries.
Form(r) == [f \in Fields |-> IF f \in ask[r].names \ ask[r].clears THEN r ELSE None]

\* Mutant: an absent field of a PATCH is normalised to null, as a PUT's is.
Patched_ClearsAbsent(r, row) == [f \in Fields |-> Form(r)[f]]

\* `undefined` is no change, `null` clears.
Patched(r, row) == [f \in Fields |-> IF f \in ask[r].names THEN Form(r)[f] ELSE row[f]]

Allowed(r) ==
  /\ ask[r].mine
  /\ ask[r].op \in {"editParty"} \cup Removes => state[ask[r].about] = "live"

\* ownedTransaction, ownedParty, brokerageExists: the caller is a filter on the query,
\* so somebody else's row, a removed one and one that never was answer alike.
Own(r) ==
  /\ at[r] = "idle"
  /\ ~overlaps /\ ask[r].op = "saveProperty" =>
       ~\E q \in Requests : Running(q) /\ ask[q].op = "saveProperty"
  /\ OfficeGoto(r, IF Allowed(r) THEN "act" ELSE "refused")
  /\ saw' = [saw EXCEPT ![r] = IF ask[r].mine /\ ask[r].op = "saveProperty" THEN link ELSE None]
  /\ UNCHANGED <<overlaps, ask, link, property, entries, sheet, state>>

-----------------------------------------------------------------------------
(* saveTransactionProperty *)

\* Mutant: every save makes a row and links it.
UpdateProperty_MakesARow(r) ==
  /\ Running(r) /\ ask[r].op = "saveProperty" /\ saw[r] # None
  /\ property' = [property EXCEPT ![r] = Form(r)]
  /\ link' = r
  /\ OfficeGoto(r, "done")
  /\ UNCHANGED <<overlaps, ask, saw, entries, sheet, state>>

UpdateProperty(r) ==
  /\ Running(r) /\ ask[r].op = "saveProperty" /\ saw[r] # None
  /\ property' = [property EXCEPT ![saw[r]] = Form(r)]
  /\ OfficeGoto(r, "done")
  /\ UNCHANGED <<overlaps, ask, saw, link, entries, sheet, state>>

\* The $transaction: the row and the link, whatever the link is by now.
CreateProperty(r) ==
  /\ Running(r) /\ ask[r].op = "saveProperty" /\ saw[r] = None
  /\ property' = [property EXCEPT ![r] = Form(r)]
  /\ link' = r
  /\ OfficeGoto(r, "done")
  /\ UNCHANGED <<overlaps, ask, saw, entries, sheet, state>>

\* saveTransactionEntries: an upsert on the unique transactionId.
SaveEntries(r) ==
  /\ Running(r) /\ ask[r].op = "saveEntries"
  /\ entries' = Form(r)
  /\ OfficeGoto(r, "done")
  /\ UNCHANGED <<overlaps, ask, saw, link, property, sheet, state>>

-----------------------------------------------------------------------------
(* createTransactionParty, updateTransactionParty, softDeleteTransactionParty, *)
(* updateProfile                                                               *)

CreateParty(r) ==
  /\ Running(r) /\ ask[r].op \in Creates
  /\ sheet' = [sheet EXCEPT ![ask[r].about] = Form(r)]
  /\ state' = [state EXCEPT ![ask[r].about] = "live"]
  /\ OfficeGoto(r, "done")
  /\ UNCHANGED <<overlaps, ask, saw, link, property, entries>>

\* Person and pairing in one $transaction, by id: a party removed since the
\* check is edited all the same, and stays removed.
Edit(r) ==
  /\ Running(r) /\ ask[r].op \in Edits
  /\ sheet' = [sheet EXCEPT ![ask[r].about] = Patched(r, @)]
  /\ OfficeGoto(r, "done")
  /\ UNCHANGED <<overlaps, ask, saw, link, property, entries, state>>

\* The pairing is stamped, the person left alone.
RemoveParty(r) ==
  /\ Running(r) /\ ask[r].op \in Removes
  /\ state' = [state EXCEPT ![ask[r].about] = "removed"]
  /\ OfficeGoto(r, "done")
  /\ UNCHANGED <<overlaps, ask, saw, link, property, entries, sheet>>

\* A request stops between its statements: a fault, a time-out, a crash.
StopRequest(r) ==
  /\ Running(r)
  /\ OfficeGoto(r, "stopped")
  /\ UNCHANGED <<overlaps, ask, saw, link, property, entries, sheet, state>>

OfficeNext ==
  \E r \in Requests : \/ Own(r) \/ UpdateProperty(r) \/ CreateProperty(r) \/ SaveEntries(r)
                      \/ CreateParty(r) \/ Edit(r) \/ RemoveParty(r) \/ StopRequest(r)

OfficeSpec == OfficeInit /\ [][OfficeNext]_officeVars

-----------------------------------------------------------------------------
(* The reads: getTransactionProperty, getTransactionEntries,               *)
(* listTransactionParties.  They change nothing, and show this.            *)

PropertyShown == IF link = None THEN None ELSE property[link]

\* A transaction nobody has answered for has empty entries, not none.
EntriesShown == IF entries = None THEN Blank ELSE entries

PartiesShown == {p \in Parties : state[p] = "live"}

\* What the agent reads back is what one save carried, whole, if any has succeeded:
\* overlapping saves never leave some fields of one and some of another, nor a field a
\* later save left out.  Saves of the property that do not overlap leave no row behind
\* that the transaction does not point to.
SavesAreWhole ==
  LET By(op) == {Form(r) : r \in {q \in Requests : at[q] = "done" /\ ask[q].op = op}}
  IN /\ PropertyShown \in IF By("saveProperty") = {} THEN {None} ELSE By("saveProperty")
     /\ EntriesShown \in IF By("saveEntries") = {} THEN {Blank} ELSE By("saveEntries")
     /\ ~overlaps => \A r \in Requests : property[r] # None => link = r

\* Edits of different fields both survive, whatever order their statements run in: a
\* field holds what some edit that named it gave it.  And a removal survives an edit
\* that was under way when the party was removed.
ChangesSurvive ==
  \A r \in Requests :
    /\ at[r] = "done" /\ ask[r].op \in Edits =>
         \A f \in ask[r].names :
           \E q \in Requests :
             /\ at[q] = "done" /\ ask[q].op \in Edits \cup Creates
             /\ ask[q].about = ask[r].about
             /\ f \in ask[q].names \/ ask[q].op \in Creates
             /\ sheet[ask[r].about][f] = Form(q)[f]
    /\ at[r] = "done" /\ ask[r].op \in Removes => state[ask[r].about] = "removed"
=============================================================================
