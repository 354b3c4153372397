----------------------------- MODULE DeskProofs -----------------------------
(***************************************************************************)
(* What Office, Readers and Dashboard keep, and that the composition of    *)
(* the desk implements each of its components.                             *)
(*                                                                         *)
(* Office, for any number of requests, parties and fields.                 *)
(*                                                                         *)
(* Readers, for every birth date that is a day, not only for those a model *)
(* is given.                                                               *)
(*                                                                         *)
(* Dashboard, for any checks, forms and deals: the checks have an order,   *)
(* and what the fold over them counts is what the first of a form's says.  *)
(***************************************************************************)
EXTENDS MCDesk, PaperProofs

-----------------------------------------------------------------------------
(* Office *)

LEMMA FormType == ASSUME OfficeTypeOK, NEW r \in Requests PROVE Form(r) \in Forms
BY DEF Form, Forms, Values

LEMMA AskType ==
  ASSUME OfficeTypeOK, NEW r \in Requests
  PROVE  /\ ask[r] \in Asks /\ ask[r].op \in Ops /\ ask[r].mine \in BOOLEAN /\ ask[r].names \subseteq Fields
         /\ ask[r].about \in Sheets
BY DEF OfficeTypeOK, Asks

LEMMA InitOfficeTypeOK == OfficeInit => OfficeTypeOK
BY DEF OfficeInit, OfficeTypeOK, Values, Blank, Forms

LEMMA NextOfficeTypeOK == OfficeTypeOK /\ [OfficeNext]_officeVars => OfficeTypeOK'
<1> SUFFICES ASSUME OfficeTypeOK, [OfficeNext]_officeVars PROVE OfficeTypeOK'
  OBVIOUS
<1> USE DEF OfficeTypeOK, OfficeGoto, Running
<1>1. ASSUME NEW r \in Requests, Own(r) PROVE OfficeTypeOK'
  BY <1>1 DEF Own, Values
<1>2. ASSUME NEW r \in Requests, UpdateProperty(r) \/ CreateProperty(r) PROVE OfficeTypeOK'
  BY <1>2, FormType DEF UpdateProperty, CreateProperty, Values
<1>3. ASSUME NEW r \in Requests, SaveEntries(r) \/ StopRequest(r) PROVE OfficeTypeOK'
  BY <1>3, FormType DEF SaveEntries, StopRequest
<1>4. ASSUME NEW r \in Requests, CreateParty(r) \/ RemoveParty(r) PROVE OfficeTypeOK'
  BY <1>4, FormType, AskType DEF CreateParty, RemoveParty
<1>5. ASSUME NEW r \in Requests, Edit(r) PROVE OfficeTypeOK'
  <2>1. \A row \in Forms : Patched(r, row) \in Forms
    BY FormType DEF Patched, Forms
  <2> QED
    BY <1>5, <2>1, AskType DEF Edit
<1>6. CASE UNCHANGED officeVars
  BY <1>6 DEF officeVars
<1> QED
  BY <1>1, <1>2, <1>3, <1>4, <1>5, <1>6 DEF OfficeNext

\* What was asked for stays, and what is done stays done.
LEMMA OfficeFixed ==
  ASSUME OfficeTypeOK, [OfficeNext]_officeVars
  PROVE  /\ ask' = ask /\ overlaps' = overlaps /\ \A r \in Requests : Form(r)' = Form(r)
         /\ \A r \in Requests : at[r] \notin {"idle", "act"} => at'[r] = at[r]
<1>1. ask' = ask /\ overlaps' = overlaps
  BY DEF OfficeNext, Own, UpdateProperty, CreateProperty, SaveEntries, CreateParty, Edit,
         RemoveParty, StopRequest, officeVars
<1>2. \A r \in Requests : at[r] \notin {"idle", "act"} => at'[r] = at[r]
  BY DEF OfficeNext, Own, UpdateProperty, CreateProperty, SaveEntries, CreateParty, Edit,
         RemoveParty, StopRequest, officeVars, OfficeGoto, Running, OfficeTypeOK
<1> QED
  BY <1>1, <1>2 DEF Form

-----------------------------------------------------------------------------
\* Every row of a property is some save's form, whole, and the one the transaction
\* points to is there; so are the entries.
RowsAreForms ==
  /\ \A p \in Requests : property[p] # None =>
       \E q \in Requests : at[q] = "done" /\ ask[q].op = "saveProperty" /\ property[p] = Form(q)
  /\ link # None => property[link] # None
  /\ \A r \in Requests :
       /\ saw[r] # None => property[saw[r]] # None
       /\ at[r] = "done" /\ ask[r].op = "saveProperty" => link # None
       /\ at[r] = "done" /\ ask[r].op = "saveEntries" => entries # None
  /\ entries # None =>
       \E q \in Requests : at[q] = "done" /\ ask[q].op = "saveEntries" /\ entries = Form(q)

\* One save of the property is at work, it has read the link there is, and no row is
\* left behind.
Saving(r) == Running(r) /\ ask[r].op = "saveProperty"
OneAtWork == \A q, r \in Requests : Saving(q) /\ Saving(r) => q = r
NoneLeftBehind ==
  \A r \in Requests :
    /\ Saving(r) => saw[r] = link
    /\ property[r] # None => link = r

\* So it is while saves of the property do not overlap.
OneSaver == ~overlaps => OneAtWork /\ NoneLeftBehind

LEMMA FormIsNotNone == ASSUME OfficeTypeOK, NEW r \in Requests PROVE Form(r) # None
BY FormType, OfficeAssumption DEF Forms, Values

LEMMA InitSaves == OfficeInit => RowsAreForms /\ OneSaver
<1> SUFFICES ASSUME OfficeInit PROVE RowsAreForms /\ OneSaver
  OBVIOUS
<1>1. /\ link = None /\ entries = None
      /\ \A r \in Requests : at[r] = "idle" /\ saw[r] = None /\ property[r] = None
  BY DEF OfficeInit
<1>2. RowsAreForms
  BY <1>1 DEF RowsAreForms
<1>3. OneAtWork /\ NoneLeftBehind
  BY <1>1 DEF OneAtWork, NoneLeftBehind, Saving, Running
<1> QED
  BY <1>2, <1>3 DEF OneSaver

\* Requests that do not save the property, or the entries, leave them alone.
LEMMA NextRowsAreForms ==
  OfficeTypeOK /\ RowsAreForms /\ [OfficeNext]_officeVars => RowsAreForms'
<1> SUFFICES ASSUME OfficeTypeOK, RowsAreForms, [OfficeNext]_officeVars PROVE RowsAreForms'
  OBVIOUS
<1>1. /\ ask' = ask /\ \A q \in Requests : Form(q)' = Form(q) /\ Form(q) # None
      /\ \A q \in Requests : at[q] = "done" => at'[q] = "done"
  BY OfficeFixed, FormIsNotNone
<1> USE DEF OfficeTypeOK, OfficeGoto, Running
<1>2. ASSUME NEW r \in Requests, Own(r) PROVE RowsAreForms'
  <2>1. /\ \A q \in Requests : at'[q] = "done" <=> at[q] = "done"
        /\ \A q \in Requests : saw'[q] = saw[q] \/ saw'[q] \in {None, link}
        /\ UNCHANGED <<link, property, entries>>
    BY <1>2 DEF Own
  <2> QED
    BY <1>1, <2>1 DEF RowsAreForms
<1>3. ASSUME NEW r \in Requests, UpdateProperty(r) PROVE RowsAreForms'
  <2>1. /\ saw[r] # None /\ saw[r] \in Requests /\ property' = [property EXCEPT ![saw[r]] = Form(r)]
        /\ at' = [at EXCEPT ![r] = "done"] /\ ask[r].op = "saveProperty"
        /\ UNCHANGED <<saw, link, entries>>
    BY <1>3 DEF UpdateProperty, Values
  <2>2. \A p \in Requests : property'[p] # None =>
          \E q \in Requests : at'[q] = "done" /\ ask[q].op = "saveProperty" /\ property'[p] = Form(q)
    BY <1>1, <2>1 DEF RowsAreForms
  <2>3. link # None
    BY <2>1 DEF RowsAreForms
  <2> QED
    BY <1>1, <2>1, <2>2 DEF RowsAreForms
<1>4. ASSUME NEW r \in Requests, CreateProperty(r) PROVE RowsAreForms'
  <2>1. /\ property' = [property EXCEPT ![r] = Form(r)] /\ link' = r
        /\ at' = [at EXCEPT ![r] = "done"] /\ ask[r].op = "saveProperty"
        /\ UNCHANGED <<saw, entries>>
    BY <1>4 DEF CreateProperty
  <2>2. \A p \in Requests : property'[p] # None =>
          \E q \in Requests : at'[q] = "done" /\ ask[q].op = "saveProperty" /\ property'[p] = Form(q)
    BY <1>1, <2>1 DEF RowsAreForms
  <2> QED
    BY <1>1, <2>1, <2>2, OfficeAssumption DEF RowsAreForms, Values
<1>5. ASSUME NEW r \in Requests, SaveEntries(r) PROVE RowsAreForms'
  BY <1>1, <1>5 DEF SaveEntries, RowsAreForms
<1>6. ASSUME NEW r \in Requests, CreateParty(r) \/ Edit(r) \/ RemoveParty(r) \/ StopRequest(r)
      PROVE  RowsAreForms'
  <2>1. /\ \A q \in Requests : at'[q] = "done" /\ ask[q].op \in Saves => at[q] = "done"
        /\ UNCHANGED <<saw, link, property, entries>>
    BY <1>6 DEF CreateParty, Edit, RemoveParty, StopRequest, Saves, Creates, Edits, Removes
  <2> QED
    BY <1>1, <2>1 DEF RowsAreForms, Saves
<1>7. CASE UNCHANGED officeVars
  BY <1>1, <1>7 DEF officeVars, RowsAreForms
<1> QED
  BY <1>2, <1>3, <1>4, <1>5, <1>6, <1>7 DEF OfficeNext

LEMMA NextOneSaver ==
  ASSUME OfficeTypeOK, RowsAreForms, OneSaver, [OfficeNext]_officeVars
  PROVE  OneSaver'
<1>1. ask' = ask /\ overlaps' = overlaps
  BY OfficeFixed
<1> SUFFICES ASSUME ~overlaps PROVE OneAtWork' /\ NoneLeftBehind'
  BY <1>1, Zenon DEF OneSaver
<1>0. OneAtWork /\ NoneLeftBehind
  BY Zenon DEF OneSaver
<1> USE DEF OneAtWork, NoneLeftBehind, Saving, Running
<1>2. ASSUME NEW r \in Requests, Own(r) PROVE OneAtWork' /\ NoneLeftBehind'
  <2>1. /\ \A q \in Requests \ {r} : at'[q] = at[q] /\ saw'[q] = saw[q]
        /\ UNCHANGED <<link, property>>
        /\ ask[r].op = "saveProperty" =>
             \A q \in Requests : ~(at[q] = "act" /\ ask[q].op = "saveProperty")
        /\ at'[r] = "act" /\ ask[r].op = "saveProperty" => saw'[r] = link
    BY <1>2 DEF Own, Allowed, OfficeGoto, OfficeTypeOK
  <2> QED
    BY <1>0, <1>1, <2>1
<1>3. ASSUME NEW r \in Requests, UpdateProperty(r) PROVE OneAtWork' /\ NoneLeftBehind'
  <2>1. saw[r] \in Requests /\ saw[r] = link
    BY <1>0, <1>3 DEF UpdateProperty, OfficeTypeOK, Values
  <2>2. /\ \A q \in Requests \ {saw[r]} : property'[q] = property[q]
        /\ \A q \in Requests : at'[q] = "act" => at[q] = "act"
        /\ UNCHANGED <<saw, link>>
    BY <1>3, <2>1 DEF UpdateProperty, OfficeGoto, OfficeTypeOK
  <2> QED
    BY <1>0, <1>1, <2>1, <2>2
<1>4. ASSUME NEW r \in Requests, CreateProperty(r) PROVE OneAtWork' /\ NoneLeftBehind'
  <2>1. link = None /\ \A q \in Requests : property[q] = None
    BY <1>0, <1>4, OfficeAssumption DEF CreateProperty
  <2>2. /\ \A q \in Requests \ {r} : at'[q] = at[q] /\ property'[q] = property[q]
        /\ at'[r] = "done" /\ link' = r /\ ask[r].op = "saveProperty" /\ at[r] = "act"
    BY <1>4 DEF CreateProperty, OfficeGoto, OfficeTypeOK
  <2>3. \A q \in Requests : ~(at'[q] = "act" /\ ask[q].op = "saveProperty")
    BY <1>0, <2>2
  <2> QED
    BY <1>1, <2>1, <2>2, <2>3
<1>5. ASSUME NEW r \in Requests,
             SaveEntries(r) \/ CreateParty(r) \/ Edit(r) \/ RemoveParty(r) \/ StopRequest(r)
      PROVE  OneAtWork' /\ NoneLeftBehind'
  <2>1. /\ \A q \in Requests : at'[q] = "act" => at[q] = "act"
        /\ UNCHANGED <<saw, link, property>>
    BY <1>5 DEF SaveEntries, CreateParty, Edit, RemoveParty, StopRequest, OfficeGoto, OfficeTypeOK
  <2> QED
    BY <1>0, <1>1, <2>1
<1>6. CASE UNCHANGED officeVars
  BY <1>0, <1>1, <1>6 DEF officeVars
<1> QED
  BY <1>2, <1>3, <1>4, <1>5, <1>6 DEF OfficeNext

\* The inductive invariant: types, and what the saves leave behind.
THEOREM OfficeInvariant == OfficeSpec => [](OfficeTypeOK /\ RowsAreForms /\ OneSaver)
<1>1. OfficeInit => OfficeTypeOK /\ RowsAreForms /\ OneSaver
  BY InitOfficeTypeOK, InitSaves
<1>2. OfficeTypeOK /\ RowsAreForms /\ OneSaver /\ [OfficeNext]_officeVars
        => (OfficeTypeOK /\ RowsAreForms /\ OneSaver)'
  BY NextOfficeTypeOK, NextRowsAreForms, NextOneSaver
<1> QED
  BY <1>1, <1>2, PTL DEF OfficeSpec

\* Whatever requests overlap, what the agent reads back is one save's form, whole.
THEOREM SavesStayWhole == OfficeSpec => []SavesAreWhole
<1>1. ASSUME OfficeTypeOK, RowsAreForms, OneSaver PROVE SavesAreWhole
  <2> DEFINE By(op) == {Form(r) : r \in {q \in Requests : at[q] = "done" /\ ask[q].op = op}}
  <2>1. PropertyShown \in IF By("saveProperty") = {} THEN {None} ELSE By("saveProperty")
    <3>1. CASE link = None
      <4>1. By("saveProperty") = {}
        BY <1>1, <3>1 DEF RowsAreForms
      <4> QED
        BY <3>1, <4>1 DEF PropertyShown
    <3>2. CASE link # None
      <4>1. link \in Requests /\ property[link] # None
        BY <1>1, <3>2 DEF RowsAreForms, OfficeTypeOK, Values
      <4>2. property[link] \in By("saveProperty")
        BY <1>1, <4>1 DEF RowsAreForms
      <4> QED
        BY <3>2, <4>2 DEF PropertyShown
    <3> QED
      BY <3>1, <3>2
  <2>2. EntriesShown \in IF By("saveEntries") = {} THEN {Blank} ELSE By("saveEntries")
    <3>1. CASE entries = None
      <4>1. By("saveEntries") = {}
        BY <1>1, <3>1 DEF RowsAreForms
      <4> QED
        BY <3>1, <4>1 DEF EntriesShown
    <3>2. CASE entries # None
      <4>1. entries \in By("saveEntries")
        BY <1>1, <3>2 DEF RowsAreForms
      <4> QED
        BY <3>2, <4>1 DEF EntriesShown
    <3> QED
      BY <3>1, <3>2
  <2>3. ~overlaps => \A r \in Requests : property[r] # None => link = r
    BY <1>1, Zenon DEF OneSaver, NoneLeftBehind
  <2> QED
    BY <2>1, <2>2, <2>3, Zenon DEF SavesAreWhole
<1> QED
  BY <1>1, OfficeInvariant, PTL
-----------------------------------------------------------------------------
\* An edit that is done shows: each field it named holds what some edit or the creation
\* gave it.
EditsShow ==
  \A r \in Requests :
    at[r] = "done" /\ ask[r].op \in Edits =>
      \A f \in ask[r].names :
        \E q \in Requests :
          /\ at[q] = "done" /\ ask[q].op \in Edits \cup Creates
          /\ ask[q].about = ask[r].about
          /\ f \in ask[q].names \/ ask[q].op \in Creates
          /\ sheet[ask[r].about][f] = Form(q)[f]

\* A party is not there before it is created, nobody removes one that is not, and one
\* removed stays removed.
RemovalsStay ==
  /\ FreshIds
  /\ \A r \in Requests :
       /\ ask[r].op \in Creates /\ at[r] # "done" => state[ask[r].about] = "absent"
       /\ ask[r].op \in Removes /\ at[r] = "act" => state[ask[r].about] # "absent"
       /\ ask[r].op \in Removes /\ at[r] = "done" => state[ask[r].about] = "removed"

LEMMA InitSurvive == OfficeInit => EditsShow /\ RemovalsStay
<1> SUFFICES ASSUME OfficeInit PROVE EditsShow /\ RemovalsStay
  OBVIOUS
<1>1. /\ FreshIds /\ ask \in [Requests -> Asks]
      /\ \A r \in Requests : at[r] = "idle" /\ ask[r].about \in Sheets
  BY DEF OfficeInit, Asks
<1>2. \A r \in Requests : ask[r].op \in Creates => state[ask[r].about] = "absent"
  BY <1>1 DEF OfficeInit
<1> QED
  BY <1>1, <1>2 DEF EditsShow, RemovalsStay

LEMMA NextEditsShow ==
  ASSUME OfficeTypeOK, EditsShow, [OfficeNext]_officeVars
  PROVE  EditsShow'
<1>1. /\ ask' = ask /\ \A q \in Requests : Form(q)' = Form(q)
      /\ \A q \in Requests : at[q] = "done" => at'[q] = "done"
  BY OfficeFixed
<1>2. \A q \in Requests : ask[q].about \in Sheets /\ ask[q].names \subseteq Fields
  BY AskType
<1>3. ASSUME UNCHANGED sheet, \A r \in Requests : at'[r] = "done" /\ ask[r].op \in Edits => at[r] = "done"
      PROVE  EditsShow'
  BY <1>1, <1>3 DEF EditsShow
<1>4. ASSUME NEW r \in Requests, Edit(r) PROVE EditsShow'
  <2> DEFINE s == ask[r].about
  <2>1. /\ at' = [at EXCEPT ![r] = "done"] /\ sheet' = [sheet EXCEPT ![s] = Patched(r, sheet[s])]
        /\ ask[r].op \in Edits
    BY <1>4 DEF Edit, OfficeGoto
  <2>2. \A q \in Requests \ {r} : at'[q] = at[q]
    BY <2>1 DEF OfficeTypeOK
  <2>3. at'[r] = "done"
    BY <2>1 DEF OfficeTypeOK
  <2>4. \A t \in Sheets, f \in Fields :
          sheet'[t][f] = IF t = s /\ f \in ask[r].names THEN Form(r)[f] ELSE sheet[t][f]
    BY <2>1 DEF OfficeTypeOK, Patched
  <2> SUFFICES ASSUME NEW q \in Requests, at'[q] = "done", ask[q].op \in Edits, NEW f \in ask[q].names
               PROVE  \E p \in Requests :
                        /\ at'[p] = "done" /\ ask[p].op \in Edits \cup Creates
                        /\ ask[p].about = ask[q].about
                        /\ f \in ask[p].names \/ ask[p].op \in Creates
                        /\ sheet'[ask[q].about][f] = Form(p)[f]
    BY <1>1 DEF EditsShow
  <2>5. CASE ask[q].about = s /\ f \in ask[r].names
    BY <1>2, <2>1, <2>3, <2>4, <2>5
  <2>6. CASE ~(ask[q].about = s /\ f \in ask[r].names)
    <3>1. q # r
      BY <2>6
    <3>2. at[q] = "done" /\ sheet'[ask[q].about][f] = sheet[ask[q].about][f]
      BY <1>2, <2>2, <2>4, <2>6, <3>1
    <3> QED
      BY <1>1, <3>2 DEF EditsShow
  <2> QED
    BY <2>5, <2>6
<1>5. ASSUME NEW r \in Requests, CreateParty(r) PROVE EditsShow'
  <2> DEFINE s == ask[r].about
  <2>1. /\ at' = [at EXCEPT ![r] = "done"] /\ sheet' = [sheet EXCEPT ![s] = Form(r)]
        /\ ask[r].op \in Creates
    BY <1>5 DEF CreateParty, OfficeGoto
  <2>2. at'[r] = "done" /\ \A q \in Requests \ {r} : at'[q] = at[q]
    BY <2>1 DEF OfficeTypeOK
  <2>3. sheet'[s] = Form(r) /\ \A t \in Sheets \ {s} : sheet'[t] = sheet[t]
    BY <1>2, <2>1 DEF OfficeTypeOK
  <2> SUFFICES ASSUME NEW q \in Requests, at'[q] = "done", ask[q].op \in Edits, NEW f \in ask[q].names
               PROVE  \E p \in Requests :
                        /\ at'[p] = "done" /\ ask[p].op \in Edits \cup Creates
                        /\ ask[p].about = ask[q].about
                        /\ f \in ask[p].names \/ ask[p].op \in Creates
                        /\ sheet'[ask[q].about][f] = Form(p)[f]
    BY <1>1 DEF EditsShow
  <2>4. CASE ask[q].about = s
    BY <2>1, <2>2, <2>3, <2>4
  <2>5. CASE ask[q].about # s
    <3>1. at[q] = "done" /\ sheet'[ask[q].about] = sheet[ask[q].about]
      BY <1>2, <2>1, <2>2, <2>3, <2>5 DEF Edits, Creates
    <3> QED
      BY <1>1, <3>1 DEF EditsShow
  <2> QED
    BY <2>4, <2>5
<1>6. ASSUME NEW r \in Requests, Own(r) \/ UpdateProperty(r) \/ CreateProperty(r) \/ SaveEntries(r)
                                 \/ RemoveParty(r) \/ StopRequest(r)
      PROVE  EditsShow'
  <2>1. /\ UNCHANGED sheet
        /\ \A q \in Requests : at'[q] = "done" /\ ask[q].op \in Edits => at[q] = "done"
    BY <1>6 DEF Own, UpdateProperty, CreateProperty, SaveEntries, RemoveParty, StopRequest,
                OfficeGoto, OfficeTypeOK, Edits, Removes
  <2> QED
    BY <1>3, <2>1
<1>7. CASE UNCHANGED officeVars
  BY <1>3, <1>7 DEF officeVars
<1> QED
  BY <1>4, <1>5, <1>6, <1>7 DEF OfficeNext

LEMMA NextRemovalsStay ==
  ASSUME OfficeTypeOK, RemovalsStay, [OfficeNext]_officeVars
  PROVE  RemovalsStay'
<1>1. ask' = ask /\ \A q \in Requests : at[q] = "done" => at'[q] = "done"
  BY OfficeFixed
<1>2. \A q \in Requests : ask[q].about \in Sheets
  BY AskType
<1>3. FreshIds'
  BY <1>1 DEF RemovalsStay, FreshIds
<1> USE DEF OfficeTypeOK
<1>4. ASSUME NEW r \in Requests, Own(r) PROVE RemovalsStay'
  <2>1. /\ UNCHANGED state /\ \A q \in Requests \ {r} : at'[q] = at[q]
        /\ at'[r] \in {"act", "refused"} /\ at[r] = "idle"
        /\ at'[r] = "act" /\ ask[r].op \in Removes => state[ask[r].about] = "live"
    BY <1>4 DEF Own, OfficeGoto, Allowed
  <2> QED
    BY <1>1, <1>3, <2>1 DEF RemovalsStay
<1>5. ASSUME NEW r \in Requests, CreateParty(r) PROVE RemovalsStay'
  <2>1. /\ at[r] = "act" /\ at'[r] = "done" /\ \A q \in Requests \ {r} : at'[q] = at[q]
        /\ ask[r].op \in Creates
    BY <1>5 DEF CreateParty, OfficeGoto, Running
  <2>2. state'[ask[r].about] = "live" /\ \A t \in Sheets \ {ask[r].about} : state'[t] = state[t]
    BY <1>2, <1>5 DEF CreateParty
  <2>3. state[ask[r].about] = "absent"
    BY <2>1 DEF RemovalsStay
  <2>4. \A q \in Requests \ {r} : ask[q].op \in Creates => ask[q].about # ask[r].about
    BY <2>1 DEF RemovalsStay, FreshIds
  <2> QED
    BY <1>1, <1>2, <1>3, <2>1, <2>2, <2>3, <2>4 DEF RemovalsStay, Creates, Removes
<1>6. ASSUME NEW r \in Requests, RemoveParty(r) PROVE RemovalsStay'
  <2>1. /\ at[r] = "act" /\ at'[r] = "done" /\ \A q \in Requests \ {r} : at'[q] = at[q]
        /\ ask[r].op \in Removes
    BY <1>6 DEF RemoveParty, OfficeGoto, Running
  <2>2. state'[ask[r].about] = "removed" /\ \A t \in Sheets \ {ask[r].about} : state'[t] = state[t]
    BY <1>2, <1>6 DEF RemoveParty
  <2>3. state[ask[r].about] # "absent"
    BY <2>1 DEF RemovalsStay
  <2> QED
    BY <1>1, <1>2, <1>3, <2>1, <2>2, <2>3 DEF RemovalsStay, Creates, Removes
<1>7. ASSUME NEW r \in Requests, UpdateProperty(r) \/ CreateProperty(r) \/ SaveEntries(r)
                                 \/ Edit(r) \/ StopRequest(r)
      PROVE  RemovalsStay'
  <2>1. /\ state' = state
        /\ \A q \in Requests : at'[q] = "act" => at[q] = "act"
        /\ \A q \in Requests : at'[q] = "done" /\ ask[q].op \in Removes => at[q] = "done"
    BY <1>7 DEF UpdateProperty, CreateProperty, SaveEntries, Edit, StopRequest, OfficeGoto,
                Edits, Removes
  <2> QED
    BY <1>1, <1>3, <2>1 DEF RemovalsStay
<1>8. CASE UNCHANGED officeVars
  BY <1>1, <1>3, <1>8 DEF officeVars, RemovalsStay
<1> QED
  BY <1>4, <1>5, <1>6, <1>7, <1>8 DEF OfficeNext

\* No edit that is done is lost to another, and no removal to an edit under way.
THEOREM Survive == OfficeSpec => []ChangesSurvive
<1>1. OfficeInit => OfficeTypeOK /\ EditsShow /\ RemovalsStay
  BY InitOfficeTypeOK, InitSurvive
<1>2. OfficeTypeOK /\ EditsShow /\ RemovalsStay /\ [OfficeNext]_officeVars
        => (OfficeTypeOK /\ EditsShow /\ RemovalsStay)'
  BY NextOfficeTypeOK, NextEditsShow, NextRemovalsStay
<1>3. EditsShow /\ RemovalsStay => ChangesSurvive
  BY DEF EditsShow, RemovalsStay, ChangesSurvive
<1> QED
  BY <1>1, <1>2, <1>3, PTL DEF OfficeSpec

-----------------------------------------------------------------------------
(* Readers *)

Days == [y : Int, m : Int, d : Int]

LEMMA DayBounds ==
  ASSUME NEW date \in Days, Valid(date)
  PROVE  date.y \in 1900..2100 /\ date.m \in 1..12 /\ date.d \in 1..31
<1>1. DaysIn(date.y, date.m) \in {28, 29, 30, 31}
  BY SMT DEF DaysIn
<1> QED
  BY <1>1, SMT DEF Valid, Days

LEMMA BirthIsADay == ASSUME NEW b \in Births PROVE b \in Days /\ Valid(b)
BY ReadersAssumption, SMT DEF Days

\* A day written in eight digits, either way, is read back.
LEMMA CanadianIsRead ==
  ASSUME NEW date \in Days, Valid(date)
  PROVE  AsCanadian(Digits(date, "CAN")) = date
<1> DEFINE y == date.y  m == date.m  d == date.d
           digits == y * 10000 + m * 100 + d
<1>1. y \in 0..9999 /\ m \in 0..99 /\ d \in 0..99
  BY DayBounds, SMT
<1>2. Digits(date, "CAN") = digits /\ date = [y |-> y, m |-> m, d |-> d]
  BY SMT DEF Digits, Days
<1> HIDE DEF y, m, d
<1>3. digits \div 10000 = y /\ (digits \div 100) % 100 = m /\ digits % 100 = d
  <2>1. digits \div 10000 = y
    BY <1>1, SMTT(60)
  <2>2. digits \div 100 = y * 100 + m
    BY <1>1, SMTT(60)
  <2>3. (y * 100 + m) % 100 = m
    BY <1>1, SMTT(60)
  <2>4. digits % 100 = d
    BY <1>1, SMTT(60)
  <2> QED
    BY <2>1, <2>2, <2>3, <2>4, SMT
<1> HIDE DEF digits
<1>4. AsCanadian(digits) = [y |-> y, m |-> m, d |-> d]
  BY <1>3, SMT DEF AsCanadian
<1> QED
  BY <1>2, <1>4, SMT

LEMMA AmericanIsRead ==
  ASSUME NEW date \in Days, Valid(date)
  PROVE  AsAmerican(Digits(date, "USA")) = date
<1> DEFINE y == date.y  m == date.m  d == date.d
           digits == m * 1000000 + d * 10000 + y
<1>1. y \in 0..9999 /\ m \in 0..99 /\ d \in 0..99
  BY DayBounds, SMT
<1>2. Digits(date, "USA") = digits /\ date = [y |-> y, m |-> m, d |-> d]
  BY SMT DEF Digits, Days
<1> HIDE DEF y, m, d
<1>3. digits \div 1000000 = m /\ (digits \div 10000) % 100 = d /\ digits % 10000 = y
  <2>1. digits \div 1000000 = m
    BY <1>1, SMTT(60)
  <2>2. (digits \div 10000) % 100 = d
    BY <1>1, SMTT(60)
  <2>3. digits % 10000 = y
    BY <1>1, SMTT(60)
  <2> QED
    BY <2>1, <2>2, <2>3, SMT
<1> HIDE DEF digits
<1>4. AsAmerican(digits) = [y |-> y, m |-> m, d |-> d]
  BY <1>3, SMT DEF AsAmerican
<1> QED
  BY <1>2, <1>4, SMT

LEMMA OnlyDayIs ==
  ASSUME NEW dates, NEW date, {read \in dates : Valid(read)} = {date}
  PROVE  OnlyDay(dates) = date
<1> DEFINE days == {d \in dates : Valid(d)}
<1>1. days = {date}
  OBVIOUS
<1> HIDE DEF days
<1>2. (IF \E d \in days : days = {d} THEN CHOOSE d \in days : TRUE ELSE Unread) = date
  BY <1>1
<1> QED
  BY <1>2 DEF days, OnlyDay

\* A barcode's date comes out as it went in, even when the barcode does not say whose order
\* its digits are in: a year that begins with 19, 20 or 21 is no month, and no month and
\* day are a year.
LEMMA ParsedIsRead ==
  ASSUME NEW date \in Days, Valid(date), NEW issuer \in {"CAN", "USA"}, NEW names \in {issuer, Unread}
  PROVE  ParseDate(Digits(date, issuer), names) = date
<1> DEFINE digits == Digits(date, issuer)  y == date.y  m == date.m  d == date.d
<1>0. y \in 1900..2100 /\ m \in 1..12 /\ d \in 1..31
  BY DayBounds, SMT
<1>1. CASE issuer = "CAN"
  <2>1. digits = y * 10000 + m * 100 + d
    BY <1>1, SMT DEF Digits
  <2> HIDE DEF digits, y, m, d
  <2>2. digits \div 1000000 >= 19
    BY <1>0, <2>1, SMTT(60)
  <2>3. ~Valid(AsAmerican(digits))
    BY <2>2, SMT DEF AsAmerican, Valid
  <2>4. AsCanadian(digits) = date
    BY <1>1, CanadianIsRead, SMT DEF digits
  <2>5. names = "CAN" \/ (names # "CAN" /\ names # "USA")
    BY <1>1, ReadersAssumption, SMT
  <2>6. PICK dates : dates = IF names = "CAN" THEN {AsCanadian(digits)}
                             ELSE IF names = "USA" THEN {AsAmerican(digits)}
                             ELSE {AsCanadian(digits), AsAmerican(digits)}
    OBVIOUS
  <2>7. {read \in dates : Valid(read)} = {date}
    BY <2>3, <2>4, <2>5, <2>6
  <2>8. ParseDate(digits, names) = date
    BY <2>6, <2>7, OnlyDayIs DEF ParseDate
  <2> QED
    BY <2>8 DEF digits
<1>2. CASE issuer = "USA"
  <2>1. digits = m * 1000000 + d * 10000 + y
    BY <1>2, SMT DEF Digits
  <2> HIDE DEF digits, y, m, d
  <2>2. digits \div 10000 < 1900
    BY <1>0, <2>1, SMTT(60)
  <2>3. ~Valid(AsCanadian(digits))
    BY <2>2, SMT DEF AsCanadian, Valid
  <2>4. AsAmerican(digits) = date
    BY <1>2, AmericanIsRead, SMT DEF digits
  <2>5. names = "USA" \/ (names # "CAN" /\ names # "USA")
    BY <1>2, ReadersAssumption, SMT
  <2>6. PICK dates : dates = IF names = "CAN" THEN {AsCanadian(digits)}
                             ELSE IF names = "USA" THEN {AsAmerican(digits)}
                             ELSE {AsCanadian(digits), AsAmerican(digits)}
    OBVIOUS
  <2>7. {read \in dates : Valid(read)} = {date}
    BY <2>3, <2>4, <2>5, <2>6
  <2>8. ParseDate(digits, names) = date
    BY <2>6, <2>7, OnlyDayIs DEF ParseDate
  <2> QED
    BY <2>8 DEF digits
<1> QED
  BY <1>1, <1>2

\* A printed date is taken when its year leads, as it was made out, and left when which
\* number is the month could be guessed at.
LEMMA PrintedOrLeft ==
  ASSUME NEW date \in Days, Valid(date),
         NEW style \in {"yearFirst", "misread", "monthFirst", "dayFirst"}
  PROVE  \/ PrintedDate(Printed(date, style)) \in {Unread, date}
         \/ style = "misread" /\ PrintedDate(Printed(date, style)) = Misread(date)
<1>1. date.y \in 1900..2100 /\ date.m \in 1..12 /\ date.d \in 1..31
  BY DayBounds, SMT
<1>2. CASE style = "yearFirst"
  <2>1. PrintedDate(<<date.y, date.m, date.d>>) = [y |-> date.y, m |-> date.m, d |-> date.d]
    BY <1>1, SMT DEF PrintedDate
  <2> QED
    BY <1>2, <2>1, SMT DEF Printed, Days
<1>3. CASE style = "monthFirst"
  BY <1>1, <1>3, SMT DEF Printed, PrintedDate
<1>4. CASE style = "dayFirst"
  BY <1>1, <1>4, SMT DEF Printed, PrintedDate
<1>5. CASE style = "misread"
  <2>1. Misread(date) = [y |-> date.y, m |-> 0, d |-> date.d]
    BY SMT DEF Misread, Days
  <2>2. PrintedDate(<<date.y, 0, date.d>>) = [y |-> date.y, m |-> 0, d |-> date.d]
    BY <1>1, SMT DEF PrintedDate
  <2> QED
    BY <1>5, <2>1, <2>2, SMT DEF Printed
<1> QED
  BY <1>2, <1>3, <1>4, <1>5, SMT

LEMMA LowestIsLowest ==
  ASSUME NEW S \in SUBSET (0..2), NEW s \in S
  PROVE  Lowest(S) <= s
<1>1. \E t \in S : \A u \in S : t <= u
  <2>1. CASE 0 \in S
    BY <2>1
  <2>2. CASE 0 \notin S /\ 1 \in S
    BY <2>2
  <2>3. CASE 0 \notin S /\ 1 \notin S
    BY <2>3
  <2> QED
    BY <2>1, <2>2, <2>3
<1> QED
  BY <1>1 DEF Lowest

-----------------------------------------------------------------------------
\* A reading is no surer than any field of it.
Graded(scan) == scan.kind = "read" /\ \A score \in scan.scores : scan.confidence <= score

\* What Textract made out of the print may not be a day.
MadeOut(birth) ==
  \/ birth \in {Unread, photo.card.birth}
  \/ photo.card.style = "misread" /\ birth = Misread(photo.card.birth)

LEMMA TextractTruth ==
  ASSUME photo \in Photos, photo.card # Unread, NEW reading \in Readings
  PROVE  Graded(TextractScan(reading)) /\ MadeOut(TextractScan(reading).birth)
<1>1. photo.card \in Cards
  BY DEF Photos
<1>2. /\ photo.card.birth \in Days /\ Valid(photo.card.birth)
      /\ photo.card.style \in {"yearFirst", "misread", "monthFirst", "dayFirst"}
  BY <1>1, BirthIsADay DEF Cards
<1>3. MadeOut(PrintedDate(Printed(photo.card.birth, photo.card.style)))
  BY <1>2, PrintedOrLeft DEF MadeOut
<1> DEFINE S == Scores(reading, Found(reading))
<1>4. S \in SUBSET (0..2)
  BY DEF Scores, Found
<1> HIDE DEF S
<1>5. \A s \in S : Lowest(S) <= s
  BY <1>4, LowestIsLowest
<1> QED
  BY <1>3, <1>5 DEF Graded, MadeOut, TextractScan, Scan, S

LEMMA AzureTruth ==
  ASSUME NEW reading \in Readings
  PROVE  Graded(AzureScan(reading)) /\ AzureScan(reading).birth \in {Unread, photo.card.birth}
<1> DEFINE Named == {f \in ScanFields : reading.score[f] # Unread}
           S == Scores(reading, Found(reading))
           T == Scores(reading, Named)
<1>1. T \in SUBSET (0..2)
  BY DEF Scores, Readings
<1>2. S \subseteq T
  BY ReadersAssumption DEF Scores, Found
<1> HIDE DEF S, T, Named
<1>3. \A s \in S : Lowest(T) <= s
  BY <1>1, <1>2, LowestIsLowest
<1>4. /\ AzureScan(reading).kind = "read"
      /\ AzureScan(reading).birth \in {Unread, photo.card.birth}
      /\ AzureScan(reading).scores = S /\ AzureScan(reading).confidence = Lowest(T)
  BY DEF AzureScan, Scan, S, T, Named
<1> QED
  BY <1>3, <1>4 DEF Graded

LEMMA BarcodeTruth ==
  ASSUME photo \in Photos, photo.card # Unread
  PROVE  Graded(BarcodeScan) /\ BarcodeScan.birth = photo.card.birth
<1>1. /\ photo.card \in Cards /\ photo.card.names \in {photo.card.issuer, Unread}
  BY DEF Photos
<1>2. /\ photo.card.birth \in Days /\ Valid(photo.card.birth)
      /\ photo.card.issuer \in {"CAN", "USA"}
  BY <1>1, BirthIsADay DEF Cards
<1>3. ParseDate(Digits(photo.card.birth, photo.card.issuer), photo.card.names) = photo.card.birth
  BY <1>1, <1>2, ParsedIsRead
<1> QED
  BY <1>3 DEF Graded, BarcodeScan, Scan

-----------------------------------------------------------------------------
\* The settings were accepted when the process started, what was photographed stays, and
\* Azure, which alone is polled, is sent no photograph it would turn down for its size.
Given ==
  /\ env \in Envs /\ Accepted(env) /\ photo \in Photos
  /\ env.ocr = "azure" /\ place = "ask" => ~photo.large
  /\ place = "poll" => env.ocr = "azure"

\* The inductive invariant is the property itself, beside what a scan is given.
THEOREM ReadersInvariant == ReadersSpec => [](Given /\ ScanAnswersAreTrue)
<1>1. ReadersInit => Given /\ ScanAnswersAreTrue
  BY DEF ReadersInit, Given, ScanAnswersAreTrue, Error
<1>2. ASSUME Given, ScanAnswersAreTrue, [ReadersNext]_readerVars
      PROVE  (Given /\ ScanAnswersAreTrue)'
  <2>1. UNCHANGED <<env, photo, refused>>
    BY <1>2 DEF ReadersNext, readerVars, Outage, Fetch, AskTextract, AskAzure, PollAzure,
                DecodeBarcode, ReadFixture, Proceed, Finish
  <2>2. Given'
    <3>1. /\ env'.ocr = "azure" /\ place' = "ask" => ~photo'.large
          /\ place' = "poll" => env'.ocr = "azure"
      BY <1>2, <2>1 DEF Given, ReadersNext, readerVars, Outage, Fetch, AskTextract, AskAzure, PollAzure,
                        DecodeBarcode, ReadFixture, Proceed, Finish
    <3> QED
      BY <1>2, <2>1, <3>1 DEF Given, Accepted
  <2> SUFFICES ScanAnswersAreTrue'
    BY <2>2
  <2>3. ASSUME UNCHANGED <<outage, answer>> PROVE ScanAnswersAreTrue'
    BY <1>2, <2>1, <2>3 DEF ScanAnswersAreTrue
  <2>4. ASSUME answer'.kind = "unreadable",
               photo.card = Unread \/ env.ocr = "barcode" \/ (env.ocr = "azure" /\ photo.large)
        PROVE  ScanAnswersAreTrue'
    BY <2>1, <2>4 DEF ScanAnswersAreTrue
  <2>5. ASSUME answer'.kind = "misconfigured", refused PROVE ScanAnswersAreTrue'
    BY <2>1, <2>5 DEF ScanAnswersAreTrue
  <2>6. ASSUME answer'.kind = "unavailable", outage' \/ photo.spoilt PROVE ScanAnswersAreTrue'
    BY <2>1, <2>6 DEF ScanAnswersAreTrue
  <2>7. ASSUME Graded(answer'), photo.card # Unread,
               \/ env.ocr = "textract" /\ MadeOut(answer'.birth)
               \/ env.ocr = "azure" /\ answer'.birth \in {Unread, photo.card.birth}
               \/ env.ocr = "barcode" /\ answer'.birth = photo.card.birth
        PROVE  ScanAnswersAreTrue'
    BY <2>1, <2>7 DEF ScanAnswersAreTrue, Graded, MadeOut
  <2>8. CASE Outage
    BY <2>6, <2>8 DEF Outage, Error
  <2>9. CASE Fetch
    BY <2>3, <2>4, <2>9 DEF Fetch, Finish, Proceed, Error
  <2>10. CASE AskTextract
    <3>1. CASE refused
      BY <2>5, <2>10, <3>1 DEF AskTextract, Finish, Error
    <3>2. CASE ~refused /\ photo.spoilt
      BY <2>6, <2>10, <3>2 DEF AskTextract, Finish, Error
    <3>3. CASE ~refused /\ ~photo.spoilt /\ photo.card = Unread
      BY <2>4, <2>10, <3>3 DEF AskTextract, Finish, Error
    <3>4. CASE ~refused /\ ~photo.spoilt /\ photo.card # Unread
      <4>1. env.ocr = "textract" /\ \E reading \in Readings : answer' = TextractScan(reading)
        BY <2>10, <3>4 DEF AskTextract, Finish
      <4> QED
        BY <1>2, <2>7, <3>4, <4>1, TextractTruth DEF Given
    <3> QED
      BY <3>1, <3>2, <3>3, <3>4
  <2>11. CASE AskAzure
    <3>1. CASE refused
      BY <2>5, <2>11, <3>1 DEF AskAzure, Finish, Error
    <3>2. CASE ~refused /\ photo.spoilt
      BY <2>6, <2>11, <3>2 DEF AskAzure, Finish, Error
    <3>3. CASE ~refused /\ ~photo.spoilt
      BY <1>2, <2>3, <2>11, <3>3 DEF AskAzure, Proceed, Given
    <3> QED
      BY <3>1, <3>2, <3>3
  <2>12. CASE PollAzure
    <3>1. CASE photo.card = Unread
      BY <2>4, <2>12, <3>1 DEF PollAzure, Finish, Error
    <3>2. CASE photo.card # Unread
      <4>1. env.ocr = "azure" /\ \E reading \in Readings : answer' = AzureScan(reading)
        BY <1>2, <2>12, <3>2 DEF PollAzure, Finish, Given
      <4> QED
        BY <2>7, <3>2, <4>1, AzureTruth
    <3> QED
      BY <3>1, <3>2
  <2>13. CASE DecodeBarcode
    <3>1. CASE answer' = BarcodeScan /\ photo.card # Unread
      BY <1>2, <2>7, <2>13, <3>1, BarcodeTruth DEF Given, DecodeBarcode
    <3>2. CASE ~(answer' = BarcodeScan /\ photo.card # Unread)
      BY <2>4, <2>13, <3>2 DEF DecodeBarcode, Finish, Error
    <3> QED
      BY <3>1, <3>2
  <2>14. CASE ReadFixture
    <3>1. env.ocr = "mock" /\ answer' = Fixture
      BY <2>14 DEF ReadFixture, Finish
    <3>2. ~env.production
      BY <1>2, <3>1 DEF Given, Accepted
    <3> QED
      BY <2>1, <3>1, <3>2 DEF ScanAnswersAreTrue, Fixture, Scan
  <2>15. CASE UNCHANGED readerVars
    BY <2>3, <2>15 DEF readerVars
  <2> QED
    BY <1>2, <2>8, <2>9, <2>10, <2>11, <2>12, <2>13, <2>14, <2>15 DEF ReadersNext
<1> QED
  BY <1>1, <1>2, PTL DEF ReadersSpec

\* Whatever day somebody was born on, whatever is photographed and however it is read,
\* what a scan answers is so.
THEOREM AnswersAreTrue == ReadersSpec => []ScanAnswersAreTrue
BY ReadersInvariant, PTL

\* What is answered without a reading.
PlainAnswers == {Error(k) : k \in {"unreadable", "unavailable", "misconfigured"}} \cup {Fixture}

\* What is answered out of a reading.
Scans ==
  {AzureScan(r) : r \in Readings} \cup {BarcodeScan}
    \cup (IF env.ocr = "textract" THEN {TextractScan(r) : r \in Readings} ELSE {})

\* A birth date that is answered is a day there was, or one Textract misread, and a score
\* that is answered is one.
Answered(result) ==
  /\ result.kind \in {"read", "unreadable", "unavailable", "misconfigured"}
  /\ \/ result.birth = Unread \/ Valid(result.birth)
     \/ env.ocr = "textract" /\ photo.card # Unread /\ result.birth = Misread(photo.card.birth)
  /\ result.scores \subseteq 1..100

LEMMA PlainAnswersAreTyped == \A result \in PlainAnswers : Answered(result)
<1>1. \A k : Error(k).kind = k /\ Error(k).birth = Unread /\ Error(k).scores = {}
  BY DEF Error
<1>2. Fixture.kind = "read" /\ Valid(Fixture.birth) /\ Fixture.scores = {98}
  BY DEF Fixture, Scan, Valid, DaysIn
<1> QED
  BY <1>1, <1>2 DEF Answered, PlainAnswers

LEMMA ScansAreTyped ==
  ASSUME photo \in Photos, photo.card # Unread, NEW result \in Scans
  PROVE  Answered(result)
<1>1. Valid(photo.card.birth)
  BY BirthIsADay DEF Photos, Cards
<1>2. /\ Graded(result)
      /\ \/ result.birth \in {Unread, photo.card.birth}
         \/ env.ocr = "textract" /\ result.birth = Misread(photo.card.birth)
  BY TextractTruth, AzureTruth, BarcodeTruth DEF Scans, MadeOut
<1>3. \A r \in Readings : Scores(r, Found(r)) \subseteq 1..2
  BY DEF Scores, Found
<1>4. \A r \in Readings : TextractScan(r).scores = Scores(r, Found(r)) /\ AzureScan(r).scores = Scores(r, Found(r))
  BY DEF TextractScan, AzureScan, Scan
<1>5. BarcodeScan.scores = {100}
  BY DEF BarcodeScan, Scan
<1>6. result.scores \subseteq 1..2 \/ result.scores = {100}
  BY <1>3, <1>4, <1>5 DEF Scans
<1>7. result.scores \subseteq 1..100
  BY <1>6
<1> QED
  BY <1>1, <1>2, <1>7 DEF Answered, Graded

\* The state of a scan has its type: a birth date handed on is a day of the calendar, or
\* what Textract misread.
THEOREM ReadersTyping == ReadersSpec => []ReadersTypeOK
<1>1. ASSUME ReadersInit PROVE ReadersTypeOK
  <2>1. answer.kind = "none" /\ answer.birth = Unread /\ answer.scores = {}
    BY <1>1 DEF ReadersInit, Error
  <2>2. env \in Envs /\ Accepted(env) /\ place \in {"fetch", "ask", "poll", "done"}
    BY <1>1 DEF ReadersInit
  <2> QED
    BY <1>1, <2>1, <2>2 DEF ReadersInit, ReadersTypeOK
<1>2. ASSUME Given, ReadersTypeOK, [ReadersNext]_readerVars PROVE ReadersTypeOK'
  <2>1. ASSUME NEW result, Finish(result), Answered(result) PROVE ReadersTypeOK'
    BY <1>2, <2>1 DEF Finish, Answered, ReadersTypeOK, Accepted
  <2>2. ASSUME NEW k \in {"unreadable", "unavailable", "misconfigured"}, Finish(Error(k))
        PROVE  ReadersTypeOK'
    BY <2>1, <2>2, PlainAnswersAreTyped DEF PlainAnswers
  <2>3. ASSUME NEW onto \in {"ask", "poll"}, Proceed(onto) PROVE ReadersTypeOK'
    BY <1>2, <2>3 DEF Proceed, ReadersTypeOK, Accepted
  <2>4. ASSUME NEW result \in Scans, Finish(result), photo.card # Unread PROVE ReadersTypeOK'
    BY <1>2, <2>1, <2>4, ScansAreTyped DEF Given
  <2>5. CASE Outage
    BY <1>2, <2>5 DEF Outage, Error, ReadersTypeOK, Accepted
  <2>6. CASE Fetch
    BY <2>2, <2>3, <2>6 DEF Fetch
  <2>7. CASE AskTextract
    BY <2>2, <2>4, <2>7 DEF AskTextract, Scans
  <2>8. CASE AskAzure
    BY <2>2, <2>3, <2>8 DEF AskAzure
  <2>9. CASE PollAzure
    BY <2>2, <2>4, <2>9 DEF PollAzure, Scans
  <2>10. CASE DecodeBarcode
    BY <2>2, <2>4, <2>10 DEF DecodeBarcode, Scans
  <2>11. CASE ReadFixture
    BY <2>1, <2>11, PlainAnswersAreTyped DEF ReadFixture, PlainAnswers
  <2>12. CASE UNCHANGED readerVars
    BY <1>2, <2>12 DEF readerVars, ReadersTypeOK, Accepted
  <2> QED
    BY <1>2, <2>5, <2>6, <2>7, <2>8, <2>9, <2>10, <2>11, <2>12 DEF ReadersNext
<1> QED
  BY <1>1, <1>2, ReadersInvariant, PTL DEF ReadersSpec

-----------------------------------------------------------------------------
(* Dashboard *)

\* The checks stored come with the times they were evaluated at, and no two of them at one.
StampInv ==
  /\ DashTypeOK
  /\ stored \in Seq(Checks)
  /\ \A c \in DOMAIN verdict : verdict[c].checkedAt < Cardinality(DOMAIN verdict)
  /\ \A b, c \in DOMAIN verdict : verdict[b].checkedAt = verdict[c].checkedAt => b = c

LEMMA InitStamp == DashInit => StampInv
BY FS_EmptySet DEF DashInit, StampInv, DashTypeOK, ToSet

LEMMA EvaluateKeeps == ASSUME StampInv, NEW c \in Checks, Evaluate(c) PROVE StampInv'
<1> DEFINE n == Cardinality(DOMAIN verdict)
<1>1. PICK p \in Papers, m \in 0..MaxFailures :
        verdict' = [x \in DOMAIN verdict \cup {c} |->
                      IF x = c THEN [of |-> p, failures |-> m, checkedAt |-> n] ELSE verdict[x]]
  BY DEF Evaluate
<1>2. c \notin DOMAIN verdict /\ stored' = stored /\ deal' = deal
  BY DEF Evaluate
<1>3. IsFiniteSet(DOMAIN verdict) /\ n \in Nat
  BY DashboardAssumption, FS_Subset, FS_CardinalityType DEF StampInv, DashTypeOK
<1>4. DOMAIN verdict' = DOMAIN verdict \cup {c} /\ Cardinality(DOMAIN verdict') = n + 1
  <2>1. DOMAIN verdict' = DOMAIN verdict \cup {c}
    BY <1>1
  <2> QED
    BY <1>2, <1>3, <2>1, FS_AddElement
<1>5. verdict'[c] = [of |-> p, failures |-> m, checkedAt |-> n]
      /\ \A x \in DOMAIN verdict : verdict'[x] = verdict[x]
  BY <1>1, <1>2
<1>6. \A x \in DOMAIN verdict : verdict[x] \in Verdict /\ verdict[x].checkedAt \in Nat /\ verdict[x].checkedAt < n
  BY DEF StampInv, DashTypeOK, Verdict
<1> HIDE DEF n
<1>7. verdict'[c] \in Verdict
  BY <1>3, <1>5 DEF Verdict
<1>8. DashTypeOK'
  BY <1>2, <1>4, <1>5, <1>6, <1>7 DEF StampInv, DashTypeOK
<1>9. \A x \in DOMAIN verdict' : verdict'[x].checkedAt < n + 1
  <2> TAKE x \in DOMAIN verdict'
  <2>1. CASE x = c
    BY <1>3, <1>5, <2>1
  <2>2. CASE x \in DOMAIN verdict
    BY <1>3, <1>5, <1>6, <2>2
  <2> QED
    BY <1>4, <2>1, <2>2
<1>10. ASSUME NEW a \in DOMAIN verdict', NEW b \in DOMAIN verdict',
              verdict'[a].checkedAt = verdict'[b].checkedAt
       PROVE  a = b
  <2>1. verdict'[c].checkedAt = n /\ \A x \in DOMAIN verdict : verdict'[x].checkedAt # n
    BY <1>3, <1>5, <1>6
  <2>2. CASE a = c \/ b = c
    BY <1>4, <1>10, <2>1, <2>2
  <2>3. CASE a # c /\ b # c
    BY <1>4, <1>5, <1>10, <2>3 DEF StampInv
  <2> QED
    BY <2>2, <2>3
<1> QED
  BY <1>2, <1>4, <1>8, <1>9, <1>10 DEF StampInv

LEMMA NextStamp == StampInv /\ [DashNext]_dashVars => StampInv'
<1> SUFFICES ASSUME StampInv, [DashNext]_dashVars PROVE StampInv'
  OBVIOUS
<1>1. ASSUME NEW c \in Checks, Insert(c) PROVE StampInv'
  <2>1. verdict' = verdict /\ deal' = deal /\ stored' = Append(stored, c) /\ c \in DOMAIN verdict
    BY <1>1 DEF Insert
  <2>2. stored' \in Seq(Checks) /\ ToSet(stored') \subseteq DOMAIN verdict
    BY <2>1 DEF StampInv, DashTypeOK, ToSet
  <2> QED
    BY <2>1, <2>2 DEF StampInv, DashTypeOK
<1>2. CASE UNCHANGED dashVars
  BY <1>2 DEF dashVars, StampInv, DashTypeOK, ToSet
<1> QED
  BY <1>1, <1>2, EvaluateKeeps DEF DashNext

-----------------------------------------------------------------------------
\* Rows evaluated at different times can be put in the order of those times.
LEMMA NewestFirstIs ==
  ASSUME StampInv
  PROVE  /\ IsFiniteSet(ToSet(stored)) /\ Cardinality(ToSet(stored)) \in Nat
         /\ NewestFirst \in Surjection(1..Cardinality(ToSet(stored)), ToSet(stored))
         /\ \A i, j \in 1..Cardinality(ToSet(stored)) :
              i < j => verdict[NewestFirst[i]].checkedAt > verdict[NewestFirst[j]].checkedAt
<1> DEFINE T == ToSet(stored)
           n == Cardinality(T)
           stamp(p) == verdict[p].checkedAt
           before == {pair \in T \X T : stamp(pair[1]) > stamp(pair[2])}
           rank == [p \in T |-> Cardinality({q \in T : <<q, p>> \in before}) + 1]
           s == [i \in 1..n |-> CHOOSE p \in T : rank[p] = i]
           Sorted(r) == \A i, j \in DOMAIN r : i < j => stamp(r[i]) > stamp(r[j])
<1>1. IsFiniteSet(T) /\ n \in Nat
  BY DashboardAssumption, FS_Subset, FS_CardinalityType DEF StampInv, DashTypeOK
<1>2. /\ \A p \in T : stamp(p) \in Nat
      /\ \A p, q \in T : stamp(p) = stamp(q) => p = q
  BY DEF StampInv, DashTypeOK, Verdict
<1>3. \A p, q \in T : <<p, q>> \in before <=> stamp(p) > stamp(q)
  OBVIOUS
<1>4. /\ rank \in Injection(T, 1..n) /\ rank \in Surjection(T, 1..n)
      /\ \A p, q \in T : <<p, q>> \in before <=> rank[p] < rank[q]
  <2>1. \A p \in T : <<p, p>> \notin before
    BY <1>2, <1>3
  <2>2. \A p, q \in T : p # q => <<p, q>> \in before \/ <<q, p>> \in before
    BY <1>2, <1>3
  <2>3. \A p, q, r \in T : <<p, q>> \in before /\ <<q, r>> \in before => <<p, r>> \in before
    BY <1>2, <1>3
  <2> HIDE DEF T, before
  <2> QED
    BY <1>1, <2>1, <2>2, <2>3, RankIs
<1> HIDE DEF T, before, rank, stamp
<1>5. \A i \in 1..n : s[i] \in T /\ rank[s[i]] = i
  <2> TAKE i \in 1..n
  <2>1. \E p \in T : rank[p] = i
    BY <1>4 DEF Surjection
  <2> QED
    BY <2>1
<1>6. s \in [1..n -> T] /\ DOMAIN s = 1..n
  BY <1>5
<1>7. s \in SetToSeqs(T) /\ Sorted(s)
  <2>1. \A i, j \in 1..n : i # j => s[i] # s[j]
    BY <1>5, Zenon
  <2>2. \A i, j \in 1..n : i < j => stamp(s[i]) > stamp(s[j])
    <3> HIDE DEF s
    <3> QED
      BY <1>3, <1>4, <1>5, Zenon
  <2> HIDE DEF s, n
  <2> QED
    BY <1>6, <2>1, <2>2 DEF SetToSeqs, n
<1>8. NewestFirst \in SetToSeqs(T) /\ Sorted(NewestFirst)
  <2>1. NewestFirst = CHOOSE r \in SetToSeqs(T) : Sorted(r)
    BY DEF NewestFirst, T, stamp
  <2> HIDE DEF s, Sorted
  <2> QED
    BY <1>7, <2>1
<1>9. NewestFirst \in Injection(1..n, T) /\ DOMAIN NewestFirst = 1..n
  BY <1>8 DEF SetToSeqs, Injection, IsInjective
<1>10. NewestFirst \in Surjection(1..n, T)
  <2>1. IsFiniteSet(1..n) /\ Cardinality(1..n) = n
    BY <1>1, FS_Interval
  <2> HIDE DEF n
  <2> QED
    BY <1>1, <1>9, <2>1, FS_Injection DEF n
<1> QED
  BY <1>1, <1>8, <1>9, <1>10 DEF T, stamp

-----------------------------------------------------------------------------
\* What complianceBlocked has seen and counted.
Tallies == [seen : SUBSET Papers, count : [Deals -> Nat]]
NoTally == [seen |-> {}, count |-> [d \in Deals |-> 0]]

LEMMA SeeType ==
  ASSUME StampInv, NEW acc \in Tallies, NEW c \in DOMAIN verdict
  PROVE  /\ See(acc, c) \in Tallies
         /\ verdict[c] \in Verdict /\ verdict[c].of \in Papers /\ verdict[c].failures \in Nat
         /\ DealOf[verdict[c].of] \in Deals
<1>1. verdict[c] \in Verdict /\ verdict[c].of \in Papers /\ verdict[c].failures \in Nat
  BY DashboardAssumption DEF StampInv, DashTypeOK, Verdict
<1>2. DealOf[verdict[c].of] \in Deals
  BY <1>1, DashboardAssumption
<1>3. acc.seen \in SUBSET Papers /\ acc.count \in [Deals -> Nat] /\ acc.count[DealOf[verdict[c].of]] \in Nat
  BY <1>2 DEF Tallies
<1> QED
  BY <1>1, <1>2, <1>3 DEF See, Tallies

\* The fold goes through the rows from the first on, a tally for each beginning.
LEMMA CountsAre ==
  ASSUME StampInv, NEW n \in Nat, n = Cardinality(ToSet(stored))
  PROVE  \E tally \in [0..n -> Tallies] :
           /\ tally[0] = NoTally
           /\ \A k \in 1..n : tally[k] = See(tally[k - 1], NewestFirst[k])
           /\ Counts = tally[n].count
<1> DEFINE N == NewestFirst
           one(h) == [t \in SUBSET (1..n) |-> IF t = {} THEN NoTally ELSE See(h[t \ {Max(t)}], N[Max(t)])]
           fold == CHOOSE h : h = one(h)
           step == [x \in Tallies \X (1..n) |-> See(x[1], N[x[2]])]
<1>1. /\ N \in [1..n -> ToSet(stored)] /\ DOMAIN N = 1..n
      /\ \A i \in 1..n : N[i] \in DOMAIN verdict
  <2>1. N \in Surjection(1..n, ToSet(stored))
    BY NewestFirstIs
  <2>2. N \in [1..n -> ToSet(stored)] /\ DOMAIN N = 1..n
    BY <2>1 DEF Surjection
  <2>3. ToSet(stored) \subseteq DOMAIN verdict
    BY DEF StampInv, DashTypeOK
  <2> HIDE DEF N
  <2> QED
    BY <2>2, <2>3
<1>2. Counts = fold[1..n].count
  <2>1. Counts = (CHOOSE h : h = [t \in SUBSET (DOMAIN N) |->
                    IF t = {} THEN NoTally ELSE See(h[t \ {Max(t)}], N[Max(t)])])[DOMAIN N].count
    BY DEF Counts, FoldLeft, MapThenFoldSet, NoTally
  <2> HIDE DEF N
  <2> QED
    BY <1>1, <2>1
<1> HIDE DEF N
<1>3. NoTally \in Tallies
  BY DEF NoTally, Tallies
<1>4. step \in [Tallies \X (1..n) -> Tallies]
  BY <1>1, SeeType
<1>5. \A acc \in Tallies, i \in 1..n : step[<<acc, i>>] = See(acc, N[i])
  <2> TAKE acc \in Tallies, i \in 1..n
  <2> DEFINE x == <<acc, i>>
  <2>1. x \in Tallies \X (1..n) /\ x[1] = acc /\ x[2] = i
    OBVIOUS
  <2> HIDE DEF x
  <2>2. step[x] = See(x[1], N[x[2]])
    BY <2>1
  <2> QED
    BY <2>1, <2>2 DEF x
<1> HIDE DEF step
<1>6. PICK w \in [SUBSET (1..n) -> Tallies] : Folds(w, n, NoTally, step)
  BY <1>3, <1>4, FoldExists
<1>7. \A t \in SUBSET (1..n) : w[t] = IF t = {} THEN NoTally ELSE See(w[t \ {Max(t)}], N[Max(t)])
  <2> TAKE t \in SUBSET (1..n)
  <2>1. CASE t = {}
    BY <1>6, <2>1 DEF Folds
  <2>2. CASE t # {}
    <3>1. Max(t) \in 1..n /\ t \ {Max(t)} \in SUBSET (1..n)
      BY <2>2, MaxIs
    <3>2. step[<<w[t \ {Max(t)}], Max(t)>>] = See(w[t \ {Max(t)}], N[Max(t)])
      BY <1>5, <1>6, <3>1
    <3> QED
      BY <1>6, <2>2, <3>2 DEF Folds
  <2> QED
    BY <2>1, <2>2
<1>8. w = one(w)
  BY <1>7
<1>9. fold = one(fold)
  <2> HIDE DEF one
  <2> QED
    BY <1>8
<1>10. \A t \in SUBSET (1..n) : fold[t] = IF t = {} THEN NoTally ELSE See(fold[t \ {Max(t)}], N[Max(t)])
  <2> HIDE DEF fold
  <2> QED
    BY <1>9, Zenon
<1> HIDE DEF fold, one
<1> DEFINE tally == [k \in 0..n |-> fold[1..k]]
<1>11. fold[{}] = NoTally
  BY <1>10
<1>12. ASSUME NEW k \in 1..n
       PROVE  fold[1..k] = See(fold[1..(k - 1)], N[k])
  <2>1. 1..k \in SUBSET (1..n) /\ 1..k # {} /\ k \in 1..k
    OBVIOUS
  <2>2. Max(1..k) = k
    <3>1. Max(1..k) \in 1..k /\ k <= Max(1..k)
      BY <2>1, MaxIs
    <3> QED
      BY <3>1
  <2>3. (1..k) \ {k} = 1..(k - 1)
    OBVIOUS
  <2> QED
    BY <1>10, <2>1, <2>2, <2>3
<1>13. \A k \in 0..n : fold[1..k] \in Tallies
  <2> DEFINE Odd == {k \in 0..n : fold[1..k] \notin Tallies}
  <2> SUFFICES ASSUME Odd # {} PROVE FALSE
    OBVIOUS
  <2>1. PICK k \in Odd : \A j \in Odd : k <= j
    <3>1. Odd \in SUBSET Nat
      OBVIOUS
    <3> HIDE DEF Odd
    <3> QED
      BY <3>1, Least
  <2>2. 1..0 = {}
    OBVIOUS
  <2>3. k \in 1..n
    BY <1>3, <1>11, <2>2
  <2>4. fold[1..(k - 1)] \in Tallies
    BY <2>1, <2>3
  <2>5. See(fold[1..(k - 1)], N[k]) \in Tallies
    BY <1>1, <2>3, <2>4, SeeType
  <2> QED
    BY <1>12, <2>3, <2>5
<1>14. tally \in [0..n -> Tallies] /\ tally[0] = NoTally /\ Counts = tally[n].count
  BY <1>2, <1>11, <1>13
<1>15. \A k \in 1..n : tally[k] = See(tally[k - 1], N[k])
  BY <1>12
<1> QED
  BY <1>14, <1>15 DEF N

\* After k rows a form is seen if one of them is of it, and a deal has a count if the first
\* of some form's rows found failures on one of its forms.
Leads(i) == \A j \in 1..(i - 1) : verdict[NewestFirst[j]].of # verdict[NewestFirst[i]].of

FailsFirst(i, d) ==
  /\ Leads(i)
  /\ DealOf[verdict[NewestFirst[i]].of] = d
  /\ verdict[NewestFirst[i]].failures > 0

LEMMA CountsSay ==
  ASSUME StampInv, NEW n \in Nat, n = Cardinality(ToSet(stored))
  PROVE  /\ Counts \in [Deals -> Nat]
         /\ \A d \in Deals : Counts[d] > 0 <=> \E i \in 1..n : FailsFirst(i, d)
<1>1. PICK tally \in [0..n -> Tallies] :
        /\ tally[0] = NoTally
        /\ \A k \in 1..n : tally[k] = See(tally[k - 1], NewestFirst[k])
        /\ Counts = tally[n].count
  BY CountsAre
<1>2. \A i \in 1..n : NewestFirst[i] \in DOMAIN verdict
  <2>1. NewestFirst \in [1..n -> ToSet(stored)]
    BY NewestFirstIs DEF Surjection
  <2> QED
    BY <2>1 DEF StampInv, DashTypeOK
<1> DEFINE Says(k) ==
             /\ \A p \in Papers : p \in tally[k].seen <=> \E i \in 1..k : verdict[NewestFirst[i]].of = p
             /\ \A d \in Deals : tally[k].count[d] > 0 <=> \E i \in 1..k : FailsFirst(i, d)
           Wrong == {k \in 0..n : ~Says(k)}
<1>3. Says(0)
  BY <1>1 DEF NoTally
<1>4. ASSUME NEW k \in 1..n, Says(k - 1) PROVE Says(k)
  <2> DEFINE c == NewestFirst[k]
             p == verdict[c].of
             before == tally[k - 1]
  <2>1. /\ before \in Tallies /\ c \in DOMAIN verdict /\ k - 1 \in 0..n
        /\ p \in Papers /\ verdict[c].failures \in Nat /\ DealOf[p] \in Deals
        /\ before.seen \in SUBSET Papers /\ before.count \in [Deals -> Nat]
    <3>1. before \in Tallies /\ c \in DOMAIN verdict /\ k - 1 \in 0..n
      BY <1>2
    <3> HIDE DEF before, c
    <3>2. p \in Papers /\ verdict[c].failures \in Nat /\ DealOf[p] \in Deals
      BY <3>1, SeeType
    <3> QED
      BY <3>1, <3>2 DEF Tallies
  <2>2. tally[k] = See(before, c)
    BY <1>1
  <2>3. p \in before.seen <=> ~Leads(k)
    <3>1. p \in before.seen <=> \E i \in 1..(k - 1) : verdict[NewestFirst[i]].of = p
      BY <1>4, <2>1
    <3> QED
      BY <3>1 DEF Leads
  <2>4. 1..k = 1..(k - 1) \cup {k}
    OBVIOUS
  <2>5. \A q \in Papers : q \in tally[k].seen <=> q \in before.seen \/ q = p
    <3> HIDE DEF before, c
    <3> QED
      BY <2>1, <2>2 DEF See
  <2>6. \A d \in Deals : tally[k].count[d] > 0 <=> before.count[d] > 0 \/ FailsFirst(k, d)
    <3> TAKE d \in Deals
    <3>1. FailsFirst(k, d) <=> p \notin before.seen /\ DealOf[p] = d /\ verdict[c].failures > 0
      BY <2>3 DEF FailsFirst
    <3> HIDE DEF before, c
    <3>2. CASE p \in before.seen
      BY <2>1, <2>2, <3>1, <3>2 DEF See
    <3>3. CASE p \notin before.seen
      <4>1. tally[k].count = [before.count EXCEPT ![DealOf[p]] = @ + verdict[c].failures]
        BY <2>2, <3>3 DEF See
      <4>2. before.count[d] \in Nat
        BY <2>1
      <4>3. CASE d = DealOf[p]
        <5>1. tally[k].count[d] = before.count[d] + verdict[c].failures
          BY <2>1, <4>1, <4>3
        <5> QED
          BY <2>1, <3>1, <3>3, <4>2, <4>3, <5>1
      <4>4. CASE d # DealOf[p]
        BY <2>1, <3>1, <4>1, <4>4
      <4> QED
        BY <4>3, <4>4
    <3> QED
      BY <3>2, <3>3
  <2> QED
    BY <1>4, <2>4, <2>5, <2>6
<1>5. Wrong = {}
  <2> SUFFICES ASSUME Wrong # {} PROVE FALSE
    OBVIOUS
  <2>1. Wrong \in SUBSET Nat /\ \A k \in Wrong : k \in 0..n /\ ~Says(k)
    OBVIOUS
  <2>2. \A k \in 0..n : Says(k) \/ k \in Wrong
    OBVIOUS
  <2> HIDE DEF Wrong, Says
  <2>3. PICK k \in Wrong : \A j \in Wrong : k <= j
    BY <2>1, Least
  <2>4. k \in 1..n /\ k - 1 \in 0..n /\ k - 1 \notin Wrong
    BY <1>3, <2>1, <2>3
  <2> QED
    BY <1>4, <2>1, <2>2, <2>3, <2>4
<1>6. Says(n)
  BY <1>5
<1>7. Counts \in [Deals -> Nat]
  BY <1>1 DEF Tallies
<1> QED
  BY <1>1, <1>6, <1>7

\* The first of a form's rows is the one that was evaluated last.
LEMMA LeadsIsNewest ==
  ASSUME StampInv, NEW n \in Nat, n = Cardinality(ToSet(stored)), NEW i \in 1..n
  PROVE  Leads(i) <=> NewestFirst[i] \in Newest(verdict[NewestFirst[i]].of)
<1> DEFINE N == NewestFirst
           p == verdict[N[i]].of
<1>1. /\ N \in [1..n -> ToSet(stored)]
      /\ \A c \in ToSet(stored) : \E j \in 1..n : N[j] = c
      /\ \A j, k \in 1..n : j < k => verdict[N[j]].checkedAt > verdict[N[k]].checkedAt
  <2> USE NewestFirstIs DEF Surjection
  <2>1. N \in Surjection(1..n, ToSet(stored))
    OBVIOUS
  <2>2. \A j, k \in 1..n : j < k => verdict[N[j]].checkedAt > verdict[N[k]].checkedAt
    OBVIOUS
  <2> HIDE DEF N
  <2> QED
    BY <2>1, <2>2
<1> HIDE DEF N
<1>2. \A j \in 1..n : N[j] \in ToSet(stored) /\ verdict[N[j]].checkedAt \in Nat
  BY <1>1 DEF StampInv, DashTypeOK, Verdict
<1>3. N[i] \in Newest(p) <=> \A j \in 1..n : verdict[N[j]].of = p => verdict[N[j]].checkedAt <= verdict[N[i]].checkedAt
  <2> HIDE DEF p
  <2>1. verdict[N[i]].of = p
    BY DEF p
  <2> QED
    BY <1>1, <1>2, <2>1 DEF Newest
<1>4. \A j \in 1..n : verdict[N[j]].checkedAt <= verdict[N[i]].checkedAt <=> ~(j < i)
  <2> TAKE j \in 1..n
  <2>1. verdict[N[j]].checkedAt \in Nat /\ verdict[N[i]].checkedAt \in Nat
    BY <1>2
  <2>2. CASE j < i
    BY <1>1, <2>1, <2>2
  <2>3. CASE i < j
    BY <1>1, <2>1, <2>3
  <2>4. CASE i = j
    BY <2>1, <2>4
  <2> QED
    BY <2>2, <2>3, <2>4
<1>5. Leads(i) <=> \A j \in 1..n : j < i => verdict[N[j]].of # p
  BY DEF Leads, N
<1> HIDE DEF p
<1> QED
  BY <1>3, <1>4, <1>5 DEF p, N

\* The deals the page may show as blocked: those with a form whose newest check failed.
Blocked == {DealOf[p] : p \in {q \in Papers : \E c \in Newest(q) : verdict[c].failures > 0}}

LEMMA BlockedAre == ASSUME StampInv PROVE Blocked = {d \in Deals : Counts[d] > 0}
<1> DEFINE n == Cardinality(ToSet(stored))
           N == NewestFirst
<1>1. n \in Nat /\ N \in [1..n -> ToSet(stored)] /\ \A c \in ToSet(stored) : \E i \in 1..n : N[i] = c
  <2>1. n \in Nat /\ N \in Surjection(1..n, ToSet(stored))
    BY NewestFirstIs
  <2> HIDE DEF N, n
  <2> QED
    BY <2>1 DEF Surjection
<1>2. \A d \in Deals : Counts[d] > 0 <=> \E i \in 1..n : FailsFirst(i, d)
  BY <1>1, CountsSay
<1>3. \A i \in 1..n : Leads(i) <=> N[i] \in Newest(verdict[N[i]].of)
  BY <1>1, LeadsIsNewest
<1> HIDE DEF n, N
<1>4. ASSUME NEW p \in Papers, NEW c \in Newest(p), verdict[c].failures > 0
      PROVE  DealOf[p] \in Deals /\ Counts[DealOf[p]] > 0
  <2>1. c \in ToSet(stored) /\ verdict[c].of = p
    BY DEF Newest
  <2>2. PICK i \in 1..n : N[i] = c
    BY <1>1, <2>1
  <2>3. FailsFirst(i, DealOf[p])
    BY <1>3, <1>4, <2>1, <2>2 DEF FailsFirst, N
  <2>4. DealOf[p] \in Deals
    BY DashboardAssumption
  <2> QED
    BY <1>2, <2>3, <2>4
<1>5. ASSUME NEW d \in Deals, Counts[d] > 0
      PROVE  \E p \in Papers : DealOf[p] = d /\ \E c \in Newest(p) : verdict[c].failures > 0
  <2>1. PICK i \in 1..n : FailsFirst(i, d)
    BY <1>2, <1>5
  <2>2. N[i] \in Newest(verdict[N[i]].of) /\ verdict[N[i]].failures > 0 /\ DealOf[verdict[N[i]].of] = d
    BY <1>3, <2>1 DEF FailsFirst, N
  <2>3. verdict[N[i]].of \in Papers
    BY <1>1 DEF StampInv, DashTypeOK, Verdict
  <2> QED
    BY <2>2, <2>3
<1>6. \A d \in Blocked : d \in Deals /\ Counts[d] > 0
  BY <1>4 DEF Blocked
<1>7. \A d \in Deals : Counts[d] > 0 => d \in Blocked
  BY <1>5 DEF Blocked
<1> QED
  BY <1>6, <1>7

LEMMA ItemsAre ==
  ASSUME StampInv
  PROVE  /\ IsFiniteSet(Items)
         /\ \A i \in Items : i.kind \in DOMAIN KindOrder
         /\ \A i \in Items : i.kind = "compliance_blocked" => i.deal \in Blocked
         /\ \A d \in Blocked : \E i \in Items : i.kind = "compliance_blocked" /\ i.deal = d
<1>1. \A d \in Deals : d \in Blocked <=> Counts[d] > 0
  BY BlockedAre
<1>2. Blocked \subseteq Deals
  BY BlockedAre
<1>3. ASSUME NEW S \in SUBSET Deals, NEW f PROVE IsFiniteSet({f[d] : d \in S})
  <2>1. IsFiniteSet(S)
    BY DashboardAssumption, FS_Subset
  <2>2. IsFiniteSet({f[d] : d \in S})
    <3>1. [d \in S |-> f[d]] \in Surjection(S, {f[d] : d \in S})
      BY DEF Surjection
    <3> QED
      BY <2>1, <3>1, FS_Surjection
  <2> QED
    BY <2>2
<1>4. IsFiniteSet(ComplianceBlocked)
  <2> DEFINE S == {e \in Deals : Counts[e] > 0}
             f == [d \in S |-> [kind |-> "compliance_blocked", deal |-> d, count |-> Counts[d]]]
  <2>1. ComplianceBlocked = {f[d] : d \in S}
    BY DEF ComplianceBlocked
  <2>2. S \in SUBSET Deals
    OBVIOUS
  <2> HIDE DEF S, f
  <2> QED
    BY <1>3, <2>1, <2>2
<1>5. IsFiniteSet(IdentityMissing)
  <2> DEFINE S == {e \in Deals : deal[e].open /\ deal[e].unverified > 0}
             f == [d \in S |-> [kind |-> "identity_missing", deal |-> d, count |-> deal[d].unverified]]
  <2>1. IdentityMissing = {f[d] : d \in S}
    BY DEF IdentityMissing
  <2>2. S \in SUBSET Deals
    OBVIOUS
  <2> HIDE DEF S, f
  <2> QED
    BY <1>3, <2>1, <2>2
<1>6. IsFiniteSet(StaleDrafts)
  <2> DEFINE S == {e \in Deals : deal[e].stale}
             f == [d \in S |-> [kind |-> "stale_draft", deal |-> d, count |-> 1]]
  <2>1. StaleDrafts = {f[d] : d \in S}
    BY DEF StaleDrafts
  <2>2. S \in SUBSET Deals
    OBVIOUS
  <2> HIDE DEF S, f
  <2> QED
    BY <1>3, <2>1, <2>2
<1>7. IsFiniteSet(Items)
  BY <1>4, <1>5, <1>6, FS_Union DEF Items
<1>8. \A i \in ComplianceBlocked : i.kind = "compliance_blocked" /\ i.deal \in Blocked
  BY <1>1 DEF ComplianceBlocked
<1>9. (\A i \in IdentityMissing : i.kind = "identity_missing") /\ \A i \in StaleDrafts : i.kind = "stale_draft"
  BY DEF IdentityMissing, StaleDrafts
<1>10. \A d \in Blocked : \E i \in ComplianceBlocked : i.kind = "compliance_blocked" /\ i.deal = d
  <2> TAKE d \in Blocked
  <2> DEFINE i == [kind |-> "compliance_blocked", deal |-> d, count |-> Counts[d]]
  <2>1. i \in ComplianceBlocked
    BY <1>1, <1>2 DEF ComplianceBlocked
  <2> QED
    BY <2>1
<1>11. DOMAIN KindOrder = {"compliance_blocked", "identity_missing", "stale_draft"}
  BY DEF KindOrder
<1> QED
  BY <1>7, <1>8, <1>9, <1>10, <1>11 DEF Items

LEMMA PageIsRight == StampInv => BlockedByNewestVerdict
<1> SUFFICES ASSUME StampInv, NEW kept \in Attention
             PROVE  LET shown == {i \in kept : i.kind = "compliance_blocked"}
                    IN /\ {i.deal : i \in shown} \subseteq Blocked
                       /\ {i.deal : i \in shown} # Blocked =>
                            Cardinality(kept) = AttentionLimit /\ shown = kept
  BY DEF BlockedByNewestVerdict, Blocked
<1> DEFINE shown == {i \in kept : i.kind = "compliance_blocked"}
<1>1. /\ kept \in SUBSET Items /\ Cardinality(kept) = Room(Items)
      /\ \A i \in kept, j \in Items \ kept : ~MoreUrgent(j, i)
  BY DEF Attention, kSubset
<1>2. {i.deal : i \in shown} \subseteq Blocked
  BY <1>1, ItemsAre
<1>3. ASSUME {i.deal : i \in shown} # Blocked
      PROVE  Cardinality(kept) = AttentionLimit /\ shown = kept
  <2>1. PICK d \in Blocked : d \notin {i.deal : i \in shown}
    BY <1>2, <1>3
  <2>2. PICK x \in Items : x.kind = "compliance_blocked" /\ x.deal = d
    BY ItemsAre
  <2>3. x \notin kept
    BY <2>1, <2>2
  <2>4. /\ Cardinality(kept) \in Nat /\ Cardinality(Items) \in Nat
        /\ Cardinality(kept) # Cardinality(Items)
    BY <1>1, <2>2, <2>3, ItemsAre, FS_Subset, FS_CardinalityType
  <2>5. Cardinality(kept) = AttentionLimit
    BY <1>1, <2>4 DEF Room
  <2>6. \A i \in kept : i.kind = "compliance_blocked"
    <3> TAKE i \in kept
    <3>1. ~MoreUrgent(x, i) /\ i.kind \in DOMAIN KindOrder
      BY <1>1, <2>2, <2>3, ItemsAre
    <3>2. KindOrder[x.kind] = 0
      BY <2>2 DEF KindOrder
    <3> QED
      BY <3>1, <3>2 DEF MoreUrgent, KindOrder
  <2> QED
    BY <2>5, <2>6
<1> QED
  BY <1>2, <1>3

\* However many items are as urgent as one another, some page is shown.
LEMMA SomePage == StampInv => Attention # {}
<1> SUFFICES ASSUME StampInv PROVE Attention # {}
  OBVIOUS
<1> DEFINE urgent(i) == {j \in Items : MoreUrgent(j, i)}
           Clean(kept) == \A i \in kept, j \in Items \ kept : ~MoreUrgent(j, i)
           CleanAt(k) == \E kept \in SUBSET Items : Cardinality(kept) = k /\ Clean(kept)
           n == Cardinality(Items)
           Short == {k \in 0..n : ~CleanAt(k)}
<1>1. \A i \in Items : i.count \in Nat /\ KindOrder[i.kind] \in Nat
  <2>1. \A d \in Deals : Counts[d] \in Nat /\ deal[d].unverified \in Nat
    <3>1. Cardinality(ToSet(stored)) \in Nat
      BY NewestFirstIs
    <3> QED
      BY <3>1, CountsSay DEF StampInv, DashTypeOK
  <2>2. \A i \in ComplianceBlocked \cup IdentityMissing \cup StaleDrafts :
          i.count \in Nat /\ i.kind \in DOMAIN KindOrder
    BY <2>1, ItemsAre DEF ComplianceBlocked, IdentityMissing, StaleDrafts, Items
  <2> QED
    BY <2>2 DEF Items, KindOrder
<1>2. /\ \A i \in Items : ~MoreUrgent(i, i)
      /\ \A i, j, k \in Items : MoreUrgent(i, j) /\ MoreUrgent(j, k) => MoreUrgent(i, k)
  BY <1>1 DEF MoreUrgent
<1>3. IsFiniteSet(Items) /\ n \in Nat
  BY ItemsAre, FS_CardinalityType
<1>4. \A i \in Items : IsFiniteSet(urgent(i)) /\ Cardinality(urgent(i)) \in Nat
  BY <1>3, FS_Subset, FS_CardinalityType
<1>5. ASSUME NEW i \in Items, NEW j \in Items, MoreUrgent(j, i)
      PROVE  Cardinality(urgent(j)) < Cardinality(urgent(i))
  <2>1. j \in urgent(i) /\ j \notin urgent(j) /\ \A k \in urgent(j) : k \in urgent(i)
    BY <1>2, <1>5
  <2> HIDE DEF urgent
  <2>2. urgent(j) \in SUBSET urgent(i) /\ urgent(j) # urgent(i)
    BY <2>1
  <2>3. Cardinality(urgent(j)) <= Cardinality(urgent(i)) /\ Cardinality(urgent(j)) # Cardinality(urgent(i))
    BY <1>4, <2>2, FS_Subset
  <2> QED
    BY <1>4, <2>3
<1> HIDE DEF urgent, n
<1>6. ASSUME NEW R \in SUBSET Items, R # {}
      PROVE  \E x \in R : \A y \in R : ~MoreUrgent(y, x)
  <2> DEFINE Counted == {Cardinality(urgent(i)) : i \in R}
  <2>1. Counted \in SUBSET Nat /\ Counted # {}
    BY <1>4, <1>6
  <2>2. PICK m \in Counted : \A k \in Counted : m <= k
    <3> HIDE DEF Counted
    <3> QED
      BY <2>1, Least
  <2>3. PICK x \in R : m = Cardinality(urgent(x))
    BY <2>2
  <2>4. \A y \in R : Cardinality(urgent(x)) <= Cardinality(urgent(y))
    BY <2>2, <2>3
  <2>5. \A y \in R : ~MoreUrgent(y, x)
    BY <1>4, <1>5, <2>4
  <2> QED
    BY <2>5
<1>7. CleanAt(0)
  <2>1. {} \in SUBSET Items /\ Cardinality({}) = 0 /\ Clean({})
    BY FS_EmptySet
  <2> HIDE DEF Clean
  <2> QED
    BY <2>1
<1>8. ASSUME NEW k \in 1..n, CleanAt(k - 1) PROVE CleanAt(k)
  <2>1. PICK kept \in SUBSET Items : Cardinality(kept) = k - 1 /\ Clean(kept)
    BY <1>8
  <2>2. IsFiniteSet(kept) /\ Items \ kept # {}
    <3>1. kept # Items
      BY <1>3, <2>1 DEF n
    <3> QED
      BY <1>3, <3>1, FS_Subset
  <2>3. PICK x \in Items \ kept : \A y \in Items \ kept : ~MoreUrgent(y, x)
    BY <1>6, <2>2
  <2>4. Cardinality(kept \cup {x}) = k
    <3>1. Cardinality(kept \cup {x}) = Cardinality(kept) + 1
      BY <2>2, <2>3, FS_AddElement
    <3> QED
      BY <2>1, <3>1
  <2>5. Clean(kept \cup {x})
    BY <2>1, <2>3
  <2> HIDE DEF Clean
  <2> QED
    BY <2>4, <2>5
<1>9. Short = {}
  <2> SUFFICES ASSUME Short # {} PROVE FALSE
    OBVIOUS
  <2>1. Short \in SUBSET Nat /\ (\A k \in Short : k \in 0..n) /\ \A k \in 0..n : k \in Short <=> ~CleanAt(k)
    BY <1>3
  <2> HIDE DEF Short, CleanAt
  <2>2. PICK k \in Short : \A j \in Short : k <= j
    BY <2>1, Least
  <2>3. k \in 1..n /\ k - 1 \in 0..n /\ k - 1 \notin Short
    BY <1>3, <1>7, <2>1, <2>2
  <2> QED
    BY <1>8, <2>1, <2>2, <2>3
<1>10. Room(Items) \in 0..n
  BY <1>3, DashboardAssumption DEF Room, n
<1>11. CleanAt(Room(Items))
  <2> HIDE DEF CleanAt
  <2> QED
    BY <1>9, <1>10
<1> QED
  BY <1>11 DEF Attention, kSubset

\* The home page believes the newest stored check of each form, whatever order the rows of
\* overlapping checks came in, and leaves a blocked deal out only for another one; and
\* there is a page to show.
THEOREM NewestIsBelieved == DashSpec => [](DashTypeOK /\ BlockedByNewestVerdict /\ Attention # {})
<1>1. StampInv => DashTypeOK
  BY DEF StampInv
<1> QED
  BY <1>1, InitStamp, NextStamp, PageIsRight, SomePage, PTL DEF DashSpec

-----------------------------------------------------------------------------
(* The desk *)

\* A part at rest is in a state it may begin in.
LEMMA DeskAtRest ==
  /\ OfficeAtRest => OfficeInit
  /\ DashboardAtRest => DashInit
  /\ ReadersAtRest => ReadersInit
  /\ GateAtRest => GateInit
  /\ WrappingAtRest => WrapInit
<1>1. ASSUME OfficeAtRest PROVE OfficeInit
  <2> DEFINE one == [op |-> "editProfile", mine |-> TRUE, names |-> {}, clears |-> {}, about |-> Profile]
  <2>1. one \in Asks
    BY DEF Asks, Ops, Saves, Creates, Edits, Removes, Sheets
  <2>2. one.op \notin Creates
    BY DEF Creates
  <2>3. ask = [r \in Requests |-> one]
    BY <1>1 DEF OfficeAtRest
  <2> HIDE DEF one
  <2>4. \A r \in Requests : ask[r].op \notin Creates
    BY <2>2, <2>3
  <2>5. ask \in [Requests -> Asks] /\ FreshIds
    BY <2>1, <2>3, <2>4 DEF FreshIds
  <2> QED
    BY <1>1, <2>4, <2>5 DEF OfficeAtRest, OfficeInit
<1>2. ASSUME DashboardAtRest PROVE DashInit
  BY <1>2 DEF DashboardAtRest, DashInit
<1>3. ASSUME ReadersAtRest PROVE ReadersInit
  BY <1>3 DEF ReadersAtRest, ReadersInit, Envs, Accepted, Photos, Types
<1>4. ASSUME GateAtRest PROVE GateInit
  BY <1>4 DEF GateAtRest, GateInit, TransactionTypes
<1>5. ASSUME WrappingAtRest PROVE WrapInit
  BY <1>5, SomeText DEF WrappingAtRest, OneText, WrapInit
<1> QED
  BY <1>1, <1>2, <1>3, <1>4, <1>5

\* The composition is each of its parts: what is proved of one holds of it.
THEOREM EachPart ==
  DeskSpec => OfficeSpec /\ DashSpec /\ ReadersSpec /\ GateSpec /\ WrapSpec /\ SignersSpec
<1>1. DeskInit => OfficeInit /\ DashInit /\ ReadersInit /\ GateInit /\ WrapInit /\ SignersInit
  BY DeskAtRest DEF DeskInit
<1>2. [DeskNext]_<<part, officeVars, dashVars, readerVars, gateVars, wrapVars, signersVars>> =>
        /\ [OfficeNext]_officeVars /\ [DashNext]_dashVars /\ [ReadersNext]_readerVars
        /\ [GateNext]_gateVars /\ [WrapNext]_wrapVars /\ [SignersNext]_signersVars
  BY DEF DeskNext
<1> QED
  BY <1>1, <1>2, PTL
     DEF DeskSpec, OfficeSpec, DashSpec, ReadersSpec, GateSpec, WrapSpec, SignersSpec

\* The state of each part has its type, and each keeps what is proved of it, whichever of
\* them moves.
THEOREM DeskKeeps ==
  DeskSpec => [](/\ DeskTypeOK
                 /\ SavesAreWhole /\ ChangesSurvive
                 /\ BlockedByNewestVerdict
                 /\ GateAndFillAgree
                 /\ NothingIsDroppedUnsaid
                 /\ EachSignsTheirOwnLine
                 /\ ScanAnswersAreTrue)
<1>1. GateInv => GateTypeOK
  BY DEF GateInv
<1>2. GateSpec => []GateInv
  BY InitGateInv, NextGateInv, PTL DEF GateSpec
<1>3. SignersSpec => []SignersTypeOK
  BY InitSignersTypeOK, NextSignersTypeOK, PTL DEF SignersSpec
<1>4. OfficeTypeOK /\ DashTypeOK /\ ReadersTypeOK /\ GateTypeOK /\ WrapTypeOK /\ SignersTypeOK => DeskTypeOK
  BY DEF DeskTypeOK
<1> QED
  BY <1>1, <1>2, <1>3, <1>4, EachPart, OfficeInvariant, SavesStayWhole, Survive, NewestIsBelieved,
     GateIsTheFill, SomethingIsDrawn, NothingDropped, OwnLines, ReadersTyping, AnswersAreTrue, PTL
=============================================================================
