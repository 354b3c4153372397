----------------------------- MODULE Identity -----------------------------
(***************************************************************************)
(* Identity documents (src/modules/identity): a photograph is stored,      *)
(* read and held as an IdentityScan; an agent's confirmation turns a scan  *)
(* into an IdentityRecord; the demo override makes a record out of         *)
(* nothing.                                                                *)
(*                                                                         *)
(* A step is the code between two awaits, and a request may stop at any of *)
(* them.  A scan is named after the upload that made it, which also names  *)
(* its photograph (the row's sha256); a record after the request that      *)
(* made it.  A definition commented "Mutant" is a plausible bug in the     *)
(* definition that follows it, not part of the model.                      *)
(***************************************************************************)
EXTENDS Naturals, FiniteSets

CONSTANTS
  Uploads,    \* calls of POST .../identity and .../identity/scans
  Verifies,   \* calls of .../confirm and .../demo-verify
  Persons,    \* people with a party row on the transaction
  Nobody,     \* a scan taken before there is a party
  None,       \* absence of a photograph, a scan or a record
  DemoMode    \* env.DEMO_MODE

ASSUME IdentityAssumption ==
  /\ Nobody \notin Persons
  /\ None \notin Uploads \cup Verifies
  /\ Persons \cap Uploads = {}
  /\ DemoMode \in BOOLEAN

VARIABLES
  upload,     \* the request of each upload: whose document, or Nobody's
  ask,        \* the request of each verification: which person, from which scan
  live,       \* persons whose party row is not removed
  scanning,   \* where each upload is, and which photograph was read
  verifying,  \* where each verification is
  object,     \* S3: the photograph under each key
  scan,       \* IdentityScan
  record      \* IdentityRecord (and the Document row written with it)

vars == <<upload, ask, live, scanning, verifying, object, scan, record>>

Owners == Persons \cup {Nobody}
Photos == Uploads \cup {None}

(***************************************************************************)
(* keys.identityDocument is one key per person (and document type);        *)
(* keys.unassignedIdentityDocument is minted for the upload.               *)
(***************************************************************************)
Keys == Persons \cup Uploads

\* Mutant: one key for all the unassigned scans of a transaction.
Key_Shared(s) == IF upload[s] = Nobody THEN CHOOSE u \in Uploads : TRUE ELSE upload[s]

Key(s) == IF upload[s] = Nobody THEN s ELSE upload[s]

\* from = None is the demo override.
Asks == [person : Persons, from : Uploads \cup {None}]

ScanRow == [held : BOOLEAN, person : Owners, read : Photos,
            confirmed : BOOLEAN, record : Verifies \cup {None}]

Record == [person : Persons, from : Uploads \cup {None},
           method : {"ocrAssisted", "manual", "demo"}]

NoRecord == [person |-> Nobody, from |-> None, method |-> "none"]

TypeOK ==
  /\ upload \in [Uploads -> Owners]
  /\ ask \in [Verifies -> Asks]
  /\ live \subseteq Persons
  /\ scanning \in [Uploads -> [pc : {"party", "store", "read", "hold", "done", "failed"},
                               read : Photos]]
  /\ verifying \in [Verifies -> {"party", "check", "write", "done", "failed"}]
  /\ object \in [Keys -> Photos]
  /\ scan \in [Uploads -> ScanRow]
  /\ record \in [Verifies -> Record \cup {NoRecord}]

Init ==
  /\ upload \in [Uploads -> Owners]
  /\ ask \in [Verifies -> Asks]
  /\ live = Persons
  /\ scanning = [s \in Uploads |-> [pc |-> "party", read |-> None]]
  /\ verifying = [c \in Verifies |-> "party"]
  /\ object = [k \in Keys |-> None]
  /\ scan = [s \in Uploads |-> [held |-> FALSE, person |-> Nobody, read |-> None,
                                confirmed |-> FALSE, record |-> None]]
  /\ record = [c \in Verifies |-> NoRecord]

-----------------------------------------------------------------------------
(* scanIdentityDocument, scanIdentityDocumentForNewParty, storeReadAndHold *)

ScanGoto(s, pc) == scanning' = [scanning EXCEPT ![s].pc = pc]

ScanParty(s) ==
  /\ scanning[s].pc = "party"
  /\ ScanGoto(s, IF upload[s] \in live \cup {Nobody} THEN "store" ELSE "failed")
  /\ UNCHANGED <<upload, ask, live, verifying, object, scan, record>>

\* Mutant: a failure to store the photograph is logged and the reading goes on.
Store_FailureIgnored(s) ==
  /\ scanning[s].pc = "store"
  /\ object' \in {object, [object EXCEPT ![Key(s)] = s]}
  /\ ScanGoto(s, "read")
  /\ UNCHANGED <<upload, ask, live, verifying, scan, record>>

\* putObject
Store(s) ==
  /\ scanning[s].pc = "store"
  /\ object' = [object EXCEPT ![Key(s)] = s]
  /\ ScanGoto(s, "read")
  /\ UNCHANGED <<upload, ask, live, verifying, scan, record>>

\* provider.scanIdentityDocument reads whatever is under the key by now;
\* `unreadable` is a scan with nothing read, any other error ends the request.
Read(s) ==
  /\ scanning[s].pc = "read"
  /\ \/ \E photo \in {object[Key(s)], None} :
          scanning' = [scanning EXCEPT ![s] = [pc |-> "hold", read |-> photo]]
     \/ ScanGoto(s, "failed")
  /\ UNCHANGED <<upload, ask, live, verifying, object, scan, record>>

\* identityScan.create
Hold(s) ==
  /\ scanning[s].pc = "hold"
  /\ scan' = [scan EXCEPT ![s] = [held |-> TRUE, person |-> upload[s],
                                  read |-> scanning[s].read,
                                  confirmed |-> FALSE, record |-> None]]
  /\ ScanGoto(s, "done")
  /\ UNCHANGED <<upload, ask, live, verifying, object, record>>

-----------------------------------------------------------------------------
(* confirmIdentityScan *)

VerifyGoto(c, pc) == verifying' = [verifying EXCEPT ![c] = pc]

IsDemo(c) == ask[c].from = None

\* ownedParty; the demo route exists only in demo mode.
VerifyParty(c) ==
  /\ verifying[c] = "party"
  /\ VerifyGoto(c, IF ask[c].person \in live /\ (IsDemo(c) => DemoMode)
                   THEN "check" ELSE "failed")
  /\ UNCHANGED <<upload, ask, live, scanning, object, scan, record>>

\* Mutant: any scan of the transaction may be confirmed for anybody.
Confirmable_OfAnybody(c) ==
  LET pending == scan[ask[c].from] IN pending.held /\ ~pending.confirmed

\* The scan is this person's or nobody's yet, and has not been confirmed.
Confirmable(c) ==
  LET pending == scan[ask[c].from] IN
    /\ pending.held
    /\ pending.person \in {Nobody, ask[c].person}
    /\ ~pending.confirmed

ReadPending(c) ==
  /\ verifying[c] = "check" /\ ~IsDemo(c)
  /\ VerifyGoto(c, IF Confirmable(c) THEN "write" ELSE "failed")
  /\ UNCHANGED <<upload, ask, live, scanning, object, scan, record>>

\* Mutant: the scan is marked before, and outside, the transaction.
Confirm_MarksFirst(c) ==
  /\ verifying[c] \in {"write", "marked"} /\ ~IsDemo(c)
  /\ IF verifying[c] = "write"
     THEN /\ scan' = [scan EXCEPT ![ask[c].from].confirmed = TRUE,
                                  ![ask[c].from].record = c,
                                  ![ask[c].from].person = ask[c].person]
          /\ VerifyGoto(c, "marked")
          /\ UNCHANGED record
     ELSE /\ record' = [record EXCEPT ![c] = [person |-> ask[c].person, from |-> ask[c].from,
                                              method |-> "manual"]]
          /\ VerifyGoto(c, "done")
          /\ UNCHANGED scan
  /\ UNCHANGED <<upload, ask, live, scanning, object>>

\* The $transaction: the record, the Document row, the scan marked.
Confirm(c) ==
  /\ verifying[c] = "write" /\ ~IsDemo(c)
  /\ LET s == ask[c].from
         p == ask[c].person
     IN /\ record' = [record EXCEPT ![c] =
                        [person |-> p, from |-> s,
                         method |-> IF scan[s].read = None THEN "manual" ELSE "ocrAssisted"]]
        /\ scan' = [scan EXCEPT ![s].confirmed = TRUE, ![s].record = c, ![s].person = p]
  /\ VerifyGoto(c, "done")
  /\ UNCHANGED <<upload, ask, live, scanning, object>>

-----------------------------------------------------------------------------
(* demoVerifyParty *)

IsVerified(p) == \E c \in Verifies : record[c].person = p

CheckUnverified(c) ==
  /\ verifying[c] = "check" /\ IsDemo(c)
  /\ VerifyGoto(c, IF IsVerified(ask[c].person) THEN "failed" ELSE "write")
  /\ UNCHANGED <<upload, ask, live, scanning, object, scan, record>>

DemoVerify(c) ==
  /\ verifying[c] = "write" /\ IsDemo(c)
  /\ record' = [record EXCEPT ![c] = [person |-> ask[c].person, from |-> None,
                                      method |-> "demo"]]
  /\ VerifyGoto(c, "done")
  /\ UNCHANGED <<upload, ask, live, scanning, object, scan>>

-----------------------------------------------------------------------------
\* A request stops: a fault, a time-out, a crash.
StopUpload(s) ==
  /\ scanning[s].pc \in {"store", "read", "hold"}
  /\ ScanGoto(s, "failed")
  /\ UNCHANGED <<upload, ask, live, verifying, object, scan, record>>

StopVerify(c) ==
  /\ verifying[c] \notin {"done", "failed"}
  /\ VerifyGoto(c, "failed")
  /\ UNCHANGED <<upload, ask, live, scanning, object, scan, record>>

\* softDeleteTransactionParty
RemoveParty(p) ==
  /\ p \in live
  /\ live' = live \ {p}
  /\ UNCHANGED <<upload, ask, scanning, verifying, object, scan, record>>

Next ==
  \/ \E s \in Uploads : ScanParty(s) \/ Store(s) \/ Read(s) \/ Hold(s) \/ StopUpload(s)
  \/ \E c \in Verifies : \/ VerifyParty(c) \/ ReadPending(c) \/ Confirm(c)
                         \/ CheckUnverified(c) \/ DemoVerify(c) \/ StopVerify(c)
  \/ \E p \in Persons : RemoveParty(p)

Spec == Init /\ [][Next]_vars

-----------------------------------------------------------------------------
\* A document scanned as one person's never becomes evidence about another,
\* whoever confirms it and however confirmations overlap.
FiledUnderItsOwnName ==
  \A c \in Verifies :
    record[c].from # None => upload[record[c].from] \in {Nobody, record[c].person}

\* A scan is marked confirmed exactly when it has become a record, and names that
\* record and its person: a request that stops half-way leaves a scan that can
\* still be confirmed.
ConfirmedWithItsRecord ==
  \A s \in Uploads :
    /\ scan[s].confirmed =>
         /\ scan[s].record # None
         /\ record[scan[s].record].from = s
         /\ record[scan[s].record].person = scan[s].person
    /\ ~scan[s].confirmed => \A c \in Verifies : record[c].from # s

\* Uploads may overwrite each other's photograph, but only of one person: what a
\* scan's values were read from, and what is under its key, was uploaded for the
\* same person; an unassigned scan is read from its own photograph and keeps it.
PhotographsDoNotMix ==
  \A s \in Uploads :
    scan[s].held =>
      \A photo \in {scan[s].read, object[Key(s)]} \ {None} :
        /\ upload[photo] = upload[s]
        /\ upload[s] = Nobody => photo = s

\* A record made from a scan has a photograph under its key.
RecordHasAPhotograph ==
  \A c \in Verifies : record[c].from # None => object[Key(record[c].from)] # None

-----------------------------------------------------------------------------
(* The inductive invariant the proofs in IdentityProofs rest on. *)

HeldWhenDone == \A s \in Uploads : scan[s].held <=> scanning[s].pc = "done"

\* A scan taken for a person stays theirs, and only they can be verified by it.
AttachedScanStays ==
  /\ \A s \in Uploads : scan[s].held /\ upload[s] # Nobody => scan[s].person = upload[s]
  /\ \A c \in Verifies :
       verifying[c] = "write" /\ ~IsDemo(c) =>
         /\ scan[ask[c].from].held
         /\ upload[ask[c].from] \in {Nobody, ask[c].person}

OneRecordPerRequest ==
  \A c \in Verifies :
    /\ verifying[c] # "done" => record[c] = NoRecord
    /\ record[c].from # None => scan[record[c].from].held

\* Nothing is under a key, or was read from it, but what was uploaded for it.
PhotographsByKey ==
  \A s, photo \in Uploads :
    photo \in {object[Key(s)], scanning[s].read, scan[s].read} => Key(photo) = Key(s)

StoredOnceRead ==
  \A s \in Uploads :
    scanning[s].pc \in {"read", "hold", "done"} => object[Key(s)] # None

IInv ==
  /\ HeldWhenDone
  /\ AttachedScanStays
  /\ OneRecordPerRequest
  /\ PhotographsByKey
  /\ StoredOnceRead
  /\ FiledUnderItsOwnName
  /\ ConfirmedWithItsRecord

-----------------------------------------------------------------------------
(* What the comments claim and the code does not keep (see README). *)

\* identity.service.ts:127: confirming a scan twice "must not produce two
\* verifications of the same photograph".
OneRecordPerScan ==
  \A c, d \in Verifies : record[c].from # None /\ record[c].from = record[d].from => c = d
=============================================================================
