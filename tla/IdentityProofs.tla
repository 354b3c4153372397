-------------------------- MODULE IdentityProofs --------------------------
(***************************************************************************)
(* What Identity keeps, proved for any number of uploads, verifications    *)
(* and persons.  The invariant is Identity!IInv; each property needs the   *)
(* others: which person a record is of rests on which scans a request may  *)
(* write from, and which photograph a scan has on what is under its key.   *)
(***************************************************************************)
EXTENDS Identity, TLAPS

\* A key determines its owner, and an unassigned scan's key is its own.
LEMMA KeyOwner ==
  ASSUME TypeOK, NEW s \in Uploads, NEW t \in Uploads, Key(s) = Key(t)
  PROVE  upload[s] = upload[t] /\ (upload[s] = Nobody => s = t)
BY IdentityAssumption DEF TypeOK, Key, Owners

\* Every key is in the bucket's domain.
LEMMA KeyType == ASSUME TypeOK, NEW s \in Uploads PROVE Key(s) \in Keys
BY DEF TypeOK, Key, Keys, Owners

LEMMA RecordFrom ==
  ASSUME TypeOK, NEW c \in Verifies PROVE record[c].from \in Uploads \cup {None}
BY DEF TypeOK, Record, NoRecord

\* Marking a scan confirmed leaves it a row of IdentityScan.
LEMMA ScanMarked ==
  ASSUME NEW r \in ScanRow, NEW c \in Verifies, NEW p \in Persons
  PROVE  [r EXCEPT !.confirmed = TRUE, !.record = c, !.person = p] \in ScanRow
BY DEF ScanRow, Owners

LEMMA InitTypeOK == Init => TypeOK
BY DEF Init, TypeOK, Photos, ScanRow, Owners, Keys, Record, NoRecord

LEMMA NextTypeOK == TypeOK /\ [Next]_vars => TypeOK'
<1> SUFFICES ASSUME TypeOK, [Next]_vars PROVE TypeOK'
  OBVIOUS
<1> USE DEF TypeOK
<1>1. ASSUME NEW s \in Uploads, ScanParty(s) PROVE TypeOK'
  BY <1>1 DEF ScanParty, ScanGoto
<1>2. ASSUME NEW s \in Uploads, Store(s) PROVE TypeOK'
  BY <1>2, KeyType DEF Store, ScanGoto, Photos
<1>3. ASSUME NEW s \in Uploads, Read(s) PROVE TypeOK'
  <2>1. CASE ScanGoto(s, "failed")
    BY <1>3, <2>1 DEF Read, ScanGoto
  <2>2. ASSUME NEW photo \in {object[Key(s)], None},
               scanning' = [scanning EXCEPT ![s] = [pc |-> "hold", read |-> photo]]
        PROVE  TypeOK'
    BY <1>3, <2>2, KeyType DEF Read, Photos
  <2> QED
    BY <1>3, <2>1, <2>2 DEF Read
<1>4. ASSUME NEW s \in Uploads, Hold(s) PROVE TypeOK'
  <2>1. [held |-> TRUE, person |-> upload[s], read |-> scanning[s].read,
         confirmed |-> FALSE, record |-> None] \in ScanRow
    BY DEF ScanRow
  <2> QED
    BY <1>4, <2>1 DEF Hold, ScanGoto
<1>5. ASSUME NEW s \in Uploads, StopUpload(s) PROVE TypeOK'
  BY <1>5 DEF StopUpload, ScanGoto
<1>6. ASSUME NEW c \in Verifies,
             VerifyParty(c) \/ ReadPending(c) \/ CheckUnverified(c) \/ StopVerify(c)
      PROVE  TypeOK'
  BY <1>6 DEF VerifyParty, ReadPending, CheckUnverified, StopVerify, VerifyGoto
<1>7. ASSUME NEW c \in Verifies, Confirm(c) PROVE TypeOK'
  <2> DEFINE s == ask[c].from
             p == ask[c].person
             r == [person |-> p, from |-> s,
                   method |-> IF scan[s].read = None THEN "manual" ELSE "ocrAssisted"]
  <2>1. s \in Uploads /\ p \in Persons
    BY <1>7 DEF Confirm, IsDemo, Asks
  <2>2. r \in Record
    BY <2>1 DEF Record
  <2>3. record' \in [Verifies -> Record \cup {NoRecord}]
    BY <1>7, <2>2 DEF Confirm
  <2>4. scan' \in [Uploads -> ScanRow]
    BY <1>7, <2>1, ScanMarked DEF Confirm
  <2> QED
    BY <1>7, <2>3, <2>4 DEF Confirm, VerifyGoto
<1>8. ASSUME NEW c \in Verifies, DemoVerify(c) PROVE TypeOK'
  <2>1. [person |-> ask[c].person, from |-> None, method |-> "demo"] \in Record
    BY DEF Record, Asks
  <2> QED
    BY <1>8, <2>1 DEF DemoVerify, VerifyGoto
<1>9. ASSUME NEW p \in Persons, RemoveParty(p) PROVE TypeOK'
  BY <1>9 DEF RemoveParty
<1>10. CASE UNCHANGED vars
  BY <1>10 DEF vars
<1> QED
  BY <1>1, <1>2, <1>3, <1>4, <1>5, <1>6, <1>7, <1>8, <1>9, <1>10 DEF Next

-----------------------------------------------------------------------------
LEMMA InitIInv == Init => IInv
<1> SUFFICES ASSUME Init PROVE IInv
  OBVIOUS
<1>1. HeldWhenDone /\ AttachedScanStays
  BY DEF Init, HeldWhenDone, AttachedScanStays
<1>2. OneRecordPerRequest /\ FiledUnderItsOwnName /\ ConfirmedWithItsRecord
  BY IdentityAssumption
  DEF Init, OneRecordPerRequest, FiledUnderItsOwnName, ConfirmedWithItsRecord, NoRecord
<1>3. PhotographsByKey /\ StoredOnceRead
  BY InitTypeOK, KeyType, IdentityAssumption DEF Init, PhotographsByKey, StoredOnceRead
<1> QED
  BY <1>1, <1>2, <1>3 DEF IInv

(***************************************************************************)
(* A request of either kind stays out of the other's state: an upload      *)
(* leaves the records alone, a verification the photographs.               *)
(***************************************************************************)
LEMMA UploadStep ==
  ASSUME TypeOK, IInv, NEW s \in Uploads,
         ScanParty(s) \/ Store(s) \/ Read(s) \/ Hold(s) \/ StopUpload(s)
  PROVE  IInv'
<1> USE DEF IInv
<1>1. UNCHANGED <<upload, ask, live, verifying, record>>
  BY DEF ScanParty, Store, Read, Hold, StopUpload
<1>2. /\ scanning' = [scanning EXCEPT ![s] = scanning'[s]]
      /\ scanning'[s].pc = "done" => Hold(s)
      /\ scanning[s].pc # "done"
  BY DEF TypeOK, ScanParty, Store, Read, Hold, StopUpload, ScanGoto
<1>3. ~Hold(s) => scan' = scan
  BY DEF ScanParty, Store, Read, StopUpload
<1>4. Hold(s) => /\ scan' = [scan EXCEPT ![s] = scan'[s]]
                 /\ ~scan[s].held
                 /\ scan'[s].held /\ ~scan'[s].confirmed
                 /\ scan'[s].person = upload[s] /\ scan'[s].read = scanning[s].read
                 /\ scanning'[s].pc = "done"
  BY <1>2 DEF Hold, TypeOK, HeldWhenDone, ScanGoto
<1>5. \A c \in Verifies : ~scan[s].held => record[c].from # s
  BY IdentityAssumption DEF OneRecordPerRequest
<1>6. HeldWhenDone'
  BY <1>2, <1>3, <1>4 DEF HeldWhenDone, TypeOK
<1>7. AttachedScanStays'
  BY <1>1, <1>3, <1>4 DEF AttachedScanStays, TypeOK, IsDemo, Asks
<1>8. OneRecordPerRequest' /\ FiledUnderItsOwnName'
  <2>1. \A t \in Uploads : scan[t].held => scan'[t].held
    BY <1>3, <1>4 DEF TypeOK
  <2> QED
    BY <1>1, <2>1, RecordFrom DEF OneRecordPerRequest, FiledUnderItsOwnName
<1>9. ConfirmedWithItsRecord'
  BY <1>1, <1>3, <1>4, <1>5 DEF ConfirmedWithItsRecord, TypeOK
<1>10. \A t \in Uploads : Key(t)' = Key(t)
  BY <1>1 DEF Key
<1>11. /\ \A t \in Uploads : object'[Key(t)] = object[Key(t)] \/ (Store(s) /\ Key(t) = Key(s) /\ object'[Key(t)] = s)
       /\ Store(s) => object'[Key(s)] = s
       /\ ~Store(s) => object' = object
  BY KeyType DEF TypeOK, ScanParty, Store, Read, Hold, StopUpload
<1>12. scanning'[s].read \in {scanning[s].read, object[Key(s)], None}
  BY DEF TypeOK, ScanParty, Store, Read, Hold, StopUpload, ScanGoto
<1>13. PhotographsByKey'
  BY <1>2, <1>3, <1>4, <1>10, <1>11, <1>12, IdentityAssumption DEF PhotographsByKey, TypeOK
<1>14. scanning'[s].pc \in {"read", "hold", "done"} => object'[Key(s)] # None
  BY <1>11, IdentityAssumption
  DEF TypeOK, ScanParty, Store, Read, Hold, StopUpload, ScanGoto, StoredOnceRead
<1>15. StoredOnceRead'
  BY <1>2, <1>10, <1>11, <1>14, IdentityAssumption DEF StoredOnceRead, TypeOK
<1> QED
  BY <1>6, <1>7, <1>8, <1>9, <1>13, <1>15

LEMMA VerifyStep ==
  ASSUME TypeOK, IInv, NEW c \in Verifies,
         \/ VerifyParty(c) \/ ReadPending(c) \/ Confirm(c)
         \/ CheckUnverified(c) \/ DemoVerify(c) \/ StopVerify(c)
  PROVE  IInv'
<1> USE DEF IInv
<1>1. UNCHANGED <<upload, ask, live, scanning, object>>
  BY DEF VerifyParty, ReadPending, Confirm, CheckUnverified, DemoVerify, StopVerify
<1>2. \A t \in Uploads : Key(t)' = Key(t)
  BY <1>1 DEF Key
<1>3. StoredOnceRead'
  BY <1>1, <1>2 DEF StoredOnceRead
<1>4. ask[c].person \in Persons /\ ask[c].from \in Uploads \cup {None}
  BY DEF TypeOK, Asks
<1>5. record[c] = NoRecord
  BY DEF OneRecordPerRequest, VerifyParty, ReadPending, Confirm, CheckUnverified, DemoVerify,
         StopVerify
<1>6. CASE Confirm(c)
  <2> DEFINE s == ask[c].from
             p == ask[c].person
  <2>1. /\ s \in Uploads /\ p \in Persons
        /\ scan[s].held /\ upload[s] \in {Nobody, p}
    BY <1>4, <1>6 DEF Confirm, IsDemo, AttachedScanStays
  <2>2. /\ scan' = [scan EXCEPT ![s].confirmed = TRUE, ![s].record = c, ![s].person = p]
        /\ record'[c].from = s /\ record'[c].person = p
        /\ record' = [record EXCEPT ![c] = record'[c]]
        /\ verifying' = [verifying EXCEPT ![c] = "done"]
    BY <1>6 DEF Confirm, VerifyGoto, TypeOK
  <2>3. /\ \A t \in Uploads \ {s} : scan'[t] = scan[t]
        /\ scan'[s].held /\ scan'[s].confirmed /\ scan'[s].record = c
        /\ scan'[s].person = p /\ scan'[s].read = scan[s].read
    BY <2>1, <2>2 DEF TypeOK, ScanRow
  <2>4. HeldWhenDone'
    BY <1>1, <2>1, <2>3 DEF HeldWhenDone
  <2>5. AttachedScanStays'
    BY <1>1, <1>4, <2>1, <2>2, <2>3 DEF AttachedScanStays, IsDemo, TypeOK, Asks
  <2>6. OneRecordPerRequest'
    <3>1. \A t \in Uploads : scan[t].held => scan'[t].held
      BY <2>1, <2>3
    <3>2. \A d \in Verifies \ {c} : record'[d] = record[d] /\ verifying'[d] = verifying[d]
      BY <2>2 DEF TypeOK
    <3>3. verifying'[c] = "done"
      BY <2>2 DEF TypeOK
    <3> QED
      BY <2>1, <2>2, <3>1, <3>2, <3>3, RecordFrom DEF OneRecordPerRequest
  <2>7. FiledUnderItsOwnName'
    BY <1>1, <2>1, <2>2 DEF FiledUnderItsOwnName, TypeOK
  <2>8. PhotographsByKey'
    BY <1>1, <1>2, <2>3 DEF PhotographsByKey
  <2>9. \A t \in Uploads \ {s} : scan[t].confirmed => scan[t].record # c
    BY <1>5, IdentityAssumption DEF ConfirmedWithItsRecord, NoRecord
  <2>10. \A t \in Uploads : scan[t].confirmed => scan[t].record \in Verifies
    BY DEF ConfirmedWithItsRecord, TypeOK, ScanRow
  <2>11. ConfirmedWithItsRecord'
    <3>1. \A d \in Verifies \ {c} : record'[d] = record[d]
      BY <2>2 DEF TypeOK
    <3>2. ASSUME NEW t \in Uploads \ {s}, scan'[t].confirmed
          PROVE  /\ scan'[t].record # None
                 /\ record'[scan'[t].record].from = t
                 /\ record'[scan'[t].record].person = scan'[t].person
      BY <2>3, <2>9, <2>10, <3>1, <3>2 DEF ConfirmedWithItsRecord
    <3>3. ASSUME NEW t \in Uploads \ {s}, ~scan'[t].confirmed, NEW d \in Verifies
          PROVE  record'[d].from # t
      BY <2>2, <2>3, <3>1, <3>3 DEF ConfirmedWithItsRecord
    <3>4. c # None
      BY IdentityAssumption
    <3> QED
      BY <2>2, <2>3, <3>2, <3>3, <3>4 DEF ConfirmedWithItsRecord
  <2> QED
    BY <1>3, <2>4, <2>5, <2>6, <2>7, <2>8, <2>11
<1>7. CASE DemoVerify(c)
  <2>1. /\ scan' = scan
        /\ record'[c].from = None
        /\ record' = [record EXCEPT ![c] = record'[c]]
        /\ verifying' = [verifying EXCEPT ![c] = "done"]
    BY <1>7 DEF DemoVerify, VerifyGoto, TypeOK
  <2>2. HeldWhenDone' /\ PhotographsByKey'
    BY <1>1, <1>2, <2>1 DEF HeldWhenDone, PhotographsByKey
  <2>3. AttachedScanStays'
    BY <1>1, <2>1 DEF AttachedScanStays, IsDemo, TypeOK
  <2>4. OneRecordPerRequest' /\ FiledUnderItsOwnName'
    BY <1>1, <2>1 DEF OneRecordPerRequest, FiledUnderItsOwnName, TypeOK
  <2>5. \A t \in Uploads : scan[t].confirmed => scan[t].record # c
    BY <1>5, IdentityAssumption DEF ConfirmedWithItsRecord, NoRecord
  <2>6. ConfirmedWithItsRecord'
    <3>1. \A d \in Verifies \ {c} : record'[d] = record[d]
      BY <2>1 DEF TypeOK
    <3>2. record'[c].from = record[c].from
      BY <1>5, <2>1 DEF NoRecord
    <3>3. \A t \in Uploads : scan[t].confirmed => scan[t].record \in Verifies \ {c}
      BY <2>5 DEF ConfirmedWithItsRecord, TypeOK, ScanRow
    <3> QED
      BY <2>1, <3>1, <3>2, <3>3 DEF ConfirmedWithItsRecord
  <2> QED
    BY <1>3, <2>2, <2>3, <2>4, <2>6
<1>8. CASE VerifyParty(c) \/ ReadPending(c) \/ CheckUnverified(c) \/ StopVerify(c)
  <2>1. UNCHANGED <<scan, record>> /\ verifying' = [verifying EXCEPT ![c] = verifying'[c]]
    BY <1>8 DEF VerifyParty, ReadPending, CheckUnverified, StopVerify, VerifyGoto, TypeOK
  <2>2. verifying[c] # "done" /\ verifying'[c] # "done"
    BY <1>8 DEF VerifyParty, ReadPending, CheckUnverified, StopVerify, VerifyGoto, TypeOK
  <2>3. verifying'[c] = "write" /\ ~IsDemo(c) =>
          /\ scan[ask[c].from].held
          /\ scan[ask[c].from].person \in {Nobody, ask[c].person}
    BY <1>8 DEF VerifyParty, ReadPending, CheckUnverified, StopVerify, VerifyGoto, TypeOK,
                Confirmable
  <2>4. verifying'[c] = "write" /\ ~IsDemo(c) => upload[ask[c].from] \in {Nobody, ask[c].person}
    BY <1>4, <2>3, IdentityAssumption DEF AttachedScanStays, IsDemo, TypeOK, Owners
  <2>5. AttachedScanStays'
    BY <1>1, <2>1, <2>3, <2>4 DEF AttachedScanStays, IsDemo, TypeOK
  <2>6. OneRecordPerRequest'
    BY <2>1, <2>2 DEF OneRecordPerRequest, TypeOK
  <2>7. /\ HeldWhenDone' /\ PhotographsByKey'
        /\ FiledUnderItsOwnName' /\ ConfirmedWithItsRecord'
    BY <1>1, <1>2, <2>1
    DEF HeldWhenDone, PhotographsByKey, FiledUnderItsOwnName, ConfirmedWithItsRecord
  <2> QED
    BY <1>3, <2>5, <2>6, <2>7
<1> QED
  BY <1>6, <1>7, <1>8

LEMMA NextIInv == TypeOK /\ IInv /\ [Next]_vars => IInv'
<1> SUFFICES ASSUME TypeOK, IInv, [Next]_vars PROVE IInv'
  OBVIOUS
<1>1. CASE UNCHANGED vars \/ \E p \in Persons : RemoveParty(p)
  BY <1>1
  DEF vars, RemoveParty, IInv, HeldWhenDone, AttachedScanStays, OneRecordPerRequest, IsDemo, Key,
      PhotographsByKey, StoredOnceRead, FiledUnderItsOwnName, ConfirmedWithItsRecord
<1> QED
  BY <1>1, UploadStep, VerifyStep DEF Next

-----------------------------------------------------------------------------
\* Identity never leaves its inductive invariant, for any number of requests.
THEOREM IdentityInvariant == Spec => [](TypeOK /\ IInv)
<1>1. Init => TypeOK /\ IInv
  BY InitTypeOK, InitIInv
<1>2. TypeOK /\ IInv /\ [Next]_vars => (TypeOK /\ IInv)'
  BY NextTypeOK, NextIInv
<1> QED
  BY <1>1, <1>2, PTL DEF Spec

\* Uploads, scans, records and persons keep their types, however requests interleave.
THEOREM IdentityTyping == Spec => []TypeOK
BY IdentityInvariant, PTL

\* confirmIdentityScan: a document scanned as one person's is never made
\* evidence about another.
THEOREM OwnName == Spec => []FiledUnderItsOwnName
BY IdentityInvariant, PTL DEF IInv

\* The $transaction of confirmIdentityScan: marked confirmed exactly when there
\* is a record.
THEOREM WithItsRecord == Spec => []ConfirmedWithItsRecord
BY IdentityInvariant, PTL DEF IInv

\* storeReadAndHold and the two keys: what is read, and what is under a scan's
\* key, was uploaded for the same person.
THEOREM OwnPhotographs == Spec => []PhotographsDoNotMix
<1>1. TypeOK /\ IInv => PhotographsDoNotMix
  <2> SUFFICES ASSUME TypeOK, IInv, NEW s \in Uploads,
                      NEW photo \in {scan[s].read, object[Key(s)]} \ {None}
               PROVE  upload[photo] = upload[s] /\ (upload[s] = Nobody => photo = s)
    BY DEF PhotographsDoNotMix
  <2>1. photo \in Uploads
    BY KeyType DEF TypeOK, Photos, ScanRow
  <2>2. Key(photo) = Key(s)
    BY <2>1 DEF IInv, PhotographsByKey
  <2> QED
    BY <2>1, <2>2, KeyOwner
<1> QED
  BY <1>1, IdentityInvariant, PTL

\* storeReadAndHold stores before it reads: no record without a photograph.
THEOREM Photographed == Spec => []RecordHasAPhotograph
<1>1. TypeOK /\ IInv => RecordHasAPhotograph
  BY DEF IInv, HeldWhenDone, OneRecordPerRequest, StoredOnceRead, RecordHasAPhotograph, TypeOK,
         Record, NoRecord
<1> QED
  BY <1>1, IdentityInvariant, PTL
=============================================================================
