---------------------------- MODULE SigningProofs ----------------------------
(***************************************************************************)
(* Signing, for every number of Sends, forms, parties and signers, and     *)
(* whatever faults: its types, its safety invariants and the monotonicity  *)
(* of an envelope's status.                                                *)
(***************************************************************************)
EXTENDS Signing, Facts

-----------------------------------------------------------------------------
(* Types *)

LEMMA InitTypeOK == Init => TypeOK
  BY MaxSignersAssumption
  DEF Init, TypeOK, VendorInit, VendorTypeOK, Document, NoDocument, Deliveries,
      SendState, Steps, Running, Envelope, NoEnvelope, TxStatus, Request

LEMMA GotoType ==
  ASSUME TypeOK, NEW s \in Sends, NEW p \in Steps, Goto(s, p)
  PROVE  send' \in [Sends -> SendState]
  BY DEF TypeOK, Goto, SendState

LEMMA OnlySend ==
  ASSUME TypeOK, UNCHANGED <<req, db, calls, parties, doc, inbox>>,
         send' \in [Sends -> SendState]
  PROVE  TypeOK'
  BY DEF TypeOK, VendorTypeOK, db

LEMMA SendStateTarget ==
  ASSUME NEW x \in SendState, NEW p \in Steps, NEW e \in Sends
  PROVE  [x EXCEPT !.pc = p, !.target = e] \in SendState
  BY DEF SendState

LEMMA SendStateSigners ==
  ASSUME NEW x \in SendState, NEW p \in Steps, NEW l \in Seq(Parties)
  PROVE  [x EXCEPT !.pc = p, !.signers = l] \in SendState
  BY DEF SendState

LEMMA EnvelopeSent ==
  ASSUME NEW x \in Envelope, NEW l \in Seq(Parties), NEW b \in BOOLEAN
  PROVE  [x EXCEPT !.status = "sent", !.signers = l, !.invited = b] \in Envelope
  BY DEF Envelope, Statuses

LEMMA EnvelopeMoved ==
  ASSUME NEW x \in Envelope, NEW st \in Statuses, NEW b \in BOOLEAN
  PROVE  [x EXCEPT !.status = st, !.held = b] \in Envelope
  BY DEF Envelope

LEMMA DocumentPrepared ==
  ASSUME NEW ps \in SUBSET Parties
  PROVE  [NoDocument EXCEPT !.state = "prepared", !.roles = ps] \in Document
<1>1. NoDocument \in Document
  BY MaxSignersAssumption DEF Document, NoDocument, Deliveries
<1>2. ASSUME NEW x \in Document
      PROVE  [x EXCEPT !.state = "prepared", !.roles = ps] \in Document
  BY DEF Document
<1> QED BY <1>1, <1>2

LEMMA DocumentInvited ==
  ASSUME NEW x \in Document, NEW l \in Seq(Parties), NEW m \in Deliveries, NEW b \in BOOLEAN
  PROVE  [x EXCEPT !.state = "invited", !.asked = l, !.mode = m, !.open = b] \in Document
  BY DEF Document

LEMMA DocumentSigned ==
  ASSUME NEW x \in Document, NEW k \in 0 .. MaxSigners, NEW b \in BOOLEAN,
         NEW st \in {"invited", "complete"}
  PROVE  [x EXCEPT !.signed = k, !.state = st, !.open = b] \in Document
  BY DEF Document

LEMMA DocumentMoved ==
  ASSUME NEW x \in Document, NEW b \in BOOLEAN
  PROVE  /\ [x EXCEPT !.open = b] \in Document
         /\ [x EXCEPT !.state = "declined", !.open = b] \in Document
         /\ [x EXCEPT !.state = "expired", !.open = b] \in Document
  BY DEF Document

LEMMA LookUpType ==
  ASSUME TypeOK, NEW s \in Sends, LookUp(s) PROVE TypeOK'
<1>1. CASE Goto(s, "parties")
  BY <1>1, GotoType, OnlySend DEF LookUp, Steps, Running
<1>2. CASE Goto(s, "refused")
  BY <1>2, GotoType, OnlySend DEF LookUp, Steps, Running
<1>3. ASSUME NEW e \in Sends, send' = [send EXCEPT ![s].pc = "parties", ![s].target = e]
      PROVE  TypeOK'
  <2>1. [send[s] EXCEPT !.pc = "parties", !.target = e] \in SendState
    <3>1. send[s] \in SendState /\ "parties" \in Steps
      BY DEF TypeOK, Steps, Running
    <3> QED BY <3>1, SendStateTarget
  <2>2. send' = [send EXCEPT ![s] = [@ EXCEPT !.pc = "parties", !.target = e]]
    BY <1>3
  <2>3. send' \in [Sends -> SendState]
    BY <2>1, <2>2 DEF TypeOK
  <2> QED BY <2>3, OnlySend DEF LookUp
<1> QED BY <1>1, <1>2, <1>3 DEF LookUp, Holding

LEMMA ReadPartiesType ==
  ASSUME TypeOK, NEW s \in Sends, ReadParties(s) PROVE TypeOK'
<1>1. CASE Goto(s, "refused")
  BY <1>1, GotoType, OnlySend DEF ReadParties, Steps, Running
<1>2. ASSUME NEW p \in Steps, send' = [send EXCEPT ![s].pc = p, ![s].signers = parties]
      PROVE  TypeOK'
  <2>1. parties \in Seq(Parties)
    BY SigningAssumption DEF TypeOK
  <2>2. [send[s] EXCEPT !.pc = p, !.signers = parties] \in SendState
    BY <2>1, SendStateSigners DEF TypeOK
  <2>3. send' = [send EXCEPT ![s] = [@ EXCEPT !.pc = p, !.signers = parties]]
    BY <1>2
  <2>4. send' \in [Sends -> SendState]
    BY <2>2, <2>3 DEF TypeOK
  <2> QED BY <2>4, OnlySend DEF ReadParties
<1>3. ("prepare" \in Steps) /\ ("invite" \in Steps) BY DEF Steps, Running
<1> QED BY <1>1, <1>2, <1>3 DEF ReadParties

LEMMA PrepareType ==
  ASSUME TypeOK, NEW s \in Sends, Prepare(s) PROVE TypeOK'
<1>1. send' \in [Sends -> SendState]
  BY GotoType DEF Prepare, Steps, Running
<1>2. doc' \in [Sends -> Document]
  <2>1. send[s].signers \in Seq(Parties)
    BY DEF TypeOK, SendState
  <2>2. Ids(send[s].signers) \subseteq Parties
    BY <2>1 DEF Ids
  <2>3. [NoDocument EXCEPT !.state = "prepared", !.roles = Ids(send[s].signers)] \in Document
    BY <2>2, DocumentPrepared
  <2> QED BY <2>3 DEF TypeOK, VendorTypeOK, Prepare, UploadDocument
<1> QED BY <1>1, <1>2 DEF TypeOK, VendorTypeOK, Prepare, UploadDocument, db

LEMMA PersistType ==
  ASSUME TypeOK, NEW s \in Sends, Persist(s) PROVE TypeOK'
<1>1. send' \in [Sends -> SendState]
  BY GotoType DEF Persist, Steps, Running
<1>2. send[s].signers \in Seq(Parties)
  BY DEF TypeOK, SendState
<1>3. [status |-> "created", held |-> TRUE, signers |-> send[s].signers, invited |-> FALSE]
        \in Envelope
  BY <1>2 DEF Envelope, Statuses
<1>4. row' \in [Sends -> Envelope]
  BY <1>3 DEF TypeOK, Persist
<1> QED BY <1>1, <1>4 DEF TypeOK, VendorTypeOK, Persist

LEMMA InviteType ==
  ASSUME TypeOK, IInv, NEW s \in Sends, Invite(s) PROVE TypeOK'
<1>1. send' \in [Sends -> SendState]
  BY GotoType DEF Invite, Steps, Running
<1>2. CASE UNCHANGED <<doc, inbox>>
  BY <1>1, <1>2 DEF TypeOK, VendorTypeOK, Invite, db
<1>3. CASE AcceptInvite(send[s].target, send[s].signers, req[s].delivery)
  <2> DEFINE e == send[s].target
             list == send[s].signers
  <2>1. e \in Sends /\ list \in Seq(Parties) /\ req[s].delivery \in Deliveries
    BY SigningAssumption DEF TypeOK, SendState, Request
  <2>2. list \in Invitable
    BY DEF Invite, IInv, SendsAreWhereTheySay, IsWhereItSays
  <2>3. 1 \in 1 .. MaxSigners
    BY <2>2, SigningAssumption, MaxSignersAssumption
  <2>4. inbox' \subseteq Notes
    BY <1>3, <2>1, <2>3 DEF TypeOK, VendorTypeOK, AcceptInvite, Notes, Note
  <2>5. doc[e] \in Document
    BY <2>1 DEF TypeOK, VendorTypeOK
  <2>6. [doc[e] EXCEPT !.state = "invited", !.asked = list, !.mode = req[s].delivery,
                       !.open = (req[s].delivery = "email")] \in Document
    BY <2>1, <2>5, DocumentInvited
  <2>7. doc' \in [Sends -> Document]
    BY <1>3, <2>6, <2>1 DEF TypeOK, VendorTypeOK, AcceptInvite
  <2> QED BY <1>1, <2>4, <2>7 DEF TypeOK, VendorTypeOK, Invite, db
<1> QED BY <1>2, <1>3 DEF Invite

LEMMA MarkSentType ==
  ASSUME TypeOK, NEW s \in Sends, MarkSent(s) PROVE TypeOK'
<1>1. send' \in [Sends -> SendState]
  BY GotoType DEF MarkSent, Steps, Running
<1>2. send[s].signers \in Seq(Parties) /\ send[s].target \in Sends
  BY DEF TypeOK, SendState
<1> DEFINE e == send[s].target
           v == [row[e] EXCEPT !.status = "sent", !.signers = send[s].signers,
                               !.invited = (req[s].delivery = "embedded")]
<1>3. v \in Envelope
  BY <1>2, EnvelopeSent DEF TypeOK, Statuses
<1>4. row' = [row EXCEPT ![e] = v] \/ row' = row
  BY DEF MarkSent
<1>5. row' \in [Sends -> Envelope]
  BY <1>2, <1>3, <1>4 DEF TypeOK
<1> QED BY <1>1, <1>5 DEF TypeOK, VendorTypeOK, MarkSent

LEMMA SetStatusType ==
  ASSUME TypeOK, NEW s \in Sends, SetStatus(s) PROVE TypeOK'
<1>1. send' \in [Sends -> SendState]
  BY GotoType DEF SetStatus, Steps, Running
<1> QED BY <1>1 DEF TypeOK, VendorTypeOK, SetStatus, TxStatus

LEMMA SendFaultType ==
  ASSUME TypeOK, NEW s \in Sends, SendFault(s) PROVE TypeOK'
  BY GotoType, OnlySend DEF SendFault, Steps

LEMMA MintLinkType ==
  ASSUME TypeOK, NEW e \in Sends, NEW turn \in 1 .. MaxSigners, MintLink(e, turn)
  PROVE  TypeOK'
<1>1. doc[e] \in Document
  BY DEF TypeOK, VendorTypeOK
<1>2. [doc[e] EXCEPT !.open = TRUE] \in Document
  BY <1>1, DocumentMoved
<1>3. doc' \in [Sends -> Document]
  BY <1>2 DEF TypeOK, VendorTypeOK, MintLink, GrantLink
<1> QED BY <1>3 DEF TypeOK, VendorTypeOK, MintLink, GrantLink, db

LEMMA ReceiveType ==
  ASSUME TypeOK, NEW n \in Notes, Receive(n) PROVE TypeOK'
  BY DEF TypeOK, VendorTypeOK, Receive, Answer, Call, Calling, db

LEMMA RecordEventType ==
  ASSUME TypeOK, NEW n \in Notes, RecordEvent(n) PROVE TypeOK'
<1>1. calls' \subseteq Call
  BY DEF TypeOK, RecordEvent, Call, Calling
<1>2. events' \in [Notes -> Nat]
  BY DEF TypeOK, RecordEvent
<1>3. inbox' \subseteq Notes
  BY DEF TypeOK, VendorTypeOK, RecordEvent, Answer
<1> QED BY <1>1, <1>2, <1>3 DEF TypeOK, VendorTypeOK, RecordEvent

LEMMA NextStatus ==
  ASSUME NEW n \in Notes
  PROVE  /\ n.doc \in Sends
         /\ StatusForEvent[n.type] \in {"sent", "signed", "completed"} \cup Terminal
         /\ StatusForEvent[n.type] \in Statuses
  BY DEF Notes, StatusForEvent, Statuses, Terminal

LEMMA MoveEnvelopeType ==
  ASSUME TypeOK, NEW n \in Notes, MoveEnvelope(n) PROVE TypeOK'
<1> DEFINE next == StatusForEvent[n.type]
           v == [row[n.doc] EXCEPT !.status = next,
                                   !.held = row[n.doc].held /\ next \notin Terminal]
<1>1. row[n.doc] \in Envelope /\ (row[n.doc].held /\ next \notin Terminal) \in BOOLEAN
  BY NextStatus DEF TypeOK, Envelope
<1>2. v \in Envelope
  BY <1>1, NextStatus, EnvelopeMoved
<1>3. row' = [row EXCEPT ![n.doc] = v] \/ row' = row
  BY DEF MoveEnvelope
<1>4. row' \in [Sends -> Envelope]
  BY <1>2, <1>3 DEF TypeOK
<1>5. calls' \subseteq Call /\ inbox' \subseteq Notes
  BY DEF TypeOK, VendorTypeOK, MoveEnvelope, Answer
<1> QED BY <1>4, <1>5 DEF TypeOK, VendorTypeOK, MoveEnvelope

LEMMA OtherCallbackType ==
  ASSUME TypeOK,
         \/ \E n \in Notes : DeliveryAbandoned(n)
         \/ \E c \in calls : WebhookFault(c)
         \/ EditParties
         \/ UNCHANGED vars
  PROVE  TypeOK'
  BY DEF TypeOK, VendorTypeOK, DeliveryAbandoned, WebhookFault, EditParties, db, vars

LEMMA VendorType ==
  ASSUME TypeOK, IInv, NEW d \in Sends, Vendor(d) PROVE TypeOK'
<1>0. doc[d] \in Document /\ inbox \subseteq Notes
  BY DEF TypeOK, VendorTypeOK
<1>1. doc' \in [Sends -> Document] /\ inbox' \subseteq Notes
  <2>1. CASE SignerSigns(d)
    <3> DEFINE turn == doc[d].signed + 1
               last == turn = Len(doc[d].asked)
    <3>1. turn \in 1 .. MaxSigners
      BY <2>1, <1>0, MaxSignersAssumption
      DEF SignerSigns, Document, IInv, SignersTakeTurns
    <3>2. [doc[d] EXCEPT !.signed = turn,
                         !.state = IF last THEN "complete" ELSE "invited",
                         !.open = (~last /\ doc[d].mode = "email")] \in Document
      <4>1. (IF last THEN "complete" ELSE "invited") \in {"invited", "complete"}
        OBVIOUS
      <4>2. (~last /\ doc[d].mode = "email") \in BOOLEAN
        OBVIOUS
      <4>3. turn \in 0 .. MaxSigners
        BY <3>1, MaxSignersAssumption
      <4> HIDE DEF turn, last
      <4> QED BY <4>1, <4>2, <4>3, <1>0, DocumentSigned
    <3>3. Note(d, "signed", turn) \in Notes /\ Note(d, "complete", 0) \in Notes
      BY <3>1 DEF Note, Notes
    <3>4. ~last => Note(d, "sent", turn + 1) \in Notes
      BY <2>1, <1>0, <3>1, MaxSignersAssumption
      DEF SignerSigns, Document, IInv, SignersTakeTurns, Note, Notes
    <3>5. doc' \in [Sends -> Document]
      BY <2>1, <3>2 DEF SignerSigns, TypeOK, VendorTypeOK
    <3>6. inbox' \subseteq Notes
      BY <2>1, <1>0, <3>3, <3>4 DEF SignerSigns
    <3> QED BY <3>5, <3>6
  <2>2. CASE SignerDeclines(d)
    BY <2>2, <1>0, DocumentMoved DEF SignerDeclines, TypeOK, VendorTypeOK, Note, Notes
  <2>3. CASE InviteExpires(d)
    BY <2>3, <1>0, DocumentMoved DEF InviteExpires, TypeOK, VendorTypeOK, Note, Notes
  <2>4. CASE LinkLapses(d)
    BY <2>4, <1>0, DocumentMoved DEF LinkLapses, TypeOK, VendorTypeOK
  <2> QED BY <2>1, <2>2, <2>3, <2>4 DEF Vendor, VendorStep
<1> QED BY <1>1 DEF TypeOK, VendorTypeOK, Vendor, db

-----------------------------------------------------------------------------
(* The inductive invariant *)

LEMMA InitIInv == Init => IInv
  BY DEF Init, VendorInit, IInv, CallbacksAreTrue, SignersTakeTurns, OneHolderPerForm,
         SendsAreWhereTheySay, IsWhereItSays, NoSignerWithoutARow, RowBehindVendor, IsBehindVendor,
         InviteIdsAreTheInvites, OutMeansAsked, NoDocument, NoEnvelope, Asked, Binding,
         Terminal

LEMMA OnlySendIInv ==
  ASSUME IInv, UNCHANGED <<req, db, calls, parties, doc, inbox>>, SendsAreWhereTheySay'
  PROVE  IInv'
  BY DEF IInv, CallbacksAreTrue, Tells, SignersTakeTurns, OneHolderPerForm, SameForm,
         NoSignerWithoutARow, RowBehindVendor, IsBehindVendor, InviteIdsAreTheInvites, OutMeansAsked,
         Asked, Binding, db

LEMMA OnlyCallsIInv ==
  ASSUME IInv, UNCHANGED <<req, send, row, tx, doc>>, CallbacksAreTrue'
  PROVE  IInv'
  BY DEF IInv, SendsAreWhereTheySay, IsWhereItSays, SignersTakeTurns, OneHolderPerForm, SameForm,
         NoSignerWithoutARow, RowBehindVendor, IsBehindVendor, InviteIdsAreTheInvites, OutMeansAsked,
         Asked, Binding

LEMMA OthersStay ==
  ASSUME TypeOK, IInv, UNCHANGED <<row, doc>>, NEW s \in Sends,
         \A t \in Sends \ {s} : send'[t] = send[t], IsWhereItSays(s)'
  PROVE  SendsAreWhereTheySay'
  BY DEF IInv, SendsAreWhereTheySay, IsWhereItSays, Asked

LEMMA LookUpIInv ==
  ASSUME TypeOK, IInv, NEW s \in Sends, LookUp(s) PROVE IInv'
<1>1. send[s].pc = "lookup" /\ send[s].target = s /\ send \in [Sends -> SendState]
  BY DEF LookUp, TypeOK, IInv, SendsAreWhereTheySay, IsWhereItSays
<1>2. UNCHANGED <<req, db, calls, parties, doc, inbox>>
  BY DEF LookUp
<1>3. row[s].status = "absent" /\ doc[s].state = "none"
  BY <1>1 DEF IInv, SendsAreWhereTheySay, IsWhereItSays
<1>4. CASE Goto(s, "parties") \/ Goto(s, "refused")
  <2>1. send'[s].pc \in {"parties", "refused"} /\ send'[s].target = s
    BY <1>1, <1>4 DEF Goto, SendState
  <2>2. IsWhereItSays(s)'
    BY <1>2, <1>3, <2>1 DEF IsWhereItSays, db
  <2>3. \A t \in Sends \ {s} : send'[t] = send[t]
    BY <1>1, <1>4 DEF Goto
  <2> QED BY <1>2, <2>2, <2>3, OthersStay, OnlySendIInv DEF db
<1>5. ASSUME NEW e \in Holding(req[s].form), row[e].status = "created",
             send' = [send EXCEPT ![s].pc = "parties", ![s].target = e]
      PROVE  IInv'
  <2>1. send'[s] = [send[s] EXCEPT !.pc = "parties", !.target = e]
    BY <1>1, <1>5
  <2>2. send'[s].pc = "parties" /\ send'[s].target = e
    BY <1>1, <2>1 DEF SendState
  <2>3. IsWhereItSays(s)'
    BY <1>2, <1>3, <1>5, <2>2 DEF IsWhereItSays, db
  <2>4. \A t \in Sends \ {s} : send'[t] = send[t]
    BY <1>1, <1>5
  <2> QED BY <1>2, <2>3, <2>4, OthersStay, OnlySendIInv DEF db
<1> QED BY <1>4, <1>5 DEF LookUp

LEMMA ReadPartiesIInv ==
  ASSUME TypeOK, IInv, NEW s \in Sends, ReadParties(s) PROVE IInv'
<1>1. SendsAreWhereTheySay'
  BY DEF TypeOK, SendState, IInv, SendsAreWhereTheySay, IsWhereItSays, ReadParties, Goto, db, Asked
<1> QED BY <1>1, OnlySendIInv DEF ReadParties

LEMMA SendFaultIInv ==
  ASSUME TypeOK, IInv, NEW s \in Sends, SendFault(s) PROVE IInv'
<1>1. SendsAreWhereTheySay'
  BY DEF TypeOK, SendState, IInv, SendsAreWhereTheySay, IsWhereItSays, SendFault, Goto, db, Asked
<1> QED BY <1>1, OnlySendIInv DEF SendFault

LEMMA TellsStill ==
  ASSUME UNCHANGED doc, NEW n \in Notes, Tells(n) PROVE Tells(n)'
  BY DEF Tells, Asked

LEMMA CallbackIInv ==
  ASSUME TypeOK, IInv,
         \/ \E n \in Notes : Receive(n) \/ RecordEvent(n) \/ DeliveryAbandoned(n)
         \/ \E c \in calls : WebhookFault(c)
         \/ EditParties
         \/ UNCHANGED vars
  PROVE  IInv'
<1>1. UNCHANGED <<req, send, row, tx, doc>>
  BY DEF Receive, RecordEvent, DeliveryAbandoned, WebhookFault, EditParties, db, vars
<1>2. inbox' \subseteq inbox
  BY DEF Receive, RecordEvent, DeliveryAbandoned, WebhookFault, EditParties, Answer, vars
<1>3. \A c \in calls' : c.note \in inbox \/ \E b \in calls : c.note = b.note
  <2>1. ASSUME NEW n \in Notes, Receive(n)
        PROVE  \A c \in calls' : c \in calls \/ c.note \in inbox
    BY <2>1 DEF Receive, Calling
  <2>2. ASSUME NEW n \in Notes, RecordEvent(n)
        PROVE  \A c \in calls' : c \in calls \/ (\E b \in calls : c.note = b.note)
    <3>1. Calling("insert", n) \in calls /\ Calling("insert", n).note = n
      BY <2>2 DEF RecordEvent, Calling
    <3>2. \A c \in calls' : c \in calls \/ c.note = n
      BY <2>2 DEF RecordEvent, Calling
    <3> QED BY <3>1, <3>2
  <2>3. (\E n \in Notes : DeliveryAbandoned(n)) \/ (\E c \in calls : WebhookFault(c))
          \/ EditParties \/ UNCHANGED vars => calls' \subseteq calls
    BY DEF DeliveryAbandoned, WebhookFault, EditParties, vars
  <2> QED BY <2>1, <2>2, <2>3
<1>4. inbox \subseteq Notes /\ \A c \in calls : c.note \in Notes
  BY DEF TypeOK, VendorTypeOK, Call
<1>5. CallbacksAreTrue'
  BY <1>1, <1>2, <1>3, <1>4, TellsStill DEF IInv, CallbacksAreTrue
<1> QED BY <1>1, <1>5, OnlyCallsIInv

\* What a step may do to a document, as far as the rest is concerned.
Onward(d) ==
  /\ Asked(d) => Asked(d)' /\ doc'[d].asked = doc[d].asked
  /\ doc'[d].signed >= doc[d].signed
  /\ doc[d].state \in {"complete", "declined", "expired"} => doc'[d].state = doc[d].state

LEMMA OnwardTells ==
  ASSUME TypeOK, TypeOK', \A d \in Sends : Onward(d), NEW n \in Notes, Tells(n)
  PROVE  Tells(n)'
<1>1. n.doc \in Sends /\ (n.type \in {"sent", "signed"} => n.turn \in 1 .. MaxSigners)
  BY DEF Notes
<1>2. doc[n.doc].signed \in Nat /\ doc'[n.doc].signed \in Nat
  BY <1>1, MaxSignersAssumption DEF TypeOK, VendorTypeOK, Document
<1>3. /\ Asked(n.doc) => Asked(n.doc)'
      /\ doc'[n.doc].signed >= doc[n.doc].signed
      /\ doc[n.doc].state \in {"complete", "declined", "expired"}
           => doc'[n.doc].state = doc[n.doc].state
  BY <1>1 DEF Onward
<1>4. CASE n.type = "sent"
  BY <1>3, <1>4 DEF Tells
<1>6. CASE n.type = "signed"
  <2>1. n.turn \in Nat /\ n.turn <= doc[n.doc].signed /\ Asked(n.doc)
    BY <1>1, <1>6, MaxSignersAssumption DEF Tells
  <2>2. n.turn <= doc'[n.doc].signed /\ Asked(n.doc)'
    BY <1>2, <1>3, <2>1
  <2> QED BY <1>6, <2>2 DEF Tells
<1>5. CASE n.type \in {"complete", "decline", "expired"}
  BY <1>3, <1>5 DEF Tells
<1> QED BY <1>4, <1>5, <1>6 DEF Notes

LEMMA OnlyDocIInv ==
  ASSUME TypeOK, TypeOK', IInv, UNCHANGED <<req, row, calls, tx>>,
         \A d \in Sends : Onward(d),
         \A n \in inbox' : n \in inbox \/ Tells(n)',
         \A d \in Sends : Asked(d)' => Asked(d) \/ (row[d].status # "absent" /\ row[d].held),
         \A d \in Sends : Binding(d)' => Binding(d) \/ (row[d].status # "absent" /\ row[d].held),
         SignersTakeTurns', SendsAreWhereTheySay'
  PROVE  IInv'
<1>1. CallbacksAreTrue'
  BY OnwardTells DEF IInv, CallbacksAreTrue, TypeOK, VendorTypeOK, Call
<1>2. OneHolderPerForm'
  BY DEF IInv, OneHolderPerForm, SameForm
<1>3. NoSignerWithoutARow'
  BY DEF IInv, NoSignerWithoutARow
<1>4. RowBehindVendor'
  <2>1. \A d \in Sends : doc[d].signed \in Nat /\ doc'[d].signed \in Nat
    BY MaxSignersAssumption DEF TypeOK, VendorTypeOK, Document
  <2> QED BY <2>1 DEF IInv, RowBehindVendor, IsBehindVendor, Onward, Terminal
<1>5. InviteIdsAreTheInvites'
  BY DEF IInv, InviteIdsAreTheInvites, Onward
<1>6. OutMeansAsked'
  BY DEF IInv, OutMeansAsked, Onward
<1> QED BY <1>1, <1>2, <1>3, <1>4, <1>5, <1>6 DEF IInv

LEMMA OthersStayOnward ==
  ASSUME TypeOK, IInv, UNCHANGED row, NEW s \in Sends,
         \A t \in Sends \ {s} : send'[t] = send[t],
         \A d \in Sends : Onward(d),
         \A d \in Sends : doc'[d] = doc[d] \/ d = s \/ row[d].status # "absent",
         IsWhereItSays(s)'
  PROVE  SendsAreWhereTheySay'
<1> SUFFICES ASSUME NEW t \in Sends \ {s} PROVE IsWhereItSays(t)'
  BY DEF SendsAreWhereTheySay
<1>1. send'[t] = send[t] /\ send[t].target \in Sends
  BY DEF TypeOK, SendState
<1> QED BY <1>1 DEF IInv, SendsAreWhereTheySay, IsWhereItSays, Onward

LEMMA PrepareIInv ==
  ASSUME TypeOK, TypeOK', IInv, NEW s \in Sends, Prepare(s) PROVE IInv'
<1>1. /\ send[s].pc = "prepare" /\ send[s].target = s /\ send[s].signers \in Invitable
      /\ row[s].status = "absent" /\ doc[s].state = "none"
  BY DEF Prepare, IInv, SendsAreWhereTheySay, IsWhereItSays
<1>2. /\ doc' = [doc EXCEPT ![s] = [NoDocument EXCEPT !.state = "prepared",
                                                       !.roles = Ids(send[s].signers)]]
      /\ UNCHANGED <<req, row, tx, calls, inbox>>
  BY DEF Prepare, UploadDocument, db
<1>3. doc'[s].state = "prepared" /\ doc'[s].signed = 0
  BY <1>2 DEF TypeOK, VendorTypeOK, NoDocument
<1>4. \A d \in Sends \ {s} : doc'[d] = doc[d]
  BY <1>2 DEF TypeOK, VendorTypeOK
<1>5. /\ send'[s] = [send[s] EXCEPT !.pc = "persist"]
      /\ \A t \in Sends \ {s} : send'[t] = send[t]
  BY DEF TypeOK, Prepare, Goto
<1>6. send'[s].pc = "persist" /\ send'[s].target = s /\ send'[s].signers = send[s].signers
  BY <1>1, <1>5 DEF TypeOK, SendState
<1>7. \A d \in Sends : Onward(d)
  <2>1. doc[s].signed = 0
    BY <1>1 DEF IInv, SignersTakeTurns, Asked
  <2>2. \A d \in Sends : doc[d].signed \in Nat
    BY MaxSignersAssumption DEF TypeOK, VendorTypeOK, Document
  <2> QED BY <1>1, <1>3, <1>4, <2>1, <2>2 DEF Onward, Asked
<1>8. /\ \A d \in Sends : Asked(d)' => Asked(d)
      /\ \A d \in Sends : Binding(d)' => Binding(d)
  BY <1>3, <1>4 DEF Asked, Binding
<1>9. SignersTakeTurns'
  BY <1>3, <1>4 DEF IInv, SignersTakeTurns, Asked
<1>10. SendsAreWhereTheySay'
  <2>1. IsWhereItSays(s)'
    BY <1>1, <1>2, <1>6 DEF IsWhereItSays
  <2> QED BY <1>2, <1>4, <1>5, <1>7, <2>1, OthersStayOnward
<1>11. \A n \in inbox' : n \in inbox
  BY <1>2
<1>12. UNCHANGED <<req, row, calls, tx>>
  BY <1>2
<1> QED BY <1>7, <1>8, <1>9, <1>10, <1>11, <1>12, OnlyDocIInv

LEMMA SignedNat ==
  ASSUME TypeOK, NEW d \in Sends PROVE doc[d].signed \in 0 .. MaxSigners /\ doc[d].signed \in Nat
  BY MaxSignersAssumption DEF TypeOK, VendorTypeOK, Document

LEMMA OneDocOnward ==
  ASSUME TypeOK, NEW e \in Sends, \A d \in Sends \ {e} : doc'[d] = doc[d], Onward(e)
  PROVE  \A d \in Sends : Onward(d)
<1> SUFFICES ASSUME NEW d \in Sends \ {e} PROVE Onward(d)
  OBVIOUS
<1>1. doc'[d] = doc[d] /\ doc[d].signed \in Nat
  BY SignedNat
<1> QED BY <1>1 DEF Onward, Asked

LEMMA OnlyDocSendsStay ==
  ASSUME TypeOK, IInv, UNCHANGED <<row, send>>,
         \A d \in Sends : Onward(d),
         \A d \in Sends : doc'[d] = doc[d] \/ row[d].status # "absent"
  PROVE  SendsAreWhereTheySay'
<1> SUFFICES ASSUME NEW t \in Sends PROVE IsWhereItSays(t)'
  BY DEF SendsAreWhereTheySay
<1>1. send'[t] = send[t] /\ send[t].target \in Sends
  BY DEF TypeOK, SendState
<1> QED BY <1>1 DEF IInv, SendsAreWhereTheySay, IsWhereItSays, Onward

LEMMA InviteIInv ==
  ASSUME TypeOK, TypeOK', IInv, NEW s \in Sends, Invite(s) PROVE IInv'
<1> DEFINE e == send[s].target
           list == send[s].signers
<1>1. /\ send[s].pc = "invite" /\ e \in Sends /\ list \in Invitable
      /\ row[e].status # "absent"
  BY DEF Invite, IInv, SendsAreWhereTheySay, IsWhereItSays, TypeOK, SendState
<1>2. UNCHANGED <<req, row, calls, tx>> /\ \A t \in Sends \ {s} : send'[t] = send[t]
  BY DEF Invite, Goto, TypeOK, db
<1>3. CASE AcceptInvite(e, list, req[s].delivery) /\ Goto(s, "mark")
  <2>1. /\ doc[e].state = "prepared"
        /\ doc'[e] = [doc[e] EXCEPT !.state = "invited", !.asked = list,
                                    !.mode = req[s].delivery,
                                    !.open = (req[s].delivery = "email")]
        /\ \A d \in Sends \ {e} : doc'[d] = doc[d]
    BY <1>1, <1>3 DEF AcceptInvite, InviteAccepted, TypeOK, VendorTypeOK
  <2>2. doc[e] \in Document
    BY <1>1 DEF TypeOK, VendorTypeOK
  <2>3. doc'[e].state = "invited" /\ doc'[e].asked = list /\ doc'[e].signed = doc[e].signed
    BY <2>1, <2>2 DEF Document
  <2>4. doc[e].signed = 0
    BY <1>1, <2>1 DEF IInv, SignersTakeTurns, Asked
  <2>5. \A d \in Sends : Onward(d)
    <3>1. doc[e].signed \in Nat
      BY <1>1, SignedNat
    <3>2. Onward(e)
      BY <2>1, <2>3, <3>1 DEF Onward, Asked
    <3> HIDE DEF e, list
    <3> QED BY <1>1, <2>1, <3>2, OneDocOnward
  <2>6. row[e].held
    BY <1>1, <2>1 DEF IInv, RowBehindVendor, IsBehindVendor, Terminal
  <2>7. \A d \in Sends : Asked(d)' => Asked(d) \/ (row[d].status # "absent" /\ row[d].held)
    BY <1>1, <2>1, <2>6 DEF Asked
  <2>8. \A d \in Sends : Binding(d)' => Binding(d) \/ (row[d].status # "absent" /\ row[d].held)
    BY <1>1, <2>1, <2>6 DEF Binding
  <2>9. \A n \in inbox' : n \in inbox \/ Tells(n)'
    <3>1. inbox' = inbox \cup {Note(e, "sent", 1)}
      BY <1>3 DEF AcceptInvite
    <3>2. ASSUME NEW n, n = Note(e, "sent", 1) PROVE Tells(n)'
      BY <2>3, <3>2 DEF Tells, Note, Asked
    <3> QED BY <3>1, <3>2
  <2>10. SignersTakeTurns'
    <3>1. Len(list) \in 1 .. MaxSigners
      BY <1>1, SigningAssumption
    <3>2. 0 < Len(list)
      BY <3>1, MaxSignersAssumption
    <3> SUFFICES ASSUME NEW d \in Sends
                 PROVE  /\ ~Asked(d)' => doc'[d].signed = 0
                        /\ doc'[d].state = "invited" =>
                             /\ Len(doc'[d].asked) \in 1 .. MaxSigners
                             /\ doc'[d].signed < Len(doc'[d].asked)
      BY DEF SignersTakeTurns
    <3>3. CASE d = e
      BY <2>3, <2>4, <3>1, <3>2, <3>3
    <3>4. CASE d # e
      BY <2>1, <3>4 DEF IInv, SignersTakeTurns, Asked
    <3> QED BY <3>3, <3>4
  <2>11. send'[s] = [send[s] EXCEPT !.pc = "mark"]
    BY <1>3 DEF Goto, TypeOK
  <2>12. send'[s].pc = "mark" /\ send'[s].target = e /\ send'[s].signers = list
    BY <2>11 DEF TypeOK, SendState
  <2>13. IsWhereItSays(s)'
    BY <1>1, <1>2, <2>3, <2>12 DEF IsWhereItSays, Asked
  <2>14. \A d \in Sends : doc'[d] = doc[d] \/ d = s \/ row[d].status # "absent"
    BY <1>1, <2>1
  <2>15. SendsAreWhereTheySay'
    BY <1>2, <2>5, <2>13, <2>14, OthersStayOnward
  <2> HIDE DEF e, list
  <2> QED BY <1>2, <2>5, <2>7, <2>8, <2>9, <2>10, <2>15, OnlyDocIInv
<1>4. CASE UNCHANGED <<doc, inbox>> /\ Goto(s, "failed")
  <2>1. send'[s].pc = "failed"
    BY <1>4 DEF Goto, TypeOK, SendState
  <2>2. IsWhereItSays(s)'
    BY <2>1 DEF IsWhereItSays
  <2> QED BY <1>2, <1>4, <2>2, OthersStay, OnlySendIInv DEF Invite, db
<1> QED BY <1>3, <1>4 DEF Invite

LEMMA MintLinkIInv ==
  ASSUME TypeOK, TypeOK', IInv, NEW e \in Sends, NEW turn \in 1 .. MaxSigners,
         MintLink(e, turn)
  PROVE  IInv'
<1>1. /\ doc'[e] = [doc[e] EXCEPT !.open = TRUE]
      /\ \A d \in Sends \ {e} : doc'[d] = doc[d]
      /\ UNCHANGED <<req, send, row, calls, tx, inbox>>
  BY DEF MintLink, GrantLink, TypeOK, VendorTypeOK, db
<1>2. /\ doc'[e].state = doc[e].state /\ doc'[e].signed = doc[e].signed
      /\ doc'[e].asked = doc[e].asked /\ row[e].status # "absent"
  BY <1>1 DEF MintLink, TypeOK, VendorTypeOK, Document
<1>3. \A d \in Sends : Onward(d)
  <2>1. doc[e].signed \in Nat
    BY SignedNat
  <2>2. Onward(e)
    BY <1>2, <2>1 DEF Onward, Asked
  <2> QED BY <1>1, <2>2, OneDocOnward
<1>4. /\ \A d \in Sends : Asked(d)' => Asked(d)
      /\ \A d \in Sends : Binding(d)' => Binding(d)
  BY <1>1, <1>2 DEF Asked, Binding
<1>5. SignersTakeTurns'
  BY <1>1, <1>2 DEF IInv, SignersTakeTurns, Asked
<1>6. SendsAreWhereTheySay'
  BY <1>1, <1>2, <1>3, OnlyDocSendsStay
<1>7. \A n \in inbox' : n \in inbox
  BY <1>1
<1>8. UNCHANGED <<req, row, calls, tx>>
  BY <1>1
<1> QED BY <1>3, <1>4, <1>5, <1>6, <1>7, <1>8, OnlyDocIInv

LEMMA VendorIInv ==
  ASSUME TypeOK, TypeOK', IInv, NEW e \in Sends, Vendor(e) PROVE IInv'
<1>1. UNCHANGED <<req, send, row, calls, tx>>
  BY DEF Vendor, db
<1>2. /\ doc[e] \in Document /\ doc[e].state = "invited"
      /\ \A d \in Sends \ {e} : doc'[d] = doc[d]
  BY DEF Vendor, VendorStep, SignerSigns, SignerDeclines, InviteExpires, LinkLapses,
         TypeOK, VendorTypeOK
<1>3. row[e].status # "absent" /\ row[e].held
  BY <1>2 DEF IInv, NoSignerWithoutARow, Asked, Binding
<1>4. /\ Len(doc[e].asked) \in 1 .. MaxSigners /\ doc[e].signed < Len(doc[e].asked)
      /\ doc[e].signed \in Nat
  BY <1>2, SignedNat DEF IInv, SignersTakeTurns
<1>5. /\ doc'[e].asked = doc[e].asked
      /\ doc'[e].signed \in Nat /\ doc'[e].signed >= doc[e].signed
      /\ doc'[e].state \in {"invited", "complete", "declined", "expired"}
      /\ doc'[e].state = "invited" => doc'[e].signed < Len(doc[e].asked)
      /\ \A n \in inbox' : n \in inbox \/ Tells(n)'
  <2>1. CASE SignerSigns(e)
    <3> DEFINE turn == doc[e].signed + 1
               last == turn = Len(doc[e].asked)
    <3>1. doc'[e] = [doc[e] EXCEPT !.signed = turn,
                                   !.state = IF last THEN "complete" ELSE "invited",
                                   !.open = (~last /\ doc[e].mode = "email")]
      BY <2>1 DEF SignerSigns, TypeOK, VendorTypeOK
    <3>2. /\ doc'[e].asked = doc[e].asked /\ doc'[e].signed = turn
          /\ doc'[e].state = IF last THEN "complete" ELSE "invited"
      BY <3>1, <1>2 DEF Document
    <3>3. \A n \in inbox' : \/ n \in inbox
                            \/ n = Note(e, "signed", turn)
                            \/ last /\ n = Note(e, "complete", 0)
                            \/ ~last /\ n = Note(e, "sent", turn + 1)
      BY <2>1 DEF SignerSigns
    <3>4. turn \in Nat /\ (~last => turn < Len(doc[e].asked)) /\ turn >= doc[e].signed
      BY <1>4, MaxSignersAssumption
    <3> HIDE DEF turn, last
    <3>5. ASSUME NEW n, n = Note(e, "signed", turn) PROVE Tells(n)'
      BY <3>2, <3>4, <3>5 DEF Tells, Note, Asked
    <3>6. ASSUME NEW n, last /\ n = Note(e, "complete", 0) PROVE Tells(n)'
      BY <3>2, <3>6 DEF Tells, Note
    <3>7. ASSUME NEW n, ~last /\ n = Note(e, "sent", turn + 1) PROVE Tells(n)'
      BY <3>2, <3>7 DEF Tells, Note, Asked
    <3> QED BY <3>2, <3>3, <3>4, <3>5, <3>6, <3>7
  <2>2. CASE SignerDeclines(e)
    <3>1. /\ doc'[e] = [doc[e] EXCEPT !.state = "declined", !.open = FALSE]
          /\ \A n \in inbox' : n \in inbox \/ n = Note(e, "decline", 0)
      BY <2>2 DEF SignerDeclines, TypeOK, VendorTypeOK
    <3>2. doc'[e].asked = doc[e].asked /\ doc'[e].signed = doc[e].signed
            /\ doc'[e].state = "declined"
      BY <3>1, <1>2 DEF Document
    <3>3. ASSUME NEW n, n = Note(e, "decline", 0) PROVE Tells(n)'
      BY <3>2, <3>3 DEF Tells, Note
    <3> QED BY <3>1, <3>2, <3>3, <1>4
  <2>3. CASE InviteExpires(e)
    <3>1. /\ doc'[e] = [doc[e] EXCEPT !.state = "expired", !.open = FALSE]
          /\ \A n \in inbox' : n \in inbox \/ n = Note(e, "expired", 0)
      BY <2>3 DEF InviteExpires, TypeOK, VendorTypeOK
    <3>2. doc'[e].asked = doc[e].asked /\ doc'[e].signed = doc[e].signed
            /\ doc'[e].state = "expired"
      BY <3>1, <1>2 DEF Document
    <3>3. ASSUME NEW n, n = Note(e, "expired", 0) PROVE Tells(n)'
      BY <3>2, <3>3 DEF Tells, Note
    <3> QED BY <3>1, <3>2, <3>3, <1>4
  <2>4. CASE LinkLapses(e)
    <3>1. doc'[e] = [doc[e] EXCEPT !.open = FALSE] /\ inbox' = inbox
      BY <2>4 DEF LinkLapses, TypeOK, VendorTypeOK
    <3>2. doc'[e].asked = doc[e].asked /\ doc'[e].signed = doc[e].signed
            /\ doc'[e].state = "invited"
      BY <3>1, <1>2 DEF Document
    <3> QED BY <3>1, <3>2, <1>4
  <2> QED BY <2>1, <2>2, <2>3, <2>4 DEF Vendor, VendorStep
<1>6. \A d \in Sends : Onward(d)
  <2>1. Onward(e)
    BY <1>2, <1>5 DEF Onward, Asked
  <2> QED BY <1>2, <2>1, OneDocOnward
<1>7. \A d \in Sends : Asked(d)' => Asked(d) \/ (row[d].status # "absent" /\ row[d].held)
  BY <1>2, <1>3 DEF Asked
<1>8. \A d \in Sends : Binding(d)' => Binding(d) \/ (row[d].status # "absent" /\ row[d].held)
  BY <1>2, <1>3 DEF Binding
<1>9. SignersTakeTurns'
  <2> SUFFICES ASSUME NEW d \in Sends
               PROVE  /\ ~Asked(d)' => doc'[d].signed = 0
                      /\ doc'[d].state = "invited" =>
                           /\ Len(doc'[d].asked) \in 1 .. MaxSigners
                           /\ doc'[d].signed < Len(doc'[d].asked)
    BY DEF SignersTakeTurns
  <2>1. CASE d = e
    BY <1>4, <1>5, <2>1 DEF Asked
  <2>2. CASE d # e
    BY <1>2, <2>2 DEF IInv, SignersTakeTurns, Asked
  <2> QED BY <2>1, <2>2
<1>10. SendsAreWhereTheySay'
  BY <1>1, <1>2, <1>3, <1>6, OnlyDocSendsStay
<1>11. UNCHANGED <<req, row, calls, tx>>
  BY <1>1
<1>12. \A n \in inbox' : n \in inbox \/ Tells(n)'
  BY <1>5
<1> QED BY <1>6, <1>7, <1>8, <1>9, <1>10, <1>11, <1>12, OnlyDocIInv

LEMMA OneRowIInv ==
  ASSUME TypeOK, IInv, NEW e \in Sends,
         UNCHANGED <<req, tx, doc>>,
         \A d \in Sends \ {e} : row'[d] = row[d],
         row'[e].held => row[e].held \/ Holding(req[e].form) = {},
         Asked(e) => row'[e].status # "absent",
         Binding(e) => row'[e].held,
         IsBehindVendor(e)',
         row'[e].invited => Asked(e) /\ row'[e].signers = doc[e].asked,
         SendsAreWhereTheySay', CallbacksAreTrue'
  PROVE  IInv'
<1>1. OneHolderPerForm'
  <2> SUFFICES ASSUME NEW c \in Sends, NEW d \in Sends, c # d, SameForm(c, d)',
                      row'[c].held, row'[d].held
               PROVE  FALSE
    BY DEF OneHolderPerForm
  <2>1. req[c].form = req[d].form
    BY DEF SameForm
  <2>2. ~(row[c].held /\ row[d].held)
    BY <2>1 DEF IInv, OneHolderPerForm, SameForm
  <2>3. CASE c = e
    BY <2>1, <2>2, <2>3 DEF Holding
  <2>4. CASE d = e
    BY <2>1, <2>2, <2>4 DEF Holding
  <2>5. CASE c # e /\ d # e
    BY <2>2, <2>5
  <2> QED BY <2>3, <2>4, <2>5
<1>2. NoSignerWithoutARow'
  <2> SUFFICES ASSUME NEW d \in Sends
               PROVE  /\ Asked(d)' => row'[d].status # "absent"
                      /\ Binding(d)' => row'[d].held
    BY DEF NoSignerWithoutARow
  <2>1. Asked(d)' = Asked(d) /\ Binding(d)' = Binding(d)
    BY DEF Asked, Binding
  <2>2. CASE d = e
    BY <2>1, <2>2
  <2>3. CASE d # e
    BY <2>1, <2>3 DEF IInv, NoSignerWithoutARow
  <2> QED BY <2>2, <2>3
<1>3. RowBehindVendor'
  <2> SUFFICES ASSUME NEW d \in Sends, d # e PROVE IsBehindVendor(d)'
    BY DEF RowBehindVendor
  <2>1. IsBehindVendor(d) /\ row'[d] = row[d]
    BY DEF IInv, RowBehindVendor
  <2> QED BY <2>1 DEF IsBehindVendor, Asked
<1>4. InviteIdsAreTheInvites'
  BY DEF IInv, InviteIdsAreTheInvites, Asked
<1>5. SignersTakeTurns' /\ OutMeansAsked'
  BY DEF IInv, SignersTakeTurns, OutMeansAsked, Asked
<1> QED BY <1>1, <1>2, <1>3, <1>4, <1>5 DEF IInv

LEMMA SameCallbacks ==
  ASSUME TypeOK, IInv, UNCHANGED <<doc, inbox, calls>> PROVE CallbacksAreTrue'
  BY TellsStill DEF IInv, CallbacksAreTrue, TypeOK, VendorTypeOK, Call

LEMMA PersistIInv ==
  ASSUME TypeOK, TypeOK', IInv, NEW s \in Sends, Persist(s) PROVE IInv'
<1>1. /\ send[s].pc = "persist" /\ send[s].target = s /\ send[s].signers \in Invitable
      /\ row[s].status = "absent"
  BY DEF Persist, IInv, SendsAreWhereTheySay, IsWhereItSays
<1>2. ~Asked(s) /\ ~Binding(s)
  BY <1>1 DEF IInv, NoSignerWithoutARow, Asked, Binding
<1>3. UNCHANGED <<req, events, tx, calls, parties, doc, inbox>>
  BY DEF Persist
<1>4. CASE /\ Holding(req[s].form) = {}
           /\ row' = [row EXCEPT ![s] = [status |-> "created", held |-> TRUE,
                                         signers |-> send[s].signers, invited |-> FALSE]]
           /\ Goto(s, "invite")
  <2>1. /\ row'[s].status = "created" /\ row'[s].held /\ ~row'[s].invited
        /\ \A d \in Sends \ {s} : row'[d] = row[d]
    BY <1>4 DEF TypeOK
  <2>2. /\ send'[s] = [send[s] EXCEPT !.pc = "invite"]
        /\ \A t \in Sends \ {s} : send'[t] = send[t]
    BY <1>4 DEF Goto, TypeOK
  <2>3. send'[s].pc = "invite" /\ send'[s].target = s /\ send'[s].signers \in Invitable
    BY <1>1, <2>2 DEF TypeOK, SendState
  <2>4. IsWhereItSays(s)'
    BY <2>1, <2>3 DEF IsWhereItSays
  <2>5. SendsAreWhereTheySay'
    <3> SUFFICES ASSUME NEW t \in Sends \ {s} PROVE IsWhereItSays(t)'
      BY <2>4 DEF SendsAreWhereTheySay
    <3>1. send'[t] = send[t] /\ row'[t] = row[t] /\ IsWhereItSays(t) /\ send[t].target \in Sends
      BY <2>1, <2>2 DEF IInv, SendsAreWhereTheySay, TypeOK, SendState
    <3>2. row'[send[t].target] = row[send[t].target] \/ row'[send[t].target].status = "created"
      BY <2>1, <3>1
    <3> QED BY <1>3, <3>1, <3>2 DEF IsWhereItSays, Asked
  <2>6. IsBehindVendor(s)'
    BY <2>1 DEF IsBehindVendor, Terminal
  <2> QED BY <1>2, <1>3, <1>4, <2>1, <2>5, <2>6, OneRowIInv, SameCallbacks
<1>5. CASE Goto(s, "refused") /\ UNCHANGED row
  <2>1. send'[s].pc = "refused" /\ \A t \in Sends \ {s} : send'[t] = send[t]
    BY <1>5 DEF Goto, TypeOK, SendState
  <2>2. IsWhereItSays(s)'
    BY <2>1 DEF IsWhereItSays
  <2> QED BY <1>3, <1>5, <2>1, <2>2, OthersStay, OnlySendIInv DEF db
<1> QED BY <1>4, <1>5 DEF Persist

LEMMA RowMovedSends ==
  ASSUME TypeOK, IInv, UNCHANGED <<doc>>, NEW e \in Sends,
         \A d \in Sends \ {e} : row'[d] = row[d],
         row[e].status # "absent", row'[e].status # "absent",
         NEW t \in Sends, send'[t] = send[t]
  PROVE  IsWhereItSays(t)'
<1>1. IsWhereItSays(t) /\ send[t].target \in Sends
  BY DEF IInv, SendsAreWhereTheySay, TypeOK, SendState
<1>2. \A d \in Sends : (row'[d].status = "absent") = (row[d].status = "absent")
  OBVIOUS
<1> QED BY <1>1, <1>2 DEF IsWhereItSays, Asked

LEMMA MarkSentIInv ==
  ASSUME TypeOK, TypeOK', IInv, NEW s \in Sends, MarkSent(s) PROVE IInv'
<1> SUFFICES ASSUME NEW e \in Sends, e = send[s].target PROVE IInv'
  BY DEF TypeOK, SendState
<1>1. /\ send[s].pc = "mark" /\ e \in Sends /\ row[e].status # "absent"
      /\ Asked(e) /\ doc[e].asked = send[s].signers
  BY DEF MarkSent, IInv, SendsAreWhereTheySay, IsWhereItSays, TypeOK, SendState
<1>2. UNCHANGED <<req, events, tx, calls, parties, doc, inbox>>
  BY DEF MarkSent
<1>3. /\ send'[s] = [send[s] EXCEPT !.pc = "status"]
      /\ \A t \in Sends \ {s} : send'[t] = send[t]
  BY DEF MarkSent, Goto, TypeOK
<1>4. send'[s].pc = "status" /\ send'[s].target = e
  BY <1>3 DEF TypeOK, SendState
<1>5. /\ \A d \in Sends \ {e} : row'[d] = row[d]
      /\ row'[e] = row[e] \/ (/\ row[e].status = "created"
                              /\ row'[e] = [row[e] EXCEPT !.status = "sent",
                                              !.signers = send[s].signers,
                                              !.invited = (req[s].delivery = "embedded")])
  BY <1>1 DEF MarkSent, TypeOK
<1>0. row[e] \in Envelope
  BY DEF TypeOK
<1>6. /\ row'[e].held = row[e].held /\ row'[e].status # "absent"
      /\ row'[e] = row[e] \/ (/\ row[e].status = "created" /\ row'[e].status = "sent"
                              /\ row'[e].signers = send[s].signers)
  BY <1>0, <1>1, <1>5 DEF Envelope
<1>7. IsBehindVendor(e) /\ (Binding(e) => row[e].held)
        /\ (row[e].invited => row[e].signers = doc[e].asked)
  BY <1>1 DEF IInv, RowBehindVendor, NoSignerWithoutARow, InviteIdsAreTheInvites
<1>8. IsBehindVendor(e)'
  BY <1>1, <1>2, <1>6, <1>7 DEF IsBehindVendor, Asked, Terminal
<1>9. IsWhereItSays(s)'
  BY <1>1, <1>2, <1>4, <1>6 DEF IsWhereItSays, Asked
<1>10. SendsAreWhereTheySay'
  BY <1>1, <1>2, <1>3, <1>5, <1>6, <1>9, RowMovedSends DEF SendsAreWhereTheySay
<1> QED BY <1>1, <1>2, <1>5, <1>6, <1>7, <1>8, <1>10, OneRowIInv, SameCallbacks

\* What a callback about to move an envelope means is so at signNow.
LEMMA EventIsSo ==
  ASSUME TypeOK, IInv, NEW n \in Notes, MoveEnvelope(n)
  PROVE  /\ StatusForEvent[n.type] = "sent" => Asked(n.doc)
         /\ StatusForEvent[n.type] = "signed" => doc[n.doc].signed > 0
         /\ StatusForEvent[n.type] = "completed" => doc[n.doc].state = "complete"
         /\ StatusForEvent[n.type] \in Terminal => doc[n.doc].state = StatusForEvent[n.type]
<1> DEFINE next == StatusForEvent[n.type]
<1>1. Tells(n)
  <2>1. Calling("move", n) \in calls /\ Calling("move", n).note = n
    BY DEF MoveEnvelope, Calling
  <2> QED BY <2>1 DEF IInv, CallbacksAreTrue
<1>2. /\ next = "sent" => n.type = "sent"
      /\ next = "signed" => n.type = "signed"
      /\ next = "completed" => n.type = "complete"
      /\ next = "declined" => n.type = "decline"
      /\ next = "expired" => n.type = "expired"
  BY DEF StatusForEvent, Notes
<1> HIDE DEF next
<1>3. next = "sent" => Asked(n.doc)
  BY <1>1, <1>2 DEF Tells
<1>4. next = "signed" => doc[n.doc].signed > 0
  <2>1. n.type = "signed" => n.turn \in 1 .. MaxSigners
    BY DEF Notes
  <2>2. n.type = "signed" => n.turn \in Nat /\ n.turn >= 1
    BY <2>1, MaxSignersAssumption
  <2>3. n.type = "signed" => n.turn <= doc[n.doc].signed
    BY <1>1 DEF Tells
  <2>4. doc[n.doc].signed \in Nat
    BY NextStatus, SignedNat
  <2> QED BY <1>2, <2>2, <2>3, <2>4
<1>5. next = "completed" => doc[n.doc].state = "complete"
  BY <1>1, <1>2 DEF Tells
<1>6. next \in Terminal => doc[n.doc].state = next
  BY <1>1, <1>2 DEF Tells, Terminal
<1> QED BY <1>3, <1>4, <1>5, <1>6 DEF next

LEMMA MoveEnvelopeIInv ==
  ASSUME TypeOK, TypeOK', IInv, NEW n \in Notes, MoveEnvelope(n) PROVE IInv'
<1> SUFFICES ASSUME NEW e \in Sends, e = n.doc PROVE IInv'
  BY NextStatus
<1> DEFINE next == StatusForEvent[n.type]
<1>1. UNCHANGED <<req, send, events, tx, parties, doc>>
  BY DEF MoveEnvelope
<1>3. /\ \A d \in Sends \ {e} : row'[d] = row[d]
      /\ row'[e] = row[e] \/ (/\ row[e].status \in MovedFrom(next)
                              /\ row'[e] = [row[e] EXCEPT !.status = next,
                                   !.held = row[e].held /\ next \notin Terminal])
  BY DEF MoveEnvelope, TypeOK
<1>4. row[e] \in Envelope
  BY DEF TypeOK
<1>5. /\ row'[e].signers = row[e].signers /\ row'[e].invited = row[e].invited
      /\ \/ row'[e] = row[e]
         \/ /\ row[e].status \in MovedFrom(next)
            /\ row'[e].status = next /\ next \in Statuses
            /\ row'[e].held = (row[e].held /\ next \notin Terminal)
  BY <1>3, <1>4, NextStatus DEF Envelope
<1>6. row[e].status \in MovedFrom(next) => row[e].status \notin Terminal \cup {"absent"}
  BY DEF MovedFrom, Terminal, Statuses, StatusRank
<1>7. /\ IsBehindVendor(e) /\ (Asked(e) => row[e].status # "absent")
      /\ (Binding(e) => row[e].held)
      /\ (row[e].invited => Asked(e) /\ row[e].signers = doc[e].asked)
  BY DEF IInv, RowBehindVendor, NoSignerWithoutARow, InviteIdsAreTheInvites
<1>8. /\ next = "sent" => Asked(e)
      /\ next = "signed" => doc[e].signed > 0
      /\ next = "completed" => doc[e].state = "complete"
      /\ next \in Terminal => doc[e].state = next
  BY EventIsSo
<1>9. Binding(e) => next \notin Terminal
  BY <1>8 DEF Binding, Terminal
<1>10. IsBehindVendor(e)'
  <2>1. CASE row'[e] = row[e]
    BY <1>1, <1>7, <2>1 DEF IsBehindVendor, Asked
  <2>2. CASE /\ row[e].status \in MovedFrom(next) /\ row'[e].status = next
             /\ row'[e].held = (row[e].held /\ next \notin Terminal)
    <3>1. row[e].held
      BY <1>6, <1>7, <2>2 DEF IsBehindVendor
    <3>2. row'[e].held = (next \notin Terminal)
      BY <2>2, <3>1
    <3> HIDE DEF next
    <3> QED BY <1>1, <1>8, <2>2, <3>2 DEF IsBehindVendor, Asked
  <2> QED BY <1>5, <2>1, <2>2
<1>11. (row[e].status # "absent" => row'[e].status # "absent")
         /\ (row[e].status = "absent" => row'[e] = row[e])
  BY <1>5, <1>6, NextStatus DEF Statuses
<1>12. SendsAreWhereTheySay'
  <2>1. CASE row[e].status = "absent"
    <3>1. row' = row
      BY <1>3, <1>11, <2>1 DEF TypeOK
    <3> QED BY <1>1, <3>1 DEF IInv, SendsAreWhereTheySay, IsWhereItSays, Asked
  <2>2. CASE row[e].status # "absent"
    BY <1>1, <1>3, <1>11, <2>2, RowMovedSends DEF SendsAreWhereTheySay
  <2> QED BY <2>1, <2>2
<1>13. CallbacksAreTrue'
  <2>1. inbox' \subseteq inbox /\ calls' \subseteq calls
    BY DEF MoveEnvelope, Answer
  <2> QED BY <1>1, <2>1, TellsStill DEF IInv, CallbacksAreTrue, TypeOK, VendorTypeOK, Call
<1>14. row'[e].held => row[e].held
  BY <1>5
<1>15. Binding(e) => row'[e].held
  BY <1>5, <1>7, <1>9
<1>16. Asked(e) => row'[e].status # "absent"
  BY <1>7, <1>11
<1>17. row'[e].invited => Asked(e) /\ row'[e].signers = doc[e].asked
  BY <1>5, <1>7
<1> QED BY <1>1, <1>3, <1>10, <1>12, <1>13, <1>14, <1>15, <1>16, <1>17, OneRowIInv

LEMMA SetStatusIInv ==
  ASSUME TypeOK, TypeOK', IInv, NEW s \in Sends, SetStatus(s) PROVE IInv'
<1>1. UNCHANGED <<req, row, events, calls, parties, doc, inbox>>
  BY DEF SetStatus
<1>2. Asked(send[s].target) /\ send[s].target \in Sends
  BY DEF SetStatus, IInv, SendsAreWhereTheySay, IsWhereItSays, TypeOK, SendState
<1>3. send'[s].pc = "done" /\ \A t \in Sends \ {s} : send'[t] = send[t]
  BY DEF SetStatus, Goto, TypeOK, SendState
<1>4. SendsAreWhereTheySay'
  <2>1. IsWhereItSays(s)'
    BY <1>3 DEF IsWhereItSays
  <2> QED BY <1>1, <1>3, <2>1, OthersStay
<1>5. OutMeansAsked'
  BY <1>1, <1>2 DEF OutMeansAsked, Asked
<1>6. CallbacksAreTrue'
  BY <1>1, SameCallbacks
<1>7. OneHolderPerForm' /\ NoSignerWithoutARow' /\ InviteIdsAreTheInvites'
  BY <1>1 DEF IInv, OneHolderPerForm, SameForm, NoSignerWithoutARow,
              InviteIdsAreTheInvites, Asked, Binding
<1>8. RowBehindVendor' /\ SignersTakeTurns'
  BY <1>1 DEF IInv, RowBehindVendor, IsBehindVendor, SignersTakeTurns, Asked
<1> QED BY <1>4, <1>5, <1>6, <1>7, <1>8 DEF IInv

-----------------------------------------------------------------------------
(* Theorems *)

\* Every step preserves the types and the inductive invariant.
LEMMA StepIInv ==
  ASSUME TypeOK, IInv, [Next]_vars PROVE TypeOK' /\ IInv'
<1>1. ASSUME NEW s \in Sends, SendStep(s) \/ SendFault(s) PROVE TypeOK' /\ IInv'
  <2>1. CASE LookUp(s)
    BY <2>1, LookUpType, LookUpIInv
  <2>2. CASE ReadParties(s)
    BY <2>2, ReadPartiesType, ReadPartiesIInv
  <2>3. CASE Prepare(s)
    BY <2>3, PrepareType, PrepareIInv
  <2>4. CASE Persist(s)
    BY <2>4, PersistType, PersistIInv
  <2>5. CASE Invite(s)
    BY <2>5, InviteType, InviteIInv
  <2>6. CASE MarkSent(s)
    BY <2>6, MarkSentType, MarkSentIInv
  <2>7. CASE SetStatus(s)
    BY <2>7, SetStatusType, SetStatusIInv
  <2>8. CASE SendFault(s)
    BY <2>8, SendFaultType, SendFaultIInv
  <2> QED BY <1>1, <2>1, <2>2, <2>3, <2>4, <2>5, <2>6, <2>7, <2>8 DEF SendStep
<1>2. ASSUME NEW e \in Sends, NEW turn \in 1 .. MaxSigners, MintLink(e, turn)
      PROVE  TypeOK' /\ IInv'
  BY <1>2, MintLinkType, MintLinkIInv
<1>3. ASSUME NEW n \in Notes, Receive(n) \/ RecordEvent(n) \/ DeliveryAbandoned(n)
      PROVE  TypeOK' /\ IInv'
  BY <1>3, ReceiveType, RecordEventType, OtherCallbackType, CallbackIInv
<1>4. ASSUME NEW n \in Notes, MoveEnvelope(n) PROVE TypeOK' /\ IInv'
  BY <1>4, MoveEnvelopeType, MoveEnvelopeIInv
<1>5. ASSUME NEW d \in Sends, Vendor(d) PROVE TypeOK' /\ IInv'
  BY <1>5, VendorType, VendorIInv
<1>6. CASE (\E c \in calls : WebhookFault(c)) \/ EditParties \/ UNCHANGED vars
  BY <1>6, OtherCallbackType, CallbackIInv
<1> QED BY <1>1, <1>2, <1>3, <1>4, <1>5, <1>6 DEF Next

\* The types, and the inductive invariant, hold throughout: the types need it
\* (a signature beyond the last signer would be out of range).
THEOREM SigningInvariant == Spec => [](TypeOK /\ IInv)
<1>1. Init => TypeOK /\ IInv
  BY InitTypeOK, InitIInv
<1>2. (TypeOK /\ IInv) /\ [Next]_vars => (TypeOK /\ IInv)'
  BY StepIInv
<1> QED BY <1>1, <1>2, PTL DEF Spec

\* Type correctness.
THEOREM Typing == Spec => []TypeOK
  BY SigningInvariant, PTL

\* At most one contract per form can be, or has been, signed.
THEOREM OneContract == Spec => []OneContractPerForm
<1>1. IInv => OneContractPerForm
  BY DEF IInv, OneContractPerForm, OneHolderPerForm, NoSignerWithoutARow
<1> QED BY <1>1, SigningInvariant, PTL

\* Nobody is asked to sign a document the database does not know.
THEOREM SignersHaveRows == Spec => []NoSignerWithoutARow
<1>1. IInv => NoSignerWithoutARow
  BY DEF IInv
<1> QED BY <1>1, SigningInvariant, PTL

\* A row never runs ahead of signNow.
THEOREM RowsFollowVendor == Spec => []RowBehindVendor
<1>1. IInv => RowBehindVendor
  BY DEF IInv
<1> QED BY <1>1, SigningInvariant, PTL

\* Invite ids on a row are those of the invite signNow accepted.
THEOREM InviteIds == Spec => []InviteIdsAreTheInvites
<1>1. IInv => InviteIdsAreTheInvites
  BY DEF IInv
<1> QED BY <1>1, SigningInvariant, PTL

\* A transaction out for signature has somebody asked to sign.
THEOREM OutForSignature == Spec => []OutMeansAsked
<1>1. IInv => OutMeansAsked
  BY DEF IInv
<1> QED BY <1>1, SigningInvariant, PTL

-----------------------------------------------------------------------------
(* Signatures are counted by summing the rows of SignerEvent. *)

\* A body is recorded at most once, and only after the signature it tells of.
Recorded ==
  \A n \in Notes :
    /\ events[n] \in {0, 1}
    /\ events[n] = 1 /\ n.type = "signed" => n.turn <= doc[n.doc].signed

\* A document that is not there yet has no signatures to lose.
LEMMA SignaturesStay ==
  ASSUME TypeOK, IInv, [Next]_vars, NEW d \in Sends
  PROVE  doc'[d].signed >= doc[d].signed
<1>1. doc[d] \in Document /\ doc[d].signed \in Nat /\ doc \in [Sends -> Document]
  BY MaxSignersAssumption DEF TypeOK, VendorTypeOK, Document
<1>2. doc[d].state \in {"none", "prepared"} => doc[d].signed = 0
  BY DEF IInv, SignersTakeTurns, Asked
<1>3. ASSUME NEW s \in Sends, SendStep(s) \/ SendFault(s) PROVE doc'[d].signed >= doc[d].signed
  <2>1. CASE Prepare(s)
    BY <1>1, <1>2, <2>1 DEF Prepare, UploadDocument, NoDocument
  <2>2. CASE Invite(s)
    <3>0. \A x \in Document : \A mode, list, open :
            [x EXCEPT !.state = "invited", !.asked = list, !.mode = mode, !.open = open].signed = x.signed
      BY DEF Document
    <3>1. doc'[d].signed = doc[d].signed
      <4>1. CASE UNCHANGED doc
        BY <4>1
      <4>2. ASSUME NEW e \in Sends, NEW list, NEW mode, AcceptInvite(e, list, mode)
            PROVE  doc'[d].signed = doc[d].signed
        <5>1. doc' = [doc EXCEPT ![e] = [doc[e] EXCEPT !.state = "invited", !.asked = list,
                                                       !.mode = mode, !.open = (mode = "email")]]
          BY <1>1, <4>2 DEF AcceptInvite
        <5> QED
          BY <1>1, <3>0, <5>1
      <4>3. send[s].target \in Sends
        BY <1>3 DEF TypeOK, SendState
      <4> QED
        BY <2>2, <4>1, <4>2, <4>3 DEF Invite
    <3> QED
      BY <1>1, <3>1
  <2>3. CASE UNCHANGED doc
    BY <1>1, <2>3
  <2> QED
    BY <1>3, <2>1, <2>2, <2>3 DEF SendStep, SendFault, LookUp, ReadParties, Persist, MarkSent, SetStatus
<1>4. ASSUME NEW e \in Sends, NEW turn \in 1 .. MaxSigners, MintLink(e, turn)
      PROVE  doc'[d].signed >= doc[d].signed
  BY <1>1, <1>4 DEF MintLink, GrantLink, Document
<1>5. ASSUME NEW e \in Sends, Vendor(e) PROVE doc'[d].signed >= doc[d].signed
  <2>1. CASE SignerSigns(e)
    <3>1. doc'[d] = doc[d] \/ doc'[d].signed = doc[d].signed + 1
      BY <1>1, <2>1 DEF SignerSigns, Document
    <3> QED
      BY <1>1, <3>1
  <2>2. CASE SignerDeclines(e) \/ InviteExpires(e) \/ LinkLapses(e)
    BY <1>1, <2>2 DEF SignerDeclines, InviteExpires, LinkLapses, Document
  <2> QED
    BY <1>5, <2>1, <2>2 DEF Vendor, VendorStep
<1>6. CASE UNCHANGED doc
  BY <1>1, <1>6
<1> QED
  BY <1>3, <1>4, <1>5, <1>6
  DEF Next, Receive, RecordEvent, MoveEnvelope, DeliveryAbandoned, WebhookFault, EditParties, vars

LEMMA RecordedStays ==
  ASSUME TypeOK, TypeOK', IInv, [Next]_vars, Recorded PROVE Recorded'
<1> SUFFICES ASSUME NEW n \in Notes
    PROVE (/\ events[n] \in {0, 1}
           /\ events[n] = 1 /\ n.type = "signed" => n.turn <= doc[n.doc].signed)'
  BY DEF Recorded
<1>1. n.doc \in Sends /\ (n.type = "signed" => n.turn \in 1 .. MaxSigners)
  BY DEF Notes
<1>2. doc'[n.doc].signed >= doc[n.doc].signed
  BY <1>1, SignaturesStay
<1>3. doc[n.doc].signed \in Nat /\ doc'[n.doc].signed \in Nat
  BY <1>1, MaxSignersAssumption DEF TypeOK, VendorTypeOK, Document
<1>4. CASE events'[n] = events[n]
  BY <1>1, <1>2, <1>3, <1>4, MaxSignersAssumption DEF Recorded
<1>5. ASSUME NEW m \in Notes, RecordEvent(m), events'[n] # events[n]
      PROVE  /\ events'[n] = 1
             /\ n.type = "signed" => n.turn <= doc'[n.doc].signed
  <2>1. m = n /\ events'[n] = events[n] + 1 /\ ~(events[n] > 0) /\ events[n] \in Nat
    BY <1>5 DEF RecordEvent, TypeOK
  <2>2. Calling("insert", n) \in calls /\ Calling("insert", n).note = n
    BY <1>5, <2>1 DEF RecordEvent, Calling
  <2>3. Tells(n)
    BY <2>2 DEF IInv, CallbacksAreTrue
  <2>4. events'[n] = 1
    BY <2>1
  <2>5. n.type = "signed" => n.turn \in Nat /\ n.turn <= doc[n.doc].signed
    BY <1>1, <2>3, MaxSignersAssumption DEF Tells
  <2> QED
    BY <1>2, <1>3, <2>4, <2>5
<1>6. events'[n] # events[n] => \E m \in Notes : RecordEvent(m)
  BY DEF Next, SendStep, SendFault, LookUp, ReadParties, Prepare, Persist, Invite, MarkSent,
         SetStatus, MintLink, Receive, MoveEnvelope, DeliveryAbandoned, WebhookFault, Vendor,
         EditParties, vars, db
<1> QED
  BY <1>4, <1>5, <1>6

\* The bodies that tell of d's signatures differ in the turn alone.
LEMMA SignedNotes ==
  ASSUME TypeOK, Recorded, NEW d \in Sends
  PROVE  SignedEvents(d) <= doc[d].signed
<1> DEFINE S == {n \in Notes : n.doc = d /\ n.type = "signed"}
           ones == {n \in S : events[n] = 1}
           turn == [n \in S |-> n.turn]
<1>1. \A n \in S : n \in [doc : Sends, type : {"sent", "signed"}, turn : 1 .. MaxSigners]
  BY DEF Notes
<1>2. \A m, n \in S : m.turn = n.turn => m = n
  BY <1>1
<1>3. IsFiniteSet(1 .. MaxSigners)
  BY MaxSignersAssumption, FS_Interval
<1>4. turn \in Injection(S, 1 .. MaxSigners)
  BY <1>1, <1>2 DEF Injection, IsInjective
<1>5. IsFiniteSet(S)
  <2> HIDE DEF S, turn
  <2> QED
    BY <1>3, <1>4, FS_Injection
<1>6. \A n \in S : events[n] \in {0, 1}
  BY DEF Recorded
<1>7. SignedEvents(d) = Cardinality(ones)
  <2>1. SignedEvents(d) = MapThenSumSet(LAMBDA n : events[n], S)
    BY DEF SignedEvents
  <2> HIDE DEF S
  <2> QED
    BY <1>5, <1>6, <2>1, CountBySum
<1>8. doc[d].signed \in Nat
  BY MaxSignersAssumption DEF TypeOK, VendorTypeOK, Document
<1>9. IsFiniteSet(1 .. doc[d].signed) /\ Cardinality(1 .. doc[d].signed) = doc[d].signed
  <2>1. \A k \in Nat : IsFiniteSet(1 .. k) /\ Cardinality(1 .. k) = k
    <3> TAKE k \in Nat
    <3>1. Cardinality(1 .. k) = (IF 1 > k THEN 0 ELSE k - 1 + 1) /\ IsFiniteSet(1 .. k)
      BY FS_Interval
    <3> QED
      BY <3>1
  <2> QED
    BY <1>8, <2>1
<1>10. \A n \in ones : n.turn \in 1 .. doc[d].signed
  BY <1>1, <1>8, MaxSignersAssumption DEF Recorded
<1> DEFINE signed == [n \in ones |-> n.turn]
<1>11. signed \in Injection(ones, 1 .. doc[d].signed)
  BY <1>2, <1>10 DEF Injection, IsInjective
<1>12. Cardinality(ones) <= Cardinality(1 .. doc[d].signed)
  <2> HIDE DEF ones, signed
  <2> QED
    BY <1>9, <1>11, FS_Injection
<1> QED
  BY <1>7, <1>9, <1>12

\* However often a callback is delivered, and in whatever order, the signatures on record
\* are never more than signNow has.
THEOREM Counted == Spec => []SignaturesNotOvercounted
<1>1. Init => TypeOK /\ IInv /\ Recorded
  BY InitTypeOK, InitIInv DEF Init, Recorded
<1>2. (TypeOK /\ IInv /\ Recorded) /\ [Next]_vars => (TypeOK /\ IInv /\ Recorded)'
  BY StepIInv, RecordedStays
<1>3. TypeOK /\ IInv /\ Recorded => SignaturesNotOvercounted
  BY SignedNotes DEF SignaturesNotOvercounted
<1> QED BY <1>1, <1>2, <1>3, PTL DEF Spec

\* No step walks an envelope's status backwards or moves a closed one.
LEMMA StepForwards ==
  ASSUME TypeOK, IInv, [Next]_vars, NEW e \in Sends
  PROVE  /\ Reached(row'[e].status) >= Reached(row[e].status)
         /\ row[e].status \in Settled => row'[e].status = row[e].status
<1> DEFINE Onwards == /\ Reached(row'[e].status) >= Reached(row[e].status)
                      /\ row[e].status \in Settled => row'[e].status = row[e].status
<1>0. row[e] \in Envelope
  BY DEF TypeOK
<1>1. CASE row'[e].status = row[e].status
  BY <1>1 DEF Reached
<1>2. ASSUME NEW s \in Sends, Persist(s) PROVE Onwards
  <2>1. row[s].status = "absent"
    BY <1>2 DEF Persist, IInv, SendsAreWhereTheySay, IsWhereItSays
  <2>2. row'[e].status = row[e].status
          \/ (row[e].status = "absent" /\ row'[e].status = "created")
    <3>1. row' = row \/ row' = [row EXCEPT ![s] =
                                  [status |-> "created", held |-> TRUE,
                                   signers |-> send[s].signers, invited |-> FALSE]]
      BY <1>2 DEF Persist
    <3>2. CASE e = s
      BY <2>1, <3>1, <3>2 DEF TypeOK
    <3>3. CASE e # s
      BY <3>1, <3>3 DEF TypeOK
    <3> QED BY <3>2, <3>3
  <2> QED BY <1>1, <2>2 DEF Reached, Settled
<1>3. ASSUME NEW s \in Sends, MarkSent(s) PROVE Onwards
  <2>1. row'[e].status = row[e].status
          \/ (row[e].status = "created" /\ row'[e].status = "sent")
    <3>1. send[s].target \in Sends
      BY DEF TypeOK, SendState
    <3>2. row'[e] = row[e] \/ (/\ row[e].status = "created"
                              /\ row'[e] = [row[e] EXCEPT !.status = "sent",
                                              !.signers = send[s].signers,
                                              !.invited = (req[s].delivery = "embedded")])
      BY <1>3, <3>1 DEF MarkSent, TypeOK
    <3> QED BY <1>0, <3>2 DEF Envelope
  <2> QED BY <1>1, <2>1 DEF Reached, Settled
<1>4. ASSUME NEW n \in Notes, MoveEnvelope(n) PROVE Onwards
  <2> DEFINE next == StatusForEvent[n.type]
  <2>1. row'[e].status = row[e].status
          \/ (row[e].status \in MovedFrom(next) /\ row'[e].status = next)
    <3>1. row'[e] = row[e] \/ (/\ row[e].status \in MovedFrom(next)
                              /\ row'[e] = [row[e] EXCEPT !.status = next,
                                   !.held = row[e].held /\ next \notin Terminal])
      BY <1>4, NextStatus DEF MoveEnvelope, TypeOK
    <3> HIDE DEF next
    <3> QED BY <1>0, <3>1 DEF Envelope
  <2>2. /\ next \in {"sent", "signed", "completed", "declined", "expired"}
        /\ next \in Terminal => row[n.doc].status # "completed"
    BY <1>4, EventIsSo, NextStatus DEF IInv, RowBehindVendor, IsBehindVendor, Terminal
  <2> HIDE DEF next
  <2>3. CASE row[e].status \in MovedFrom(next) /\ row'[e].status = next
    <3>1. CASE next \in Terminal
      <4>1. row[e].status \in {"created", "sent", "signed", "completed"}
        BY <2>3, <3>1 DEF MovedFrom, Statuses, Terminal
      <4>2. Reached(next) = 4
        BY <3>1 DEF Terminal, Reached
      <4>3. Reached(row[e].status) <= 4 /\ Reached(row[e].status) \in Nat
        BY DEF Reached
      <4>4. row[n.doc].status # "completed"
        BY <2>2, <3>1
      <4>5. CASE e = n.doc
        BY <2>3, <4>1, <4>2, <4>3, <4>4, <4>5 DEF Settled
      <4>6. CASE e # n.doc
        <5>1. row'[e] = row[e]
          BY <1>4, <4>6 DEF MoveEnvelope, TypeOK
        <5> QED BY <1>1, <5>1
      <4> QED BY <4>5, <4>6
    <3>2. CASE next \notin Terminal
      <4>1. row[e].status \in {"created", "sent", "signed", "completed"}
              /\ StatusRank[row[e].status] < StatusRank[next]
        BY <2>3, <3>2 DEF MovedFrom, StatusRank
      <4>2. next \in {"sent", "signed", "completed"}
        BY <2>2, <3>2 DEF Terminal
      <4>3. \A st \in {"created", "sent", "signed", "completed"} :
              /\ StatusRank[st] \in Nat /\ Reached(st) = StatusRank[st] + 1
              /\ StatusRank[st] <= 3
        BY DEF StatusRank, Reached
      <4>4. StatusRank["completed"] = 3
        BY DEF StatusRank
      <4>5. row[e].status \notin Settled
        BY <4>1, <4>2, <4>3, <4>4 DEF Settled
      <4> QED BY <2>3, <4>1, <4>2, <4>3, <4>5
    <3> QED BY <3>1, <3>2
  <2> QED BY <1>1, <2>1, <2>3
<1>5. ASSUME row' = row PROVE Onwards
  BY <1>1, <1>5
<1>6. ASSUME NEW s \in Sends,
             LookUp(s) \/ ReadParties(s) \/ Prepare(s) \/ Invite(s) \/ SetStatus(s) \/ SendFault(s)
      PROVE  row' = row
  BY <1>6 DEF LookUp, ReadParties, Prepare, Invite, SetStatus, SendFault, db
<1>7. ASSUME NEW n \in Notes, Receive(n) \/ RecordEvent(n) \/ DeliveryAbandoned(n)
      PROVE  row' = row
  BY <1>7 DEF Receive, RecordEvent, DeliveryAbandoned, db
<1>8. ASSUME \/ \E d \in Sends, turn \in 1 .. MaxSigners : MintLink(d, turn)
             \/ \E c \in calls : WebhookFault(c)
             \/ \E d \in Sends : Vendor(d)
             \/ EditParties
             \/ UNCHANGED vars
      PROVE  row' = row
  BY <1>8 DEF MintLink, WebhookFault, Vendor, EditParties, vars, db
<1>9. ASSUME NEW s \in Sends, SendStep(s) \/ SendFault(s) PROVE Onwards
  <2> HIDE DEF Onwards
  <2> QED BY <1>2, <1>3, <1>5, <1>6, <1>9 DEF SendStep
<1> HIDE DEF Onwards
<1>10. Onwards
  BY <1>4, <1>5, <1>7, <1>8, <1>9 DEF Next
<1> QED BY <1>10 DEF Onwards

\* Late, repeated and reordered callbacks never walk an envelope backwards.
THEOREM NeverBackwards == Spec => StatusNeverBackwards
<1>1. TypeOK /\ IInv /\ [Next]_vars =>
        [\A e \in Sends :
           /\ Reached(row'[e].status) >= Reached(row[e].status)
           /\ row[e].status \in Settled => row'[e].status = row[e].status]_row
  BY StepForwards
<1> QED BY <1>1, SigningInvariant, PTL DEF Spec, StatusNeverBackwards

-----------------------------------------------------------------------------
(* Signing implements FormLife. *)

Present == [f \in Forms |-> Holding(f)]
Spent == {e \in Sends : row[e].status \in Terminal}

LEMMA HeldAlone ==
  ASSUME IInv, NEW f, NEW e \in Holding(f)
  PROVE  Holding(f) = {e}
BY DEF IInv, OneHolderPerForm, SameForm, Holding

\* A held envelope's document is where its form is.
LEMMA StageOfHeld ==
  ASSUME IInv, NEW f \in Forms, NEW e \in Holding(f)
  PROVE  FormStage[f] = Stage[doc[e].state]
BY HeldAlone DEF FormStage

\* A step that keeps who holds which form moves the forms of the documents it moves.
LEMMA SameHolders ==
  ASSUME IInv, req' = req, \A e \in Sends : row'[e].held = row[e].held
  PROVE  /\ \A f : Holding(f)' = Holding(f)
         /\ Present' = Present
         /\ \A f \in Forms, e \in Sends :
              e \in Holding(f) => FormStage'[f] = Stage[doc'[e].state]
         /\ \A f \in Forms : Holding(f) = {} => FormStage'[f] = "free" /\ FormStage[f] = "free"
<1>1. \A f : Holding(f)' = Holding(f)
  BY DEF Holding
<1>2. ASSUME NEW f \in Forms, NEW e \in Sends, e \in Holding(f)
      PROVE  FormStage'[f] = Stage[doc'[e].state]
  <2>1. Holding(f)' = {e}
    BY <1>1, <1>2, HeldAlone
  <2> QED
    BY <2>1 DEF FormStage
<1>3. ASSUME NEW f \in Forms, Holding(f) = {} PROVE FormStage'[f] = "free" /\ FormStage[f] = "free"
  BY <1>1, <1>3 DEF FormStage
<1> QED
  BY <1>1, <1>2, <1>3 DEF Present

LEMMA Unseen ==
  ASSUME IInv, req' = req, \A e \in Sends : row'[e].held = row[e].held,
         \A e \in Sends : Stage[doc'[e].state] = Stage[doc[e].state],
         \A e \in Sends : row'[e].status \in Terminal <=> row[e].status \in Terminal
  PROVE  UNCHANGED <<FormStage, Present, Spent>>
<1>1. Present' = Present /\ Spent' = Spent
  BY SameHolders DEF Spent
<1>2. ASSUME NEW f \in Forms PROVE FormStage'[f] = FormStage[f]
  <2>1. CASE Holding(f) = {}
    BY <2>1, SameHolders
  <2>2. ASSUME NEW e \in Sends, e \in Holding(f) PROVE FormStage'[f] = FormStage[f]
    BY <2>2, SameHolders, StageOfHeld
  <2> QED
    BY <2>1, <2>2 DEF Holding
<1> QED
  BY <1>1, <1>2 DEF FormStage

\* Only e's document moves: so does the form it holds, and no other.
LEMMA OneMoves ==
  ASSUME TypeOK, IInv, UNCHANGED <<req, row>>, NEW e \in Sends, row[e].held,
         \A d \in Sends \ {e} : doc'[d] = doc[d]
  PROVE  /\ FormStage[req[e].form] = Stage[doc[e].state]
         /\ FormStage' = [FormStage EXCEPT ![req[e].form] = Stage[doc'[e].state]]
         /\ req[e].form \in Forms /\ UNCHANGED <<Present, Spent>>
<1> DEFINE form == req[e].form
<1>1. form \in Forms /\ e \in Holding(form)
  BY DEF TypeOK, Request, Holding
<1>2. UNCHANGED <<Present, Spent>>
  BY SameHolders DEF Spent
<1>3. FormStage[form] = Stage[doc[e].state] /\ FormStage'[form] = Stage[doc'[e].state]
  BY <1>1, StageOfHeld, SameHolders
<1>4. ASSUME NEW f \in Forms, f # form PROVE FormStage'[f] = FormStage[f]
  <2>1. CASE Holding(f) = {}
    BY <2>1, SameHolders
  <2>2. ASSUME NEW d \in Sends, d \in Holding(f) PROVE FormStage'[f] = FormStage[f]
    <3>1. d # e
      BY <1>4, <2>2 DEF Holding
    <3> QED
      BY <2>2, <3>1, SameHolders, StageOfHeld
  <2> QED
    BY <2>1, <2>2 DEF Holding
<1>5. FormStage = [f \in Forms |-> FormStage[f]] /\ FormStage' = [f \in Forms |-> FormStage'[f]]
  BY DEF FormStage
<1>6. FormStage' = [FormStage EXCEPT ![form] = Stage[doc'[e].state]]
  BY <1>1, <1>3, <1>4, <1>5
<1> QED
  BY <1>1, <1>2, <1>3, <1>6

LEMMA PersistRaises ==
  ASSUME TypeOK, IInv, NEW s \in Sends, Persist(s)
  PROVE  Life!Next \/ UNCHANGED <<FormStage, Present, Spent>>
<1> DEFINE form == req[s].form
<1>1. row[s].status = "absent" /\ form \in Forms /\ doc' = doc /\ req' = req
  BY DEF Persist, IInv, SendsAreWhereTheySay, IsWhereItSays, TypeOK, Request
<1>2. CASE row' = row
  BY <1>1, <1>2, Unseen
<1>3. CASE Holding(form) = {} /\ row' # row
  <2>1. row' = [row EXCEPT ![s] = [status |-> "created", held |-> TRUE,
                                   signers |-> send[s].signers, invited |-> FALSE]]
    BY <1>3 DEF Persist
  <2>2. /\ row'[s].status = "created" /\ row'[s].held
        /\ \A e \in Sends \ {s} : row'[e] = row[e]
    BY <2>1 DEF TypeOK
  <2>3. Holding(form)' = {s} /\ \A f \in Forms \ {form} : Holding(f)' = Holding(f)
    BY <1>1, <1>3, <2>2 DEF Holding
  <2>4. ~row[s].held
    BY <1>3 DEF Holding
  <2>5. \A f : s \notin Holding(f)
    BY <2>4 DEF Holding
  <2>6. s \notin Spent /\ Spent' = Spent
    BY <1>1, <2>2 DEF Spent, Terminal
  <2>7. Stage[doc[s].state] = "raised"
    <3>1. ~Asked(s)
      BY <1>1 DEF IInv, NoSignerWithoutARow
    <3>2. doc[s].state \in {"none", "prepared"}
      BY <3>1 DEF Asked, TypeOK, VendorTypeOK, Document
    <3> QED
      BY <3>2 DEF Stage
  <2>8. FormStage[form] = "free"
    BY <1>1, <1>3 DEF FormStage
  <2>9. FormStage' = [FormStage EXCEPT ![form] = "raised"]
    <3>1. FormStage'[form] = "raised"
      BY <1>1, <2>3, <2>7 DEF FormStage
    <3>2. ASSUME NEW f \in Forms \ {form} PROVE FormStage'[f] = FormStage[f]
      <4>1. CASE Holding(f) = {}
        BY <2>3, <4>1 DEF FormStage
      <4>2. ASSUME NEW e \in Sends, e \in Holding(f) PROVE FormStage'[f] = FormStage[f]
        <5>1. Holding(f) = {e} /\ Holding(f)' = {e}
          BY <2>3, <4>2, HeldAlone
        <5> QED
          BY <1>1, <5>1 DEF FormStage
      <4> QED
        BY <4>1, <4>2 DEF Holding
    <3>3. FormStage = [f \in Forms |-> FormStage[f]] /\ FormStage' = [f \in Forms |-> FormStage'[f]]
      BY DEF FormStage
    <3> QED
      BY <1>1, <3>1, <3>2, <3>3
  <2>10. Present' = [Present EXCEPT ![form] = {s}]
    BY <1>1, <2>3 DEF Present
  <2>11. s \notin Spent \cup UNION {Present[g] : g \in Forms}
    BY <2>5, <2>6 DEF Present
  <2>12. Life!Raise(form, s)
    BY <2>6, <2>8, <2>9, <2>10, <2>11 DEF Life!Raise, Life!Becomes, Present, Spent
  <2> QED
    BY <1>1, <2>12 DEF Life!Next
<1> QED
  BY <1>2, <1>3 DEF Persist

LEMMA DocumentStates == ASSUME TypeOK, NEW d \in Sends PROVE doc[d] \in Document
BY DEF TypeOK, VendorTypeOK

LEMMA InviteAsks ==
  ASSUME TypeOK, TypeOK', IInv, IInv', NEW s \in Sends, Invite(s)
  PROVE  Life!Next \/ UNCHANGED <<FormStage, Present, Spent>>
<1> DEFINE e == send[s].target
<1>1. e \in Sends /\ UNCHANGED <<req, row>>
  BY DEF Invite, TypeOK, SendState, db
<1>2. CASE UNCHANGED doc
  BY <1>1, <1>2, Unseen
<1>3. CASE AcceptInvite(e, send[s].signers, req[s].delivery)
  <2>1. doc[e].state = "prepared" /\ \A d \in Sends \ {e} : doc'[d] = doc[d]
    BY <1>1, <1>3 DEF AcceptInvite, InviteAccepted, TypeOK, VendorTypeOK
  <2>2. doc'[e].state = "invited"
    <3>1. doc[e] \in Document
      BY <1>1, DocumentStates
    <3> QED
      BY <1>1, <1>3, <3>1 DEF AcceptInvite, TypeOK, VendorTypeOK, Document
  <2>3. row[e].held
    <3>1. row'[e].held
      BY <1>1, <2>2 DEF IInv, NoSignerWithoutARow, Binding
    <3> QED
      BY <1>1, <3>1
  <2>4. Life!Ask(req[e].form)
    BY <1>1, <2>1, <2>2, <2>3, OneMoves DEF Life!Ask, Life!Becomes, Present, Spent, Stage
  <2>5. req[e].form \in Forms
    BY <1>1 DEF TypeOK, Request
  <2> QED
    BY <2>4, <2>5 DEF Life!Next
<1> QED
  BY <1>2, <1>3 DEF Invite

LEMMA VendorMoves ==
  ASSUME TypeOK, TypeOK', IInv, NEW e \in Sends, Vendor(e)
  PROVE  Life!Next \/ UNCHANGED <<FormStage, Present, Spent>>
<1>1. UNCHANGED <<req, row>>
  BY DEF Vendor, db
<1>2. /\ doc[e] \in Document /\ doc[e].state = "invited"
      /\ \A d \in Sends \ {e} : doc'[d] = doc[d]
  BY DEF Vendor, VendorStep, SignerSigns, SignerDeclines, InviteExpires, LinkLapses,
         TypeOK, VendorTypeOK
<1>3. row[e].held
  BY <1>2 DEF IInv, NoSignerWithoutARow, Binding
<1>4. doc'[e].state \in {"invited", "complete", "declined", "expired"}
  <2>1. CASE SignerSigns(e)
    BY <1>2, <2>1 DEF SignerSigns, TypeOK, VendorTypeOK, Document
  <2>2. CASE SignerDeclines(e)
    BY <1>2, <2>2 DEF SignerDeclines, TypeOK, VendorTypeOK, Document
  <2>3. CASE InviteExpires(e)
    BY <1>2, <2>3 DEF InviteExpires, TypeOK, VendorTypeOK, Document
  <2>4. CASE LinkLapses(e)
    BY <1>2, <2>4 DEF LinkLapses, TypeOK, VendorTypeOK, Document
  <2> QED
    BY <2>1, <2>2, <2>3, <2>4 DEF Vendor, VendorStep
<1>5. /\ FormStage[req[e].form] = "out" /\ req[e].form \in Forms
      /\ FormStage' = [FormStage EXCEPT ![req[e].form] = Stage[doc'[e].state]]
      /\ UNCHANGED <<Present, Spent>>
  BY <1>1, <1>2, <1>3, OneMoves DEF Stage
<1>6. CASE doc'[e].state = "invited"
  <2>1. \A d \in Sends : Stage[doc'[d].state] = Stage[doc[d].state]
    BY <1>2, <1>6
  <2> QED
    BY <1>1, <2>1, Unseen
<1>7. CASE doc'[e].state = "complete"
  <2>1. Life!Execute(req[e].form)
    BY <1>5, <1>7 DEF Life!Execute, Life!Becomes, Present, Spent, Stage
  <2> QED
    BY <1>5, <2>1 DEF Life!Next
<1>8. CASE doc'[e].state \in {"declined", "expired"}
  <2>0. Stage[doc'[e].state] = "fallen"
    BY <1>8 DEF Stage
  <2>1. Life!Fall(req[e].form)
    BY <1>5, <2>0 DEF Life!Fall, Life!Becomes, Present, Spent
  <2> QED
    BY <1>5, <2>1 DEF Life!Next
<1> QED
  BY <1>4, <1>6, <1>7, <1>8

LEMMA MarkSentUnseen ==
  ASSUME TypeOK, IInv, NEW s \in Sends, MarkSent(s)
  PROVE  UNCHANGED <<FormStage, Present, Spent>>
<1> DEFINE e == send[s].target
<1>1. e \in Sends /\ UNCHANGED <<req, doc>>
  BY DEF MarkSent, TypeOK, SendState
<1>2. row[e] \in Envelope /\ \A d \in Sends \ {e} : row'[d] = row[d]
  BY <1>1 DEF MarkSent, TypeOK
<1>3. \/ row'[e] = row[e]
      \/ row[e].status = "created" /\ row'[e] = [row[e] EXCEPT !.status = "sent",
                                                   !.signers = send[s].signers,
                                                   !.invited = (req[s].delivery = "embedded")]
  BY <1>1 DEF MarkSent, TypeOK
<1>4. /\ row'[e].held = row[e].held
      /\ \/ row'[e].status = row[e].status
         \/ row[e].status = "created" /\ row'[e].status = "sent"
  <2>1. CASE row'[e] = row[e]
    BY <2>1
  <2>2. CASE row'[e] # row[e]
    BY <1>2, <1>3, <2>2 DEF Envelope
  <2> QED
    BY <2>1, <2>2
<1>5. row'[e].status \in Terminal <=> row[e].status \in Terminal
  BY <1>4 DEF Terminal
<1>6. \A d \in Sends : row'[d].held = row[d].held /\ (row'[d].status \in Terminal <=> row[d].status \in Terminal)
  BY <1>2, <1>4, <1>5
<1> QED
  BY <1>1, <1>6, Unseen

LEMMA MoveEnvelopeReleases ==
  ASSUME TypeOK, TypeOK', IInv, IInv', NEW n \in Notes, MoveEnvelope(n)
  PROVE  Life!Next \/ UNCHANGED <<FormStage, Present, Spent>>
<1> DEFINE e == n.doc
           next == StatusForEvent[n.type]
<1>1. e \in Sends /\ UNCHANGED <<req, doc>>
  BY NextStatus DEF MoveEnvelope
<1>2. row[e] \in Envelope /\ \A d \in Sends \ {e} : row'[d] = row[d]
  BY <1>1 DEF MoveEnvelope, TypeOK
<1>3. \/ row'[e] = row[e]
      \/ /\ row[e].status \in MovedFrom(next)
         /\ row'[e] = [row[e] EXCEPT !.status = next, !.held = row[e].held /\ next \notin Terminal]
  BY <1>1 DEF MoveEnvelope, TypeOK
<1>4. \/ row'[e] = row[e]
      \/ /\ row[e].status \in MovedFrom(next) /\ row'[e].status = next
         /\ row'[e].held = (row[e].held /\ next \notin Terminal)
  BY <1>2, <1>3 DEF Envelope
<1>5. row[e].status \in MovedFrom(next) => row[e].status \notin Terminal \cup {"absent"}
  BY DEF MovedFrom, Terminal, Statuses, StatusRank
<1>6. row[e].status \notin Terminal \cup {"absent"} => row[e].held
  BY <1>1 DEF IInv, RowBehindVendor, IsBehindVendor
<1>7. next \in Terminal => doc[e].state = next
  BY EventIsSo
<1>8. CASE row'[e] = row[e]
  <2>1. \A d \in Sends : row'[d] = row[d]
    BY <1>2, <1>8
  <2> QED
    BY <1>1, <2>1, Unseen
<1>9. CASE row'[e].status = next /\ row[e].status \in MovedFrom(next) /\ next \notin Terminal
           /\ row'[e].held = (row[e].held /\ next \notin Terminal)
  <2>1. /\ \A d \in Sends : row'[d].held = row[d].held
        /\ \A d \in Sends : row'[d].status \in Terminal <=> row[d].status \in Terminal
    BY <1>2, <1>5, <1>6, <1>9
  <2> QED
    BY <1>1, <2>1, Unseen
<1>10. CASE row'[e].status = next /\ row[e].status \in MovedFrom(next) /\ next \in Terminal
            /\ row'[e].held = (row[e].held /\ next \notin Terminal)
  <2>0. PICK form \in Forms : form = req[e].form
    BY <1>1 DEF TypeOK, Request
  <2>1. form \in Forms /\ e \in Holding(form)
    BY <1>1, <1>5, <1>6, <1>10, <2>0 DEF Holding
  <2>2. Holding(form) = {e} /\ FormStage[form] = Stage[doc[e].state]
    BY <2>1, HeldAlone, StageOfHeld
  <2>3. FormStage[form] = "fallen"
    BY <1>7, <1>10, <2>2 DEF Stage, Terminal
  <2>4. row'[e].held = FALSE
    BY <1>10
  <2>5. Holding(form)' = {}
    BY <1>1, <1>2, <2>2, <2>4 DEF Holding
  <2>6. \A f \in Forms \ {form} : Holding(f)' = Holding(f)
    BY <1>1, <1>2, <2>0, <2>4 DEF Holding
  <2>7. \A f \in Forms \ {form} : FormStage'[f] = FormStage[f]
    <3> SUFFICES ASSUME NEW f \in Forms \ {form} PROVE FormStage'[f] = FormStage[f]
      OBVIOUS
    <3>1. CASE Holding(f) = {}
      BY <2>6, <3>1 DEF FormStage
    <3>2. ASSUME NEW d \in Sends, d \in Holding(f) PROVE FormStage'[f] = FormStage[f]
      <4>1. Holding(f) = {d} /\ Holding(f)' = {d}
        BY <2>6, <3>2, HeldAlone
      <4> QED
        BY <1>1, <4>1 DEF FormStage
    <3> QED
      BY <3>1, <3>2 DEF Holding
  <2>8. FormStage'[form] = "free"
    BY <1>1, <2>1, <2>5 DEF FormStage
  <2>9. FormStage = [f \in Forms |-> FormStage[f]] /\ FormStage' = [f \in Forms |-> FormStage'[f]]
    BY DEF FormStage
  <2>10. FormStage' = [FormStage EXCEPT ![form] = "free"]
    BY <2>1, <2>7, <2>8, <2>9
  <2>11. Present' = [Present EXCEPT ![form] = {}]
    BY <1>1, <2>1, <2>5, <2>6 DEF Present
  <2>12. Spent' = Spent \cup Present[form]
    <3>1. Present[form] = {e}
      BY <2>1, <2>2 DEF Present
    <3> QED
      BY <1>1, <1>2, <1>10, <3>1 DEF Spent
  <2>13. Life!Release(form)
    BY <2>3, <2>10, <2>11, <2>12 DEF Life!Release, Life!Becomes, Present, Spent
  <2> QED
    BY <2>1, <2>13 DEF Life!Next
<1> QED
  BY <1>4, <1>8, <1>9, <1>10

\* Every step of Signing is a step of the form's life, or one it does not see.
LEMMA StepIsLife ==
  ASSUME TypeOK, TypeOK', IInv, IInv', [Next]_vars
  PROVE  Life!Next \/ UNCHANGED <<FormStage, Present, Spent>>
<1>1. ASSUME UNCHANGED <<req, row, doc>> PROVE UNCHANGED <<FormStage, Present, Spent>>
  BY <1>1, Unseen
<1>2. ASSUME NEW s \in Sends, LookUp(s) \/ ReadParties(s) \/ SetStatus(s) \/ SendFault(s)
      PROVE  UNCHANGED <<req, row, doc>>
  BY <1>2 DEF LookUp, ReadParties, SetStatus, SendFault, db
<1>3. ASSUME NEW s \in Sends, Prepare(s) PROVE UNCHANGED <<FormStage, Present, Spent>>
  <2>1. /\ UNCHANGED <<req, row>> /\ doc[s].state = "none" /\ doc'[s].state = "prepared"
        /\ \A d \in Sends \ {s} : doc'[d] = doc[d]
    BY <1>3 DEF Prepare, UploadDocument, TypeOK, VendorTypeOK, NoDocument, db
  <2>2. \A d \in Sends : Stage[doc'[d].state] = Stage[doc[d].state]
    BY <2>1 DEF Stage
  <2> QED
    BY <2>1, <2>2, Unseen
<1>4. ASSUME NEW s \in Sends, SendStep(s) \/ SendFault(s)
      PROVE  Life!Next \/ UNCHANGED <<FormStage, Present, Spent>>
  BY <1>1, <1>2, <1>3, <1>4, PersistRaises, InviteAsks, MarkSentUnseen DEF SendStep
<1>5. ASSUME NEW e \in Sends, NEW turn \in 1 .. MaxSigners, MintLink(e, turn)
      PROVE  UNCHANGED <<FormStage, Present, Spent>>
  <2>1. /\ UNCHANGED <<req, row>> /\ doc'[e] = [doc[e] EXCEPT !.open = TRUE]
        /\ \A d \in Sends \ {e} : doc'[d] = doc[d]
    BY <1>5 DEF MintLink, GrantLink, TypeOK, VendorTypeOK, db
  <2>2. doc'[e].state = doc[e].state
    BY <2>1, DocumentStates DEF Document
  <2>3. \A d \in Sends : Stage[doc'[d].state] = Stage[doc[d].state]
    BY <2>1, <2>2
  <2> QED
    BY <2>1, <2>3, Unseen
<1>6. ASSUME \/ \E n \in Notes : Receive(n) \/ RecordEvent(n) \/ DeliveryAbandoned(n)
             \/ \E c \in calls : WebhookFault(c)
             \/ EditParties
             \/ UNCHANGED vars
      PROVE  UNCHANGED <<req, row, doc>>
  BY <1>6 DEF Receive, RecordEvent, DeliveryAbandoned, WebhookFault, EditParties, vars, db
<1> QED
  BY <1>1, <1>4, <1>5, <1>6, VendorMoves, MoveEnvelopeReleases DEF Next

\* Sends, callbacks and signers together, for any number of them and whatever fails,
\* implement the life of a form: one contract after another, and only after it fell
\* through.
THEOREM FormsLive == Spec => ImplementsFormLife
<1>1. Init => Life!Init
  BY DEF Init, Life!Init, FormStage, Holding, NoEnvelope, Terminal
<1>2. TypeOK /\ TypeOK' /\ IInv /\ IInv' /\ [Next]_vars
        => [Life!Next]_<<FormStage, Present, Spent>>
  BY StepIsLife
<1> QED
  BY <1>1, <1>2, SigningInvariant, PTL DEF Spec, ImplementsFormLife, Life!Spec, Present, Spent
=============================================================================
