------------------------------ MODULE Signing ------------------------------
(***************************************************************************)
(* Sending a filled form for signature and following what the signers do   *)
(* (src/modules/signing): createEnvelopeForForm, mintSigningLink and       *)
(* recordSignerEvent, over the SigningEnvelope and SignerEvent tables, one *)
(* transaction's status, and signNow.                                      *)
(*                                                                         *)
(* A step is the code between two awaits.  Each call of the API is a       *)
(* process of its own; a process may stop at any await (a fault, a         *)
(* time-out, a crash), leaving what it has already written.  A vendor call *)
(* that times out after signNow has processed it is that call's step       *)
(* followed by the stop.                                                   *)
(*                                                                         *)
(* An envelope is named after the Send that created its row, which is also *)
(* the name of the document its row points at.                             *)
(*                                                                         *)
(* A definition commented "Mutant" is not part of the model: it is a       *)
(* plausible bug in the definition that follows it, kept to show that the  *)
(* properties would catch it.                                              *)
(***************************************************************************)
EXTENDS SignNow, FiniteSetsExt

CONSTANTS
  Forms,       \* filled forms of the transaction
  PartyLists,  \* what listTransactionParties may return as the agent edits the parties
  Invitable,   \* those of them resolveSigners and placementsForParties accept
  Modes,       \* how clients ask for delivery: a subset of Deliveries
  Faults,      \* where things may go wrong: a subset of FaultPoints
  MaxCalls     \* bound: webhook deliveries being handled at once

FaultPoints == {"send", "insert", "move", "ack", "delivery"}

ASSUME SigningAssumption ==
  /\ PartyLists \subseteq Seq(Parties)
  /\ PartyLists # {}
  /\ Invitable \subseteq PartyLists
  /\ \A list \in Invitable : Len(list) \in 1 .. MaxSigners
  /\ Modes \subseteq Deliveries
  /\ Faults \subseteq FaultPoints
  /\ MaxCalls \in Nat

VARIABLES
  req,      \* the request body of each Send: which form, and how to deliver it
  send,     \* where each Send is
  row,      \* SigningEnvelope
  events,   \* SignerEvent: how many rows carry each callback body
  calls,    \* webhook deliveries being handled
  parties,  \* the transaction's parties, in list order
  tx        \* Transaction.status

db == <<row, events, tx>>
vars == <<req, send, row, events, calls, parties, tx, doc, inbox>>

TxStatus == {"DRAFT", "COMPLIANCE_PENDING", "READY_TO_SIGN",
             "OUT_FOR_SIGNATURE", "COMPLETED", "CANCELLED"}

Statuses == {"created", "sent", "signed", "completed", "declined", "expired"}

Request == [form : Forms, delivery : Modes]

\* pc names the next step; target is the envelope the Send works on.
Running == {"parties", "prepare", "persist", "invite", "mark", "status"}

Steps == Running \cup {"lookup", "done", "refused", "failed"}

SendState == [pc : Steps, target : Sends, signers : Seq(Parties)]

(***************************************************************************)
(* held is activeFormId IS NOT NULL (its value is always the form the row  *)
(* was created for); invited is whether signers carry an externalInviteId. *)
(***************************************************************************)
Envelope ==
  [status : Statuses \cup {"absent"}, held : BOOLEAN,
   signers : Seq(Parties), invited : BOOLEAN]

NoEnvelope == [status |-> "absent", held |-> FALSE, signers |-> << >>, invited |-> FALSE]

Call == [step : {"insert", "move"}, note : Notes]

TypeOK ==
  /\ VendorTypeOK
  /\ req \in [Sends -> Request]
  /\ send \in [Sends -> SendState]
  /\ row \in [Sends -> Envelope]
  /\ events \in [Notes -> Nat]
  /\ calls \subseteq Call
  /\ parties \in PartyLists
  /\ tx \in TxStatus

Init ==
  /\ VendorInit
  /\ req \in [Sends -> Request]
  /\ send = [s \in Sends |-> [pc |-> "lookup", target |-> s, signers |-> << >>]]
  /\ row = [e \in Sends |-> NoEnvelope]
  /\ events = [n \in Notes |-> 0]
  /\ calls = {}
  /\ parties \in PartyLists
  /\ tx = "DRAFT"

-----------------------------------------------------------------------------
(* createEnvelopeForForm *)

\* The envelope activeFormId points at the form from: at most one.
Holding(f) == {e \in Sends : row[e].held /\ req[e].form = f}

Goto(s, pc) == send' = [send EXCEPT ![s].pc = pc]

\* Mutant: a resumed Send does not read the parties again.
LookUp_KeepsNoParties(s) ==
  /\ send[s].pc = "lookup"
  /\ \/ /\ Holding(req[s].form) = {}
        /\ Goto(s, "parties")
     \/ \E e \in Holding(req[s].form) :
          /\ row[e].status = "created"
          /\ send' = [send EXCEPT ![s].pc = "invite", ![s].target = e]
  /\ UNCHANGED <<req, db, calls, parties, doc, inbox>>

\* findUnique({ activeFormId }), then EnvelopeAlreadySentError unless `created`.
LookUp(s) ==
  /\ send[s].pc = "lookup"
  /\ \/ /\ Holding(req[s].form) = {}
        /\ Goto(s, "parties")
     \/ \E e \in Holding(req[s].form) :
          \/ /\ row[e].status = "created"
             /\ send' = [send EXCEPT ![s].pc = "parties", ![s].target = e]
          \/ /\ row[e].status # "created"
             /\ Goto(s, "refused")
  /\ UNCHANGED <<req, db, calls, parties, doc, inbox>>

\* listTransactionParties, resolveSigners, placementsForParties; an existing
\* envelope is resumed, in the delivery it was started with.
ReadParties(s) ==
  /\ send[s].pc = "parties"
  /\ LET e == send[s].target
         ok == parties \in Invitable /\ req[e].delivery = req[s].delivery
     IN \/ /\ ~ok
           /\ Goto(s, "refused")
        \/ /\ ok
           /\ send' = [send EXCEPT ![s].pc = IF e = s THEN "prepare" ELSE "invite",
                                   ![s].signers = parties]
  /\ UNCHANGED <<req, db, calls, parties, doc, inbox>>

\* Mutant: the signers are invited before the row is written.
Prepare_InvitesFirst(s) ==
  /\ send[s].pc = "prepare"
  /\ UploadDocument(s, send[s].signers)
  /\ Goto(s, "invite")
  /\ UNCHANGED <<req, db, calls, parties>>

\* getObjectBytes and provider.prepareDocument.
Prepare(s) ==
  /\ send[s].pc = "prepare"
  /\ UploadDocument(s, send[s].signers)
  /\ Goto(s, "persist")
  /\ UNCHANGED <<req, db, calls, parties>>

\* Mutant: no unique index on activeFormId.
Persist_NoUniqueIndex(s) ==
  /\ send[s].pc = "persist"
  /\ row' = [row EXCEPT ![s] = [status |-> "created", held |-> TRUE,
                                signers |-> send[s].signers, invited |-> FALSE]]
  /\ Goto(s, "invite")
  /\ UNCHANGED <<req, events, tx, calls, parties, doc, inbox>>

\* signingEnvelope.create, refused by the unique index on activeFormId.
Persist(s) ==
  /\ send[s].pc = "persist"
  /\ IF Holding(req[s].form) = {}
     THEN /\ row' = [row EXCEPT ![s] = [status |-> "created", held |-> TRUE,
                                        signers |-> send[s].signers, invited |-> FALSE]]
          /\ Goto(s, "invite")
     ELSE /\ Goto(s, "refused")
          /\ UNCHANGED row
  /\ UNCHANGED <<req, events, tx, calls, parties, doc, inbox>>

\* Mutant: a refused invite is logged and the Send goes on.
Invite_RefusalLogged(s) ==
  /\ send[s].pc = "invite"
  /\ LET e == send[s].target IN
       \/ AcceptInvite(e, send[s].signers, req[s].delivery)
       \/ ~InviteAccepted(e, send[s].signers) /\ UNCHANGED <<doc, inbox>>
  /\ Goto(s, "mark")
  /\ UNCHANGED <<req, db, calls, parties>>

\* sendInvite: the parties just read, under the roles of the document.
Invite(s) ==
  /\ send[s].pc = "invite"
  /\ LET e == send[s].target IN
       \/ /\ AcceptInvite(e, send[s].signers, req[s].delivery)
          /\ Goto(s, "mark")
       \/ /\ ~InviteAccepted(e, send[s].signers)
          /\ Goto(s, "failed")
          /\ UNCHANGED <<doc, inbox>>
  /\ UNCHANGED <<req, db, calls, parties>>

\* Mutant: an update by id, not guarded on `created`.
MarkSent_Unguarded(s) ==
  /\ send[s].pc = "mark"
  /\ row' = [row EXCEPT ![send[s].target] =
                [@ EXCEPT !.status = "sent", !.signers = send[s].signers,
                          !.invited = (req[s].delivery = "embedded")]]
  /\ Goto(s, "status")
  /\ UNCHANGED <<req, events, tx, calls, parties, doc, inbox>>

\* Mutant: when a webhook has moved the row already, the Send returns early.
MarkSent_StopsIfMoved(s) ==
  /\ send[s].pc = "mark"
  /\ LET e == send[s].target
         first == row[e].status = "created"
     IN /\ row' = IF first
                  THEN [row EXCEPT ![e] = [@ EXCEPT !.status = "sent",
                                             !.signers = send[s].signers,
                                             !.invited = (req[s].delivery = "embedded")]]
                  ELSE row
        /\ Goto(s, IF first THEN "status" ELSE "done")
  /\ UNCHANGED <<req, events, tx, calls, parties, doc, inbox>>

\* updateMany({ status: 'created' } -> 'sent', with the signers as invited).
MarkSent(s) ==
  /\ send[s].pc = "mark"
  /\ LET e == send[s].target IN
       row' = IF row[e].status = "created"
              THEN [row EXCEPT ![e].status = "sent",
                               ![e].signers = send[s].signers,
                               ![e].invited = (req[s].delivery = "embedded")]
              ELSE row
  /\ Goto(s, "status")
  /\ UNCHANGED <<req, events, tx, calls, parties, doc, inbox>>

\* setTransactionStatus.
SetStatus(s) ==
  /\ send[s].pc = "status"
  /\ tx' = IF tx \in {"DRAFT", "COMPLIANCE_PENDING", "READY_TO_SIGN"}
           THEN "OUT_FOR_SIGNATURE" ELSE tx
  /\ Goto(s, "done")
  /\ UNCHANGED <<req, row, events, calls, parties, doc, inbox>>

SendFault(s) ==
  /\ "send" \in Faults
  /\ send[s].pc \in Running
  /\ Goto(s, "failed")
  /\ UNCHANGED <<req, db, calls, parties, doc, inbox>>

SendStep(s) ==
  \/ LookUp(s) \/ ReadParties(s) \/ Prepare(s) \/ Persist(s)
  \/ Invite(s) \/ MarkSent(s) \/ SetStatus(s)

-----------------------------------------------------------------------------
(* mintSigningLink: a read of the row and one vendor call, which decides.  *)

MintLink(e, turn) ==
  /\ req[e].delivery = "embedded"
  /\ row[e].status \in {"created", "sent", "signed"}
  /\ row[e].invited
  /\ turn \in 1 .. Len(row[e].signers)
  /\ GrantLink(e, turn)
  /\ UNCHANGED <<req, send, db, calls, parties>>

-----------------------------------------------------------------------------
(* recordSignerEvent *)

\* Mutant: a completed contract releases its form as well.
Terminal_Completed == {"declined", "expired", "completed"}

Terminal == {"declined", "expired"}

\* Mutant: the first signature is taken for the last.
StatusForEvent_SignedIsDone ==
  [sent |-> "sent", signed |-> "completed", complete |-> "completed",
   decline |-> "declined", expired |-> "expired"]

StatusForEvent ==
  [sent |-> "sent", signed |-> "signed", complete |-> "completed",
   decline |-> "declined", expired |-> "expired"]

StatusRank == [created |-> 0, sent |-> 1, signed |-> 2, completed |-> 3]

\* Mutant: an envelope moves one status at a time.
MovedFrom_OneStep(next) ==
  IF next \in Terminal
  THEN Statuses \ Terminal
  ELSE {st \in DOMAIN StatusRank : StatusRank[st] + 1 = StatusRank[next]}

\* The statuses an event meaning `next` may move an envelope from.
MovedFrom(next) ==
  IF next \in Terminal
  THEN Statuses \ Terminal
  ELSE {st \in DOMAIN StatusRank : StatusRank[st] < StatusRank[next]}

Calling(step, n) == [step |-> step, note |-> n]

\* A 200: signNow stops delivering the body, unless the answer never reaches it.
Answer(n) ==
  \/ inbox' = inbox \ {n}
  \/ "ack" \in Faults /\ UNCHANGED inbox

\* A verified callback; findUnique({ externalId }) decides `unknown_document`.
Receive(n) ==
  /\ n \in inbox
  /\ Cardinality(calls) < MaxCalls
  /\ IF row[n.doc].status = "absent"
     THEN Answer(n) /\ UNCHANGED calls
     ELSE calls' = calls \cup {Calling("insert", n)} /\ UNCHANGED inbox
  /\ UNCHANGED <<req, send, db, parties, doc>>

\* Mutant: no unique index on dedupeKey.
RecordEvent_NoUniqueIndex(n) ==
  /\ Calling("insert", n) \in calls
  /\ events' = [events EXCEPT ![n] = @ + 1]
  /\ calls' = (calls \ {Calling("insert", n)}) \cup {Calling("move", n)}
  /\ UNCHANGED <<req, send, row, tx, parties, doc, inbox>>

\* signerEvent.create, refused (`replayed`) by the unique index on dedupeKey.
RecordEvent(n) ==
  /\ Calling("insert", n) \in calls
  /\ IF events[n] > 0
     THEN /\ calls' = calls \ {Calling("insert", n)}
          /\ Answer(n)
          /\ UNCHANGED events
     ELSE /\ events' = [events EXCEPT ![n] = @ + 1]
          /\ calls' = (calls \ {Calling("insert", n)}) \cup {Calling("move", n)}
          /\ UNCHANGED inbox
  /\ UNCHANGED <<req, send, row, tx, parties, doc>>

\* The guarded updateMany; a terminal event also clears activeFormId.
MoveEnvelope(n) ==
  /\ Calling("move", n) \in calls
  /\ LET next == StatusForEvent[n.type] IN
       row' = IF row[n.doc].status \in MovedFrom(next)
              THEN [row EXCEPT ![n.doc].status = next,
                               ![n.doc].held = @ /\ next \notin Terminal]
              ELSE row
  /\ calls' = calls \ {Calling("move", n)}
  /\ Answer(n)
  /\ UNCHANGED <<req, send, events, tx, parties, doc>>

\* Mutant: a database fault is caught and answered 200.
WebhookFault_Swallowed(c) ==
  /\ c \in calls /\ c.step \in Faults
  /\ calls' = calls \ {c}
  /\ inbox' = inbox \ {c.note}
  /\ UNCHANGED <<req, send, db, parties, doc>>

\* A 500: signNow will deliver the body again.
WebhookFault(c) ==
  /\ c \in calls /\ c.step \in Faults
  /\ calls' = calls \ {c}
  /\ UNCHANGED <<req, send, db, parties, doc, inbox>>

\* The tenth delivery failed as well.
DeliveryAbandoned(n) ==
  /\ "delivery" \in Faults /\ n \in inbox
  /\ inbox' = inbox \ {n}
  /\ UNCHANGED <<req, send, db, calls, parties, doc>>

-----------------------------------------------------------------------------
\* The agent adds, removes or reorders parties.
EditParties ==
  /\ parties' \in PartyLists \ {parties}
  /\ UNCHANGED <<req, send, db, calls, doc, inbox>>

Vendor(d) == VendorStep(d) /\ UNCHANGED <<req, send, db, calls, parties>>

Next ==
  \/ \E s \in Sends : SendStep(s) \/ SendFault(s)
  \/ \E e \in Sends, turn \in 1 .. MaxSigners : MintLink(e, turn)
  \/ \E n \in Notes : Receive(n) \/ RecordEvent(n) \/ MoveEnvelope(n) \/ DeliveryAbandoned(n)
  \/ \E c \in calls : WebhookFault(c)
  \/ \E d \in Sends : Vendor(d)
  \/ EditParties

Spec == Init /\ [][Next]_vars

(***************************************************************************)
(* A Send that does not stop goes on.  signNow delivers a callback until   *)
(* it is answered 200, and some delivery gets through the insert if again  *)
(* and again one tries: strong, since a fault sends it back to the start.  *)
(* Nothing is assumed of the agent, of the signers or of the links.        *)
(***************************************************************************)
Fairness ==
  /\ \A s \in Sends : WF_vars(SendStep(s))
  /\ WF_vars(\E n \in Notes : Receive(n))
  /\ SF_vars(\E n \in Notes : RecordEvent(n))
  /\ WF_vars(\E n \in Notes : MoveEnvelope(n))

FairSpec == Spec /\ Fairness

-----------------------------------------------------------------------------
(* Safety *)

SameForm(d, e) == req[d].form = req[e].form

\* At most one contract per form is out, or executed, at signNow: however the
\* Sends interleave and wherever they stop, nobody can sign a second copy.
OneContractPerForm ==
  \A d, e \in Sends : d # e /\ SameForm(d, e) => ~(Binding(d) /\ Binding(e))

\* A contract somebody was asked to sign has its row, so no callback about it is
\* answered `unknown_document` and dropped; while it can be signed or has been,
\* the row holds the form.
NoSignerWithoutARow ==
  \A d \in Sends :
    /\ Asked(d) => row[d].status # "absent"
    /\ Binding(d) => row[d].held

\* What the row says never runs ahead of what signNow holds, in whatever order
\* callbacks and the Send itself write it; and a form is released only once its
\* contract can no longer be signed.
IsBehindVendor(e) ==
  LET st == row[e].status IN
    /\ st = "sent" => Asked(e)
    /\ st = "signed" => doc[e].signed > 0
    /\ st = "completed" => doc[e].state = "complete"
    /\ st \in Terminal => doc[e].state = st
    /\ st \notin Terminal \cup {"absent"} => row[e].held
    /\ st \in Terminal => ~row[e].held

RowBehindVendor == \A e \in Sends : IsBehindVendor(e)

\* SignerEvent rows of e that awaitingSigner counts.
SignedEvents(e) ==
  MapThenSumSet(LAMBDA n : events[n], {n \in Notes : n.doc = e /\ n.type = "signed"})

\* A redelivered callback is counted once: the number of signatures on record is
\* never more than signNow has, so awaitingSigner never skips a signer.
SignaturesNotOvercounted == \A e \in Sends : SignedEvents(e) <= doc[e].signed

\* The invite ids a link is minted against are those of the invite signNow
\* accepted, position by position, though Sends race to make it and the agent
\* reorders the parties in between.
InviteIdsAreTheInvites ==
  \A e \in Sends : row[e].invited => /\ Asked(e)
                                     /\ row[e].signers = doc[e].asked

\* The transaction is out for signature only if somebody was asked to sign.
OutMeansAsked == tx = "OUT_FOR_SIGNATURE" => \E e \in Sends : Asked(e)

\* A late, repeated or reordered callback, or a Send finishing after its
\* callbacks, never walks an envelope backwards, and a closed one never moves.
Settled == {"completed", "declined", "expired"}
Reached(st) == CASE st = "absent" -> 0 [] st = "created" -> 1 [] st = "sent" -> 2
                 [] st = "signed" -> 3 [] OTHER -> 4

StatusNeverBackwards ==
  [][\A e \in Sends :
       /\ Reached(row'[e].status) >= Reached(row[e].status)
       /\ row[e].status \in Settled => row'[e].status = row[e].status]_row

-----------------------------------------------------------------------------
(* The inductive invariant the proofs in SigningProofs rest on. *)

\* A callback tells what is so at signNow, and goes on being so.
Tells(n) ==
  CASE n.type = "sent"     -> Asked(n.doc)
    [] n.type = "signed"   -> Asked(n.doc) /\ n.turn <= doc[n.doc].signed
    [] n.type = "complete" -> doc[n.doc].state = "complete"
    [] n.type = "decline"  -> doc[n.doc].state = "declined"
    [] n.type = "expired"  -> doc[n.doc].state = "expired"

CallbacksAreTrue ==
  /\ \A n \in inbox : Tells(n)
  /\ \A c \in calls : Tells(c.note)

\* The unique index on activeFormId.
OneHolderPerForm ==
  \A d, e \in Sends : d # e /\ SameForm(d, e) => ~(row[d].held /\ row[e].held)

\* Where a Send is says what it has left behind.
IsWhereItSays(s) ==
  LET pc == send[s].pc
      e == send[s].target
  IN /\ pc \in {"lookup", "parties", "prepare", "persist"} => row[s].status = "absent"
     /\ pc \in {"lookup", "parties", "prepare"} => doc[s].state = "none"
     /\ pc \in {"lookup", "prepare", "persist"} => e = s
     /\ pc = "parties" /\ e # s => row[e].status # "absent"
     /\ pc \in {"invite", "mark", "status"} => row[e].status # "absent"
     /\ pc \in {"mark", "status"} => Asked(e)
     /\ pc = "mark" => doc[e].asked = send[s].signers
     /\ pc \in {"prepare", "persist", "invite"} => send[s].signers \in Invitable

SendsAreWhereTheySay == \A s \in Sends : IsWhereItSays(s)

\* Nobody signs unasked, and a document still being signed has a signer to
\* wait for.
SignersTakeTurns ==
  \A d \in Sends :
    /\ ~Asked(d) => doc[d].signed = 0
    /\ doc[d].state = "invited" => /\ Len(doc[d].asked) \in 1 .. MaxSigners
                                   /\ doc[d].signed < Len(doc[d].asked)

IInv ==
  /\ CallbacksAreTrue
  /\ SignersTakeTurns
  /\ OneHolderPerForm
  /\ SendsAreWhereTheySay
  /\ NoSignerWithoutARow
  /\ RowBehindVendor
  /\ InviteIdsAreTheInvites
  /\ OutMeansAsked

-----------------------------------------------------------------------------
(* Liveness, under FairSpec *)

\* What happens at signNow reaches the row by callbacks alone, though each may
\* be lost, repeated or late: a completed contract is `completed` here, and one
\* that fell through lets go of its form.
VendorOutcomeReachesRow ==
  \A e \in Sends :
    /\ doc[e].state = "complete" ~> row[e].status = "completed"
    /\ doc[e].state \in Terminal ~> row[e].status \in Terminal /\ ~row[e].held

\* Every signature is counted in the end.
SignaturesAreCounted ==
  \A e \in Sends, k \in 1 .. MaxSigners : doc[e].signed >= k ~> SignedEvents(e) >= k

\* Once somebody is asked to sign, the transaction is out for signature, unless a
\* Send stopped on the way: the webhook does not do that part for it.
AskedLeadsToOut ==
  (\E e \in Sends : Asked(e)) ~> tx = "OUT_FOR_SIGNATURE" \/ \E s \in Sends : send[s].pc = "failed"

-----------------------------------------------------------------------------
(* What the comments claim and the code does not keep (see README). *)

\* No Send has e's document in hand.
Idle(e) == \A s \in Sends : send[s].target = e => send[s].pc \notin Running

\* signing.service.ts:337: a failed invite leaves "an envelope at `created`,
\* which the next Send resumes".
CreatedIsResumable ==
  \A e \in Sends :
    row[e].status = "created" /\ ~Asked(e) /\ Idle(e) /\ parties \in Invitable
      => InviteAccepted(e, parties)

-----------------------------------------------------------------------------
(* The form's contracts, one after another (FormLife). *)

Stage ==
  [none |-> "raised", prepared |-> "raised", invited |-> "out", complete |-> "executed",
   declined |-> "fallen", expired |-> "fallen"]

FormStage ==
  [f \in Forms |->
     IF Holding(f) = {} THEN "free" ELSE Stage[doc[CHOOSE e \in Holding(f) : TRUE].state]]

Life == INSTANCE FormLife
          WITH Contracts <- Sends,
               stage <- FormStage,
               current <- [f \in Forms |-> Holding(f)],
               spent <- {e \in Sends : row[e].status \in Terminal}

\* Sends, callbacks and signers together implement the life of a form: every
\* step of theirs is a step of FormLife or changes nothing it can see.
ImplementsFormLife == Life!Spec

=============================================================================
