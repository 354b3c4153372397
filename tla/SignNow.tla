------------------------------ MODULE SignNow ------------------------------
(***************************************************************************)
(* signNow, the e-signature service, as realax-api relies on it.  Nothing  *)
(* here is code of the repository: each operator is a call that            *)
(* src/integrations/signnow/provider.ts makes, or an event that the        *)
(* captured responses (test/fixtures/signnow/README.md) show the service   *)
(* producing.                                                              *)
(*                                                                         *)
(* A document is named after the Send that uploaded it: one Send uploads   *)
(* at most one.  Every operator below constrains doc and inbox only.       *)
(***************************************************************************)
EXTENDS Naturals, Sequences, FiniteSets

CONSTANTS
  Sends,      \* calls of POST /transactions/:id/signing; each uploads at most one document
  Parties,    \* ids of the parties of the transaction
  MaxSigners  \* length of the longest list of parties

ASSUME MaxSignersAssumption == MaxSigners \in Nat

VARIABLES
  doc,    \* what signNow holds, per document
  inbox   \* callbacks signNow has still to deliver (or to deliver again)

Deliveries == {"email", "embedded"}

(***************************************************************************)
(* One callback body.  `turn` is the position of the signer it is about.   *)
(* Bodies differ (signer, timestamp, invite id), so a body is its own      *)
(* sha256: a redelivery is the same element, another event is another.     *)
(***************************************************************************)
Notes ==
  [doc : Sends, type : {"sent", "signed"}, turn : 1 .. MaxSigners]
    \cup [doc : Sends, type : {"complete", "decline", "expired"}, turn : {0}]

Note(d, type, turn) == [doc |-> d, type |-> type, turn |-> turn]

NoDocument ==
  [state |-> "none", roles |-> {}, asked |-> << >>, signed |-> 0,
   mode |-> "email", open |-> FALSE]

(***************************************************************************)
(*   roles   parties whose signing fields are placed on the document       *)
(*   asked   the invited signers, in signing order                         *)
(*   signed  how many of them have signed                                  *)
(*   open    the signer whose turn it is can get at the document: by the   *)
(*           emailed invite, or by a link minted for them                  *)
(***************************************************************************)
Document ==
  [state  : {"none", "prepared", "invited", "complete", "declined", "expired"},
   roles  : SUBSET Parties,
   asked  : Seq(Parties),
   signed : 0 .. MaxSigners,
   mode   : Deliveries,
   open   : BOOLEAN]

VendorTypeOK ==
  /\ doc \in [Sends -> Document]
  /\ inbox \subseteq Notes

VendorInit ==
  /\ doc = [d \in Sends |-> NoDocument]
  /\ inbox = {}

Ids(list) == {list[i] : i \in 1 .. Len(list)}

\* Somebody was asked to sign d.
Asked(d) == doc[d].state \in {"invited", "complete", "declined", "expired"}

\* d is a contract that can still be signed, or has been.
Binding(d) == doc[d].state \in {"invited", "complete"}

-----------------------------------------------------------------------------
(* Calls made by the API. *)

\* Upload, place the fields, read the roles back.
UploadDocument(d, list) ==
  /\ doc[d].state = "none"
  /\ doc' = [doc EXCEPT ![d] = [NoDocument EXCEPT !.state = "prepared",
                                                  !.roles = Ids(list)]]
  /\ UNCHANGED inbox

\* An invite is refused on a document already sent, and when it names a role
\* the document does not have.
InviteAccepted(d, list) ==
  /\ doc[d].state = "prepared"
  /\ Ids(list) \subseteq doc[d].roles

AcceptInvite(d, list, mode) ==
  /\ InviteAccepted(d, list)
  /\ doc' = [doc EXCEPT ![d].state = "invited",
                        ![d].asked = list,
                        ![d].mode = mode,
                        ![d].open = (mode = "email")]
  /\ inbox' = inbox \cup {Note(d, "sent", 1)}

\* A link is refused for anyone but the signer whose turn it is.
LinkGranted(d, turn) ==
  /\ doc[d].state = "invited"
  /\ doc[d].mode = "embedded"
  /\ turn = doc[d].signed + 1

GrantLink(d, turn) ==
  /\ LinkGranted(d, turn)
  /\ doc' = [doc EXCEPT ![d].open = TRUE]
  /\ UNCHANGED inbox

-----------------------------------------------------------------------------
(* What the signers and the service do on their own. *)

\* Signing chains: the next signer is invited by signNow itself, and the last
\* signature completes the document.
SignerSigns(d) ==
  /\ doc[d].state = "invited" /\ doc[d].open
  /\ LET turn == doc[d].signed + 1
         last == turn = Len(doc[d].asked)
     IN /\ doc' = [doc EXCEPT ![d].signed = turn,
                              ![d].state = IF last THEN "complete" ELSE "invited",
                              ![d].open = ~last /\ doc[d].mode = "email"]
        /\ inbox' = inbox \cup {Note(d, "signed", turn),
                                IF last THEN Note(d, "complete", 0)
                                        ELSE Note(d, "sent", turn + 1)}

SignerDeclines(d) ==
  /\ doc[d].state = "invited" /\ doc[d].open
  /\ doc' = [doc EXCEPT ![d].state = "declined", ![d].open = FALSE]
  /\ inbox' = inbox \cup {Note(d, "decline", 0)}

InviteExpires(d) ==
  /\ doc[d].state = "invited"
  /\ doc' = [doc EXCEPT ![d].state = "expired", ![d].open = FALSE]
  /\ inbox' = inbox \cup {Note(d, "expired", 0)}

\* A signing link is usable for fifteen minutes.
LinkLapses(d) ==
  /\ doc[d].state = "invited" /\ doc[d].mode = "embedded" /\ doc[d].open
  /\ doc' = [doc EXCEPT ![d].open = FALSE]
  /\ UNCHANGED inbox

VendorStep(d) ==
  \/ SignerSigns(d)
  \/ SignerDeclines(d)
  \/ InviteExpires(d)
  \/ LinkLapses(d)
=============================================================================
