------------------------------ MODULE Signers ------------------------------
(***************************************************************************)
(* Who signs where: the parties of a transaction as signers                *)
(* (modules/signing/signing.service.ts, placement.service.ts), the roles   *)
(* and invites signNow makes for them (integrations/signnow/               *)
(* signnow.client.ts), and whose details the form shows                    *)
(* (modules/forms/mapper.service.ts).  Each works its own order out of the *)
(* list of parties.                                                        *)
(*                                                                         *)
(* The agent edits the list; what a Send of it would come to is a function *)
(* of it, and what becomes of an envelope then is Signing's.  The          *)
(* definition commented "Mutant" is a plausible bug in the one that        *)
(* follows it, not part of the model.                                      *)
(***************************************************************************)
EXTENDS Naturals, FiniteSets

CONSTANTS
  MaxParties,   \* bound: parties ever added; they are 1, 2 ... in the order of createdAt
  MaxOrder,     \* bound: signing positions
  Unset         \* no signing position, no such party

ASSUME SignersAssumption ==
  /\ MaxParties \in Nat /\ MaxOrder \in Nat
  /\ Unset \notin Nat

VARIABLES
  added,     \* how many parties were ever added
  party      \* role, signing position, whether there is an address to invite; or removed

signersVars == <<added, party>>

Ids == 1..MaxParties
Roles == {"BUYER", "SELLER", "SPOUSE", "WITNESS"}
Orders == 1..MaxOrder

Person == [role : Roles, order : Orders \cup {Unset}, email : BOOLEAN]

Live == {p \in Ids : party[p] # Unset}

\* The boxes of Form 100 that are not a witness's, two and two and one.
Boxes == {"buyer1", "buyer2", "seller1", "seller2", "spousalConsent"}

-----------------------------------------------------------------------------
(* The orders. *)

\* listTransactionParties: by position, those without one last, then by createdAt.
Before(p, q) ==
  LET o == party[p].order  u == party[q].order
  IN \/ o = u /\ p < q
     \/ o # u /\ o # Unset /\ (u = Unset \/ o < u)

\* A party's place, from 1, in the list of those in `among`.
Place(p, among) == Cardinality({q \in among : Before(q, p)}) + 1

SameRole(p) == {q \in Live : party[q].role = party[p].role}

\* inRole, addressForService: whose address and email a side's blanks show.
Addressee(role) ==
  {p \in Live : party[p].role = role /\ Place(p, SameRole(p)) = 1}

\* resolveSigners: everyone can be invited, and positions are all set and distinct, or
\* none is.
Resolvable ==
  /\ Live # {}
  /\ \A p \in Live : party[p].email
  /\ \/ \A p \in Live : party[p].order = Unset
     \/ \A p \in Live :
          /\ party[p].order # Unset
          /\ \A q \in Live \ {p} : party[p].order # party[q].order

SigningOrder(p) == Place(p, Live)

\* prefixFor: the line a role's nth party signs on, if the form has one.
Prefix(role, n) ==
  CASE role = "BUYER"  /\ n <= 2 -> IF n = 1 THEN "buyer1" ELSE "buyer2"
    [] role = "SELLER" /\ n <= 2 -> IF n = 1 THEN "seller1" ELSE "seller2"
    [] role = "SPOUSE" /\ n = 1  -> "spousalConsent"
    [] OTHER -> "none"

\* Mutant: the lines are dealt out in the order people were added.
BoxOf_AsAdded(p) ==
  Prefix(party[p].role, Cardinality({q \in SameRole(p) : q < p}) + 1)

\* placementsForParties
BoxOf(p) == Prefix(party[p].role, Place(p, SameRole(p)))

\* Everyone has a line of their own.
Placeable == \A p \in Live : BoxOf(p) \in Boxes

-----------------------------------------------------------------------------
(* signNow. *)

\* It makes an invite for every position it is given, and lists them as it likes.
Listings(n) == {l \in [1..n -> 1..n] : \A i, j \in 1..n : l[i] = l[j] => i = j}

\* inviteSignersEmbedded: the invite with the signer's own position.
InviteOf(order, listing) == listing[CHOOSE i \in DOMAIN listing : listing[i] = order]

-----------------------------------------------------------------------------
\* createEnvelopeForForm refuses the parties, or asks each for a signature.
Sendable == Resolvable /\ Placeable

\* What an envelope keeps of its signers, for one listing of the invites.
Envelope(listing) ==
  [p \in Live |-> [order |-> SigningOrder(p), box |-> BoxOf(p),
                  invite |-> InviteOf(SigningOrder(p), listing)]]

-----------------------------------------------------------------------------
SignersTypeOK ==
  /\ added \in 0..MaxParties
  /\ party \in [Ids -> Person \cup {Unset}]
  /\ \A p \in Live : p <= added

SignersInit ==
  /\ added = 0
  /\ party = [p \in Ids |-> Unset]

\* createTransactionParty
AddParty ==
  /\ added < MaxParties
  /\ added' = added + 1
  /\ \E person \in Person : party' = [party EXCEPT ![added + 1] = person]

\* updateTransactionParty: a role, a position, an address.
EditParty(p) ==
  /\ p \in Live
  /\ \E person \in Person : party' = [party EXCEPT ![p] = person]
  /\ UNCHANGED added

\* removeTransactionParty
DropParty(p) ==
  /\ p \in Live
  /\ party' = [party EXCEPT ![p] = Unset]
  /\ UNCHANGED added

SignersNext ==
  \/ AddParty
  \/ \E p \in Ids : EditParty(p) \/ DropParty(p)

SignersSpec == SignersInit /\ [][SignersNext]_signersVars

-----------------------------------------------------------------------------
\* placement.service.ts:17: "the person whose printed name is on a line must be the
\* person whose signature box is on it": the first line of a side is signed by the person
\* the form addresses, every signer has a box and an invite that nobody else has, the
\* invite is the one for their turn, and the turns are 1, 2 ... in the order the agent set.
EachSignsTheirOwnLine ==
  Sendable =>
    \A listing \in Listings(Cardinality(Live)) :
      LET signer == Envelope(listing)
      IN /\ \A p \in Live :
              /\ signer[p].box \in {"buyer1", "seller1"} <=>
                   p \in Addressee("BUYER") \cup Addressee("SELLER")
              /\ signer[p].invite = signer[p].order
         /\ \A p, q \in Live : p # q => signer[p].box # signer[q].box
         /\ {signer[p].order : p \in Live} = 1..Cardinality(Live)
         /\ \A p, q \in Live :
              party[p].order # Unset => (party[p].order < party[q].order <=>
                                         signer[p].order < signer[q].order)
=============================================================================
