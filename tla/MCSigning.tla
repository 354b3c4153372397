----------------------------- MODULE MCSigning -----------------------------
(* Instances of Signing for TLC. *)
EXTENDS Signing, TLC

CONSTANTS p1, p2

\* One list of two signers: the parties are not edited.
TwoSigners == {<<p1, p2>>}
OneSigner == {<<p1>>}

\* The agent adds a signer before another, or removes one or all.
EditedParties == {<<p2, p1>>, <<p1>>, << >>}
EditedInvitable == EditedParties \ {<< >>}

\* The agent adds a signer, or removes one.
OneOrTwo == {<<p1>>, <<p1, p2>>}

SendsAreAlike == Permutations(Sends)
=============================================================================
