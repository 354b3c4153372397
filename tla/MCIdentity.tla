---------------------------- MODULE MCIdentity ----------------------------
(* Instances of Identity for TLC. *)
EXTENDS Identity, TLC

\* Requests and persons are interchangeable, each among themselves.
Alike == Permutations(Verifies) \cup Permutations(Persons)
=============================================================================
