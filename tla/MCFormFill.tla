---------------------------- MODULE MCFormFill ----------------------------
(* Instances of FormFill for TLC. *)
EXTENDS FormFill, TLC

CONSTANT e1

\* The gate refuses the entries e2.
OnlyE1 == {e1} \X Snapshots

Everything == Entries \X Snapshots

Alike == Permutations(Requests)
=============================================================================
