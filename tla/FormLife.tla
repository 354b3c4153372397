------------------------------ MODULE FormLife ------------------------------
(***************************************************************************)
(* What sending for signature promises about a form, whoever asks and      *)
(* whatever fails: its contracts follow one another.  A contract is raised *)
(* on a free form, its signers are asked at most once, and it is executed  *)
(* or falls through; only a contract that fell through gives way to        *)
(* another, and an executed one is the form's last.                        *)
(***************************************************************************)
CONSTANTS Forms, Contracts

VARIABLES
  stage,    \* where the form's present contract is, "free" if there is none
  current,  \* the form's present contract, as a set of at most one
  spent     \* contracts that fell through

TypeOK ==
  /\ stage \in [Forms -> {"free", "raised", "out", "executed", "fallen"}]
  /\ current \in [Forms -> SUBSET Contracts]
  /\ spent \subseteq Contracts

Init ==
  /\ stage = [f \in Forms |-> "free"]
  /\ current = [f \in Forms |-> {}]
  /\ spent = {}

Becomes(f, from, to) == stage[f] = from /\ stage' = [stage EXCEPT ![f] = to]

Raise(f, c) ==
  /\ c \notin spent \cup UNION {current[g] : g \in Forms}
  /\ Becomes(f, "free", "raised")
  /\ current' = [current EXCEPT ![f] = {c}]
  /\ UNCHANGED spent

Ask(f)     == Becomes(f, "raised", "out") /\ UNCHANGED <<current, spent>>
Execute(f) == Becomes(f, "out", "executed") /\ UNCHANGED <<current, spent>>
Fall(f)    == Becomes(f, "out", "fallen") /\ UNCHANGED <<current, spent>>

Release(f) ==
  /\ Becomes(f, "fallen", "free")
  /\ spent' = spent \cup current[f]
  /\ current' = [current EXCEPT ![f] = {}]

Next ==
  \E f \in Forms :
    \/ \E c \in Contracts : Raise(f, c)
    \/ Ask(f) \/ Execute(f) \/ Fall(f) \/ Release(f)

Spec == Init /\ [][Next]_<<stage, current, spent>>
=============================================================================
