----------------------------- MODULE Dashboard -----------------------------
(***************************************************************************)
(* The agent's home page (src/modules/dashboard): which deals need         *)
(* attention, made of the checks the compliance gate has stored, the       *)
(* parties nobody has identified, and drafts left lying.                   *)
(*                                                                         *)
(* A check is evaluated, and stamped, some time before its row is          *)
(* inserted, so rows need not come in the order of their checkedAt.        *)
(***************************************************************************)
EXTENDS Naturals, FiniteSets, SequencesExt

CONSTANTS
  Checks,           \* runs of the gate that reach recordComplianceCheck
  Deals,            \* the agent's transactions
  Papers,           \* TransactionForm
  DealOf,           \* the transaction of each form
  AttentionLimit,   \* ATTENTION_LIMIT
  MaxFailures       \* bound: failures of one check

ASSUME DashboardAssumption ==
  /\ DealOf \in [Papers -> Deals] /\ IsFiniteSet(Checks) /\ IsFiniteSet(Deals)
  /\ AttentionLimit \in Nat \ {0}
  /\ MaxFailures \in Nat

VARIABLES
  verdict,   \* what each check found: of which form, how many failures, when
  stored,    \* ComplianceCheck: the checks in the order they were inserted
  deal       \* the rest of what the page reads of a deal; chosen at the start

dashVars == <<verdict, stored, deal>>

Verdict == [of : Papers, failures : 0..MaxFailures, checkedAt : Nat]

DashTypeOK ==
  /\ \A c \in DOMAIN verdict : verdict[c] \in Verdict
  /\ DOMAIN verdict \subseteq Checks
  /\ ToSet(stored) \subseteq DOMAIN verdict
  /\ deal \in [Deals -> [open : BOOLEAN, unverified : Nat, stale : BOOLEAN]]

DashInit ==
  /\ verdict = <<>>
  /\ stored = <<>>
  /\ deal \in [Deals -> [open : BOOLEAN, unverified : 0..1, stale : BOOLEAN]]
  /\ \A d \in Deals : deal[d].stale => deal[d].open

\* evaluateCompliance stamps its result.
Evaluate(c) ==
  /\ c \notin DOMAIN verdict
  /\ \E p \in Papers, n \in 0..MaxFailures :
       verdict' = [x \in DOMAIN verdict \cup {c} |->
                     IF x = c
                     THEN [of |-> p, failures |-> n, checkedAt |-> Cardinality(DOMAIN verdict)]
                     ELSE verdict[x]]
  /\ UNCHANGED <<stored, deal>>

\* recordComplianceCheck: the insert, with the result's own checkedAt.
Insert(c) ==
  /\ c \in DOMAIN verdict \ ToSet(stored)
  /\ stored' = Append(stored, c)
  /\ UNCHANGED <<verdict, deal>>

DashNext == \E c \in Checks : Evaluate(c) \/ Insert(c)

DashSpec == DashInit /\ [][DashNext]_dashVars

-----------------------------------------------------------------------------
\* Mutant: the rows as they come, last inserted first.
NewestFirst_AsInserted == Reverse(stored)

\* orderBy checkedAt desc
NewestFirst ==
  CHOOSE s \in SetToSeqs(ToSet(stored)) :
    \A i, j \in DOMAIN s : i < j => verdict[s[i]].checkedAt > verdict[s[j]].checkedAt

\* complianceBlocked: only the first check seen of a form is believed ...
See(acc, c) ==
  IF verdict[c].of \in acc.seen THEN acc
  ELSE [seen |-> acc.seen \cup {verdict[c].of},
        count |-> [acc.count EXCEPT ![DealOf[verdict[c].of]] = @ + verdict[c].failures]]

\* ... and the failures of a deal's forms are added up.
Counts == FoldLeft(See, [seen |-> {}, count |-> [d \in Deals |-> 0]], NewestFirst).count

ComplianceBlocked ==
  LET count == Counts
  IN {[kind |-> "compliance_blocked", deal |-> d, count |-> count[d]] :
        d \in {e \in Deals : count[e] > 0}}

\* identityMissing: parties with no record, on deals neither completed nor cancelled.
IdentityMissing ==
  {[kind |-> "identity_missing", deal |-> d, count |-> deal[d].unverified] :
     d \in {e \in Deals : deal[e].open /\ deal[e].unverified > 0}}

\* staleDrafts; how many days is left out.
StaleDrafts ==
  {[kind |-> "stale_draft", deal |-> d, count |-> 1] : d \in {e \in Deals : deal[e].stale}}

KindOrder == [compliance_blocked |-> 0, identity_missing |-> 1, stale_draft |-> 2]

MoreUrgent(i, j) ==
  \/ KindOrder[i.kind] < KindOrder[j.kind]
  \/ KindOrder[i.kind] = KindOrder[j.kind] /\ i.count > j.count

Items == ComplianceBlocked \cup IdentityMissing \cup StaleDrafts

Room(items) ==
  IF Cardinality(items) < AttentionLimit THEN Cardinality(items) ELSE AttentionLimit

\* loadDashboard: sorted, then cut.  Which of two as urgent is cut is left open.
Attention ==
  LET items == Items
  IN {kept \in kSubset(Room(items), items) :
        \A i \in kept, j \in items \ kept : ~MoreUrgent(j, i)}

-----------------------------------------------------------------------------
\* The check of a form that was evaluated last, of those stored.
Newest(p) ==
  LET of == {c \in ToSet(stored) : verdict[c].of = p}
  IN {c \in of : \A b \in of : verdict[b].checkedAt <= verdict[c].checkedAt}

\* The page shows a deal as blocked only if the newest stored check of one of its forms
\* failed, in whatever order the rows of overlapping checks were inserted; and it leaves
\* such a deal out only when it is full of others, never for a nudge.
BlockedByNewestVerdict ==
  LET blocked == {DealOf[p] : p \in {q \in Papers : \E c \in Newest(q) : verdict[c].failures > 0}}
  IN \A kept \in Attention :
       LET shown == {i \in kept : i.kind = "compliance_blocked"}
       IN /\ {i.deal : i \in shown} \subseteq blocked
          /\ {i.deal : i \in shown} # blocked => Cardinality(kept) = AttentionLimit /\ shown = kept
=============================================================================
