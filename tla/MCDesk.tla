------------------------------- MODULE MCDesk -------------------------------
(* Instances of Office, Dashboard, Readers, Gate, Wrapping and Signers for TLC. *)
(* They share no state: a behaviour is one of them moving, with the others at   *)
(* rest.                                                                        *)
EXTENDS Office, Dashboard, Readers, Gate, Wrapping, Signers, TLC

CONSTANTS form1, form2, form3, deal1, deal2

VARIABLE part   \* which of them moves

\* Two forms of one deal and one of another.
DealOfForms == form1 :> deal1 @@ form2 :> deal1 @@ form3 :> deal2

\* Two days that are nobody else's however the numbers are ordered, and one that is
\* another when they are.
BirthDays == {[y |-> 1984, m |-> 3, d |-> 17], [y |-> 1985, m |-> 4, d |-> 3]}

\* Values of up to three words of one to seven characters.
SomeTexts ==
  {t \in UNION {[1..n -> 1..23] : n \in 1..3} :
     t[1] <= 7 /\ \A n \in 2..Len(t) : t[n] - t[n - 1] \in 2..8}

TwoWidths == <<4, 6>>

\* All requests are about one table.  A PATCH names something, and clears all of what it
\* names or none; of the requests of somebody who may not, one sort of each is enough.
Tables == {{"saveProperty"}, {"saveEntries"}, {"createParty", "editParty", "removeParty"},
           {"editProfile"}}

AsksOf(table) ==
  {a \in Asks : /\ a.op \in table
                /\ ~a.mine => a.op \notin Creates \cup Edits /\ a.names = {}
                /\ a.op \in Edits => a.names # {}
                /\ a.clears \in IF a.op \in Edits THEN {{}, a.names} ELSE {{}}}

OneTable == \E table \in Tables : ask \in [Requests -> AsksOf(table)]

\* Nothing is left to sign or to identify on one deal that is not on the other.
DealsAreAlike == deal[deal1] = deal[deal2]

OfficeAtRest ==
  /\ overlaps = FALSE
  /\ ask = [r \in Requests |-> [op |-> "editProfile", mine |-> TRUE, names |-> {}, clears |-> {},
                                about |-> Profile]]
  /\ at = [r \in Requests |-> "idle"] /\ saw = [r \in Requests |-> None]
  /\ link = None /\ property = [r \in Requests |-> None] /\ entries = None
  /\ sheet = [s \in Sheets |-> Blank] /\ state = [s \in Sheets |-> "live"]

DashboardAtRest ==
  /\ verdict = <<>> /\ stored = <<>>
  /\ deal = [d \in Deals |-> [open |-> TRUE, unverified |-> 0, stale |-> FALSE]]

ReadersAtRest ==
  /\ env = [production |-> FALSE, ocr |-> "mock", azureSet |-> FALSE, demo |-> FALSE,
            signnow |-> "mock", signnowSet |-> FALSE]
  /\ photo = [card |-> Unread, declared |-> "passport", back |-> FALSE, jpeg |-> TRUE,
              large |-> FALSE, spoilt |-> FALSE]
  /\ refused = FALSE /\ outage = FALSE /\ place = "ask" /\ answer = Error("none")

\* Demo mode and signNow's settings have no part in a scan.
OneSetting == ~env.demo /\ env.signnowSet /\ env.azureSet /\ env.signnow = "signnow"

GateAtRest == kind = "LISTING" /\ given = AllFields

ASSUME SomeText == Texts # {}

OneText == CHOOSE t \in Texts : TRUE

WrappingAtRest == text = OneText /\ next = 1 /\ lines = <<<<1, 0>>>> /\ draws = <<>>

DeskInit ==
  /\ part \in {"office", "dashboard", "readers", "gate", "wrapping", "signers"}
  /\ IF part = "office" THEN OneTable /\ OfficeInit ELSE OfficeAtRest
  /\ IF part = "dashboard" THEN DashInit /\ DealsAreAlike ELSE DashboardAtRest
  /\ IF part = "readers" THEN ReadersInit /\ OneSetting ELSE ReadersAtRest
  /\ IF part = "gate" THEN GateInit ELSE GateAtRest
  /\ IF part = "wrapping" THEN WrapInit ELSE WrappingAtRest
  /\ SignersInit

DeskNext ==
  /\ UNCHANGED part
  /\ part = "office" \/ UNCHANGED officeVars
  /\ part = "dashboard" \/ UNCHANGED dashVars
  /\ part = "readers" \/ UNCHANGED readerVars
  /\ part = "gate" \/ UNCHANGED gateVars
  /\ part = "wrapping" \/ UNCHANGED wrapVars
  /\ part = "signers" \/ UNCHANGED signersVars
  /\ \/ part = "office" /\ OfficeNext
     \/ part = "dashboard" /\ DashNext
     \/ part = "readers" /\ ReadersNext
     \/ part = "gate" /\ GateNext
     \/ part = "wrapping" /\ WrapNext
     \/ part = "signers" /\ SignersNext

DeskSpec ==
  DeskInit /\ [][DeskNext]_<<part, officeVars, dashVars, readerVars, gateVars, wrapVars, signersVars>>

\* The state of each component has its type.
DeskTypeOK ==
  OfficeTypeOK /\ DashTypeOK /\ ReadersTypeOK /\ GateTypeOK /\ WrapTypeOK /\ SignersTypeOK
=============================================================================
