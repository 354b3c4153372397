-------------------------------- MODULE Gate --------------------------------
(***************************************************************************)
(* What Form 100 would say and what is missing from it: the field mapper   *)
(* (modules/forms/mapper.service.ts), the compliance gate that reads its   *)
(* result (modules/compliance/compliance.service.ts) and the fill engine   *)
(* that draws it (modules/forms/fill.service.ts).                          *)
(*                                                                         *)
(* The agent fills in four pages, a field at a time; only whether a field  *)
(* is filled in is modelled.  Fields and blanks are pairs: deposit.holder  *)
(* is <<"deposit", "holder">>.  The day, month and year of a date are one  *)
(* blank, since all three come from one field.                             *)
(*                                                                         *)
(* A definition commented "Mutant" is a plausible bug in the definition    *)
(* that follows it, not part of the model.                                 *)
(***************************************************************************)
EXTENDS Naturals, FiniteSets

CONSTANTS
  Reach   \* bound: how many fields a page may be away from empty, or from full

ASSUME GateAssumption == Reach \in Nat

VARIABLES
  kind,   \* Transaction.type
  given   \* the fields that are filled in

gateVars == <<kind, given>>

-----------------------------------------------------------------------------
(* The pages and what they feed. *)

TransactionTypes == {"LISTING", "PURCHASE", "LEASE"}

Sides == {"buyer", "seller"}

Email(side) == <<"notices", IF side = "buyer" THEN "buyerEmail" ELSE "sellerEmail">>

\* The blanks the parties of a side fill (blanksFromRole), by the field of the first of
\* them that each comes from: addressForService, the notices, the names.
SideSources == [side \in Sides |->
  {<<<<side, "party">>, <<side, "fullLegalNames">>>>,
   <<<<side, "party">>, <<"scheduleA", side>>>>,
   <<<<side, "address">>, <<side, "line1">>>>,
   <<<<side, "cityOrCode">>, <<side, "line2">>>>,
   <<<<side, "phone">>, <<side, "tel">>>>,
   <<<<side, "email">>, Email(side)>>}]

\* A property has its address, its city and its province from the start.
PropertySources ==
  {<<<<"property", "row">>, b>> :
     b \in {<<"property", "address">>, <<"property", "municipality">>,
            <<"scheduleA", "propertyLine1">>, <<"scheduleA", "propertyLine2">>}} \cup
  {<<f, f>> : f \in {"property"} \X {"frontingSide", "frontingStreet", "frontage", "depth",
                                     "legalDescription"}}

Block(type) == IF type = "PURCHASE" THEN "coopBrokerage" ELSE "listingBrokerage"

\* brokerageBlock; the telephone is the brokerage's or else the agent's.
BrokerageSources == [type \in TransactionTypes |->
  {<<<<"brokerage", "name">>, <<Block(type), "name">>>>,
   <<<<"brokerage", "phone">>, <<Block(type), "tel">>>>,
   <<<<"agent", "phone">>, <<Block(type), "tel">>>>,
   <<<<"agent", "name">>, <<Block(type), "salesperson">>>>}]

\* domainValues
DomainSources == [type \in TransactionTypes |->
  SideSources["buyer"] \cup SideSources["seller"] \cup PropertySources \cup BrokerageSources[type]]

Dates == {"agreement", "irrevocability", "completion", "titleSearch"} \X {"date"}

Blocks == {"chattelsIncluded", "fixturesExcluded", "rentalItems"}

\* toEntryInput: what arrives under the name of the blank it fills ...
TypedIn ==
  Dates \cup Blocks \X {"all"} \cup
  {"deposit"} \X {"timing", "amountWords", "holder"} \cup
  {"irrevocability"} \X {"boundParty", "time"} \cup
  {"notices"} \X {"sellerFax", "buyerFax"} \cup
  {"coopBrokerage"} \X {"name", "tel", "salesperson"} \cup
  {"sellerLawyer", "buyerLawyer"} \X {"name", "address", "email", "tel", "fax"} \cup
  {<<"purchasePrice", "words">>, <<"schedules", "list">>, <<"hst", "treatment">>,
   <<"property", "presentUse">>}

\* ... and derivedEntries: the figures, and Schedule A's date, which is the agreement's.
DerivedSources ==
  {<<<<"purchasePrice", "figure">>, <<"purchasePrice", "numeric">>>>,
   <<<<"deposit", "amount">>, <<"deposit", "amountNumeric">>>>,
   <<<<"agreement", "date">>, <<"scheduleA", "date">>>>}

Sources == [type \in TransactionTypes |->
  DomainSources[type] \cup DerivedSources \cup {<<f, f>> : f \in TypedIn}]

\* buildMergedValues: the blanks with a value.  An empty entry hides nothing (prune).
Merged(type, fields) == {s[2] : s \in {t \in Sources[type] : t[1] \in fields}}

Page == [
  parties  |-> Sides \X {"party", "address", "cityOrCode", "phone", "email"},
  property |-> {s[1] : s \in PropertySources},
  profile  |-> {"agent"} \X {"name", "recoNumber", "phone"} \cup
               {"brokerage"} \X {"row", "name", "address", "phone"},
  entries  |-> TypedIn \cup {<<"purchasePrice", "figure">>, <<"deposit", "amount">>}]

AllFields == UNION {Page[area] : area \in DOMAIN Page}

-----------------------------------------------------------------------------
(* The template. *)

Line(block, n) == <<block, <<"line1", "line2", "line3", "line4">>[n]>>

LinesOf(block) == {Line(block, n) : n \in 1..(IF block = "rentalItems" THEN 3 ELSE 4)}

PlainBlanks ==
  {s[2] : s \in DomainSources["LISTING"] \cup DomainSources["PURCHASE"] \cup DerivedSources} \cup
  (TypedIn \ (Blocks \X {"all"}))

\* dataBlanks
DataBlanks == PlainBlanks \cup UNION {LinesOf(b) : b \in Blocks}

\* Mutant: the lines of a block are counted one by one.
ReportableBlankNames_Lines == DataBlanks

\* reportableBlankNames: a block is one field.
ReportableBlankNames == PlainBlanks \cup Blocks \X {"all"}

-----------------------------------------------------------------------------
(* The gate. *)

Failure(field, area) == [field |-> field, area |-> area]

PartyBlanks == {s[2] : s \in SideSources["buyer"] \cup SideSources["seller"]}

PropertyBlanks == {s[2] : s \in PropertySources}

\* describe: the page that fills a blank.
AreaOf(type, name) ==
  CASE name[1] = Block(type)        -> "profile"
    [] name \in PartyBlanks          -> "parties"
    [] name \in PropertyBlanks       -> "property"
    [] OTHER                        -> "entries"

\* missingParties: the sides that have nobody, and the blanks that goes without saying for.
AbsentSides(fields) == {s \in Sides : <<s, "party">> \notin fields}
Excused(fields) == {s[2] : s \in UNION {SideSources[side] : side \in AbsentSides(fields)}}

\* hasValue, for values that arrive whole: entries never name a line of a block.
MissingBlanks(type, fields) ==
  {Failure(b, AreaOf(type, b)) :
     b \in ReportableBlankNames \ (Excused(fields) \cup Merged(type, fields))}

\* incompleteProfile: what the law asks of the agent and no blank carries, too.
Required(fields) ==
  {<<"agent", "name">>, <<"agent", "recoNumber">>, <<"brokerage", "row">>} \cup
  (IF <<"brokerage", "row">> \notin fields THEN {}
   ELSE {<<"brokerage", "name">>, <<"brokerage", "address">>} \cup
        (IF <<"agent", "phone">> \in fields THEN {} ELSE {<<"brokerage", "phone">>}))

IncompleteProfile(fields) == {Failure(f, "profile") : f \in Required(fields) \ fields}

\* evaluateCompliance
Failures(type, fields) ==
  IncompleteProfile(fields) \cup
  {Failure(<<s, "party">>, "parties") : s \in AbsentSides(fields)} \cup
  MissingBlanks(type, fields)

-----------------------------------------------------------------------------
(* The fill: resolve, when every blank is wide enough for what goes in it. *)

\* A block's value is wrapped over its lines: the first has some of it.
Drawn == (PlainBlanks \cap Merged(kind, given)) \cup
         {Line(b, 1) : b \in {c \in Blocks : <<c, "all">> \in Merged(kind, given)}}

\* A block with nothing on any line is one missing field.
Missing ==
  (PlainBlanks \ Drawn) \cup {<<b, "all">> : b \in {c \in Blocks : LinesOf(c) \cap Drawn = {}}}

\* getTransactionForm
FilledCount == Cardinality(ReportableBlankNames \cap Merged(kind, given))

-----------------------------------------------------------------------------
GateTypeOK ==
  /\ kind \in TransactionTypes
  /\ given \subseteq AllFields

\* What comes and goes with a row: a person's details, a brokerage's, a property's.
Owner(field) ==
  CASE field[1] \in Sides -> <<field[1], "party">>
    [] field[1] = "brokerage" \/ field \in Page.property -> <<field[1], "row">>
    [] OTHER -> field

With(field) == {f \in AllFields : f = field \/ Owner(f) = field}

\* What could be filled in next.
Open(fields) == {f \in AllFields \ fields : Owner(f) \in fields \cup {f}}

Near(fields) == Cardinality(fields) <= Reach \/ Cardinality(Open(fields)) <= Reach

GateInit ==
  /\ kind \in TransactionTypes
  /\ given \in {{}, AllFields, AllFields \ With(<<"property", "row">>)}

\* A row is made with nothing but its name, or with all its details.
Enter(field) ==
  /\ field \in Open(given)
  /\ \E fields \in {{field}, With(field)} : given' = given \cup fields
  /\ UNCHANGED kind

\* Emptying a field, removing a party, picking no brokerage.  A property stays.
Empty(field) ==
  /\ field \in given \ {<<"property", "row">>}
  /\ given' = given \ With(field)
  /\ UNCHANGED kind

GateNext == \E f \in AllFields : (Enter(f) \/ Empty(f)) /\ Near(given')

GateSpec == GateInit /\ [][GateNext]_gateVars

-----------------------------------------------------------------------------
\* The gate and the document it gates agree: what it reports missing from the form,
\* and what it leaves out because nobody is on that side, is what the fill finds
\* missing; a form it passes is drawn whole and counted as whole.
GateAndFillAgree ==
  /\ {f.field : f \in MissingBlanks(kind, given)} \cup Excused(given) = Missing
  /\ Failures(kind, given) = {} =>
       Missing = {} /\ FilledCount = Cardinality(ReportableBlankNames)

\* compliance.service.ts:164: "The agent's own block comes from their profile and the
\* other side's is typed in": whatever the gate reports is gone once the page it names
\* is filled in, so an agent who goes where they are sent gets the document in the end.
FailuresCanBeFixed ==
  \A f \in Failures(kind, given) : f \notin Failures(kind, given \cup Page[f.area])
=============================================================================
