------------------------------ MODULE Readers ------------------------------
(***************************************************************************)
(* Reading one photographed identity document (src/integrations/ocr): the  *)
(* four readers behind one interface, what each makes of the answer it     *)
(* gets, and which of them the configuration lets in (src/config/env.ts).  *)
(*                                                                         *)
(* What becomes of the photograph and of the reading is Identity's.  A     *)
(* definition commented "Mutant" is a plausible bug in the definition that *)
(* follows it, not part of the model.                                      *)
(***************************************************************************)
EXTENDS Integers, FiniteSets

CONSTANTS
  Births,   \* days people were born on, [y |-> year, m |-> month, d |-> day]
  Unread      \* not read, not there

VARIABLES
  env,       \* the configuration the process started with
  photo,     \* what was photographed, and how
  refused,   \* whether the reader's service refuses this account
  outage,    \* whether anything this scan needed was down when it was needed
  place,     \* where the scan is
  answer     \* what it came to

readerVars == <<env, photo, refused, outage, place, answer>>

-----------------------------------------------------------------------------
(* Configuration. *)

Envs == [production : BOOLEAN, ocr : {"textract", "azure", "mock", "barcode"},
         azureSet : BOOLEAN, demo : BOOLEAN, signnow : {"signnow", "mock"}, signnowSet : BOOLEAN]

\* superRefine: what the process does not refuse to start with.
Accepted(e) ==
  /\ e.ocr = "azure" => e.azureSet
  /\ e.production => e.ocr = "textract" /\ ~e.demo /\ e.signnow = "signnow"
  /\ e.signnow = "signnow" => e.signnowSet

-----------------------------------------------------------------------------
(* Dates. *)

\* The days a month has, in the years that are accepted.
DaysIn(y, m) ==
  IF m = 2 THEN IF y % 4 = 0 /\ (y % 100 # 0 \/ y % 400 = 0) THEN 29 ELSE 28
  ELSE IF m \in {4, 6, 9, 11} THEN 30 ELSE 31

Valid(date) ==
  /\ date.y \in 1900..2100
  /\ date.m \in 1..12
  /\ date.d \in 1..DaysIn(date.y, date.m)

\* Birth dates are days, and not having read something is not something read.
ASSUME ReadersAssumption ==
  /\ \A birth \in Births : birth \in [y : Int, m : Int, d : Int] /\ Valid(birth)
  /\ Unread \notin {"CAN", "USA"} /\ Unread \notin 0..2

\* The eight digits of a barcode: CCYYMMDD in Canada, MMDDCCYY in the United States.
Digits(date, country) ==
  IF country = "CAN" THEN date.y * 10000 + date.m * 100 + date.d
  ELSE date.m * 1000000 + date.d * 10000 + date.y

AsCanadian(digits) ==
  [y |-> digits \div 10000, m |-> (digits \div 100) % 100, d |-> digits % 100]

AsAmerican(digits) ==
  [y |-> digits % 10000, m |-> digits \div 1000000, d |-> (digits \div 10000) % 100]

\* Mutant: the digits are taken for a date without a look at the calendar.
ParseDate_Unchecked(digits, country) ==
  IF country = "USA" THEN AsAmerican(digits) ELSE AsCanadian(digits)

\* The day among these dates, when there is just one.
OnlyDay(dates) ==
  LET days == {date \in dates : Valid(date)}
  IN IF \E date \in days : days = {date} THEN CHOOSE date \in days : TRUE ELSE Unread

\* parseDate: without a country, by whichever reading alone is a day.
ParseDate(digits, country) ==
  OnlyDay(IF country = "CAN" THEN {AsCanadian(digits)}
          ELSE IF country = "USA" THEN {AsAmerican(digits)}
          ELSE {AsCanadian(digits), AsAmerican(digits)})

\* A date as it may be misread from print: no day of the calendar.
Misread(date) == [date EXCEPT !.m = 0]

\* A printed date as the service makes it out, first number first.
Printed(date, style) ==
  IF style = "yearFirst" THEN <<date.y, date.m, date.d>>
  ELSE IF style = "misread" THEN <<date.y, Misread(date).m, date.d>>
  ELSE IF style = "monthFirst" THEN <<date.m, date.d, date.y>> ELSE <<date.d, date.m, date.y>>

\* Mutant: a date that does not start with its year starts with its month.
PrintedDate_Guessed(numbers) ==
  IF numbers[1] > 999 THEN [y |-> numbers[1], m |-> numbers[2], d |-> numbers[3]]
  ELSE [y |-> numbers[3], m |-> numbers[1], d |-> numbers[2]]

\* asDate, of a printed date: 03/04/1985 is two birthdays, and is not guessed at.  What has
\* its year first is handed on as it was made out, a day of the calendar or not.
PrintedDate(numbers) ==
  IF numbers[1] > 999 THEN [y |-> numbers[1], m |-> numbers[2], d |-> numbers[3]] ELSE Unread

-----------------------------------------------------------------------------
(* Photographs and readings. *)

Types == {"drivers_licence", "passport"}

Cards ==
  [type : Types, birth : Births, style : {"yearFirst", "misread", "monthFirst", "dayFirst"},
   issuer : {"CAN", "USA"}, names : {"CAN", "USA", Unread}]

\* A barcode names its own country or none; Unread is no document at all.
Photos == [card : {c \in Cards : c.names \in {c.issuer, Unread}} \cup {Unread},
           declared : Types, back : BOOLEAN, jpeg : BOOLEAN, large : BOOLEAN, spoilt : BOOLEAN]

ScanFields == {"dateOfBirth", "documentNumber"}

\* What a reader says of a field: how sure it is, 0 when it named the field and read
\* nothing into it, or Unread.
Readings == [score : [ScanFields -> 0..2 \cup {Unread}], normalised : BOOLEAN, type : BOOLEAN]

Lowest(scores) == IF scores = {} THEN 0 ELSE CHOOSE s \in scores : \A t \in scores : s <= t

\* The fields a reading has something for.
Found(reading) == {f \in ScanFields : reading.score[f] \in 1..2}

Scan(type, birth, scores, confidence) ==
  [kind |-> "read", type |-> type, birth |-> birth, scores |-> scores, confidence |-> confidence]

\* What the reader says of the fields it is taken at its word for.
Scores(reading, fields) == {reading.score[f] : f \in fields}

\* The document's type when it was read, or what the agent said it is.
TypeOf(reading) == IF reading.type THEN photo.card.type ELSE photo.declared

\* toScannedIdentity of the Textract client: a field with nothing in it is not a field.
TextractScan(reading) ==
  Scan(TypeOf(reading),
       IF "dateOfBirth" \notin Found(reading) THEN Unread
       ELSE IF reading.normalised THEN photo.card.birth
       ELSE PrintedDate(Printed(photo.card.birth, photo.card.style)),
       Scores(reading, Found(reading)), Lowest(Scores(reading, Found(reading))))

\* toScannedIdentity of the Azure client: every field it names is scored.
AzureScan(reading) ==
  Scan(TypeOf(reading),
       IF "dateOfBirth" \in Found(reading) /\ reading.normalised THEN photo.card.birth ELSE Unread,
       Scores(reading, Found(reading)),
       Lowest(Scores(reading, {f \in ScanFields : reading.score[f] # Unread})))

\* parseAamva, of a licence.
BarcodeScan ==
  Scan("drivers_licence", ParseDate(Digits(photo.card.birth, photo.card.issuer), photo.card.names),
       {100}, 100)

\* toScannedIdentity of the mock reader: a fixture, whatever was photographed.
Fixture == Scan(photo.declared, [y |-> 1984, m |-> 3, d |-> 17], {98}, 98)

Error(kind) == [kind |-> kind, type |-> Unread, birth |-> Unread, scores |-> {}, confidence |-> 0]

-----------------------------------------------------------------------------
ReadersTypeOK ==
  /\ env \in Envs /\ Accepted(env)
  /\ photo \in Photos
  /\ refused \in BOOLEAN /\ outage \in BOOLEAN
  /\ place \in {"fetch", "ask", "poll", "done"}
  /\ answer.kind \in {"none", "read", "unreadable", "unavailable", "misconfigured"}
  /\ \/ answer.birth = Unread \/ Valid(answer.birth)
     \/ env.ocr = "textract" /\ photo.card # Unread /\ answer.birth = Misread(photo.card.birth)
  /\ answer.scores \subseteq 1..100

\* ocrProvider
ReadersInit ==
  /\ env \in {e \in Envs : Accepted(e)}
  /\ photo \in Photos
  /\ refused \in BOOLEAN
  /\ outage = FALSE
  /\ place = IF env.ocr \in {"azure", "barcode"} THEN "fetch" ELSE "ask"
  /\ answer = Error("none")

\* The scan goes on, or is answered.
Proceed(next) ==
  /\ place' = next
  /\ UNCHANGED <<env, photo, refused, outage, answer>>

Finish(result) ==
  /\ place' = "done"
  /\ answer' = result
  /\ UNCHANGED <<env, photo, refused, outage>>

\* S3, or the reader's service, is down.
Outage ==
  /\ place # "done" /\ ~(place = "ask" /\ env.ocr \in {"mock", "barcode"})
  /\ outage' = TRUE
  /\ place' = "done"
  /\ answer' = Error("unavailable")
  /\ UNCHANGED <<env, photo, refused>>

\* getObjectBytes, for the readers that cannot see the bucket; over 4 MB is not sent.
Fetch ==
  /\ place = "fetch"
  /\ IF env.ocr = "azure" /\ photo.large THEN Finish(Error("unreadable")) ELSE Proceed("ask")

\* The service takes the photograph, or refuses the account, or the photograph.
AskTextract ==
  /\ place = "ask" /\ env.ocr = "textract"
  /\ IF refused THEN Finish(Error("misconfigured"))
     ELSE IF photo.spoilt THEN Finish(Error("unavailable"))
     ELSE IF photo.card = Unread THEN Finish(Error("unreadable"))
     ELSE \E reading \in Readings : Finish(TextractScan(reading))

AskAzure ==
  /\ place = "ask" /\ env.ocr = "azure"
  /\ IF refused THEN Finish(Error("misconfigured"))
     ELSE IF photo.spoilt \/ photo.large THEN Finish(Error("unavailable"))
     ELSE Proceed("poll")

PollAzure ==
  /\ place = "poll"
  /\ IF photo.card = Unread THEN Finish(Error("unreadable"))
     ELSE \E reading \in Readings : Finish(AzureScan(reading))

\* Only a JPEG of the back of a licence has a barcode to decode.
DecodeBarcode ==
  /\ place = "ask" /\ env.ocr = "barcode"
  /\ IF photo.jpeg /\ ~photo.spoilt /\ photo.back /\ photo.card # Unread
        /\ photo.card.type = "drivers_licence"
     THEN Finish(BarcodeScan)
     ELSE Finish(Error("unreadable"))

ReadFixture == place = "ask" /\ env.ocr = "mock" /\ Finish(Fixture)

ReadersNext ==
  Outage \/ Fetch \/ AskTextract \/ AskAzure \/ PollAzure \/ DecodeBarcode \/ ReadFixture

ReadersSpec == ReadersInit /\ [][ReadersNext]_readerVars

-----------------------------------------------------------------------------
\* What a scan answers is so: the birth date of a barcode is the one it encodes, any
\* other is the one on the card or left out, or Textract's misread print; in production
\* it is somebody's; the confidence is no more than that of any field handed on; the
\* photograph is blamed, or the account, only when it is to blame, and retrying is
\* offered only after an outage or for a photograph the service itself turned down
\* (see the README).
ScanAnswersAreTrue ==
  /\ answer.kind = "read" =>
       /\ env.ocr = "barcode" => answer.birth = photo.card.birth
       /\ env.ocr = "azure" => answer.birth \in {Unread, photo.card.birth}
       /\ env.ocr = "textract" =>
            \/ answer.birth \in {Unread, photo.card.birth}
            \/ photo.card.style = "misread" /\ answer.birth = Misread(photo.card.birth)
       /\ env.production => photo.card # Unread
       /\ \A score \in answer.scores : answer.confidence <= score
  /\ answer.kind = "unreadable" =>
       photo.card = Unread \/ env.ocr = "barcode" \/ (env.ocr = "azure" /\ photo.large)
  /\ answer.kind = "misconfigured" => refused
  /\ answer.kind = "unavailable" => outage \/ photo.spoilt
=============================================================================
