# realax-api in TLA+

realax-api is the back end of a real-estate application: an agent opens a
transaction, records its parties, its property and the answers the OREA forms
ask for, checks identity documents, fills the forms and sends them for
signature through signNow. It is one Express process (or several) over
Postgres, an S3 bucket, Redis and three outside services: signNow
(signatures), Repliers (listings) and an OCR reader (identity documents).

The code has no queue, no lock and hardly any database transaction. Every
request is a sequence of awaited reads and writes; what keeps two requests, or a
request and a callback, from spoiling each other's work is the order of those
steps, the guards on its `updateMany` calls and three unique indexes. That is
what the modules here are about.

Paths below are relative to the repository (`src/modules/...`).

## 1. The system

| component | state | operations | what is hard |
|---|---|---|---|
| **signing** `modules/signing/signing.service.ts` | `SigningEnvelope`, `Transaction.status`; documents and invites at signNow | `createEnvelopeForForm` (Send), `listEnvelopes`, `mintSigningLink` | five effects in two systems with no transaction; two Sends of one form; resuming after a crash; parties edited meanwhile |
| **webhook** `modules/signing/webhook.controller.ts` | `SignerEvent`, `SigningEnvelope.status` | `postWebhook`, `recordSignerEvent` | callbacks repeated, late, reordered, concurrent with each other and with the Send; a fault between two writes |
| **signNow client** `integrations/signnow` | none but an access token | `prepareDocument`, `inviteSigners`, `inviteSignersEmbedded`, `embeddedSigningLink`, webhook signature | the other half of every Send; calls that take effect and then time out |
| **identity** `modules/identity` | `IdentityScan`, `IdentityRecord`, `Document`; images in S3 | scan (a party, or nobody yet), confirm, demo verify | check-then-act on `confirmedAt` and on "no record yet"; a fixed S3 key per party |
| **forms** `modules/forms` | `TransactionForm`, one PDF per form in S3 | fill, preview, download; mapping data to blanks; wrapping text over rules | gate, merge and write each read the data again; two fills write one key and one row; a clause too long for its lines |
| **compliance** `modules/compliance` | `ComplianceCheck`, values on `TransactionForm` | check, gate | rewrites the values of a form it does not redraw; says what is missing from a document somebody else draws |
| **entries** `modules/entries` | `TransactionEntries` | read, upsert | one row, read by gate and fill at different times |
| **property** `modules/property`, **listings** `integrations/repliers` | `Property`, cached listings | save, search, detail | two first saves; outages |
| **parties** `modules/party` | `Party`, `TransactionParty` | list, create, update, soft delete | order and membership read by a Send; a PATCH against a removal; who signs on which line |
| **transactions**, **dashboard** | `Transaction` | create, list, summary, `setTransactionStatus` | status written by the Send only; checks stored in another order than evaluated |
| **sessions** `modules/auth`, `middleware/auth.ts`, **agent** | session store, cookie, `Agent` | log in, log out, profile | requests under way while their session ends |
| **cache** `lib/redis.ts` | Redis | `cached`, `invalidate` | shared connection attempt, time-outs, a stale write after an invalidation |
| **OCR readers** `integrations/ocr` | none | scan | four readers with four ideas of confidence, of dates and of failure |
| **process** `index.ts`, `config`, `middleware/error.ts` | clients, exit code | start, stop, answer what was thrown | shutdown with requests in flight |
| **subscriptions tool** `tools/signnow_subscriptions.ts` | subscriptions on the signNow account | list, sync, prune | any call of a run may fail, done or not; the run goes by a list read once while signNow may give subscriptions up |
| **storage** `lib/s3.ts`, **encryption** `lib/encryption.ts`, **schemas**, **capture tool** | – | – | – |

How they interact: *signing* reads *parties* and the filled PDF *forms* left in
*storage*, calls the *signNow client* and moves the *transaction*; signNow calls
the *webhook*, which moves the envelope. *Forms* asks *compliance* first, and
both read *entries*, *property* and *parties*. *Identity* uses an *OCR reader*
and *storage*; its records make a party count as verified for *compliance*.

For each component, what makes it correct:

* signing and webhook: at most one contract per form can be signed; nobody is
  asked to sign something the database does not know; the row never runs ahead
  of signNow, never goes backwards and catches up in the end; links are minted
  against the invites signNow made;
* identity: one scan becomes at most one record, of the person it shows; the
  record points at the image that was read; no demo record beside a real one;
* forms and compliance: the stored values are those of the stored drawing, one
  row per form, and a form that fails the gate is not drawn;
* compliance: what it reports is what the fill would find missing, and can be put
  right on the page it names;
* property, entries, parties, profile: a save is read back whole, edits of
  different fields both survive, a removal stays;
* cache: an outage costs a bounded delay, and what is served is neither too old
  nor invalidated;
* sessions and process: an ended session stays ended, a stop stops and fails
  nothing that was under way unless it has to;
* readers: what a scan is answered with is so;
* subscriptions: a run that succeeds repairs the account, one that fails does not
  make it worse.

## 2. Plan

In the order of what a mistake would cost: first what people sign, then whose
identity is on file, then what the contract says, then the rest.

| # | modules | of |
|---|---|---|
| 1 | `SignNow`, `Signing`, `FormLife`, `SigningProofs` | signing, webhook, signNow |
| 2 | `Identity`, `IdentityProofs` | scans, confirmations, demo override, parties removed |
| 3 | `FormFill`, `FormFillProofs` | gate, fill, and the Send of one form |
| 4 | `Signers`, `Wrapping`, `Gate`, `PaperProofs` | who is invited, in which turn, on which line, by which invite; a long value over the lines of a form; what the mapper fills, the gate reports and the fill finds missing |
| 5 | `Office`, `Readers`, `Dashboard`, `DeskProofs` | saves and edits of property, entries, parties, profile; configuration and identity readers; the attention list |
| 6 | `Cache`, `CacheProofs` | the listing cache |
| 7 | `Server`, `Subscriptions`, `ServicesProofs` | sessions, errors, shutdown; the webhook subscriptions |
| 8 | `Facts` | lemmas on numbers, finite sets and folds which the other proofs cite |

Compositions: `Signing` extends `SignNow`, and implements `FormLife`. `FormFill`
has its own short Send, because what it is about is which row and which PDF a Send
takes; the vendor's side of a Send is `Signing`'s. `MCServices` and `MCDesk` put
rows 4–7 into two instances. Those components share no state, so there is
nothing between them to interleave: in each behaviour of an instance one
component moves and the others stay as they began.

All of the plan is written: every safety property a passing run checks is also a
theorem, and so are both compositions. What stays with TLC is named at the end of
section 6.

## 3. The modules and the code

A step of a request is the code between two `await`s, since that is what Node
runs without interruption; an `await` is a place where anything else may happen,
the request's own end included. A database statement and a call to a service are
one step each, and `$transaction` is one step. `PROJECT.json` maps each
definition to its lines. Definitions commented *Mutant* (`Persist_NoUniqueIndex`)
belong to no specification: each is the definition after it with a plausible bug,
and shows that the property it is named for in `PROJECT.json` would notice.

**`SignNow`** (external): what the code relies on. Documents with the roles they
were made for, one invite each, signed in order; callbacks for whatever happens,
delivered in any order and again until answered with 200, and given up on after a
while. An invite is accepted if it names the document's roles.

**`Signing`**: `createEnvelopeForForm` as `LookUp`, `ReadParties`, `Prepare`,
`Persist`, `Invite`, `MarkSent`, `SetStatus`; a second Send that finds a
`created` envelope reads the parties again and resumes it at `Invite`. `SendFault` ends a Send at any step,
before or after the effect. `Receive`, `RecordEvent` and `MoveEnvelope` are
`postWebhook` and `recordSignerEvent`; up to `MaxCalls` deliveries are
handled at once. `MintLink` is `mintSigningLink`; `EditParties` what the parties
page does. Unique indexes (`activeFormId`, `dedupeKey`) are guards of the inserts
that run into them. An envelope is named after the Send that made it.

**`FormLife`**: a form is free, out or signed; what `Signing` promises of a form,
and what `ImplementsFormLife` shows it to keep.

**`Identity`**: `ScanParty`, `Store`, `Read`, `Hold` are the two scan entry
points; `VerifyParty`, `ReadPending`, `Confirm` are `confirmIdentityScan`;
`VerifyParty`, `CheckUnverified`, `DemoVerify` are `demoVerifyParty`;
`RemoveParty` the parties page. What a scan reads is reduced to which photograph
it was read from (`None`: nothing legible), which is what a record could be wrong
about. S3 is a map from key to the last photograph put there.

**`FormFill`**: `Start`, `ReadEntries`, `ReadSnapshot`, `Find`, `Write`,
`RecordCheck` are the gate (phase `"gate"`), which a fill and a Send share;
`ReadEntries`, `ReadSnapshot`, `Put`, `Find`, `Write` the fill (phase `"act"`);
`FindForm`, `Upload`, `Persist` the Send. The gate's and the fill's reads and
writes are the same statements in two files, so they are the same actions with
the phase telling which columns are written. `overlaps` says whether requests may
run at once even before the form has a row, and whether data may be edited while
one runs. The snapshot's parallel reads are one. What the data says is reduced to which pairs of entries and snapshot pass
(`Complete`).

**`Signers`**: the state is the list of parties, which `AddParty`, `EditParty` and
`DropParty` change; the rest are the functions a Send applies to it:
`resolveSigners` (`Resolvable`, `SigningOrder`), `placementsForParties` (`BoxOf`),
the parties whose address a side's blanks show (`Addressee`) and the matching of
signNow's list of invites to signers (`InviteOf`). What `Signing!Invitable` leaves
open is here.

**`Wrapping`**: `wrapAcross` word by word (`TakeWord`, `NextLine`), then
`fitFontSize`, `measure` and `truncateToWidth` line by line (`Measure`). A value is
where its words end; the width of a character is 1 at the block's size, which is
enough to say what fits. Rounding is a choice: a line that just fits after
shrinking may be measured a hair too wide.

**`Gate`**: only whether a field is filled in is kept. `Sources` pairs each input
field with the blank it fills (`blanksFromRole`, `brokerageBlock`, `toEntryInput`,
`derivedEntries`); `Merged` is `buildMergedValues`, `Failures` is
`evaluateCompliance`, `Missing` what the fill reports. `Enter` and `Empty` are the
agent at the four pages.

**`Office`**: a request checks ownership (`Own`) and writes in a later step, so
anything may come in between; `UpdateProperty` and `CreateProperty` are the two
branches of `saveTransactionProperty`, `Edit` the two PATCHes, which differ from a
PUT in what an absent field means.

**`Cache`**: `BeginCall`, `GetRedis`, `TimeOut` and `Origin` are `cached`,
`invalidate`, `ping` and `withTimeout`; `Execute`, `Connect`, `Drop` and `Forget` the
Redis client and server; `ListingMoves` and `Tick` the world. A command whose
caller has given up stays in the client's queue and is executed when the
connection is back.

**`Server`**: `Verify`, `Regenerate`, `SaveSession` are login, `Destroy` logout,
`Guard` `requireAgent`, `Throw` `errorHandler`, `Answer` what express-session does
when a response ends; `Signal`, `CloseClients`, `ExitClean`, `ExitForced` are
`shutdown`.

**`Readers`**: the configurations `superRefine` accepts, the four readers behind
`ocrProvider` as one action each (Azure's as two), and the functions they
hand their answers through: `ParseDate` and `PrintedDate` by what they compute,
`TextractScan`, `AzureScan`, `BarcodeScan`, `Fixture` with how each comes to its
confidence. A date Textract made out from print may be a misread one, no day of the
calendar (`Misread`), because `asDate` hands on whatever has its year first; a misread
day that is another day cannot be told from it by any code.

**`Dashboard`**: `Evaluate` and `Insert` are the two halves of a check; the page is
`Attention`, an operator over what is stored: the set of pages that may be shown, since
which of two equally urgent items is cut is left open. **`Subscriptions`**: `sync` call by
call. Each may fail with its effect or without, and then be refused, which is logged,
or stay without an answer, which ends the run. `GivenUp` is signNow at any time, also
while the run goes by a list it has read, and `lost` remembers of which events;
`NewUrl` is why `sync` is run at all. A place stands for an id: `Added` uses none the
run has read and still has to come to.

## 4. The runs

Each property below is checked by the run named, and each has a mutant that
breaks it.

| run | shows |
|---|---|
| `signing_sends` | two Sends of one form race, stop and resume each other while parties are edited: `OneContractPerForm`, `NoSignerWithoutARow`, `InviteIdsAreTheInvites`, `OutMeansAsked`, and `ImplementsFormLife` |
| `signing_callbacks` | two signers, every fault, two deliveries at once: `RowBehindVendor`, `SignaturesNotOvercounted`, `StatusNeverBackwards` |
| `signing_live` | `VendorOutcomeReachesRow`, `SignaturesAreCounted`: what signNow knows, the database knows in the end; `AskedLeadsToOut` unless a Send stopped |
| `identity_races` | `FiledUnderItsOwnName`, `ConfirmedWithItsRecord`, `PhotographsDoNotMix`, `RecordHasAPhotograph` |
| `forms_all` | on every schedule: `FilledHasADrawing`, `SentWasDrawn`; if nothing is edited while a request runs, `NothingIncompleteIsDrawn`; if the request that makes the first row runs alone until it is there, `OneRowPerForm` and `OneContractOut`; if both, `FillsDescribeDrawings` |
| `services_all` | cache: `OutageCostsTwoTimeouts`, `CacheIsFresh`, and `CallIsAnswered` though Redis need never answer; server: `NoSessionComesBack`, `StopsWhenTold`; subscriptions: `SyncRepairs`, `LastCorrectStays` |
| `desk_all` | office: `SavesAreWhole`, `ChangesSurvive`; dashboard: `BlockedByNewestVerdict`; gate: `GateAndFillAgree`; wrapping: `NothingIsDroppedUnsaid`; signers: `EachSignsTheirOwnLine`; readers: `ScanAnswersAreTrue` |

Each of the seven also checks the type invariant of its modules, where another
run of the same module does not. The other five runs each show one disagreement;
see Findings.

## 5. Bounds and fairness

| run | bounds | why they are enough |
|---|---|---|
| `signing_sends` | 2 Sends, 1 form, 2 signers, 3 lists of parties, in-app, faults `send` | one to stop and one to resume, to race it, or to come after it was released; a signer added before the other, or gone, in between. `OneContract` is proved for any number |
| `signing_callbacks` | 1 Send, 2 signers, all faults, 2 deliveries at once | an envelope's row is touched by its own Send and its own callbacks only; two signers give every order of two signatures and a close |
| `signing_live` | 2 Sends, 1 signer, both ways of delivery, faults `send` and `insert` | a Send that stops, one that resumes, and their callbacks |
| `identity_races` | 2 uploads, 2 verifications, 2 persons, demo mode on | what two actors can do to one scan, key or person; each upload and verification may be of either kind and about anybody |
| `forms_all` | 3 requests, each a fill or a Send, two values of the entries, one snapshot, all four schedules | two to race and a third to act on what they left; a fill and two Sends, or two fills and a Send. One snapshot, because an edit of either half of the data is an edit of the pair; that the two halves are read apart is covered by the proofs |
| `services_all` (1,278,731 states) | 2 calls, a TTL of 2 ticks, 2 ticks, 2 versions; 3 requests of one browser; 2 events, 3 subscriptions, 2 runs of `sync` | a writer and an invalidation, or two readers sharing an attempt to connect, and time for an entry to expire; a login, a request and a logout under way together; a duplicate beside a stranger, given up or not, and a run after one that failed half way |
| `desk_all` (450,774 states) | 3 requests, 1 party, 2 fields; 3 checks, 3 forms of 2 deals, 2 places; 2 birth days; 2 fields away from an empty or a full page; texts of 1 to 3 words of 1 to 7 on lines of 4 and 6; 3 parties, 3 positions | two to overlap and one before or after them; a form checked twice beside another of its deal; a day that is another day with its numbers exchanged and one that is not; one field and one that feeds the same blank; words that fit, just fit, must shrink and must be cut; two of a side and one of the other |

Identical requests are interchangeable, and symmetry is used where the run has no
liveness property. Requests are finitely many and each ends, so the systems
stop: `CHECK_DEADLOCK FALSE` throughout. Nothing in this code waits for anything
else without a timer, so a deadlock in the usual sense cannot happen.

Some modules choose at the start how hostile the environment is: `overlaps` in
`FormFill` and `Office`, `drops` and `laps` in `Cache`. Each only ever restricts what
may happen, and a property that is weaker without the restriction says so in its
formula. `services_all` takes one of `drops` and `laps` at a time; the theorems take
any.

Fairness, where a property needs it:

* `Signing`: a Send that can take its next step takes it (weak; an awaited promise
  settles); signNow delivers and redelivers until it has a 200 (strong on
  `RecordEvent`, weak on `Receive`, which is what signNow's retries and a database
  that is up again provide) and the second statement of a delivery follows (weak).
  Nothing is assumed of agents and signers: nobody need ever sign. In `signing_live`
  signNow does not give up on a delivery and no handler stops after its insert;
  `signing_lost` shows what happens when one does.
* `Cache`: `TimeOut` (a timer fires) and `Origin` (the listing client has a time-out
  of its own). Nothing is assumed of Redis.
* `Server`: `ExitForced` and `ExitClean`, the timer and the end of the callback. Nothing
  is assumed of requests, which may hang.

## 6. Proofs

For every number of Sends, requests, persons, parties, deliveries and calls.

* **`SigningProofs`**. Safety of signing rests on `IInv`: the five properties
  wanted (`CallbacksAreTrue` among them: a callback on its way tells of something
  that happened) strengthened by *where each Send is* (`SendsAreWhereTheySay`:
  past `Persist` there is a row, past `Invite` an accepted invite) and *who holds
  the form* (`OneHolderPerForm`). One contract per form does not follow from the
  unique index alone: a Send that resumes works on a row it did not write, and
  the index protects nothing once a row is released, so the invariant has to say
  that a row is released only when signNow's document can no longer be signed.
  Proved: `Typing`, `OneContract`, `SignersHaveRows`, `RowsFollowVendor`,
  `InviteIds`, `OutForSignature`, the action property `NeverBackwards`, and the
  refinement `FormsLive`: a form's stage is that of the document that holds it, so
  every step of `Signing` is a step of `FormLife` or leaves the stages alone. The
  step that matters is `MoveEnvelope`: a row gives its form up only on a callback
  that is so, and then the document has fallen through.
  `Counted` needs `Recorded` besides: a body is stored at most once, and only after
  the signature it tells of. What the database counts is then a sum of noughts and
  ones, so the number of bodies stored (`CountBySum`), and each belongs to a turn of
  its own among those signed.
* **`IdentityProofs`**. Whatever is under a key, or was read from it, was uploaded
  for that key (`PhotographsByKey`), and between a confirmation's check and its
  write the scan's owner may change only from nobody to somebody
  (`AttachedScanStays`). Proved: `IdentityTyping`, `OwnName`, `WithItsRecord`,
  `OwnPhotographs`, `Photographed`.
* **`FormFillProofs`**. `RequestsAreWhereTheySay` (a request in its second phase
  passed the gate; one past `Put` has drawn; a Send holds a filled row) gives
  `Filled` and `Sent` on every schedule. The other properties the code does not keep in
  general, and say which schedule keeps them: `GateHolds`, that nothing is edited while
  a request runs (`EditsWaitInv`: a running request has read what is still so); `OneRow`
  and `OneOut`, that the request which makes the first row runs alone until it is there
  (`FirstWaitsInv`: the row about to be written is the only one; with
  `OneEnvelopePerRow`, which the unique index gives, one row is one contract); and
  `Describe`, both (`BothWaitInv`: past its gate a request finds every row saying what
  is so, and past `Put` the drawing too).
* **`CacheProofs`**. `Cost` counts the time-outs a call can still run into by where it
  is; `Age` dates what is in the entry, in the queue and in each call against the
  clock; `Holds` says which values an invalidation leaves possible: no write of
  anything older than the listing it began with is behind its command in the queue,
  and once the command has been executed none is left there or in the entry. A call
  not begun has nothing queued (`NothingQueuedYet`). Proved: `OutageIsBounded`, `Fresh`.
* **`ServicesProofs`**. A session id is made by the login it is named after, and only
  that login stores it (`NamesAreFresh`), so nothing stores one that was destroyed:
  `EndedForGood`. `Orderly` (clients are closed only when no request is left, and
  nothing arrives after a signal) gives `ClientsLast`: a stop that is not forced turns
  no request into a failure. For `Subscriptions`, `SyncInv` says what a run knows at
  each place: what it has not come to is still as it saw it, what it keeps of the
  event it is at is there, and what it has left behind is settled unless a call has
  failed. Of an event signNow has given one up since the list was read (`lost`), only
  that there is nothing more than the run saw, which `Shrinks` shows any further
  give-up to keep; so even then a run that succeeds leaves no event with two. That
  gives `Repairs`, and `LastStays` step by step, for any account, any events and any
  number of places.
* **`PaperProofs`**. `Wrapping`: `InOrder` (the lines taken so far are consecutive
  words from the first), `Fitting` (each holds what fits, or one word, or is the last)
  and `AsMeasured` (what was drawn of each) give `NothingDropped`; with `Forward` (a
  line that has words begins before it ends), `SomethingIsDrawn`: a line that is cut
  keeps at least a character. `Gate`: a side's details come with its party
  (`PartiesFirst`), so that the filled blanks of a side are that side's; then every
  excused blank is one the fill could report, and the rest is a comparison of sets:
  `GateIsTheFill`. `Signers`: signing position and age order the parties totally, so
  turns are numbers without gap or repetition (`RankIs`), and from that boxes and
  invites are one each: `OwnLines`.
* **`DeskProofs`**. `Office`: `RowsAreForms` (a property row and the entries row each
  hold what one finished save carried, and the link names a row that is there) and
  `OneSaver` (without overlaps, a save that found no row is the only one under way)
  give `SavesStayWhole`. `EditsShow` (of every field an edit named, somebody's finished
  edit shows) and `RemovalsStay` give `Survive`. `Readers`: the arithmetic of dates
  (the eight digits of a day, read back under its country, are that day; without a
  country too, since a year from 1900 to 2100 begins with no month and no month and day
  are such a year) gives `AnswersAreTrue` for any birth days: a barcode's birth date is
  never left out.
  `Dashboard`: no two checks are evaluated at one time (`StampInv`), so there is one way
  to sort them, and it exists; the fold over them counts for each deal the forms whose
  first, that is newest, check failed; `NewestIsBelieved` follows for any number of
  checks, forms and deals, with the fact that there is always some page to show.
* **Compositions** (`EachService`, `ServicesKeep`, `EachPart`, `DeskKeeps`). A component
  at rest is in a state it may begin in, and a step of another leaves it alone: a
  composition implements the specification of every component in it, and the types
  and the safety proved of each hold of the whole.
* **`Facts`**. Induction over data is by a least counterexample: the library's induction
  theorems take the property as an operator, which the provers cannot instantiate, but
  the minimum of a well-founded relation takes a set. So are proved that a sum of
  noughts and ones is a cardinality (`CountBySum`), that counting what is before each
  numbers a total order (`RankIs`), and that a function satisfying a fold's recursion
  exists (`FoldExists`), which is what a fold's `CHOOSE` needs to be unfolded.

The assumptions are those named in the modules, each evaluated by TLC on every run
of its module: names of different things differ, the constants have their types,
birth days are days of the calendar (`ReadersAssumption`), a line has room for a
character and an ellipsis (`WrappingAssumption`), no event signNow is asked for is
listed twice (`SubscriptionsAssumption`), there are finitely many checks and deals and
the page has room for one item (`DashboardAssumption`), and there is a text for a
drawing at rest to be of (`SomeText`).

Model-checked only: the liveness properties `VendorOutcomeReachesRow`,
`SignaturesAreCounted`, `AskedLeadsToOut`, `CallIsAnswered` and `StopsWhenTold`, which rest
on fairness and so on ENABLED, out of the prover's reach. The findings are
counterexamples and need no proof.

## 7. Findings

Each is a run that must fail, with the comment it contradicts quoted in
`PROJECT.json`.

| run | what the code does |
|---|---|
| `signing_lost` | a callback whose second statement fails is answered 500, comes again, and is taken for a replay: its outcome never reaches the row |
| `signing_resume` | a party added between a stopped Send and its resumption has no role: every further Send is refused, and the form stays held |
| `identity_twice` | two confirmations of one scan that overlap make two records |
| `forms_sent` | a Send's gate passes data the PDF it sends was not drawn from |
| `gate_purchase` | on a purchase the gate reports the listing brokerage's blanks to a page that has no fields for them, and never passes |

Also seen while modelling, and not kept as runs.

In signing:
* the `sent` callback may overtake the Send's own update, and the invite ids are
  then never stored: no link can be minted (`signing.service.ts:518`, `:614`);
* two first requests for a form make two rows, and the unique index, which is per
  row, then lets two contracts out (`signing.service.ts:366`);
* parties reordered between a stopped Send and its resumption leave a stored order
  signNow does not follow (`signing.service.ts:234`);
* a Send stopping at `mark sent` leaves the transaction in DRAFT for good (the
  exception in `AskedLeadsToOut`);
* two buyers share one role at signNow (`signnow.client.ts:57`); and a WITNESS party,
  which `placement.service.ts:42` calls "Deliberately unplaced", makes every Send
  refused.

In identity and its readers:
* a second upload replaces the object an earlier record is about
  (`identity.service.ts:262`, `:374`);
* a confirmation after, or during, the demo override leaves a demo record beside a
  real one (`identity.service.ts:617`);
* a photograph that Textract or Azure itself turns down is answered `unavailable`,
  with an invitation to try again (`provider.ts:103`), which `ScanAnswersAreTrue` allows
  for by name;
* Azure's lowest confidence counts fields it named and read nothing into
  (`azure.client.ts:195`);
* Textract's date with its year first is handed on without a look at the calendar,
  1985-13-40 included (`textract.client.ts:128`): `ReadersTypeOK` and
  `ScanAnswersAreTrue` name the case;
* "both being real is genuinely ambiguous" (`aamva.ts:82`) cannot occur in the years
  `valid` accepts;
* the barcode's postal code loses trailing zeros (`aamva.ts:118`).

In forms and compliance:
* every gate rewrites the stored values of a form it does not redraw
  (`compliance.service.ts:536`), which `forms.service.ts:39` says cannot drift;
* a value shrunk to just fit may be measured a rounding too wide and cut
  (`fill.service.ts:69`, `:144`); `Measured` has that choice. A template's `maxLength`
  would cut without a report (`fill.service.ts:169`); no template has one.

In the process and its services:
* `clearCookie` names no domain, so where `COOKIE_DOMAIN` is set the cookie outlives the
  logout, though not its session (`auth.controller.ts:69`); an older request's rolling
  cookie may replace a newer login's; a session ended by `requireAgent` leaves its
  cookie;
* an error after the answer has begun leaves the connection open until somebody
  closes it (`Throw`);
* a Redis command whose caller timed out stays queued, so a late write gets a whole
  TTL; and an invalidation that overlaps a slow miss leaves the old value in the
  cache (the cases `FetchedWithinTTL` and `InvalidatedIsGone` exclude by `drops` and
  `laps`);
* the time-out of the repliers client is cleared before the body is read
  (`client.ts:83`), and so is the signNow client's;
* `sync` ends with exit code 0 when a `create` was refused; and when signNow gives up
  the subscription a run is about to keep, the run still removes the others of its
  event, and leaves it with none (`signnow_subscriptions.ts:242`; what `lost` excludes in
  `SyncRepairs` and `LastCorrectStays`);
* two overlapping first saves of a property leave a stray row (what `overlaps`
  excludes in `SavesAreWhole`);
* a draft counts as stale by the transaction row's `updatedAt` only, whatever was
  done to its parties or forms.

## 8. Not modelled

For good: encryption (a cryptographic transformation of one field); object storage
(thin calls; that a key is overwritten belongs to `Identity` and `FormFill`); request
schemas and OpenAPI (declarations); the capture tool (a script run by hand that
records answers for the schemas); health and error rendering (no state beyond one
return).

Of modelled parts: signNow's webhook signature, token caching, HTTP retries and
response schemas (a rejected or retried call is a fault of the step it belongs to);
parsing a form template and drawing a PDF, except for which text lands on which
line; picking fields out of an OCR answer, a listing or a barcode, except for dates,
document types and confidences; search parameters of listings; the list and detail
reads of a transaction, which are owned queries; the dashboard's counts and recent
lists, which are one query each.
