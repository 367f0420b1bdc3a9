# Formal model of the aVioa backend

TLA+ modules, TLC configurations and TLAPS proofs kept beside the NestJS backend
of the aVioa intranet portal. The modules translate the code under `src/src`
(TypeScript, Prisma on PostgreSQL, BullMQ on Redis); `PROJECT.json` maps every
definition to the lines it stands for, lists the hazards the properties are for,
the runs, the findings and the theorems.

    cd tla
    tlc -workers 2 -config EquipmentLoans.cfg MCEquipmentLoans
    tlc -workers 2 -config Access.cfg MCAccess
    tlapm TransferDelivery_proofs.tla

## 1. The system

One Node process serves every request; its handlers interleave at each `await`.
PostgreSQL runs at its default level, read committed, and most handlers read a
row, decide, and write in a later statement. There is no lock shared between
handlers except one advisory lock (AI quota) and the conditional updates named
below. A deploy stops the container and starts another (`.github/workflows`), so
the process may die between any two statements: what it had committed, and the
messages it had handed to other services, stay.

Guards check roles and permissions before a handler runs. `Accounts`,
`ModulePermissions` and `Authorization` model how they decide; the other modules
take whoever may call a handler to call it at any time.

### Components

| Component (`src/src/modules/...`) | State | Operations | What must hold | Hard because of |
|---|---|---|---|---|
| `transfers` | a request with a version and its events; the provider of a destination; the adviser's Gmail connection; one delivery row per (request, version) in each of two tables | create, updateMine, cancelMine, createProvider, updateProvider, finishGmail, disconnectGmail, sendEmail, sendWhatsApp | a version reaches the provider at most once by each channel; a row and the events tell what became of its message; the message is what the adviser approved | two sends, retry after failure, lost answers, deaths, settings that change in flight, stale cancel |
| `auxiliary-operational`: operator requests and transfer vouchers | encrypted request with a state; voucher with a revision; audit | save, edit tours, delete, manual, confirm, correction, send (n8n or Resend); edit and delete the voucher | never sent again in doubt; state tells what the operator knows; every change audited | batches at read committed, no idempotency key towards n8n |
| `auxiliary-operational`: AI assistant and document reading | runs in two tables, documents with a revision, advisory lock | createReply, extract, edit and delete a document | the daily and hourly quotas; one answer per conversation; a reading lands on the revision it was made of | stamps older than the lock, slow answers, settle after save |
| `auxiliary-operational`: identity documents, flight itineraries, password helper | rows and encrypted objects in Supabase; entries with a revision | upload, delete; save, delete; change, import | a row has its files, no file without a row; an operation is applied once; a change replaces what its form showed | no transaction spans the two stores; lost answers; identifiers that come back |
| `equipment-loans`, `maintenance` | status of the equipment, loans, maintenance requests | createLoan, updateLoanStatus, cancelLoan, updateEquipment; create, updateStatus, cancel | one holder at a time; the status tells it | two services write the same status; check then write by id |
| `leaves` | requests with a status, the adjustment of the balance | create, validateByHR, review, cancel, markNotTaken, revertNotTaken, adjustment | absences do not cross, the balance is not exceeded, RRHH validates compensated ones, accounting is told once | two aggregates and an insert; guard and write apart |
| `nomina` | none of its own | consolidate, export, list | the sheets agree, the periods add up, the pages show all | reads apart while requests are decided, date arithmetic |
| `overtime` | hours by day and month | create batch, review | daily limit, no overlap, N8N told of approved ones | sums before a batch insert, entries across midnight |
| `auth`, `infrastructure/two-factor`, accounts in `admin/users` | password and whether it is temporary, one hash of a refresh token, second factor | invite, accept, login, change, recover, second factor, refresh, logout, status, delete | no session before the temporary password is replaced; a sign-out ends it | updates by identifier after bcrypt and other awaits |
| `common/authorization`, module permissions, users import, profile | permissions, leaders and managers, personnel data, picture | permission saves, reassignments, import, profile | the last save stands; the answer of an import is true; the picture exists | delete + insert at read committed; row by row; two stores |
| `password-vault` | entries, versions, grants, trash, audit | create, update, share, delete, restore, purge, generate, evaluate | the history keeps every password once; the policy holds | read before the transaction, foreign keys |
| `points` | wallet, transactions, requests | request, approve, reject | wallet = sum of transactions | read, compute, write in separate statements |
| `cesantias` | requests with a radicado and a history | create, cambiarEstado | state machine, unique radicado, history | count + 1; status, history and mail apart |
| `google/gmail`, `jobs` | hotel threads with an alert level, BullMQ jobs | scan (cron), send-alert (worker) | levels in order, again only after a failure | cron and worker concurrent; job identifiers kept after failure |
| `pago-total` | threads with a state and a mark for the sheet | events (queue), classification, answer to the sheet | the sheet is told once, events leave their mark in order | retried jobs, overlapping readers |
| `forms`, `feed`, `birthdays` | forms and answers; posts, reactions, comments; daily posts | create, update, delete, submit; react, comment, pin, remove; daily job | answers fit the published form; the last event is what a reader finds; one birthday post | check then write; read back before emit |
| `documents`, `certificados`, `cotizador`, `commercial`, `knowledge`, `vuelos`, `tutorial`, `notifications`, `audit`, `health`, `alerta-reservas` | rows written by one statement, files, caches | create, read, update, delete | validation | little |
| `infrastructure/*`, `config` | none | clients of external services | | their outcomes are choices of the modules that use them |

Components call each other directly (NestJS injection). They share state in
three places only, which is where one module holds both: equipment loans and
maintenance write the same equipment row (`EquipmentLoans`), the assistant and
the document reading share a quota and the document rows (`AiQuota`), and an
operator request and its voucher are changed by the same batch
(`AuxTransferRequest`). Payroll reads the rows of leaves and overtime: in
`Payroll` requests are registered and decided at any time between its reads.

## 2. The modules

A module is one component, parameterised by its actors and bounds; `MCx.tla`
gives it the definitions TLC needs, `x*.cfg` the constants. Every database
statement, or call to another service, is a step; a transaction that decides
with one conditional statement is one step. `Continue`, `GoTo`, `Leave` and
their like set the locals of a handler. Definitions marked "Mutant" are wrong
variants of the definition that follows them: `PROJECT.json` pairs each with the
property it breaks, to show that the property depends on the code. No
specification uses them.

Where the code has no defence against an overlap, the module has a history
variable that remembers it (`raced`, `met`, `crossed`, `mixed`, `overlapped`,
`overtaken`, `reborn`, `unheard`, ...), and the property names it: it then says
exactly what the code's checks are worth, and that they hold through any failure
or repetition otherwise.

### SendOnce, TransferDelivery, TransferDelivery_proofs

`SendOnce` is what a delivery table promises: for every key the message reaches
the provider at most once, and the row says `sent`, `failed` or `uncertain`
truthfully. `TransferDelivery` is one request and its handlers.

| In the model | In the code |
|---|---|
| `request`, `payloadAt`, `lastEdit` | `transfer_requests` (status, version, content), what each version held, the newest event |
| `provider`, `connection` | the active `transfer_providers` row of the destination, the Gmail connection |
| `delivery`, `sentLog` | the two delivery tables by (channel, version), the "sent" events |
| `send`, `edit` | the locals of each execution of sendEmail / sendWhatsApp and of updateMine / cancelMine |
| `calls` | every message handed to Gmail or Evolution and what became of it |
| `ReadRequest`, `ReadProvider`, `ReadSender`, `ReadRow` | the preview that is built again and compared with the approved one, and the delivery row |
| `Claim`, `LoseClaim`, `ClaimUnacknowledged` | the insert on the unique key, or the update conditional on FAILED and the attempt |
| `Recheck`, `CallProvider`, `ProviderDecides`, `Receive`, `GiveUp` | the second read of the Gmail account, the call, its outcomes |
| `MarkReauthorize`, `Record`, `RecordFails` | the catch and `record()` |

`OpenStatus` is IN_PROGRESS and CONFIRMED, which no handler tells apart. An
update with a version older than the current one can only lose, so editors
always start from the current version. The Gmail client has no timeout of its
own; `GiveUp` stands for the broken connection. The two channels have a table
each and no rule joins them: a version may go out by both, and the once-only
guarantee is stated for each.

### AuxTransferRequest, AuxTransferRequest_proofs

One operator request with its voucher. The data of the request is the number of
its encryptions (each save seals with a fresh nonce, so `encrypted_data=?`
compares versions). A batch is one transaction at read committed: it is one step
where its first statement locks the row, and several where it reads or writes
another row first (the deletion's audit entry, updateTours' voucher). `lock` is
the open transaction that has updated the request. One simplification: a
statement that waited for a row lock evaluates its EXISTS sub-select on the
snapshot taken before the wait; here it sees the committed state. The request
promises what the delivery tables do, so it implements `SendOnce` too: `Told` is
what its state, its audit and the operator's answers say together.

### AiQuota, AiQuota_proofs

The two tables of runs, the documents and the advisory lock. `Stamp` is the
instant read before the transaction, `Count` the reads under the lock, `Insert`
the commit; in between, other handlers may settle runs but not reserve. The
faults are failed statements, lost acknowledgements and deaths.

### EquipmentLoans, EquipmentLoans_proofs

One equipment with the loans and maintenance requests about it. `CLOSED` stands
for RETURNED, REJECTED and CANCELLED (RESOLVED, REJECTED, CANCELLED of a
maintenance request), which no statement tells apart. OVERDUE does not appear:
the request type of the status update does not admit it and no job sets it.
An administrator may write any of the four statuses with updateEquipment at any
moment; nothing compares it with the loans, so from there on the status says what
the administrator wrote, until a service writes it again. `byHand` remembers that
the last write was of that kind, and the first part of `HolderIsKnown` is about
the others. Deleting an equipment is left out: foreign keys refuse it once it has
a loan.

### Leaves, Leaves_proofs

The absences of one employee. `WorkDays` is a constant set in place of the
calendar of Sundays and holidays (`countBusinessDays` skips those two; the
comment above it also excludes Saturdays, which its code counts). `Accrued` is
the accrual over `YearLength` days since the `startDate` of the employee, which
may be unset, in the future, or written by an import at any time (`ImportStart`).
Without it, or before it, `calculateVacationBalance` returns the adjustment alone
and looks at no request (`NotBegun`): any number of vacations may then be asked
for, each within the adjustment. `blind` remembers the requests checked in this
way; `WithinLimit` leaves them out of the sum and `BeforeContract` says what is
left of the limit for them. Who decides (leader or RRHH) is left out,
which act is allowed in which status (`May`, the guard and the checks in the
service) is in. `Abandon` is a failed statement or a stopped process. `raced`
remembers which kinds of overlap happened, and each property names the ones it
does not survive. The bulk migration, hour ranges and exports are not modelled.

### Access and its components: who comes in and what they keep

| Module | State and actions | Code |
|---|---|---|
| `Accounts` | the row of a user (status, temporary password, hash of the refresh token, second factor), the requests of several devices with the token each shows; `Begin...` is a read with its checks, the action without the prefix the later write | `auth.service.ts`, `jwt-auth.guard.ts`, the account operations of `users.service.ts` |
| `ModulePermissions` | permission rows, open transactions with what each deleted and inserted; `CanActivate` is the guard of a route that is not public: the modules it asks for, the action it may ask for, the roles that pass without a row | `users.service.ts:339-466`, `module-permission.guard.ts` |
| `Authorization` | the organisation (role, leader, manager of each person), reassigned one at a time; `CanAccessUser` and `ScopeForUserQuery` as operators over it | `authorization.service.ts` |
| `StaffRecords` | the sheet and the records it updates, row by row | `importFromBuffer` |
| `ProfilePicture` | uploads, the picture the row names, the store | `updateProfile` |
| `PasswordVault` | entry, versions, audit, grants, category, trash | `password-vault.service.ts` |
| `PasswordPolicy` | one password as far as the generator and the evaluation can tell it from others | `generate`, `evaluatePassword` |
| `AuxDocument` | row and bucket of one request identifier, uploads and deletions, with shared keys | `documents.ts`, `documents/[id].ts` |
| `AuxItinerary` | row, saves under an operation that may be repeated, images, deletions | `flights.ts`, `flights/[id].ts` |
| `AuxPasswords` | entries with a revision, forms that show one, imports | `auxiliary-passwords.ts`, `passwords.ts` |

The `inviteUser` of `auth.service.ts` creates a row without a document number and
`acceptInvite` writes none; the login looks a user up by it, so an account made this
way does not sign in by itself (the one of `users.service.ts` writes it).
`scopeForUserQuery` lists to a leader whoever has that `leaderId`, but
`canAccessUser`, whose comment names leaders too, has no case for them and refuses:
what a leader may do for those listed to them is review their requests
(`canReviewRequest`), and `ListedIsAccessible` says so of leaders. In `StaffRecords`
an update may be made and its answer lost, and the row is then said to be an error;
`unheard` keeps those rows apart.

### The components of Portal: the services

| Module | State and actions | Code |
|---|---|---|
| `Points` | requests, wallet, transactions, decisions step by step, notices | `point-request.service.ts` |
| `Feed` | posts, reactions, comments, what the last event told, a reader that turns pages | `feed.service.ts`, `feed.gateway.ts` |
| `Birthdays` | runs of the job, posts, days | `birthdays.service.ts` |
| `Forms` | forms with a schema, submissions with data of a class by field, `validateSubmissionData` | `forms.service.ts` |
| `Overtime` | entries by day and hour, batches, reviews, what N8N was told | `overtime.service.ts`, `overtime-leader.guard.ts` |
| `Payroll` | requests, the three reads of a workbook, settled periods, pages; the summary, totals and cuts as operators | `nomina.service.ts`, `nomina-export.service.ts`, `periodo.util.ts` |
| `Cesantias` | requests with a number, changes of status, history, mails | `cesantias.service.ts`, `cesantias-state-machine.ts` |
| `HotelAlerts` | one thread: level due, scans, jobs by identifier, worker, Evolution up or down | `gmail.service.ts`, `pago-hotel.processor.ts` |
| `PagoTotal` | one thread: events, jobs, worker, the row, readers for the sheet | `pago-total.*.ts` |

These nineteen components have neither a row nor a call in common. A composition
of all of them in which any may move would only multiply states, so each of the
two composite modules holds its components side by side, and `subject`, chosen
at the start, is the one that moves: a behaviour of `Access` or `Portal` is
a behaviour of one component, and every behaviour of every component is one of
them. The components have their properties in their own modules; those of
`Access` and `Portal` join the ones that answer one question.

Details worth knowing: the monthly limit of overtime counts approved hours only,
so pending batches may exceed it and no property claims otherwise; in `Cesantias` the numbers are those of one
year, and its run bounds the history of a request; `PagoTotal` takes the first
in, first out queue of BullMQ, which a retried job leaves.

## 3. The runs

| Run | Configuration | Instance | What it shows |
|---|---|---|---|
| transfer_send | TransferDelivery_send | 2 senders by Gmail, 2 accounts, 1 version, 2 attempts, 1 fault | `TypeOK`; no message in doubt is sent again (`NoResendInDoubt`); rows and events tell the truth (`HistoryTellsFate`); the approved account sends (`SenderIsApproved`); every step is one of SendOnce (`ImplementsSendOnce`); each claimed row settles (`SendsSettle`) |
| transfer_edit | TransferDelivery_edit | 1 sender by WhatsApp, 2 editors, 3 versions, 2 contents | the message is that of its version and the event tells the change (`EditsStand`) |
| transfer_cancel | TransferDelivery_cancel | 2 editors, 3 versions | **violation** of `OnlyPendingCancelled` |
| aux_request | AuxTransferRequest | 2 handlers, 2 encryptions, 2 revisions, 2 calls, 1 fault | `TypeOK`; no resend in doubt, the state tells what the operator knows, a row being sent has a sender and the voucher is not ahead (`RequestTellsFate`); frozen while sending and deleted for good (`RowIsGuarded`); `ChangesAudited`; every step is one of SendOnce (`ImplementsSendOnce`); `HandlersFinish` |
| ai_quota | AiQuota | 2 handlers, 2 users, 2 messages and 2 readings, one conversation, one document with 2 revisions, 3 a day, 2 an hour, 3 instants over two days, 1 fault | `TypeOK`; both quotas (`QuotasHold`); one answer per conversation (`ThreadsSerial`); one reading per revision, and the run tells what the document holds (`RevisionsTellFate`); no unattended pending run (`PendingIsAttended`) |
| loans | EquipmentLoans | 2 handlers, 2 users, 2 loans, 2 maintenance requests, 1 fault | `TypeOK`; one loan and one request in course (`OneInCourse`); a status written by a service agrees with the loans, what is delivered was approved (`HolderIsKnown`) |
| leaves | Leaves | 2 executions, 2 requests of one day (`SomeAbsences`), 2 days, adjustments -1 and 0, `startDate` unset or day 0, debt 1, a decision or a sum overtaken once (2,234,196 states) | `TypeOK`; no crossing, within the limit (`AbsencesFit`); RRHH accepted, accounting told once (`CompensationsAreTold`); `DecisionsAreFinal` |
| leaves_limit | Leaves_limit | 1 execution, 2 requests | **violation** of `LimitHolds` |
| access | Access | 1 account and 2 requests with 3 tokens; 3 users, 2 modules, lists of actions with one of two actions or none, 2 saves; 2 people; sheets of 2 rows; 3 edits of a picture; 2 users, 2 requests, 2 changes of a credential; 8 lengths; 2 uploads and 2 deletions of 2 files, 1 fault; 2 operations, 3 saves, 1 deletion, 2 revisions; 2 forms, 2 imports, 3 writes (831,625 states) | `TypesOK`; sessions (`SessionsHold`); permissions and scope (`AdministrationStands`); imports and pictures (`RecordsTellFate`); history and policy (`VaultHolds`); rows and files (`FilesAreWhole`); helper passwords (`ChangeIsOfWhatWasShown`) |
| portal | Portal (MCPortal) | 2 handlers, 2 requests each; 2 posts, 2 comments; 2 employees, 2 runs, 2 days; 1 form, 2 schemas; 2 days of 2 hours; 3 novelties over 2 periods; 2 requests, 2 changes; 2 scans, 3 levels, 2 attempts; 2 events, 2 readers (1,225,878 states) | `TypesOK`; ledger (`WalletIsLedger`); events, pages and birthdays (`FeedIsTold`); `SubmissionsFit`; limits of a day (`DayHolds`); workbook, periods, pages (`ReportsAddUp`); numbers, history, mails (`TramiteHolds`); alerts and threads (`ThreadsAreAttended`) |
| vault_purge | PasswordVault_purge | 2 users, 1 request, 2 changes | **violation** of `PurgeDeletes` |
| hotel_notified | HotelAlerts_notified | 1 scan, 1 telephone | **violation** of `NotifiedIsSent` |

**Bounds.** Two executions are enough for the races these handlers have: each
decides with at most one write after a read, so a violation needs one execution
to act between the read and the write of another. Two attempts, two encryptions
and two revisions give every "again" and every "meanwhile". One fault per
behaviour, at any point, covers a lost acknowledgement, a failed statement and a
death; the theorems below need no such bound. In `AiQuota` four requests exceed
both quotas, and three instants make a message stamped on one day and counted on
the next. In `Leaves` two requests are the fewest that can cross or exceed the
balance together, and one kind of race at a time (`MaxRaced`) tells which race each
property survives; of the kinds, `Overlaps` leaves two creations at once to the
theorems, which bound neither. `ProfilePicture` needs three edits (a failed one between two others),
`AuxItinerary` three saves (one repeated while another one writes), `Payroll`
novelties that cross the end of a period, `Overtime` a day that an entry leaves
at midnight. `Feed` bounds the requests ever begun by four: a comment, a reply,
its root removed and one more. `HotelAlerts` has no telephones in `Portal`, whose
property does not speak of them; `hotel_notified` has one.

**Deadlock.** `TransferDelivery`, `AuxTransferRequest`, `AiQuota`,
`EquipmentLoans` and `Leaves` are checked for it. The composite runs and the two
on single modules say `CHECK_DEADLOCK FALSE`: their requests are finitely many,
and once all of them are done the component does stop.

**Symmetry** is used for executions and interchangeable values, and in no run
with a liveness property.

**Fairness.** `FairSpec` of `TransferDelivery` and of `AuxTransferRequest` states
weak fairness of each started handler: the event loop resumes a handler whose
await has completed, and every await completes (a statement, a call that is
answered, times out or breaks). Users, the provider and faults are under no
fairness; starting a handler is not either. `SendsSettle`, the second half of
`HandlersFinish` and, as an invariant, `SendingIsHeld` speak of behaviours without a fault, because nothing in the
code repairs a row whose process died.

## 4. What the violations show

* `cancelMine` checks the status and then updates by identifier
  (`transfers.service.ts:207`): an edit in between is overwritten and a request
  that is no longer pending is cancelled.
* The balance does not count requests in PENDING_HR_VALIDATION
  (`leaves.service.ts:715`), so compensated vacations are not reserved as the
  comment above the query wants.
* `purgeExpiredTrash` never deletes a credential (`password-vault.service.ts:290`):
  creating and deleting it wrote audit entries, and their foreign key restricts
  the deletion, which throws.
* The worker of the hotel alerts (`pago-hotel.processor.ts:45`) looks at the
  function `instanciaActiva` and not at its result, and `enviarMensaje` answers
  false instead of throwing: with Evolution down the level is recorded as
  notified, and it is not sent again.

Known overlaps the code has no defence against, which properties exclude by name
(section 2): two uploads of one document share their keys and the loser's
clean-up removes the winner's files (`documents.ts:233`); `updateTours` answers
that the voucher was updated although an edit in between kept the batch from it
(`transfer-requests.ts:386`); an UPDATE of an itinerary committed unheard deletes
its own images (`flights.ts:247`), and a deletion that meets a save leaves one
behind; two saves of permissions may leave the union of both; a refresh under
way outlives a sign-out from another device; two changes of one credential lose
an old password; two decisions about points lose some; two runs of the birthday
job post twice; two batches exceed a day.

## 5. Proofs

Each theorem holds for any finite or infinite set of handlers and any bounds, and
is proved from the assumptions the module states about its constants (the bounds
are naturals, the unset values are outside the sets they stand for; in `AiQuota`
also that the request identifiers are finitely many and the limits positive; what
`Feed`, `Overtime` and `Cesantias` count, and the periods of `Payroll`, as below).

| Module | Theorem | Property |
|---|---|---|
| TransferDelivery_proofs | TypeCorrect | TypeOK |
| | NeverResentInDoubt | NoResendInDoubt |
| | HistoriesTellFate | HistoryTellsFate |
| | SendersAreApproved | SenderIsApproved |
| | EditsAreWhatTheySay | EditsStand |
| | RefinesSendOnce | ImplementsSendOnce |
| AuxTransferRequest_proofs | TypeCorrect | TypeOK |
| | NeverResentInDoubt | (part of RequestTellsFate) |
| | RequestsTellFate | RequestTellsFate |
| | RowsAreGuarded | RowIsGuarded |
| | ChangesAreAudited | ChangesAudited |
| | RefinesSendOnce | ImplementsSendOnce |
| AiQuota_proofs | TypeCorrect | TypeOK |
| | QuotasKept | QuotasHold |
| | ConversationsSerial | ThreadsSerial |
| | RevisionsTell | RevisionsTellFate |
| | PendingAttended | PendingIsAttended |
| EquipmentLoans_proofs | TypeCorrect | TypeOK |
| | DeliveriesApproved | DeliveredWasApproved |
| | OneOfEach | OneInCourse |
| | HolderKnown | HolderIsKnown |
| Leaves_proofs | CompensatedAreAccepted | CompensatedAccepted |
| | CompensationsTold | CompensationsAreTold |
| | DecisionsFinal | DecisionsAreFinal |
| | AbsencesApart | NoOverlap |
| | TypesKept | TypeOK |
| | VacationsFit | WithinLimit |
| | AbsencesAlwaysFit | AbsencesFit |
| Access_proofs | TypesKept | TypesOK |
| | SessionsOwned | SessionsHold |
| | AdministrationRight | AdministrationStands |
| | RecordsTrue | RecordsTellFate |
| | VaultKept | VaultHolds |
| | ChangesShown | ChangeIsOfWhatWasShown |
| | FilesWhole | FilesAreWhole |
| Portal_proofs | TypesKept | TypesOK |
| | WalletKept | WalletIsLedger |
| | FeedTold | FeedIsTold |
| | OnePostEach | Birthdays!OnePostPerBirthday |
| | SubmissionsStand | SubmissionsFit |
| | DaysStand | DayHolds |
| | ReportsStand | ReportsAddUp |
| | TramiteStands | TramiteHolds |
| | ThreadsHeld | ThreadsAreAttended |

In the first three modules `IInv` is the inductive invariant; `Invariance` proves it and the
other theorems are its parts, except the action properties.

**TransferDelivery.** `NoResendInDoubt` is not inductive: that a claim is safe
depends on what the row says, and what the row says depends on what the execution
that holds it knows. `IInv` adds

* `HoldersOwn`: from the claim to the record, an execution that is certain of
  what it will record is the only holder of its row and has its attempt;
* `HoldersKnow`: before its call, and when it is about to record a failure, every
  call for its message was refused; when it is about to record success, one was
  delivered;
* `CallsNumbered`: calls have different attempts, none above that of the row;
* `HoldersUnlogged`: a held row, and one that may be retried, has no event yet;
* and the typing of locals and rows.

The proof splits a step into the row it touches (`RowInv`) and the executions it
leaves alone (`QuietWithRow`, `QuietWithoutRow`, `OthersRowInv`), with one lemma
per family of actions (claim, call, decision, record, crash).

`SenderIsApproved` and `EditsStand` need two more facts that hold beside `IInv`:
`SendersApproved` (the account a sender is about to use is the one its preview
named, from the moment it compares them) and `VersionsStand` (the row only moves to
new versions, and whoever holds one holds what it was written with). The refinement
maps each pair of channel and version to a cell of `SendOnce`. `CellMove` says what
a write to a row owes the cell; claims and records pay it from `HoldersKnow`
(`ClaimMoves`, `RecordMoves`), an answer of the provider is the abstract delivery,
and every other step leaves the cells alone (`CellsRest`). Its fairness is none, so
it is a theorem; the liveness of the sends stays with TLC.

**AuxTransferRequest.** Here the holder is whoever moved the row to "sending".
`HoldersOK` says that it is alone, that the row still holds the data it read, and
with `Knows` what it may conclude from its calls; `CallsOK` numbers the messages;
`LocalOK` says what a handler read before it writes; `LockOK` that while a batch
has the row locked nobody else changes it. `HandlerInv` collects what a step of
one handler owes, and each action supplies its part. `StepMoves` shows from `IInv`
the three things a step may do to the row; the action property follows.
`ChangesAudited` turns on the batch that deletes: its audit statement and its row
statement see different snapshots. `Rank` orders the states, and unless a send was
refused or the tours were rewritten (`Straight`) a row only climbs, so it cannot be
back where the second statement wants it if the first did not find it there
(`DeletersOK`). The exception in the property is that escape, and it is needed.
`RequestsTellFate` needs two more facts, which `OnceInv` puts beside those two:
`SendingIsHeld` and `OnceOK` (from the call on there is a message, and a "send" entry
is that of one the operator took).
This row implements `SendOnce` too, and less directly than the delivery tables: it is
edited, marked by hand, corrected and deleted between two attempts, and then its
state alone no longer tells whether the operator has the message. `Told` reads it
from the state, the audit and the answers. `RowStep` lists what a step may do to the
row and its audit (`RowSteps`), and each case is a stutter or one action of the
abstract specification (`RowImplements`); a call is a stutter, and an answer the
delivery, or the end of a doubt when it is a refusal (`DecisionImplements`).

**AiQuota.** The counts are made under the lock but the rows are stamped before
it. `LockOK` says that for the holder of the lock the check `Allowed` is still
true at its insert, because other handlers only settle runs meanwhile
(`KeptAllowed`). `ReservationInv` then adds one row to the sets the limits
count: a window of an hour that contains the new stamp lies inside the runs
counted from one hour before it. `AnswersOK`, `AnsweredAlone` and `LandedOK` tie
a run to its only handler and a reading to the revision it replaced, which the
document has left behind for good.
**EquipmentLoans.** Three invariants, each resting on the one before. `TInv` holds
whatever overlaps: types, and a handler that will write LOANED has a loan that was
approved, which nothing takes back (`approved` only grows). `AInv` is about the
executions that met nobody: the only busy handler may trust what it read
(`Reads`), so an insert finds nothing in course and an update finds the status it
validated. `SInv` adds the equipment: between the two statements of a delivery or a
return (`Moved`) it is already where the loan will be, and the row is not. It says
nothing while the status is the one an administrator wrote, and it is restored by
the next write of a service: no service leaves the equipment as it found it and
changes what `Delivered` says.

**Leaves.** `BInv` holds whatever overlaps: what a handler writes about exists, and
an approval of a compensated vacation comes after RRHH accepted it. `DInv` is about
decisions that do not overlap: at most one handler decides about a request, the row
is still what `May` required of it (`StillMay`, the part that does not expire with
the date), and between the approval and its e-mail nothing was told. `OInv` adds the
dates: one handler creates at a time, and after its check no absence crosses what it
asks for, because only another creation or a racing decision could block a day.

The balance is about a sum over the requests, a fold. What the fold computes is
proved in `Sums_proofs` by induction over the sets of naturals (an element is added,
a value changes, a subset, two disjoint sets), which needs no theorem with an
operator as its parameter. `TInv` then types the balance, `BestInv` says that no
adjustment that still counts is higher than the best and no date that counts earlier
than the earliest (so that what a creation computes with the date it read is never
more than `Credit`, `AccruedGrows`), and `RoomInv` that between the
two reads of a creation, and from them to its insert, what it read leaves room for
what it asks: only another creation or an approval between the two sums could take it. `BlindInv`
is about the requests that were checked against the adjustment alone, and needs
nothing about overlaps.

**Access.** One part per component, each with its own inductive invariant, and in a
step of the composition each component takes a step of its own or stays
(`AdministrationMoves`, `PasswordsMove`, `FilesMove`). What the parts turn on:

* `AccountsInv`: who has a session or a temporary token has a password of their own,
  a request past the check of the temporary password goes on knowing so, and after a
  sign-out that met nothing no request is on its way to tokens (`RequestKnown`).
* `PermissionsInv`: what a transaction has removed and written is its own
  (`WithinGrant`), and for each user it has reached the committed rows it will
  leave are exactly those of its modules, written by it (`Exact`, `Stands`), so that
  their actions are its own too. The proof found the first form of
  `LastSaveStands` false for three saves: the history only told whether the last save
  overlapped another when it began, and a third could commit in between. Now
  `overtaken` names the pairs of save and user; the run has two saves, which no longer
  tell the two forms apart, and the theorem any number of them.
* `StaffInv`: the record of a user is that of the last row of the sheet so far that
  was written, whether its answer came or was lost (`Fate`); each row keeps it, so it
  holds for a sheet of any length.
* `PictureInv`, `VaultInv`: the picture the row names is of an edit that has ended, so
  none will take it back; an update that crossed no other still knows the password it
  read and the number of versions it counted, so the version it adds is the next.
* `DocumentsInv`: an upload that met nobody fills the place of a row there is not
  (`LoneUpload`); each stored file is of the live row, of a deletion that has yet to
  remove it, or of an upload that will list it or take it back (`FileClaimed`).
* `ItineraryInv`: an image is of the row, or of somebody who will list or remove it
  (`ImageClaimed`); an operation that changed the row is of a revision that is past
  (`AppliedOnce`); a save whose form is of the present revision (`OfRevision`) knows
  the images of the row.
* `HelperInv`: a form shows the entry as it is, or as it was under an earlier revision
  (`FormShows`), unless the access was imported anew.

Two assumptions came out of these proofs and are in the modules: a credential has
some identifier to grant (`GrantsAssumption`), and `None` is neither an itinerary nor
a form (`AuxItineraryAssumption`).

**Portal.** The same composition and the same argument (`PeopleMove`,
`MessagesMove`), over what each component needs:

* `PointsInv`: unless two decisions crossed, an employee has one decision under way
  (`PointsBooks`) and, according to the statement it has reached, the transaction is
  there or not and the wallet is behind by it or even (`PointsAlong`). `LedgerSum`
  turns the fold of the module into the sum of `Sums_proofs`.
* `FeedInv`: unless two requests crossed on a post, what the last event told differs
  from the rows by what the one request on it has still to tell (`WallDue`); a reply
  hangs under a comment that is no reply itself (`WallRooted`), so that the deletion
  of a root takes its replies and no more. The reader has seen, in descending order,
  all there is from the first post it saw down to its cursor (`WallReads`), and
  `PageTurned` adds a page to that, of any length.
* `BirthdaysInv`: while no two runs overlapped, the one at work has found or made a post
  for each birthday it has gone past, and nobody else has made the one it is about to
  create (`BirthdayRun`).
* `FormsInv`: unless the form changed meanwhile, the data about to be inserted fit it and
  it is published; and a form that is about to become a draft is not.
* `OvertimeInv`: unless some crossed, a batch that was checked still fits its day when
  it is inserted (`OvertimeStillFits`), for reviews only reject entries or
  approve what the day already counts, and a review finds its entry pending.
* `PayrollInv`: a workbook that is settled is that of the requests as they were at
  some moment (`PaySettles`, a state that is named and not remembered), from which the
  sheets and the summary follow with the sums of `Sums_proofs`; what a request adds
  to the periods is cut from its days, and the periods share none, so the cuts add
  up to the whole; the list is the sorted one up to the page that was asked for.
* `CesantiasInv`: a number under way is at most one more than those given, and unless
  two changes met or a step failed, the history ends where the row is or one transition
  before, and the mails are the history or all of it but the last (`CesFollows`).
* `AlertsInv` counts: the attempts that reached the sending are the repeats plus the
  levels that are recorded or about to be; a level has a job only when the one below it
  is recorded (`AlertQueued`).
* `ThreadsInv`: without a retry the jobs are done in the order of the events
  (`ThreadInOrder`), with one request for the sheet at a time it marks what it read
  (`ThreadAlone`), and only a thread with a message that matters is in a state for the
  sheet (`ThreadDeserved`).

The rows of a page of the feed and of the list of payroll are in descending order by a
CHOOSE, so that there is such an order had to be proved (`LinedUp` in `Sums_proofs`, over
any total order on a finite set). What `PayrollAssumption` says of the periods, that each
day of a request is in one and only one, is what `periodosDelMes` makes of the halves of
a month, and the cuts add up because of it.

The sums of the modules are folds, about which the library has theorems with operator
parameters only. `Sums_proofs` proves once, of functions, what the components need: the
sum of no element, of one more, of a disjoint union, over the image of an injection, and
that parts add up to the whole. It also has what they need of sequences: sorted lists
and their pages (`PageTurned`, `PagesNeeded`). Users and comments in `Feed`, the
entries in `Overtime` and the requests in `Cesantias` are finitely many, since the code
counts them; no other set of theirs has to be finite.

All invariants of the passing runs are theorems, for all values of the constants, and so
are the action properties. Only model-checked: liveness under fairness (`SendsSettle`,
`HandlersFinish`), which with ENABLED is outside what the prover does, and the four
violations.

## 6. Not modelled

The guards of single routes; the wording of events, e-mails and notifications;
encryption; PDF, image and spreadsheet layout; prompts and the validation of
model answers; lists and other plain reads; scripts; and the components marked
`not_modelled` in `PROJECT.json`, each with its reason there: quick replies and
hotel vouchers repeat what `AuxItinerary` and `AuxPasswords` show, the
commercial area is caches of five minutes, `alerta-reservas` is unfinished and
writes nothing, documents, certificates, quotations, knowledge and the rest read
or write by one statement without a decision in between. Recovery after a crash
is not modelled because the code has none.

## 7. What could come next

* Stored images of transfer vouchers, on the pattern of `AuxItinerary`.
* The real calendar of `countBusinessDays` (Easter and moved holidays) against a
  reference definition.
* Stronger abstract specifications for the components of `Portal`, as `SendOnce` is one
  for the deliveries: the ledger of `Points`, and the feed as a counter that is told.
