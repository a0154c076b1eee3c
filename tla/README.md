# Bagheera: a verification project

Bagheera is a personal finance manager: members keep banks, accounts and
operations by hand, pair operations into transfers, let schedulers generate
recurring ones, and import the files of their banks. This directory models the
API that keeps those books (`apps/api/src`, a NestJS program over PostgreSQL and
a Valkey store) and one page of its web client, checks the models with TLC and
proves theorems about them with TLAPS. All paths below are relative to
`src/apps/api/src` unless they say otherwise.

## The system

| Component | State | Operations | How it meets the others |
|---|---|---|---|
| Operations and transfers (`operations/`) | `operation` rows; two rows that point at each other are a transfer | create, update, batch delete, batch reconcile; `TransferService` keeps the counterpart in step | called by generation, by the import and by deletions of accounts and banks |
| Banks and accounts (`banks/`, `accounts/`) | rows with `closed` and `deleted` flags; nothing is ever deleted from the tables | choose or create, close, remove | a removal turns the transfers that point at it into External ones |
| Schedulers (`schedulers/`) | rule, target, `lastGeneratedDate` cursor | create, update, remove, batch delete | a save queues a generation job |
| Generation (`schedulers/generation*`, `auth/scheduler-catch-up`) | a BullMQ queue, an advisory lock per scheduler | job of a scheduler or of a member, hourly sweep, catch-up at sign-in | inserts operations, transfers included |
| Quotas and ownership (`security/`) | none of their own | checks before and inside transactions | every creation locks the member's row, and counts over a second connection |
| Connections (`db/`) | a pool of connections shared by all members | first come first served | a transaction keeps one |
| Import (`operations/import/`) | files, locks and outcomes in Valkey, each with an expiry; label corrections and account fingerprints in the database | upload, preview, confirm, discard | confirming locks the account and inserts operations |
| Sessions, step-up, passkeys (`session/`, `webauthn/`, `auth/`) | session records and a set of them per member in Valkey; credentials | sign up, sign in, step-up, register, remove, revoke | removing a passkey or confirming an e-mail change revokes sessions |
| Members (`members/`) | member rows, signed tokens sent by mail | registration, e-mail change, locale, time zone | the time zone decides what "today" is for generation |
| Rate limits (`security/rate-limit*`) | counters and strikes in Valkey | guard before each request | - |
| E-mail (`email/`) | a BullMQ queue | enqueue, send | - |
| Reports, dashboard, search | report rows | create, update, delete; queries | read the ledger |
| Import page (`apps/web/src/pages/operations`) | the upload, its preview, the edits, what is asked and not answered | upload, preview, edit, confirm, leave | calls the import; answers come in any order |
| Rest of the web client, shared packages | - | pages over the API | - |

What is hard here: everything runs at READ COMMITTED from many requests and a
worker at once. The code relies on `FOR UPDATE` rows, two kinds of advisory
locks, a unique index, foreign keys that never cascade, and a store lock that
expires. A transfer is two rows that either side may edit, in accounts that may
be closed or deleted separately. Generation must neither repeat nor skip a date
over budgets, failures and lost jobs. An import must be confirmed once although
its answer may be lost and its lock may run out. `PROJECT.json` lists the
hazards one by one, each at its line.

What makes each part correct:

- transfers: a live pair is an exact mirror; both ends are distinct accounts of
  one member in one currency; nothing transfers to a deleted account; deleted
  books are final; the opening balance is never lost;
- generation: no date twice, none skipped, every scheduler catches up;
- quotas: never exceeded, and nothing is created in what was deleted meanwhile;
  every creation is answered;
- import: a row is recorded once, beside no operation that it describes, the
  quota of corrections holds over concurrent imports, only a lock's owner frees
  it, and an outcome is never answered for what was not recorded;
- matching: one operation is taken by one row, a row is not robbed of the
  operation that carries its reference, a file imported is found imported;
- dates: an occurrence on the 31st never drifts, and the next date and the count
  of what is due are those that runs make;
- sessions and passkeys: a signed-in session is on the list that a revocation
  goes through, a step-up serves no request that comes once another used it,
  signing in changes the session's id, a member keeps a passkey; what overlapping
  requests may do to the first two is among the disagreements below;
- members: addresses are unique, the latest change of address wins, every
  registration is answered by a mail of its own;
- rate limits: only a violation that overtakes a later one cuts a lockout short,
  and strikes are forgotten;
- uploads: no more files wait than may;
- charts: a running balance ends at the balance, a distribution adds up;
- the import page: it confirms what it shows.

## Modules

| Module | Models | Lines of interest |
|---|---|---|
| `Ledger` | the four tables, each request one step | `transfer.service.ts`, `operation.service.ts`, `batch.service.ts`, `account.service.ts`, `bank.service.ts` |
| `LedgerProofs` | theorems about `Ledger`: its states, its steps | - |
| `LedgerTx` | the statements of the requests that write paired operations, with row locks | the same, statement by statement |
| `LedgerTxProofs` | theorems about `LedgerTx` | - |
| `Generation` | runs of the worker and at sign-in, queue, sweep, cursor | `generation.service.ts`, `generation.worker.ts`, `scheduler-catch-up.service.ts` |
| `GenerationProofs` | theorems about `Generation` | - |
| `Quota` | creations under a quota: pool, row locks, count | `ownership.service.ts`, `db.module.ts`, the four `create` methods |
| `ImportConfirm` | preview and confirmation, store lock, expiries, recheck | `import.service.ts`, `import.writer.ts`, `import.store.ts` |
| `ImportProofs` | theorems about `ImportConfirm` and `ImportPage` | - |
| `Books` | the abstract ledger: transfers that are one thing | - |
| `LedgerBooks`, `BooksProofs` | the mapping from the tables of `Ledger` to `Books`, and the theorem that every step maps to one | - |
| `Sessions` | sessions, passkeys and step-up proofs, request by request | `session/*.ts`, `webauthn/*.ts`, `profile.service.ts` |
| `SessionProofs` | theorems about `Sessions` | - |
| `Interval` | the dates of a scheduler | `interval.ts` |
| `RecordedMatch` | which operation each row of a file matches | `recorded-match.ts`, `import.writer.ts` |
| `Charts` | what the dashboard and the reports draw | `synthesis-chart.ts`, `report-series.service.ts`, `report-distribution.service.ts` |
| `Members` | addresses, and the mail that proves them | `profile.service.ts`, `signup-request.service.ts`, `email.worker.ts` |
| `RateLimit` | points, strikes and lockouts | `rate-limit.guard.ts` |
| `Uploads` | the files that wait to be imported | `import.store.ts` |
| `Services` | `Quota`, `Members`, `RateLimit`, `Uploads`, `Interval`, `RecordedMatch` and `Charts` side by side | - |
| `ServiceProofs` | theorems about the first five of them | - |
| `MatchAndChartsProofs` | theorems about `RecordedMatch` and about `Charts` | - |
| `ImportPage` | the import page and what it asks of the API | `useImportSession.ts` |
| `Imports` | `ImportConfirm` and `ImportPage` side by side | - |
| `MC...` | the instances that TLC checks; `MCServices` is one of `Services`, `MCImport` of `Imports` | - |

### Ledger

One variable per table (`scheduler`, `operation`, `banks`, `accounts`) and the
sets `closed` and `deleted` for the flags. `OwnerOf`, `BankOf` and `CurrencyOf`
are constants, since no statement ever updates those columns
(`account.service.ts:166`). An operation's amount, third party, value date and
notes are one abstract `content`; its side (debit or credit) and its payment
method are kept, for a mirror reverses both. `UpdateOperation` is
`TransferService.sync`, one disjunct per case (`SyncNone`, `SyncDetach`,
`SyncRefresh`, `SyncRetarget`, `SyncAttach`) after `ClassifyPairingEdit`. A
transaction that the database refuses is rolled back, so it is no step: the
unique index is the conjunct `PointingAt({o}) = {}` of `SyncAttach`, the foreign
key the guards of `SyncDetach` and `BatchDelete`. `GenerateOccurrence` is one
occurrence; `Generation` says when they happen.

An entry's account is refused a change by its own requests
(`accountCannotBeChanged`), yet a retarget from the other side of a transfer
does move it; the model has both, as the code does.

### LedgerTx

What `Ledger` takes as one step, statement by statement: `pc` is a client's next
statement, `wrote` its uncommitted rows, `read` what it read earlier in its
transaction, `held` its locks with their PostgreSQL modes. A step runs when
nothing blocks its locks; otherwise `Cancelled` may end it, which is the
deadlock detector or `statement_timeout`. Left out: closings, bank removals and
schedulers; a client makes one request; the locks of one statement are taken
together; the check of ownership before a transaction is one step with its
start. `Creation`, `Edition`, `BatchDeletion` and `Removal` are what a client may ask,
of which an instance takes some (`RequestAssumption`); the tables to start from
are paired as `Ledger` leaves them (`InitialAssumption`).

### Generation

`cursor` is `lastGeneratedDate`, `made` counts the operations generated for a
scheduler and a date, `run` holds what each run is doing, `jobs` the queue. A
transaction is `TakeLock`, `ReadRow`, `Generate`; a crash or a failed statement
is `Fail`. `Tick` and `ChangeTimeZone` move the members' "today". `closedAccount`
and `closedTarget` stand for closing or deleting either. Dates are day numbers
and occurrences are equally spaced. `made` keeps operations that the member
later deletes, since the cursor alone decides what is generated next. `edited` is a
history variable for `NothingSkipped`: a member who moves the dates of a
scheduler moves what lies before its cursor too, and the code generates nothing
for it. A run that ends early leaves the rest to the queue (`LeftToQueue`), but a
sign-in whose process dies queues nothing (`Fail`).

### Quota

`pending` is the pool's queue, `inTx` the transactions that hold a connection,
`memberRow` and `bankRow` the row locks. A statement on the pool takes and gives
back a connection in one step; `Count` is such a statement, made by a transaction
that keeps its own. Scheduler creations lock bank then member, account creations
member then bank. A member has one bank row to lock. `Remove` deletes one thing
and what is in it, and waits for whoever locked it.

### ImportConfirm

`file`, `result` and `lock` are the three keys of an upload; `pc` is the step of
each confirmation; `seen` what its evaluation found, `plan` the corrections it
will insert. Rows are matched by what they describe (`Matching`): the fuzzy
matching of `recorded-match.ts` is reduced to equality. `Hold` is the account's
`FOR UPDATE` lock with the recheck after it. `Rework` may come while the account
is held, when the operation is a mirror edited from the other account: the
history variable `reworked` excuses exactly those, which the code does not
catch; `expired` the confirmations whose lock ran out under them; `applied` what
was really recorded. Left out: account fingerprints and their mismatch, rows that
are invalid, the mirrors of imported transfers, the audit, and the eviction of a
sixth upload beyond `FileGoes`.

### Books and LedgerBooks

`Books` says what the ledger promises in terms a member would use: a movement of
money is debited from one end and credited to the other, an end is an operation of
an account or the outside, and a transfer is one movement in the books of both
accounts. `LedgerBooks` reads the tables that way: `MovementOf` makes one movement
of an operation and its counterpart, from the row of either. That both rows yield
the same movement is what pairing means; a step that left one of them behind would
add a movement that no step of `Books` adds. `KeepsBooks` is the abstract
specification, checked as a property of `Ledger`. Rows of deleted accounts map to
nothing: a transfer whose other end is deleted is one with the outside.

### Sessions

`store` is the session store, `listed` the set of a member's session ids, `owner`
the credential rows. A request (`pc`) loads a copy of its session, works on it, and
writes it back when the answer ends if it changed it, as express-session does;
hence a step-up proof that two requests carry at once serves both, and a session
that was revoked while a request held it comes back. Both contradict comments of the
code (disagreements 6 and 7). The histories `shared` and `unlisted` name them, with
the proofs that a crash left in the store and the ids that the store refused to list:
`StepUpServesInTurn` and `SignedInIsListed` say that there is no other way. `Rotate`
and `SaveRotated` are the two halves of a sign-in, the first of which may fail and
leave a session of nobody (`RotateFails`), `LockPasskeys` and `DeletePasskey` of a
removal,
`ReadSessions` and `DestroySessions` of a revocation. Signatures are a choice, and
so is whether a challenge is too old. A browser takes its new cookie in the step in
which its session is saved, which express-session does one after the other; no
property depends on the difference. The refusals of wrong bodies and the display of
sessions are left out.

### Interval

The arithmetic of `interval.ts` on dates as tuples, with a scheduler that is edited
and run as days go by. `addDays` and `addMonthsClamped` are functions of the real
Gregorian calendar. The generator `occurrencesBetween` is the set of the indexes
that it yields, which `End` closes at the first occurrence past the horizon, where
the loop breaks; `dueOccurrences` takes the first of them. The ceiling of a run is
3 instead of 1000, so that a backlog takes several.

### RecordedMatch

The four passes of `markRecorded`, each a function (`Pass`) of how many rows have
had their turn, and what an import makes of their result: new operations
(`Inserted`), and operations that take the reference and the label of their row. A
side and an amount are one value, and so is a normalized third party or label.
`Twins` says which rows of one file could be taken for one another, so that
`ImportedOnce` asks only for rows that have a reference or a label of their own:
of two rows without either nobody can tell which one was imported.
`ImportConfirm` keeps its simpler matching:
the two meet at `Matching`, which needs only that a recorded row is found again,
what `ImportedOnce` checks.

### Charts

`table` holds the operations, `ReadBalances` and `ReadMonths` are the two reads of
a dashboard, `RankLabels` and `ReadPeriods` those of a distribution, with `Write`
in between. The SQL groups and sums; the operators that lay the sums on an axis of
periods have the names of the functions they translate. `MAX_PERIODS` is small, so
that axes are cut.

### Members

`queue`, `job` and `inbox` are the mail queue, its worker and what was delivered;
the worker may die between any two of its steps, and a refused mail is tried again
until its attempts are spent. `pending` is the address a member asked for, `version`
counts what makes older links stale. Registration answers the same whether or not the
address has a member; the mail it leads to differs (`Resolve`). Registrations are
numbered, and `owed` holds those whose own mail was neither sent nor given up: the
mail of one does not pass for that of the next.

### RateLimit

`spent`, `strikes` and `block` are the keys of the store with the ticks they have
to live; each call to the store is a step of a request, and `Stop` may end it after
any. A lockout lasts a window times the power of two (`PowerOfTwo`) that the strike
asks for, capped. `lockedBy` and `overtaken` are histories: the strike that a lockout
is for, and the requests that were past their look at its key when it was set; `quiet`
is how long a key had no strike. Of two requests that count strikes 1 and 2 of a key,
the second may set its lockout first and the first then cut it short (disagreement 8):
`LockoutsCutByOvertaken` says that this is the only way.

### Uploads and ImportPage

`Uploads` is the member's list of files: `Save` counts what is too many in the
command that adds a file, `ReadOldest` and `Evict` remove that many in later ones.
Ids are numbers in the order of the set's scores. `Stop` is a command that fails or
a process that dies in between; `cut` says that the files it should have evicted may
still be there, until the next upload counts again. `UploadsLimited` bounds the files
that wait from above; more may be evicted than were too many (disagreement 9).
`ImportPage` is the composable of the page: `previewRun` numbers the previews asked
for, `calls` holds requests and answers on their way in any order, and what the
server holds expires. A pick that makes a row a transfer, or stops it being one, may
move the row; each request finds the operations that rows match as they are then,
and a confirmation is refused unless its revision, the operations and the places of
the rows, is that of the preview. `ConfirmsWhatIsShown` compares what a confirmation
records with the rows the page showed: after a pick whose preview failed only the
places in the revision tell the two apart. The mutant drops the order of the answers;
leaving the places out of the revision breaks the property as well. Left out: the
reconciling of skipped rows, the mismatch of accounts, categories, and the caches
of the web client.

## Runs

All are exhaustive over their instance.

| Run | Instance | What it shows |
|---|---|---|
| `ledger_pairs` | one member, one bank, 3 accounts, 3 operations, transfers in both directions | pairs stay exact mirrors over any order of saves, batches and deletions; closed books follow their counterpart only; the tables implement `Books` |
| `ledger_schedulers` | two banks with one account each, a scheduler, opening balances | deletions convert every reference, deleted books and opening balances stay |
| `ledger_mirror` (violation) | as `ledger_pairs` | the half of a pair left in deleted books still points at the survivor |
| `tx_two` | 2 clients, 3 accounts, 2 banks, a pair and maybe a third operation | two requests at once keep pairs whole, and end |
| `tx_target` (violation) | as `tx_two` | a target deleted between its check and the write |
| `tx_batch` (violation) | 3 clients, two of which delete the same operation | a batch that clears a pairing made after it read the links |
| `generation` | 1 member, a worker and a sign-in; 1 scheduler, 3 days, 3 rules, 2 upsets; or 2 daily schedulers, 2 days, 1 failure | no date twice or skipped, where a budget ends in the middle of a scheduler either; every scheduler catches up, those after a failed one too |
| `import` | 2 confirmations, 2 uploads, 1 row, 2 labels, 1 edit, 2 faults; the page: 2 uploads, 2 previews, 1 row that an operation may match | rows are recorded once, corrections stay within their quota, the page confirms what it shows |
| `sessions` | 1 member, 2 browsers, 2 requests at once and 3 in all, 3 ids, 2 passkeys, 1 proof, 1 fault | a passkey remains, sessions are listed, proofs serve in turn, ids rotate |
| `services` | see below | quotas, dates, matching, charts, addresses, lockouts and uploads |
| `quota_full` (violation) | 2 members, a pool of 2 | every connection waits for another |
| `match_adopted` (violation) | a file of 2 rows, 2 operations, 1 import | the other side of a transfer is not found by what it took |

`services` checks seven modules that share no state in one run: the initial state
picks `part`, the one at work, and the variables of the others stay `NULL`
(`Services`). That keeps one question, "is each of these small services right", in
one run; nothing is lost, for the behaviours of a part are exactly those of its
module, which is what the lemma `OneAtWork` says. Its instances:
`Quota`, one member, two creations at once, quotas of 1 and 2, three connections;
`Interval`, anchors on 31 January and 29 February, five intervals, a limit or none;
`RecordedMatch`, files of two rows among four kinds, accounts of two operations
among four, one import; `Charts`, three operations among five kinds, three
accounts, two currencies, an axis of 3 periods, one write between two reads;
`Members`, two members, three addresses, one fault; `RateLimit`, one key, two
requests at once, a window of 2 ticks, strikes forgotten after 3; `Uploads`, two clients,
four files, two that may wait. `import` is laid out the same way, with
`ImportConfirm` or `ImportPage` at work.

Why the bounds are enough. A pair has two ends and a retarget needs a third
account; three operations are a pair and one that competes for its link. The
members and currencies of `ledger_*` are one, so that a transfer refused across
members or currencies is only covered by the proof of `TransferEndsMatch`. Two
transactions suffice for each race of `LedgerTx` but that of `tx_batch`, which
needs two deletions and an edit; `Operation` holds two ids for each client so that
none runs out. In `generation` the budgets (2 for a job, 1 for a sign-in) are
smaller than the backlog of three days, so that they cut it; `MaxUpsets` bounds
edits, closings, removals, changes of time zone and failures together. Two
schedulers are taken only as far as `Competing` goes: they are due on the same two
days, so that budgets end between them, only their member's runs generate them, the
ones that share a budget, and one failure spends an attempt of the job or drops the
sign-in's rest. `InScope` keeps behaviours there by refusing requests, days and
failures, never what a run, the worker or the sweep has to do; a third scheduler would
compete as the second does. A quota of
one is reached at once and two creations contend for it. In `import` a quota of one
correction is contended by two labels; `MaxPreview` lets a preview be confirmed
twice or two previews once. In `sessions` two requests are every race of the code,
whose handlers keep nothing from one another but the store; three in all let a
third find what two left. Two removals of two passkeys are the race that would
remove the last one. In `RateLimit` a request that was answered may come again, so
that two at once over a budget of one point overtake each other with strikes 1 and 2,
strike up to the longest lockout, and again after the strikes are forgotten; three at
once pass as well, and the proofs are of any number.

`CHECK_DEADLOCK FALSE` is set where the system may stop: no fresh ids or accounts
(`ledger_*`), every client answered (`tx_*`, `import`), the bounded requests used up
(`sessions`, `services`, `match_adopted`), and in `quota_full`, whose property says
why. `generation` checks for deadlock.

### Fairness

- `LedgerTx` and `Quota`: weak fairness of each client's next statement. The
  database serves what waits for nothing, and cancels what waits too long
  (`db.module.ts:14`). Nothing makes a client start. The wait for a pool
  connection has no such end, which is what `quota_full` shows.
- `Generation`: weak fairness of the sweep, which is hourly
  (`generation-queue.service.ts:22`), and of a run's steps; strong fairness of
  taking a member's jobs, since the worker takes jobs in order, one at a time, so
  a job that is there again and again is taken. Upsets are bounded, which is the
  assumption that failures stop.
- `Members`: weak fairness of the worker, which polls its queue for ever
  (`email.worker.ts:29`). Refusals and deaths are bounded by a job's attempts and
  by `MaxFaults`; following a link is a member's choice and never fair.
- The other modules state no liveness: nothing there must happen.

## Proofs

`LedgerProofs` proves, for every set of members, banks, accounts, operations and
schedulers, under `LedgerAssumption` (disjoint keys and well typed columns):

- `TypeCorrect`: `TypeOK`, foreign keys included, one lemma per action;
- `PairsAlwaysMirror`, `PairingAlwaysComplete`, `TransferEndsAlwaysMatch`,
  `NeverDeletedTarget` and `MirrorsNeverShared`, all from one inductive
  invariant, `PairsInv`: each of the five needs the others. That a refresh keeps
  a mirror exact needs that no other row points at it (`MirrorsUnshared`), that a
  conversion hits both or none of a live pair needs that live rows name no
  deleted account, and so on.

It also proves what a step of `Ledger` may never do, from the same invariant:
`DeletedBooksAlwaysFrozen`, `ClosedBooksAlwaysFollow` and
`OpeningBalanceAlwaysKept`. The lemma `StepTouches` lists the five ways in which
any step can touch an operation (it is kept, edited by its own account's request,
follows its counterpart, is freed of a deleted one, or loses its scheduler); the
opening balance needs in addition that it is never half of a pair (`OpeningInv`).

`BooksProofs` proves `LedgerKeepsBooks`: `Ledger` implements `Books` under the
mapping of `LedgerBooks`, whose `OutsideAssumption` says that the outside is no
entry of an account. `LiveFacts` reads the pairs' invariant as movements: a live
row and its counterpart yield the same one, and no third row does. `Lost`,
`Added` and `Rewritten` say what becomes of the set of movements when rows go,
come and change; each action of `Ledger` is then one of the three, or none.

`LedgerTxProofs` proves, for any number of clients, any requests, accounts and
operations, under the assumptions of `LedgerTx` (accounts, banks, operations and
`NULL` are distinct; requests and initial tables are what they are said to be):

- `TypesHold`, `LinksAreUnshared` and `LinksAreReturned`: whatever statements
  interleave, links name rows, no two rows have one link, and what a row is linked
  to reflects it or has lost its own link;
- `PairsMirrorIfFresh`: pairs of live books mirror as long as, whenever a batch is
  about to clear the counterparts that it read, only operations of the batch point
  at them (`FreshSurvivors`). The hypothesis is what the race of `tx_batch` breaks,
  and so nothing else breaks a pair;
- `PairsMirrorWithoutBatches`, for any number of clients none of which asks for a
  batch deletion, and `PairsMirrorForTwo`, for two clients that ask for anything:
  both have fresh survivors. With two, the other client can unlink a counterpart
  that was read, but is done then and cannot pair it again (`TwoInv`).

They come from `TxInv`, which says of each client what its transaction may rely on:
locks exclude each other (`LocksExclude`), what it read of a row that it locked is
what is committed (`Read`), the ids that it drew are no other's (`Writing`), and what
it is about to save has one of four shapes (`Outcome`): the operation alone, or with
a counterpart that it deletes, inserts or keeps in step. `OthersKept` says what a
step of another must leave alone for this to last; `Committable`, what a commit must
be for that and for the links, which each of the three commits is.

`GenerationProofs` proves, for any members, schedulers, dates, budgets and upsets
under `GenerationAssumption`, `NeverGeneratedTwice`, `NeverSkipped` and
`CursorAlwaysLatest`. They come from `GenerationInv`: the dates that a transaction
still has to insert lie after the cursor with no occurrence missed between
(`InFlight`), which lasts because the advisory lock keeps a scheduler in the hands of
one run (`Exclusive`) and the id of a deleted scheduler never comes back; and whatever
was generated lies at or before the cursor, which was itself generated
(`BeforeCursor`). That a set of dates has a latest is proved by well-foundedness of
`<`.

`SessionProofs` proves, for any members, browsers, sessions and passkeys, any
requests at once, failing commands and crashes, under `SessionsAssumption` and
`NoSessionAssumption` (no session is `NULL`), after `TypeCorrect`:

- `PasskeyAlwaysKept`, from `RemovalInv`: a removal past its count holds the lock
  on every row that it counted, and no other request holds one (`LockedOnce`,
  `Locked`), so what it leaves is still owned when it deletes;
- `StepUpAlwaysServesInTurn`, from `ProofInv`: a proof that is not shared is in one
  request's copy at most, and in the one stored session which that copy was
  loaded from; once it served, no copy carries it, and the store only holds it
  until the request that used it ends;
- `SignedInAlwaysListed` and `SignInAlwaysRotates`, from `MemberInv`: a copy whose
  member differs from what is stored has an id that no cookie and no other
  request knows (`CopyOK`), any two other copies of one id agree on the member
  (`CopiesAgree`), and a member's session that somebody knows of is listed
  (`Known`).

`ImportProofs` proves, for any confirmations, uploads, accounts, rows and choices,
any edits and any failures, under `ImportAssumption` (what there is to begin with
was not imported; rows and labels are finitely many; no choice both remembers and
forgets a label), after `TypeCorrect`:

- `LockAlwaysOwned`, inductive by itself once every variable is typed;
- `OutcomeAlwaysRecorded`, from `OutcomeInv`: a confirmation that is about to save
  its outcome was recorded;
- `CorrectionsAlwaysWithinQuota`, from `CorrectionsInv`: what a transaction planned
  still fits when it writes it, since one at most has planned anything, and what
  others do meanwhile only removes corrections;
- `AlwaysRecordedOnce` and `NeverDuplicateEntry`, from `RecordingInv`: a transaction
  has its account to itself (`Alone`), what its confirmation worked from is what
  the preview showed (`AsShown`), what bears on the account is still that
  (`UpToDate`), and a preview shows only operations older than it (`ShownBefore`).

About `ImportPage`, under `PageAssumption`, it proves `AlwaysConfirmsWhatIsShown`,
from `PageInv`: previews are numbered and only the newest of the upload on the page
may change what it shows (`RunsNumbered`, `NewestOfUpload`); an answer, a preview
that is shown and a confirmation on its way all carry the revision of the rows that
they were computed from (`AnswersOfRevision`, `ShownOfPreview`, `ConfirmsRevision`).

`ServiceProofs` proves, of the services that `Services` puts side by side, for any
number of members, requests, connections, keys, files, rules and days, and any
quotas, windows, limits and ceilings, under the assumptions that `Services` names:

- `NeverOverQuota`: a request past its count holds its member's row alone, and
  what the count found still holds until it inserts (`RoomLeft`);
- `AlwaysInReach`: what a request locks to create in is reachable until it ends
  (`Pinned`);
- `UploadsAlwaysLimited`, from `UploadsInv`: when too many files wait, some upload
  has still to evict what brings them back within the limit, whatever other uploads
  evict before it (`EvictionComes`), unless one was cut short;
- `AlwaysCutByOvertaken` and `StrikesAlwaysForgotten`, from `GuardInv`: what is left
  of a lockout is at most what its strike asks for, and a request that looked at the
  key since it was set found nothing left of it (`LockoutsKnown`); a later strike
  never asks for less (`LockoutsGrow`), so that only an earlier one, of a request that
  looked before, can write less. Strikes that no request is about to give an expiry
  have one (`StrikesExpire`). That powers of two are positive and grow is proved by
  induction on the exponent;
- `AddressesAlwaysUnique` and `LatestChangeAlwaysWins`, from `MembersInv`: the
  unique index is what the races meet, and a link of another version than the
  member's is refused, whatever was read before it;
- `DatesNeverDrift`, `NextIsAlwaysMade` and `BacklogAlwaysCounted`, from `DatesInv`
  and the calendar: every count of days falls in one month (`MonthFound`), dates
  grow with the count of days and of months (`DaysAscend`, `MonthsClamped`), so the
  occurrences of a rule ascend (`OccurrencesAscend`) and pass any horizon
  (`OccurrencesPass`); hence the first past it exists and what is due is the finite
  set of indexes before it (`EndFound`, `BetweenIs`), whose elements can be taken in
  order (`IthFound`).

`MatchAndChartsProofs` proves, under `MatchAssumption` (rows and operations have dates, an
operation has its seven fields), for any file, any operations of the account, and
any imports and renamings:

- `AlwaysEachTakenOnce` and `ReferencesAlwaysFirst`, from `Settled`: a pass gives a
  row only an operation that fits it and that no row has, and when it ends no row
  without an operation fits one that is free (`PassTakes`, by induction on the rows);
  later passes neither take back what a row has nor free what one has taken, so the
  four together leave nothing that any rule matches (`RowsSettle`);
- `AlwaysImportedOnce`, from `MatchInv`: every row that an import recorded has an
  operation with its date, amount, label and reference (`Carries`), every row that
  gave its reference away one that has it within the tolerance (`Adopts`); imports
  change neither, because they give labels and references only to operations that
  have none, and renaming changes neither. By `Settled` such an operation is taken,
  and by no other row if the row is alone with its reference or label.

It proves, under `ChartsAssumption` (operations, accounts and ids are
finitely many, months are naturals, an axis has one period at least), for any
operations, reports and windows:

- `ChartsAlwaysEndAtBalance`: an axis ends at the last month that has an operation
  (`ChartMonthsAre`), what is before it and what is on it are all there is of a
  currency (`ChartEnds`), and so are the balances of the currency's accounts
  (`BalancesAre`);
- `DistributionsAlwaysAddUp`: whichever labels come first, the operations of a side
  and a period are divided among the labels of the answer (`LabelsAddUp`), and the
  axis of some operations keeps their periods that the axis of more keeps
  (`OwnAxisKeeps`), since the more recent end of the wider one is later
  (`NarrowerKeeps`).

Both rest on what a sum over a finite set is: it exists (`SumsExist`), the order of
what is added does not matter (`SumRemove`), and it is the sum of its parts
(`SumTogether`, `SumOfParts`). `Charts` has a `Sum` of its own, a recursive function
inside, because the prover cannot read the folds of the community modules in a
module that is instantiated. What is drawn is computed from what the two reads keep
(`ChartsInv`), and is compared in the step that draws it.

The prover has no induction over data and no recursive operators. The proofs above
that need either write recursion as functions on the naturals, whose existence
`FunctionByRecursion` proves, and argue by `AllNaturals`, that a set of naturals with
0 and every successor is all of them, or by `AllSubsets`, the same for the subsets of
a finite set; these follow from the well-foundedness of `<`.

One statement had to be corrected to be proved: `ImportedOnce` ignored that a row may
share its third party with the name that a member gave the operation of another row,
which `Twins` now says.

Only model-checked: every liveness property (`RegistrationsAnswered`,
`CreationsEnd`, those of `Generation` and `LedgerTx`), which is out of the prover's
reach under fairness. Every safety property of a run that passes is proved, for
every instance, except that `PairsMirror` of `LedgerTx`, which three requests can
break, is proved where it holds.

## Disagreements with the comments of the code

All are findings of `PROJECT.json`. TLC refutes what the code says in the first five
by a run of their own; the others are short enough to be followed by hand, and the
properties named with them say what does hold:

1. `ledger_mirror`: deleting an account clears the survivor's link and not the
   link that points at the survivor. A later edit of the survivor into a transfer,
   or its deletion, is then refused by the database.
2. `tx_target`: a new target is checked without a lock, so that deleting it at the
   same time leaves a transfer to a deleted account.
3. `tx_batch`: two deletions of one operation and an edit of its counterpart leave
   a pair that only one side knows of.
4. `quota_full`: the count on the pool inside a transaction can exhaust the pool
   for good.
5. `match_adopted`: the other side of a transfer, reconciled by an import, takes
   the label of its row "so the next import finds it", but keeps its date; without
   a bank reference, a row on another day is recorded again.
6. `session/consume-step-up.ts:16` says that "one ceremony authorizes exactly one
   action". Two requests load one session, each takes the proof out of its own copy,
   and both are let through; only then is either copy saved (`StepUpServesInTurn`).
7. `session/session-registry.service.ts:12` says that removing a passkey or confirming
   an e-mail change can sign out every other device. A request of another device
   loads its session, the revocation destroys and unlists it, and the answer of the
   request, which changed its copy, saves it again: signed in, and on no list
   (`SignedInIsListed`).
8. `security/rate-limit.guard.ts:39` says that each further violation doubles the
   lockout. Two requests of one key spend past the budget and count strikes 1 and 2;
   the second sets its two windows, then the first sets one in their place
   (`LockoutsCutByOvertaken`).
9. `operations/import/import.store.ts:12` says that an upload past the limit replaces
   the oldest one. An upload counts one too many, another file is discarded, and the
   upload then evicts the oldest although nothing is too many any more
   (`UploadsLimited`).
10. Strikes of the rate limit are said to decay after an hour without further
    ones; the expiry is set at the first strike only, so they are forgotten an hour
    after it whatever came since (`StrikesAreForgotten`).

## Order of the work

`Ledger`, `LedgerProofs`, `LedgerTx`, `Generation`, `Quota` and
`ImportConfirm` came first, since money is lost or doubled there; then `Sessions`,
`Interval`, `RecordedMatch`, `RateLimit`, `Uploads`, `Members`, `Charts`, `Books`
with its refinement, and `ImportPage`; then the proofs of `Generation`, `Sessions`,
`ImportConfirm`, of the services, the page and the charts, and of `LedgerTx`.

What would come next: fingerprints of accounts in `ImportConfirm` (two first
imports at once of files of two accounts), the targets of schedulers in `LedgerTx`,
reports of averages in `Charts`.

## Not modelled

Parsing of bank files and suggestions (text and heuristics); search and
autocomplete (queries that change nothing); renaming of banks, accounts, passkeys
and reports (one statement on one row); the alerts that other services mail;
averages and filters of reports; audit, encryption, HTTP, configuration, health and
logging; the web client but the import page: its other pages show what the API
answers or submit a form. The modules model the program's own logic; most of the
lines of the repository are tests, translations, markup and declarations, that
model nothing by themselves.

## Running

    tlc -workers 2 -config MCLedger_pairs.cfg MCLedger
    tlapm LedgerProofs.tla
