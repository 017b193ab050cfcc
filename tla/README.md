# Verification of the Neat mobile backend

TLA+ models of the Go backend in `src/` (Gin, GORM, Postgres), model-checked with
TLC and, for the properties that matter most, proved with TLAPS. The models follow
the code, not the documents under `src/docs/`; where a document says something else
than the code does, a run or a remark shows the difference (see *Findings*).

## 1. The system

Three programs share one Postgres database (READ COMMITTED): the API (`cmd/api`), the
notification API (`cmd/notification-api`) and the daily repayment sweep
(`cmd/autorepayment`). Several replicas of the API may run; two seed commands are run by hand.
External services: Providus and Optimus (wallets, transfers), core banking (CBA), BVN/NIN
providers, SMS, e-mail, Expo push, an S3 bucket and Xpress Payments (bills).

| component | code (`internal/modules` unless said) | state | operations and callers | model |
|---|---|---|---|---|
| registration jobs | `auth/service_register.go`, `service_registration_jobs.go`, `service_registration_claim.go` | `wallet_registration_jobs`; on completion users, wallets, devices, BVN links | `Register`; sweep every 5 s and one kick per request -> provider wallet -> one finalizing transaction; claim endpoint | `RegistrationJobs` |
| loan repayment | `autorepayment`, `loanproduct.MakeManualRepayment`, `wallet.TransferForLoanRepayment` | attempts, transactions, wallet balance; `loan_loan*` tables of CBA | daily cron; user call; provider transfer; CBA call | `LoanRepayment` |
| wallet ledger | `wallet` | `wallet_customer_wallets`, `wallet_transactions` | transfers, repayments, bulk transfers, credit webhook, deposits | `WalletLedger` |
| value added services | `vas`, `providers/vas` | transactions | debit at provider, fulfil, reverse | `BillPurchase` |
| one-time passwords | `auth/otp` | `wallet_otps` | issue, resend, verify, consume | `VerificationRecords`, `DeviceLogin` |
| login and devices | `auth/service_login.go`, `device` | devices, challenges, pending device sessions | login, challenge, new-device OTP | `DeviceLogin` |
| sessions | `auth/service_logout.go`, `providers/jwt` | sessions, refresh tokens | rotate, logout, access check | `DeviceLogin` |
| secrets | `auth/service_password.go`, `service_pin.go`, `internal/authchecker` | hashes, attempt counters, verification records | reset, change, check with lock | `VerificationRecords`, `PinLock` |
| identity | `auth/service_bvn_nin.go`, `auth/verification` | verification records, face checks, BVN rows | BVN/NIN/face look-ups | `VerificationRecords` |
| CBA customer sync | `auth/service_cba_sync.go` | `core_customer_id` | sweep every 10 min, goroutines behind a semaphore | `CoreBanking` |
| loan applications, callbacks | `loanproduct` | applications, events, customer status | apply; CBA callbacks | `CoreBanking` |
| seed commands | `cmd/seed-loan-products*` | loan products and rules | run by hand; read by loan applications | `LoanProducts` |
| statements | `account`, `internal/server/router.go` | report jobs, the bucket | cron dispatcher, channel of 4, workers | `Statements` |
| notifications | `notification`, `providers/push` | push tokens, tickets | register, send, receipts cron | `Notifications` |
| login limiter | `internal/middleware/login_rate_limit.go` | failures per address and phone, in memory | before and after each login | `LoginLimiter` |
| schema | `internal/database` | columns, keys, indexes | `Migrate` at start | `SchemaMigration` |
| savings, cards, reporting, history | `neatsave`, `card`, `reporting`, `transaction` | single rows, read-only queries | request handlers | none |

How they interact: registration stamps verification records and creates the wallet, the
device and the BVN link other modules rely on, then starts the CBA sync; login, PIN and
password flows share the OTP service and the device table; VAS, transfers and repayments
share the provider's balance and the PIN counter; CBA calls back to change the loan and
customer status and owns the loan tables the sweep reads; every module sends notifications.

What is hard: transactions without row locks (status read, then written), leases and lost
workers, rows claimed without a lease, remote effects that happen although the call failed or
happen late, errors of clean-up statements that are discarded, contexts that expire in the
middle of a sequence, redelivered and reordered callbacks, counters updated by
read-modify-write, a migration that several programs run at once.
`PROJECT.json` lists each such place with its line under `hazards`.

### What makes each component correct

* **Registration** - one user per person, local effects all or nothing, one session per
  registration, one open job per phone, every job decided.
* **Repayment** - nothing is recorded at CBA that was not debited, a debit that CBA did not
  record can be found, funded installments are eventually settled.
* **Wallet, VAS** - the balance is what the rows say; books and provider differ by nothing but
  lost answers and lost or repeated webhooks; each effect of a purchase happens once, and its status bounds
  them as far as answers are read.
* **OTP, devices, records** - a code, a pending session, a challenge and a verification record each
  pay once; wrong guesses are limited; only a code makes a device usable.
* **Sessions, secrets** - a refresh token is rotated once; after logout nothing refreshes; parallel guesses
  of a PIN stay bounded.
* **Core banking** - a late or repeated report never brings an old status back; a link is not lost; the
  account number goes to the linked customer.
* **Background jobs** - one holder per statement job, nothing sent on a closed channel, every job and
  receipt settled unless something failed; a receipt is acted on once and unsubscribes only a token that
  was gone since its message.
* **Operations** - no start of a program loses data; a migrated program serves with every index in
  force; applications are judged by the terms of the last smooth seed run.

## 2. Modules

| module | models | status |
|---|---|---|
| `RegistrationJobs` | the registration saga | checked and proved |
| `RegistrationSaga` | what clients of registration are promised (abstract) | refined by the above (TLC and proof) |
| `LoanRepayment` | daily sweep and manual repayment | checked and proved |
| `BillPurchase` | airtime, data, electricity and cable purchases | checked and proved |
| `PurchasePromise` | what a purchase promises customer and accounting (abstract) | refined by the above (TLC and proof) |
| `DeviceLogin` | login, new devices and their codes, challenges, refresh, logout | checked and proved |
| `VerificationRecords` | codes, BVN/NIN/face look-ups, and what their records pay for | checked and proved |
| `CoreBanking` | sync, loan applications and callbacks against core banking | checked and proved |
| `LoanProducts` | the seed commands and the rules an application reads | checked and proved |
| `SchemaMigration` | `Migrate`, next to programs that serve | checked and proved |
| `WalletLedger` | transfers, repayments and the credit webhook against the provider | checked and proved |
| `PinLock` | the PIN counter, its writers and its lock | checked and proved |
| `LoginLimiter` | the limiter of failed logins | checked and proved |
| `Statements` | statement jobs, from request to file | checked and proved |
| `Notifications` | push tokens, sends, tickets, receipts | checked and proved |
| `..._proofs` | theorems about the module they are named after; `CoreBanking_proofs` also about `LoanProducts`, `DeviceLogin_proofs` also about `LoginLimiter` | proved |
| `Account_proofs` | theorems about `WalletLedger`, `PinLock`, `Statements` and `Notifications` | proved |
| `MC...` | small instances for TLC; some put two or three modules side by side | |

Some modules hold, next to a definition, a variant with a comment starting with `Mutant:`.
These are plausible mistakes in that code; no action uses them. Each property is known to fail
when its definition is replaced by one of them (`mutants` in `PROJECT.json`).

Modules whose state is disjoint are checked in one run (`MCTransfers`, `MCCoreBanking`): the variable `which` picks in the initial state the module that takes steps,
so the run is the union of their state spaces and not their product.

### RegistrationJobs

State and code: `job` is the job table keyed by idempotency key; `users`, `walletRow`, `device`,
`bvnOwner` the rows the finalizing transaction writes; `usedRows` the consumed verification
records; `remote` and `late` the provider (wallets it holds per customer id, requests in
flight whose caller is gone); `worker` the goroutines inside `ProcessPendingRegistrationJobs`,
with their own stale copy of the row (`resp`, `again`); `req` the goroutines inside `Register`.

Granularity: a statement, or a transaction that locks the rows it reads, is one action. The
transaction of `Register` reads without a lock, so it is `RegisterRead` followed by
`RegisterRetry`, `CreateJob` or `RegisterRollback`; anything may happen in between.
`Resolve`, `LookupBeforeGenerate`, `GenerateWallet`, `SaveResponse`, `Finalize`, ... are the
steps of `processRegistrationJob`. `ProviderCreates` and `LateCreate` are the provider. Faults
(`SaveResponseFails`, `GenerateFails`, `FinalizeUnheard`, `MarkFailedLost`, `WorkerDies`, ...) draw on one
budget.

Two facts of the code shape the model. The lease is five minutes and the context of every
goroutine that claims jobs is one minute (`server/router.go:176`, `service_registration_jobs.go:391`), so
`LeaseExpires` is possible only when no goroutine holds the job; this assumes that
clocks of API and database agree to within the four minutes in between and that an
expired context stops its goroutine. And `buildRegistrationSnapshot` rejects every payload with an
e-mail address (line 204 compares pointers of two rows), so payloads have none.

Abstractions: `attempts` is capped at 2 (the code asks only whether it is above 1); the claim
token is a number; the order of claiming within a batch is arbitrary (locked rows
are skipped); a kick without a free `Kickers` slot is a goroutine that has not started yet.

`RegistrationSaga` is the client's view: open, failed, done, session claimed. The refinement maps
`job` to it (`PhaseOf`), and hides leases, batches, look-ups and lost workers.

### LoanRepayment

State and code: `pending`, `outcomes`, `refs` summarise `wallet_auto_repayment_attempts` of each
installment (how many pending rows, which final statuses, which provider references on failed
rows - the queries ask no more); `tx` is `wallet_transactions`; `balance` is `available_balance` in kobo;
`moved` and `recorded` are the transactions the provider executed and CBA recorded; `inFlight`
the requests whose caller is gone; `today`, `paid`, `active` are CBA's tables. A `worker` is a
sweep (`Sweepers`) or a manual repayment (`Callers`); both run the same transfer steps,
and differ in what they do on an error (`Otherwise`).

`ItemExpires` is the 30 s context of an item: all later statements of the item fail, their errors
are dropped, the loop goes on. It also stands for an `UpdateAttemptStatus` that fails.
`FailTxLost` draws on no fault of its own, so it is reached with one.
`SweepDies` is a crash or the end of the ten-minute context. Which installment CBA marks paid is
its own choice, because the request names only the loan (`autorepayment/service.go:165`).

### BillPurchase

State and code: `row` is the status of the purchase's `wallet_transactions` row; `call` the
handler (`GetAirtime`, `GetData`, `PayElectricity`, `PayCable` and `handleFulfilFailure` have the same steps;
their checks differ and are four actions); `funds`, `debited`, `refunded` the provider; `fulfilled` the biller;
`late` the requests nobody waits for any more; `stored` the beneficiary or electricity token.
Kind, customer and amount of a handler are fixed in the initial state.

`result` is whether `DebitCustomer` returned a response: for a status other than 200 it returns neither
response nor error (`DebitRefused`, `DebitServerError`), the handler goes on, and
`NextOrPanic` is the nil dereference that ends it after the biller answered. Any answer with status 200 is
taken for the effect: nobody reads the debit's `Status` (transfers do, `wallet/service.go:155`) nor the biller's
`responseCode`. `DebitDeclined` and `FulfilDeclined` are such answers with nothing behind them; the history
variables `debitDeclined` and `fulfilDeclined` remember where. `Lost` is everything that
ends a handler in the middle: a cancelled request context (each statement and call after it fails, the
errors are logged), a failed statement, a crash. The local balance is a constant
because no purchase changes it. Left out: the balance snapshots in the row, and the
PIN check of airtime and data, which comes before the row exists.

`PurchasePromise` is the status, the effects that happened, and those that were declined unnoticed. An effect
declined unnoticed counts as done (`Taken`, `Given`): that is all a status can say. Money is taken only for an
open or failed purchase and never twice, goods are delivered only for one that is open, reversed or left to be
reconciled, a refund is only given for what counts as taken, and `successful` is final and means that
debit and delivery each happened or were declined unnoticed, without a refund. It cannot mean
more: the handlers do not look.

### DeviceLogin

State and code, for one user: `device` is `wallet_user_devices`, `otp` the codes of the user's phone with purpose
login, `pending` and `challenge` the pending device sessions and challenges, `session` and `token` the
sessions and refresh tokens; `request` is the goroutines. A request inserts at most one row into a table, so
rows are named by it. `spent` in a session and `overlapped` are history: what was used up to get
the session, and whether a login from another device was begun while one was in progress.

Granularity: a statement, or a transaction whose reads are guarded by locks or conditional updates, is one
action. `Issue` with an active code locks its row (`Reissue`); the first `Issue` locks
nothing and sends the SMS before it inserts (`IssueFirst`, `CreateOTP`), so two codes can be active. It
commits before the login's own transaction (`CreatePending`: the pending session and
`DeactiveOlderDevices`). `VerifyNewDevice` reads the pending session without a lock (`ReadPending`) and takes the
rest in one step, because `GetActiveOTPByID` locks the code and `MarkPendingSessionUsed`
asks for an unused session. `VerifyDeviceChallenge` has no transaction: `ReadChallenge`, `MarkChallengeUsed`,
`AddAccessToken`, `AddRefreshToken`. `RefreshAccessToken` checks (`ReadToken`), then rotates under a lock
(`RotateRefreshToken`). `Logout` is three statements; the foreign key of `wallet_refresh_tokens`
(`ON DELETE CASCADE`, `src/models/refresh_token.go:16`) takes the tokens away with the session. `Ends` is a refusal, an
error or a crash at any point.

Left out: wrong passwords, codes and signatures end a request and change nothing (the attempt counted
for a wrong code is rolled back with its transaction); the cool-down and the limit of resends also only
end requests. A code's text is its row: a resend invalidates the old text and keeps the row.

`OneUsableDevice` has the condition `~overlapped` because without it the code does not have the property: logins from
two new devices, both begun before either code is entered, leave two usable devices.

### VerificationRecords

State and code, for one phone number: `code` is `wallet_otps`, `record` `wallet_verification_records` with
the face check of each, `bvnRow` the BVN table's row of a person, `user` the account behind the number;
`wrong` and `paid` are history. A transaction that locks its rows is one action (`RightCode` and `WrongCode` are
`Verify`, `IssueAgain` locks the active code, `ResetPassword` and `ResetTransactionPin` take the record under a lock);
what is read before is a step of its own: `IssueFirst`/`CreateOTP` (nothing is locked while the first SMS goes
out), `ValidateNIN`/`AddNIN`, `CompareCurrent` (the current secret) before `ChangePassword` and
`ChangeTransactionPin`. `Register` stamps three records (`used_at`) and leaves them `verified`, and `JobCompletes` is
the end of the saga of `RegistrationJobs`.

A record carries no purpose: any verified one with the phone pays for any reset, also one a registration
has stamped. The model says so; `PaysOnce` is what holds nevertheless.

### PinLock

`attempts` and `lock` are the two columns of the user, `guess` the requests between reading them and writing
them. `CheckPin` has two forms: `authchecker` and `vas` add one in SQL and lock, `ApplyForLoan` writes what it
read plus one and a lock computed from that, over whatever others wrote meanwhile. `wrongs` is history.

### LoginLimiter

`seen`, `count`, `blocked` are the two tables (by address, by phone), least recently failed first; `client` the
requests, of which check and count are separate steps with the login in between. A shard at its limit throws
out its oldest entry, blocked or not (`MustMakeRoom`); then nothing is claimed any more (`crowded`).

### CoreBanking

State and code, for one user: `link` and `custStatus` are `core_customer_id` and the customer status of the user's row,
`app` the applications, `events` the two tables of status events; `held`, `ledger`, `acked`, `wallets` belong to
core banking: its customers with the user's BVN, the statuses it gave, the reports it knows to have arrived, the customers
with the user's account number. `Report` delivers any report so far, again if need be, and loses the
answer if `arrives` is false. A callback holds the row lock to its commit and is one action; the sync
goroutine is `match`, `store`, `push`, a loan application `match`, `store`, `create`, each in its own
transaction, with callbacks in between.

The transition table is looked at before the event table (`internal_callback_service.go:219`), so a repeated
report is refused or accepted by the status alone; `MirrorsCore` shows that this never moves a status back and
`Converges` that repeating ends, as long as core banking sends a subject's reports one after the other.

### LoanProducts

`product` and `rule` are the two tables, `release` the seed files in the repository, `command` the seed commands in
progress: `LoadAndValidate` reads a file, `UpsertProduct` writes it, `ResolveProduct` and `UpsertRule` are the
two statements of a rule. A rule's primary key is a random UUID and `First` orders by it, for seeder and
application alike, which is why two rules of one product do no harm as long as both read the
same one. `sure` is history: the release a command found that went through its files without a failure and
without company.

### WalletLedger

`row` is `wallet_transactions`, `balance` the wallet's `available_balance` in kobo, `bank` and `moved` the provider's
account, `owed` the deposits it still reports. A debit is `Insert`, the call (`Executed`, `Refused`, `TimesOut`,
`ExecutesLate`), then `ReadDebited` and `CompleteDebit`: the row lock the code asks for is not taken, so the balance
read is a stale copy, and only the relative update counts. `Deliver`, `ReadCredited`, `Credit` are the webhook;
`CreditFails` is answered with 200 and never repeated. Transfers give the client kobo, repayments naira,
and the client divides by 100 (`providers/baas/providus.go:455`).

### Statements

`status` is `wallet_account_report_jobs`, `file` the bucket, `queue`, `dispatcher`, `running`, `life` the channel, the cron
job and the state of each API process, `worker` the goroutines. `Dispatch` claims as many rows as the channel has free
slots (one transaction, locked rows skipped), `SendJob` sends them. `Stop`, `Close`, `Restart` are the
shutdown of `server/router.go`: cron first, then the channel, then the workers empty it. `Crash` and `Expires` leave
claimed rows behind for good: there is no lease, so `EveryJobSettles` is claimed only without a fault.

### Notifications

`registered` is `wallet_push_tokens`, `ticket` the tickets, `sender` and `poller` the goroutines; `alive`, `lives` and `receipt` are
the push service. A token may be gone and come back (`Dies`, `ComesBack`; `lives` counts the returns), and a message
carries the count of its sending: a receipt, or an answer, may report an absence that is over by then, and the code deletes the
token by value all the same, whoever has registered it since. So `DropsOnlyGone` says what the code does guarantee: a token in use
is deleted only by a message older than its return. `ActedOnOnce` says that this happens once per receipt (`dropped` is history).
`SendToUser` and its steps read the switch and the tokens in separate statements, send, store the tickets
and drop tokens by value; `Poll`, `MarkReceipt`, `DropToken` are the receipts cron over the oldest `Batch` tickets.
A registration moves a token between users' devices at any time.

### SchemaMigration

`pc` says which statement of `Migrate` (`Statements`, in its order) a process is at; `column`, `row` are the three settings that
moved from one column to another, `contact` the two contact columns it swaps, `constraint` the keys and indexes,
`broken` those that rows contradict, `latest` the user's own last choice (history). Each `db.Exec` is one action
because it commits on its own. Users change settings through any process that serves, `OpenTwo` and
`CloseOne` stand for concurrent first registrations of a phone.

Two statements meet rules of `wallet_users`. The swap may clash with the unique e-mail, which Postgres checks row by row:
`SwapFits` if some order of the users works, `SwapClashes` if some order does not, and where both hold either outcome is
possible. `AutoMigrate` asks for the unique e-mail and for a PIN in every row, so after `AddPinHash` on a table without any PIN
column it fails as long as a user has none. A setting may have either column, both or neither, in a database with
or without users. Addresses are text without `@`, as the swap's own test takes them to be.

`Unprepared` are replicas of the API without `RUN_MIGRATIONS=true` (`config.go:126`), which serve at once.

## 3. Runs

| run | question | result |
|---|---|---|
| `registration_serial` | calls of `Register` one at a time, commits acknowledged: leases, one user per person, settlement, refinement | holds, 90 647 states |
| `registration_races` | overlapping calls, lost acknowledgements: what still holds when workers share a job | holds, 1.2 million states |
| `loan_repayment` | sweep, manual repayment and one fault anywhere | holds, 605 296 states |
| `bill_purchase` | two purchases, two faults anywhere | holds, 285 900 states |
| `bill_purchase_unpaid` | does the biller deliver only what was debited? | violated (finding 1) |
| `device_login` | four overlapping requests of one user with three devices | holds, 271 197 states |
| `verification_records` | racing codes, look-ups, resets, changes and a registration | holds, 881 635 states |
| `core_banking` | CBA reports repeated and late, sync and loan application in between; overlapping seed commands | holds, 808 048 states |
| `transfers` | two debits and a deposit in one wallet; parallel PIN guesses; parallel logins; two API processes and their statement jobs, interrupts and a crash | holds, 619 117 states |
| `repayment_units` | does a successful repayment move what it books? | violated (finding 2) |
| `push_notifications` | a token that goes and comes back, sends and receipts | holds, 728 871 states |
| `schema_migration` | two migrating processes and one that does not, on old, new, empty and clashing databases | holds, 570 544 states |

### Bounds

*Registration*: two payloads of one person (the pair is what phone, device and BVN
conflicts need), one sweeper claiming two jobs and one kicked goroutine (two workers are enough
to share a job), two or three `Register` calls (create, retry, overlapping retry), one or two
faults. The races run shares phone and device, the serial run only the BVN, so that both open at once.
*Repayment*: one loan, two installments due on different days, one sweep and one
manual repayment, one fault, two credits of the wallet, four transaction rows - as many as
two installments, one repeated transfer and one manual repayment can use, so that bound never stops a behaviour.
*Purchases*: two purchases of one customer, of every kind and of one of two
amounts, with money for one large purchase only, so that the second passes the local check and is refused
by the provider; two faults let a lost debit or refund follow an unknown fulfilment.
*Login*: three devices (the registered one and two new ones, as overlapping logins need) and four requests
of any kind: enough for two logins with racing first codes and their two verifications, for a challenge
answered twice, for refreshes racing each other and a logout. No fault budget is needed, `Ends` is always possible.
*Records*: two codes (two racing first requests), three records (what a registration needs), two requests
(racing changes), one person; one attempt and one resend make the limit reachable; rows are symmetric.
*Core banking*: two customers of one BVN, one application with three statuses, a customer with two, one sync and
one loan application. *Seeds*: one product, two rules, two commands, two releases, one failure: two commands that both
find no rule, and a later one that updates; products share no state, so one is enough.
*Wallet*: two requests, two goroutines for one deposit, two faults, and an opening balance that pays one debit:
the second is stopped locally or by the provider. *PIN*: the code's five attempts; two guessers reach exactly
30 wrong PINs without a lock that lasts (a loan application keeps writing over the counter), so the bound is
tight. *Limiter*: two clients, one address, two phones, one entry per shard: making room and both tables.
*Statements*: three jobs (one of each kind of format), two processes with a worker each, two slots, one
interrupt, one fault. *Push*: two users who share a phone and so a token, which one of them has registered; one sender, three
sends and tickets in batches of two, one without a receipt, one fault, and two changes: the token's return and a new
registration, which an old receipt then meets. `BatchAssumption` (fewer tickets without a receipt than the batch) is needed:
300 of them would keep every later one from being looked at.
*Migration*: three parts. One user with every value of one setting to repair at a time, in every shape of its columns,
two keys that rows may contradict; a database without columns or without tables; and two users whose contacts are swapped or
not, in each other's way or not (the second user is there for that). One crash. `MCInit` leaves out databases that need
two settings, or contacts and settings, repaired together: their statements share no column.

Deadlock is checked in `core_banking` and `schema_migration`, which can always go on. It is not in the others:
calls, faults and days are bounded, so the modelled system really stops.

### Fairness

Registration: a worker's step (the cron fires every five seconds, calls return or
time out, `FinalizeFails` because a conflict ends the transaction) and `LeaseExpires` (time
passes). Repayment: the daily sweep starts, its steps go on, days pass. Statements: the cron fires,
workers go on, an interrupted process closes and is replaced. Push: the receipts cron goes on, and the push
service answers a ticket that will get a receipt. Migration: processes are restarted, a statement ends. Core banking:
it repeats a report until it is answered, and not every answer is lost. Nothing is assumed of
clients, of the provider's late effects or of top-ups; `FundedIsRepaid` is conditional on
the wallet being funded from some time on, `EveryJobSettles` of statements on no fault, `EveryoneServes` on a
database that `Migrate` can repair: both tables, new columns where it copies from old ones (`Upgradable`), and from some time on
no duplicates, no clash of e-mails before or after the swap and a PIN for every user (`Repairable`). Purchases claim nothing that must happen:
the code never takes a pending row up again; nor do logins: every step waits for a client.

### Findings

1. `bill_purchase_unpaid`: `DebitCustomer` returns `nil, nil` when the provider refuses
   (`providers/baas/providus.go:600`), so the biller is asked to deliver what was not debited. It takes no fault:
   two purchases that each fit the balance, but not together. `UnpaidStaysPending` is what survives.
2. `repayment_units`: a repayment passes naira to a client that divides by 100, so the provider moves a
   hundredth of what the books debit (`wallet/service.go:219`). `DriftExplained` counts it.

Also met while modelling, without a run of its own:

* *Registration.* Overlapping retries requeue a claimed job, so two workers share it
  (`service_register.go:57`, `repository_registration_jobs.go:244`): `registration_races` and the proofs show what survives, and why
  `OneWorkerPerJob` is checked for serial calls and proved for calls that do not overlap. The lost acknowledgement of the finalizing commit
  flips a completed job to failed. Registrations with an e-mail address are always rejected.
  With Optimus as provider the reconciling look-up never yields a wallet (`providers/baas/optimus.go:336`), so a retry whose
  row holds no answer asks for another one; the model's `Lookup`, which may always miss, covers it.
* *Repayment.* A debited installment that CBA did not confirm is transferred again by the next sweep
  (`autorepayment/repository.go:31`; `docs/auto_repayment.txt` says not to retry). A sweep that dies leaves a pending
  attempt that blocks its installment for ever (`Orphaned` in `FundedIsRepaid`). The balance check leaves out charges
  (`autorepayment/service.go:101`). Sweeps of two processes would both insert (`:64`); the deployment runs one.
* *Purchases.* Every answer of the biller with status 200 is taken for a delivery, its `responseCode` is not read
  (`providers/vas/xpress-payments.go:262`, `:324`, `:452`, `:572`), so a declined purchase is paid and closed as successful
  (`FulfilDeclined`); a debit declined with status 200 is delivered unpaid and closed (`DebitDeclined`). A purchase whose credit failed is marked `reversed` like a refunded one (`vas/service.go:617`). No purchase
  reduces `available_balance`.
* *Wallet.* A redelivered webhook credits twice, and a failed credit is answered with 200 (`wallet/service.go:435`). Credit rows
  carry the provider's wallet id while history and statements filter by the user's (`wallet/service.go:445`,
  `service_registration_jobs.go:308`, `transaction/service.go:29`), so credits do not appear in them. Bulk transfers
  write no row. A statement's opening and closing balance are swapped (`account/service.go:342`, the list is descending).
* *Codes and records.* A wrong login code is not counted, its transaction is rolled back (`service_login.go:191`).
* *Core banking.* With two customers of one BVN the account number may go to the unlinked one; a loan application that read before
  CBA's link overwrites it; the sweep's context ends with `SyncPendingCBACustomers` (`server/router.go:198`); an old repeat after a newer status is
  refused with 409, and reports sent out of order may stay refused; customer status `pending` has no way out.
* *Seeds.* The rules command before the products command skips every rule and exits with 0; rule files name ids that
  exist only in the database they come from, and elsewhere the code decides.
* *Statements.* Any format is accepted and fails only in the worker (`account/service.go:255`); two users of one name
  and period share a file (`:121`); the user is told also when `MarkJobReady` failed; the API does not catch SIGTERM.
* *Notifications.* `IsVerifiedDevice` never runs its query (`notification/repository.go:325`); a late receipt of a token drops
  it although it has come back or been registered again since (`:121`; what `DropsOnlyGone` excepts); a NULL switch cannot be toggled.
* *Migration.* An empty database cannot be migrated: `wallet_users` is updated before it exists (`database.go:81`) and no model is
  stored in `wallet_transfers` (`:374`), against `README.md:129`. Columns are copied (`:99`, `:121`) before `AutoMigrate` adds
  the new one. A user with text in both contact columns is swapped at every start. Keys and unique indexes without
  clean-up stop every start until the rows are gone; so does a swap that meets the unique e-mail (`:81`, `models/user.go:22`), and a
  user without a PIN (`:132` adds the column, `models/user.go:25` then refuses NULLs).

## 4. Proofs

For every value of the constants: any number of users, requests, goroutines, rows, processes and faults. Each proof
module has an inductive invariant, shown to hold initially and to be kept by every action; the properties follow from it.

*RegistrationJobs_proofs.* `Typed` is `TypeOK` plus `Attached` (a goroutine inside a handler has a
job); it is inductive and gives `TypeCorrect`. `NextIsDataStep` then reduces `Next` to the ten
writes of the tables, and the `...Writes` lemmas say what each changes. On these rest
`OneOpenJobPerPhoneAlways` (the unique index guards every way to open a job),
`RowsUsedAlways` (from `Known`: only stored jobs are referred to, so a row exists exactly when `CreateJob`
made it), `FinalizationAtomicAlways` (from `Whole`, the per-job equivalences), `WalletIsRemoteAlways` (from
`ResponsesExist`: each response a job row, a worker's copy or an awaiting call holds names a wallet
of the provider), `OneUserPerPersonAlways` (from `Insertable` and the BVN link, which `Whole` ties
to `users`) and `SessionClaimedOnceAlways`. `TypeOK` alone is not enough for any of these: what a goroutine
carries between two statements is invisible to the tables, and `Known` and `ResponsesExist` state it.

Two results have conditions, because the code has the property only under them: no two calls for one payload are inside
`Register` at the same time (`RetriesInTurn`, a client that waits before it retries; the calls of different payloads
overlap freely) and a worker hears of its commit (`CommitAcks`). Then `OneWorkerPerJobAlways` holds, although no worker
looks at its lease again once it has the job: `Exclusive` says that what is in hand is leased (`Leased`), that a goroutine
without a job holds none, and that a call about to requeue has read `failed`, which stays so until it does
(`FailedStays`). And `SagaIsImplemented` maps every step to a step of `RegistrationSaga` or a stutter, the refinement
the serial run checks. `HeardStep` collects the steps that are left when commits are heard of.

*LoanRepayment_proofs.* The inductive invariant `Sound` adds to the types: rows above `lastTx`
are unused, two goroutines never work on one row, a goroutine waiting for the provider has a pending row, one past it has a row
that was `moved`, one at CBA a `successful` row, and requests in flight to CBA
belong to `successful` rows. It gives `RecordedIsPaidForAlways`; with
the item of the row it gives `SuccessIsRecordedAlways`. `ReconcilableAlways` (the attempts of a debited installment lead to its transfer; the row may say `failed`, then
with the reference if the transfer is booked) needs a second one, `Traced`: an installment
has at least as many pending rows as sweeps attend it (`Counted`, a cardinality), no two goroutines carry one row
(`Alone`), the row a goroutine carries is of its item (`Carries`), and a row nobody carries can be found. All hold for any number of
sweeping processes, more than the one the runs use.

*BillPurchase_proofs.* The inductive invariant `Sound` says for each purchase how its row follows its
handler (`RowSound`), what the handler knows of provider and biller (`HandlerSound`: in
particular a debit result means debited or declined with status 200), what may still happen late and under which status
(`LateSound`), and that a purchase neither debited nor so declined never leaves `pending` once the biller may
deliver it (`UndebitedSound`). `LateSound` is the part without which no status could be trusted: it keeps a request
abandoned earlier from contradicting a row closed since. Steps of one purchase leave the others
alone (`Frame`, `OthersStay`), jumps and row updates are treated once each (`JumpKeeps`, `WriteKeeps`).
`PurchasesKeepPromise` then maps each step to a step of `PurchasePromise` or a stutter.

*DeviceLogin_proofs.* The inductive invariant `Sound` adds to the types and the checked
invariants what they rest on: what a request between two statements works on (`RequestSound`) and has not
inserted yet (`Fresh`); that what was spent is marked as spent (`SpentMarked`), and that a request past
`MarkChallengeUsed` is alone to be paid for its challenge (`Paying`), without which `SpentOnce` is not
inductive; that tokens refer to sessions that exist or did (`TokenRefs`), and a session about to get its first token has
none (`Awaiting`); that a login in progress leaves no other device usable unless logins overlapped
(`Enrolling`). It gives all the invariants, `OneLiveTokenAlways` and `TokensAlways` among them, and
`UsableByCodeAlways` for the steps. Lemmas first say who writes which table, so that each conjunct is proved for the few
writers it has.

The limiter's proof is in the same module. `Covered` counts for each key: the failures are at most those recorded plus those
of requests that have failed and not yet counted; once the key is blocked, failures and requests already let in
together stay below the limit plus the requests in flight. `FailuresBoundedAlways` follows for any number of parallel requests.

*VerificationRecords_proofs.* `Sound` adds to the checked invariants: the code behind a record is consumed
(`ProvenConsumed`), a row has answered at most what its resends and its counter account for (`GuessesCounted`: the resend resets
the counter, so `GuessesLimited` alone is not inductive), and a BVN row stands behind each BVN record (`RowBehindRecord`).

*CoreBanking_proofs, core banking.* `ReportsInOrder`: core banking is at most one report ahead of what it knows to have arrived, and what arrived is
recorded. `AppsFollow` and `CustomerFollows`: the stored status is the last one given or, unanswered, the one
before (`Abides`), and is the last one as soon as its event is recorded; this is what makes a late repeat harmless.
`FoundExists`: what goroutines carry is held by core banking, and nobody pushes an account number before there is a link.

*CoreBanking_proofs, seeds.* Rules belong to products that keep their id (`RowsBelong`); a command carries terms no older than what
is sure and than what it found at its start (`Dated`), and writes to a rule of its product (`Sighted`); a smooth
command is alone of its kind (`Alone`), found the first rule, and has left its terms where applications read them (`Undisturbed`).
`StaysJudged` is the step that matters: a rule added or updated by a later command, before or after the first one, keeps the
product judged. That a set of keys has a least one comes from the well-foundedness of `<` (`Least`).

*Account_proofs, statements.* `Apart`: channels and dispatchers hold each job once, and no job is in two of them or with two
workers; `HeldClaimed` ties that to the status `processing`; `Fitting`: what a dispatcher still has to send fits its channel,
which is why it never blocks and is over before the channel closes. `OneHolderAlways`, `NeverBlockedAlways` and
`ReadyHasFileAlways` follow. First come lemmas on sequences without repetition (`Appended`, `Behind`); the order in
which rows are claimed (`Oldest`) does not matter here, only that none is claimed twice.

*Account_proofs, notifications.* `PushTold` (`GoneWas`): what a sender or the poller holds as gone, and every receipt that says so,
is about a token that has been gone since that message was sent; it has not come back, or `lives` has grown. `DropsOnlyGoneAlways`
is the action property from it. `Acted` counts for each ticket its deletions against its mark and the failures, with the deletion the
poller still owes (`Owed`); it gives `ActedOnOnceAlways`.

*Account_proofs, wallet.* `LedgerSound` adds to the two equations whose row a request is working on (`OwnRows`), that what
the provider may still execute has neither moved nor been booked (`LateRows`), that credits are of deposits that were paid in
(`PaidIn`), and that what moved is what the client sent (`MovedAsSent`). The equations are sums over the rows, and how one
step changes them comes from lemmas on `SumFunctionOnSet` (`SumOfFirst`, `SumTakes`, `SumSame`, `SumUpTo`, ...). No
induction theorem is needed for these: each is shown by taking a smallest set for which it fails (`Smallest`).
`SuccessMovedAlways` says it for each row: a successful transfer moved its amount, a successful repayment a hundredth.

*Account_proofs, PIN.* The bound on wrong PINs is not a sum of per-request bounds, since a loan application can put an old
count back for all others. `GuessesCounted` puts each request on a level: how many wrong PINs the counter it has read, or the
one it can read next, leaves (`Level`). A wrong PIN takes its request a level down, and the others come down no lower than
where the row is then open; an expired lock that is cleared puts one request for good below the top (`LevelPaid` and its cases `CountPaid`,
`WritePaid`, `LockPaid`, `ClearStays`). `Used` numbers the ways the requests can be spread over the levels in the order in
which they can follow each other, with binomial coefficients (`Pascal`, shown to exist by `PascalExists`; `UsedRises`, `UsedBounds`), so each
wrong PIN raises it by one. While a lock that has gone by is in the row, what is left is counted by `Pot` (`PotPays`).
TLC checked the invariant first, for one to three requests and one to five attempts. `GuessesBoundedAlways`: with N requests at a
time and A attempts there are at most C(N + A + 1, A + 1) + A - 3 wrong PINs, which is the 30 that the run reaches with two
requests and five attempts.

*SchemaMigration_proofs.* `InOrder`: the effect of each statement a process is past (`Reached`) is there, also while
other processes run the same statements, because no statement undoes an earlier one (a PIN in every row and the unique e-mail included). With it, `NothingInNoColumn`
(a column that is missing holds nothing) and `ContactsSettled` (after the first pass users are as the swap leaves them) give the settings, what a migrated
process may rely on, and that later starts change nothing.

Assumptions: those named `...Assumption` in the modules (functions have the right domains,
`None` and `NoJob` are no elements, limits are positive, the sets that are counted or summed over are finite, sweepers and
other goroutines are distinct). `BatchAssumption` is the
only one about the deployment, and no proof uses it.

Every invariant and action property that a passing run checks is also proved.
Proved without a run
are `ReadyHasFileAlways`, `OneOpenJobPerPhoneAlways`, `RowsUsedAlways`, `OneOpenChallengeAlways` and `SuccessMovedAlways`. Only model-checked are the liveness properties
(`EveryJobSettles`, `FundedIsRepaid`, `Converges`, `ReceiptsRecorded`, `EveryoneServes`: temporal logic with fairness is out of
the prover's reach).

## 5. Plan

Done: everything in section 2. Open: the order in which tickets are polled, which `ReceiptsRecorded` rests on; the download link that a statement row caches.

## 6. Not modelled

* Savings goals: single rows; a deposit from the wallet answers "not implemented" after the PIN check (`neatsave/service.go:127`).
* Cards: one provider call and one insert. Reporting and transaction history: read-only.
* Bulk transfers (no row is written), beneficiaries, expected deposits (inserted, never read back).
* HTTP binding, error mapping, parsing and payload formats; which BVN/NIN/face provider answers; the text of
  codes, messages and statements; amounts and rules of loan products; configuration, `devsigner`.
* `SendOTP` and `VerifyOTP` of the OTP service, which nothing calls.

`PROJECT.json` lists every component with what is modelled of it or why it is not.
