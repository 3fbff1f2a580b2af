# Specifications of the wallet and ledger backend

TLA+ models of the NestJS/PostgreSQL backend under `src/`, TLC configurations
that check them on small instances, and TLAPS proofs of what must hold on every
instance. Paths below are relative to the repository (`src/ledger/...` is the
service code).

## 1. The system

The backend keeps customers' money in wallets over a double-entry ledger. All
durable state is in one PostgreSQL database; every service that changes money
runs one `SERIALIZABLE` transaction per attempt through TypeORM, with row locks
(`pessimistic_write`), unique indexes and triggers behind it. There is no
message broker and no dispatcher of the outbox in this repository. Processes
may be many and may die at any statement.

| Component | State | Operations | Interacts with | What must be right |
|---|---|---|---|---|
| Ledger (`ledger/`) | accounts, journals, lines | createAccount, postJournal, postJournalInTransaction, reverseJournal | everything that moves money; metrics inside its transaction | no overdraft, balance of every journal, one journal per key, one reversal per journal, no deadlock |
| Transfer lifecycle A5 (`transfer/transfer-lifecycle*`) | transfers with a status machine | createPending, transition, postToLedger, resolution of an uncertain outcome | ledger, idempotency, outbox | money moves exactly when the row says so; answers stay true |
| Internal transfer gate A5 (`transfer/internal-transfer-gate*`) | its record | policy decision, then both bindings; the answer is the caller's | A4 policy, bindings; nothing calls it | a repeated request has the same answer |
| Transfers M3, deposits, withdrawals, shared payment lifecycle (`transfer/transfer.service.ts`, `deposit/`, `withdrawal/`, `payment/`) | one row per payment | create, process, complete, fail, cancel | ledger, wallets, audit, outbox, metrics | one journal per payment, terminal states final, no payment lost |
| Idempotency records (`operations/idempotency.service.ts`) | scope, key, hash, status, stored response, expiry | reserve, complete, fail, cleanupExpired | all command handlers | a key answers one request only |
| Outbox and retention (`operations/outbox.service.ts`, `maturity/retention.service.ts`) | events with status and attempts | enqueue, enqueueOnce, claimPending, markPublished, markFailed, retryFailed, deletion | producers above | an event of a committed change is not lost |
| Metrics, audit, diagnostics (`operations/`) | counters, append-only log | increment, record | inside others' transactions | never disturb them |
| Wallets, account binding (`wallet/`) | wallet accounts, bindings with a version | provision, bind, repair | customers, approvals, ledger | a customer is bound once in a currency, to what it was found entitled to |
| Quotes, virtual accounts, fees, limits | rows, mostly with a version | quote, consume | | one use per quote |
| Privileged action approval (`authorization/`) | approvals with a fingerprint of what they are for | request, approve, reject, cancel, expire, emergency, consume | finance governance, binding repair | decided by another than asked; used for one change |
| Customer sessions, credentials, MFA, workforce authorization | sessions, counters | sign in, rotate, revoke, challenge | customer profile | reuse of a rotated token revokes |
| AR control account (`ledger/ar-control*`) | one ledger account, its audit and event | provision, recover | approvals, finance controls, the ledger (through a transaction of its own) | reported once, as authorized |
| Customers, onboarding, risk, eligibility, customer wallets (`customer*/`, `onboarding/`, `eligibility/`) | status tables | guarded updates of rows read without a lock | account binding | what was made final stays final |
| External operations, settlement, suspense, callbacks, circuit breaker A6 (`partner/`) | operations, callbacks, settlements | submit, time out, query, accept callback, settle | ledger | an external effect is applied once although answers are lost, doubled or late |
| Finance governance B2F (`policy/b2f-*`) | control policies, fiscal years and periods, account mappings, journals under governance | activate, open and close, map, prepare, submit, post | approvals, idempotency, the ledger (through a transaction of its own) | one change per approval; the year follows its periods; a journal reaches the ledger once; nothing posted in a closed period |
| Capability policy A4 (`policy/capability-policy*`) | decisions, snapshots of evidence, records of evaluations and new evaluations, keys at work in the process | evaluate, reevaluate | evidence collectors, idempotency, audit; transfer gate | an answer is a decision that is kept, on the evidence asked about; unsafe evidence allows nothing |
| Products A7, B1, B2 (`policy/`) | evaluations stored under a key | evaluate | transfer gate | the same command gives the same result |
| Reconciliation | none: reports over one snapshot | transfers, bindings, trial balance | all tables | a report passes exactly what is right |
| Pilot, product governance, runtime, configuration, migrations, web UI | limits, flags, schema | | | see `PROJECT.json` |

`PROJECT.json` lists every component with the files it comes from and whether
it is modelled, and every hazard with the line where it bites.

The services keep three habits of concurrency, and the models follow them. Money
and finance governance use `SERIALIZABLE` transactions with locks; the ledger,
payments and the A5 lifecycle retry them, the partner and finance services do
not. Approvals and customer rows are read and saved in `READ COMMITTED`
transactions without a lock or version check, so a save may overwrite what it
never saw. The circuit breaker is a variable of the process and belongs to no
transaction.

What is hard here: interleavings of SERIALIZABLE transactions that wait for
each other's locks and index entries; the answer to a COMMIT that is lost while
the commit happens; bounded retries; replays under idempotency keys that
expire; statements that fail in a transaction that goes on; several writes that
must appear together.

## 2. Modules

| Module | Content |
|---|---|
| `FiniteInduction` | induction over finite sets for the proofs below: maximal elements, and the laws of the sums the invariants are stated with. No state. |
| `Journals` | commands and journals; what of them the service accepts and computes (`normalizeJournal`, projected balances, reversal). No state. |
| `AtomicLedger` | what the ledger promises: a posting happens at one instant, judged on the balances of that instant; every reply is justified by a posted journal or a ground to refuse. |
| `Ledger` | `LedgerService` statement by statement: snapshots, account locks in id order, waits on unique indexes, the metric upsert, 40001, bounded retry, re-reading the winner of a key race, lost connections. Refines `AtomicLedger`. |
| `Ledger_proofs` | proofs about `Ledger`. |
| `MCLedger` | instances for TLC. |
| `TransferLifecycle` | `TransferLifecycleService` over the ledger, idempotency records and outbox events: every transaction is one action (which `Ledger` justifies), except the posting, which is the row lock and the commit, so that a client may lose its connection in between and resolve the outcome while its transaction is still open. |
| `TransferLifecycle_proofs` | proofs about `TransferLifecycle`. |
| `MCTransferLifecycle` | instances for TLC. |
| `PaymentRules` | payments, the table `ALLOWED_TRANSITIONS`, which accounts a payment moves, and what stands in its way (`Obstacle`). No state. |
| `PaymentBook` | what the payment services promise: a payment is opened once under its key and changes one step at a time, each judged on the wallets and balances of that instant. |
| `Payments` | `DepositService`, `WithdrawalService` and the M3 `TransferService` statement by statement where locks, snapshots and errors are concerned. Refines `PaymentBook`. |
| `Payments_proofs` | proofs about `Payments`. |
| `MCPayments` | instances for TLC. |
| `TransferReconciliation` | what the reconciliation of a transfer reports in each state of `TransferLifecycle`. |
| `TransferReconciliation_proofs` | proof about `TransferReconciliation`. |
| `CommandRecords` | `IdempotencyService` for the commands of the services below: reserve, complete, fail, expiry. No state. |
| `ExternalOperations` | A6 operations, their references, callbacks and lifecycle, and the circuit breaker around their attempts. |
| `AtomicSettlement` | what settlement promises: an operation is settled or rejected once, a settled one may be reversed once, and the money follows. |
| `ExternalSettlements` | `ExternalSettlementService`: settlement, rejection, suspense and compensation. Refines `AtomicSettlement`. |
| `ExternalSettlements_proofs` | proofs about `ExternalSettlements` and the operations below it. |
| `MCExternalSettlements` | instances for TLC. |
| `Approvals` | `PrivilegedActionApprovalService`: requests, decisions that read and save apart, emergency access, consumption. |
| `FinanceControls` | the control policy in force and the decision every finance command is given. |
| `FiscalPeriods` | the fiscal year and its periods. |
| `AccountMappings` | which ledger account stands for a finance classification, and when. |
| `FinanceJournals` | journals under governance, posted to the ledger by a transaction of its own inside theirs. |
| `ControlAccounts` | the accounts receivable control account: provisioned under an approval, recovered when the transaction around its creation was rolled back. |
| `Customers` | customers, onboarding, risk, eligibility, restrictions and customer wallets, with reads and saves apart. |
| `AccountBindings` | wallet accounts, their binding to customer wallets, and the repair that closes a binding. |
| `Administration` | finance governance, the control account and bindings over the one table of approvals. |
| `Administration_proofs` | proofs about `Administration`. |
| `MCAdministration` | instances for TLC. |
| `PolicyDecisions` | `CapabilityPolicyEvaluationService` and `CapabilityPolicyRecoveryService` with their records: decisions made on a snapshot, kept, found again and put over each other. |
| `PolicyDecisions_proofs` | proofs about `PolicyDecisions`. |
| `MCLive` | instances of `Ledger`, `TransferLifecycle`, `Payments` and `PolicyDecisions` for liveness, under the fairness of each, and for what is promised of policy decisions. |

How they compose: `Ledger` shows that a posting is atomic (`AtomicLedger`);
`TransferLifecycle` and `Payments` rely on that and treat a journal as written
by the COMMIT of the transaction that posts it. Each of the three is the bottom
of its own stack: rules without state, abstract promise, detailed module,
proofs, instances. `TransferReconciliation` extends `TransferLifecycle`;
`ExternalSettlements` extends `ExternalOperations`, which uses
`CommandRecords`, as `PolicyDecisions` does. `Approvals` is the root of branches that share its table:
`FinanceControls`, `FiscalPeriods`, `AccountMappings`, `FinanceJournals`, each
extending the one before, `ControlAccounts`, which extends `FinanceControls`,
and `Customers`, `AccountBindings`; `Administration` joins the branches and
interleaves them.

In all modules a call is a record of a constant set (`Instruction`, `Asked`,
`Agenda`), and any call of the set can be made at any time and again. A module
whose constant is `Agenda` takes one set of calls per behaviour (`asked`): one
run can so replay several histories, each small enough to be explored in full,
where one history of all calls could not be.

### Ledger

`accounts`, `journals` and `posted` are the committed tables (`posted` is what
the lines of an account sum to; the service always recomputes it). A request is
a handler: `pc` is the statement it will run, `snap` its transaction's
snapshot, `holder` the row locks, `attempt` the loop counter of
`executeJournalWithRetry`. `Complaint` is the cascade of checks of
`postWithinTransaction`, evaluated on the snapshot. A commit is possible when
no journal committed since the snapshot touched an account the transaction read
(`Conflicting`): that is what PostgreSQL's serializable isolation guarantees of
two postings that read each other's lines. `LoseCounter` is the metric upsert
that fails and is swallowed.

### Transfer lifecycle

`rows` is the table `transfers` reduced to status, journal, recovery reference,
version, key and request hash; `journals` and `funds` are the ledger as this
service sees it; `records` are the unexpired idempotency records with the view
they store; `events` the transfers with a completion event. `tx[h]` is the open
posting transaction of call `h` with the row it read under the lock; it is kept
when the client loses it (`pc[h]` moves on) and ends by commit or rollback at
any later time. `Instruction` is what operators may send to `transition`: a set
of records that the instances choose. A transfer is named by its command id,
and the journal it posts has its name; `OtherJournal` are journals that were
posted by other means and may be linked by hand.

The branch of `resolveUncertainPostOutcome` that completes a row which has a
journal but is not COMPLETED is not modelled: `MoneyMovesWithStatus` shows there
is no such row. A `QueryFailedError` and any other error of a lost connection
are both possible at every statement, since which one TypeORM raises depends on
the statement that was running.

### Payments

`rows` holds deposits, withdrawals and transfers as command, status and
failure; `journals` the payments whose journal exists; `funds`, `blocked`
(wallets that are not ACTIVE) and `events` the tables around them. A call runs
at a handler through the stages `begin` (the first statement: snapshot, lookup
of the key, new uuid), `run` (statements until COMMIT), `winner` (the catch that
reads the payment which won the key), `read` (`getDeposit` after the
transaction) and `lost` (the caller is gone, COMMIT is under way).

One transaction serves the three services since they follow one pattern:
`Verdict` is what the code decides on its snapshot `tx[h]`, `Needs` the locks
it takes on the way, in the order of `Class` (payment row, wallets by id, index
entry of the key, ledger accounts by id, the ledger's metric, the service's
metric). `TakeLock` acquires the next one. What happens when the locked thing
changed after the snapshot depends on the statement: a row or wallet gives
40001 and `runWithSerializationRetry`; an index entry gives 23505 and
`KeyViolation`; a metric gives an error that `MetricsService.increment`
swallows (`LoseCounter`), after which the transaction is dead. If the ledger's
metric was the one, the next save is refused with 25P02 and the caller has an
error; if the service's own, COMMIT rolls back in silence and the caller reads
the unchanged payment. Balances that changed do not stop the lock, they stop
the COMMIT (`Serializable`).

Abstractions: freshness compares values, not row versions, so a wallet that was
suspended and reactivated counts as unchanged (more behaviours than the code
has, and the decision is the same). `Unpostable` payments, which the ledger refuses for their content, still lock
the accounts. `SerializationFailure` may happen at any statement, also without
cause. Uuids come from the finite set `Payment`, never one in use. The audit
insert, the payment reference and `idempotency.hits`, counted in a transaction
that writes nothing else, constrain nothing. Nothing in `src/` changes the
status of a wallet; `SetWalletStatus` stands for an operator who does, and is
marked external in the map.

### Reconciliation of transfers

A report is computed in one `REPEATABLE READ, READ ONLY` transaction, so it is a
function of a state and not an action. `Discrepancies` is the list of codes a
report carries. It depends on correlation ids, which come with the request that
creates a transfer; `together` ranges over the sets of transfers that could
have been given one id. Two transfers created under one correlation id are
reported as a duplicate or an orphan of each other: the property says so and
counts it as right, since that is what the code's query asks. Audit rows are
left out: a posting's carries the poster's correlation id, and a transfer that
was posted under another than it was created under is reported for it.

### External operations and settlement (A6)

A transaction of these services is `SERIALIZABLE` and never retried: it is one
action, which happens as if alone or leaves nothing. A call of `begin`, `accept`
or `timeout` is not one action, because it also uses the circuit, a variable of
the process: `pc[h]` goes from the admission by the circuit, over the
transaction, to the report of the outcome, and the process may restart
(`breaker` back to closed, the call gone) anywhere. Time is not modelled: an
open circuit may become half-open at any later moment, and a record may expire
at any moment (at most `MaxExpiries` of them). `receipts` are the callbacks kept
as evidence. A callback's signature and freshness are reduced to whether it
matches.

`settle` in the code reads operation, settlement and evidence, and either posts
a journal and inserts the settlement, or rejects and holds the operation in
suspense: all in one transaction, so one action. Settling leaves the operation
in PENDING_VERIFICATION; only the unique key on the settlement's operation stops
another. `AtomicSettlement` is refined with `outcome` read off the settlement
row and its reversal, `paid` off the journals.

### Approvals

`desk` holds decisions that were read and checked, and not yet saved: the save
writes the whole row that was read. `consume` is one step when the command that
consumes is a `SERIALIZABLE` transaction of its own, and a read and a save for
the others (`consume` in a history). An expiry is found only by who reads the
row (`due` says that the time has passed). The fingerprint is action, resource
and version.

### Finance governance

Every command asks for its record, consumes its approval, is decided by the
policy in force (`Decision`), and takes effect: one action per command.
`audit` remembers the changes that were approved and allowed. Posting a journal
is the exception: `posting[j]` is its open transaction, A5 may post (`a5`) while
it is open, and it may then commit, be rolled back or lose its answer. The code
answers an uncertain A5 with POSTING_UNKNOWN, from where a journal is posted again
under another approval and the same A5 key.

### Control account

`provisioning` holds the transactions that were let through: the approval as
they read it, the account as they looked it up. `CreateControlAccount` commits
the account at once, whatever becomes of the transaction; `CommitProvisioning`
consumes the approval, completes the record, audits and announces;
`AbortProvisioning` undoes all but the account. A request that finds the account
may use an approval that is already consumed. The event has one key: a
recovery whose correlation or causation id is not the first one's (`trace`)
cannot announce and is always rolled back, which the model has and no document
excludes.

### Customers and bindings

A change reads (`Check` puts the row it read on a sheet) and saves later, in two
actions; creations and the locked change of a customer's status are one. A row
has a version as TypeORM keeps it: a late save writes back what it read
(`VersionsSaved`). `bind` and `close` are `SERIALIZABLE`: one action each, from
all the rows they read. `reports` are reconciliation reports a repair rests on,
which may be old when it is made. The statuses PENDING, SUSPENDED and
REPAIR_REQUIRED of a binding are never written by the code, so the repair that
resolves to PENDING never applies and has no action.

### Policy decisions (A4)

An evaluation reserves its key, saves its decision with the snapshot, completes
its record and audits: four transactions, four actions (`Evaluate`, `Save`,
`Complete`, `Audit`), after any of which the catch of `evaluate` may come
(`Fail`). A new evaluation (`reevaluate`) puts around that a record of its own,
a limit on what the process does at once (`active`), a look for a decision made
already (`Look`, and `Recheck` after a failure) and the decoration of what it
finds or makes (`Decorated`): unsafe evidence withholds what was allowed and
puts the decision over its predecessor. `work[h]` is the call of a handler and
the transaction it comes to next.

Every transaction may fail, or be executed without its answer, or be given up
and committed later (`late`); a process may stop anywhere. What a profile makes
of a snapshot is `OutcomeOf`; a snapshot is named by the time it was collected
at, which is what `Latest` orders by; `Safe` are the snapshots of which nothing
is stale, missing or in conflict. A reference is the fields the code hashes, so
that two decisions may meet under one (`Immutable` is the check of
`insertImmutable`). There is one attempt: the loop of the service tries again
what an error marks as retryable, and no code throws such an error.
Authorization and the profile are taken to be valid, since a call that fails
there has done nothing; the audits of the recovery service are swallowed and
change nothing.

## 3. Runs

| Run | Shows | Bounds |
|---|---|---|
| `ledger_spend` | type correctness, `NoOverdraft`, `BooksBalance`, `OneJournalPerKey`, `ReversalsUndoOnce` (the early check of `reverseJournal` is not what prevents a double reversal, the unique index is), refinement of `AtomicLedger` | 3 requests (symmetric), 3 accounts of which one may not be overdrawn, 3 keys, 2 attempts |
| `transfers` | `TypeOK`, `MoneyMovesWithStatus`, `AnswersAreTrue`, `HistoryStands`, `JournalCompletesOneTransfer`, `FundsFollowTransfers`, `ReportsAreExact` | two stories: one transfer, 2 postings under 2 keys, recovered and given up, any record expiring; two transfers with money for one, one foreign journal, 2 creation keys. 2 handlers, 2 attempts |
| `payments` | `TypeOK`, `OutcomesAreWhole`, `TransitionsAllowed`, `OnePaymentPerKey`, `AnswersAreTrue`, `NoDeadlock`, `NobodyOverdrawn`, `FundsFollowPayments`, refinement of `PaymentBook` | three stories: settling (complete, fail and cancel at once, the wallet suspended and reactivated), creating (three commands under one key), crossing (two transfers in opposite directions and a withdrawal, 3 handlers, money for one of each). 2 attempts, 5 uuids |
| `live` | `EveryCallIsAnswered` of the ledger with its metric, transfers, payments and policy decisions; `AnswersAreKept`, `OnlyFailuresMixDecisions` | 2 ledger requests over crossed accounts; 1 transfer posted twice; a transfer and a withdrawal; three stories of evaluations: an evaluation and a new one over it in one process, new ones in two processes with a transaction that lands late, two for one place in a process. 2 handlers, 2 attempts, 2 snapshots of which one is safe, 1 expiry |
| `external` | `SettlementTypeOK`, `OneOperationPerCommand`, `ReceiptsAreEvidence`, `TransitionsTakeEffectOnce`, `MoneyFollowsSettlement`, `SuspenseFollowsReversals`, `RejectionsAreSuspended`, `DecisionsStay`, refinement of `AtomicSettlement` | three histories: intake, life, settling. 2 operations, 2 handlers, 2 attempts, a threshold of 2 failures, 2 expiries, 2 suspense entries |
| `administration` | `AdministrationTypeOK`, `OneChangePerApproval`, `YearFollowsPeriods`, `JournalsReachTheLedgerOnce`, `ControlAccountIsProvisionedOnce`, `CustomersAreBoundOnce` | thirteen histories: an approval contested; a year started; closed and reopened; a policy replaced; emergency access; two mappings of one account; a journal posted, waiting, refused; the control account provisioned; a customer onboarded, reviewed, bound. 3 principals, 2 periods, versions up to 3 |
| `transfer_unknown` | violated: `UnknownIsRecorded` | 1 transfer, 2 postings |
| `transfer_announce` | violated: `CompletionIsAnnounced` | 1 transfer, 1 posting |
| `payments_metrics` | violated: `MetricsFailNoPayment` | 2 deposits to be failed |
| `external_suspense` | violated: `ClearedForItsOwnOperation` | the settling history |
| `finance_closed` | violated: `ClosedPeriodsTakeNoPosting` | the history of the journal that waits |
| `customer_wallets` | violated: `ClosedWalletsStayClosed` | the history of the customer reviewed |

Stories and histories are alternatives of the initial state: a behaviour lives
in one of them, and TLC explores each in full.

Why the bounds suffice to be interesting: three requests are one that creates
a conflict, one that meets it and one that comes between the retry and its
cause; two attempts exercise both "again" and "exhausted" (the code has three);
two postings of one transfer are a lost one and its repetition.
The crossing story needs three handlers for a circle over wallets and accounts
that two transfers alone do not close; there each handler makes one call, and
only a transaction that is doomed loses its connection. Elsewhere in the payment
run calls may be made again without limit: their state is finite because a key
opens one payment. `MaxVersion` stops operators from cycling a transfer between
UNKNOWN, PENDING_RECOVERY and PROCESSING for ever; it is in the guard of
`Request` and not in the handlers' own steps. In the administration run it stops
calls on a customer's row from being repeated for ever. `MaxExpiries` bounds how often a record of an
external command is forgotten: two suffice for a creation and a callback of one
history to be told again. `MaxSuspense` is the code's list of entries cut to
two, one per operation or two of one. In the life history four keys and two
handlers let a begin be lost, repeated, timed out and recovered into the second,
last attempt. Two periods of the year (the code has twelve) make it OPEN in
part and closed as a whole.

Deadlock checking is off where every request of an instance may have been
answered, or every call of a history have been made; it is on in the runs of
external operations, where a process may always restart. That nobody is left
waiting is the business of `NoDeadlock` (of payments) and `EveryCallIsAnswered`
(of the ledger, transfers, payments and policy decisions). No run states the
`NoDeadlock` of the ledger: it is proved, and a circle of waits there would
leave calls of the `live` run unanswered.

Mutants: `PROJECT.json` names for every property a plausible bug of the code
(an operator marked "Mutant" in the module) under which TLC finds the property
violated.

Fairness (`MCLive`): a handler that can take its next step takes it, and
PostgreSQL does not leave a lock waiting for ever or leave a transaction that
cannot commit unaborted; other failures, retries and clients' requests are not
fair. For the ledger it is weak fairness of `Handle` and of the abort of a
conflicting commit; for transfers weak fairness of `Run(h)`: the handler's own
steps and the end of an open transaction. For payments it is strong fairness of
`Run(h)`: a lock may be free only now and then when others keep calling, and
PostgreSQL queues those who wait for it, so one who waits is not passed over for
ever. Weak fairness would claim less than the lock manager does. For policy
decisions it is weak fairness of `Handle(h)`: no handler waits for another, and
every transaction ends one way or the other. `Submit`, `Crash`, the late end of
a transaction, `Fail` of the ledger and `SetWalletStatus` are not fair. The external and finance services
have no loop, no lock they wait for while holding another, and nothing the code
promises to do later: no liveness is claimed of them.

## 4. What is proved

`Ledger_proofs`, for any number of requests, accounts, keys and attempts:

- `TypeCorrect`, `LedgerInvariant`, `NeverOverdrawn`, `KeysAreIdempotent`,
  `ReversedOnce`, `BooksAlwaysBalance`, `NeverDeadlocked`, `LedgerIsAtomic`.

The argument: `LedgerInv` says that a transaction's snapshot agrees with the
committed balances on every account it read unless a conflicting journal was
committed (`SnapshotsAgree`), that what was validated holds in that snapshot
(`ChecksHold`), and that no two transactions past their insert hold equal
entries of a unique index and none holds one that is committed (`IndexesHold`).
`NoOverdraft` alone is not inductive: at COMMIT one must know that the balances
the check saw are still the committed ones. The refinement follows by mapping
the commit to the atomic posting and every reply to a justified reply.

`BooksInv` adds to `BooksBalance` that there are finitely many journals, without
which a sum over them means nothing: a commit adds one journal that is new, so
each balance and its sum of lines grow by the same line (`SumAdd`), and its
lines net to zero because they were `Normalized` before the transaction began.
`NoDeadlock` rests on `LocksOrdered`: the rows a transaction has come before the
ones it is still to lock, since it always takes the first of them. In a circle
of waiting transactions nobody could be past the locks: who inserts waits for
one that has inserted, who counts waits for one that commits, and that one waits
for none. So all would be locking, and the holder of the last account that one
of them waits for (`HasMaximal`) would wait for a later one.

`TransferLifecycle_proofs`, for any number of transfers, calls, operators,
accounts and attempts:

- `TypesHold`, `LifecycleInvariant`, `MoneyMoves`, `OneTransferPerJournal`,
  `FundsAlwaysFollow`, `AnswersStayTrue`, `HistoryHolds`.

The argument: `LifecycleInv` adds to the properties that an open posting has
the only lock on its row and that the row is still the one it read
(`LocksHeld`), and the foreign key (`LinksExist`). Every change of a row is a
creation, an admitted transition or the save of a lock holder; each is shown to
start from a row that is not terminal, so views of terminal rows stay true.
`MoneyInv` adds to `FundsFollowTransfers` that finitely many transfers have
settled; a commit settles one that was not, which adds its share to the sum of
either wallet.

`TransferReconciliation_proofs`, for the same constants and any set of transfers
that share a correlation id:

- `ReportsHold`.

The argument: `LifecycleInv` says what a report compares (a transfer's own
journal, the journal its row names, its event). A report also counts journals,
so that there must be finitely many of transfers: each step posts at most one
(`PostedSoFar`).

`Payments_proofs`, for any number of payments, wallets, keys, handlers and
attempts:

- `PaymentInvariant`, `PaymentTypes`, `WholeOutcomes`, `KeysOpenOne`,
  `NeverOverdrawnByPayments`, `AnswersRemainTrue`, `TransitionsStayAllowed`,
  `FundsAlwaysFollow`, `NeverDeadlocked`, `SomeoneGoesOn`, `PaymentsImplementBook`.

The argument: `PaymentInv` says of every handler that its snapshot is a past
state of the tables which only grew since (`SnapshotFits`), that the locks it
has are exclusive and, except the accounts', still protect what the snapshot
saw (`LocksFit`), that its call is about the payment it works on (`CallFits`),
and that two handlers about to insert do not share a uuid (`Apart`).
`OutcomesAreWhole` alone is not inductive: at COMMIT one must know that the
status which was judged is still the row's. From the invariant, a transaction
that is ready to commit has everything it judged unchanged (`SavingIsFresh`),
so the obstacle it found, or did not, stands (`ObstacleStands`). That gives the
solvency of every account and maps each commit to one step of `PaymentBook`;
every other step is a stutter or an operator's.

`MoneyInv` is that of the transfers, for completed payments. `QueueInv` says
that finitely many calls are in progress and that each has the locks that come
before the ones it still needs (`InOrder`), in the order `Precedes` of the code:
the payment's row, wallets by id, the key, accounts by id, metrics. The argument
is that of the ledger, over locks of several kinds. `SomeoneGoesOn` puts it the
other way round: of any transactions there is one that has all its locks or can
take its next one as far as the others are concerned.

`Administration_proofs`, for any number of principals, approvals, policies,
periods, mappings, journals, customers and wallets and every agenda of calls:

- `TypesHold`, `OneChange`, `YearIsItsPeriods`, `PostedOnce`, `ProvisionedOnce`,
  `BoundOnce`.

The arguments are one per branch. `BindingInv`: a wallet is bound for a customer
only while no wallet is, in any state, and no step takes a binding away.
`CalendarInv`: every transition ends by the synchronization of the year, and no
transition leads back to PLANNED. `JournalInv` says of the transaction that
holds a journal that its answer POSTED is backed by what the ledger has
(`PostingFits`), and of the ledger that the key is the journal's (`A5Fits`): the
property alone does not survive the commit. `AccountInv` counts a transaction
that created the account and has not ended together with the reports that one
did: there is one in all. `ApprovalInv` is what `OneChangePerApproval` needs and
no single module has: a row on the desk has the intent the approval has
(`ApprovalsFit`), so that no late save changes what it is for; a change that was
audited is at the version of that intent, or is a journal that is `Done`
(`AuditFits`); and no step takes a journal back from there (`DoneStays`). A
second use of an approval that came back to APPROVED would need the same version
of a row that has moved on, or a journal that waits again.

`TypesHold` needs an invariant too, `TypeInv`, because the types say how far a
row can have come. What an audit names was requested under an approval that was
found with the same intent (`RequestsFit`); a policy, a mapping and a binding
have the version their status says, which is what bounds the versions
(`PoliciesFit`, `MappingsTyped`, `BindingsFit`); a change that was read and is
yet to be saved is one that can be saved over its row (`CustomersTyped`); a
journal that is posted again names the approval of the posting before
(`A5Typed`), and a transaction that provisions was let through
(`ProvisioningFits`).

`ExternalSettlements_proofs`, for any number of operations, handlers, calls,
keys and expiries:

- `OneOperation`, `Recoverable`, `DecisionsAreKept`, `EffectOnce`, `Evidence`,
  `SettlementTypes`, `Money`, `Cleared`, `Suspended`, `Settles`.

The arguments: a step creates one row, moves one row or leaves them all
(`OperationStep`), which needs to know what calls the handlers are at
(`BaseInv`). `RecordsInv` says that a record of a move is of an operation there
is and that, until a record expires, the version of an operation counts its
records; the property alone does not survive a creation. `ReceiptsInv` adds to
`ReceiptsAreEvidence` that two accepted receipts have different values, which a
callback establishes by finding no reference of its value. `JournalsInv` ties
each settlement to its journals by name and not by number: the journal of a
settlement has its key, a reversal names that key, and an operation has one of
each. `SuspenseInv` ties entries to reversed settlements in both directions: a
compensation finds its settlement POSTED, so no entry can have been cleared for
it. `Settles` computes the outcome and the amount paid from the settlement
(`OutcomesFit`), so that a step which adds or changes one settlement is one
decision or one reversal and every other step stutters.

`PolicyDecisions_proofs`, for any number of handlers, processes, calls and
snapshots, and however many transactions fail, land late or expire:

- `AnswersKept`, `OnlyFailuresMix`.

The argument: `PolicyTypes` says that a decision which is over no other is what
an evaluation makes, so that two of them under one reference are the same.
`RecordsInv` says who holds which record: one handler at a time, from the
reservation on (`HeldByOne`, `HolderFits`), and that the record of an evaluation
is FAILED only under a key in `failed` and COMPLETED only with a decision on the
evidence of its key (`EvaluationFits`). From there every step touches one record
that was free or that its handler holds (`RecordStep`), so that what was
answered under a key keeps its record. `StoreInv` says that decisions are kept
with their snapshot and predecessor under a reference each (`StoreSound`), and
that what a handler carries, or a record refers to, says of its evidence what
the properties ask (`DecisionFits`, `ResourceFits`). Neither property is
inductive: a replay returns what a record refers to, so one must know what
records refer to and that what they refer to cannot change.

`FiniteInduction`: `SetInduction`, `HasMaximal`, `SumTakeOut`, `SumAdd`,
`SumPlus`, `SumSame`, `SumType`.

The library states induction for an operator, which no prover here can
instantiate. `SetInduction` states it for a set F of subsets of a finite set, from
the fact that the strict subsets of a finite set are well-founded, and F is then
the set of the subsets a claim holds for. `SumFunctionOnSet` of the community
modules picks an element and recurs, by CHOOSE: first the recursion is shown to
have one solution (`SumsExist`, `SumsUnique`), then that the sum does not depend
on what is picked (`SumTakeOut`).

Assumptions are on the constants only, and TLC evaluates each on some run:

- `AccountsAssumption`, `LedgerAssumption`: accounts are finitely many and have
  an order (an id is one of finitely many uuids, which compare as text); an id
  is drawn anew by every attempt; null is no journal.
- `TransferAssumption`, `NullAssumption`: a transfer is between two accounts and
  of a positive amount; an instruction is one the endpoint lets through.
- `CommandAssumption`, `PaymentAssumption`, `NullPaymentAssumption`: the same of
  payments; `Rank` orders the accounts as their ids do, which differ.
- `CalendarAssumption`, `MappingAssumption`, `JournalAssumption`,
  `AccountAssumption`, `ControlAssumption`, `CustomerAssumption`,
  `BindingAssumption`, `AgendaAssumption`: null is no row; calls name
  principals, approvals, policies, periods, mappings, journals, customers and
  wallets that there are, and statuses and levels of the code's enumerations;
  mappings and periods that are there at the start are rows of their tables.
- `ExternalAssumption`, `SettlementAssumption`: null is no row, record or key,
  and calls name operations and recovery references.
- `PolicyAssumption`: null is no reference and no record, and a call is for one
  of the two services and on a snapshot there is.

Only model-checked: `EveryCallIsAnswered`, which is liveness under fairness.
Every other property of a passing run is stated by a theorem.

## 5. Where code and documents disagree

1. ADR-0044 says an unresolved transfer is transitioned to UNKNOWN. The second
   time within a day, the idempotency record of the first time answers instead
   and the row stays PROCESSING (`transfer_unknown`).
2. The A5 plan promises one event per successful command. A transfer completed
   through `transition` has none (`transfer_announce`).
3. `metrics.service.ts:28` says observability must not make a financial
   transaction fail, but the upsert shares the transaction, and after its
   swallowed 40001 COMMIT is a silent rollback (`payments_metrics`).
   `markFailed` counts `deposits.failed` as its last statement
   (`deposit.service.ts:405`), and a count that collides undoes the failure
   while the caller is answered with a deposit that is still PENDING.
   `withdrawal.service.ts:384` and `:483`, `transfer.service.ts:391` and `:433`
   do the same; for a transfer the answer is then that it was not found, and a
   plain posting (`ledger.service.ts:389`) is answered with 404 for its own
   journal. It takes two transactions that count the same metric, so it is a
   matter of load, not of one payment.
4. The suspense contract says a compensation needs an open entry held for the
   operation. `compensateWithinTransaction` finds the entry by its id alone, so
   the reversal of one operation's settlement clears another's entry
   (`external_suspense`).
5. The accounting model contract denies posting requests in a HARD_CLOSED
   period. The period is looked at when a journal is prepared and never again:
   one that was submitted before the close is posted after it
   (`finance_closed`).
6. The wallet provisioning document says a closed wallet cannot become active
   again. `updateWallet` reads without a lock and saves the whole row, so the
   later of two requests undoes the close (`customer_wallets`). The same pattern
   is in the onboarding, eligibility and risk services; `Customers` models them
   alike.

One divergence has no run of its own, because the property of the `live` run
states exactly where it holds and where not. The A4 runbook says an evaluation
"produces the decision for the supplied profile and snapshot" and the
persistence contract that the same key and request return the original decision.
A record that FAILED names no decision, and `evaluate` replays it with the
latest decision on the request, whose hash leaves the snapshot out
(`capability-policy.service.ts:183`): the caller is told a decision on other
evidence. `OnlyFailuresMixDecisions` holds with that exception and no other, and
`AnswersAreKept` shows that `reevaluate`, which decorates whatever it is given,
does not let unsafe evidence through by it.

The metrics also serialise the completions of unrelated payments: the second
to reach the row `journals.posted` with an older snapshot loses its transaction
there, whatever accounts it is about. The model has that lock (class
`journals`).

## 6. What is left out

Not modelled, or only in part, with the reason (per component in `PROJECT.json`):

- Balance queries and other reads; formatting, logging, audit inserts (they are
  in the transaction of what they record and constrain nothing); the HTTP layer;
  legacy rows without a command id, which the A5 service refuses. Amounts in
  the ledger are integers bounded per journal as in the code.
- The outbox has no dispatcher in this repository: nothing calls `claimPending`
  or `markPublished`. Events are modelled where they are written.
- Finance governance: accounting treatments, effective windows of policies and
  override evidence; the administration of finance roles (only that it consumes
  an approval); a decision that needs two approvals, which no command can supply and
  is always denied.
- Policy (A4): the lifecycle of profiles, the collection of evidence, the reads
  (current decision, replay of an old one, explanation), and attempts after the
  first.
- Product commands (A7): as wired, the gate before every command refuses it
  (`a7-product-command.service.ts:391-411` passes the binding's id as wallet and
  as ledger account), so nothing behind it can happen; the A7 contract says the
  gate must be passed. Commercial engines (B1) are deterministic functions of
  one request stored under its key; B2 services are pure functions with nothing
  stored.
- The gate before internal transfers reads the policy and the two bindings at
  different moments and keeps only its record. No code calls it or acts on
  its answer. The pilot control decides from one configuration row.
- Customers: aliases, history, profiles, compliance documents. Identical
  calls outstanding at once are one (sheets and desk are sets), which leaves out only
  the same save made twice.
- A half-open circuit whose probe was refused by the transaction is left
  waiting for a report nobody makes; the model has the case, no property
  forbids it.
- Quotes, sessions, credentials and MFA: rows nothing modelled here reads.

Liveness is only model-checked.

## 7. Plan

Done, with proofs: the ledger, the transfer lifecycle, payments, reconciliation
of transfers, external operations and settlement, finance governance, the
control account, customers and bindings, policy decisions. What remains, in this
order:

1. `Quotes`: `get` may save EXPIRED over a quote used since it was read.
2. A dispatcher, when the repository has one: at-least-once delivery of the
   events the modules write.
