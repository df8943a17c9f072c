# Verification of the win11 fantasy-sports backend

TLA+ models of the backend under `src/src/`, checked with TLC on small instances and, for
eight of them, proved in part with TLAPS for every instance. The modules are translated from
the TypeScript source; comments and documents of the repository are only used as claims to
compare the code with.

Contents: 1 the system, 2 the modules and how they correspond to the code, 3 the runs,
4 the proofs, 5 what the code does that its text or a reader would not expect,
6 what is assumed and left out, 7 the plan.

## 1. The system

A Node/TypeScript service over MongoDB (documents, unique indexes, multi-document
transactions), Redis (cache, sorted sets, publication; it can be switched off) and BullMQ
(named jobs, retried). Node runs one callback at a time, but every `await` lets other
requests, other server processes and workers run, so a service method is a sequence of steps
that interleaves with all others. Few methods use transactions, and most updates are either
an atomic `findOneAndUpdate` with a condition or a `document.save()` of a copy read earlier.
The difference between those two is what most of the properties are about.

### Components with a model

| component | state | operations | talks to | correct when |
| --- | --- | --- | --- | --- |
| wallet (`modules/wallet`) | `wallets`, `wallet_transactions`, `transaction_ledgers` | 11 money operations through `applyTransaction`, freeze and unfreeze | called by every flow | ledger, history and cached balances agree; a key moves money once; a bucket is overdrawn only on a stale snapshot |
| payments (`modules/payments`) | `payments` | order, client verification, UPI shortcut, webhook | providers, financial settlement, risk engine | one payment, one credit, and only if paid |
| financial settlement (`modules/financial-settlement`) | `settlements`, deposit queue | enqueue, process | wallet, payments, BullMQ | a paid deposit is credited in the end; documents tell the truth |
| withdrawals (`modules/withdrawals`) | `withdrawals`, `settlements`, withdrawal queue | request, approve, reject, process | wallet escrow, risk engine, BullMQ | every unit is where the postings say; a bucket is overdrawn by no more than what raced; approved means paid or FAILED |
| contest joins (`contest-join.service.ts`) | `contests.filledSpots`, `contest_entries` | join, compensation | wallet (its own transaction) | spots = entries, escrow = fees of active entries |
| contest lifecycle (`contest.service.ts`) | `contests` | create, update, transition, cancel and refund | wallet, joins | a cancelled contest holds nobody's fee |
| prize calculator (`settlement/prize-calculator.ts`) | none | winnings over ties and slabs | contest settlement | each entry gets its share by rank |
| contest settlement (`contest-settlement.service.ts`) | `contest_results` | claim, pay, complete, fail, reset | wallet, contests, leaderboard | one run pays at a time, each entry once, within the pool but for a retry |
| scoring and settlement jobs (`jobs/scoring.jobs.ts`, `jobs/sports.jobs.ts`) | queues | the scan for completed matches, final scoring, settlement | scoring, settlement | nothing is paid on old totals but behind a scoring that is pending, given up or overtaken by an older one; what is due is settled |
| authentication, sessions (`modules/auth`, `modules/session`, account fields of `modules/user`) | `auth_otps`, `refresh_tokens`, `sessions`, `users` | sign-up, log-in, codes, refresh, revocations | - | a credential is redeemed only by requests that ran at once |
| fantasy teams and rules, scoring (`modules/fantasy`, `modules/scoring`) | teams, player rows, points, two kinds of rules and their cache | create, edit, delete; change of rules; recompute, adjust | match status, jobs | rows mirror teams; points at rest are those of the engine |
| leaderboard (`modules/leaderboard`) | the sorted set, the history of ranks | register, rebuild, snapshot job | scoring, joins | the board of a running contest becomes and stays right |
| sports ingestion and providers (`modules/sports`) | tournaments, teams, matches, `match_updates`, cached details | synchronise, live updates, cancel, reconcile, page of a match | providers, jobs | references resolve; the feed has no gaps; a stale detail has a reason |
| events, notifications, sockets (`events/`, `modules/notification`, `sockets/`) | two queues, the channel, dead letters, notifications | enqueue, dispatch, publish, emit | Redis, Socket.io | what is enqueued is stored and announced or left as a failure; every repetition has a reason |
| risk engine, queues, contest cache and bootstrap, contest templates | - | modelled where they decide a flow | - | see `PROJECT.json` |

### Components without a model

| component | why |
| --- | --- |
| wallet administration | thin callers of the wallet; adjustments, reversals and freezes are actions of `Wallet` |
| kyc | a review of one document that gates withdrawals |
| audit | append-only rows; the flows model their failure where it changes an outcome |
| http layer | routing, validation and error mapping; it hands the calls to the services |
| process and configuration | start-up and shutdown; crashes and transaction retries are actions of the models |
| administration and health, seeds | read-only views, callers of the services above, start-up data |

`PROJECT.json` lists every component with its files, and the hazards line by line.

### What is hard here

- *Interleaving.* Checks made on a read long before the write they protect: the wallet's
  snapshot, the join limit, the status of a review, the login counter, a row of a code or a
  token, the rule of a lineup, the status of a match.
- *Two transactions for one business step.* A join locks the fee in a wallet transaction of
  its own and compensates by hand when the contest transaction aborts.
- *Order between queues.* The final scoring and the settlement are queued side by side; two
  recomputations or two rebuilds overlap; a cache is filled after it was dropped.
- *At-least-once delivery.* Webhooks, jobs and clients repeat; idempotency keys and unique
  indexes keep money from moving twice. Notifications have no such key.
- *Failure between steps.* Nothing scans for half-done work: what a crash leaves behind
  stays. The properties say exactly which half-done states can arise.
- *Arithmetic.* Greedy debit splits over buckets, ties across prize slabs, rounding.

## 2. The modules

Composition (`A <- B`: B extends A):

    WalletCore <- Wallet (implements WalletJournal) <- WalletProofs
    JobQueue <- Deposits <- DepositsProofs
             <- Withdrawals (its wallet implements WalletJournal)
                                                 <- WithdrawalsProofs
             <- Realtime
    ContestLifecycle <- ContestJoin (its wallets implement WalletJournal)
                                                 <- ContestJoinProofs
    ContestLifecycle, PrizeCalculator <- ContestSettlement <- ContestSettlementProofs
    FantasyRules <- FantasyScoring <- FantasyTeams <- MatchDay
    MatchDay, Leaderboard <- ScoringProofs
    MatchFeed, ContestClosing, Realtime, Catalogue <- MatchFeedProofs
    RequestHandlers <- Tickets
    RequestHandlers, OneTimeCodes, Sessions <- Authentication (implements Tickets, twice)
                                                 <- AuthenticationProofs

The components that one module of proofs extends have no names in common, and neither has a use
for another: they are proved side by side, not composed.

Each `MC*` module extends one of these and holds the values its `.cfg` file uses.
Operators whose comment begins with "Seeded fault" are plausible bugs; the specification
never uses them. Replacing a definition by its seeded fault makes the property named in
`PROJECT.json` fail, which shows that the property depends on that line of the code.

In most modules a request, callback or job is a *handler* (or call): a record with a program
counter. One action is one call to MongoDB or Redis, or one transaction, with the
computation up to the next `await`; a handler that has ended may start again.

### Money

**WalletCore** is the arithmetic: buckets, the entry list of a transaction as a pair of
functions from buckets to amounts, deltas, the balance check of a list, and the greedy split.
The loop of `splitDebitAcrossBuckets` is written in closed form: a bucket pays what it has, up
to what the earlier buckets left over.

**Wallet** is `wallet.service.ts` for one user (all its queries are by user). A call is a
record in `req`; `txns[i]` and `ledger[i]` are the transaction row and its ledger rows in
commit order, `wallet` is the cached document. Steps: the method's own read and checks
(`Deposit`, `Withdraw`, ...), `Lookup` of the key (`Replay`, `RefuseCall`, `LookupMiss`),
`Load` of the snapshot, `Commit` (the whole MongoDB transaction, with the stale snapshot the
code's guard uses), `DuplicateKey`, `RefuseInsufficient`, `MarkReversed`. `Crash` ends a call
between any two.

**WalletJournal** is what the flows may rely on: an atomic journal in which a key is posted at
most once and a posting is a credit, a debit, or a movement that keeps the total. `Wallet`
implements it (checked and proved), and that is why the flow modules treat the transaction of a
wallet call as one posting under its key; that the postings of `Withdrawals` and `ContestJoin` are
ones the journal admits is proved too. What the journal does *not* promise is a non-negative
bucket. A guard computed from an older snapshot can let one through, which `Wallet` has for all
operations and `Withdrawals` for the calls that share the escrow. Deposits and settlements only
credit, and joins cannot race each other to the wallet (section 6).

**JobQueue** is the life of one BullMQ job as operators on a record: add (a name that exists
is not added again), take, complete (`removeOnComplete: true` frees the name), retry up to
`attempts`, stall.

**Deposits** composes `payment.service.ts`, `settlement.service.ts`, the risk check and the
worker. Calls of three kinds (client, webhook, job) run the same steps; with Redis off, the
processing runs inside the call that enqueues. `provider` records what is true outside:
which provider serves the process, whether the payer paid, and whether a webhook was received
and answered with 200. The client's verification, the simulated payments of the mock provider
and the webhooks of a capture are actions; webhooks of other events write nothing.

**Withdrawals** composes `withdrawal.service.ts`, the risk counts and the worker, for the
withdrawals of one user, which share the `LOCKED` bucket. A wallet call has two steps: `LockFunds`,
`ReleaseLock` and `CompleteFromLock` look up the key and compute the guard (`Projected`) from what they
read, and `CommitLock`, `CommitRelease` and `CommitComplete` post to whatever the wallet holds by then,
so that a rejection and a payout of one withdrawal can both pass. `call[h].seen` is the status on
the copy a call holds; `Save` writes what Mongoose would: nothing if the field was not
changed with respect to that copy, the new value otherwise, whatever the collection holds.

### Contests

**ContestLifecycle** is the administrators' half of a contest: the contest as created, cloned
or seeded (`NewContest`), conditional transitions, capacity updates as read-then-save,
cancellation and its refund sweep, which walks the set of entries it has read in the order of
insertion (`IsNext`). `contest.writer` is the uncommitted join transaction that holds the
document.

**ContestJoin** adds the join: lookup by key, validation on reads, then the transaction
(`ClaimSpot`, `LockFee`, `InsertEntry`), the aborts, and `HandleJoinRollback`. The lock of the
fee commits by itself; the spot and the entry appear at the commit. Money is counted in fees.

**PrizeCalculator** is `prize-calculator.ts` as pure operators. The loop of `allocateWinnings` is
written in closed form, by position: the cluster of a position, its pool, its share and the
remainder. Next to it are `Winnings`, which defines the payout of one entry without sorting, and
`validateSlabs`. No operator is recursive, so that ladders of any length and any number of tied
entries can be proved about.

**ContestSettlement** is the settlement run: claim, ranking and payout entry by entry,
completion with an unconditional save, the catch block, `resetForRetry`; interleaved with
transitions and the cancellation of `ContestLifecycle`. It starts when the contest is LIVE with
all joins done. The totals of the teams are whatever they are when a run reads them (`LoadEntries`):
a retry may rank by others than the run that failed.

**ContestClosing** is what starts a settlement: the scan for completed matches, the final
scoring and the settlement queued side by side under names of their own, both workers with
their attempts, and the administrators, who recompute and settle with force beside them. Any number
of recomputations may be under way (`scorer` is a function of who runs them): each writes the totals of
the statistics it has read, and the last to commit decides. Here a settlement is the claim, the payments
by the totals of that moment and the end; `ContestSettlement` has the rest.

**Leaderboard** is the sorted set and the history of one contest: `registerEntry`, the updates
of a recomputation, rebuilds that read entries and points and later replace the set, the
history rows they append, the job that rebuilds periodically, and the page that rebuilds an
empty board.

### Matches, teams and points

**FantasyRules** is the validator: which lineups a rule accepts. **FantasyScoring** is the
engine: points of a player from statistics and rule, the total of a team with its multipliers,
in hundredths so that only the multiplication rounds. **FantasyTeams** is the store: teams and
their rows in `fantasy_team_players`, one operator per transaction.

**MatchDay** composes them for one match: requests of a user on teams, changes of the active
rules by administrators, the cache of the scoring rule, recomputations by the workers and by
administrators, adjustments, statistics that arrive, and the match that locks.

**Catalogue** is the synchronisation of tournaments, teams, players and matches from a provider
that answers in parts and fails, or from the mock; boots, jobs and administrators overlap. A
step of a synchronisation is one transaction with the snapshot it reads.

**MatchFeed** is the rest of ingestion, for matches that exist: status and score with the rows
of `match_updates`, live updates, cancellation, reconciliation, and the cached detail with its
readers. Two history variables say which divergences have a reason (`told`, `excused`).

### Accounts and messages

**OneTimeCodes** and **Sessions** are the collections of `modules/auth` and `modules/session`
with one operator per call to MongoDB; **Authentication** puts them in the order of
`auth.service.ts`, for one account. **Tickets** is the abstract specification: a ticket is
taken while open, redeemed, and closed, and may be redeemed by every handler that took it
before it was closed. `Authentication` implements it twice, with codes and with tokens
(`CredentialsAreTickets`). **RequestHandlers** is the set of handlers both are about.

**Realtime** follows one notification and one event from `enqueue` and the event bus through
both queues, the channel and the gateway of every process to a user who connects and leaves. A call
may fail without effect (`WorkFails`, `PublishFails`, ...), or take effect and lose its answer: an
insert that throws after it was applied (`AnswerLost` at `create`), a message or a job that the
client of Redis sends again when it has its connection back (`AnswerLost` at `publish`, `Enqueue`,
`PublishLosesAnswer`, `DispatchEchoes`). The history variables `again` and `echoes` count them.

## 3. The runs

"Handlers" are calls under way at a time, in one process or several. The runs use two: every
conflict in this code is between a read and a write of two calls (the claims, indexes and
saves are pairwise), and a handler that has ended starts again, so sequences of calls occur up
to the other bounds. One fault (a rejected call, a crash, a lost lock, a transaction run
again) at any step of any call is what separates a flow that compensates from one that does
not; two are needed where a job is attempted twice.

| run | question | bounds | states |
| --- | --- | --- | --- |
| `wallet_calls` | do all operations, racing, sharing keys, crashing and meeting a freeze, keep ledger, balances and history one story, and implement the journal? | 2 calls, 2 keys, amounts 1 and 2, one unit in each bucket, so that splits cross buckets and debits run short | 105 k |
| `deposits` | one payment, its callbacks, webhooks and job: credited once, only if paid, and in the end? | 1 payment (payments share nothing), 2 attempts, 1 fault of any kind, each provider, Redis on and off | 58 k |
| `withdrawals` | two withdrawals that share the escrow, reviewed both ways, paid by workers | 2 withdrawals of 1 and 2 of 2 units, velocity limit 2 (3 in the code, so that two requests reach it), 1 attempt, 1 fault, Redis on and off | 3.7 M |
| `contest_join` | joins against joins, transitions, capacity and cancellation | 3 teams of one user, limits 1 and 2, up to 3 spots, one key sent up to twice and 3 joins without a key, 1 fault | 0.8 M |
| `contest_settlement` | runs, forced runs, resets, transitions and a cancellation: one run at a time, right amounts, within the pool | 3 entries, at every ranking one of 5 lists of totals, two prizes or only a second one, 1 reset, 1 fault | 3.4 M |
| `contest_closing` | is a contest paid on the final totals, and is it paid? | a worker of each queue and one administrator, so that two recomputations overlap, 1 scoring job queued at a time, 2 attempts, statistics that change once, 1 fault | 1.2 M |
| `match_day` | teams, rows, rules and points under changes of all of them | 3 players, lineups of two, 2 requests, 1 queued recomputation, 2 turns of failures, crashes, arrivals and rule changes | 0.5 M |
| `leaderboard` | does the board become right, and is the history of ranks a chain? | 2 entries that change places, the second joining during the run, 1 queued refresh, 1 overlap of rebuilds, 1 fault (also the loss of the set) | 0.7 M |
| `match_feed` | numbers, status rows and cached details of matches under every writer | 2 matches, 3 windows of the provider's clock, 3 calls | 1.2 M |
| `catalogue` | what overlapping synchronisations leave in an empty catalogue | 2 synchronisations, 1 fixture per provider, 1 team, with and without a key, 1 failure | 0.8 M |
| `authentication` | what a request may redeem, miss or spare | 3 requests, 1 attempt per code, a lock after 2 failures (5 in the code, so that racing requests reach it), 1 crash | 0.8 M |
| `realtime` | are messages announced, and what repeats? | 1 notification whose job is added up to twice, 1 event, 1 handler, 2 processes, 2 attempts, 2 faults | 1.0 M |

Why the bounds suffice. Three teams and few spots let the contest fill and overflow; limit
1 lets one user exceed the limit; the repeated key gives the double tap. Three entries give
all tie patterns, and the lists of totals have each of them (none, first two, last two, all) and one
that reverses the order, so that a retry can turn a winner into an entry that wins nothing; the
prizes are chosen so that rounding and remainders of a shared prize occur. Two withdrawals of 1 and 2
of 2 units exhaust the funds and the escrow and pass the "same amount pending" check, and a release
and a payout that race overdraw `LOCKED`. In `contest_closing` one queued scoring beside the one that
runs is all that a final scoring needs, and two recomputations at a time are one that overtakes the
other. The second scoring rule of `match_day` undoes a choice the
first allows and changes every multiplier; two lineups suffice to tell an edit from the
original. Two windows with one live match let a live update meet a synchronisation, and the
third ends the match. Two overlapping synchronisations are all that an insert without a unique
index needs. `realtime` has one handler, because the two jobs of a message follow each other;
what overlaps there are processes, faults and the user. For the wallet, deposits,
withdrawals, authentication, joins, settlements, closing and feed the theorems of section 4 hold
without bounds.

Every property is stated in words above its definition; the hazards they are aimed at are in
`PROJECT.json`. Symmetry is used only in runs without liveness. `CHECK_DEADLOCK FALSE` is set
where a flow may really come to rest: all bounded requests made, everything settled.

### Fairness

The runs of `Deposits`, `Leaderboard`, `ContestClosing` and `Realtime` have liveness properties
and assume:

- *A started call or taken job moves on* (weak fairness of its steps): the event loop runs it,
  and the drivers' timeouts turn a lost connection into an error, which is a step too.
- *A waiting job is taken*: BullMQ workers poll as long as they run, and the process manager
  restarts them. In `Deposits` a handler that is busy disables `TakeJob`, which therefore has
  strong fairness; in the others a worker of its own, or the single handler that comes free,
  makes weak fairness enough.
- *Timers fire*: the stalled check (`Stalled`) in every worker, the repeated job of the
  leaderboard (`SnapshotTick`), and the scan for completed matches, which once begun queues its
  two jobs (`QueueFinalScoring`, `QueueSettlement`).
- *A webhook is repeated until it was answered with 200* (strong fairness): both providers
  document this and `handleWebhook` is written for it.

No fairness is assumed for clients or administrators, for faults, payers or the arrival of
statistics, or for a user to connect. Faults are finitely many.

## 4. What is proved

| theorem | meaning |
| --- | --- |
| `SplitDebitCovers` | if the caller's balance check passes, the split is exactly the amount: the error after the loop cannot be reached |
| `SplitDebitDrainsInOrder` | a bucket pays only after every earlier bucket is empty |
| `Typing` | type correctness of `Wallet`, with the ledger as long as the history |
| `HistoryAlwaysChains` | the `balanceAfter` values, the ledger rows and the cached balances are one chain |
| `KeysMoveMoneyOnce` | one key commits at most one transaction |
| `OverdraftsNeedStaleReads` | the guard is right whenever its snapshot is current |
| `ReversalsInvert` | a reversal moves the exact inverse of an earlier transaction |
| `AnswersBelongToKeys` | an answered call holds the transaction of its own key |
| `LedgerAlwaysReconciles` | the rows of every bucket add up to its balance, and each transaction's rows to its amount |
| `HistoryIsAppendOnly` | what is committed changes only by the reversal mark |
| `JournalRefinement` | `Wallet` implements `WalletJournal` |
| `DepositsTyped` | type correctness of `Deposits` |
| `PaymentsCreditedOnce` | a payment is credited at most once and only if it was paid, whatever repeats, races, crashes or stalls |
| `DocumentsAreTrue` | a payment that names its wallet transaction was credited; a COMPLETED settlement belongs to such a payment |
| `AnsweredPaymentsSettle` | without faults, once the last callback of a payment has been answered the money is in the wallet and the settlement closed |
| `WithdrawalsProofs!Typing` | type correctness of `Withdrawals`; the two balances are integers, of either sign |
| `SumsMatchPostings` | every unit of a user is where the wallet's postings say, spendable, locked or paid out, and a sum is overdrawn by at most one withdrawal for every call but one |
| `WithdrawalsProofs!DocumentsAreTrue` | what a withdrawal's document says happened to the money has happened |
| `ApprovalsEnd` | without faults, an approved withdrawal is paid or FAILED when its job is over |
| `WalletIsJournal` | the wallet of `Withdrawals` implements `WalletJournal`: one posting per key, a movement between spendable and locked or a debit |
| `AuthenticationProofs!Typing` | type correctness of `Authentication`, and what each call holds at each step of its program |
| `CodesTakeTurns` | two codes of one purpose and channel are valid at once only if their requests overlapped |
| `LockIsMissedOnlyAtOnce` | an account that is not locked has at most `LockThreshold - 2` failures and one per handler |
| `SweepsSpareOnlySignIns` | a sweep of the sessions misses fewer than there are handlers, all of sign-ins that were under way |
| `CredentialsImplementTickets` | codes and refresh tokens are both tickets of `Tickets`: `Authentication` implements it twice |
| `CredentialsRedeemedOnlyAtOnce` | a code is verified, and a token exchanged, at most once per handler and per crash |
| `SpotsAlwaysMatchEntries` | spots taken = entries inserted, whatever joins, aborts, retries, crashes and administrators do |
| `LimitHoldsUpToCallsUnderWay` | `maxEntriesPerUser` is exceeded by no more than the other calls under way |
| `EntriesStayPaid` | the fee of an entry was locked, and given back only if the client sent its key more than once |
| `EscrowHoldsTheFees` | without faults and repeated keys, the escrow is one fee per active entry when all calls have ended |
| `SweepRefundsAll` | without faults and repeated keys, the sweep of a cancelled contest misses no entry |
| `WalletsAreJournals` | the wallet of every user of `ContestJoin` implements `WalletJournal`: joins, rollbacks and the sweep only move money, once per key |
| `OneRunPays` | one run of a settlement pays at a time, until the result is reset |
| `WinningsWereCredited` | a winning that an entry shows was credited, to the unit |
| `SettledEntriesAreTrue` | a SETTLED entry shows what its wallet was credited, whatever the totals are at each run, or no winning; and of those that were credited and show none there is at most one for each failure |
| `EveryWinningIsPaid` | a settlement without fault or cancellation has paid every entry its share by the rules |
| `PoolIsKept` | until something fails no more than the pool is paid, for any ladder and any ties |
| `ProjectionFollowsTeams` | the player rows that are not deleted are the picks of the teams that are not deleted |
| `MismatchNeedsChange` | a lineup breaks the rule its team names only if rules changed since the rule was named or the lineup accepted |
| `PointsAtRestAreFinal` | points at rest are those of the present teams, rules and statistics, unless the last recomputation met another or a change of what it had read |
| `BoardTyped` | type correctness of `Leaderboard`: no rank is beyond the number of entries |
| `HistoryIsChained` | a row of the history of ranks starts where the one before it ended, but for rebuilds that recorded side by side |
| `ClosingTyped` | type correctness of `ContestClosing` |
| `SettlementNeverOvertakesScoring` | the settlement worker pays on old totals only behind a scoring pending or given up, after late statistics, or where an overlapping recomputation overwrote newer totals |
| `UpdatesNumberedWithoutGaps` | the updates of a match carry 1, 2, 3, ... |
| `RowsTellTheStatus` | the last status row of a match says its status, but for the writers known to leave none |
| `CachedDetailsAreFresh` | a cached detail is that of the match as it is or about to be dropped, but for the reasons `excused` lists |
| `RefsAlwaysResolve` | what a match refers to is a document of the catalogue |
| `BootsFillCatalogue` | a boot that the database let finish leaves matches, whatever the feed does |
| `TwinsComeFromOverlap` | an external id gets another document only by transactions that overlap |
| `CatalogueTyped` | type correctness of `Catalogue`: a document has the kind, provider and status of what was fetched |
| `RealtimeTyped` | type correctness of `Realtime`: a notification has no more documents than there are envelopes to announce them |
| `RepetitionsAreAccountedFor` | one copy of an event per process and one document per notification, and more only for each run of a job taken from its worker, command sent again, answer lost after the effect, or echo of the adapter |

They hold for every value of the constants under the assumptions the modules state by name:
`WalletAssumption` (amounts positive, opening balances naturals), `HandlersAssumption` (finitely
many handlers), `MatchDayAssumption`, `PlayersAssumption` and `LeaderboardAssumption` (finitely
many handlers and players; rules, lineups, statistics and totals have the form of their documents,
and there is a rule, a scoring rule and a statistic to begin with), `ClosingAssumption` (finitely
many administrators, none of whom is a worker, and at least one attempt), `RealtimeAssumption` (finitely many processes and
handlers; notifications, events and announcements have different names), `CatalogueAssumption` (there is a list of
fixtures for each provider, and the mock's is not empty), `FeedAssumption` (the provider's list has an order and its reports are
statuses), `SettlementAssumption` (prize snapshots have the form of the contest document and are
such as `validateSlabs` accepts; section 6 names the one way around it), `JobQueueAssumption` (at least one attempt; no handler is called `Nobody`),
`WithdrawalsAssumption` (amounts are naturals, and there are finitely many handlers, one at least), `JoinAssumption` (the keys that the code makes up
from the clock differ from those of clients), `AuthAssumption` (an account locks after two
failures or more; the code has 5), `AttemptsAssumption` (a code allows an attempt), and those that bound the model's counters by
naturals. No other assumption is used.

*Wallet.* `HistoryChains`, `KeyMovesMoneyOnce`, `OverdraftNeedsStaleRead` and
`ReversalInverts` are not inductive together: a commit keeps `ReversalInverts` only if the
reversal about to commit still carries the inverse of the rows of its original, and an answer
belongs to its key only if the call that is about to be answered already holds it. `CallsOK`
adds that, per call and per program counter: a reversal in flight carries the inverse rows of
an existing transaction, a call past the lookup has balanced rows, a call that marks or is done
holds a transaction of its key. `IInv == TypeOK /\ HistoryOK /\ CallsOK` is inductive; the
proof has a lemma per kind of step (`InvokeInv`, `FailInv`, `ReturnInv`, `CommitInv`,
`MarkInv`), and `CallsOK` survives the steps of other calls because the two collections only
grow. The action property and the refinement follow from `IInv`: only `Commit` changes the
history's length or a balance, `MarkReversed` changes no key, and balanced rows are a credit,
a debit or a movement (`BalancedRows`).

The sums of `LedgerReconciles` are folds over finite sets of rows. A fold is a recursive function;
that it exists and that a row more adds its amount is proved by well-founded induction over the
subsets of a finite set (the smallest subset without a value has none smaller). `HistoryChains`
then turns a commit into "the rows of one transaction more".

*Deposits.* The money follows two chains. Whoever is past the verification of a payment - a call,
a settlement document, a job - has it from a payment that was paid (`Fits`, `JobOK`, `MoneyOK`).
And a document is written only by a call that has done what it says: at `settle` the key is
posted, from `complete` on the payment is marked. Both survive the steps of every other call
because nothing is taken back: paid, posted and marked never become false. A posting under the
key of the payment happens once, so that the credit is 1 exactly when the key is posted.

`AnsweredPaymentsSettle` counts on the absence of faults, and its invariant `FreeInv` speaks only of
states without one: whoever is to settle the payment is under way or queued, and at most one call
carries the settlement between its claim and its end (`OneCloses`), so that the one which answered
cannot be undone by another.

*Withdrawals.* As for deposits, a chain `Fits` ties each call, document and job to what was posted
before it, for any number of withdrawals that share the escrow. The sums of the three places are
sums over finite sets of postings: a step adds one posting or none, and `SumsMatchPostings` asks
only which. `ApprovalsEnd` adds who schedules: without faults one call approves, and the job that it
adds is either waiting, carried by a worker (`Carried`), or has done its work (`Attended`).
The refinement of `WalletJournal` maps the spendable sum to one bucket and `locked` to another, for
which spendable bucket pays is the matter of `SplitDebit`; three actions post, and each posting is
new or changes nothing.

How far a sum may be overdrawn is a matter of who is between its guard and its transaction (`Locking`
and `Unlocking`). Either the sum bears all of them, less one withdrawal for each of the other calls but
one, or one of them has found its own amount there and takes no more than that (`Covered`, with
`Slack` for what the others may still take): a guard that holds brings the second case about, a commit
uses up what it was allowed, and a call that ends gives its allowance back (`CoveredReads`,
`CoveredStays`, `OInv`).

*Authentication.* `Typed` is the type invariant with the program of each operation (`Programs`: the
steps it goes through) and the row a call holds at each (`Holds`): a call that consumes has found a
code, one that issues or marks tokens has a session. The rest stands on it.

The refinement maps a row to a ticket - open while the code is active or the token usable - and a
call between its read and its last write to a handler that holds it. Each step of the service is
shown to be one step of the abstract specification for codes and one for tokens (`CodesMove`,
`TokensMove`): a rotation redeems an old token and issues a new one in one step, a sweep withdraws
many, most steps do nothing. The bound is then a matter of counting, for tickets of any kind
(`Accounted`, `CountStep`): while a ticket is open, its uses are at most the handlers that have
redeemed it and not closed it yet, and those lost on the way; once closed, its uses and the
handlers that still hold it unspent are at most all handlers and those lost.

For two codes, a request between its two writes must have invalidated what there was (`Cleared`).
For the lock, the failures recorded and the failed log-ins that are about to add one to a counter
they had read below the threshold (`Missing`) are together within the bound (`LockOK`). For the
sweep, the sessions that outlived it (`Stales`) and the sign-ins that read the user before it and have
opened none yet (`Late`) are together fewer than the handlers (`SpareOK`), because the sweep itself is
carried by one; a sign-in moves one unit from the second set to the first.

*Joins.* `SpotsMatchEntries` needs little beside the shapes of the calls. For the limit the
invariant counts a user's active entries together with the joins that passed the check and have
not ended (`PendingOf`): a check passes only below the limit, so that the sum stays below the
limit plus the other calls, and an insert moves one unit from the second count to the first.

`EntriesStayPaid` follows one key (`KeyInv`): it has one bearer, the call that sent it, and then one
outcome, an entry or a rollback; only a second bearer can roll back what the first has turned into
an entry. The escrow (`EscrowInv`) is, at every moment and not only at rest, one fee for each active
entry and one for each call that has locked and not yet inserted or compensated, for states
without fault or repeated key (`Undisturbed`). For the sweep the same invariant says that every
active entry of a cancelled contest is still before it: `ClaimSpot` refuses a contest that was
cancelled, and the cancellation conflicts with a join that holds the document.
The refinement (`JournalOf(u)`, one journal for each user) needs of all this only the types of
`KeyInv`, and that a posting is new or changes nothing.

*Settlement.* `RunnerHoldsClaim`: a run that is past its claim holds the lock token of the
result, as long as nobody resets it; the conditional update of the claim gives the token away
once.

`CreditInv`: a run comes to the mark of an entry only with its amount credited, and a credit never
changes: the wallet answers a key that it knows for the same amount or not at all. This holds with
resets too, when several runs pay at a time.

The other three rest on facts about the calculator that hold for every field and ladder. Sums are
folds and get the same treatment as in the wallet (`Sums`). Sorting by points and arrival is a
bijection between positions and entries (`SortedSorts`), a cluster is an interval of positions
(`ClusterIsInterval`), and so each entry is given its `Winnings` (`EachWins`). The prizes of all ranks
are at most the pool, because the slabs of a ladder `validateSlabs` accepts do not overlap and a
percentage is rounded down (`LadderStaysInPool`); and the winnings of a field are at most the prizes
of as many ranks: after each position what was handed out is the pools of the clusters before it and
the shares of its own so far (`Handed`), so that the remainders are counted once
(`WinningsStayInPool`).

`TruthInv` follows the queue of the one run that pays (`OneRunPays`): it is in the order of the
calculator and holds every entry that is still ACTIVE, and only its first can have been credited
before its turn, by a run that failed between credit and mark. The retry ranks again, by other totals
perhaps, and the wallet answers with the old credit or refuses another amount; only if the entry wins
nothing now is it marked without asking the wallet: the exception the property names. Such entries are
counted (`FewUntold`): those that do not show their credit are at most the failures, and one more while
a run is between a credit and its mark. `CleanInv` is for contests without fault or cancellation: a run
computes from the whole field before anything is credited, each entry is due until it is handled,
and at the end none is. `FieldInv` is for contests without a fault: some field of entries, the one the
first run has loaded, is where all credits come from; cancellations shrink what is ACTIVE but not
that field, and its winnings are within the pool.

*Closing.* The invariant follows a settlement back: once the scan has asked for the final
scoring (`Begun`), totals of the present statistics have been written or a scoring will write them,
unless one was given up or statistics came late since (`TotalsCatchUp`). It speaks of the newest totals
that were ever written (`newest`) and not of those in place, which a recomputation with older statistics
may have overwritten; a payment records both, and so tells the two cases apart.

*Points.* What is read in one step and used in a later one carries the number of rule changes
there had been (`Fresh` for a rule, `Checked` for a lineup that was accepted): while that number
is the present one, the rule is the active one and accepts the lineup. `TeamsOK` and `CallsOK` say so of every team and
every call, which gives `RuleMismatchNeedsRuleChange`. `RowsMirrorTeams` needs only that a request
replaces the rows of a team in the transaction that writes the team. For the points, a
recomputation is *clean* while no other one runs (`Alone`) and nothing that it has read was
changed (`Inputs`), so that what it writes is what the present documents give; one that was asked for
is done, queued or under way (`PointsOK`). What the engine computes is left as it is: the theorem holds
for any `PointsOf` and `TotalOf`.

*Ranks.* The stamp of a snapshot is beyond those of all rows and calls, whose numbers are bounded
(`StampsBounded`): a bounded set of naturals has a greatest element (`Greatest`). A rebuild that
records alone is later than every row, and what it read of an entry is the latest row of it
(`RecordsAlone`); rows that were written alone are older than whatever records now
(`RowsPrecede`). Together they make the row that is appended follow the row before it.

*Messages.* A repetition is counted where it arises (`Counted`): what was done for a message, the handlers
that are about to do it, the jobs that wait and the one somebody has yet to add are together at most one,
and one more for each time that `again` counts. A handler is freed when its job is put back after a
failure, so that a retry replaces and does not add; what adds is a job that is taken from a handler which
goes on, a job that is added once more, and an effect whose handler is sent back or sends again. An
envelope that nobody has queued yet is pending once (`Unborn`), because its name belongs to one document
and one handler. Copies are counted as pairs of a process and a publication (`Deliveries`): a copy that is
received adds the pair that leaves the inbox, or an echo, and there are no more pairs than processes times
publications.

*Feed.* A call's snapshot counts the rows of every match nobody has written since
(`stale` holds the others), two calls never have written the same match (`OneWriter`: a row is
always written with its match document, which conflicts), so what a call appends is the next
number at its commit (`AppendsNext`).

`StatusInv` adds that a write which is open carries the status that the match has or a row that
says so, and that nobody else can write the match before it commits. `FreshInv` is about the page
of a match: between its read and its fill of the cache, either the match is as it was read or a
writer has crossed it, and that is one of the excuses; every writer but a cancellation drops the
detail after its commit.

*Catalogue.* Documents are never deleted, so that the maps which a synchronisation carries from step
to step go on naming documents. The delicate part is a transaction that has not committed
(`CommitOK`): its map may name ids that nothing stores yet, of this attempt or, were they kept, of
one that was aborted. Every attempt sets the same names again, so that at each moment such ids are
those the commit will store. An upsert takes a new id only if its snapshot has none of that name
(`UpsertFits`); whatever gets one before the commit has made the snapshot stale, which is
`TwinsNeedOverlap`. For the boot, the steps of the mock are followed in their order (`EnsureOK`): each
leaves the map with all that the next refers to, so that the last has a match to store
(`MockMatchesResolve`). That it may fetch tournaments or teams again changes nothing.

Only model-checked is liveness under fairness (`PaidIsCredited`, `UnsettledMeansNameTaken`,
`BoardSettles`, `EnqueuedIsAnnounced`), for which the prover has neither the rules of fairness nor
`ENABLED`.

## 5. What the code does that its text, or a reader, would not expect

Met while translating. The models contain these behaviours; the properties are stated with the
exceptions they force, and say that there are no others.

Money

- *Overdraft.* The "hard guard" of `applyTransactionTxn` (`wallet.service.ts:754`) projects from
  the snapshot read before the transaction (`:757`), and `$inc` has no lower bound: two
  concurrent debits overdraw a bucket. `OverdraftNeedsStaleRead` says that nothing else does.
- *Paid and released.* A rejection that races the worker of the same withdrawal passes the guard on the
  same snapshot: the amount is paid out and given back, and `LOCKED` is negative
  (`wallet.service.ts:310`, `withdrawal.service.ts:173`). `MoneyMatchesPostings` bounds what such a race
  takes. A release that comes after the payout is served from the escrow of another withdrawal.
- A transaction can be reversed twice, because the mark is set outside (`:663`). A key is taken
  for a repetition if type and amount agree, whatever the rest says (`:725`).
- *Credit without a webhook.* `verifyClientPayment` leads to a credit by itself, although its
  comment says that it does not credit (`payment.service.ts:114`, `:156`). A client whose
  verification is invalid marks a payment FAILED that a webhook has credited; a Stripe session
  verified before it is paid is marked FAILED.
- The UPI orders of Stripe (`upi_sim_...`) can be completed by no path of the code, although
  `payment.service.ts:245` offers it; the webhook of `completeUpiPayment` is signed for the mock
  and refused by the other providers.
- *Approval over a finished review.* `approve` saves over the outcome of a review or payout
  that finished after its read (`withdrawal.service.ts:107`, `:111`); `reject` checks no status
  (`:173`).
- A crash between creation and lock (`:61`), between approval and settlement (`:115`), or
  between the settlement of a deposit and its job, is never picked up.

Contests

- *Double tap.* Two joins with one key: the wallet answers the second with the lock of the first,
  the second fails on the unique index, and its rollback refunds the fee of the first, whose
  entry stays active (`contest-join.service.ts:567` against `:68`).
- `contest-join.service.ts:66` says that the limit per user is counted inside the transaction; it
  is counted before. `contest.validator.ts:19` says the validator runs twice; it runs once. A
  callback that `withTransaction` runs again, without a key, locks the fee again (`:290`).
- *Paid twice.* A settlement that is retried after a failed run ranks the entries left ACTIVE
  from 1 again and pays the first prizes a second time (`contest-settlement.service.ts:161`
  against `prize-calculator.ts:102`). `OverpayNeedsFailedRun` says that this is the only way.
  A retry that finds no entry ACTIVE ends SKIPPED with totals of 0.
- *A prize that is not shown.* An entry that a failed run has credited and not marked is ranked again by
  the retry, by totals that may have changed. If it wins nothing now, it is marked without a winning, and
  its credit stays (`contest-settlement.service.ts:188`, `:200`; `SettledEntriesTellTruth`). Even unchanged
  totals do this with a ladder whose first rank wins nothing, which `validateSlabs`
  (`contest.validators.ts:333`) accepts. If it wins another amount, the wallet refuses its key, and this
  run and every retry by such totals fail.
- `resetForRetry` may revoke a newer claim. A run that dies leaves `IN_PROGRESS`, which neither a
  claim nor a reset accepts. A settlement overwrites CANCELLED with COMPLETED (`:240`). The escrow
  of settled entries is never debited.
- The status route accepts CANCELLED and refunds nobody (`contest.service.ts:416`); the sweep of
  a cancellation ends at the first refund that fails (`:377`), and the reconciliation worker its
  comment leaves the rest to does not exist. A capacity is checked on a stale read (`:274`). A
  SCHEDULED contest fills without becoming FULL, and a FULL one does not reopen.
- *Closing.* The bridge queues OPEN and LOCKED contests, which `settleContest` refuses; nothing
  flips their status, against the "Phase 4 match status bridge" of
  `contest-settlement.service.ts:70`. A failed `settle:<id>` keeps its name, so that later scans add
  nothing (`sports.jobs.ts:140`). FULL contests are not scanned. A recomputation of an administrator that
  read the statistics before the final ones came can commit after the final scoring: the contest is paid
  on the older totals with nothing pending (`scoring.controller.ts:77`).
- The bootstrap copies the slabs of a template's distribution into the contests it creates and does
  not validate them (`contest.bootstrap.ts:309`), as `buildPrizeSnapshot` does: a seeded template that
  an administrator gave a FIXED ladder for another pool makes contests that pay that ladder.
- The seeded distribution 70/20/10 sums to 99.90 % and `validateSlabs` would refuse it
  (`contest.bootstrap.ts:63`); two seeded templates differ from what their comments say
  (`:150`).

Teams, points and ranks

- The comments on debouncing (`scoring.service.ts:50`, `:64`, `scoring.jobs.ts:104`) describe what
  does not happen: the name of a job holds `Date.now()`. Two recomputations of a match overlap,
  and the one that read older statistics may commit last; `RestingPointsAreFinal` says when
  points at rest are nevertheless right.
- An adjustment vanishes with the next recomputation (`scoring.service.ts:289`).
- `lockTeamsForMatch` is never called and `lineupLockedAt` never written; a deletion ignores the
  lock of the match; a cancelled or abandoned match unlocks. The limits of credits per player
  are never checked, and the number of teams per match can be exceeded by concurrent requests.
- A change of rules leaves the teams of a running match that break it. With `REDIS_KEY_PREFIX` set,
  flushing the cache of rules finds nothing (`env.config.ts:74`).
- Ties in the sorted set are broken newest first, against `leaderboard-redis.ts:26`; settlements break
  them oldest first. The history of an entry is read in an order of its own, and a page keeps
  the first row it meets. `dropContest` and `removeEntry` are never called on a cancellation.

Matches

- The sequence of an update is not a counter (`match-update.model.ts:19` says `$inc`); it is safe
  only because each row is written with its match document (`FeedIsGapless`).
- Cancellation, reconciliation and the retirement of mock matches write no status row, and a
  synchronisation reopens a match that was cancelled. A status can flip without a row when the
  status read before was stale.
- A batch of live updates that repeats one event fails as a whole, and the new events in it are
  lost; every page view makes an open ingestion of that match fail and run again.
- The 'matches' mode of an administrator and a flush that fails leave stale details for their
  whole time to live.
- Fixtures that are found by name carry team ids (`cric-name:`) which no squad has, so that all
  their matches are skipped. With a key, an empty catalogue is still filled with mock LIVE
  fixtures, against `sports.bootstrap.ts:90`. Overlapping first synchronisations make twins,
  which a later one does not collapse.

Accounts and messages

- A one-time code and a refresh token can be used by every request that found them unused: neither
  is consumed conditionally. `CredentialsRedeemedOnlyAtOnce` bounds how often.
- A replayed token revokes its session, but other tokens of the chain stay exchangeable, against
  `refresh-token.model.ts:15`. The session that a refresh touches is looked up by the id of a
  token (`auth.service.ts:305`).
- A verification sets a SUSPENDED account ACTIVE (`user.repository.ts:74`). A deletion by an
  administrator revokes no session, and sockets check nothing but the signature of the token
  (`socket.server.ts:36`). A sign-up whose code is throttled fails after it has created the
  account.
- Every API process emits what it hears to the room, and the adapter carries each copy to the
  user: one event arrives once per process (against `socket-gateway.service.ts:15`).
- A notification whose insert was applied and then threw is stored again by the retry of its job, and a
  message on a lost connection is sent again by the client: nothing recognises the second
  (`notification.service.ts:19`, `redis.config.ts:20`).
- A dispatch that fails five times is not a dead letter; dead letters are kept in the Redis
  whose failure they record. A process that restarts misses what is published meanwhile.
  `enqueue` is not awaited, so that a notification Redis refuses is lost.

## 6. Assumptions and abstractions

- *Wallet calls in the flows* post atomically, justified by `JournalRefinement`. In `Withdrawals` the reads
  and the transaction are two steps, and the reads one: the key, the balances of the call and those of
  the guard are read one after the other in the code, which admits no posting that the two steps do not.
  An answer of the commit that is lost is a fault in the step after it. In `ContestJoin` a call is one
  step, with an exact guard: the locks of a contest's joins are serialised by the write of the contest
  document that precedes them in their transactions. Refunds are one step, too. Calls of other flows on
  the same wallet, which may make either guard stale, are left to `Wallet`. There and in the other flows
  the outcome of a call reaches the caller (in `Wallet` a lost answer is a second call with the key of a
  committed transaction).
- *Buckets*: the spendable buckets of `Withdrawals` are one sum. A split that the guard refuses because it
  was made from an older read is a refusal that `LockFunds` may give while another call is under way.
- *MongoDB*: a transaction is atomic, reads the snapshot of its first operation and fails on a
  document written since; a write to a document that an open transaction has written waits or
  fails; conditional updates are atomic; unique indexes hold.
- *BullMQ* is modelled from its use: names are accepted and deduplicated, locks, stalls at
  most once. The names the code makes up contain a colon (`deposit:<id>`); a version of the
  library that refuses such names would reject the add, which the models have as a fault.
- *Redis* is on or off for the life of the process. In `MatchDay` it is taken to hold the active
  scoring rule or the one before.
- *Input*: a client verifies a payment with the order of that payment; amounts are positive
  integers (validators in front of the services). One process is served by one provider.
- *Risk checks* are modelled where they decide a flow. Time windows are taken as open. A raised
  flag ends the request with an error: `raiseFlag` uses `TransactionAuditAction` without importing
  it, so that what reads as a flag for later review throws after the flag was stored. The velocity
  check of deposits is left out.
- *Joins*: contests without a fee make no wallet call and are a subset of the steps. A limit is
  fixed for a contest. Keys made up from `Date.now()` differ in every run of the callback.
  Reasons of the validator that no other modelled call can change (join window, match lock,
  invite code, team) are one nondeterministic refusal.
- *Settlement*: a run reads the entries and the totals in one step; between runs they change freely. Which
  totals a run meets, and behind which scoring, is the matter of `ContestClosing`, where a run that ends
  early may have paid some entries or none. The rebuild of the leaderboard is a step that may fail. The seeded ladder of 99.90 % is not among
  the snapshots: a contest that is created with it is refused, and no seeded template uses it. Nor are
  those of an edited template (section 5), for which the pool bound does not hold.
- *Authentication*: expiry is left out (it only closes), and so are refusals that write nothing;
  the two verifications are one purpose; an initial state may hold a code for a reset.
- *MatchDay*: one user and one match, whose status is reduced to locked or not; statistics come
  from outside, for nothing in the repository writes them; all reads of a request up to its rule
  are one step; rows of `score_events` are left out. A rule that is created is an update of a
  version no team names.
- *Leaderboard*: entries are ordered by id; pages are not cached; its clock moves only while
  rebuilds overlap, which the bound on overlaps makes finite.
- *MatchFeed*: what the provider reports is a constant of the model (only the mock implements live
  updates, and its fixtures do not move); a score is the window it comes from.
- *Catalogue*: players refer to nothing that is modelled and are a step without documents; one team
  stands for the two of a fixture, which are fetched, found or missed together.
- *Realtime*: the adapter of Socket.io is part of the emit; rooms and delivery belong to the
  library. The driver of MongoDB repeats an insert under its number, so that its own retry stores nothing
  twice. Commands of the queues other than `add` that are sent again are covered by `Stalled`.
- *Liveness* is checked with finitely many faults. `PaidIsCredited` excepts a payment one of whose
  callbacks was hit, since a crash between the settlement document and its job is never
  repaired; `UnsettledMeansNameTaken` excepts a contest whose run died.
- *Bounds*: every bound is a CONSTANT marked "bound" where it is declared.
- *Not modelled*: the components of the second table in section 1, pages and listings, names
  and profile data, drafts of teams, the formatting of anything.

## 7. Plan

Built: the wallet and its proofs; deposits and withdrawals over the job queue; contests from
creation to the bridge that closes them; authentication as an implementation of tickets; teams,
rules, scoring and the leaderboard; the catalogue and the feed; messages.

To come, most important first:

1. The wallet of deposits and settlement, which only credit, as a refinement of `WalletJournal`, as
   those of withdrawals and joins are: their models keep what was credited by payment and by entry,
   so that the balance of a user is a sum to be introduced first.
2. The wallet of one user under several flows at a time: a join or a settlement that races a withdrawal
   for the same buckets, with the guards of both on snapshots.
3. KYC as the gate of withdrawals: a review that changes between the check and the lock.
