# Trusthood: the escrow contract and its backend in TLA+

Trusthood is a milestone escrow on Stellar. A client deposits tokens in a
Soroban contract, a freelancer works through milestones, approvals release the
money, and an arbiter or a timeout settles disputes. Around the contract stand a
governance and an insurance contract, a Node backend that indexes the chain and
keeps its own records, and web and mobile clients. This directory models the
escrow contract, one escrow at a time, the insurance contract, and the parts of the
backend that keep state between requests: the three indexers, webhooks, locks,
refresh tokens, reputation, and the records of escrows and disputes.

## 1. Inventory

### The escrow contract (modelled, see section 2)

State: one `EscrowMeta` per escrow (status, amounts, four counters, locks,
deadline, dispute times, rent), its milestones, at most one cancellation request
and one slash record, a fee snapshot, the freeze flag, the contract's pause flag,
and an index `EscrowsByStatus` moved by hand. Every entry point is one atomic
Soroban call: it runs alone, and an `Err` or a panic undoes it. So there are no
torn writes and no interleavings inside a call. What is hard is the *order* of
calls by a client, a freelancer, several approvers, an arbiter, an admin, an
oracle and anybody at all, over time, where each of some forty entry points has
guards of its own, and no common one decides what a status allows.

| part | operations | what makes it correct |
|---|---|---|
| funding | `create_escrow`, `add_milestone`, `batch_add_milestones`, `create_price_indexed_milestone` | milestones never allocate more than the deposit |
| review | `submit_milestone`, `reject_milestone`(`_with_reason`), `approve_milestone`, `batch_approve_milestones` | no approval without distinct signatures that reach the threshold; counters agree with the milestones |
| release | `release_funds`, `batch_release_funds`, `release_with_timelock`, `trigger_oracle_release`, and approval itself | each milestone is paid once, its amount; the escrow completes exactly when all are released; locks hold |
| refunds | `partial_cancel`, `cancel_escrow`, `swap_asset_via_dex`, `trigger_expiry` | the tokens cover what the books owe |
| disputes | `raise_dispute`, `claim_dispute_timeout`, `resolve_dispute`, `oracle_resolve_dispute` | what remains is paid out exactly; a dispute ends |
| cancellation and slash | `request_cancellation`, `client_approve_cancellation`, `execute_cancellation`, `dispute_cancellation`, `finalize_slash`, `dispute_slash`, `resolve_slash_dispute` | a request ends; the slash stays backed |
| rent | lazy settlement at each access, `collect_rent`, `top_up_rent`, `withdraw_rent_overpayment`, erasure when it runs out | an erased escrow leaves nothing behind |
| service | `pause`, `unpause`, `freeze_escrow`, `unfreeze_escrow`, `collect_escrow_fee` | a paused contract moves no escrow money |

### The insurance contract (modelled, see section 2)

State: claims and slash proposals with their counts of votes, who voted, governors,
quorum and cap, the stake of each staker, the pool the stakes are still worth, and an
accumulator of fees for a staked token. Calls are atomic as in the escrow contract; one
token balance pays claims, yield, stakes and slashes, and nothing in it is set apart.

| part | operations | what makes it correct |
|---|---|---|
| claims | `contribute`, `submit_claim`, `withdraw_claim`, `vote`, `execute_payout` | each governor counts once, no claim is paid against a majority |
| governors | `add_governor`, `remove_governor`, `set_claim_cap`, `set_quorum` | votes stay counted as governors come and go |
| stakes | `stake`, `unstake`, `add_platform_fees`, `claim_yield` | no more yield than fees, nobody gains by another's rounding |
| slashes | `propose_slash`, `vote_slash`, `execute_slash`, `set_max_slash_bps` | only a slash lowers what a staked token is worth |

### The backend (modelled, see section 2)

Node processes over PostgreSQL and Redis. A process runs one callback at a time,
so a step is what happens between two `await`s, and everything between a read and
the write that depends on it may change. Processes crash, questions to the Stellar
node and transactions fail, keys in Redis run out.

| part | state | operations | hard behaviour | what makes it correct |
|---|---|---|---|---|
| indexer of the API server (`services/eventIndexer.js`) | ledger in memory, stored cursor, recorded events, rows | tick: fetch, ask for the latest ledger, a transaction for each event, move the cursor | ticks overlap, a crash between events and cursor, an event refused | the rows are those of a prefix of the chain, each event applied once |
| webhooks (`webhookService.js`, `webhookQueue.js`, `webhookWorker.js`) | subscriptions, deliveries, jobs | subscribe, queue, post, record | a crash of either process, a subscription deleted under a job, retries | one delivery for an event, an honest history, bounded retries |
| indexer for several nodes (`workers/escrowIndexer.js`, `lockManager.js`) | locks, cursors | lock, batch, renew, release | a lock that expires under its owner, dead nodes, no Redis | one node at a time, no event lost, owner-only release |
| reputation (`services/escrowIndexer.js`, `reputationService.js`) | scores, counts, history | handle, retry, give up, recalculate | handlers without transaction tried again from the start | counts backed by history, none forgotten, nothing blocks |
| refresh tokens (`refreshTokenService.js`, `tokenBlacklistService.js`, `autoRefresh.js`, `cacheService.js`) | rows, blacklist in a cache with a fallback | create, rotate, revoke, revoke all | concurrent refreshes, lost answers, a cache that forgets | a dead token stays dead, the limit, the session survives |
| escrow records (`escrowService.js`, `expiryService.js`, `disputeResolution.js`, `adminController.js`) | an escrow, its dispute, evidence | fund, release, raise, resolve, expire, decide by rules | reads before writes under two isolation levels | expiry and dispute exclude each other, a resolution pays what is left |

### The other parts (not modelled)

| part | state | why not |
|---|---|---|
| recurring payments, split escrows (`lib.rs`) | schedule, next payment, counts | planned |
| consent records (`extension.rs`, `roles.rs`, `terms_hash.rs`) | a stored proposal | planned; the deadline they change is a constant of the model |
| administration (`lib.rs`, `storage.rs`) | admin, pending admin, storage version, migration cursor | planned |
| governance and escrow extensions contracts | proposals, votes, stakes, fee shares | planned; no contract calls the escrow contract back |
| event job queue, circuit breaker, idempotency, sessions | counters in one process, one key each | decide in one step; the failures they soften are in the models |
| HTTP API, storage, email, search, monitoring | none of the protocol's | I/O |
| web and mobile clients | none of the protocol's | user interface |

The contract emits events; the API server's indexer polls them, writes rows and
starts webhooks. The other two indexers do the same work in other ways:
`workers/escrowIndexer.js` for several nodes, `services/escrowIndexer.js` with
reputation, and `server.js` starts neither of them. Disputes may be escalated to
governance panels; insurance pays claims of its own pool.

## 2. Modules

| module | models | extends |
|---|---|---|
| `Sums` | the sum of the first values of a function | - |
| `EscrowState` | the stored state, types, time, rent accounting, the shared guards | `Sums` |
| `EscrowMilestones` | funding, review, release, locks, refunds by the client | `EscrowState` |
| `EscrowDisputes` | disputes, cancellation requests, slashes | `EscrowMilestones` |
| `EscrowContract` | rent, pause and freeze, expiry, fee, the clock; `Next`, `Spec` | `EscrowDisputes` |
| `MilestoneBoard` | abstract: a board of milestones and a phase; no counters, no money | - |
| `EscrowProperties` | what the contract keeps, and the refinement of `MilestoneBoard` | `EscrowContract` |
| `EscrowClaims` | what documentation or comments say and the code does not keep | `EscrowProperties` |
| `MCEscrow` | instances and partial specifications for TLC | `EscrowClaims` |
| `SumProofs` | what `Sums` computes, and sums over finite sets, proved by induction | `Sums` |
| `EscrowProofs` | types, action properties, the index, counters, payments, signatures, the refinement of `MilestoneBoard`, and that tokens and books move together, proved | `EscrowProperties`, `SumProofs` |
| `InsuranceFund` | contributions, claims, votes, payouts, governors | - |
| `InsuranceStaking` | stakes, yield, slashes over the same balance; `Next`, `Spec`, properties | `InsuranceFund` |
| `InsuranceProofs` | types, the account of the balance, the count of votes, the yield and the shares, proved | `InsuranceStaking`, `SumProofs` |
| `EscrowRows` | the rows that indexers write, and their inserts and updates | - |
| `EventIndexer` | the indexer of the API server | `EscrowRows` |
| `WebhookDelivery` | subscriptions, deliveries, jobs, the worker | - |
| `Pipeline` | the two together in one server process | `EventIndexer`, `WebhookDelivery` |
| `PipelineProofs` | its types, the mirrored prefix, the single delivery and the honest history, proved | `Pipeline`, `SumProofs` |
| `LockManager` | keys in Redis with a token and a time to live | - |
| `LedgerIndexer` | the indexer for several nodes | `EscrowRows`, `LockManager` |
| `ClusterProofs` | its types, its mutual exclusion, the owner's lock and the completeness of the cursor, proved | `LedgerIndexer` |
| `CacheService` | Redis, and the memory that stands in for it | - |
| `RefreshTokens` | the refresh tokens of a user | `CacheService` |
| `TokensProofs` | its types, its dead tokens, its limit and the browser's session, proved | `RefreshTokens` |
| `Reputation` | the third indexer's handlers and the reputation records | `EscrowRows` |
| `ReputationProofs` | its types, its honest records and its complete counts, proved | `Reputation`, `SumProofs` |
| `EscrowRecords` | the rows of an escrow and its dispute under concurrent requests | - |
| `RecordsProofs` | its type correctness and safety, proved | `EscrowRecords` |
| `MCInsurance`, `MCPipeline`, `MCCluster`, `MCTokens`, `MCReputation`, `MCRecords` | instances for TLC | the module each names |

How the contract's state corresponds to the code:

- `status` is `EscrowStatus`, with `"None"` before creation and `"Removed"` once
  the entry is erased; `total`, `allocated`, `remaining`, the four counters,
  `deadline`, `lock_time`, `rent_balance` and `last_rent` are fields of
  `EscrowMeta`. `timelock` is the end of the stored timelock, `release_time` is
  `TimelockReleaseTime`. `dispute_started` is `dispute_started_ledger` (a ledger
  sequence) and `dispute_start` is `dispute_start_ledger` (a timestamp, in spite
  of its name). `NoTime` is `Option::None`.
- `ms` holds the milestones: status, amount, approvals in order, and whether
  the price oracle may release it. Titles and hashes are dropped.
- `request` and `slash` are the `CancellationRequest` and the `SlashRecord`;
  `fee_collected` is the `collected` flag of the fee snapshot.
- `listed` is the set of statuses whose index holds the escrow.
- `vault` is the number of tokens held for this escrow, deposits less payments;
  `OtherFunds` are tokens held for other escrows, which the token contract cannot
  tell apart (`CanPay`). `paid` is a history variable: what each milestone paid.
- `seq` is the ledger sequence and `Now` its timestamp.

How the actions correspond: an action is the Ok path of an entry point, with the
early returns as its guard and everything the call changes in one step: lazy rent
(`Books`), index moves (`Relist`), completion. `Live`, `LiveUnfrozen` and
`BooksUnsettled` say which of pause, freeze and rent settlement the entry point
goes through, since each makes its own choice. A caller is modelled where the
guards tell callers apart (approvers, `"admin"` or `"anyone"` at a release, the
requesting party); elsewhere authentication only decides who may take a step.

Facts of the code the model relies on, so that they can be re-checked:

- At this commit the contract crate does not compile (duplicated modules, the
  fields `arbiter_fee_bps` and `terms_hash` used but not declared, an undeclared
  `caller` in one handler). The model follows what the code evidently means.
- `depends_on` is `None` in every milestone that production code creates.
- Slippage, terms acceptance and the oracle's price only refuse calls; a system in
  which nobody makes the refused call is the same system.
- No handler stores a fee snapshot that is not yet collected, so the completion
  fee taken from settlements is zero and `collect_escrow_fee` charges by itself.
- Signatures are kept when a milestone is rejected: after a resubmission they
  still count. `ThresholdBacked` speaks of distinct approvers, not of rounds.

How the insurance contract's state corresponds: a claim, a slash proposal and a stake
are their records without texts and addresses; an amount of 0 stands for no stake.
`total_claims` is `claim_counter` and `governor_count` the size of `governors`, so both
are left out, and so are the contributions of each address, which nothing reads.
`vault` is the contract's token balance, to which anybody may send tokens (`Transfer`,
external); `ledger` and `gifts` are history. The reentrancy lock is taken and given back
within a call. Storage that expires and 128-bit overflow are not modelled.

How the backend's models correspond to the code:

- An action is the code from one `await` to the next. A `pc` names the await a
  tick, request or call waits at; other fields are the handler's local variables.
- `EventIndexer`: `chain` is the network (external), `rows` and `logged` are the
  tables, `cursor` is `indexer_state`, `server.ledger` is `lastProcessedLedger` in
  memory, `server.timer` whether `setInterval` was reached. A transaction of a
  handler (`$transaction` of the event's row and its changes) is one step.
- `WebhookDelivery`: a delivery's row and its BullMQ job are one record. BullMQ is
  external: it retries what threw until the attempts are used up, and hands out
  the job of a dead worker again.
- `LockManager`: `left` is the time to live. Lua scripts are one step. A token is
  the node that made it: a node asks again only when it has let go.
- `LedgerIndexer`: `node[n].cursor` is the cursor in memory, which is loaded once. An
  answer of the node is one page (`Page`), which the code takes for all there is; `cut` is
  history, the events a page left out. `endLedger` is taken for the last ledger of the
  answer, as the code takes it.
- `RefreshTokens`: a row's state says which update cleared `is_active`. `dead` and
  `held` are history: the tokens rotated or revoked by a request that answered, and
  those that came in the body of an answer. `useCookie` is the explicit refresh that asks
  for the cookie as well. Each question to the cache is a step, and may fail.
- `Reputation`: a handler is the list of its statements (`Program`), each a step.
  `settled` is history: the events handled to the end, those given up, and those whose
  handling a crash or a give-up cut short and no poll began again (`cut`). `EventsFrom` is
  the first page of what the node has; what lies beyond is read only if a later poll still
  asks for its ledger.
- `EscrowRecords`: `version` counts the updates of a row, and stands for
  PostgreSQL's detection of conflicts: a serializable transaction ends without effect
  when a row it updates changed since it was read; a read-committed one overwrites. A
  release is of any milestone and any amount its caller names, as in the code, which looks
  at the escrow's balance only; amounts below zero, which nothing refuses, are left out.
  `resolvedAt` of a milestone is kept as "before" or "after" the dispute was raised. No rule
  tells an arbiter's evidence from an administrator's, so that they are one role.

Facts of the backend the models rely on:

- The indexers' inserts do not set `tenantId`, which the schema requires; the
  models leave the tenant out, as the handlers evidently mean the default one.
- `withRetry` recognises deadlocks by PostgreSQL's codes (`lib/transaction.js:27`), which
  Prisma's error for a conflict under `Serializable` (P2034) does not carry, and the
  middleware of retries is not attached to the extended client; so a lost
  conflict ends its request.
- Only `expiryService.js` is scheduled; `escrowService.js`, `autoRefresh.js` and the
  refresh tokens have no caller in the server at this commit. They are modelled as
  the library they are.

## 3. Runs

The contract's runs instantiate `MCEscrow`. Deadlock checking is off everywhere: the
clock, the chain and the requests are bounded, and at the end of them nothing is left
to do; an escrow that is erased or finished really stops.

| run | specification | shows |
|---|---|---|
| `work` | funding, review, release, refunds; weights 2, 1, 1 and threshold 3 | `TypeOK`; `CountersMatchMilestones`; `PaidAsReleased`; `ThresholdBacked` |
| `conflict` | milestones, disputes, cancellations by request and by the client, slashes, clock, fairness | `Backed`, `ListedWhereOpen`, `SettlementExact`; the contract implements `MilestoneBoard` (`ImplementsBoard`); `DisputesEnd`, `CancellationsEnd` |
| `service` | milestones, rent, expiry, fee, pause, freeze, clock | `ReserveAccounted`, `PauseHoldsFunds` |
| `whole` | every action of the contract, with fees and unfair awards | `FundsAccounted`, `LocksHold` |
| `pipeline` | `Pipeline`: two ticks, a crash, a failure, a subscription, a dying worker | `MirrorsPrefix`, `NothingSkipped`, `OneDelivery`, `HistoryHonest` |
| `cluster` | `LedgerIndexer`: two nodes, short pages, failures, crashes, outages, fairness | `OneNodeInTick`, `NothingLost`, `OnlyOwnerReleases`, `EveryEventApplied` |
| `tokens` | `RefreshTokens`: two requests at a time, failures, a switched cache | `DeadStaysDead`, `LimitHolds`, `SessionSurvives` |
| `reputation` | `Reputation`: three events, retries, a crash or failure, a recalculation, fairness | `RecordHonest`, `NoneForgotten`, `NothingBlocks` |
| `records` | `EscrowRecords`: two requests at a time, the expiry job, fairness | `DisputeOrExpiry`, `SettlesWhatIsLeft`, `ExpiryGetsThere` |
| `insurance` | `InsuranceStaking`: two governors, two stakers, a claim, a slash, fees, a clock | `TallyHonest`, `YieldCovered`, `SharesHold` |

Each of the backend's runs and `insurance` checks the `TypeOK` of its module as well.

The properties that took thought:

- `CountersMatchMilestones` and `ImplementsBoard`. Ten entry points keep three
  counters, and the counters decide completion; a fourth, the allocated amount, is the
  sum of the milestones and guards new ones (`AllocationFits`, a part of it). The abstract board has none: it
  looks. That every step of the contract is a step of the board says that the
  counters never complete an escrow early, late or twice, whatever crosses. The board's
  edges are the code's, not those of `docs/milestone-state-machine.md`: see section 5.
- `PaidAsReleased` ties the milestones to the money: six ways to release, one
  payment each. It is stated for open escrows; for closed ones it fails (section 5).
- `ThresholdBacked` over batches and single approvals, rejections and resubmissions.
- `LocksHold` names the doors that look at `lock_time` and the timelock and the
  ones that do not, instead of claiming that all do.
- `SettlementExact`: what leaves the contract when a dispute is settled is what
  remained, the rent due and the arbiter's fee, also for odd and negative balances.
- `FundsAccounted` compares, for every step of the whole contract, the tokens that leave it
  (`TakenOut`) with what the books owe less afterwards (`WrittenOff`), and names the steps
  at which the two come apart (`ComesApart`): a milestone that `partial_cancel` left
  unfunded, swaps, upheld slashes, the two fees and unfair awards. TLC meets each of these.
- `ReserveAccounted` (`Backed` and `ErasedEmpty`) bounds the tokens from both sides over
  rent periods whose rate changes with every milestone, request and slash.
- `MirrorsPrefix` is the abstract specification of the indexer stated over its
  state: whatever overlaps, fails or is replayed, the tables are what replaying some
  prefix of the chain, each event once, would have made them (`Replay`). The unique
  row of an event in the same transaction is all that keeps it.
- `NothingSkipped` compares the stored cursor with what was recorded, across
  ticks of which the slower one may move the cursor back.
- `NothingLost`, `EveryEventApplied` and `NothingBlocks` are stated for events that an
  answer held: what a page leaves out is lost, which section 5 tells. What they show is
  that failures, crashes, locks and retries lose nothing besides.
- `OneNodeInTick` depends on the renewal of the cluster's lock, `EveryEventApplied` on
  the expiry of what a dead node left; `OnlyOwnerReleases` has to hold for a node whose
  lock expired during an outage and was taken by another.
- `SessionSurvives` speaks of a cookie whose token no body has carried. With `useCookie`
  one answer puts the same token in both, and the property fails (section 5).
- `DeadStaysDead` needs the blacklist and the row together: each of them is written
  in a step of its own, and the blacklist may be forgotten by a switch of the cache.
- `HistoryHonest` relates what the history says to what the receiver saw, and bounds what
  it is asked, through dead workers and deleted rows.
- `NoneForgotten` and `RecordHonest` (`CountsBacked` and `FloorHeld`) pull in opposite directions: a handler tried
  again must count what an attempt before it left uncounted, and nothing that has no
  row in the history.
- `SettlesWhatIsLeft` speaks of the balance at the commit, `DisputeOrExpiry` of two
  transactions of which each read a state in which it was allowed.
- `SharesHold` is about rounding over a long sequence of calls: each leaving stake takes
  a truncated share of a pool that slashes made smaller than the stakes, and what is left
  for a staked token must never shrink, nor tokens stay behind when the last one leaves.
- `YieldCovered` counts what stakers could still claim, not only what was paid: a stake
  that starts with the wrong debt, or one settled twice, shows before anybody is paid.
- `TallyHonest` compares the counters with the ballots, while governors are removed and
  appointed again and the quorum moves under an open vote.

### Bounds

One escrow is enough because escrows share only the contract's token balance
(`OtherFunds`), the pause flag and the indexes. Two milestones (`MaxMilestones`,
`IdBound`) are the least that tell the first from the last, and let batches hold
two distinct ids; batches have length one or two, since the handlers treat ids
one by one. `Amounts` and `Totals` let an escrow be allocated in part or in full, and
refuse an amount too many (`work` tries 1 and 2 in 3). `MaxSeq` is 0 in `work`,
where nothing depends on time, and 1 to 4 elsewhere: a lock, a timelock, a deadline
and a dispute timeout of 1 can start, run and be over.
`service` counts rent in periods of one tick with a reserve of one period and
`MaxRent` 6, so that rent runs out, is topped up in time, and lasts past a
deadline that submissions extended, a release after it and the next period; the
other runs but `whole` make the period longer than the horizon.
`GenesisTime` is 0 in the passing runs, because `resolve_dispute` compares a
ledger sequence with a timestamp and no dispute would otherwise be resolved
(section 5). `whole` has one milestone, one amount, two ticks and hardly
any top-up, to keep two minutes enough for every crossing; the extension of the
deadline by a submission happens in `service`. Both fees are 1 there, an award may be 2 out
of 1, and a slash takes all: the exceptions of `FundsAccounted` occur. `ImplementsBoard` is
checked in `conflict`, where one of two milestones may be finished with the other open, and
`cancel_escrow` takes the escrow out of work; rent and erasure, expiry, swaps and
`partial_cancel` are not among its steps, and are covered by `CountersImplementBoard` only.

Narrowings that matter for what the runs mean:

- Batches have distinct ids in the passing runs; for a repeated id see section 5.
- `Backed` is checked with `ArbiterFee = 0` and `CompletionFee = 0` and without
  `partial_cancel`; fees are paid on top of the balance, see `Solvent` in section 5.
  `FairArbiter` restricts the arbiter to awards between zero and the balance, which the code
  does not check. `whole` has none of these restrictions.
- `service` has neither swaps nor slashes: a swap debits the books and moves no
  token, and erasure drops a slash record with its tokens, so that both leave
  tokens behind. An erasure pays the rest of the rent reserve to the admin.

`insurance`: two governors and quorums of 1 and 2 let the quorum rise or fall with one
vote cast; two stakers and a total stake of 3 leave pools that do not divide; one unit
contributed and one sent in let the balance be too small for what is due. Fees of 1 with
`YieldPrecision` 4 make every division round. The cap and the ceiling of slashes have
one value each in the run: they are guards of a submission and of a proposal only.

For the backend:

- `pipeline`: one escrow is enough, since no handler relates two. The four events
  include a topic without handler and an insert that needs another's row. Two ticks,
  one crash, one failure: the least for an overlap and for a replay. The page holds
  all events and at most one ledger closes between a tick's two questions
  (`MaxGap` 1): what happens beyond is `claim_in_sync`.
- `cluster`: two nodes, two ledgers with an event each, batches of two, so that batches of
  either length and of different nodes overlap, and pages of one, so that a batch of two
  leaves an event out and one of a single ledger does not; the cluster's lock outlives a batch's by a factor
  (300 s and 30 s, here 2 and 1). Two faults of any kind.
- `tokens`: three tokens, limit one, three requests of which two run at a time, one
  failure, switch of the cache or call it fails. `LimitHolds` is stated for any number of requests.
- `reputation`: three events and one poll at a time, which is enough for attempts, crashes
  and a recalculation to cross. `setInterval` may start a second poll beside it: counts
  then double more often, as in section 5, and what the two invariants say is proved for
  any number of polls (section 4). `MaxRetries` is the code's 3. Two ledgers, any number of
  which may close between a poll's questions (`MaxGap` 2), and pages of two out of three
  events: a poll passes by what it was not given, as the code does.
- `records`: two milestones, releases of 3 and of 4 out of 7: one leaves something, both
  together nothing. Four requests or failures, two at a time.

### Fairness

`conflict` assumes weak fairness of three actions. `Tick`: ledgers close.
`ClaimDisputeTimeout`: one party wants its share and the call is open to both.
`ExecuteCancellation`: anyone may call it. Nothing in the code schedules these
calls; the assumption is about the participants, and the two liveness properties
say that their own calls suffice, without an arbiter and without the other party.
Nobody pauses or freezes in this run and the rent is covered: an admin may stop
everything for ever. `FairResolution` adds
fairness of the arbiter and of the oracle, for a claim of section 5.

The backend's runs assume what timers and event loops give. `cluster`: time passes and
the renewal timer runs, Redis comes back, a process that can go on does, a dead node is
started again. `reputation`: the interval starts polls, a poll under way goes on, the
process is restarted. `records`: requests end, and the expiry job's timer goes on; a
conflict or a failure is bounded, since each counts against `MaxRequests`.
`claim_in_sync`: restart, timer, and ticks that go on. No fairness is assumed of faults,
of new requests, of ledgers that close.

## 4. Proofs

Checked by TLAPS for all values of the constants that satisfy the assumptions of
the modules (bounds, amounts and periods are positive; the multisig policy is
valid; batches hold one or two ids; some requests, finitely many, are under way).

| theorem | property | argument |
|---|---|---|
| `TypeCorrect` | `TypeOK` | inductive as it stands; one lemma per group of entry points. `submitted_count` stays natural by the saturating subtraction, `milestone_count` below `IdBound` by the cap and the bound |
| `Listed` | `ListedWhereOpen` | inductive as it stands: whoever changes an open status to an open one moves the index |
| `OneWay` | - | `NeverReactivated`, a part of the board's promise: step property, no invariant needed beyond the shape of `Next` |
| `Locked` | `LocksHold` | step property, from `TypeOK`: each release either checks the lock or is a door the property names |
| `PauseHolds` | `PauseHoldsFunds` | step property, by cases of `Next` |
| `SettlementPays` | `SettlementExact` | step property under the hypothesis `FairArbiter`, from `TypeOK`. `SplitExact`: truncating halves of any balance, negative or odd, add up in what is paid to its positive part (`Halves`) |
| `BooksAgree` | - | `BooksInv`, inductive: see below |
| `CountersExact` | `CountersMatchMilestones` | a part of `BooksInv` |
| `PaidOnce` | `PaidAsReleased` | a part of `BooksInv` |
| `ThresholdHolds` | `ThresholdBacked` | `Sealed`, inductive for each milestone: a step keeps its signatures, clears them, or adds one that is missing; `AccruedWeight` grows by the weight of a signature appended |
| `CountersImplementBoard` | `ImplementsBoard` | from `BoardInv`: each step of the contract is one kind of step of the board (`BoardStep`), and the counters say "finished" exactly when a look at the milestones does (`CountersOrdered`) |
| `StepsAccounted` | `FundsAccounted` | step property of `Spec` as it is, no hypothesis: from `TypeOK` and `SlashInv`, see below |
| `RecordsTypeCorrect` | `TypeOK` of `EscrowRecords` | with the next two from `IInv`: a request that is about to write read the row as it is or an older version, and what it read it checked; a row that has a dispute is Disputed or over. No balance leaves `0 .. Total` |
| `DisputeOrExpiryHolds` | `DisputeOrExpiry` | from `IInv`: the expiry read Active; at the same version the row still is |
| `SettlesWhatIsLeftHolds` | `SettlesWhatIsLeft` | step property from `IInv`: the shares add up to the balance read, and a changed balance is a changed version |
| `InsuranceTypeCorrect` | `TypeOK` of `InsuranceStaking` | inductive as it stands: every payment is compared with the balance, yield due included (`DueCovered`) |
| `InsuranceVaultExplained` | `VaultExplained` | inductive with `TypeOK`: what a step takes from the balance it takes from the pool, or books as payout or yield |
| `InsuranceTallyHonest` | `TallyHonest` | from `TallyInv`, which adds that ids not yet given out have no record, and what has no record no votes (`NothingEarly`); a vote of one who has not voted adds one to its side (`VoteCounted`) |
| `InsuranceStakes` | - | `StakeInv`, inductive: `stake_total` is the sum of the stakes, the pool lies in `0 .. stake_total`, no staker's debt is ahead of `yield_acc`, and the yield paid and earned is covered by the fees |
| `InsuranceYieldCovered` | `YieldCovered` | from `StakeInv`, see below |
| `InsuranceSharesHold` | `SharesHold` | step property from `StakeInv`: a truncated share leaves what belongs to the others (`ShareLeft`) |
| `ClusterTypeCorrect` | `TypeOK` of `LedgerIndexer` | inductive as it stands: no batch and no cursor reaches past the last ledger |
| `OneNodeHolds` | `OneNodeInTick` | from `TickInv`, if `Ttl[Main] >= 2`: who is in a tick owns the cluster's lock and has a timer, which is due before the lock runs out |
| `OnlyOwnerReleasesHolds` | `OnlyOwnerReleases` | step property from `HeldHasTime` (a key that is held has time left), with outages and takeovers |
| `NothingLostHolds` | `NothingLost` | under `HalfOutlivesBatch`, from `LockInv` (a batch's lock belongs to the owner of the cluster's lock, to the batch at hand, and lasts no longer than that lock), `FrameInv` (a batch ends at a ledger that has closed) and `DataInv` (what a node has behind it was applied, left out by a page, or is in its hands) |
| `PipelineTypes` | `TypeOK` of `Pipeline` | with `TodoEmitted` (what a tick has to do was emitted) and `CallInv` (a call that signs or queues holds the row it created, which has no job yet) |
| `DatabaseMirrors` | `MirrorsPrefix` | from `IndexInv`, in behaviours that satisfy `[]KeepsUp`: see below |
| `CursorSkipsNothing` | `NothingSkipped` | a part of `IndexInv`, in the same behaviours |
| `HistoryIsHonest` | `HistoryHonest` | from `JobInv`: the requests sent are at least the attempts counted with the one under way, and at most these and the stalls; a job that is not dead has an attempt left |
| `DeliveredOnce` | `OneDelivery` | from `OnceInv`: an event that no tick announced yet has no call and no delivery (`Untold`, `Quiet`), two ticks never announce the same one (`OneTeller`), and the call of an announced one has only subscriptions left that got no delivery (`CallsOnce`) |
| `TokenTypes` | `TypeOK` of `RefreshTokens` | with `Shape`: tokens that a request was given, that a client holds or that are dead have been made |
| `DeadTokensStayDead` | `DeadStaysDead` | from `DeadInv`: a dead token's row is not live, and no step makes a row live again |
| `TheLimitHolds` | `LimitHolds` | from `LimitInv`, see below |
| `TheSessionSurvives` | `SessionSurvives` | for a cookie that no body carried, from `SessionInv`: a new token on its way has one destination and no other request names it (`Fresh`); while the cookie's token is rotated some request of the browser is about to replace it (`Returning`) |
| `ReputationTypeCorrect` | `TypeOK` of `Reputation` | with `Base`: a poll that handles an event has it in its list, and what is in a list was emitted |
| `RecordsAreHonest` | `RecordHonest` | from `BackedInv` and `FloorInv`, see below |
| `NothingIsForgotten` | `NoneForgotten` | from `CountedInv`: while no recalculation ran, what a running poll's event should count is counted already or still in its plan (`Tells`) |

The four theorems on the counters assume `DistinctIds`: no batch names a milestone twice.
The code does not check that, and with a repeated id the properties fail (`RepeatedBatch`
in section 5), so the hypothesis is the condition under which the code is right. The
counters alone are not inductive. `BooksInv` adds what the entry points take for granted
when they count: milestones are numbered from zero without gaps (`Numbered`), so that a
new one finds an empty place; the allocation is the sum of their amounts
(`Allocated`); only released milestones were paid, each its amount, as long as the escrow
is open or a pending cancellation request could reopen it (`PaidWhileOpen`). A counter and the set it counts change together: `Entering` and
`Leaving` are the milestones that a step brings into a set of statuses or out of it, and
`WithChange` says what that does to a cardinality. `BoardInv` needs one fact more: an Active
escrow is not finished, or the board would have closed it.

`StepsAccounted` needs little of the past: that the amounts are typed, and that no amount is
held back where no slash is recorded (`SlashInv`), since the erasure and an upheld slash
drop the record. Each step then falls in one of three groups: those that keep tokens and
books as they are (`QuietStep`), those that pay a milestone out of the balance (`Spends`),
and those that close, settle, cancel or refund, each computed by itself. It says that tokens
and books move together, not that there are enough tokens: `Backed` and `ReserveAccounted`
say that, hold under restrictions only, and are left to TLC.

`AllocationFits` and `ThresholdBacked` speak of sums. The library's induction takes the
predicate as an operator, which the provers cannot instantiate; `SumProofs` therefore
states induction for a *set* of numbers (`SetInduction`, from the least element of a set
that is not empty), and derives the two equations of `SumTo` and what follows from them:
its type, its monotony, and how it changes when one value or two change.

`LimitInv` is the argument why the excess does not add up. A request that counted and
goes to insert keeps a place; `Room` is what the limit and the requests that keep none
leave for live tokens. Requests that still have to drop the oldest counted at different
times, and some of what they counted may be gone when they drop. The bound on each alone
is not inductive, for whoever drops first may leave less than the others need. What is
inductive is a claim on every set of them: one of the set will leave so few tokens
(`Left`) that all of the set can insert. A drop by a request outside the set uses the
claim on the set with it. The theorem needs a request to be there at all: with none
and a limit of one, the token of the initial state would be above the bound.

`IndexInv` says where each event is that the database lacks (`Missing`). A tick that is
about to ask starts at or before its ledger; one that has the answer has the event in its
list, or the event comes after all of the list, in a ledger the tick will not move the
cursor past (`Watches`). The event a tick commits is the least of its list, so that all
events before it with a handler are recorded already, by whichever tick: that is why the
rows stay the replay of a prefix although ticks overlap. `Replay` is a recursive function;
that it obeys its equations is proved by induction on a set (`ReplayExists`,
`ReplayRecursion`). `MirrorsPrefix` and `NothingSkipped` do not hold of every behaviour:
a page that is full or two ledgers between a tick's questions lose events
(`claim_in_sync` in section 5). `KeepsUp` is that condition, state by state: while it holds,
whatever the length of the chain, nothing is lost. The code does not enforce it; the bounds
of the run `pipeline` do.

`IInv` is needed because `DisputeOrExpiry` is not inductive: a state in which a request
is about to cancel an escrow it read as Active, under the version the disputed row has,
satisfies it and breaks it in one step. `TallyInv` is needed because a new claim starts
with counts of zero: a ballot recorded before would not be counted. The theorems hold for any set of requests,
any milestones and amounts.

`YieldCovered` adds up what all stakers could claim, so its proof needs sums over a set.
`SumProofs` defines `SumOver(f, S)` by induction over the subsets of a finite set
(`SubsetInduction`) and shows how it changes with one value; `PendingSum` says that the
property's sum is one of these. The pending yields are each rounded down and are not
inductive; `StakeInv` speaks of `Earned`, the products before the division. `yield_acc`
grows by the fee over `stake_total`, truncated, so all stakes together earn no more than the
fee. A stake that leaves takes `amount * pool / total` rounded down; `ShareFair` says that
the rest keeps its share of the pool, by products only, since the division is outside the
provers' reach but for its defining inequalities (`Divided`).

A handler of `Reputation` may stop after any statement, and another poll or a
recalculation may come between two. `BackedInv` therefore speaks of what a poll has still
to do: each count in its plan has the row of the history before it in the plan or written
already (`RowFirst`), and what a recalculation read is in the history still. `FloorInv`
gives a negative score an excuse, a dispute lost by that party that was cut short or that
a poll has in hand whose plan still raises the score (`Mends`); a new attempt starts with a
plan that does. The three theorems hold for any number of polls at once, of which the run
has one.

`NothingLost` needs the locks in its invariant because a node that finds a batch's lock
taken moves its cursor past the batch. That never happens while Redis answers: a dead node
leaves both its locks, and the batch's runs out no later than the cluster's if half the life
of the latter is as long as the life of the former (`HalfOutlivesBatch`; the code has 300 s
and 30 s, the run 2 and 1). With a batch lock that lives longer than that, a second
node could skip the batch of a dead one, so the hypothesis is a condition on the two
constants of the code. Events lie in ledgers from 1 on, after `START_LEDGER`'s default of 0.

Only model-checked: liveness and fairness, which are out of the prover's reach
(`DisputesEnd`, `CancellationsEnd`, `EveryEventApplied`, `ExpiryGetsThere`, `NothingBlocks`),
and the two bounds on the tokens, `Backed` and `ReserveAccounted`. Every other invariant and
step property of a passing run is stated by a theorem above.

## 5. Where the code and its documentation part

Two runs refute what a document or a comment says; `PROJECT.json` quotes the line.

| run | what happens |
|---|---|
| `claim_once` | `cancel_escrow` pays approved milestones and leaves them approved; `release_funds` does not look at the escrow's status and pays them again, completing a cancelled escrow |
| `claim_in_sync` | the indexer moves its cursor to the latest ledger, read after one page of events: events beyond the page, or of ledgers that closed in between, never reach the database |

TLC refutes as well, given as property of the specification named (no cfg is kept):

| property | specification and constants | what happens |
|---|---|---|
| `RemainingNonNegative` | `WorkSpec` | `partial_cancel` gives back unallocated money but `total_amount` stays, `add_milestone` allocates it again and the releases take `remaining_balance` below zero |
| `PaidAsReleased` | `WorkSpec`, `Batches <- RepeatedBatch` | an id given twice to `batch_approve_milestones` passes validation twice and is paid twice |
| `Solvent` | `ConflictSpec`, `ArbiterFee = 1` | `docs/security-model.md:82` says the balance covers all unreleased funds; the arbiter's fee is paid on top of the whole remaining balance, from the rent reserve or from other escrows' tokens |
| `DisputeFreezesReleases` | `ConflictSpec` | a dispute does not stop the release of approved milestones, which may even complete the escrow |
| `ApprovedIsTerminal` | `ConflictSpec` | `docs/milestone-state-machine.md:113` calls Approved terminal for a milestone; one approved under a timelock is Released later, a status the document does not know. Released is also reached from Submitted by an approval that pays, and from Pending by the oracle |
| `CancelGuarded` | `ConflictSpec` | `docs/milestone-state-machine.md:240` blocks a cancellation over submitted or approved work; `cancel_escrow` looks at no milestone but to pay the approved ones |
| `CooldownCountsLedgers` | `ConflictSpec`, `GenesisTime = 1000` | the dispute cooldown compares a ledger sequence with a Unix time and never ends |
| `CancellationDisputesEnd` | `FairResolution` | `dispute_cancellation` raises a dispute that no entry point can end, and the disputed request cannot be executed either |
| `NoDuplicateProcessing` | `LedgerIndexer`, as in `cluster` | a node dies, or its update of the cursor fails, after a batch; the batch is processed again, and a release subtracted again |
| `ZeroDataLoss` | `LedgerIndexer`, as in `cluster` | "Zero data loss: ledger cursor only advances after successful DB write" (`workers/escrowIndexer.js:14`); one page of a batch's events is taken for all of them, and the cursor moves to the end of the batch |
| `CountedOnce` | `Reputation`, as in `reputation` | the next poll starts with the ledger of the cursor and counts its events again; only the history's row is idempotent |
| `OldestDropped` | `RefreshTokens`, as in `tokens` | active tokens have no time of last use, so that the order of the query is open and the newest may be dropped while an older one stays |
| `RotatedOnce` | `RefreshTokens`, as in `tokens` | two requests with the same token pass all checks before either writes, and each gets a successor |
| `CookieSurvives` | `RefreshTokens`, as in `tokens` | "Provides seamless UX without requiring manual token refresh" (`autoRefresh.js:5`): an explicit refresh with `useCookie` puts one token in the cookie and in the body; a later explicit refresh of the body's copy leaves a rotated token in the cookie |
| `ReleasesCovered` | `EscrowRecords`, as in `records` | two releases read the same balance; both commit, under read-committed isolation |

Others seen while modelling and visible in the model, without a run of their own:
`resolve_dispute` accepts a negative award and then pays the other side more than
the balance (`FairArbiter` excludes it); an upheld slash drops its record and moves
nothing (`ResolveSlashDispute`); an expiry refunds the client while milestones are
approved, and these are then released as well (`TriggerExpiry`, and the reason for
the inequality in `ErasedEmpty`); some completions and the expiry leave a stale
index entry (hence `ListedWhereOpen` rather than equality); `approve_milestone`
does not decrement `submitted_count` (hence the inequality in
`CountersMatchMilestones`); price-indexed milestones ignore the cap; the price
oracle and a release time pass `lock_time`; the release of the last milestone so
far completes an escrow with money that was never allocated; `dispute_cancellation`
does not look at the status, so an escrow completed after the request is Disputed
again; `cancel_escrow` and `execute_cancellation` remove the fee snapshot, so that
`collect_escrow_fee` charges once more.

In the insurance contract: a vote on an expired claim marks it Rejected and returns an
error, which undoes the mark, so that it stays Pending (`Vote`); the comment at
`insurance_contract/src/lib.rs:521` rejects a claim when "against wins, or tie", but with
a quorum of three, two votes for and one against reject it too, since the votes for must
reach the quorum by themselves (`ClaimVerdict`); payouts and announced fees that were
never sent are paid from the stakes, so that the balance may be less than the pool; yield
the balance does not cover is dropped when the stake changes (`YieldDue`); the expiry is
given in ledgers and added to a timestamp in seconds.

In the backend: a party without a reputation record sends a release to the dead letter
queue, and the escrow's balance is never reduced (`Accepted`); a recalculation writes
over an increment that came between its read and its write; `workers/escrowIndexer.js`
passes over a batch when Redis does not answer and moves its cursor on, hence the
condition of `NothingLost`; `services/escrowIndexer.js` passes by what does not fit in a
page, and what closes between its two questions, as the API server's indexer does;
`releaseMilestone` does not look at the milestone's status or amount; the automatic
resolution divides `totalAmount` and not what remains (`ReadForAuto`), writes over an
administrator's that came in between, or marks a resolved dispute as escalated.

## 6. Not modelled, and the plan

Left out of the modelled parts: evidence records of the contract and the escalation to
governance (events without effect on the escrow); a tick of `workers/escrowIndexer.js`
that overlaps with one of its own node after its lock expired; appeals, the relayer
and notifications around disputes; the refund of payments (`paymentService.js`), a
check followed by an act on an external service; access tokens. Most of the repository
is user interface, HTTP handlers, monitoring and load tests: code that keeps no state
between two requests, about which a state machine says nothing.

Done, in this order: the money of one escrow (`EscrowState` to `EscrowProperties`) and
its proofs; the indexer and the webhooks; locks and the cluster; refresh tokens;
reputation; the records and their proofs; the insurance contract and its proofs; the
proofs of the cluster, of the escrow's counters and its refinement, of the refresh tokens,
of the indexer and the webhooks, of reputation, of the insurance
contract's yield and shares, of the tokens behind an escrow's books.

To come:

1. Recurring payments and split escrows, over `EscrowState`'s balances; abstract
   specification: one payment per due period.
2. Governance: proposals with windows and stakes with a cooldown. `withdraw_stake`
   sets its cooldown and returns an error, which undoes the setting.
3. Consent records, admin transfer and migration.
4. The refund of payments (`paymentService.js`), the circuit breaker and the clients' queue
   of offline requests, for the answers that come late or twice.
5. Proofs: the abstract specifications of the parts under 1 and 2 as refinements.
