# H2Fleet: TLA+ models and proofs

H2Fleet is a platform for hydrogen and electric bus fleets: Go services for
commerce, infrastructure, citizens, administration, audit and toggles; Rust
services for telemetry; Python services for charging, prediction and analytics;
PostgreSQL/TimescaleDB, Kafka, Redis, TigerBeetle, Temporal, Keycloak and Mojaloop
underneath. This directory models the parts in which several processes, retries
and crashes meet, checks them with TLC on small instances and proves the most
important facts with TLAPS for every instance.

## The system: state, operations, what makes it hard

| part | state | operations | hard because |
|---|---|---|---|
| fare payments, refunds (`commerce-api`, `payments.go`) | `fare_payments`, advisory locks, the ledger, the Mojaloop switch | CreatePayment, RefundPayment | two systems outside the transaction, retries under one key, refunds take no lock |
| ledger (`internal/ledger`) | accounts, transfers | EnsureAccount, Transfer | idempotent ids, overdraft guard |
| loyalty (`loyalty.go`) | points, entries, redemptions | accrue, clawback, redeem | accrual and clawback run after the commit and in any order; two keys compete for points |
| energy trades (`trading.go`) | trades, the stations' surplus | CreateTrade, CancelTrade | a saga over two systems with compensation |
| billing, carbon fund, advertising | charges, invoices, credits, placements | sweep, pay, post, place | the ledger posts inside a transaction that may roll back; sums that are compared, then added to |
| stations, refuelling queue (`infra-api`) | status, inventory, queue entries | join, complete, leave, count | counts read without a lock, two-step promotion |
| incidents, webhooks | incidents, workflow runs, deliveries | report, acknowledge, resolve, escalate, retry | five statements per handler, timers against signals |
| dispatch, charters, demand rides | jobs, workflow runs, bookings, rides | create, accept, swap, book, cancel, assign | overlap checks racing inserts, indexes behind them |
| depot | bays, work orders | assign, create, transition | read, check, then write by id |
| Kafka consumers of the APIs | committed offset, position | one handler per record | a failed record is covered by a later commit |
| onboarding, users (`admin-api`) | requests, Keycloak accounts | apply, decide, reconcile, change roles | five calls to another system |
| audit log, toggles, signing keys | hash chain; Redis, client and key caches | append, verify; get, put; fetch, rotate | what is hashed and what is read back; late answers |
| journey planner (`citizen-api`) | the network | PlanJourney | boundaries of three comparisons |
| edge agent (`fluvio-edge`) | channel, batch, spool file, offset file | consume, flush, drain, open | outages, deaths at any point, torn frames, order |
| ingestion (`telemetry-ingest`) | batch, position, committed offset, gate | recv, flush, dead letter, pause | commits cover earlier records, rebalances, a toggle that pauses |

`PROJECT.json` lists every part, with the reason where it is not modelled, and
the hazards at their lines.

**What a step is.** One SQL statement, one call to another system, or one
file operation. A transaction is one step when it holds the row locks it needs from
its first statement on; otherwise its statements are separate steps, other
requests run between them (PostgreSQL's READ COMMITTED), and a row an uncommitted
UPDATE or FOR UPDATE has locked makes others wait. A failure or the death of the
process may follow any step; it rolls back the transaction and nothing else.

## Modules

Payments, on the ledger:

| module | models |
|---|---|
| `Ledger` | TigerBeetle as `ledger.go` uses it: posted transfers and balances. `Accepts(t)`: an identical transfer is accepted again without effect; a known id with other parameters and an overdraft of a guarded account are refused. |
| `FarePayment` | `EXTENDS Ledger`. A teller is one execution of CreatePayment, a refunder one of RefundPayment; `pay[w]` and `ref[w]` are the handler's local variables and where it stands. |
| `FareContract` | what a client may rely on: per key at most one debit, one recorded outcome, refunds that only grow. |
| `EnergyTrading` | `EXTENDS Stations, Ledger`. `trader[k]` is the request that inserted key `k`: `ProposeTrade`, `drawDownSurplus`, `SettleTrade` or `SettleFails`, `restoreSurplus`, `FailTrade` or `FinalizeTrade`; `CancelTrade` at any time. |
| `Billing` | charges, `SweepCharges` and `GenerateInvoice` (one transaction under the account's lock), `PayInvoice` (posts) and `MarkInvoicePaid` (commits), `RollsBack`. |
| `CarbonFund` | `EXTENDS EventConsumer, Ledger`. One transfer per issued credit, refusals and outages. |
| `Advertising` | campaigns and placements: `CheckPlacement` locks the campaign, judges its status and sums, `CreateAdPlacement` inserts under the exclusion constraint; `CheckCampaignStatus` and `UpdateCampaign` are the two halves of a status change. |
| `Rewards` | `CheckRedemption`, `DeductPoints`, `RedeemOffer`: the three places where RedeemOffer can lose a race; accrual and clawback meanwhile. |

Stations, safety, bookings:

| module | models |
|---|---|
| `Stations` | `infra.stations`: status and the two inventory columns; every writer of them is an action of this or an extending module. |
| `StationQueue` | `BeginJoin`, `CountQueue`, `InsertEntry`; `CompleteEntry` and `DrawInventory`; `LeaveQueue`; `advanceQueue` after the commit, which `RequestFails` may skip. A ticket is `joined_at`. |
| `Webhooks` | subscriptions and deliveries; a sender records the row, attempts it, records the outcome; an operator retries. `received` is what the partner saw, which no variable of the code holds. |
| `Incidents` | `EXTENDS Webhooks, Stations`. `handler[w]` walks through insert or fold, signal, station status, webhooks; `wf[i]` is the workflow run with its signals, timer and activities, whose attempts may be lost or used up. `CheckRestore` is the snapshot of the restoring UPDATE, `maybeRestoreStation` its write. `guarding` marks an incident whose handler reached its station while no restore was between the two. |
| `EventConsumer` | the consumer loop three services share: handle, commit, go on after an error, restart from the committed offset. `outcome` is the result of the last attempt at a record. |
| `Dispatch` | drivers, jobs, the dispatch workflow, charters. A desk is one request: `CheckHours`, `CheckOverlap`, `InsertJob`; `CheckDriver`, `AcceptJob`; `CheckSwap`, `SwapVehicle`; `CheckCharter`, `BookCharter`; `CancelCharter`. `IndexAllows` is the partial unique indexes. `RequeueDispatchJob` is the accept timeout, `RequeueFails` its activity given up. |
| `DemandRides` | `EXTENDS Dispatch, EventConsumer`. `PickVehicle`, `validateAssignVehicle`, `AssignDRT`, by the consumer and by operators. |
| `Depot` | `EXTENDS EventConsumer`. Bays, work orders, `CheckTransition` and `transitionWorkOrder`, orders from predictions with both answers PostgreSQL may give to the ON CONFLICT clause. |

Platform and telemetry:

| module | models |
|---|---|
| `Onboarding` | a request and its Keycloak account; `CreateUser`, `SetTemporaryPassword`, `EnsureRealmRole`, `AssignRealmRole`, `SendActionsEmail`, `Decide` are the steps of `provision` and `decide`; user administration runs between them. |
| `AuditLog` | `Ingest`, `ReadHead` under the advisory lock, `InsertEntry`; a hash is the tuple it is computed over. `Verify` is VerifyChain. |
| `Toggles`, `KeyCache` | the three layers a toggle passes, and the cached JWKS; both with time in ticks. |
| `JourneyPlanner` | `PlanJourney` with its helpers (`nextArrivalsAfter`, `makeLegs`), beside the references `Direct` and `OneTransfer`: all journeys with at most one change. |
| `EdgeForwarder` | the agent on the bus: `Consume`, `StoreHint`, `Reconnect` are `source.rs`; `Receive`, `Flush*`, `Drain*` are `forwarder.rs` with the spool's `append`, `ack`, `compact`; `LateWrite` is a record the producer gave up that Kafka writes after all; `Restart` is a death followed by `Spool::open`. |
| `TelemetryIngest` | one partition of `telemetry.raw`: the loop of `pipeline.rs` (`Pause`, `RecvWhilePaused`, `Resume`, `Recv`), `flush` (`Flush`, `Insert`, `InsertFails`, `DeadLetter`, `CommitBatch`), the toggle poller, the consumer group. |

`MCFarePayment` and `MCEdgeForwarder` hold values for TLC. `MCStations`, `MCIncidents`,
`MCBookings`, `MCCommerce` and `MCPlatform` compose components: those that share
rows run together (queue, trades and stock counts over one station table;
incidents, workflow, stations and webhooks; desk and rides over one set of jobs),
and those that share none are chosen by `focus` in the initial state, so that
their states add up instead of multiplying.

`FareTypeProofs`, `FarePaymentProofs`, `FareContractProofs`, `DispatchProofs`,
`IncidentProofs`, `DepotProofs`, `AuditLogProofs` and `OnboardingProofs` hold the proofs.

### FarePayment and the code

A payment runs through `BeginPayment` (the request is decoded, the transaction
begins), `PricePayment` (advisory lock, entitlement, daily cap), `InsertPayment`
or `ReplayPayment` (the unique index on the key; a taken key replays the stored
payment), `PostFare`, `FareRefused` or `SkipPosting` (the ledger),
`MojaloopQuote`, `QuoteFails`, `MojaloopTransfer`, `TransferFails` (the switch),
`CommitPayment`, and `AccruePoints` after the commit. `AbortPayment` is possible at
every point: an error, a client that goes away, the request timeout or the
death of the process. It rolls back the row and the lock; the transfers in the
ledger and in the switch stay. A refund is `ReadForRefund`, then `PostReversal`,
`ReversalRefused` or `SkipReversal`, then `UpdateRefunded` or `LostRefundRace`
(the conditional UPDATE), then `ClawBackPoints`.

`now()` is the start of the transaction, so a payment carries the civic day of
`BeginPayment`, and the cap query sums from that day on. `ConnectionFree` is the
pool: a payment holds a connection from BEGIN on, and `riderAccount` wants a
second one in the middle. A payment is named by its key, a wallet by its rider, the
hash behind a transfer id is injective, rider accounts exist. An entitlement is
its kind, percentage and whether a billing account pays.

### Other abstractions

- **Queue, trades.** Inventory is in whole units; the tolerance `1e-9` is 0. A
  trade empties the stations in id order, as the query locks them.
- **Incidents.** Severities are 0..3. The dedup window of a leak ends with
  `DedupWindowPasses`; the 15-minute timer may fire whenever it is armed. Temporal
  keeps signals and timers. An attempt of the escalation may write the row and lose its
  report, or all attempts may fail, which is only logged; the other two activities, which
  change nothing the second time, succeed or fail the run.
- **Bookings.** Windows are ranges of whole hours of one day. A charter's jobs get
  the placeholder drivers of `charterDriverSub`. Vehicles are interchangeable except
  for accessibility.
- **Consumers.** Payloads are well formed; a malformed record is committed and
  dropped by the code, which leaves nothing to check. A restart and a rebalance are
  the same step.
- **Onboarding.** A request ages in three steps: within the velocity window, past
  it, past the expiry. An account is whether it exists, is enabled, was mailed, its
  password and its roles; `revoked` remembers what administrators took away.
- **Audit log.** SHA-256 is injective. `Normal` maps a JSON text to what `jsonb`
  returns for it; `Precision` is the number of clock units in one unit of the column.
- **Toggles, keys.** Fetches end within `InFlight` and `FetchTime`, the timeouts of
  the HTTP clients, a PUT within `PutTime`, the timeout of the toggle-service's
  middleware; entries expire on the tick.
- **Ledger.** Accounts carry no code. `EnsureAccount` also errs when an account exists
  under another code than the transfer's; the callers handle that as any other failure of
  the ledger, and the models accept more transfers than the code does.
- **JourneyPlanner.** Times are ticks of UTC, two to the minute in the instance, since a
  request comes between two minutes as well; `zone` is the server's offset from UTC.
- **EdgeForwarder.** Records are offsets. `Outcomes` is what `produce_batch` may
  come to: with `partial = FALSE` Kafka confirms all or nothing, with `partial = TRUE` any
  subset. What was sent and not confirmed stays in `inflight` and may be written later.
  The producer is not idempotent, so the records of one batch may be written in any
  order. A disk fault may tear an append, fail a compaction before or behind its rename
  (the writer may then stay on the unlinked file) or fail the offset file; the code logs
  and goes on.
- **TelemetryIngest.** `consumer.pause` reaches the partitions assigned at that moment.
  A commit is asynchronous and may fail; an insert that reports an error may have been
  executed. Republication to `telemetry.enriched` is best effort and left out.

## What TLC checks

| run | instance | shows |
|---|---|---|
| `fare_taps` | 1 rider, 2 keys, 2 tellers, 1 refunder, fare 2, 2 units per point, cap 3, two days | types; `SettledWithinCap`: racing taps, aborts, retries and midnight never settle more than the cap in a day |
| `fare_legs` | 2 riders, 1 key, 2 tellers, 2 refunders, fare 2, 2 units per point, a free-ride entitlement that comes and lapses, with and without Mojaloop | `SettledFareIsPosted`, `RefundsAreBacked`, `PointsFollowPayments`, and that the handlers implement `FareContract` |
| `fare_live` | 2 riders, 1 key, 2 tellers, 1 refunder, 2 units per point, a half-price entitlement | `RequestsFinish`: no handler waits forever |
| `stations` | 2 stations, 2 buses, 2 attendants, 2 trades, 3 stock counts | `StockAccounted`: inventory is what was counted less what was dispensed and sold, through cancellations, deaths and compensations that fail; `TradesAreBacked` |
| `incidents` | 1 station, 2 incidents, 2 handlers, 1 subscriber, 1 fault or override | `EmergencyHolds`: a station stays closed while a critical incident is open whose handler reached it outside a restore; `DeliveredWasReceived`; `IncidentsOnlyEscalate`; `UnansweredEscalates` |
| `bookings` | 1 driver, 2 vehicles, 1 charter, 2 desks, 2 jobs; 2 rides; 1 prediction, 2 clerks; 1 fault | `NoDoubleBooking`, `CancelledCharterIsFree`, `OfferIsDecided`; `RidesAreAssignedOnce`; `OneOpenOrderPerPrediction`; `CrashLosesNoRecord` |
| `commerce` | 3 charges, 2 overlapping periods, 2 invoices; 3 credit records; 2 campaigns, 2 slots; 2 members, 2 keys; 2 faults | `InvoicesAddUp`, `PaidInvoicesArePosted`; `CreditsFundedOnce`; `SpendWithinBudget`, `EndedTakesNoPlacement`; `PointsSpentOnce` |
| `platform` | 2 emails, 2 agents; 2 writers, 3 entries; 2 callers, 2 consoles; 2 keys, 2 verifiers; all timetables of 2 routes over 3 stops, asked at every tick of a day, on a server in UTC and on one ahead of it; 1 fault | `CompletedIsProvisioned`; `ChainIsLinked`; `StaleAnswersLapse`; `PlansAreEarliest` |
| `edge_forward` | 3 records, a resume hint for every second, batches of 2, channel of 1, one disk fault, one death or reconnect | `OnlyHintsLose`: outages and deaths lose only records a resume hint has passed before their flush was done; `ForwardedInOrder`; `SpoolDrains` |
| `ingest` | 4 records, one poison, one empty, batches of 2, 2 attempts, two changes of the gate, a rebalance, a death | `ReadIsAccountedFor`, `NeverWedges` |

Two runs end in a counterexample to what a comment of the code says:

| run | what happens |
|---|---|
| `refund_race` | two refunds of different amounts both post before either updates the row: the wallet receives more than was charged (`payments.go`) |
| `audit_verify` | the hash covers nanoseconds and the column keeps microseconds: an entry nobody touched does not verify (`store.go`) |

**Bounds.** A race needs two handlers of a kind on one row, and every instance has
them. In `fare_*`, fare 2 under cap 3 makes the second ride of a day partly capped;
fare 2 at 2 units per point makes partial refunds round; an entitlement that comes or
lapses between a death and its retry changes the price. A charge of 2 is too small for
one partial refund to overwrite a larger partial one (that takes 3); that the recorded
total never falls is covered for every charge by `FarePaymentImplementsContract`. In
`stations`, a sale of 2 takes what a refuel of 1 wants and may need both stations. In
`incidents`, two incidents of one station are what restoring it can confuse, and a
second attempt is what a delivery can overtake. In `bookings`, two vehicles let a swap
free one that a charter takes; a third job adds states and no new pair. In `commerce`,
the periods share a charge, the costs exceed the budget together, and a credit is
reissued with the same and with other kilograms. In `platform`, times are the smallest
that order fetch, expiry and withdrawal in every way, and the clock has two units per
column unit; for the planner a day is 8 minutes of two ticks with service from minute 1 to
6, so that requests fall before, in and after service and between two minutes, and an
offset of 3 minutes moves a leg's arrival to another day's timetable. With offsets 0..2
and batches of 2 there is a full batch and a rest; a resume hint at every second offset
(the code: every 64th) lets one pass a record that is still in memory. `MaxFaults`,
`MaxLoad`, `MaxRideLoad` (in the MC modules), `MaxDiskFaults`, `MaxRestarts`, `MaxFlips`,
`MaxCounts` bound what multiplies the states: failures, and requests open at once. The
bounds limit what may begin, never what has begun. Symmetry is used in runs without
liveness properties only.

**Deadlock** is not checked: keys, records, rows and days run out, and a system with
nothing to do may stop. Handlers waiting for each other are `RequestsFinish`.

**Fairness.** `FarePayment`: a handler that can go on does so (strong fairness
for tellers, since PostgreSQL queues the waiters of a lock and of a unique
index). The timeout of 30 s is not relied on. `RequestsFinish` needs
more connections than concurrent payments (`PoolSize = 3` for two tellers); with
`PoolSize = 2` both tellers wait for a second connection and only the timeout
ends them. `Incidents`, `Dispatch`: the steps of a Temporal run are weakly fair, since
Temporal fires timers, keeps signals and retries activities; `UnansweredEscalates` and
`OfferIsDecided` name the outcome of an activity whose attempts were used up. Handlers are not fair: they may die. The one exception is
`SwapVehicle`: its transaction holds the job's row lock, and PostgreSQL ends it one way
or the other. `EdgeForwarder`: the tasks of the agent keep running, and Kafka, tried
again and again, in the end confirms a whole chunk (strong fairness on that
outcome: without it no drain can be promised). `TelemetryIngest`: the loop keeps
running and the group assigns the partition in the end. The database need not ever
answer: `Insert \/ InsertFails` is fair, `Insert` alone is not.

## What is proved

For all values of the constants, from the named assumptions of the modules.

**Fares** (`FareTypeProofs`, `FarePaymentProofs`, `FareContractProofs`; assumptions
`FareAssumption` and `GuardedAssumption`: the operator's and the funding account
are unguarded and distinct, amounts are positive):

- `TypeCorrect`: `Spec => []TypeOK`;
- `SettledFaresPosted`: `Spec => []SettledFareIsPosted`;
- `RefundTotalsBounded`: what is recorded as refunded is within the charge;
- `FarePaymentImplementsContract`: `Spec => ImplementsContract`.

`SettledFareIsPosted` is not inductive: the commit writes what the handler
remembers. `IndInv` adds `PaymentsBacked` (from the posting on, a request that
is not failed stands for a transfer in the ledger, and its row is not yet
committed), `KeysOwned` (an uncommitted row is the only one of its key),
`UniqueIds` (no two transfers with one id), `RefundsBounded` and `RefundsFit` (a
refund in flight fits into the charge of its payment). The steps are proved
action by action: `TellerStep`, `CommitStep`, `UpdateStep` and
`RefunderStep`, with `RowsFrame` and `RequestEnds` for the rest. The refinement maps
`paid[k]` to the amount of the only transfer with the key's fare id and `fare[k]`
to the recorded row; `PostFareSimulates`, `CommitSimulates` and
`UpdateSimulates` are the visible steps, `Invisible` covers the others.

**Dispatch** (`DispatchProofs`, for `DispatchSpec`; assumption `DispatchAssumption`: no
job of the desk belongs to a charter, and there are finitely many vehicles):
`NobodyIsBookedTwice` is `[]NoDoubleBooking`, `CancelledCharterHoldsNothing` is
`[]CancelledCharterIsFree`. The overlap check of a request is stale by the time it writes,
so neither rests on it. `JobsApart` says that any two active jobs differ in driver and in
vehicle whatever their windows, which is what the partial unique indexes enforce at every
insert and swap. `CharterClosed` says that an active job of a charter stands behind a
confirmed booking; `BooksAlone` (one request at a time books a charter, and only one
that is not booked) keeps a late `BookCharter` from reviving a cancelled one.

**Incidents** (`IncidentProofs`, for `IncidentsSpec`; assumption `TypesAssumption`: the types
opened by hand have a floor): `EmergencyIsKept` is `[]EmergencyHolds`, `SeveritiesOnlyRise` is
`IncidentsOnlyEscalate`, `DeliveriesAreReceived` is `[]DeliveredWasReceived`. The handler
puts the station in emergency from a severity it remembers, so the invariant adds
`JudgesItsIncident` (the row is still at least that severe, at that station) and
`GuardsAreCritical` (an incident that guards its station is critical, so
`CheckRestore` counts it), and `ReopensUnguarded`: a restore between its snapshot and its
write has no active guarding incident at its station, neither when it starts, since it
counted them, nor later, since an incident does not become one while it is there. The second follows from the frame `RowsEscalate`, proved action by
action. The third needs `AnswersAreTrue`: a sender about to record a success made a request
that the receiver of that row accepted.

**Depot** (`DepotProofs`, for `DepotSpec`): `OneOpenOrder` is
`[]OneOpenOrderPerPrediction`, `CommittedWasAttempted` is `[]CrashLosesNoRecord`. The
first rests on the shape of the rows and on one fact about the partial unique index: an
insert or a reopening finds no other open order. The second needs that the committed
offset never passes the position, that positions stay within the topic, and that every
record below a position was attempted.

**Audit log** (`AuditLogProofs`, for `AuditSpec`): `AuditChainLinked` is
`[]ChainIsLinked`. The head a writer read stays the head until it inserts, because
nobody else writes while it holds the lock: the inductive invariant says that at most
one writer is between `ReadHead` and `InsertEntry`, and that its `prev` is the hash of
the last entry.

**Onboarding** (`OnboardingProofs`, for `OnboardingSpec`): `CompletedHasAccount` is
`[]CompletedIsProvisioned`. Completion is written from what the agent remembers, so the
invariant says for each point of `provision` what must already hold in Keycloak:
after `CreateUser` the account exists, after `AssignRealmRole` it has the role unless
`revoked`, after `SendActionsEmail` it was mailed. Accounts are never deleted and a
role only leaves through `revoked`, so other agents cannot undo it (`AccountsGrow`,
`RequestsGrow`, `StepKeeps`).

Only model-checked: what sums over sets (`SettledWithinCap`, `RefundsAreBacked`,
`PointsFollowPayments`, `StockAccounted`, `TradesAreBacked`, `InvoicesAddUp`,
`SpendWithinBudget`, `PointsSpentOnce`: what such a sum computes needs induction over
data, which the prover does not have), `PlansAreEarliest` (a property of an algorithm, checked
over all small inputs), everything about liveness, and the properties of the remaining modules.

## Where the code and its comments part

Beside the two runs above, modelling met these. Unless the row says otherwise each is
what the modules do; the properties are stated so that they hold with them, and where a
property names the exception, dropping it from the property makes TLC show the trace.

| where | what happens |
|---|---|
| `payments.go:247` | a ride refunded in part is no longer 'settled' and no longer counts towards the daily cap |
| `payments.go:340` | a retry after a death behind the posting, priced differently, is refused by the ledger and recorded 'failed', with the wallet debited |
| `trading.go:270` | a trade cancelled while it is posting is executed all the same: the last UPDATE has no condition on the status |
| `queue.go:121`, `:329` | two joins to an empty queue may both be served at once; a lost promotion leaves waiting buses and nobody served until the next one leaves; a bus that leaves from the waiting line also promotes one |
| `incidents.go:265` | "Signal the workflow so it closes": an incident filed by hand has no run, so the signal starts one, which waits for a leak signal that never comes |
| `incidents.go:185` | "flips a station back to 'online' when its last open critical incident resolves": the NOT EXISTS is judged on the UPDATE's snapshot; a critical incident recorded behind it, whose handler still finds 'emergency', is open when the station goes online. Setting `guarding` without `~Reopening` shows it |
| `workflows.go:101` | an escalation whose report is lost is repeated and raises the severity by two; one whose five attempts fail is not made up for |
| `workflows.go:178` | "on DispatchAcceptTimeout without an accept the job is requeued": after five failed attempts the run ends and the job stays assigned. `OfferIsDecided` without its second disjunct shows it |
| `maintenance.go:56` | "ON CONFLICT DO NOTHING make replays and redeliveries safe": the clause does not imply the predicate of the index in `0007_wave4_business_rules.sql:42`, so PostgreSQL refuses the INSERT, no order is created from a prediction, and the record is skipped |
| `dispatch.go:166` | the day's hours are read outside the transaction: two requests can pass the limit together |
| `consumers/drt.go:97` | a vehicle validated for a ride may be booked for a job or another ride before it is written |
| `depot.go:302`, `advertising.go:183` | 'closed' and 'ended' are final in the transition tables ("ended is terminal", `advertising.go:142`), but a transition checked earlier still overwrites them |
| `ledger.go:141` | `EnsureAccount` refuses an account that exists under another code, and 2001 is used with more than one; not modelled, since accounts carry no code |
| `passenger.go:248` | "the next n upcoming departures (from now)": the search starts a minute earlier, so a bus that has just left is offered, and a request in the first minute of a day gets nothing; on a server whose clock is not UTC the second leg of a transfer follows the timetable of the UTC day |
| `onboarding/store.go:226` | a request that expired while its approval was in flight is overwritten |
| `carbon.go:106` | "uncommitted → redelivered": the next record's commit covers it, so it is redelivered only if the process restarts first |
| `forwarder.rs:263` | Kafka confirms the second of two drained records; the first is taken off the spool |
| `source.rs:107` | "this file is only a resume hint": every 64th offset is durable before the records it covers; a death loses what was in the channel, the batch or an unfinished flush. `NoRecordLost` in place of `OnlyHintsLose` shows it |
| `pipeline.rs:122`, `:68` | a poison record commits past valid records still buffered; records that arrive before the toggle's first answer are dropped and a later batch commits past them |

## Not modelled

- Numeric services (prediction, routing, carbon accounting, ML), read-only endpoints,
  reports, feeds, the ETL and the clients: no protocol to check.
- Authentication beyond the key cache; rate limits; CRUD over single rows.
- Erasure of a rider's data: one transaction of seven UPDATEs that replace the rider's
  name. No property here relates the two names, so a payment in flight that commits under
  the old one is listed as a hazard only.
- The evidence pack checks that consecutive rows of an entity's slice of the audit log
  link to each other; a slice is not contiguous in general. It only reads.
- Allocation of account numbers (`payments.go:456`), the temporary file of
  `store_offset`, the OCPP gateway's connection state, the digital twin's Redis state:
  hazards or parts in `PROJECT.json`, with the reason.
- Published events and notifications are best effort in the code and left out, except
  where a consumer here reads them.
