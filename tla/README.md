# Volt Platform: TLA+ specifications of the charging core

Volt Platform runs a network of electric-vehicle chargers: chargers speak
OCPP 1.6 over WebSockets to a gateway, drivers and operators act through an HTTP
API, a worker runs periodic jobs, and everything the three processes know is in
PostgreSQL. This directory specifies the parts in which the order of events
decides what is true, model-checks them with TLC and proves the main results
with TLAPS.

Paths below are relative to the repository.

## 1. The system

| component | code | state it keeps | operations |
|---|---|---|---|
| Session domain | `packages/domain/src/session.ts` | none: 13 states and the transition table | `canTransitionSession`, `isSessionActive` |
| SessionService | `packages/csms/src/sessions/session-service.ts` | rows of `sessions.charging_session`, the virtual idTags; between its awaits, the local variables of each call | `requestStart`, `cancel`, `requestStop` |
| TransactionService | `packages/csms/src/sessions/transaction-service.ts` | rows of `sessions.ocpp_transaction`, `connector.current_transaction_id`, the samples, and the sessions again | `startTransaction`, `stopTransaction`, `onConnectorStatus`, `onBoot`, `recordMeterValues`, `expireStartTimeouts`, `closeOrphanTransactions` |
| CommandService | `packages/csms/src/commands.ts` | rows of `ops.command` | `send`: one row, one call to the gateway, one final state |
| OCPP gateway | `apps/ocpp-gateway/src` | the sockets of this pod, `charge_point.connected` and its generation, the queue of calls of each connection | handshake, handlers of the charger's messages, `sendCall`, evictions, drain |
| Gateway client and directory | `packages/gateway-client/src` | a Redis key per connected charger | `register`, `refresh`, `unregister`, `lookup`, `sendCall` |
| Lifecycle, credentials, commissioning, alarms | `packages/csms/src/{lifecycle,credentials,commissioning,alarms}.ts`, `apps/worker/src/jobs/connection-watch.ts` | `assets.charge_point`, its credential, its desired and observed configuration, the open alarms | `transitionLifecycle`, `issueCredential`, `applyTemplate`, `detectDrift`, `setOverride`, `assignTemplate`, `watchConnections` |
| Tariff catalog and resolution | `packages/csms/src/pricing/{tariffs,assignments,snapshot}.ts` | versions and assignments of tariffs, quotes, the snapshot of a session | `publishTariffVersion`, `retireTariffVersion`, `activateScheduledVersions`, `resolveTariff`, `quoteEvse`, `freezeSessionSnapshot` |
| PricingService | `packages/csms/src/pricing/pricing-service.ts` | running cost, calculations, the totals of the session | `onSample`, `settlePending`, `settle`, `recalculate` |
| Tariff engine | `packages/tariff-engine/src/engine.ts` | none | a pure function from a tariff and events to an amount |
| BillingService | `packages/csms/src/billing` | payments, debts, webhook inbox, the block of a driver | `chargeSession`, webhooks, polling, retries, links, reversals, reconciliation |
| Outbox, relay, stream | `packages/events`, `apps/worker/src/jobs/outbox-relay.ts`, `apps/api/src/public/sse.ts` | `ops.event_outbox`; of a client, its last id | append in the writer's transaction, relay at least once, stream of a session |
| Push notifications | `apps/worker/src/jobs/push.ts` | `ops.consumer_inbox`, `driver_notification` | `deliverPushNotifications` |
| Worker | `apps/worker/src` | the last run of each job | a scheduler that never overlaps a job with itself |
| Staff and drivers, API, back office, mobile app, simulators, schemas, infrastructure | `apps/*`, `packages/*`, `infra` | section 5 | |

How they interact. The api calls `SessionService`, which freezes a price, asks the payment
port, writes the session, and has `CommandService` send a RemoteStart or RemoteStop
through the gateway. The charger answers on its own time and reports on its own
initiative: the gateway hands StartTransaction, StopTransaction,
StatusNotification, BootNotification and MeterValues to `TransactionService`, which hands
the readings on to `PricingService`. The worker expires starts, closes orphan transactions,
stops sessions over their limits, settles ended sessions and charges them, follows the validity
of tariffs, watches over connections, and relays and announces the events that all of these
append. No lock spans two of these steps; each is one database transaction, and only row locks
and a few unique indexes and exclusion constraints stand between them.

What is hard. The awaits of `requestStart` and `requestStop` (a cancellation, a
StartTransaction or a sweep may happen there), of the opening and closing of a connection, and of
`bootNotification` and `applyTemplate`; the charger's freedom (repeated,
late and reordered messages, transactions nobody asked for, lost power); a
process that dies between two steps; sweeps racing late answers; and states
which two services write with different guards. `PROJECT.json` lists the hazards
one by one, at their lines.

What makes each part correct:

- sessions: at most one live session per EVSE; a running transaction and a
  charging session always point at each other; closed means closed; a stop is
  always attributed; no start hangs; a lost charger's sessions end;
- gateway: one connection per charger counts, the last; a closed connection
  never marks its successor as disconnected; every call resolves once, and the row of the
  command says what happened;
- charge points: only an approved one is shown and lets drivers charge, CONFIGURED means that the
  charger has the configuration, the offline alarm follows the connection;
- tariffs: one version in force at a time, no gap made by publishing, a driver pays what he was shown
  or what was in force when he asked;
- pricing: the bill is the register's energy, billed idle time was idle all through its grace, limits hold, a
  session is settled once and in the end;
- billing: one transaction of a session takes money; PAID only when money arrived or
  was waived, and then for good; a driver is blocked exactly while he owes; no
  session waits for the provider for ever;
- events: every committed event reaches every publisher at least once; a stream that resumes has
  missed nothing; a driver is notified once.

## 2. The modules

| module | models |
|---|---|
| `SessionDomain` | the states, the table, the groups of states |
| `SessionLifecycle` | abstract: what the platform promises about sessions and EVSEs |
| `SessionStore` | the shared rows, the unique index, `endSession` |
| `SessionService` | `requestStart`, `cancel`, `requestStop`, split at their awaits; the crash of the process in one |
| `TransactionService` | the charger's messages and the two worker jobs, each one database transaction |
| `ChargingSessions` | the two services over the shared rows, the link of the charge point, fairness, the properties, the refinement mapping |
| `GatewayConnections` | the sockets of one charger on several pods, the fenced row, the directory, evictions, drains, deaths |
| `GatewayCommands` | `CommandService.send`, the client's two attempts, the queue of calls of a connection; composes with `GatewayConnections` |
| `PointLifecycle` | the states and the table of a charge point |
| `Onboarding` | the charge point's row, key and alarms, its login and boots, the staff, the worker's watch |
| `Commissioning` | operations on the configuration over `Onboarding`; fairness, the properties |
| `TariffCatalog` | versions: publish, retire, the worker's job, statement by statement |
| `TariffResolution` | assignments, quotes, the price a start freezes |
| `Tariffs` | the two together, the properties |
| `TariffEngine` | the engine, as functions |
| `PricingService` | the cost of one session: readings, states, stop, idle end, settlement, recalculation |
| `BillingRows` | the rows of billing, `applyOutcome`, `registerDecline`, `unblockIfClear` |
| `PaymentGateway` | the provider: charges, verdicts, checkout links, voids and refunds |
| `BillingService` | charge, webhook, poll, waive, block, link and reversal, split at the awaits of the provider |
| `Billing` | the service and the provider together, fairness, the properties, the refinement mapping |
| `Ledger` | abstract: what the platform promises about the money of a session |
| `DriverBlock` | the one pair of database transactions of billing that READ COMMITTED does not serialise |
| `Outbox` | transactions that append, commit and roll back their events |
| `OutboxRelay`, `SessionStream`, `PushNotifications` | the three readers of the outbox |
| `DomainEvents` | the outbox with one of its readers, fairness, the properties |
| `MCChargingSessions`, `MCGateway`, `MCCommissioning`, `MCTariffs`, `MCPricing`, `MCBilling`, `MCDomainEvents` | instances for TLC |
| `ChargingSessions_proofs` | the inductive invariant of the sessions, the safety theorems and the refinement of `SessionLifecycle` |
| `Gateway_proofs` | the inductive invariant of connections, commands and calls |
| `Onboarding_proofs` | onboarding and commissioning |
| `Tariffs_proofs` | the catalog, and the price of a start |
| `Billing_proofs` | the inductive invariant of billing, with every fault, what holds besides while nothing of four named kinds happens, and the refinement of `Ledger` |
| `FiniteSums_proofs` | least numbers, induction over the naturals by them, sums over finite sets in any order |
| `Pricing_proofs` | the session's calculations, and what the engine computes for every tariff |
| `Events_proofs` | the stream, the relay and the notifications |

### Sessions: state and actions

`SessionStore` keeps one function per column that anything reads: `sState`,
`sConn`, `sTag`, `sTx`, `stopBy` of a session; `tState`, `tConn`, `tSession` of a
transaction; `currentTx` of a connector; the set `spent` of invalidated idTags,
the set `interrupted`, and the `link` of the charge point. A row that does not
exist yet has state `"ABSENT"`. A session identity doubles as its virtual idTag
(the code issues one token per session), and a transaction identity stands for
the content key under which a repeated StartTransaction finds its row.

`SessionService` adds what a call remembers between two database transactions: `startPc` says at which await
the `requestStart` of a session is, `stopPc`, `stopTarget` and `claimed` do the same for calls of
`requestStop`. Each await is a step boundary, so the payment's answer, the command's answer, the write that
follows and everything in between interleave freely. The writes are modelled as they are in the code:
`requestStart` sets AUTHORIZED, STARTING and FAILED without looking at the row, and only the unique index can
refuse the first two. Whatever it awaits may throw, and it catches nothing but the missing tariff:
`StartThrows` ends the call there and leaves the row as its last transaction did. The busy check and the
INSERT of `requestStart` are one step: the row is REQUESTED, which is not live, so nothing another call checks
can tell the difference.

`TransactionService` has one action per message and per way it can go:
`StartMatched` (a waiting or an expired session), `StartUnsolicited`,
`StartRepeated`; `StopTransaction`, `StopRepeated`, `OrphanStop`; `StatusMoved`,
`StatusUnplugged`, `StatusLost`; `Boot`; `ExpireStart` and `CloseOrphan`. A start
also closes whatever was still running on the connector, and ends its session, in
the same step, as the code does. An illegal transition throws and undoes the
database transaction, so it is a disabled action. The worker's two
jobs close their rows in one database transaction; the model closes them one at a
time, which allows every order the code allows and more.

Left out of the rows: remote command ids, anomaly marks, alarms, events and audit; meter samples and
energy are in `PricingService`. SETTLED and PAID are in the vocabulary but are
reached by pricing and billing only. The outcomes of commands are inputs here; `GatewayCommands` says
where they come from.

### Gateway: state and actions

A socket is a number, in the order in which the pods accepted them. `current` is the registry of
each pod, `host` the pod of a socket, `sock` what its pod knows of it; a pod may still have an earlier
socket open when the charger has come back on another. `rowGen` and `connected` are the columns of the
row, `gen` what a connection remembers of its own number, and `holder`, which no code reads, names the
connection that numbered the row last. `entry` is the directory's key, by the socket that wrote it;
`evicting` the eviction messages on their way.

`openInPersistence` is split at its awaits (`opening`: the UPDATE, the directory's read, its write, the
eviction, done) and so is `closeInPersistence` (`closing`: `replaced` by a newer socket of the pod or
`closed`, then the fenced UPDATE, then `unregister`; `lost` if the process died or the database failed
on the way). `timer` is the refresh of the entry, which starts after the last of these awaits. Each of
`OpenRowFails`, `DirectoryFails`, `CloseRowFails`, `UnregisterFails`, `Die`, `SenderDies` and a lost
eviction costs one of `MaxFaults`; a failed UPDATE may or may not have been done. `Drain`, `Die` and
`Restart` are the life of a pod.

In `GatewayCommands` a command goes PENDING, looks the pod up, asks it (attempt 1 or 2), gets an
outcome and finishes; each attempt is a `call` of its own, which arrives at the pod, is queued on the
connection the pod has then, goes out alone, and is answered, times out or breaks off with its
connection. The client may give up on a request without stopping the call (`MayAbort`). `onWire`
records the calls the charger has been sent. A `TIMEOUT` and an error answer are outcomes like any
other; the contents of commands are left out.

### Charge points: state and actions

`point` is the row (`life`, `visible`, `connected`, and `quiet` when it has not been touched for the
grace of the watch), `cred` its key, `alarm` the severity of each open alarm. `conn` is the lifecycle
that the charger's connection goes by: the one its login read, and later the one its boot read, which
is what decides on idTags, not the row. The handlers are split where they await the database:
`issueCredential` reads, writes the key, moves the point; a login reads and connects;
`bootNotification` reads, moves PROVISIONED on, compares vendor and model, rejects or warns, answers.
`MovesTo` is `transitionLifecycle`, a transaction with the row locked; where it throws, what the
handler had done stays done. The staff may take any transition of the table and resolve any alarm.
`Drop`, `GatewayDies` and `Restarts` end the connection at any point, and a handler that runs goes on
without it.

`Commissioning` adds the configuration the platform wants and last saw (`row`), the one the charger has
or will have after its restart (`device`), and what it last answered (`reported`, a function on the keys
of the answer: any of them may be missing, and only those it has are stored). `applyTemplate` is:
read, send what differs, restart if some key needs it, read again, and move the point on if nothing that
blocks differs. Any command may be refused, lost, or obeyed with its answer lost. `Bound` limits how
often keys are issued, staff act, operations begin and things die.

### Tariffs: state and actions

A version has its `status` and validity. A call of `publishTariffVersion` reads the time, then locks
its draft and the published versions it finds, then writes; `version`, `call` and `others` say where
it is. A SELECT FOR UPDATE finds its rows when it begins and checks them again when it gets their locks:
the model re-reads the found rows when it writes, which under READ COMMITTED is the same, and lets the
exclusion constraint `tariff_version_no_overlap` refuse what was not found. Two publishers that would
deadlock are two of which one is refused. The worker's job is two statements with one time. `Quote`,
`RequestStart` and the four ways `freezeSessionSnapshot` ends are in `TariffResolution`; between the
request's time and the freeze the payment port is awaited. Scopes are their rank, the specificity with
which they contain the EVSE.

### Pricing: state and actions

`TariffEngine` is the computation of `engine.ts` as a chain of functions: the timeline of the events, the
energy between readings with the stop as authority, cuts at windows, durations and energy thresholds, one line
per element in steps, idle time with grace and maximum, adjustments, taxes by line or by rate, ceiling and
floor, exposure alerts. `PlanSet` and the sets it is made of are the tariffs that `schema.ts` validates; a
limit is net and may have an amount with tax; a reading without a state carries `NoInfo`. Only what the energy
was at an instant and which part of it each element has is kept of the segments. Instants are ticks, a day has
`Day` of them, energy is Wh and money minor units. `PricingService` keeps the set `events` from which
`buildSessionEvents` builds its input, the snapshot `plan`, the session's `phase`, `ended`, `idleEnd` and
totals, and every calculation in `calcs` with the input it was made from. `RecordMeterValues` may come on
time, up to `MaxDelay` late, or after the stop; it stores the reading, overwrites the session's energy and
recomputes the running cost, as the code does. The idle time ends when the connector becomes free or another
transaction starts on it (`EndIdle`), the latter when the charger says, which may be before the stop. `Settle`
waits for the end of the idle time when the tariff charges it and takes the last that was seen of the charger
when it times out; `Recalculate` does nothing for an input it has seen. `Idles` says whether an instant is
idle by the messages alone, and looks at none of the engine's intervals: `IdleIsIdle` compares the two.

### Billing: state and actions

`BillingRows` starts where sessions end: `sState` is ENDED, SETTLED or PAID, `sPay`
is `payment_status`. A payment has its row (`pState`, `pPsp`, `pSession`, and
`pRef` once the provider's reference is stored) and, under the same identity, the
provider's transaction (`psp`, and `via` for one made at a link): the row exists
before the transaction for a charge and after it for a link. `dState`, `dTries`,
`dLink`, `linkValid` and `waivedBy` are columns of the debt of a session, `driver`
is `billing_status`, `inbox` is `webhook_inbox`.

The awaits are states of their own: `callPc` of a `charge()` that has been sent,
`polled` for a row `pollPendingPayments` has in its list (what it read of
`psp_reference` is remembered and may be stale), `linkPc` of a link asked for,
`revPc` of a reversal asked for or answered. Answers, webhooks and polls all go
through the same `ApplyOutcome`, as they do in the code, and may tell any
final status the transaction has gone through (`Reports`): a webhook may be late,
repeated, overtaken or lost. `TechnicalError` and `PollGivesUp` write by id alone, as
the code does.

What a session costs is abstracted to what the guards look at: `Courtesy` sessions
settle at zero or are tests and stay SETTLED and WAIVED on purpose; `Minor` ones have
no driver or are below the minimum and are waived; the rest are charged.
Amounts, currencies, receipts and payment methods are left out: that there is no
method is an action that may always happen. A provider's ERROR is handled like
DECLINED, as `applyOutcome` does. `dTries` counts to one more than the retry
schedule has, where `next_attempt_at` becomes NULL and the worker stops. The poll
leaves a charge that is awaited alone: it lists rows older than 120 s and `charge()` gives
up at 15 s.

Four constants say which circumstances an instance has: `MayFail` (a charge times
out, a process dies in one), `MayOvertake` (a webhook is processed before the
answer to the request it is about), `WaiveDuringCharge` (an operator waives a debt
of which a retry is pending), `ForceUnblock` (an operator unblocks a driver who owes).
`Link = {}` leaves checkout links out. The properties of `billing_faults` hold with all of
them; those of `billing_quiet` need some of them excluded, and section 3 says what happens
otherwise.

Each database transaction is one step. That is exact except where two of them read
what the other writes without a row lock in common: two payments, or a payment and a
decline, of different sessions of one driver. `DriverBlock` takes these two statement
by statement, under READ COMMITTED.

### Events: state and actions

An event's row is locked (its transaction holds the session's row), written (it has its id), committed or
rolled back; `lastId` is the identity column, so ids may be seen out of order. Every event of a
session is appended by a transaction that has locked the session's row first, and in the model a
transaction has one event. A relay claims what is committed, unpublished and not locked by another
(FOR UPDATE SKIP LOCKED), hands it to the publishers one after the other, and marks it; a publisher may
take some of a batch and throw. The stream polls by id, asks whether the session is over when it found
nothing, and may be reopened with the last id delivered. A cycle of the push job claims
each event in `consumer_inbox`, records a notification, adds the ones left PENDING for a minute, sends and
records the answer of Expo; `rings` counts what reached a device and `hurt` remembers the calls whose
answer was not recorded. None of the three readers reads what another writes, so a
behaviour has one of them. Batch sizes and the look-back of the push job are left out: a cycle takes less
than the minute, and faults end within the hour, after which a PENDING notification is given up.

## 3. What TLC checks

| run | instance | shows |
|---|---|---|
| `sessions_safety` | 3 sessions, 2 transactions, 1 connector, 1 card, 1 stop call; crashes, errors and cancellations (3.3 million states) | no two live sessions on the EVSE; sessions, transactions and connectors agree; every move is in the table, cancellation aside; closed transactions are final |
| `sessions_live` | 2 sessions of one driver, 1 transaction, 2 connectors of one EVSE, a user's stop and the sweep's; fair; starts may throw; no cancellation during a start, no crash of a stop | no start hangs, unless its call broke off while AUTHORIZED; the sessions of a charge point lost for good end; a reserved attribution is held by a call in flight; the services implement `SessionLifecycle` |
| `sessions_start_refused` | 2 sessions, 1 card | *violated*: StartTransaction is not always accepted |
| `gateway` | 2 pods, 2 sockets, 1 fault, 1 command, a queue of one (2.8 million states) | only its own close takes a connection's mark away; the row of a command says what happened; a repeated command changes connection |
| `gateway_live` | 1 pod, 2 sockets, no faults, requests given up (0.4 million states); fair | the queue is counted and bounded; stale entries run out; the last disconnection is recorded; every command gets a verdict |
| `commissioning` | 1 charger and 1 boot handler, 1 key issued, 2 acts of the staff, 1 operation, 1 fault; 1 configuration key that takes a restart and may be missing from any answer, 2 values (1 million states); fair | only an approved point is shown or lets drivers charge; CONFIGURED agrees with the last answer of the charger, whichever keys it has; the offline alarm follows the connection |
| `tariffs` | 1 tariff, 3 versions, 2 publishers, 1 retirement, 2 instants, PUBLIC and INTERNAL starts (1.4 million states) | one version in force; publishing leaves no gap; the price is the one shown or the one in force |
| `pricing` | 2 readings up to one tick late, 1 change of state, stops up to tick 3 of 4; tariffs `Tiers` and `Parking`, snapshot frozen or missing (0.5 million states); fair | the energy billed is the register's; what is billed as idle was idle by the messages, all through the grace; the limits hold; the final calculation is current; the running cost does not fall; what ended is priced |
| `billing_faults` | 1 session, 2 payments, 2 links; all four circumstances (0.6 million states); fair | PAID is earned and final; nothing but an overtaken answer reopens a verdict, and not a success; payments and sessions agree; nobody stays AUTHORIZED; a settled session is paid or its retries run out |
| `billing_quiet` | 4 sessions of one driver, one of them courtesy and one minor, 2 payments, 2 reversals; none of the four, no links (0.7 million states) | billing implements `Ledger`; a session takes money once; the driver is blocked exactly while one is owed |
| `driver_block` | 2 payments of one driver | *violated*: both debts are paid and the block stays |
| `events` | 3 events, two of them of the session; 2 relays and 2 publishers, or a stream, or 1 pusher; 1 fault (0.25 million states); fair | streams have no gap; every event reaches every publisher; a notification left pending is answered; it rings twice only after a lost answer |

Why the bounds are enough. Sessions: the hazards are between pairs of actors on one EVSE. Three sessions give
a displaced one, a waiting one and an unsolicited one at the same time; two transactions give the one that was
never stopped and its successor; a user's stop call against the charger's own stop and against the sweep's
give every race of the attribution. Gateway: two sockets are a connection and its successor, on one pod or
two; the command has its two attempts, and with a queue of one a call left over is felt at once. Charge
points: two acts of the staff and one of every other actor are enough to approve a point and take it out of
service while a boot, a login, a key and an operation that read it earlier are under way; one slow key is what
the second reading of `applyTemplate` is for. Tariffs: three versions are one in force and two that compete to
follow it. Pricing: two readings and a stop give every order of three values of the register, late and going
back; the day of four ticks has its midnight, both windows and every duration of the two tariffs inside the
session. Billing: two payments are a charge and its retry, or a charge and a link; two links are one and its
replacement; two sessions of a driver are a debt that is paid while another stays; two reversals are one and
its repetition. How often a debt is tried again matters to the fair run only, whose `Retries` is 1; the other
one, where retries may be forced at any time, has 0. Events: two of the session are a pair whose ids and
commits may cross, a third is of somebody else; one fault at a time is what the retries are for. Identities
are fresh and never reused, so larger instances add repetitions of these encounters. The theorems below remove
the bounds altogether for most of the safety properties.

Deadlock is checked for sessions and for the two billing runs. The others set `CHECK_DEADLOCK FALSE`
because what they count is used up: sockets and commands, calls and time, budgets, events, two transactions.

Fairness. `FairSpec` of `ChargingSessions`: each call that awaits is eventually resumed (the payment port and
`CommandService` answer, time out or throw; that a start ends well is not assumed), the scheduler runs
`expireStartTimeouts` and `closeOrphanTransactions` again and again, and time passes for a charge point that
stays away. Nothing is assumed of drivers, of the charger or of its connection. `FairSpec` of `Billing`: a
`charge()` returns or times out, or its process dies; the provider decides what it took, and if asked again
and again it answers with its decision once (strong fairness of `PollAnswered`, the only one); the worker's
jobs run again and again (`apps/worker/src/main.ts` schedules them unconditionally). No webhook is assumed to
arrive. A finite set of payments also means that technical errors do not go on for ever: when the last payment
is used up what is due ends in `NoPaymentMethod`, which counts retries. Gateway: the statements and Redis
commands of an opening or a closing return, an entry nobody refreshes runs out (its time to live), a request
comes back or is given up, and a call leaves the queue (the pod's own timeout). Nothing is assumed of the
charger, of evictions, drains or restarts. Commissioning: the watch runs again and again, the grace of a point
that stays untouched passes, and commands are answered or time out. Pricing: time passes, and `settlePending`
comes back for an ended session; `SettleFairness` is weak fairness of `Settle(FALSE)` with its enabling
condition written out. That is fair to one session only: `settlePending` takes the oldest 200 that have ended
and its loop catches nothing (`pricing-service.ts:411`, `:471`), so sessions whose settlement throws again and
again hold back those after them, which the model of one session does not show. Events: the scheduler starts
the relay and the push job again and again, and a minute passes.

### Disagreements found

Two are runs. Each of the others is a definition of the module named (or a property above), and the
change of an instance that makes TLC show it is given.

Sessions

1. `requestStart` writes AUTHORIZED (`session-service.ts:148`) and STARTING (`:191`)
   by id alone after awaiting: a session cancelled meanwhile becomes live again,
   with a spent idTag. `domain/src/session.ts:52` and `docs/06…:286` make CANCELLED
   terminal. (`CancelledIsTerminal` in `MCSessionsSafety.cfg`.) `cancel` also writes
   `stop_requested_by`: a revived session charges with a reservation no call will release and the limits
   sweep skips it (`ReservationIsHeld` in `MCSessionsLive.cfg` with `CancelDuringStart = TRUE`).
2. A StartTransaction that arrives while a session of the EVSE is AUTHORIZED, its
   RemoteStart still unanswered, matches nothing and the unsolicited session breaks
   `one_live_session_per_evse`: the charger gets an error, where `docs/adr/0016…:11`
   says it is always accepted. (`sessions_start_refused`.) And AUTHORIZED may last: `requestStart` awaits the command
   (`session-service.ts:177`), the charger's timeout (`:186`) and the transaction of `fail` without a `try`,
   an error of the directory, Redis or the database there leaves the session AUTHORIZED, and
   `expireStartTimeouts` sweeps STARTING only (`transaction-service.ts:623`): it holds its EVSE until somebody
   cancels it, and the charger that did accept cannot start. `docs/06…:298` knows no such end: an AUTHORIZED
   session becomes STARTING or FAILED. (`StartIsResolved` in `MCSessionsLive.cfg` without `BrokenOff`.)
3. `requestStop` sends the command even when its claim took no row
   (`session-service.ts:254`): the sweep may send a second RemoteStop, which
   `pricing/limits.ts:3-4` excludes. (`OneRemoteStopInFlight` as an invariant in
   `MCSessionsLive.cfg`.)

Gateway

4. A command may end CANCELLED although the charger was sent it: its connection broke, or its pod died,
   after the call went out, and the client could not tell. `commands.ts:82` has CANCELLED for what never
   left. (`CancelledNeverSent` in `MCGateway.cfg`.)
5. `unregister` compares the pod only: when a charger reconnects to the same pod, the late close of its
   first connection deletes the entry of the second, and a refresh does not write it again: the charger cannot be
   found until it connects anew.
   `docs/02…:522` and ADR 0013:12 have a connection delete its own. (`LastIsFound` with `Pod = {g1, g2}`,
   `MaxFaults = 0`.)
6. `docs/06…:444` fences commands by `expected_generation`: the column exists
   (`docs/sql/ddl_local.sql:426`) and nothing checks it; and no command is ever SENT. Generations follow
   the order of the UPDATEs, not of the sockets (`gateway.ts:514`), and an eviction closes whatever
   connection its pod has by then (`gateway.ts:843`). A pod that dies leaves `connected` TRUE.
   An error of the directory leaves the command PENDING (`commands.ts:119`; what it does to a start is in 2).

Charge points (as invariants in `MCCommissioning.cfg`)

7. What a driver may do is decided by the lifecycle the connection read at its last login or boot
   (`gateway.ts:271`): a decommissioned point goes on accepting drivers, against `docs/07…:52`
   (`OnlyOperationalBills`), and a point just approved refuses them until it boots again
   (`ApprovedIsServed`).
8. `issueCredential` writes the key without a lock on the point: one issued while the point is
   decommissioned stays (`DecommissionedHasNoKey`; `credentials.ts:53`).
9. A charger that is not the inventory's is REJECTED with a critical alarm, and its next boot overwrites the
   severity with WARNING (`RejectedIsCritical`; `persistence.ts:320`, `alarms.ts:47`).
10. A point may be CONFIGURED with a value nobody read back, against `commissioning.ts:177` ("verificación con
    un GetConfiguration nuevo"). `changeKey` stores what the charger accepted as what was observed (`:360`)
    and `persistObserved` stores only the keys of the answer: one that the second answer leaves out (all of
    them, if it is empty) is without drift on the charger's promise, even if it asked for a restart that was
    refused (`ConfiguredWasReported` with `k \in DOMAIN reported` added to `Verified`). And two operations on
    one point mix: one seeds or overrides a key between the other's reading and its verdict
    (`ConfiguredWasReported` with `Op = {o1, o2}`, two operations).

Tariffs

11. The price of a start is looked up among the versions that are published when the payment port has
    answered: if the one in force at the time of the request has been retired meanwhile, the start is
    refused, against `docs/04…:312` (`StartIsPriced` as a property in `MCTariffs.cfg`).
12. Publishing with an end, or retiring a successor, leaves a tariff without a version in force
    (`docs/04…:67` excludes gaps); `PublishingKeepsPrices` is about publications without an end.
13. Ending something that has not begun always fails on the CHECK `valid_to > valid_from` of the migration
    `1758499200000_tarifas.sql` (lines 34 and 57): a SCHEDULED version cannot be retired (`tariffs.ts:299`), a
    future assignment cannot be ended (`tariffs.ts:385`), and the SCHEDULED → DRAFT of `docs/04…:305` does not
    exist. The notice of `docs/04…:303` is not enforced. A quote outlives the version it was made from
    (`docs/04…:312`), and is stored under the segment of the assignment used (`snapshot.ts:363`) but compared
    with the segment asked for (`snapshot.ts:202`), so a quote that fell back to another segment's assignment
    is ignored.

Pricing

14. A reading that arrives after the stop overwrites `energy_wh` (`transaction-service.ts:837`): the session
    shows another energy than it is billed for (`SessionEnergyIsBilled` as an invariant in `MCPricing.cfg`;
    `docs/06…:1264`).
15. `EnergyAddsUp` needs the stop to be later than the start: a transaction whose stop is not (by the charger's
    clock) is not billed what its register counted, where `docs/04…:659` (TAR 7.2.1) makes no exception.
16. Of `docs/04…:661` (TAR 7.2.5), that the total lies between floor and ceiling, five things are left open. A
    discount of everything and then one of the energy take the energy away twice, and leave a negative total
    before the floor when they are more than 100 % together (`adjustmentFor`, `engine.ts:934`); a fixed
    discount of one dimension after discounts of others may turn into a surcharge; a fixed discount is taxed
    at the rate of the first line, so that over several rates the tax may exceed what is left; tax that is
    rounded line by line may leave a total of −1 under a discount of 100 %; and the schema compares only the
    net amounts of ceiling and floor (`schema.ts:198`), so that a floor with tax may lie above the ceiling.
    The first four are what `NeverNegative` excludes, the last what `LimitsAgree` does (section 4). A reading
    that is interpolated changes the lines of a tariff with two later boundaries, although nothing else
    changed (`engine.ts:1242`, TAR 7.2.4). A StopTransaction that comes after the worker's estimate is
    discarded (TAR 3.7, rule 2). A snapshot made at the settlement is always of the public segment
    (`docs/04…:464`) and, after a replacement, may find no version (`pricing-service.ts:456`). These were
    found reading and proving; the instance of the run does not reach them.

Billing

17. A charge that times out is FAILED and its session NONE (`billing-service.ts:256`), although the provider
    may have taken it; the next charge has a new reference, so both may be approved, against "una sola
    transacción por sesión" of ADR 0002. (`CapturedOnce` in `MCBillingQuiet.cfg` with `MayFail = TRUE`.) The
    same happens with `MayOvertake = TRUE` and three payments (a decline came by webhook, the answer says
    PENDING and makes the payment pending again, as `VerdictIsFinal` allows here and nowhere else, and the
    poll that declines it once more frees the session while a retry is pending), and with a link (`Link =
    {l1}`: the driver pays at the link while a retry is pending).
18. `registerDecline` opens the debt whatever the session is (`:424`): a debt waived while
    a retry is pending comes back with its decline, and the driver of a PAID session
    is blocked with nothing left to charge. (`PaidSessionOwesNothing` as an invariant there, with
    `WaiveDuringCharge = TRUE`.)
19. `createDebtPaymentLink` stores a link over the one before (`:666`); what is paid at the
    first finds no debt and is finished as UNKNOWN_LINK. (`LinkMoneyIsApplied` as an invariant with
    `Link = {l1, l2}`.)
20. `unblockIfClear` under READ COMMITTED: the last two debts of a driver are paid by
    overlapping transactions, each sees the other open, and nobody lifts the
    block. (`driver_block`.)
21. A webhook APPROVED that arrives after the void is applied to the CANCELLED row, which
    succeeds again (`VoidedIsNotRevived` as a property in `MCBillingQuiet.cfg`). A second
    reversal of a payment is refused by `payment_reference_uq` (`pagos.sql:24`)
    after the provider made it, and is on no record (`ReversalIsRecorded` as an invariant there).

Events (as invariants in `MCDomainEvents.cfg`)

22. `push.ts:6` and ADR 0022:15 promise at most one delivery of an event: a call that throws, or a worker that
    dies before it records the tickets, leaves the notification PENDING and it is sent again
    (`RingsAtMostOnce`). What is announced once per session is checked and inserted in two statements: two
    workers may both announce it (`AnnouncedOnce` with `Pusher = {p1, p2}` and `Once <- OfSession`;
    `push.ts:271`).
23. The stream reads the session after the poll that found nothing: the event that ends it may commit in between,
    and the client is told that there is no more without having seen it (`EndIsShown`; `sse.ts:8`).
24. A worker that dies between its claim and the INSERT of the notification leaves the event claimed and never
    notified; published rows are never deleted (`docs/06…:412`); two relays give no order between them.

## 4. What is proved

All for any sets of sessions, transactions, sockets, versions, events and so on, of any size, from the named
assumptions on the constants (`StoreAssumption`, `ServiceAssumption`,
`TransactionAssumption`, `RowsAssumption`, `FaultAssumption`, `ConnectionsAssumption`, `CommandsAssumption`,
`NoneIsNoOutcome`, `CatalogAssumption`, `ResolutionAssumption`, `OutboxAssumption`, `RelayAssumption`,
`OnboardingAssumption`, `CommissioningAssumption`, `EngineAssumption`, `PricingAssumption`), which say no more than
what the constants are. Where a theorem needs more, it is a hypothesis of the theorem and named below.

### Sessions

`ChargingSessions_proofs`, crashes and cancellations included:
`IInv == TypeOK /\ StartPhase /\ StopPhase /\ RowsAgree` is inductive. None of the
invariants is inductive alone: that a charging session has a transaction needs that
the connector names it (a displaced transaction is found through the connector), that a running
transaction has a session needs that live sessions of an EVSE are one (else a
start could steal a session's transaction), and the blind writes of
`requestStart` are harmless only because of `StartPhase`: while a start is in flight
its session has no transaction and is not charging. `RowsAgree` is the conjunction of
these, with what an absent row implies. One lemma per handler shows that the rows
still agree after it (`StartTransactionRows`, `ClosedRows`, `SameRows` for steps that
only move a state, ...); `IInvStep` puts them together.

From it: `TypeCorrect`, `LiveSessionsAreAlone`, `ChargesAreMatched`,
`StopsAreAttributed`, `ClosedTagsAreSpent`, and the action
properties `ClosedTransactionsAreFinal` and `SessionsFollowTheTable`.

`ReservationsAreHeld` assumes `ApiMayCrash = FALSE` and `CancelDuringStart = FALSE` (a call that died keeps its
reservation, and disagreement 1 breaks it otherwise). It needs that a session which does not charge yet is
attributed to nobody (`NotAskedYet`): a session that starts to charge brings no old attribution with it, except
one that a cancellation left.

`ImplementsLifecycle`: with
`CancelDuringStart = FALSE` (disagreement 1 shows it is needed) every behaviour of the
services is one of `SessionLifecycle` under the mapping `state <- sState`,
`place <- [s |-> EvseOfSession(s)]`.

### Gateway

`Gateway_proofs`, with every fault: `GatewayInvariant` is the conjunction of types, the places where an opening
and a closing may be, what registries, entries and evictions may name (`Named`), that the row's generation is its
holder's and is the greatest given, and the same for commands: where an attempt is when its command waits, that
a second attempt follows a first one that ended in something retryable (`Repeating`), that a verdict was on the
wire (`Sending`), and that counters count (`Counted`). Fencing needs the places: the close of the holder is
recorded only once its opening is over, so that its number is the row's and nobody else's. That a
repeated call changes connection needs that the first broke off with its connection, which stays closed. From it:
`GatewayTypes`, `RowIsFenced`, `RefreshesAreAlive`, `GenerationsAreDifferent`, `QueuesAreCounted`,
`VerdictsAreReal`, `RepeatsChangeConnection`.

### Charge points

`Onboarding_proofs`: types; that a visible point is operational; and that whoever holds a billable lifecycle,
be it the connection, a login, a boot or a call that issues a key, holds it of a point approved since
(`NoneBillsBefore`): `Billable` with DECOMMISSIONED is closed under the table, and every holder read it from
the row. Then, for operations one at a time (`OneOp`, disagreement 10 shows it is needed), that what an
operation is about to act upon is what the charger said last of the keys it named (`ReadBack`). From these:
`PointTypes`, `OnlyApprovedPoints`, `CommissioningTypes`, `ConfiguredAgreesWithAnswer`.

### Tariffs

`Tariffs_proofs`: the invariant is types, what a call has found (a call that found the published versions
holds its draft alone, began before now, and what it found are siblings of its version) and that published
versions do not overlap. From it `CatalogTypes`, `OnePriceAtATime`, `PublishingTakesNoPriceAway` and
`PublishedVersionsAreFixed`. `PriceInv` adds the price of a start: what is quoted or frozen was published (and
stays so or is retired, fixed) and had begun when the driver asked (`PricesHaveBegun`), a quote is of a PUBLIC
start (`QuotesArePublic`), and only an INTERNAL one is frozen without a price (`OnlyInternalIsFree`). From it
`TariffTypes`, `DriversPayWhatTheySaw`, `NobodyPaysAheadOfTime` and `NothingElseIsFree`.

### Pricing

`Pricing_proofs`, for every tariff of `PlanSet`, any readings, delays and late stops.
`PInv == Types /\ Recorded /\ Computed` is inductive: the events have one start, nothing before it and a stop
once the session has ended; every calculation is what the engine makes of the input it keeps, of events the session has
had; the totals are those of the last one, and no two have the same input. That a final calculation does not look at
the clock (`FinalIsTimeless`) is what lets `Recalculate` compare inputs. From it `TheLastCostIsInForce`.

The rest is about what the engine computes. `IdleTimeIsIdle`: an instant that is billed as charging lies
before the stop in a state that charges; one billed as idle has its whole grace behind it inside one interval
the engine observed (`GraceTicks`), and every instant of such an interval was idle by the messages: before the
stop the last state told is SuspendedEV (`SuspendedWasTold`), after it nothing has said that the vehicle left
(`ObservedIdles`). `TheEnergyAddsUp`: the reconciled readings are a monotone curve from zero to what the
register counted; the cuts at which it is divided are finitely many, consecutive ones make pieces, and the
thresholds of energy cut a piece again; so every Wh lies in exactly one part (`SplitUnits`), and as what a
part bills is the size of a set of Wh, the sum over the parts is the size of their union. The same sets bound
what an element with thresholds bills. Then the money: what a line, its tax and an adjustment come to, and
what `capLine` makes of them. `TheLimitsAreKept` needs of the tariffs only that ceiling and floor agree
(`LimitsAgree`: both net, or both with tax, in order), and `TheTotalIsBounded`, that nobody is charged less
than nothing, also `NeverNegative`: a floor with tax, no adjustment, or one that cannot outweigh what it is
taken from. Both tariffs of the run are of this kind; disagreement 16 says what happens otherwise.

The cost that runs is what the same functions make of a timeline that ends now, or with the stop: the lemmas about
lines, tax and limits hold for it too, so what the driver sees before the settlement is bounded as well
(`TheRunningCostIsBounded`), and is never something else than an integer (`PricingTypes`).

Sums, the cuts of `Split` and the adjustments of `AdjustmentLines` are recursive functions. The library's
induction takes an operator, which no prover here can instantiate; `FiniteSums_proofs` takes sets instead: a
set of naturals that is not empty has a least element, and from that come induction over a set, that the
recursive sum exists, and that it does not depend on the order in which the elements are picked.

### Billing

`Billing_proofs`, whatever fails and overtakes: `IInv == RowsInv /\ CallsTypeOK /\ CallsLinked` is inductive.
`RowsInv` holds the four properties of the rows and what they need of each other: that a success was approved
(`Approved`; the provider voids only what the platform asked it to, and that is a paid session's), that only a
session not yet paid waits (`Settled`; else the release in `PollGivesUp` could undo a capture), and that a
reversal under way is of a paid session (`Linked`). The lemmas are about the outcomes (approve, decline, void,
nothing), which all sources of news share; each action then only says which of them it is. From it:
`BillingTypes`, `PaidSessionsAreEarned`, `PaymentsMatchSessions`, `NobodyWaitsForNothing`,
`BlocksFollowDebts`, `PaidStaysPaid`. Two facts more (`VInv`) give `VerdictsStay`: while a `charge()` is
awaited its payment is pending, or the webhook of its verdict is in the inbox, also when it is being given
back meanwhile; and no payment is polled whose answer is awaited. So of all that an outcome is applied for,
only the awaited answer can still say PENDING of a payment that has a verdict, and `AlreadyApplied` stops it
if that is a success.

The second half assumes `Quiet`: none of `MayFail`, `MayOvertake`, `WaiveDuringCharge`, and no
links. Then `QInv` is inductive too: a session has one payment pending, and it is being charged or has
its reference (`OnePending`), a decided row tells what the provider decided (`Verdicts`), and one
success of a session still has its money (`OneSuccess`). From it `MoneyIsTakenOnce` and `PaidLeavesNoDebt`.

`ImplementsLedger`, under `Quiet`: every behaviour of billing is one of `Ledger`. The mapping does not look at
what is on record about the money but at what the provider did: `taken` are a session's payments it approved,
`returned` those it voided or refunded, `owed` the open debts, and `bill` is the session's state, a PAID one
without money being FORGIVEN. So an approval the platform has not heard of yet is already a step of the ledger
(`Collect`, in `Decide`), and the proof shows that until the platform hears of it nobody waives, charges again
or owes the session. It takes `QInv` and two facts more (`LInv`): nothing is charged or owed for a courtesy
session, and a reversal has no outcome before its answer.

None of the clauses of `Quiet` can go: a technical error, an
overtaken answer and a link each break `CapturedOnce` (disagreement 17), and the waiver breaks
`PaidSessionOwesNothing` (disagreement 18).

### Events

`Events_proofs`. The stream: what a transaction of the session has written and not committed comes after everything
committed and everything shown, because it holds the session's row; so the cursor has nothing smaller to come
(`StreamsHaveNoGap`). The relay: a batch has reached the publishers counted in `done`, and stays claimed
until it is marked (`PublishedEventsAreTaken`). The notifications, with one pusher: an event that is
not claimed has no notification, one being sent is PENDING, and one that rang and is PENDING outside a cycle is
hurt (`TwiceOnlyIfHurt`).

### Only proved, only model-checked

Proved, and not a property of a run because TLC would only repeat it: that a stop is attributed, that a closed
session's idTag is spent, that an AUTHORIZED session has a pending payment, that a refresh belongs to an open
connection, that generations differ, that retired versions are fixed, that a published event was taken, and
all types.

Only model-checked: liveness (`StartIsResolved`, `LostChargerEndsSessions`, `AuthorizedIsResolved`,
`SettledIsCharged`, `StaleEntryExpires`, `DisconnectIsRecorded`, `CommandIsResolved`, `EndedIsPriced`,
`OfflineAlarmFollows`, `EventsReachEverySink`, `PendingIsAnswered`), which is out of the prover's reach; the
property `RunningNeverFalls`, which holds of the run's tariffs and not of all of them (disagreement 16: a new reading
interpolates what the earlier ones said, and may move energy to a dearer or a cheaper element); `DriverBlock` and
the disagreements, which are counterexamples.

## 5. Not modelled, and the plan

- Back office, mobile app and HTTP API: almost half of the repository's lines. They show state and validate input;
  what they ask for are the operations above. No definition of these modules stands for a line of them.
- Staff and drivers: accounts behind an external identity provider, one-row updates for the most part. Read, and
  worth a module if accounts grow: a change of the phone number while its code is being verified keeps the mark of
  the other number, a binding by id while a driver is anonymised leaves the subject on the anonymised row, a session
  that expired may be reopened by a late StartTransaction after its driver was anonymised, and which payment methods
  are the owner's is checked and then updated.
- Simulators, the synthetic charger, generated schemas, logging and deployment: tools and wrappers.
- The HTTP clients of the payment providers and their emulator: modelled by their outcomes.
- Of billing: registering payment methods, the adjustments after a recalculation; `reconcile` and the authorizer only
  read, and what `reconcile` looks for is what `BooksAgree` says cannot happen.
- Of `PricingService`: previews, simulations, the projection of limits, receipts. Of the engine: days of the week,
  dates, power, labels, and the boundaries that need them. Recalculation reads the states of the session from
  `ops.event_outbox`; here they are in `events` like the rest.
- Of `TransactionService`: idle time as shown, alarms of the meter, the evaluation of idTags, which is a read.
- Of the gateway and the charge point: firmware, diagnostics and data transfer, which are answered without state; the
  lock after failed handshakes, the expiry and bootstrap of keys, `registration_status`, the alarm about the number of
  connectors, read-only configuration keys, the inventory's sites and connectors. A boot that finds
  a mismatch while the staff move the point may fail on the conflict; the offline alarm of a point that
  leaves OPERATIONAL is never resolved, and a pod that dies between the move to REJECTED and its alarm raises none.

The map therefore names about a third of `packages/csms` and of the processes' own logic, and nothing of the interfaces;
what is left of `packages/csms` is types, queries and the JSON that views are made of.

Next, in this order:

1. An abstract specification of the outbox (every committed event reaches every publisher) for its relay.
2. `ChargingSessions` over `GatewayCommands`, so that the answers to RemoteStart and RemoteStop come from the connection
   instead of being inputs; the state space needs a charger that connects once.
3. Payment methods and the adjustments after a recalculation.
