# A verification model of the mobile-money coordination benchmark

The repository runs one synthetic peer-to-peer payment service under two
internal coordination designs: R-A, a REST-style orchestrator, and K-A, a
choreography of Kafka event handlers. Both share the API, the PostgreSQL
store, the provider call and the delivery of results. This directory holds
TLA+ models of that service, TLC configurations that check them on small
instances, and theorems checked by TLAPS for all values of the constants.

Paths below are relative to the repository's `src/` unless they name another
top-level directory.

## 1. Inventory

| Component (source) | State | Operations | What is hard, what must hold |
|---|---|---|---|
| Transfer state machine (`domain/transfer.js`) | state, public status, failure code | `transitionTransfer`, `validateTransferCommand` | a settlement is final |
| Persistence (`infrastructure/postgres/postgres-persistence.js`, `migrations/`) | rows of transfers, accounts, ledger, provider commands and attempts, inbox, outbox, callbacks | `createOrGet`, `transition`, `fulfill`, `fail`, `ensureProviderCommand`, `recordProviderAttempt`, `completeProviderEvent`, `recordCallbackDelivery`, `recoveryCandidates`, outbox marks | callers hold stale records; several workers move one row; ledger, balances and states stay consistent |
| Provider call (`coordination/workflow-steps.js`) | the burst of one worker | `callProvider` | lost and late answers, crashes between effect and record; no value moves without an effect, no unknown outcome fails a transfer |
| Adapter boundary, adapters, provider simulator (`adapters/`, `providers/`, `adapter-server.js`) | the journal: one effect per request key | `execute`, `submit` | a request may take effect after its caller gave up |
| Payment application and callback sink (`application/`) | tasks in flight, callback attempts | `submit`, `get`, `process`, `recover`, `deliver` | stale recovery scans, repeated callbacks; clients are told one outcome |
| REST orchestrator (`coordination/rest-orchestrator.js`) | the record a worker holds | `execute` | two workers on one transfer; the payer's funds gone after the provider accepted |
| Kafka choreography (`coordination/kafka-choreography.js`) | none of its own: inbox, outbox, events | one handler per topic, `execute` | redelivery and duplicates; one event per step, no pending transfer without an event |
| Outbox dispatcher, Kafka event bus (`infrastructure/`) | batch in progress; messages, offsets | `dispatchOnce`, `publish`, `eachMessage` | crash between publish and mark, an abandoned batch |
| Terminal notifier (`infrastructure/terminal-notifier.js`) | waiters of a transfer | `wait`, `notify` | registering, reading, notifying and leaving interleave |
| Work limiter (`infrastructure/work-limiter.js`) | active slots, queue | `run` | a slot is handed over across an await |
| System (`system.js`) | recovery timer | `start`, `stop`, `reset`, `drain` | nothing but the timer resumes failed work; a reset beside work that goes on |
| Audit (`invariants()` in `postgres-persistence.js`) | none: four queries, one after another | `invariants` | the queries see different moments of a running ledger; the verdict of a trial rests on them |
| In-memory prototype (`infrastructure/in-memory-*.js`) | maps of transfers, accounts, entries; topic handlers | the store's operations, `publish`, `reset` | a publish runs whole chains of handlers in its caller; a reset under a request that is still running |
| Pilot session (`experiment/pilot-session.js`, `scripts/capacity-pilot.mjs`, `scripts/pause-capacity-pilot.mjs`) | the checkpoint `pilot-state.json`, the lock, a pause request | `executePilotSession`, `assertPilotCanStart`, `atPairBoundary` | kills, failed saves, signals and clock corrections between any two steps; no trial is lost or repeated, pauses keep pairs, budgets never reset |
| Pilot rate search (`experiment/pilot.js`) | the records of finished trials | `nextPilotStep`, `makePilotBatch` | results contradict each other; the search ends and reports no rate that failed |
| Capacity rule (`experiment/outcomes.js`, `capacity-queue.js`, `queue-observation.js`) | the evidence of one trial, read from a live system | `deriveOutcomes`, `evaluateQueueCapacityRun`, `classifyBacklog`, `describeQueueObservation` | evidence read in parts, half-open windows, lost confirmations; the derived queue is the real one, the rules agree |
| Trial controller and qualification (`scripts/run-experiment.mjs`, `scripts/qualify-run.mjs`, `scripts/summarize-experiment.mjs`, `experiment/compose-lifecycle.js`, `qualification.js`, `controller-diagnostics.js`) | a directory of evidence per trial, `run-index.jsonl`; the Compose project's containers and faults | `runOne`, `drain`, `scheduleFault`, `qualifyRun`, `stopComposeProject`, `terminalEvidenceExists` | containers, tasks, faults and directories outlive a trial, a failure and a killed controller; valid evidence comes from an undisturbed trial and is never replaced |
| Server, gateway, metrics, diagnostics, migrations runner, resource sampling, analysis and reports | | | not modelled, see section 7 |

How they interact: `submit()` inserts the transfer and starts a task
(`process`), which calls the coordinator's `execute()`. R-A's worker takes the
row through its steps itself; K-A's `execute()` only dispatches the outbox and
waits, and the handlers take the steps. Both call the provider through the
adapter boundary outside any transaction and settle with `fulfill()` or
`fail()`. The task then posts the callback. Everything in memory is lost when
the process dies; the rows, the journal and the broker's log are not. The
recovery scan, at the start and on a timer, calls `process()` again for what is
pending or was not reported. An experiment starts one such system per trial: the
trial controller resets it through the API, loads it with k6, breaks it on
schedule, lets it drain and reads its evidence, among it the audit; the pilot
session runs such trials in pairs.

`PROJECT.json` lists the components with their status and the hazards at their
lines.

## 2. Modules

```
TransferContract          what the API promises
     ^ implements
TransferLedger            the store's transactions, any caller
     ^ implements         ^ extended by            ^ extended by
     |             WorkflowSteps                IntegrityReport
     |             callProvider, provider       the audit of a running ledger
     |                    ^
     |             PaymentApplication     submit, tasks, callbacks, recovery, faults
     |                ^             ^                ^
     +--- RestOrchestration  KafkaChoreography   PrototypeChoreography
                                                 K-A in memory, with reset()
TerminalNotifier, WorkLimiter   the two in-memory primitives
     ^ composed by
CompletionPath                  wait() across the handlers, slots and events
PilotSession, PilotSearch       the pilot, over PilotProtocol's conditions
QueueMeasurement                the capacity rule
TrialController                 the trials themselves
```

`*Proofs` modules hold the theorems (section 6), `MC*` modules the values for TLC.

**TransferLedger.** `state`, `command`, `cause` are columns of `transfers`;
`opened`, `opening`, `balance` the `accounts` rows; `entries` the
`ledger_transactions`, each with its two postings. A transaction locks its
transfer row and, when it moves value, both account rows, so it is one action:
`Create` (`createOrGet`), `Transition` (with `AlreadyPast`, the early return,
and `IllegalTransition`, the throw), `Fulfill` with `Post` and `LacksFunds`.
`LedgerNext` lets any caller call any of them at any time: it is the
environment in which the store's own guards have to be enough.

**TransferContract.** Three actions over requests, public statuses and the set
of transfers whose value has moved: `Accept`, `Complete` (in the step in which
value moves) and `Fail`.

**WorkflowSteps.** A worker `<<key, lane>>` is one run of a coordinator. `at[w]`
is its program counter, split at every await; `seen`, `tries` and `heard` are
its locals. `verdict` is `provider_commands.result`, `attempts` the outcomes in
`provider_attempts`, `wire` the requests under way, `accepted` the provider's
journal. `Land` is the provider taking a request, at any time after it was
sent. `ReceiveFailure` covers the timeout (`ADAPTER_OUTCOME_UNKNOWN`), an error
answer (`ADAPTER_ERROR` stands for every code that is not retried) and
`ADAPTER_UNAVAILABLE`, the simulator's switch, which refuses the request;
`ReceiveTornAnswer` a truncated 200.

**PaymentApplication.** Lane `task` is the one background task a transfer may
have (`inFlight`), lane `request` a synchronous `submit()`. `candidates` is a
recovery scan that was read and not yet acted on, `told` what clients were
given, `delivered` the transfers with a delivered callback row. `Throw` is any
awaited database call that rejects, `ProcessDies` a crash and restart.

**RestOrchestration** adds the steps of `execute()`: `StartWork` (a slot of the
limiter), `ReadRecord`, `TakeStep`, `CallProvider`, `SettleCompleted`,
`SettleWithoutFunds`, `SettleFailed`.

**KafkaChoreography** adds `outbox`, `published`, `inbox`, the `broker`'s log,
deliveries `due`, and the dispatcher's `batch` and `sent`. A worker
`<<key, topic>>` is the handler of an event of that transfer and topic; the
consumer runs one per key and topic. Each handler ends in one transaction over
the row, the inbox and the outbox (`TransitionOnce`, `HandlePrepared`,
`HandleCompleted`, ...). `Redeliver` and `Crash` deliver stored messages again.

**IntegrityReport** lets `invariants()` read the ledger while any transaction
goes on: `List`, `ReadEntries`, `CheckConservation` and `CheckAccountPostings`
are its queries, each with the checks that follow it. `rows` is the list of
transfers it has read, `failed` the names of the checks that did not hold;
`settled` (history) says that a transfer completed between the first two.

**PrototypeChoreography** is K-A on the in-memory store and bus. `publish()`
runs the subscribed handlers inside its caller, so a worker's `at` walks through
the topics itself, and two workers of one transfer (a request and recovery's
task) interleave at every await. `Reset` forgets the store in one turn of the
event loop once no background task runs; `retired` are the keys of forgotten
transfers, which no client submits again.

**TerminalNotifier** and **WorkLimiter** are modelled statement by statement
around their awaits, and **CompletionPath** puts them where the program has
them: the handlers of `transfer.prepared` share the slots, one of them (`Mine`)
brings the result of the transfer others wait for, may throw and is delivered
again; the settlement and its notification follow outside the limiter. The
coordinators rest on what is shown here: `StartWork` and `Deliver` that at most
`WorkerConcurrency` run and no slot is lost (`NoSlotWasted`), `Resolve` that a
waiter learns of a settlement (`WaiterIsReachable`, `SettlementIsHeard`).

**TrialController.** `step` is the position of `runOne()` between its awaits,
`queue` the trials still to start, `timer` the state of `scheduleFault()`.
`dir[r]` is what a trial's directory says: the invocation that created it, the
controller's status, the fault's record, the verdict of `qualification.json` and
the error of `controller-error.json`; `index` is `run-index.jsonl`, `Summary`
and `Terminal` what `summarize-experiment.mjs` and `--resume` make of them.
`containers`, `active` faults, `work` in the database and `tasks` belong to the
Compose project, which nothing but the controller's own calls cleans up;
`sampled` is what the Docker stats collector saw. A fault whose own controller
fails (`FaultError`) rejects the promise of `scheduleFault()`: once that is
awaited, the failure is recorded and torn down as any other (`FaultBreaks`);
while the load is still awaited nothing handles it and the process ends
(`FaultUnhandled`). `Intrude` starts the other
condition's services in the same project, `Killed` ends the controller without
its finally blocks, `keep` is `KEEP_SERVICES`. `tainted` is a history variable:
the trials whose measurement was disturbed.

**PilotSession.** `at` is the position of `executePilotSession()` between its
awaits, `state` the object it works on and `saved` the file, which differ
exactly where the code has not saved yet. A run is a record of its batch,
repetition and condition, so that the two runs of a pair are recognised as
`atPairBoundary()` does. `Launch` is the whole prologue up to the first
`save()`; `Pause`, `Decide`, `PlanBatch` and `BeginRun` are the branches of the
loop; `StepFails` is the catch block reached from any await, `Cleanup` and
`EndSession` the finally block. `trials` are the run directories on disk, which
`io.runExists()` reads and nothing ever removes. Around the controller:
`RequestPause`, `Signal`, `Killed`, `RemoveStaleLock`, `Tick`, `SetClockBack`.
`fixedScope` covers calibrations and queue pairs, whose run count is fixed.

**PilotSearch.** One action per answer of `nextPilotStep()` together with the
batch it asks for, whose trials are stable or unstable in any combination. The
records are kept as the sets and counts the function reads off them. It fills
in what PilotSession leaves open in `PlanBatch` and `Decide`, where any batch
may follow any other.

**QueueMeasurement.** A trial from its reset database to its verdict. Transfers
arrive and settle (`Fulfill`, `Fail`, and `FulfillUnconfirmed` when the process
dies before `confirmTerminal()` or a recovery confirms first); `EndDrain`
is `drain()`, and `ReadTelemetry`, `ReadTraces` and `ReadTransfers` are the
requests for the evidence, between which work goes on. `Backlog`,
`CohortComplete`, `QueueAccounting`, `Classify`, `Describe` and `Status` are the
functions of the same purpose. `outstanding` is a history variable: what was
really under way at each boundary.

## 3. Assumptions of the models

- One currency; a key determines its transfer (`idempotency_key` is UNIQUE);
  every transfer has a callback URL and callbacks go over HTTP, as
  `compose.yaml` configures them. Trace, dead-letter and experiment rows are
  left out: nothing reads them back into a transfer's life.
- A commit is atomic and durable; a rejected database call has changed nothing.
  An error after the commit (a lost acknowledgement, a failing
  `confirmTerminal()`) is a `Throw` in the worker's next step, or a redelivery.
- Time is open: a burst's deadline, a waiter's time and the retry delays may
  run out at any moment. So the models cover every setting of those values.
- The provider answers a key with one result, as its journal does, and keeps
  what it accepted.
- The consumer group exists: `fromBeginning: false` may skip what was published
  to a partition before its first committed offset
  (`infrastructure/kafka-event-bus.js:56`); that is listed as a hazard and is
  not modelled. No event meets a state `transitionTransfer` rejects, which
  `OutboxIsTrace` shows, so the handlers have no step for that throw.
- A batch of the dispatcher is published in any order; the code's order is one
  of them.
- Fairness (`FairSpec`): every step of a worker that can be taken, requests
  under way, the recovery scan and, in K-A, the dispatcher's timer and the
  consumer. Node runs timers and resolved promises as long as the process
  lives, every wait on the network has a timeout, and the containers are
  restarted. No fairness is given to clients or faults.

- One controller works on an evidence root: `pilot.lock` is created with an
  exclusive open, and a lock left behind is only removed by hand when no
  controller runs. `io.save()` replaces the file by a rename.
- A request to pause names the session it found, and the controller checks the
  name; the process id it also checks distinguishes nothing further.
- In a trial every fulfilled transfer is reconciled with the provider, which the
  ledger and coordinator models are about; one unit of time is a window, so
  events inside a window are ordered only by their steps.
- `SearchEnds` assumes that the session goes on asking for the next step; the
  session itself is not fair, an operator may stop it for good, and no liveness
  is claimed for it.
- The audit is modelled with one currency and with the two postings of an entry
  as one; the history array of a row, which it also reads, is left out.
- In `CompletionPath` an event is delivered until it is handled, handlers end
  and settlements are notified (`PathFairSpec`); `wait()`'s timer has no
  fairness, since nothing may depend on it.
- Of a trial, the controller's records in `experiment_runs`, the wording of the
  files, the network profile and the contents of the evidence are left out.
  Whether the load was delivered, whether the invariants held and what became of
  the transfers are arbitrary in `Qualify`; so `ValidRunWasIsolated` does not
  rest on them. The gate against a service that is missing from a sample is left
  out too, which makes the property harder.
- An intruding service stays until the stats collector has seen it: samples are a
  second apart and a gap of more than five seconds is a gate of its own. The
  collector has stopped when the drain begins; isolation is then asserted at
  `CollectEvidence` and a service that came and went during the drain alone is
  not found, nor is it claimed to be. A fault's process that outlives a killed
  controller is left out.
- A trial that failed keeps its directory, so a `--resume` that selects it again
  is refused, as `docs/TECHNICAL_GUIDE.md` says. A controller that is killed
  between the index entry of a qualified trial and that of its failed teardown
  leaves QUALIFIED in the index and FAILED in the summary; nothing is claimed
  there.
- `TrialController`'s fairness (`FairSpec`): the controller's calls return
  (health checks and the drain have deadlines, Docker's commands end, and the
  pilot gives a trial 45 minutes in all), k6 ends and background tasks end.
  Kills, intruders and failures have none.

## 4. Runs

`Keys`, `Lanes`, `FailureCodes`, `ClientMode` and the bounds are set in each
cfg. `MaxFaults` bounds lost answers, errors, failed calls, redeliveries and
crashes together; `MaxAttempts` and `CallbackMaxAttempts` the attempts of a
burst (8 and 3 in Compose; two show the first, the repeated and the last one).

| Run | Instance | Shows |
|---|---|---|
| IntegrityReport | 3 keys, 2 accounts, opposite payments, one too large and two invalid commands | ledger, balances and states agree, settlements are final, the contract is implemented, and the audit has one kind of false alarm only |
| RestAsync | 2 keys (one declined), 2 faults, 2 attempts, 1 worker, 2 callbacks | R-A as deployed: saved results are final, explain the settlement, and unknown outcomes alone fail nothing |
| RestLiveness | 1 key with an amount the payer has or has not, synchronous, 2 faults, 2 workers, 2 callbacks | a request beside recovery's task: clients are told one outcome, every accepted transfer is settled and its callback recorded |
| RestUncertain | 1 key, 2 faults | the finding below |
| KafkaDelivery | 1 key, 2 faults, 2 handlers | K-A as deployed: one event per step, a live event while pending, carried results, no call for what is resolved, only the ledger's transactions |
| KafkaLiveness | 1 key with an amount the payer has or has not, synchronous, 1 handler, 1 fault | as RestLiveness, for K-A, and the rolled-back settlement |
| CompletionPath | 2 waiters, 3 Set objects, 5 handler calls on 2 slots, 1 throwing handler | no waiter is cut off, no slot is lost, a settlement is heard |
| PrototypeChoreography | 2 symmetric keys, the payer affords one, synchronous, 1 fault, 2 workers, resets | the ledger stays right, a wait finds a settled transfer, work that outlives a reset leaves nothing |
| PilotSession | 4 trials, batches of 1 or 2 pairs, 3 sessions, 3 clock ticks, 1 fault | a pause can be resumed, time adds up, no trial after a loss, pauses keep pairs |
| PilotSearch | rates 1 to 8 from 4, 1 screening and 2 confirmation replicates, 2 fault scenarios | the search ends, the reported rate was confirmed for both conditions |
| QueueMeasurement | 8 windows (a screening trial), 3 transfers, 1 anomaly, a drain of 1 | the derived queue is the real one, verdicts need settled work, the rules agree on a queue that goes one way or grows from quarter to quarter |
| TrialController | an R-A trial with a database delay and a K-A trial with an adapter crash, 2 invocations, 2 faults | valid evidence is from an isolated trial with its scheduled fault, is written once, failures stay failures, invocations end |

Why these bounds are enough: transfers meet only in the accounts and in the
limiter. Two keys show the pairwise interference of R-A's workers; the race of
two accepted transfers for one payer's money is in PrototypeChoreography, and
any three callers are in IntegrityReport, which lets every transaction run at
any time. In K-A events of different transfers meet nowhere but in the
dispatcher's batch; one key keeps the run within minutes, and what it shows is
proved for any number of them (section 6). Two faults allow a fault during the
repair of another one. Three Set objects let one be detached, one current and
one entered after it; five calls on two slots let three queue. Two trials of
different conditions and two invocations let every left-over of a trial, a
failure or a kill meet a trial it could disturb, and two faults let a failed
teardown follow a failed trial or an intruder a kill. Three sessions allow a
resume of a resumed pilot, and one fault leaves the following session to show
what it does about it. Rates up to 8 make every branch of the search reachable:
doubling, bisection, a resolved and an unresolvable boundary, a boundary that a
failed confirmation moves back, and a grid that rounds two percentages to one
rate. Three transfers are the fewest that make a backlog grow persistently, in
every quarter, and fall again.

Deadlock is not checked in TrialController and PrototypeChoreography: when the
invocations are used up, or every key has been retired, nothing is left to do.

Properties worth knowing: `CompletedOnlyIfAccepted` (no value without the
provider's effect), `FailureIsDefinite` (no number of unknown outcomes fails a
transfer), `OneOutcomeTold` (callbacks, queries and replays agree with the
ledger), `VerdictIsFinal` and `VerdictExplainsSettlement` (the saved provider
result is the one the settlement rests on), `NoCallOnceResolved` (no call for a
settled or resolved transfer, however stale the task), `OutboxIsTrace` and
`PendingHasLiveEvent` (each step leaves exactly one event, and a pending
transfer always has one that is still to work), `EventuallyDelivered`,
`SettlementIsHeard` (a waiter learns of a settlement without its timer),
`AlarmsAreTorn` (what a failing audit of a running ledger can mean); for the
experiment `PausedIsResumable` (the long list of tests in
`assertPilotCanStart()` accepts every pause the controller itself saves),
`TimeIsAccounted`, `NoTrialAfterLoss`, `SharedRateHolds`,
`MeasuredBacklogIsReal`, `RulesAgree` (what the draft rule and the approved
description say of one series), `ValidRunWasIsolated`, `EvidenceIsKept`
and `ResetSparesOpenWork` (a reset truncates no live workflow).

`VerdictIsFinal`, `VerdictExplainsSettlement` and `NoCallOnceResolved` hold in
R-A for asynchronous clients, as all conditions of the experiment are: a
synchronous request is outside `inFlight`, so recovery may run a second burst
beside it and the last result saved stays. In K-A they hold in both modes,
because one handler call works on a transfer at a time. `ImplementsLedger` of
R-A and the safety properties no run of R-A lists are proved (section 6).

`PROJECT.json` pairs every checked property with a mutant of the model, a
plausible bug of the code, that violates it.

## 5. Finding

`coordination/workflow-steps.js:20-21` says "Replay the durable key to
reconcile it; do not turn an uncertain effect into FAILED". `callProvider`
decides from the last attempt alone: when a first attempt timed out and took
effect, and the replay ends in a definite error (a 502 of the adapter service),
the burst saves FAILED and the transfer is failed for good although the
provider holds the effect. `RestUncertain` (`UncertainEffectNotFailed`) shows it
in a trace of 16 states; the same code serves K-A. `docs/ARCHITECTURE.md` states
the same rule ("The deadline bounds retry bursts; it does not reverse an
in-flight or potentially accepted provider effect"). `FailureIsDefinite` is what the code does guarantee.

A second observation, which no run counts as a violation: when a transfer
completes between the audit's list of transfers and its query of entries,
`ledgerMatchesTransfers` fails although the ledger is right. A trial whose work
outlives the drain can so become SAFETY_FAILURE, which `docs/MEASUREMENT.md:33`
reserves for violated invariants, where CENSORED would describe it.
`AlarmsAreTorn` shows that this is the only false alarm.

A third one came from the proof of `RulesAgree`. In a screening trial, of eight
windows, `classifyBacklog()` never calls a series SUSTAINED that
`describeQueueObservation()` calls CONSISTENT_BLOCK_GROWTH_OBSERVED. In longer
ones it can: a confirmation measures 600 seconds, and of the 20 windows

    100 100 100 0 100 | 101 101 101 101 1 | 2 2 2 2 102 | 101 101 103 101 101

the quarters' minima (0, 1, 2, 101) and maxima (100 to 103) rise, while neither
slope is positive and no run of rises is persistent. Extremes say too little about a sum. The repository claims no
agreement beyond what each rule computes, and the approved protocol uses the
description alone (only `scripts/revalidate-capacity-rule.mjs` applies both to one
series, synthetic ones, and counts their statuses), so nothing counts this as a
violation; `RulesAgree` says where the two do agree.

A fourth one is in `TrialController`. `scheduleFault()` returns a promise that
has no handler until `run-experiment.mjs:499`. When the fault's controller fails
while the load at line 497 is still awaited (the adapter does not become healthy
within a minute, say), Node, which no `unhandledRejection` handler tells
otherwise, ends the controller there. `FaultUnhandled` is that step: no
`controller-error.json`, although `docs/TECHNICAL_GUIDE.md:854` says that it
"records runner failures", no FAILED in the index and no teardown; load,
containers and fault stay. The fault is shorter than the load, so this is where
a failing fault usually falls. The trial is INCOMPLETE in the summary. What is
checked and proved covers it: no verdict is written, the directory is kept, no
later trial is valid on what was left.

## 6. Proofs

All from the named assumptions on the constants, for any sets of keys, accounts
and commands, any number of attempts, faults and workers.

- **TransferLedgerProofs.** `LedgerInv`: types, every row's command is valid,
  and `entries` is the image of the completed transfers, which is what makes
  `Post` of a second entry impossible; `NoOverdraft` follows since a payer's
  funds are read in the step that spends them. From it: `LedgerTypeCorrect`,
  `LedgerAlwaysMatches`, `NeverOverdrawn`, `SettledForEver`, and
  `LedgerRefinesContract` step by step. `BalancesAreExplained` is about sums:
  an account's balance is its opening balance and its postings, which needs
  that a transaction adds one entry that was not there, and that an account
  without a row has none.
- **IntegrityReportProofs.** `ListIsPast`: what the audit has listed as completed
  has its entry by the time the entries are read, since entries are never
  removed. So only a completion between the two queries can misfire
  (`EntryAlarmsNeedTornReads`). `ValueIsConserved`: the two postings of an entry
  cancel, and an account that is opened adds to both sides of the sum. With
  `BalancesAreExplained` the other two queries cannot fail at all, and
  `AuditRaisesOneFalseAlarm` follows.
- **RestOrchestrationProofs.** Every step of R-A is a ledger step
  (`NextIsLedgerStep`), so `RestImplementsLedger` and with it
  `RestKeepsContract` and `RestBalancesAreExplained`. `RestInv` adds what a
  worker may know: a saved or heard
  result was recorded as an attempt and, if it is a success, accepted
  (`RecordedOutcomes`, `HeardOutcomes`), and a final status in a worker's hand
  is the ledger's (`SettledRecords`). The safety properties are not inductive
  without it, because a worker settles long after it heard the answer. For
  asynchronous clients `AsyncInv` adds that a request only creates
  (`RequestsOnlyCreate`), so that the task of a transfer is alone with it and
  a burst runs only while nothing is saved (`BurstsAreAlone`):
  `RestVerdictExplains`, `RestVerdictIsFinal`, `RestCallsOnlyUnresolved`.
- **KafkaChoreographyProofs.** The heart is `OutboxFollows`: the outbox of a
  transfer holds the events its state calls for, in order, all of them handled
  (in the inbox) but the last, which is not while the transfer is pending. With
  `SentIsDelivered` (what was sent is handled or still to be delivered, while
  that matters) and `HandlersHoldEvents` (a handler that runs has its event, and
  only that of `transfer.prepared` calls) there is at most one burst per
  transfer, and it runs only while no result is saved (`BurstsAreAlone`). Then
  every step is a ledger step or leaves the store alone, and all of K-A's
  safety properties follow, in both client modes and for any redeliveries,
  crashes and handlers.
- **CompletionPathProofs.** Of the notifier, `DetachedMeansOver` is the heart: a
  Set that is no longer in the map is only held after a `notify()`, when nobody
  waits unwoken. Without it the clean-up of a late leaver, which removes whatever
  entry the map has by then, could cut off a waiter. Of the limiter: the queue
  lists, once each, calls that hold no slot; hence `active` counts the holders
  through every hand-over. `PathRunsItsParts`: every step of the composed path
  is a step of the one and a step of the other, or leaves it alone, so what
  either promises holds on the path (`PathLosesNoWakeup`, `PathLosesNoSlot`),
  with handlers that throw and events that are delivered again.
- **PrototypeChoreographyProofs.** The in-memory store does not implement the
  open ledger: refused funds leave accounts behind, and `reset()` takes
  settlements back. `LedgerInv` holds in it all the same. `ProtoInv` adds what
  a reset leaves in other hands: a worker that is not idle, or a candidate of
  recovery, is of a transfer the store knows or of a retired key, and a settled
  record in a worker's hand is the row or of a retired key. A store's operation
  on a retired key does nothing, hence `PrototypeResetIsClean` and
  `PrototypeTellsOneOutcome`; `PrototypeNeverWaits` because a chain of handlers
  ends only in a settlement, its own or another's.
- **PilotProofs.** `TimeInv` follows the accounts through the file: a
  saved pause is true for the moment it began, so the session that ends it
  starts true, and an object that was not saved is never started from.
  `LossInv` says which trials the records may lack: the one under way and, once
  a session has ended in anything but a pause, any; no later session starts
  from that. From them `PilotTimeIsAccounted` and `PilotNoTrialAfterLoss`.
  `ResumeInv` is about the records themselves: the plan, all batches one after
  another, is made of pairs; the records follow the plan; the sessions' history
  adds up to the records and to the active time, except in the one session that
  is open. So what `assertPilotCanStart()` recomputes from a saved pause is what
  was saved (`PilotPauseIsResumable`), and two records past a pair boundary are
  a pair again (`PilotPauseKeepsPairs`). In the search, `ConfirmedTogether` says
  that where one condition has confirmed a rate the other was tried as often,
  since batches are matched; so the rate that is reported was confirmed for both
  (`PilotSharedRateHolds`).
- **TrialProofs.** Of the controller, `EvidenceInv` relates a directory's
  verdict, error and index entries to the controller's position; `FaultInv` ties
  the timer to the fault in place and its record. `IsolationInv` is the trace a
  disturbance leaves: the foreign service still runs, so that the next assertion
  of isolation fails, or it has been sampled, so that the gate fails.
  `SettledInv` says that nothing is open between the drain and the reset, since
  no generator of work runs there. With them `ValidRunsAreIsolated`,
  `FaultsEndBeforeDrain`, `FailedForEver`, `EvidenceIsNeverReplaced` and
  `ResetsSpareOpenWork`, for any matrix of trials and any number of invocations.
  Of the measurement, `MeasurementInv` says what stays true of evidence that
  was read while work went on (`EvidenceIsTrue`: a settled state or a confirmation
  that was read is still true, while the absence of one need not be), and that
  what was under way at a boundary lies between the transfers whose times prove
  it and those whose times allow it (`OutstandingIsTrue`). Where every confirmation is known the two are one set, and it is the derived
  backlog: `MeasuredBacklogIsTheQueue`, `VerdictsNeedSettledWork`.
  `TheRulesAgree` is about any series of natural numbers: one that never rises
  has no positive slope, and one that rises and never falls has one, window by
  window: no value so far exceeds the last one, so the next window cannot lower
  the slope. The quarters of eight windows have two members, so that their
  extremes are the series.

What sums, flattens or folds is a recursion, and no induction principle can be
instantiated here. Each such lemma takes the smallest counterexample instead: a
minimal set that `WFMin` gives for sums over finite sets, a least number for
those over sequences.

Checked by TLC only: the liveness properties (`EventuallyDelivered`,
`SettlementIsHeard`, `SearchEnds`, `InvocationEnds`), which the provers cannot
reach, with the ENABLED that fairness contains. Every safety invariant and
every action property of the passing runs is the statement of a theorem.

## 7. Not modelled

- The HTTP server and the gateway (routing and parsing), metrics and runtime
  diagnostics (observation), and `migrate.js` (it runs the files of
  `migrations/`, whose constraints the ledger's guards reflect).
- Resource sampling, the analyses, figures and reports: statistics over files
  that are final when they start. The state machine of a trial ends at its
  verdict and its line in the summary.
- Of the in-memory store, seeding, reports and listings, and R-A on it, whose
  steps are those of RestOrchestration without a crash.
- Of the pilot, the stopping and restarting of other approved containers, the
  isolation guard around a session, and the review of saved evidence and
  provenance before a resume (which can only refuse it).
- The graceful `stop()`: what it drains, a crash loses, and the models crash.
- What a consumer group skips before its first committed offset
  (`infrastructure/kafka-event-bus.js:56`); lock
  waits inside a PostgreSQL transaction, among them the unsorted insertion of
  two new account rows
  (`infrastructure/postgres/postgres-persistence.js:284`), which can deadlock and
  is then aborted by the server: a `Throw` here. Each is a hazard with its note
  in `PROJECT.json`.
- The width of `numeric(20,0)`. A longer amount fails at `createOrGet()`'s
  INSERT and leaves nothing behind; a balance overflows only from opening
  balances near its limit.

## 8. Plan

Done: the ledger and its contract, the audit, the provider call, the
application, both coordinators and the prototype, the limiter and the notifier
composed, the pilot session, its search, the measurement of a trial and the
trial controller; proofs of every safety property the passing runs check.

Left:

1. `recoveryTimeSeconds` and `backlogClearanceSeconds` of `deriveOutcomes()`,
   with their censoring, on `QueueMeasurement`'s windows.
2. The offsets of a new consumer group, with `start()` ordered before the first
   publication.
3. The pilot session over the trial controller: a trial's verdict as the record
   `RecordRun` saves.
4. A proof that the pilot session with `PilotSearch`'s decisions implements the
   session with any decisions.
