---------------------------- MODULE TrialController ----------------------------
(***************************************************************************)
(* The trial controller, scripts/run-experiment.mjs: one invocation runs   *)
(* the selected trials one after another, each against a freshly started   *)
(* Compose project, and leaves a directory of evidence per trial.  The     *)
(* controller awaits at every step and may be killed there; Docker, the    *)
(* load generator, the system under test, the fault timer and operators    *)
(* act in between, and a second invocation, with or without --resume,      *)
(* finds whatever the first one left.                                      *)
(*                                                                         *)
(* The system under test is what the controller can see of it: whether the *)
(* transfers a generator created are open, settled or told, and whether    *)
(* background tasks are running.                                           *)
(***************************************************************************)
EXTENDS FiniteSets, Naturals

CONSTANTS
  Condition,     \* Condition[r]: "R-A" or "K-A", for every trial r of the matrix
  Scenario,      \* Scenario[r]: "none", "adapter-crash" or "database-delay"
  MaxLaunches,   \* bound: invocations of the controller
  MaxFaults      \* bound: failed calls, kills, intruders and lost callbacks

Runs == DOMAIN Condition
Coordinators == {"R-A", "K-A"}
Faulty == {"adapter-crash", "database-delay"}

ASSUME TrialAssumption ==
  /\ Runs \subseteq Nat /\ IsFiniteSet(Runs) /\ Runs # {}
  /\ Condition \in [Runs -> Coordinators]
  /\ Scenario \in [Runs -> {"none"} \union Faulty]
  /\ MaxLaunches \in Nat /\ MaxFaults \in Nat

VARIABLES
  step,        \* where the controller is; "off" when no controller runs
  keep,        \* KEEP_SERVICES of this invocation
  queue,       \* trials this invocation has still to start
  run,         \* the trial under way (or the last one)
  timer,       \* scheduleFault(): none, armed, injected, done, broken, cancelled
  dir,         \* dir[r]: the evidence directory of trial r
  index,       \* run-index.jsonl, as a set of <<trial, status>>
  containers,  \* containers of the Compose project
  active,      \* injected faults that have not been cleared
  sampled,     \* containers seen by the Docker stats collector in this trial
  work,        \* work[o]: transfers in the database created by generator o
  tasks,       \* generators whose transfers a background task is processing
  tainted,     \* history: trials disturbed from outside while being measured
  launches, faults

controlVars == <<step, keep, queue, run, timer, launches>>
evidenceVars == <<dir, index, tainted>>
systemVars == <<containers, active, sampled, work, tasks>>
vars == <<controlVars, evidenceVars, systemVars, faults>>

Generators == {"warmup", "measurement"}
Outcomes == {"open", "untold", "done"}
NoWork == [o \in Generators |-> "none"]
EmptyDirectory == [by |-> 0, status |-> "none", fault |-> "none",
                   verdict |-> "none", error |-> "none"]

Init ==
  /\ step = "off" /\ queue = {} /\ keep = FALSE
  /\ run = (CHOOSE r \in Runs : TRUE) /\ timer = "none" /\ launches = 0
  /\ dir = [r \in Runs |-> EmptyDirectory] /\ index = {} /\ tainted = {}
  /\ containers = {} /\ active = {} /\ sampled = {}
  /\ work = NoWork /\ tasks = {} /\ faults = 0

Fault == faults < MaxFaults /\ faults' = faults + 1
Note(r, field, value) == dir' = [dir EXCEPT ![r][field] = value]

-------------------------------------------------------------------------------
(* Containers and what is known of a trial *)

\* resourceServicesFor(): the coordinator of the trial's condition (with its
\* gateway, and its broker) and the services both conditions share.
Services(r) == {"shared", "adapter", Condition[r]}

Running == containers \ (IF "adapter-crash" \in active THEN {"adapter"} ELSE {})

\* Mutant: only missing services are looked for.
NothingMissing(r) == Services(r) \subseteq Running

\* assertRunIsolation(): exactly the trial's own services are running.
Isolated(r) == Running = Services(r)

\* The drain condition on telemetry: no pending transfer or outbox row and no
\* background task.
TasksDone == tasks = {}
Quiet == tasks = {} /\ \A o \in Generators : work[o] # "open"

\* qualifyRun(): the gates that make a trial's evidence valid.
Gates(r) ==
  /\ sampled # {}
  /\ sampled \subseteq Services(r) \union {"measurement"}
  /\ Scenario[r] # "none" => dir[r].fault = "completed"

Valid == {"SAFETY_FAILURE", "CENSORED", "PERFORMANCE_FAILURE", "QUALIFIED"}

Verdict(r, loadDelivered, safe, outcome) ==
  IF ~(Gates(r) /\ loadDelivered) THEN "INVALID"
  ELSE IF ~safe THEN "SAFETY_FAILURE"
  ELSE CASE outcome = "open"   -> "CENSORED"
         [] outcome = "untold" -> "PERFORMANCE_FAILURE"
         [] OTHER              -> "QUALIFIED"

\* terminalEvidenceExists(): what --resume skips.
Terminal(r) == dir[r].verdict # "none" /\ dir[r].error = "none"

\* Mutant: the verdict outranks the controller's error.
SummaryVerdictFirst(r) ==
  IF dir[r].verdict # "none" THEN dir[r].verdict
  ELSE IF dir[r].error # "none" THEN "FAILED" ELSE "INCOMPLETE"

\* summarize-experiment.mjs
Summary(r) ==
  IF dir[r].error # "none" THEN "FAILED"
  ELSE IF dir[r].verdict # "none" THEN dir[r].verdict ELSE "INCOMPLETE"

-------------------------------------------------------------------------------
(* Launching, and choosing the next trial *)

Goto(s) == step' = s
Stop == step' = "off" /\ queue' = {} /\ UNCHANGED <<keep, run, timer, launches>>
Only(s) == Goto(s) /\ UNCHANGED <<keep, queue, run, timer, launches>>

\* The command line selects trials; --resume drops those already terminal.
Launch(selected, resume, kept) ==
  LET chosen == IF resume THEN {r \in selected : ~Terminal(r)} ELSE selected IN
  /\ step = "off"
  /\ launches < MaxLaunches
  /\ chosen # {}
  /\ launches' = launches + 1
  /\ keep' = kept
  /\ queue' = chosen
  /\ Goto("next")
  /\ UNCHANGED <<run, timer, evidenceVars, systemVars, faults>>

First(r) == r \in queue /\ \A q \in queue : r <= q

\* Mutant: only a directory with terminal evidence is refused.
RefuseTerminal(r) == Terminal(r)

\* runOne() refuses a directory that is not empty.
Refused(r) == dir[r].by # 0

\* The refusal is thrown outside the try block and ends the invocation.
Refuse(r) ==
  /\ step = "next"
  /\ First(r)
  /\ Refused(r)
  /\ Stop
  /\ UNCHANGED <<evidenceVars, systemVars, faults>>

Stage(r) ==
  /\ step = "next"
  /\ First(r)
  /\ ~Refused(r)
  /\ queue' = queue \ {r}
  /\ run' = r
  /\ timer' = "none"
  /\ Goto("staging")
  /\ dir' = [dir EXCEPT ![r] = [EmptyDirectory EXCEPT !.by = launches, !.status = "STAGING"]]
  /\ sampled' = {}
  /\ UNCHANGED <<launches, keep, index, tainted, containers, active, work, tasks, faults>>

\* The last trial is done: the summary is written and the process exits.
Finish ==
  /\ step = "next"
  /\ queue = {}
  /\ Stop
  /\ UNCHANGED <<evidenceVars, systemVars, faults>>

-------------------------------------------------------------------------------
(* runOne(), up to the measurement *)

\* docker compose down leaves some containers behind; it may report success.
\* The faults in place go with the containers.
DownLeaves(left, inPlace) ==
  /\ containers' = left
  /\ active' = IF left = {} THEN {} ELSE inPlace
  /\ tasks' = IF left \intersect Coordinators = {} THEN {} ELSE tasks

\* stopComposeProject() succeeds only when the project has no container left.
CleanStart ==
  /\ step = "staging"
  /\ DownLeaves({}, {})
  /\ Only("clean")
  /\ UNCHANGED <<evidenceVars, sampled, work, faults>>

UncleanStart(left) ==
  /\ step = "staging"
  /\ Fault
  /\ left \subseteq containers /\ left # {}
  /\ DownLeaves(left, active)
  /\ Only("unstarted")
  /\ UNCHANGED <<evidenceVars, sampled, work>>

\* The database and the proxy come up, a latency fault is removed and the
\* database is reset before any recovery worker can start.
PrepareStore ==
  /\ step = "clean"
  /\ containers' = containers \union {"shared"}
  /\ active' = active \ {"database-delay"}
  /\ work' = NoWork
  /\ Only("prepared")
  /\ UNCHANGED <<evidenceVars, sampled, tasks, faults>>

\* The rest of the project comes up, answers its health checks and runs the
\* configuration of the trial's condition.
StartSystem ==
  /\ step = "prepared"
  /\ containers' = containers \union Services(run)
  /\ active' = active \ {"adapter-crash"}
  /\ Only("up")
  /\ UNCHANGED <<evidenceVars, sampled, work, tasks, faults>>

\* Isolation is verified, the network profile applied, system and callback
\* receiver reset, the manifest written, and the warm-up load started.
StartWarmup ==
  /\ step = "up"
  /\ Isolated(run)
  /\ containers' = containers \union {"warmup"}
  /\ Note(run, "status", "WARMUP")
  /\ Only("warmup")
  /\ UNCHANGED <<index, tainted, active, sampled, work, tasks, faults>>

WarmupEnds ==
  /\ step = "warmup"
  /\ containers' = containers \ {"warmup"}
  /\ Only("settling")
  /\ UNCHANGED <<evidenceVars, active, sampled, work, tasks, faults>>

\* drain() read a quiet system.
WarmupDrained ==
  /\ step = "settling"
  /\ Quiet
  /\ Only("drained")
  /\ UNCHANGED <<evidenceVars, systemVars, faults>>

\* Isolation is verified again and /admin/reset is called: reset() first
\* waits for the background tasks.
StartReset ==
  /\ step = "drained"
  /\ Isolated(run)
  /\ Only("resetting")
  /\ UNCHANGED <<evidenceVars, systemVars, faults>>

ResetDrained ==
  /\ step = "resetting"
  /\ tasks = {}
  /\ Only("truncating")
  /\ UNCHANGED <<evidenceVars, systemVars, faults>>

\* persistence.reset() truncates every table; the recovery timer may have
\* started tasks since.  The trial is then registered.
Truncate ==
  /\ step = "truncating"
  /\ work' = NoWork
  /\ Only("registered")
  /\ UNCHANGED <<evidenceVars, containers, active, sampled, tasks, faults>>

\* The stats collector and the measurement load are started.
StartLoad ==
  /\ step = "registered"
  /\ containers' = containers \union {"measurement"}
  /\ tainted' = IF Running = Services(run) /\ active = {} /\ work = NoWork
                THEN tainted ELSE tainted \union {run}
  /\ Note(run, "status", "STARTING_LOAD")
  /\ Only("clock")
  /\ UNCHANGED <<index, active, sampled, work, tasks, faults>>

-------------------------------------------------------------------------------
(* The measurement and its fault *)

\* k6 publishes its clock marker; scheduleFault() sets the timer.
StartMeasurement ==
  /\ step = "clock"
  /\ timer' = IF Scenario[run] = "none" THEN "none" ELSE "armed"
  /\ Note(run, "status", "MEASUREMENT")
  /\ Goto("measuring")
  /\ UNCHANGED <<keep, queue, run, launches, index, tainted, systemVars, faults>>

Settle(t) == timer' = t /\ UNCHANGED <<step, keep, queue, run, launches>>

\* applyFault(): adapter-crash stops the adapter, database-delay adds latency.
InjectFault ==
  /\ step \in {"measuring", "loaded"}
  /\ timer = "armed"
  /\ Settle("injected")
  /\ active' = active \union {Scenario[run]}
  /\ Note(run, "fault", "injected")
  /\ UNCHANGED <<index, tainted, containers, sampled, work, tasks, faults>>

\* The outage is over: the adapter is healthy again, the latency removed.
ClearFault ==
  /\ timer = "injected"
  /\ Settle("done")
  /\ active' = active \ {Scenario[run]}
  /\ Note(run, "fault", "completed")
  /\ UNCHANGED <<index, tainted, containers, sampled, work, tasks, faults>>

\* A fault controller exits with an error, with the fault in place or removed.
FaultError ==
  /\ timer \in {"armed", "injected"}
  /\ Fault
  /\ active' \in {active \ {Scenario[run]}, active \union {Scenario[run]}}
  /\ UNCHANGED <<evidenceVars, containers, sampled, work, tasks>>

\* The controller awaits the fault, or has a handler on its promise.
FaultBreaks ==
  /\ step \in {"loaded", "cancelling"}
  /\ FaultError
  /\ Settle("broken")

\* While the load is awaited nothing handles the fault's promise: the unhandled
\* rejection ends the process.  No catch or finally block runs, so there is no
\* error record, no index entry and no teardown.
FaultUnhandled ==
  /\ step = "measuring"
  /\ FaultError
  /\ Goto("off") /\ queue' = {} /\ timer' = "none"
  /\ UNCHANGED <<keep, run, launches>>

\* k6 exits with 0 or 99.  MEASUREMENT_DURATION reaches beyond the fault's
\* injection, so only a load cut short ends before it.
LoadEnds ==
  /\ step = "measuring"
  /\ \/ timer # "armed" /\ UNCHANGED faults
     \/ timer = "armed" /\ Fault
  /\ containers' = containers \ {"measurement"}
  /\ Only("loaded")
  /\ UNCHANGED <<evidenceVars, active, sampled, work, tasks>>

\* Mutant: the load's end is not followed by waiting for the fault.
FaultNotAwaited == TRUE

\* await scheduledFault.promise resolves.
FaultSettled == timer \in {"none", "done", "cancelled"}

AwaitFault ==
  /\ step = "loaded"
  /\ FaultSettled
  /\ Note(run, "status", "DRAINING")
  /\ Only("draining")
  /\ UNCHANGED <<index, tainted, systemVars, faults>>

\* Mutant: the timer is cleared and the promise left unresolved.
CancelledUnresolved == IF timer = "armed" THEN "cleared" ELSE timer

\* An error while measuring: a fault that has not started is cancelled and its
\* promise resolved, one that has started is waited for.
Cancelled == IF timer = "armed" THEN "cancelled" ELSE timer

Cancel ==
  /\ timer' = Cancelled
  /\ Goto("cancelling")
  /\ UNCHANGED <<keep, queue, run, launches, evidenceVars, systemVars>>

\* The load exits with an error, or the clock marker never appears.
MeasurementFails == step \in {"clock", "measuring"} /\ Fault /\ Cancel

\* await scheduledFault.promise rejects, with its handler in place.
FaultFailed == step = "loaded" /\ timer = "broken" /\ Cancel /\ UNCHANGED faults

\* The error is rethrown; the load's process is not waited for.
RethrowFailure ==
  /\ step = "cancelling"
  /\ timer \in {"none", "done", "cancelled", "broken"}
  /\ Only("caught")
  /\ UNCHANGED <<evidenceVars, systemVars, faults>>

-------------------------------------------------------------------------------
(* runOne(), after the measurement *)

\* drain() ends when the system is quiet or at its deadline.
EndObservation ==
  /\ step = "draining"
  /\ Note(run, "status", "OBSERVATION_ENDED")
  /\ Only("observed")
  /\ UNCHANGED <<index, tainted, systemVars, faults>>

\* Isolation is verified a last time and the evidence is collected.
CollectEvidence ==
  /\ step = "observed"
  /\ Isolated(run)
  /\ Note(run, "status", "QUALIFYING")
  /\ Only("qualifying")
  /\ UNCHANGED <<index, tainted, systemVars, faults>>

\* qualify-run.mjs writes qualification.json from the evidence: whether the
\* load was delivered and the invariants held, and what became of the transfers.
Qualify(loadDelivered, safe, outcome) ==
  /\ step = "qualifying"
  /\ Note(run, "verdict", Verdict(run, loadDelivered, safe, outcome))
  /\ Only("publishing")
  /\ UNCHANGED <<index, tainted, systemVars, faults>>

Publish ==
  /\ step = "publishing"
  /\ Note(run, "status", dir[run].verdict)
  /\ index' = index \union {<<run, dir[run].verdict>>}
  /\ Only("teardown")
  /\ UNCHANGED <<tainted, systemVars, faults>>

\* Any call of the try block may throw, before the services are started
\* ("unstarted": no teardown follows) or after.
CallFails ==
  /\ step \in {"staging", "clean", "prepared", "up", "warmup", "settling", "drained",
               "resetting", "truncating", "registered",
               "draining", "observed", "qualifying", "publishing"}
  /\ Fault
  /\ Only(IF step = "staging" THEN "unstarted" ELSE "caught")
  /\ UNCHANGED <<evidenceVars, systemVars>>

\* drain() reached its deadline: "Warm-up did not drain; refusing to reset
\* live workflows".
WarmupNotDrained ==
  /\ step = "settling"
  /\ ~Quiet
  /\ Only("caught")
  /\ UNCHANGED <<evidenceVars, systemVars, faults>>

NotIsolated ==
  /\ step \in {"up", "drained", "observed"}
  /\ ~Isolated(run)
  /\ Only("caught")
  /\ UNCHANGED <<evidenceVars, systemVars, faults>>

\* recordControllerFailure(): the first error of a trial stays the primary one.
Recorded(r, error) == IF dir[r].error = "none" THEN error ELSE dir[r].error

RecordFailure ==
  /\ step \in {"caught", "unstarted"}
  /\ Note(run, "error", Recorded(run, "run"))
  /\ Only(IF step = "unstarted" THEN "unstarted-failed" ELSE "failed")
  /\ UNCHANGED <<index, tainted, systemVars, faults>>

\* State and index say FAILED.  After a failed start or teardown the error
\* ends the invocation; otherwise the teardown comes first.
IndexFailure ==
  /\ step \in {"failed", "unstarted-failed", "unclean"}
  /\ Note(run, "status", "FAILED")
  /\ index' = index \union {<<run, "FAILED">>}
  /\ IF step = "failed" THEN Only("teardown") ELSE Stop
  /\ UNCHANGED <<tainted, systemVars, faults>>

-------------------------------------------------------------------------------
(* The teardown, in finally *)

\* An error of the trial is rethrown and ends the invocation.
EndTrial == IF dir[run].error = "none" THEN Only("next") ELSE Stop

TearDown ==
  /\ step = "teardown"
  /\ ~keep
  /\ DownLeaves({}, {})
  /\ EndTrial
  /\ UNCHANGED <<evidenceVars, sampled, work, faults>>

\* The latency is removed, if that works, and the services stopped.
\* "Never start the next trial after an unverified teardown."
TearDownFails(left) ==
  /\ step = "teardown"
  /\ ~keep
  /\ Fault
  /\ left \subseteq containers
  /\ DownLeaves(left, active \ {"database-delay"}) \/ DownLeaves(left, active)
  /\ Note(run, "error", Recorded(run, "cleanup"))
  /\ Only("unclean")
  /\ UNCHANGED <<index, tainted, sampled, work>>

\* KEEP_SERVICES leaves the project up; only the latency is removed, and a
\* failure to remove it is accepted.
KeepRunning ==
  /\ step = "teardown"
  /\ keep
  /\ \/ active' = active \ {"database-delay"} /\ UNCHANGED faults
     \/ UNCHANGED active /\ Fault
  /\ EndTrial
  /\ UNCHANGED <<evidenceVars, containers, sampled, work, tasks>>

\* The controller is killed; containers, and faults in place, outlive it.
Killed ==
  /\ step # "off"
  /\ Fault
  /\ Goto("off")
  /\ queue' = {}
  /\ timer' = "none"
  /\ UNCHANGED <<keep, run, launches, evidenceVars, systemVars>>

-------------------------------------------------------------------------------
(* What goes on around the controller *)

SystemUp == containers \intersect Coordinators # {}

\* A running generator creates transfers; a task takes each one up.
Generate(o) ==
  /\ o \in containers
  /\ SystemUp
  /\ work[o] # "open"
  /\ work' = [work EXCEPT ![o] = "open"]
  /\ tasks' = tasks \union {o}
  /\ UNCHANGED <<controlVars, evidenceVars, containers, active, sampled, faults>>

\* A task ends: its transfers are settled and told ("done"), or settled with
\* an undelivered callback, or still open after a workflow timeout.  A task
\* whose rows are gone writes nothing: every row it would write refers to them.
TaskEnds(o, result) ==
  /\ o \in tasks
  /\ tasks' = tasks \ {o}
  /\ \/ result = "done" /\ UNCHANGED faults
     \/ result # "done" /\ work[o] \in {"open", result} /\ Fault
  /\ work' = IF work[o] = "none" THEN work ELSE [work EXCEPT ![o] = result]
  /\ UNCHANGED <<controlVars, evidenceVars, containers, active, sampled>>

\* The recovery timer takes up open transfers and undelivered callbacks.
Recover(o) ==
  /\ SystemUp
  /\ work[o] \in {"open", "untold"}
  /\ o \notin tasks
  /\ tasks' = tasks \union {o}
  /\ UNCHANGED <<controlVars, evidenceVars, containers, active, sampled, work, faults>>

\* From the load's start until the fault is over, the stats collector runs.
Measuring == {"clock", "measuring", "loaded"}

\* One cycle of the stats collector.
Sample ==
  /\ step \in Measuring
  /\ sampled' = sampled \union Running
  /\ UNCHANGED <<controlVars, evidenceVars, containers, active, work, tasks, faults>>

\* A load no controller waits for any more runs to its end.
StrayLoadEnds(o) ==
  /\ o \in containers \intersect Generators
  /\ step \notin {"warmup", "clock", "measuring"}
  /\ containers' = containers \ {o}
  /\ UNCHANGED <<controlVars, evidenceVars, active, sampled, work, tasks, faults>>

\* The other condition's services are started in the same project from outside.
Intrude(c) ==
  /\ Fault
  /\ "shared" \in containers
  /\ c \in Coordinators \ containers
  /\ containers' = containers \union {c}
  /\ tainted' = IF step \in Measuring THEN tainted \union {run} ELSE tainted
  /\ UNCHANGED <<controlVars, dir, index, active, sampled, work, tasks>>

\* They are stopped again; a trial they disturbed has sampled them by then (the
\* stats collector's cycles are seconds apart, gaps over 5 s are a gate).
IntruderLeaves(c) ==
  /\ c \in containers \intersect Coordinators
  /\ c # Condition[run]
  /\ run \in tainted => c \in sampled
  /\ containers' = containers \ {c}
  /\ UNCHANGED <<controlVars, evidenceVars, active, sampled, work, tasks, faults>>

-------------------------------------------------------------------------------
ControllerStep ==
  \/ \E r \in Runs : Refuse(r) \/ Stage(r)
  \/ Finish \/ CleanStart \/ PrepareStore \/ StartSystem
  \/ StartWarmup \/ WarmupEnds \/ WarmupDrained \/ WarmupNotDrained
  \/ StartReset \/ ResetDrained \/ Truncate \/ StartLoad \/ StartMeasurement
  \/ InjectFault \/ ClearFault \/ AwaitFault \/ FaultFailed \/ RethrowFailure
  \/ EndObservation \/ CollectEvidence \/ NotIsolated
  \/ \E loadDelivered, safe \in BOOLEAN, outcome \in Outcomes : Qualify(loadDelivered, safe, outcome)
  \/ Publish \/ RecordFailure \/ IndexFailure \/ TearDown \/ KeepRunning

Failure ==
  \/ \E left \in SUBSET containers : UncleanStart(left) \/ TearDownFails(left)
  \/ MeasurementFails \/ CallFails \/ FaultBreaks \/ FaultUnhandled \/ Killed

Surroundings ==
  \/ \E o \in Generators : Generate(o) \/ Recover(o) \/ StrayLoadEnds(o)
  \/ \E o \in Generators, result \in Outcomes : TaskEnds(o, result)
  \/ \E c \in Coordinators : Intrude(c) \/ IntruderLeaves(c)
  \/ Sample

Next ==
  \/ \E selected \in SUBSET Runs, resume, kept \in BOOLEAN : Launch(selected, resume, kept)
  \/ ControllerStep \/ LoadEnds \/ Failure \/ Surroundings

Spec == Init /\ [][Next]_vars

\* Loads, background tasks and faults end by themselves, and the controller's
\* calls return.
FairSpec ==
  /\ Spec
  /\ WF_vars(ControllerStep)
  /\ WF_vars(LoadEnds)
  /\ \A o \in Generators : WF_vars(TaskEnds(o, "done"))

-------------------------------------------------------------------------------
Statuses ==
  Valid \union {"none", "INVALID", "FAILED", "STAGING", "WARMUP", "STARTING_LOAD",
                "MEASUREMENT", "DRAINING", "OBSERVATION_ENDED", "QUALIFYING"}

Evidence == [by : Nat, status : Statuses, fault : {"none", "injected", "completed"},
             verdict : Valid \union {"none", "INVALID"}, error : {"none", "run", "cleanup"}]

ControlTypeOK ==
  /\ keep \in BOOLEAN /\ queue \subseteq Runs /\ run \in Runs /\ launches \in Nat
  /\ timer \in {"none", "armed", "injected", "done", "broken", "cancelled"}

EvidenceTypeOK ==
  /\ dir \in [Runs -> Evidence]
  /\ index \subseteq Runs \X Statuses /\ tainted \subseteq Runs

SystemTypeOK ==
  /\ containers \subseteq {"shared", "adapter"} \union Coordinators \union Generators
  /\ sampled \subseteq {"shared", "adapter"} \union Coordinators \union Generators
  /\ active \subseteq Faulty
  /\ work \in [Generators -> Outcomes \union {"none"}]
  /\ tasks \subseteq Generators
  /\ faults \in Nat

TypeOK == ControlTypeOK /\ EvidenceTypeOK /\ SystemTypeOK

\* A trial whose evidence is valid was measured alone: its load started on an
\* empty database with no fault in place, and until the load and its fault
\* were over no service of the other condition ran beside it, whatever earlier
\* trials, failed teardowns, killed controllers or operators left running.
ValidRunWasIsolated ==
  \A r \in Runs : dir[r].verdict \in Valid => r \notin tainted

\* reset() under a running system truncates only transfers that are settled:
\* "refusing to reset live workflows".
ResetSparesOpenWork ==
  [][step = "truncating" /\ step' = "registered" => \A o \in Generators : work[o] # "open"]_vars

\* While a trial drains and its evidence is collected no fault is in place,
\* and the trial had exactly the fault its matrix row schedules.
FaultEndsBeforeDrain ==
  step \in {"draining", "observed", "qualifying", "publishing"} =>
    /\ active = {}
    /\ dir[run].fault = IF Scenario[run] = "none" THEN "none" ELSE "completed"

\* Evidence is written once: a directory stays with the invocation that filled
\* it, and neither its verdict nor its first error is ever replaced, over any
\* number of kills and resumed invocations.
EvidenceIsKept ==
  [][\A r \in Runs :
       /\ dir[r].by # 0 => dir'[r].by = dir[r].by
       /\ dir[r].verdict # "none" => dir'[r].verdict = dir[r].verdict
       /\ dir[r].error # "none" => dir'[r].error = dir[r].error]_vars

\* A trial the index calls FAILED, be it for its teardown only, is FAILED in
\* the summary whatever its qualification says, and --resume does not take it
\* for terminal.
FailedStaysFailed ==
  \A r \in Runs : <<r, "FAILED">> \in index => Summary(r) = "FAILED" /\ ~Terminal(r)

\* Every invocation ends: no trial waits for ever for its load, its fault, its
\* drain or a reset.
InvocationEnds == step # "off" ~> step = "off"
===============================================================================
