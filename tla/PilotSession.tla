------------------------------ MODULE PilotSession ------------------------------
(***************************************************************************)
(* executePilotSession(): the controller that runs matched pairs of trials *)
(* and keeps its progress in a checkpoint file, pilot-state.json.  A       *)
(* session may pause between pairs, and a later session may resume a clean *)
(* pause and nothing else.  Around it: the operator, signals, failing      *)
(* commands, a killed controller and the host's clock.                     *)
(***************************************************************************)
EXTENDS PilotProtocol, Integers, Sequences, FiniteSets, SequencesExt

CONSTANTS
  MaximumRuns,      \* the protocol's ceiling of recorded runs
  MaximumActive,    \* its ceiling of active time, in units of the clock
  MaxRepetitions,   \* pairs a batch may have
  MaxSessions,      \* bound: sessions of one evidence root
  MaxClock,         \* bound: readings of the clock
  MaxFaults         \* bound: failures, kills, signals and clock corrections

ASSUME PilotSessionAssumption ==
  /\ {MaximumRuns, MaximumActive, MaxRepetitions, MaxSessions} \subseteq Nat \ {0}
  /\ {MaxClock, MaxFaults} \subseteq Nat

VARIABLES
  fixedScope, \* the frozen protocol is complete at MaximumRuns: no search
  at,         \* where the controller is: "idle" when no process runs
  state,      \* the controller's object; the file's contents when it is idle
  saved,      \* pilot-state.json
  locked,     \* pilot.lock exists
  request,    \* the session pause-request.json names, 0 for none
  stopping,   \* the controller got SIGINT or SIGTERM
  trials,     \* runs whose directory exists
  clock, faults

pilotVars == <<fixedScope, at, state, saved, locked, request, stopping, trials, clock, faults>>

NoRun == [batch |-> 0, repetition |-> 0, condition |-> "none"]
Never == -1

\* newPilotState()
NewPilotState ==
  [status |-> "PREPARED", records |-> <<>>, batches |-> <<>>, currentRun |-> NoRun,
   sessions |-> <<>>, activeMs |-> 0, pausedMs |-> 0, startedAt |-> Never,
   activeSince |-> Never, pausedSince |-> Never, pauseRequested |-> FALSE, clean |-> FALSE]

Init ==
  /\ fixedScope \in BOOLEAN
  /\ at = "idle"
  /\ state = NewPilotState /\ saved = NewPilotState
  /\ locked = FALSE /\ request = 0 /\ stopping = FALSE
  /\ trials = {} /\ clock = 0 /\ faults = 0

Pair(run) == <<run.batch, run.repetition>>
Plan(s) == FlattenSeq(s.batches)
RunsOf(records) == [i \in DOMAIN records |-> records[i].run]
Recorded(s) == {r.run : r \in Range(s.records)}

(***************************************************************************)
(* Time.  elapsed() throws when the clock is behind the time it measures   *)
(* from; a time that is not set counts nothing.                            *)
(***************************************************************************)
Elapsed(since, now) == IF since = Never THEN 0 ELSE now - since
ClockAhead(s) == \A since \in {s.startedAt, s.activeSince, s.pausedSince} : since <= clock

\* Mutant: the pause that ends now is not counted.
PausedBefore(s) == s.pausedMs

PausedSoFar(s) == s.pausedMs + Elapsed(s.pausedSince, clock)

BudgetReached(s) ==
  \/ Len(s.records) >= MaximumRuns
  \/ s.activeMs + Elapsed(s.activeSince, clock) >= MaximumActive

(***************************************************************************)
(* Checkpoints a session may start from.                                   *)
(***************************************************************************)
\* No run is under way, the records are the beginning of the plan, and every
\* pair has both of its runs, of one session, or none.
AtPairBoundary(s) ==
  /\ s.currentRun = NoRun
  /\ IsPrefix(RunsOf(s.records), Plan(s))
  /\ \A r \in Range(s.records) : \E q \in Range(s.records) :
       /\ q.run # r.run
       /\ Pair(q.run) = Pair(r.run)
       /\ q.session = r.session

CanStartFresh(s) ==
  /\ s.status = "PREPARED"
  /\ s.records = <<>> /\ s.batches = <<>> /\ s.sessions = <<>>

\* What each session recorded, one after another, is what was recorded.
SessionsMatchRecords(s) ==
  /\ FlattenSeq([i \in DOMAIN s.sessions |-> s.sessions[i].runIds]) = RunsOf(s.records)
  /\ \A r \in Range(s.records) : r.run \in Range(s.sessions[r.session].runIds)

SumOver(n, f(_)) == FoldLeft(LAMBDA sum, i : sum + f(i), 0, [i \in 1..n |-> i])

SessionsMatchBudget(s) ==
  LET n == Len(s.sessions)
      Active(i) == s.sessions[i].activeMs
      Gap(i) == s.sessions[i + 1].startedAt - s.sessions[i].endedAt
  IN /\ \A i \in 1..n : /\ s.sessions[i].status = "PAUSED"
                        /\ Active(i) = s.sessions[i].endedAt - s.sessions[i].startedAt
     /\ \A i \in 1..(n - 1) : Gap(i) >= 0
     /\ s.startedAt = s.sessions[1].startedAt
     /\ s.pausedSince = s.sessions[n].endedAt
     /\ s.activeMs = SumOver(n, Active)
     /\ s.pausedMs = SumOver(n - 1, Gap)

CanResume(s) ==
  /\ s.activeSince = Never
  /\ \A i \in DOMAIN s.sessions : s.sessions[i].endedAt # Never
  /\ s.status = "PAUSED" /\ s.pausedSince # Never /\ s.clean
  /\ AtPairBoundary(s)
  /\ s.sessions # <<>>
  /\ SessionsMatchRecords(s)
  /\ SessionsMatchBudget(s)

(***************************************************************************)
(* The session.  Every change of the object is saved before the next await *)
(* of the controller.                                                      *)
(***************************************************************************)
Save(s) == state' = s /\ saved' = s

Session == Len(state.sessions)

\* The catch block: the session goes on with its cleanup.
Failed(s) == [s EXCEPT !.status = IF stopping THEN "INTERRUPTED" ELSE "REVIEW_REQUIRED"]

Fail ==
  /\ state' = Failed(state)
  /\ at' = "cleanup"
  /\ UNCHANGED <<fixedScope, saved, locked, request, stopping, trials, clock>>

NewSession == [runIds |-> <<>>, startedAt |-> clock, endedAt |-> Never,
               activeMs |-> 0, status |-> "OPEN"]

\* The launch, up to the first save().  MaxSessions bounds the model.
Launch ==
  /\ at = "idle" /\ ~locked
  /\ CanStartFresh(saved) \/ CanResume(saved)
  /\ ClockAhead(saved) /\ ~BudgetReached(saved)
  /\ Len(saved.sessions) < MaxSessions
  /\ Save([saved EXCEPT
       !.status = "PREPARING",
       !.pausedMs = PausedSoFar(saved),
       !.pausedSince = Never,
       !.activeSince = clock,
       !.startedAt = IF @ = Never THEN clock ELSE @,
       !.sessions = Append(@, NewSession),
       !.pauseRequested = FALSE,
       !.clean = FALSE])
  /\ locked' = TRUE
  /\ at' = "prepare"
  /\ UNCHANGED <<fixedScope, request, stopping, trials, clock, faults>>

Prepare ==
  /\ at = "prepare"
  /\ at' = "loop"
  /\ UNCHANGED <<fixedScope, state, saved, locked, request, stopping, trials, clock, faults>>

\* pauseAtBoundary() takes note of a request for this session.
Noticed(s) == [s EXCEPT !.pauseRequested = @ \/ request = Session]

Fault == faults < MaxFaults /\ faults' = faults + 1

\* prepare(), check(), a trial, a save or a write that fails, evidence that already
\* exists, or a signal that was seen.  What the object holds of the broken step is
\* left out: no session starts from it.
StepFails ==
  /\ at \in {"prepare", "loop", "running"}
  /\ IF stopping THEN UNCHANGED faults ELSE Fault
  /\ Fail

\* assertPilotBudget() throws, also when the clock is behind the session.
BudgetStops ==
  /\ at = "loop" /\ ~stopping
  /\ BudgetReached(state) \/ ~ClockAhead(state)
  /\ ~(fixedScope /\ Len(state.records) = MaximumRuns)
  /\ Fail
  /\ UNCHANGED faults

MayGoOn ==
  /\ at = "loop" /\ ~stopping
  /\ ClockAhead(state) /\ ~BudgetReached(state)

\* Mutant: the pause does not wait for the second run of the pair.
PausesAnywhere(s) == s.pauseRequested

\* Mutant: the pause request is only honoured when no batch is open.
PausesBetweenBatches(s) == s.pauseRequested /\ Len(s.records) = Len(Plan(s))

PausesHere(s) == s.pauseRequested /\ AtPairBoundary(s)

Pause ==
  /\ MayGoOn
  /\ PausesHere(Noticed(state))
  /\ Save([Noticed(state) EXCEPT !.status = "PAUSING"])
  /\ at' = "cleanup"
  /\ UNCHANGED <<fixedScope, locked, request, stopping, trials, clock, faults>>

\* The protocol's runs are recorded, or nextPilotStep() asks for no further run.
Decide ==
  /\ at = "loop" /\ ~stopping
  /\ \/ fixedScope /\ Len(state.records) = MaximumRuns /\ Save([state EXCEPT !.status = "COMPLETE"])
     \/ /\ ~fixedScope /\ MayGoOn /\ ~PausesHere(Noticed(state))
        /\ Len(Plan(state)) = Len(state.records)
        /\ Save([Noticed(state) EXCEPT !.status = "COMPLETE"])
  /\ at' = "cleanup"
  /\ UNCHANGED <<fixedScope, locked, request, stopping, trials, clock, faults>>

\* makePilotBatch(): each repetition is a pair, the conditions in either order.
Batches(number) ==
  UNION {{FlattenSeq([i \in 1..n |->
            LET Run(c) == [batch |-> number, repetition |-> i, condition |-> c]
            IN <<Run(order[i]), Run(CHOOSE c \in Conditions : c # order[i])>>])
          : order \in [1..n -> Conditions]}
         : n \in IF fixedScope THEN {MaximumRuns \div 2} ELSE 1..MaxRepetitions}

PlanBatch ==
  /\ MayGoOn /\ ~PausesHere(Noticed(state))
  /\ Len(Plan(state)) = Len(state.records)
  /\ \E batch \in Batches(Len(state.batches) + 1) :
       Save([Noticed(state) EXCEPT !.batches = Append(@, batch)])
  /\ UNCHANGED <<fixedScope, at, locked, request, stopping, trials, clock, faults>>

NextRun(s) == Plan(s)[Len(s.records) + 1]

\* The next run of the open batch is announced and its trial is started.
BeginRun ==
  /\ MayGoOn /\ ~PausesHere(Noticed(state))
  /\ Len(Plan(state)) > Len(state.records)
  /\ NextRun(state) \notin trials
  /\ Save([Noticed(state) EXCEPT !.status = "RUNNING", !.currentRun = NextRun(state)])
  /\ trials' = trials \union {NextRun(state)}
  /\ at' = "running"
  /\ UNCHANGED <<fixedScope, locked, request, stopping, clock, faults>>

WithRecord(s) ==
  [s EXCEPT !.records = Append(@, [run |-> s.currentRun, session |-> Session]),
            !.sessions[Session].runIds = Append(@, s.currentRun),
            !.currentRun = NoRun]

\* Mutant: the record is not saved before the next step.
RecordRunUnsaved ==
  /\ at = "running" /\ ~stopping
  /\ state' = WithRecord(state)
  /\ at' = "loop"
  /\ UNCHANGED <<fixedScope, saved, locked, request, stopping, trials, clock, faults>>

RecordRun ==
  /\ at = "running" /\ ~stopping
  /\ Save(WithRecord(state))
  /\ at' = "loop"
  /\ UNCHANGED <<fixedScope, locked, request, stopping, trials, clock, faults>>

\* The run is recorded, but its evidence is invalid or calls for a review.
RecordRunForReview ==
  /\ at = "running" /\ ~stopping
  /\ saved' = WithRecord(state)
  /\ state' = Failed(WithRecord(state))
  /\ at' = "cleanup"
  /\ UNCHANGED <<fixedScope, locked, request, stopping, trials, clock, faults>>

(***************************************************************************)
(* The finally block.                                                      *)
(***************************************************************************)
Cleanup ==
  /\ at = "cleanup"
  /\ \/ state' = [state EXCEPT !.clean = TRUE] /\ UNCHANGED faults
     \/ state' = [state EXCEPT !.clean = FALSE, !.status = "REVIEW_REQUIRED"] /\ Fault
  /\ at' = "restore"
  /\ UNCHANGED <<fixedScope, saved, locked, request, stopping, trials, clock>>

\* The session's time is added up and a clean pause becomes one; a clock behind
\* the session's start leaves its time out and asks for a review.
Ended(s) ==
  LET active == clock - s.activeSince
      timed == IF active < 0 THEN [s EXCEPT !.status = "REVIEW_REQUIRED"]
               ELSE [s EXCEPT !.activeMs = @ + active, !.sessions[Session].activeMs = active]
      paused == timed.status = "PAUSING"
      status == IF paused THEN "PAUSED" ELSE timed.status
  IN [timed EXCEPT !.activeSince = Never, !.status = status,
        !.pausedSince = IF paused THEN clock ELSE @,
        !.sessions[Session].endedAt = clock, !.sessions[Session].status = status]

\* restore() left a container down.
NotRestored(s) == [s EXCEPT !.clean = FALSE, !.status = "REVIEW_REQUIRED"]

\* restore(), the last save() and the release of the lock; the save may fail.
EndSession ==
  /\ at = "restore"
  /\ \/ saved' = Ended(state) /\ UNCHANGED faults
     \/ saved' = Ended(NotRestored(state)) /\ Fault
     \/ saved' = saved /\ Fault
  /\ state' = saved'
  /\ at' = "idle"
  /\ locked' = FALSE /\ stopping' = FALSE
  /\ UNCHANGED <<fixedScope, request, trials, clock>>

ControllerStep ==
  \/ Prepare \/ StepFails \/ BudgetStops \/ Pause \/ Decide \/ PlanBatch \/ BeginRun
  \/ RecordRun \/ RecordRunForReview \/ Cleanup \/ EndSession

(***************************************************************************)
(* The surroundings.                                                       *)
(***************************************************************************)
\* pause-capacity-pilot.mjs names the session it finds running.
RequestPause ==
  /\ at # "idle" /\ locked
  /\ saved.status \in {"PREPARING", "RUNNING", "PAUSING"} /\ saved.activeSince # Never
  /\ request # Len(saved.sessions)
  /\ request' = Len(saved.sessions)
  /\ UNCHANGED <<fixedScope, at, state, saved, locked, stopping, trials, clock, faults>>

Signal ==
  /\ at # "idle" /\ ~stopping
  /\ stopping' = TRUE
  /\ Fault
  /\ UNCHANGED <<fixedScope, at, state, saved, locked, request, trials, clock>>

\* The controller is killed: neither its finally blocks nor the unlock run.
Killed ==
  /\ at # "idle"
  /\ at' = "idle" /\ state' = saved /\ stopping' = FALSE
  /\ Fault
  /\ UNCHANGED <<fixedScope, saved, locked, request, trials, clock>>

RemoveStaleLock ==
  /\ at = "idle" /\ locked
  /\ locked' = FALSE
  /\ UNCHANGED <<fixedScope, at, state, saved, request, stopping, trials, clock, faults>>

Tick ==
  /\ clock < MaxClock
  /\ clock' = clock + 1
  /\ UNCHANGED <<fixedScope, at, state, saved, locked, request, stopping, trials, faults>>

SetClockBack ==
  /\ clock > 0
  /\ clock' = clock - 1
  /\ Fault
  /\ UNCHANGED <<fixedScope, at, state, saved, locked, request, stopping, trials>>

Next ==
  \/ Launch \/ ControllerStep \/ RequestPause \/ Signal \/ Killed \/ RemoveStaleLock
  \/ Tick \/ SetClockBack

Spec == Init /\ [][Next]_pilotVars

(***************************************************************************)
(* Properties.                                                             *)
(***************************************************************************)
\* assertPilotCanStart(): what the controller saves as a clean pause, after any
\* number of sessions, failures and clock corrections, is a checkpoint it will
\* accept: pairs, session history and time accounts agree.
PausedIsResumable == saved.status = "PAUSED" => CanResume(saved)

\* "Neither budget resets": active and paused time add up to the time since the
\* first session began, so no pause, resume or failure loses or doubles any.
TimeIsAccounted ==
  at # "idle" => state.activeMs + state.pausedMs = state.activeSince - state.startedAt

\* A trial whose result was not recorded (a kill, a failed save, a signal) is the
\* last one of the evidence root: no later session starts another or repeats it.
NoTrialAfterLoss ==
  [][trials' # trials => trials \subseteq Recorded(saved)]_pilotVars

\* Once the controller has noticed a pause request, it starts no run but the
\* second one of a pair.
PauseKeepsPairs ==
  [][\A run \in trials' \ trials :
       state'.pauseRequested => \E r \in Recorded(state) : Pair(r) = Pair(run)]_pilotVars

=================================================================================
