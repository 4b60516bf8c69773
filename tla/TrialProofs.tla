------------------------------ MODULE TrialProofs ------------------------------
(***************************************************************************)
(* What holds of a trial, of its controller and of its measurement, for any *)
(* matrix of trials, any number of invocations and failures, any number of *)
(* transfers and windows.                                                  *)
(*                                                                         *)
(* The controller: EvidenceInv ties a directory to the invocation that fills *)
(* it, FaultInv follows the fault from its timer to the drain, and         *)
(* IsolationInv keeps a trace of whatever disturbs a trial: it still runs, *)
(* or it has been sampled; SettledInv says what a reset may truncate.      *)
(*                                                                         *)
(* The measurement: MeasurementInv says what the evidence read so far is   *)
(* still true of, and what was under way at each boundary, as far as the   *)
(* transfers' own times now tell it.                                       *)
(***************************************************************************)
EXTENDS TrialController, QueueMeasurement, FiniteSetTheorems, WellFoundedInduction, TLAPS

\* From staging until the verdict is written.
Starting == {"clean", "prepared", "up", "warmup", "settling", "drained", "resetting",
             "truncating", "registered", "clock"}
Observing == {"draining", "observed", "qualifying"}
Unqualified ==
  Starting \union Observing \union {"staging", "unstarted", "measuring", "loaded", "cancelling"}

EvidenceInv ==
  /\ step # "off" => launches > 0
  /\ step \notin {"off", "next"} => dir[run].by # 0
  /\ step \in Unqualified => dir[run].verdict = "none"
  /\ step \in {"failed", "unstarted-failed", "unclean"} => dir[run].error # "none"
  /\ \A r \in Runs :
       /\ dir[r].by = 0 => dir[r].verdict = "none" /\ dir[r].error = "none" /\ r \notin tainted
       /\ <<r, "FAILED">> \in index => dir[r].error # "none"

\* The outage is over, and is the one the matrix asks for.
FaultOver ==
  /\ active = {}
  /\ dir[run].fault = IF Scenario[run] = "none" THEN "none" ELSE "completed"

FaultInv ==
  /\ timer \in {"armed", "injected"} => Scenario[run] # "none"
  /\ timer = "armed" => step \in {"measuring", "loaded"}
  /\ timer = "injected" => step \in {"measuring", "loaded", "cancelling"}
  /\ step \in Starting \union {"staging"} => timer = "none" /\ dir[run].fault = "none"
  /\ step \in Starting => active = {}
  /\ step \in {"measuring", "loaded"} =>
       /\ timer \in {"none", "armed", "injected", "done", "broken"}
       /\ timer = "none" <=> Scenario[run] = "none"
       /\ timer \in {"none", "armed"} => active = {} /\ dir[run].fault = "none"
       /\ timer = "injected" => active \subseteq {Scenario[run]}
       /\ timer = "done" => FaultOver
  /\ step = "measuring" => timer # "broken"
  /\ step \in Observing \union {"publishing"} => FaultOver

\* A service of the other condition.
Foreign == Coordinators \ {Condition[run]}

IsolationInv ==
  /\ step = "clean" => containers = {}
  /\ step \in {"up", "warmup", "settling", "drained", "resetting", "truncating", "registered", "draining",
               "observed"} \union Measuring =>
       Services(run) \subseteq containers
  /\ step \in {"prepared", "up", "settling", "drained", "resetting", "truncating", "registered"} =>
       containers \intersect Generators = {}
  /\ step = "warmup" => "measurement" \notin containers
  /\ step = "registered" => work = NoWork
  /\ step \in (Starting \ {"clock"}) \union {"staging"} => run \notin tainted
  /\ run \in tainted /\ step \in Measuring \union {"draining", "observed"} =>
       \E c \in Foreign : c \in containers \/ c \in sampled
  /\ run \in tainted /\ step = "qualifying" => \E c \in Foreign : c \in sampled
  /\ ValidRunWasIsolated

\* Between the warm-up's drain and the truncation no transfer is open.
SettledInv ==
  step \in {"drained", "resetting", "truncating"} => \A o \in Generators : work[o] # "open"

ControllerInv == TypeOK /\ EvidenceInv /\ FaultInv /\ IsolationInv /\ SettledInv

-------------------------------------------------------------------------------
(* Type correctness *)

\* No evidence and no process exists at the start.
LEMMA InitEstablishesInv == Init => ControllerInv
<1> SUFFICES ASSUME Init PROVE ControllerInv
  OBVIOUS
<1>1. run \in Runs
  BY TrialAssumption DEF Init
<1>2. TypeOK
  <2>1. dir \in [Runs -> Evidence]
    BY DEF Init, EmptyDirectory, Evidence, Statuses
  <2> QED
    BY <1>1, <2>1 DEF Init, TypeOK, ControlTypeOK, EvidenceTypeOK, SystemTypeOK, NoWork, Outcomes
<1>3. EvidenceInv
  BY DEF Init, EvidenceInv, EmptyDirectory, Unqualified, Starting, Observing
<1>4. FaultInv
  BY DEF Init, FaultInv, Starting, Observing
<1>5. IsolationInv
  BY DEF Init, IsolationInv, ValidRunWasIsolated, Starting, Measuring, EmptyDirectory
<1>6. SettledInv
  BY DEF Init, SettledInv
<1> QED
  BY <1>2, <1>3, <1>4, <1>5, <1>6 DEF ControllerInv

\* A note of the right kind keeps the directories typed.
LEMMA NoteKeepsEvidence ==
  ASSUME dir \in [Runs -> Evidence], NEW r \in Runs
  PROVE  /\ \A v \in Statuses : Note(r, "status", v) => dir' \in [Runs -> Evidence]
         /\ \A v \in {"none", "injected", "completed"} :
              Note(r, "fault", v) => dir' \in [Runs -> Evidence]
         /\ \A v \in Valid \union {"none", "INVALID"} :
              Note(r, "verdict", v) => dir' \in [Runs -> Evidence]
         /\ \A v \in {"none", "run", "cleanup"} :
              Note(r, "error", v) => dir' \in [Runs -> Evidence]
BY DEF Note, Evidence

\* What stays and what changes when a field is written, and when a trial starts.
LEMMA NoteEffect ==
  ASSUME dir \in [Runs -> Evidence], run \in Runs, NEW v
  PROVE  /\ Note(run, "status", v) => \A r \in Runs :
              /\ dir'[r].by = dir[r].by /\ dir'[r].fault = dir[r].fault
              /\ dir'[r].verdict = dir[r].verdict /\ dir'[r].error = dir[r].error
         /\ Note(run, "fault", v) => \A r \in Runs :
              /\ dir'[r].by = dir[r].by /\ dir'[r].fault = IF r = run THEN v ELSE dir[r].fault
              /\ dir'[r].verdict = dir[r].verdict /\ dir'[r].error = dir[r].error
         /\ Note(run, "verdict", v) => \A r \in Runs :
              /\ dir'[r].by = dir[r].by /\ dir'[r].fault = dir[r].fault
              /\ dir'[r].verdict = (IF r = run THEN v ELSE dir[r].verdict)
              /\ dir'[r].error = dir[r].error
         /\ Note(run, "error", v) => \A r \in Runs :
              /\ dir'[r].by = dir[r].by /\ dir'[r].fault = dir[r].fault
              /\ dir'[r].verdict = dir[r].verdict
              /\ dir'[r].error = IF r = run THEN v ELSE dir[r].error
BY DEF Note, Evidence

\* A trial starts with an empty directory of its launch and touches no other.
LEMMA StageEffect ==
  ASSUME dir \in [Runs -> Evidence], NEW r \in Runs, Stage(r)
  PROVE  /\ run' = r /\ dir[r].by = 0
         /\ dir'[r].by = launches /\ dir'[r].fault = "none"
         /\ dir'[r].verdict = "none" /\ dir'[r].error = "none"
         /\ \A q \in Runs \ {r} : dir'[q] = dir[q]
BY DEF Stage, Refused, EmptyDirectory, Evidence

\* A verdict is a status a summary may have, and not FAILED.
LEMMA VerdictIsStatus ==
  ASSUME dir \in [Runs -> Evidence], NEW r \in Runs
  PROVE  /\ dir[r].verdict \in Statuses
         /\ dir[r].error \in {"none", "run", "cleanup"}
         /\ dir[r].verdict # "FAILED"
BY DEF Evidence, Statuses, Valid

-------------------------------------------------------------------------------
(* Steps.  Most actions move the controller only: each conjunct of the        *)
(* invariant is followed through all of them at once, and the few actions     *)
(* that need more than their definition have a case of their own.             *)

USE DEF Next, vars, controlVars, evidenceVars, systemVars, Only, Goto, Stop, Settle, Cancel, EndTrial,
  Fault, DownLeaves,
  ControllerStep, Refuse, Stage, Finish, CleanStart, PrepareStore, StartSystem, StartWarmup, WarmupEnds,
  WarmupDrained, WarmupNotDrained, StartReset, ResetDrained, Truncate, StartLoad, StartMeasurement,
  InjectFault, ClearFault, AwaitFault, FaultFailed, RethrowFailure, EndObservation, CollectEvidence,
  NotIsolated, Qualify, Publish, RecordFailure, IndexFailure, TearDown, KeepRunning, LoadEnds,
  Failure, UncleanStart, TearDownFails, MeasurementFails, CallFails, FaultError, FaultBreaks,
  FaultUnhandled, Killed,
  Surroundings, Generate, Recover, StrayLoadEnds, TaskEnds, Intrude, IntruderLeaves, Sample, Launch

\* The types, step by step.
LEMMA StepKeepsTypeOK == TypeOK /\ FaultInv /\ [Next]_vars => TypeOK'
<1> SUFFICES ASSUME TypeOK, FaultInv, [Next]_vars
             PROVE  TypeOK'
  BY DEF TypeOK
<1>1. ControlTypeOK'
  BY DEF TypeOK, ControlTypeOK, Cancelled
<1>2. dir' \in [Runs -> Evidence]
  <2>1. ASSUME NEW r \in Runs, Stage(r)
        PROVE  dir' \in [Runs -> Evidence]
    BY <2>1 DEF TypeOK, ControlTypeOK, EvidenceTypeOK, EmptyDirectory, Evidence, Statuses
  <2>2. ASSUME NEW v \in Statuses, Note(run, "status", v)
        PROVE  dir' \in [Runs -> Evidence]
    BY <2>2, NoteKeepsEvidence DEF TypeOK, ControlTypeOK, EvidenceTypeOK
  <2> QED
    BY <2>1, <2>2, NoteKeepsEvidence, VerdictIsStatus
    DEF TypeOK, ControlTypeOK, EvidenceTypeOK, Recorded, Verdict, Statuses, Valid
<1>3. index' \subseteq Runs \X Statuses /\ tainted' \subseteq Runs
  BY VerdictIsStatus DEF TypeOK, ControlTypeOK, EvidenceTypeOK, Statuses
<1>4. containers' \subseteq {"shared", "adapter"} \union Coordinators \union Generators
  BY TrialAssumption DEF TypeOK, ControlTypeOK, SystemTypeOK, Services, Generators
<1>5. sampled' \subseteq {"shared", "adapter"} \union Coordinators \union Generators
  BY DEF TypeOK, SystemTypeOK, Running
<1>6. active' \subseteq Faulty
  BY TrialAssumption DEF TypeOK, ControlTypeOK, SystemTypeOK, FaultInv, Faulty
<1>7. work' \in [Generators -> Outcomes \union {"none"}]
  BY DEF TypeOK, SystemTypeOK, NoWork, Outcomes
<1>8. tasks' \subseteq Generators
  BY DEF TypeOK, SystemTypeOK
<1>9. faults' \in Nat
  BY DEF TypeOK, SystemTypeOK
<1> QED
  BY <1>1, <1>2, <1>3, <1>4, <1>5, <1>6, <1>7, <1>8, <1>9 DEF TypeOK, EvidenceTypeOK, SystemTypeOK

\* Only the trial under way can be disturbed, from its load's start on.
LEMMA TaintStep ==
  ASSUME [Next]_vars
  PROVE  \/ tainted' = tainted
         \/ /\ tainted' = tainted \union {run} /\ run' = run
            /\ step \in Measuring \union {"registered"} /\ step' \in Measuring
BY DEF Measuring

\* A trial is staged in one way.
LEMMA StagingStep ==
  ASSUME [Next]_vars, step' = "staging"
  PROVE  \/ run' = run /\ step = "staging"
         \/ \E r \in Runs : Stage(r)
<1>1. CASE \E r \in Runs : Refuse(r) \/ Stage(r)
  BY <1>1
<1> QED
  BY <1>1

\* What the files say of a trial stays true through every step.
LEMMA StepKeepsEvidenceInv == TypeOK /\ EvidenceInv /\ [Next]_vars => EvidenceInv'
<1> USE NoteEffect, StageEffect
    DEF TypeOK, ControlTypeOK, EvidenceTypeOK, EvidenceInv, Unqualified, Starting, Observing
<1> SUFFICES ASSUME TypeOK, EvidenceInv, [Next]_vars
             PROVE  EvidenceInv'
  OBVIOUS
<1>1. (step # "off" => launches > 0)'
  OBVIOUS
<1>2. (step \notin {"off", "next"} => dir[run].by # 0)'
  OBVIOUS
<1>3. (step \in Unqualified => dir[run].verdict = "none")'
  OBVIOUS
<1>4. (step \in {"failed", "unstarted-failed", "unclean"} => dir[run].error # "none")'
  BY DEF Recorded
<1>5. ASSUME NEW r \in Runs, dir'[r].by = 0
      PROVE  dir'[r].verdict = "none" /\ dir'[r].error = "none" /\ r \notin tainted'
  <2>1. dir[r].by = 0
    BY <1>5
  <2>2. r # run \/ step \in {"off", "next"}
    BY <2>1
  <2>3. dir'[r].verdict = "none"
    <3>1. dir[r].verdict = "none"
      BY <2>1
    <3>2. \A q \in Runs : Stage(q) => dir'[r].verdict = "none"
      BY ZenonT(60), <3>1, StageEffect
    <3>3. ControllerStep => (\E q \in Runs : Stage(q)) \/ dir'[r].verdict = "none"
      BY <2>2, <3>1
    <3>4. ~ControllerStep => dir'[r].verdict = "none"
      BY <2>2, <3>1
    <3> QED
      BY <3>2, <3>3, <3>4
  <2>4. dir'[r].error = "none"
    <3>1. dir[r].error = "none"
      BY <2>1
    <3>2. \A q \in Runs : Stage(q) => dir'[r].error = "none"
      BY ZenonT(60), <3>1, StageEffect
    <3>3. ControllerStep => (\E q \in Runs : Stage(q)) \/ dir'[r].error = "none"
      BY <2>2, <3>1 DEF Recorded
    <3>4. ~ControllerStep => dir'[r].error = "none"
      BY <2>2, <3>1 DEF Recorded
    <3> QED
      BY <3>2, <3>3, <3>4
  <2>5. r \notin tainted'
    <3>1. r \notin tainted
      BY <2>1
    <3> QED
      BY <2>2, <3>1, TaintStep DEF Measuring
  <2> QED
    BY <2>3, <2>4, <2>5
<1>6. ASSUME NEW r \in Runs, <<r, "FAILED">> \in index'
      PROVE  dir'[r].error # "none"
  BY <1>6, VerdictIsStatus DEF Recorded
<1> QED
  BY <1>1, <1>2, <1>3, <1>4, <1>5, <1>6

\* What is known of the injected fault stays true through every step.
LEMMA StepKeepsFaultInv == TypeOK /\ FaultInv /\ [Next]_vars => FaultInv'
<1> USE NoteEffect, StageEffect
    DEF TypeOK, ControlTypeOK, EvidenceTypeOK, FaultInv, FaultOver, Starting, Observing
<1> SUFFICES ASSUME TypeOK, FaultInv, [Next]_vars
             PROVE  FaultInv'
  OBVIOUS
<1>1. (timer \in {"armed", "injected"} => Scenario[run] # "none")'
  BY DEF Cancelled
<1>2. /\ (timer = "armed" => step \in {"measuring", "loaded"})'
      /\ (timer = "injected" => step \in {"measuring", "loaded", "cancelling"})'
  <2>1. (timer = "armed" => step \in {"measuring", "loaded"})'
    <3>1. timer' = "armed" => timer = "armed" \/ step' = "measuring"
      BY DEF Cancelled
    <3>2. timer = "armed" => (timer = "armed" => step \in {"measuring", "loaded"})'
      <4>1. ControllerStep /\ timer = "armed" => (timer = "armed" => step \in {"measuring", "loaded"})'
        BY DEF FaultSettled, Cancelled
      <4>2. Failure /\ timer = "armed" => (timer = "armed" => step \in {"measuring", "loaded"})'
        BY DEF Cancelled
      <4> QED
        BY <4>1, <4>2
    <3> QED
      BY <3>1, <3>2
  <2>2. (timer = "injected" => step \in {"measuring", "loaded", "cancelling"})'
    <3>1. timer' = "injected" => timer = "injected" \/ InjectFault
      <4>1. LoadEnds \/ Failure \/ Surroundings \/ UNCHANGED vars =>
              (timer' = "injected" => timer = "injected")
        BY DEF Cancelled
      <4>2. ControllerStep => (timer' = "injected" => timer = "injected" \/ InjectFault)
        BY DEF Cancelled
      <4>3. (\E selected \in SUBSET Runs, resume, kept \in BOOLEAN : Launch(selected, resume, kept))
              => timer' = timer
        OBVIOUS
      <4> QED
        BY <4>1, <4>2, <4>3
    <3>2. timer = "injected" => (timer = "injected" => step \in {"measuring", "loaded", "cancelling"})'
      BY SMTT(30) DEF FaultSettled, Cancelled
    <3> QED
      BY <3>1, <3>2
  <2> QED
    BY <2>1, <2>2
<1>3. (step \in Starting \union {"staging"} => timer = "none" /\ dir[run].fault = "none")'
  BY DEF Cancelled
<1>4. (step \in Starting => active = {})'
  OBVIOUS
<1>5. (step \in {"measuring", "loaded"} =>
         /\ timer \in {"none", "armed", "injected", "done", "broken"}
         /\ timer = "none" <=> Scenario[run] = "none")'
  OBVIOUS
<1>6. (step \in {"measuring", "loaded"} /\ timer \in {"none", "armed"} =>
         active = {} /\ dir[run].fault = "none")'
  OBVIOUS
<1>7. (step \in {"measuring", "loaded"} /\ timer = "injected" => active \subseteq {Scenario[run]})'
  OBVIOUS
<1>8. (step \in {"measuring", "loaded"} /\ timer = "done" => FaultOver)'
  OBVIOUS
<1>9. (step \in Observing \union {"publishing"} => FaultOver)'
  BY DEF FaultSettled
<1>10. (step = "measuring" => timer # "broken")'
  OBVIOUS
<1> QED
  BY <1>1, <1>2, <1>3, <1>4, <1>5, <1>6, <1>7, <1>8, <1>9, <1>10

\* A foreign service that disturbed the trial leaves its trace in every step.
LEMMA StepKeepsIsolationInv ==
  TypeOK /\ EvidenceInv /\ FaultInv /\ IsolationInv /\ [Next]_vars => IsolationInv'
<1> USE TrialAssumption
    DEF TypeOK, ControlTypeOK, EvidenceTypeOK, SystemTypeOK, IsolationInv, Starting
<1> SUFFICES ASSUME TypeOK, EvidenceInv, FaultInv, IsolationInv, [Next]_vars
             PROVE  IsolationInv'
  OBVIOUS
<1>1. (step = "clean" => containers = {})'
  OBVIOUS
<1>2. (step \in {"up", "warmup", "settling", "drained", "resetting", "truncating", "registered", "draining",
               "observed"} \union Measuring =>
         Services(run) \subseteq containers)'
  BY DEF Services, Generators, Coordinators, Measuring
<1>3. (step \in {"prepared", "up", "settling", "drained", "resetting", "truncating", "registered"} =>
         containers \intersect Generators = {})'
  BY DEF Services, Generators, Coordinators
<1>4. (step = "warmup" => "measurement" \notin containers)'
  BY DEF Generators, Coordinators
<1>5. (step = "registered" => work = NoWork)'
  BY DEF NoWork, Generators
<1>6. (step \in (Starting \ {"clock"}) \union {"staging"} => run \notin tainted)'
  <2>1. ASSUME NEW r \in Runs, Stage(r)
        PROVE  run' \notin tainted'
    BY <2>1, StageEffect DEF EvidenceInv
  <2>2. step' \in Starting \ {"clock"} => run' = run /\ step \in (Starting \ {"clock"}) \union {"staging"}
    BY DEF Starting
  <2>3. step' = "staging" => \/ run' = run /\ step = "staging"
                            \/ \E r \in Runs : Stage(r)
    BY StagingStep
  <2>4. step' \in (Starting \ {"clock"}) \union {"staging"} => tainted' = tainted
    BY TaintStep DEF Measuring
  <2>5. CASE step' = "staging"
    BY <2>1, <2>3, <2>4, <2>5
  <2>6. CASE step' \in Starting \ {"clock"}
    BY <2>2, <2>4, <2>6
  <2> QED
    BY <2>5, <2>6
<1>7. (run \in tainted /\ step \in Measuring \union {"draining", "observed"} =>
         \E c \in Foreign : c \in containers \/ c \in sampled)'
  <2> DEFINE Disturbed == \E c \in Foreign : c \in containers \/ c \in sampled
  <2> USE DEF Foreign, Measuring
  <2>1. CASE StartLoad
    BY <2>1 DEF FaultInv, Running, Services, Generators, Coordinators
  <2>2. ASSUME NEW c \in Coordinators, Intrude(c)
        PROVE  (run \in tainted /\ step \in Measuring \union {"draining", "observed"} => Disturbed)'
    BY <2>2 DEF Services
  <2>3. ASSUME NEW c \in Coordinators, IntruderLeaves(c)
        PROVE  (run \in tainted /\ step \in Measuring \union {"draining", "observed"} => Disturbed)'
    BY <2>3
  <2>4. CASE Sample
    BY <2>4
  <2> QED
    BY <2>1, <2>2, <2>3, <2>4 DEF Generators, Coordinators
<1>8. (run \in tainted /\ step = "qualifying" => \E c \in Foreign : c \in sampled)'
  BY DEF Foreign, Services, Generators, Coordinators, Measuring, FaultInv, Running, Isolated
<1>9. ValidRunWasIsolated'
  <2> SUFFICES ASSUME NEW r \in Runs, dir'[r].verdict \in Valid
               PROVE  r \notin tainted'
    BY DEF ValidRunWasIsolated
  <2>1. CASE dir[r].verdict \in Valid
    <3>1. r \notin tainted
      BY <2>1 DEF ValidRunWasIsolated
    <3>2. r # run \/ step \notin Unqualified
      BY <2>1 DEF EvidenceInv, Valid
    <3> QED
      BY <3>1, <3>2 DEF Unqualified, Measuring
  <2>2. ASSUME NEW loadDelivered \in BOOLEAN, NEW safe \in BOOLEAN, NEW outcome \in Outcomes,
               Qualify(loadDelivered, safe, outcome), r = run
        PROVE  r \notin tainted'
    <3>1. Gates(run)
      <4>1. dir'[run].verdict = Verdict(run, loadDelivered, safe, outcome)
        BY <2>2, NoteEffect
      <4>2. ~Gates(run) => Verdict(run, loadDelivered, safe, outcome) = "INVALID"
        BY DEF Verdict
      <4> QED
        BY <2>2, <4>1, <4>2 DEF Valid
    <3>2. \A c \in Foreign : c \notin sampled
      BY <3>1 DEF Gates, Foreign, Services, Coordinators
    <3> QED
      BY <2>2, <3>2
  <2> QED
    BY <2>1, <2>2, NoteEffect, StageEffect DEF Valid
<1> QED
  BY <1>1, <1>2, <1>3, <1>4, <1>5, <1>6, <1>7, <1>8, <1>9

\* Once the warm-up has drained no transfer opens again: no load runs, and a task
\* leaves open only what was.
LEMMA StepKeepsSettledInv ==
  TypeOK /\ IsolationInv /\ SettledInv /\ [Next]_vars => SettledInv'
<1> SUFFICES ASSUME TypeOK, IsolationInv, SettledInv, [Next]_vars,
                    NEW o \in Generators, step' \in {"drained", "resetting", "truncating"}
             PROVE  work'[o] # "open"
  BY DEF SettledInv
<1>1. \/ step \in {"drained", "resetting", "truncating"} /\ \A g \in Generators : work[g] # "open"
      \/ WarmupDrained /\ \A g \in Generators : work[g] # "open"
  BY DEF SettledInv, Quiet
<1>2. CASE WarmupDrained
  BY <1>1, <1>2
<1>3. CASE step \in {"drained", "resetting", "truncating"}
  <2>1. containers \intersect Generators = {} /\ work \in [Generators -> Outcomes \union {"none"}]
    BY <1>3 DEF IsolationInv, TypeOK, SystemTypeOK
  <2>2. ASSUME NEW g \in Generators, NEW result \in Outcomes, TaskEnds(g, result)
        PROVE  work'[o] # "open"
    BY <1>1, <1>3, <2>1, <2>2
  <2>3. ASSUME NEW g \in Generators, Generate(g)
        PROVE  FALSE
    BY <2>1, <2>3
  <2>4. work' = work \/ \E g \in Generators, result \in Outcomes : TaskEnds(g, result)
    BY <1>3, <2>3
  <2> QED
    BY <1>1, <1>3, <2>2, <2>4
<1> QED
  BY <1>1, <1>2, <1>3

\* Evidence is only written where there is none yet.
LEMMA StepKeepsEvidence ==
  ASSUME TypeOK, EvidenceInv, [Next]_vars, NEW r \in Runs
  PROVE  /\ dir[r].by # 0 => dir'[r].by = dir[r].by
         /\ dir[r].verdict # "none" => dir'[r].verdict = dir[r].verdict
         /\ dir[r].error # "none" => dir'[r].error = dir[r].error
<1> USE NoteEffect, StageEffect DEF TypeOK, ControlTypeOK, EvidenceTypeOK, EvidenceInv, Unqualified, Observing
<1>1. dir[r].by # 0 => dir'[r].by = dir[r].by
  <2>1. \A q \in Runs : Stage(q) /\ dir[r].by # 0 => dir'[r].by = dir[r].by
    BY StageEffect
  <2>2. ControllerStep => (\E q \in Runs : Stage(q)) \/ dir'[r].by = dir[r].by
    OBVIOUS
  <2>3. ~ControllerStep => dir'[r].by = dir[r].by
    OBVIOUS
  <2> QED
    BY <2>1, <2>2, <2>3
<1>2. dir[r].verdict # "none" => dir'[r].verdict = dir[r].verdict
  <2> SUFFICES ASSUME dir[r].verdict # "none"
               PROVE  dir'[r].verdict = dir[r].verdict
    OBVIOUS
  <2>1. dir[r].by # 0 /\ ~(r = run /\ step = "qualifying")
    OBVIOUS
  <2>2. \A q \in Runs : Stage(q) => dir'[r].verdict = dir[r].verdict
    BY ZenonT(60), <2>1, StageEffect
  <2>3. ControllerStep => (\E q \in Runs : Stage(q)) \/ dir'[r].verdict = dir[r].verdict
    BY <2>1
  <2>4. ~ControllerStep => dir'[r].verdict = dir[r].verdict
    OBVIOUS
  <2> QED
    BY <2>2, <2>3, <2>4
<1>3. dir[r].error # "none" => dir'[r].error = dir[r].error
  <2> SUFFICES ASSUME dir[r].error # "none"
               PROVE  dir'[r].error = dir[r].error
    OBVIOUS
  <2>1. dir[r].by # 0
    OBVIOUS
  <2>2. \A q \in Runs : Stage(q) => dir'[r].error = dir[r].error
    BY ZenonT(60), <2>1, StageEffect
  <2>3. ControllerStep => (\E q \in Runs : Stage(q)) \/ dir'[r].error = dir[r].error
    BY DEF Recorded
  <2>4. ~ControllerStep => dir'[r].error = dir[r].error
    BY DEF Recorded
  <2> QED
    BY <2>2, <2>3, <2>4
<1> QED
  BY <1>1, <1>2, <1>3

HIDE DEF Next, vars, controlVars, evidenceVars, systemVars, Only, Goto, Stop, Settle, Cancel, EndTrial,
  Fault, DownLeaves,
  ControllerStep, Refuse, Stage, Finish, CleanStart, PrepareStore, StartSystem, StartWarmup, WarmupEnds,
  WarmupDrained, WarmupNotDrained, StartReset, ResetDrained, Truncate, StartLoad, StartMeasurement,
  InjectFault, ClearFault, AwaitFault, FaultFailed, RethrowFailure, EndObservation, CollectEvidence,
  NotIsolated, Qualify, Publish, RecordFailure, IndexFailure, TearDown, KeepRunning, LoadEnds,
  Failure, UncleanStart, TearDownFails, MeasurementFails, CallFails, FaultError, FaultBreaks,
  FaultUnhandled, Killed,
  Surroundings, Generate, Recover, StrayLoadEnds, TaskEnds, Intrude, IntruderLeaves, Sample, Launch

\* The parts together are inductive.
LEMMA StepKeepsInv == ControllerInv /\ [Next]_vars => ControllerInv'
BY StepKeepsTypeOK, StepKeepsEvidenceInv, StepKeepsFaultInv, StepKeepsIsolationInv,
   StepKeepsSettledInv DEF ControllerInv

-------------------------------------------------------------------------------
(* Theorems *)

\* The inductive invariant of the controller and its surroundings.
THEOREM ControllerInvariant == Spec => []ControllerInv
BY InitEstablishesInv, StepKeepsInv, PTL DEF Spec

\* Every variable keeps its type, over any matrix of trials.
THEOREM TrialTypeCorrect == Spec => []TypeOK
<1>1. ControllerInv => TypeOK
  BY DEF ControllerInv
<1> QED
  BY <1>1, ControllerInvariant, PTL

\* No trial with valid evidence was measured beside anything foreign, with a
\* fault in place at its start, or on a database that was not empty.
THEOREM ValidRunsAreIsolated == Spec => []ValidRunWasIsolated
<1>1. ControllerInv => ValidRunWasIsolated
  BY DEF ControllerInv, IsolationInv
<1> QED
  BY <1>1, ControllerInvariant, PTL

\* Draining begins only once the scheduled fault is over.
THEOREM FaultsEndBeforeDrain == Spec => []FaultEndsBeforeDrain
<1>1. ControllerInv => FaultEndsBeforeDrain
  BY DEF ControllerInv, FaultInv, FaultOver, FaultEndsBeforeDrain, Observing
<1> QED
  BY <1>1, ControllerInvariant, PTL

\* A trial that failed, in its run or in its teardown, is never summarised as
\* anything else.
THEOREM FailedForEver == Spec => []FailedStaysFailed
<1>1. ControllerInv => FailedStaysFailed
  <2> SUFFICES ASSUME ControllerInv, NEW r \in Runs, <<r, "FAILED">> \in index
               PROVE  Summary(r) = "FAILED" /\ ~Terminal(r)
    BY DEF FailedStaysFailed
  <2>1. dir[r].error # "none"
    BY DEF ControllerInv, EvidenceInv
  <2> QED
    BY <2>1 DEF Summary, Terminal
<1> QED
  BY <1>1, ControllerInvariant, PTL

\* No invocation, however it was started or ended, replaces evidence.
THEOREM EvidenceIsNeverReplaced == Spec => EvidenceIsKept
<1>1. ControllerInv /\ [Next]_vars =>
        [\A r \in Runs :
           /\ dir[r].by # 0 => dir'[r].by = dir[r].by
           /\ dir[r].verdict # "none" => dir'[r].verdict = dir[r].verdict
           /\ dir[r].error # "none" => dir'[r].error = dir[r].error]_vars
  BY StepKeepsEvidence DEF ControllerInv
<1> QED
  BY <1>1, ControllerInvariant, PTL DEF Spec, EvidenceIsKept

\* reset() under a running system truncates no open transfer, whatever the recovery
\* timer starts between the drain and the truncation.
THEOREM ResetsSpareOpenWork == Spec => ResetSparesOpenWork
<1>1. ControllerInv /\ [Next]_vars =>
        [step = "truncating" /\ step' = "registered" => \A o \in Generators : work[o] # "open"]_vars
  BY DEF ControllerInv, SettledInv
<1> QED
  BY <1>1, ControllerInvariant, PTL DEF Spec, ResetSparesOpenWork

-------------------------------------------------------------------------------
(* The measurement.  Evidence is read while work goes on, but what is settled   *)
(* stays as it is: each document is true of every transfer it does not call     *)
(* pending or unconfirmed.                                                      *)

TransferRecords ==
  [receivedAt : Nat, state : {"PENDING", "FULFILLED", "FAILED"},
   confirmedAt : Nat \union {Unconfirmed}]

MeasurementTypeOK ==
  /\ clock \in Nat
  /\ observationEnd \in Nat \union {None}
  /\ reads \in 0..3
  /\ transfers \in Seq(TransferRecords)
  /\ outstanding \in Seq(Nat)

\* A confirmation is that of a settled transfer and falls between its arrival and now.
ConfirmedInTime ==
  \A i \in DOMAIN transfers :
    /\ transfers[i].receivedAt <= clock
    /\ transfers[i].confirmedAt # Unconfirmed =>
         /\ transfers[i].state # "PENDING"
         /\ transfers[i].receivedAt <= transfers[i].confirmedAt
         /\ transfers[i].confirmedAt <= clock

\* The observation lasts at least as long as the measurement and precedes the evidence.
ObservedFirst ==
  /\ observationEnd = None => reads = 0
  /\ observationEnd # None => Windows <= observationEnd /\ observationEnd < clock

EvidenceIsTrue ==
  /\ reads >= 1 =>
       \A i \in DOMAIN transfers :
         telemetry[i] # "PENDING" => transfers[i].state = telemetry[i]
  /\ reads >= 2 =>
       \A i \in DOMAIN transfers :
         traces[i] # Unconfirmed => traces[i] = transfers[i].confirmedAt
  /\ reads >= 3 =>
       \A i \in DOMAIN transfers : snapshot[i] = transfers[i].state

\* What was under way at boundary w, as far as the transfers now tell it: a transfer
\* that was settled without a confirmation leaves it open.
SurelyOpen(w) ==
  {i \in Cohort : /\ transfers[i].receivedAt < w
                  /\ transfers[i].state = "PENDING" \/ transfers[i].confirmedAt >= w}

PerhapsOpen(w) ==
  {i \in Cohort : /\ transfers[i].receivedAt < w
                  /\ transfers[i].confirmedAt = Unconfirmed \/ transfers[i].confirmedAt >= w}

OutstandingIsTrue ==
  /\ Len(outstanding) = IF clock < Windows THEN clock ELSE Windows
  /\ \A w \in 1..Len(outstanding) :
       \E S \in SUBSET DOMAIN transfers :
         /\ outstanding[w] = Cardinality(S)
         /\ SurelyOpen(w) \subseteq S /\ S \subseteq PerhapsOpen(w)

MeasurementInv ==
  MeasurementTypeOK /\ ConfirmedInTime /\ ObservedFirst /\ EvidenceIsTrue /\ OutstandingIsTrue

\* Nothing has been observed and nothing read.
LEMMA InitMeasurement == MeasurementInit => MeasurementInv
<1> SUFFICES ASSUME MeasurementInit PROVE MeasurementInv
  OBVIOUS
<1>1. DOMAIN transfers = {} /\ Len(outstanding) = 0
  BY DEF MeasurementInit
<1>2. Windows \in Nat /\ 0 < Windows
  BY QueueMeasurementAssumption
<1>3. MeasurementTypeOK
  BY DEF MeasurementInit, MeasurementTypeOK
<1>4. ConfirmedInTime /\ ObservedFirst /\ EvidenceIsTrue
  BY <1>1 DEF MeasurementInit, ConfirmedInTime, ObservedFirst, EvidenceIsTrue
<1>5. OutstandingIsTrue
  BY <1>1, <1>2 DEF MeasurementInit, OutstandingIsTrue
<1> QED
  BY <1>3, <1>4, <1>5 DEF MeasurementInv

\* The transfers are numbered: any set of them is finite.
LEMMA TransfersAreFinite ==
  ASSUME MeasurementTypeOK, NEW S, S \subseteq DOMAIN transfers
  PROVE  IsFiniteSet(S) /\ Cardinality(S) \in Nat
<1>1. Len(transfers) \in Nat /\ DOMAIN transfers = 1..Len(transfers)
  BY DEF MeasurementTypeOK
<1>2. IsFiniteSet(1..Len(transfers))
  BY <1>1, FS_Interval
<1> QED
  BY <1>1, <1>2, FS_Subset, FS_CardinalityType

\* A step that records no boundary leaves the recorded ones true when no transfer
\* becomes surely open at one of them and none is closed that may have been open.
LEMMA OutstandingKept ==
  ASSUME OutstandingIsTrue, outstanding' = outstanding,
         Len(outstanding) = IF clock' < Windows THEN clock' ELSE Windows,
         DOMAIN transfers \subseteq DOMAIN transfers',
         \A w \in 1..Len(outstanding) :
           SurelyOpen(w)' \subseteq SurelyOpen(w) /\ PerhapsOpen(w) \subseteq PerhapsOpen(w)'
  PROVE  OutstandingIsTrue'
<1>1. ASSUME NEW w \in 1..Len(outstanding)
      PROVE  \E S \in SUBSET DOMAIN transfers' :
               /\ outstanding'[w] = Cardinality(S)
               /\ SurelyOpen(w)' \subseteq S /\ S \subseteq PerhapsOpen(w)'
  <2>1. PICK S \in SUBSET DOMAIN transfers :
          /\ outstanding[w] = Cardinality(S)
          /\ SurelyOpen(w) \subseteq S /\ S \subseteq PerhapsOpen(w)
    BY DEF OutstandingIsTrue
  <2>2. S \in SUBSET DOMAIN transfers' /\ outstanding'[w] = Cardinality(S)
    BY <2>1
  <2>3. SurelyOpen(w)' \subseteq S /\ S \subseteq PerhapsOpen(w)'
    BY <2>1
  <2> QED
    BY <2>2, <2>3
<1> QED
  BY <1>1 DEF OutstandingIsTrue

\* A step that leaves the transfers alone, and the boundaries.
LEMMA OutstandingUntouched ==
  ASSUME OutstandingIsTrue, outstanding' = outstanding, transfers' = transfers,
         Len(outstanding) = IF clock' < Windows THEN clock' ELSE Windows
  PROVE  OutstandingIsTrue'
<1>1. \A w : SurelyOpen(w)' = SurelyOpen(w) /\ PerhapsOpen(w)' = PerhapsOpen(w)
  BY DEF SurelyOpen, PerhapsOpen, Cohort
<1>2. DOMAIN transfers \subseteq DOMAIN transfers'
  OBVIOUS
<1> QED
  BY <1>1, <1>2, OutstandingKept

\* A transfer that arrives is open from the next boundary on.
LEMMA ReceiveKeepsMeasurement ==
  ASSUME MeasurementInv, Receive PROVE MeasurementInv'
<1> DEFINE new == [receivedAt |-> clock, state |-> "PENDING", confirmedAt |-> Unconfirmed]
           n == Len(transfers)
<1>1. /\ clock \in Nat /\ transfers \in Seq(TransferRecords) /\ reads = 0
      /\ clock <= Windows /\ transfers' = Append(transfers, new) /\ observationEnd = None
      /\ UNCHANGED <<clock, observationEnd, reads, telemetry, traces, snapshot, outstanding>>
  BY DEF MeasurementInv, MeasurementTypeOK, ObservedFirst, Receive
<1>2. new \in TransferRecords
  BY <1>1 DEF TransferRecords
<1> HIDE DEF new
<1>3. /\ n \in Nat /\ DOMAIN transfers = 1..n /\ DOMAIN transfers' = 1..(n + 1)
      /\ transfers' \in Seq(TransferRecords) /\ transfers'[n + 1] = new
      /\ \A i \in 1..n : transfers'[i] = transfers[i]
  BY <1>1, <1>2
<1>4. /\ new.receivedAt = clock /\ new.confirmedAt = Unconfirmed /\ Unconfirmed = -1
      /\ \A i \in DOMAIN transfers' : i \in DOMAIN transfers \/ i = n + 1
  BY <1>3 DEF new, Unconfirmed
<1>5. MeasurementTypeOK'
  BY <1>1, <1>3 DEF MeasurementInv, MeasurementTypeOK
<1>6. ConfirmedInTime'
  BY <1>1, <1>3, <1>4 DEF MeasurementInv, ConfirmedInTime
<1>7. ObservedFirst' /\ EvidenceIsTrue'
  BY <1>1 DEF MeasurementInv, ObservedFirst, EvidenceIsTrue
<1>8. Windows \in Nat /\ OutstandingIsTrue
  BY QueueMeasurementAssumption DEF MeasurementInv
<1>9. Len(outstanding) = (IF clock' < Windows THEN clock' ELSE Windows)
      /\ Len(outstanding) <= clock /\ Len(outstanding) \in Nat
  BY <1>1, <1>8 DEF OutstandingIsTrue
<1>10. ASSUME NEW w \in 1..Len(outstanding)
       PROVE  SurelyOpen(w)' \subseteq SurelyOpen(w) /\ PerhapsOpen(w) \subseteq PerhapsOpen(w)'
  <2>1. w \in Int /\ ~(clock < w)
    BY <1>1, <1>9
  <2>2. ASSUME NEW i \in SurelyOpen(w)' PROVE i \in SurelyOpen(w)
    <3>1. i \in DOMAIN transfers' /\ transfers'[i].receivedAt < w
      BY DEF SurelyOpen, Cohort
    <3>2. i \in DOMAIN transfers
      BY <1>3, <1>4, <2>1, <3>1
    <3> QED
      BY <1>3, <3>2 DEF SurelyOpen, Cohort
  <2>3. ASSUME NEW i \in PerhapsOpen(w) PROVE i \in PerhapsOpen(w)'
    <3>1. i \in DOMAIN transfers
      BY DEF PerhapsOpen, Cohort
    <3>2. i \in DOMAIN transfers' /\ transfers'[i] = transfers[i]
      BY <1>3, <3>1
    <3> QED
      BY <3>2 DEF PerhapsOpen, Cohort
  <2> QED
    BY <2>2, <2>3
<1>11. DOMAIN transfers \subseteq DOMAIN transfers'
  BY <1>3
<1>12. OutstandingIsTrue'
  BY <1>1, <1>8, <1>9, <1>10, <1>11, OutstandingKept
<1> QED
  BY <1>5, <1>6, <1>7, <1>12 DEF MeasurementInv

\* A transfer is settled now, or without a confirmation.
LEMMA SettleKeepsMeasurement ==
  ASSUME MeasurementInv, ~Ended, NEW i \in DOMAIN transfers,
         NEW state \in {"FULFILLED", "FAILED"}, NEW at \in {clock, Unconfirmed},
         SettleAs(i, state, at)
  PROVE  MeasurementInv'
<1> DEFINE new == [transfers[i] EXCEPT !.state = state, !.confirmedAt = at]
<1>1. /\ clock \in Nat /\ transfers \in Seq(TransferRecords) /\ reads \in 0..3 /\ reads # 3
      /\ transfers[i].state = "PENDING"
      /\ transfers' = [transfers EXCEPT ![i].state = state, ![i].confirmedAt = at]
      /\ UNCHANGED <<clock, observationEnd, reads, telemetry, traces, snapshot, outstanding>>
  BY DEF MeasurementInv, MeasurementTypeOK, SettleAs, Ended
<1>2. /\ DOMAIN transfers = 1..Len(transfers) /\ Len(transfers) \in Nat
      /\ transfers[i] \in TransferRecords /\ Unconfirmed = -1
  BY <1>1 DEF Unconfirmed
<1>3. /\ new \in TransferRecords /\ new.state = state /\ new.confirmedAt = at
      /\ new.receivedAt = transfers[i].receivedAt
  BY <1>1, <1>2 DEF TransferRecords
<1>4. transfers' = [transfers EXCEPT ![i] = new]
  BY <1>1, <1>2
<1> HIDE DEF new
<1>5. /\ DOMAIN transfers' = DOMAIN transfers /\ transfers'[i] = new
      /\ \A j \in DOMAIN transfers : j # i => transfers'[j] = transfers[j]
      /\ transfers' \in Seq(TransferRecords)
  <2>1. transfers \in Seq(TransferRecords) /\ i \in 1..Len(transfers) /\ new \in TransferRecords
    BY <1>1, <1>2, <1>3
  <2>2. transfers' \in Seq(TransferRecords)
    BY ONLY <1>4, <2>1
  <2>3. DOMAIN transfers' = DOMAIN transfers
    BY <1>4
  <2>4. transfers'[i] = new /\ \A j \in DOMAIN transfers : j # i => transfers'[j] = transfers[j]
    BY <1>2, <1>4
  <2> QED
    BY <2>2, <2>3, <2>4
<1>6. /\ transfers[i].receivedAt <= clock /\ transfers[i].receivedAt \in Nat
      /\ transfers[i].confirmedAt = Unconfirmed
  BY <1>1, <1>2 DEF MeasurementInv, ConfirmedInTime, TransferRecords
<1>7. MeasurementTypeOK'
  BY <1>1, <1>5 DEF MeasurementInv, MeasurementTypeOK
<1>8. ConfirmedInTime'
  <2>1. ASSUME NEW j \in DOMAIN transfers'
        PROVE  /\ transfers'[j].receivedAt <= clock'
               /\ transfers'[j].confirmedAt # Unconfirmed =>
                    /\ transfers'[j].state # "PENDING"
                    /\ transfers'[j].receivedAt <= transfers'[j].confirmedAt
                    /\ transfers'[j].confirmedAt <= clock'
    <3>1. CASE j = i
      BY <1>1, <1>3, <1>5, <1>6, <3>1
    <3>2. CASE j # i
      BY <1>1, <1>5, <3>2 DEF MeasurementInv, ConfirmedInTime
    <3> QED
      BY <3>1, <3>2
  <2> QED
    BY <2>1 DEF ConfirmedInTime
<1>9. ObservedFirst'
  BY <1>1 DEF MeasurementInv, ObservedFirst
<1>10. EvidenceIsTrue'
  <2>1. ~(reads' >= 3)
    BY <1>1
  <2>2. ASSUME reads >= 1, NEW j \in DOMAIN transfers, telemetry[j] # "PENDING"
        PROVE  transfers'[j].state = telemetry[j]
    BY <1>1, <1>5, <2>2 DEF MeasurementInv, EvidenceIsTrue
  <2>3. ASSUME reads >= 2, NEW j \in DOMAIN transfers, traces[j] # Unconfirmed
        PROVE  traces[j] = transfers'[j].confirmedAt
    BY <1>1, <1>5, <1>6, <2>3 DEF MeasurementInv, EvidenceIsTrue
  <2> QED
    BY <1>1, <1>5, <2>1, <2>2, <2>3 DEF EvidenceIsTrue
<1>11. Windows \in Nat /\ OutstandingIsTrue
  BY QueueMeasurementAssumption DEF MeasurementInv
<1>12. Len(outstanding) = (IF clock' < Windows THEN clock' ELSE Windows)
       /\ Len(outstanding) <= clock /\ Len(outstanding) \in Nat
  BY <1>1, <1>11 DEF OutstandingIsTrue
<1>13. ASSUME NEW w \in 1..Len(outstanding)
       PROVE  SurelyOpen(w)' \subseteq SurelyOpen(w) /\ PerhapsOpen(w) \subseteq PerhapsOpen(w)'
  <2>1. w \in Int /\ clock >= w /\ ~(Unconfirmed >= w)
    BY <1>1, <1>2, <1>12
  <2>2. \A j \in DOMAIN transfers : transfers'[j].receivedAt = transfers[j].receivedAt
    BY <1>3, <1>5
  <2>3. Cohort' = Cohort
    BY <1>5, <2>2 DEF Cohort
  <2>4. ASSUME NEW j \in SurelyOpen(w)' PROVE j \in SurelyOpen(w)
    BY <1>1, <1>5, <2>2, <2>3 DEF SurelyOpen, Cohort
  <2>5. ASSUME NEW j \in PerhapsOpen(w) PROVE j \in PerhapsOpen(w)'
    <3>1. j \in Cohort /\ j \in DOMAIN transfers /\ transfers[j].receivedAt < w
      BY DEF PerhapsOpen, Cohort
    <3>2. transfers'[j].confirmedAt = Unconfirmed \/ transfers'[j].confirmedAt >= w
      BY <1>3, <1>5, <2>1, <3>1 DEF PerhapsOpen
    <3> QED
      BY <2>2, <2>3, <3>1, <3>2 DEF PerhapsOpen
  <2> QED
    BY <2>4, <2>5
<1>14. OutstandingIsTrue'
  <2>1. DOMAIN transfers \subseteq DOMAIN transfers' /\ outstanding' = outstanding
    BY <1>1, <1>5
  <2> QED
    BY <1>11, <1>12, <1>13, <2>1, OutstandingKept
<1> QED
  BY <1>7, <1>8, <1>9, <1>10, <1>14 DEF MeasurementInv

\* A boundary is passed: what is pending was under way.
LEMMA TickKeepsMeasurement ==
  ASSUME MeasurementInv, Tick PROVE MeasurementInv'
<1>1. /\ clock \in Nat /\ Windows \in Nat /\ observationEnd = None /\ clock' = clock + 1
      /\ UNCHANGED <<transfers, observationEnd, reads, telemetry, traces, snapshot>>
      /\ MeasurementTypeOK /\ outstanding \in Seq(Nat)
      /\ outstanding' = IF clock < Windows THEN Append(outstanding, WorkUnderWay) ELSE outstanding
  BY QueueMeasurementAssumption DEF MeasurementInv, MeasurementTypeOK, Tick
<1>2. WorkUnderWay \in Nat
  <2>1. {i \in Cohort : transfers[i].state = "PENDING"} \subseteq DOMAIN transfers
    BY DEF Cohort
  <2> QED
    BY <1>1, <2>1, TransfersAreFinite DEF WorkUnderWay
<1>3. MeasurementTypeOK'
  <2>1. outstanding' \in Seq(Nat)
    BY <1>1, <1>2
  <2> QED
    BY <1>1, <2>1 DEF MeasurementTypeOK
<1>4. ConfirmedInTime'
  <2>1. \A i \in DOMAIN transfers : transfers[i] \in TransferRecords
    BY <1>1 DEF MeasurementTypeOK
  <2> QED
    BY <1>1, <2>1 DEF MeasurementInv, ConfirmedInTime, TransferRecords, Unconfirmed
<1>5. ObservedFirst' /\ EvidenceIsTrue'
  BY <1>1 DEF MeasurementInv, ObservedFirst, EvidenceIsTrue
<1>6. OutstandingIsTrue /\ Len(outstanding) = IF clock < Windows THEN clock ELSE Windows
  BY DEF MeasurementInv, OutstandingIsTrue
<1>7. CASE clock < Windows
  <2>1. /\ Len(outstanding) = clock /\ outstanding' = Append(outstanding, WorkUnderWay)
        /\ Len(outstanding') = clock + 1 /\ outstanding'[clock + 1] = WorkUnderWay
        /\ \A w \in 1..clock : outstanding'[w] = outstanding[w]
    BY <1>1, <1>2, <1>6, <1>7
  <2>2. Len(outstanding') = IF clock' < Windows THEN clock' ELSE Windows
    BY <1>1, <1>7, <2>1
  <2>3. \A w : SurelyOpen(w)' = SurelyOpen(w) /\ PerhapsOpen(w)' = PerhapsOpen(w)
    BY <1>1 DEF SurelyOpen, PerhapsOpen, Cohort
  <2>4. ASSUME NEW w \in 1..Len(outstanding')
        PROVE  \E S \in SUBSET DOMAIN transfers' :
                 /\ outstanding'[w] = Cardinality(S)
                 /\ SurelyOpen(w)' \subseteq S /\ S \subseteq PerhapsOpen(w)'
    <3>1. CASE w \in 1..clock
      <4>1. PICK S \in SUBSET DOMAIN transfers :
              /\ outstanding[w] = Cardinality(S)
              /\ SurelyOpen(w) \subseteq S /\ S \subseteq PerhapsOpen(w)
        BY <1>6, <2>1, <3>1 DEF OutstandingIsTrue
      <4>2. outstanding'[w] = Cardinality(S) /\ S \in SUBSET DOMAIN transfers'
        BY <1>1, <2>1, <3>1, <4>1
      <4> QED
        BY <2>3, <4>1, <4>2
    <3>2. CASE w = clock + 1
      <4> DEFINE S == {i \in Cohort : transfers[i].state = "PENDING"}
      <4>1. S \in SUBSET DOMAIN transfers' /\ outstanding'[w] = Cardinality(S)
        BY <1>1, <2>1, <3>2 DEF Cohort, WorkUnderWay
      <4>2. ASSUME NEW i \in DOMAIN transfers
            PROVE  /\ transfers[i].receivedAt < w
                   /\ ~(transfers[i].confirmedAt >= w)
                   /\ transfers[i].state = "PENDING" => transfers[i].confirmedAt = Unconfirmed
        <5>1. transfers[i] \in TransferRecords
          BY <1>1 DEF MeasurementTypeOK
        <5>2. transfers[i].receivedAt \in Nat /\ transfers[i].receivedAt <= clock
          BY <5>1 DEF MeasurementInv, ConfirmedInTime, TransferRecords
        <5>3. CASE transfers[i].confirmedAt = Unconfirmed
          BY <1>1, <3>2, <5>2, <5>3 DEF Unconfirmed
        <5>4. CASE transfers[i].confirmedAt # Unconfirmed
          <6>1. transfers[i].confirmedAt \in Nat
            BY <5>1, <5>4 DEF TransferRecords
          <6> QED
            BY <1>1, <3>2, <5>2, <5>4, <6>1 DEF MeasurementInv, ConfirmedInTime
        <5> QED
          BY <5>3, <5>4
      <4>3. SurelyOpen(w) \subseteq S /\ S \subseteq PerhapsOpen(w)
        BY <4>2 DEF SurelyOpen, PerhapsOpen, Cohort
      <4> HIDE DEF S
      <4> QED
        BY <2>3, <4>1, <4>3
    <3> QED
      BY <1>1, <2>1, <3>1, <3>2
  <2>5. OutstandingIsTrue'
    BY <2>2, <2>4 DEF OutstandingIsTrue
  <2> QED
    BY <1>3, <1>4, <1>5, <2>5 DEF MeasurementInv
<1>8. CASE ~(clock < Windows)
  <2>1. outstanding' = outstanding
    BY <1>1, <1>8
  <2>2. Len(outstanding) = IF clock' < Windows THEN clock' ELSE Windows
    BY <1>1, <1>6, <1>8
  <2>3. OutstandingIsTrue'
    BY <1>1, <1>6, <2>1, <2>2, OutstandingUntouched
  <2> QED
    BY <1>3, <1>4, <1>5, <2>3 DEF MeasurementInv
<1> QED
  BY <1>7, <1>8

\* The end of the observation, and the requests for its evidence.
LEMMA EvidenceKeepsMeasurement ==
  ASSUME MeasurementInv, EndDrain \/ ReadTelemetry \/ ReadTraces \/ ReadTransfers
  PROVE  MeasurementInv'
<1>1. /\ clock \in Nat /\ Windows \in Nat /\ reads \in 0..3 /\ None = -2
      /\ transfers' = transfers /\ outstanding' = outstanding
      /\ clock' = clock \/ (clock' = clock + 1 /\ clock >= Windows)
  BY QueueMeasurementAssumption
  DEF MeasurementInv, MeasurementTypeOK, None, EndDrain, ReadTelemetry, ReadTraces, ReadTransfers
<1>2. MeasurementTypeOK'
  BY <1>1
  DEF MeasurementInv, MeasurementTypeOK, EndDrain, ReadTelemetry, ReadTraces, ReadTransfers
<1>3. ConfirmedInTime'
  <2>1. \A i \in DOMAIN transfers : transfers[i] \in TransferRecords
    BY DEF MeasurementInv, MeasurementTypeOK
  <2> QED
    BY <1>1, <2>1 DEF MeasurementInv, ConfirmedInTime, TransferRecords, Unconfirmed
<1>4. ObservedFirst'
  BY <1>1
  DEF MeasurementInv, ObservedFirst, EndDrain, ReadTelemetry, ReadTraces, ReadTransfers
<1>5. EvidenceIsTrue'
  <2>1. CASE EndDrain
    BY <1>1, <2>1 DEF MeasurementInv, EvidenceIsTrue, EndDrain
  <2>2. CASE ReadTelemetry
    BY <1>1, <2>2 DEF EvidenceIsTrue, ReadTelemetry, States
  <2>3. CASE ReadTraces
    BY <1>1, <2>3 DEF MeasurementInv, EvidenceIsTrue, ReadTraces
  <2>4. CASE ReadTransfers
    BY <1>1, <2>4 DEF MeasurementInv, EvidenceIsTrue, ReadTransfers, States
  <2> QED
    BY <2>1, <2>2, <2>3, <2>4
<1>6. OutstandingIsTrue /\ Len(outstanding) = IF clock' < Windows THEN clock' ELSE Windows
  BY <1>1 DEF MeasurementInv, OutstandingIsTrue
<1>7. OutstandingIsTrue'
  BY <1>1, <1>6, OutstandingUntouched
<1> QED
  BY <1>2, <1>3, <1>4, <1>5, <1>7 DEF MeasurementInv

\* The measurement is what it seems, for any trial.
LEMMA MeasurementInvariant == MeasurementSpec => []MeasurementInv
<1>1. MeasurementInv /\ [MeasurementNext]_trialVars => MeasurementInv'
  <2> SUFFICES ASSUME MeasurementInv, [MeasurementNext]_trialVars PROVE MeasurementInv'
    OBVIOUS
  <2>1. CASE Receive
    BY <2>1, ReceiveKeepsMeasurement
  <2>2. CASE Tick
    BY <2>2, TickKeepsMeasurement
  <2>3. CASE EndDrain \/ ReadTelemetry \/ ReadTraces \/ ReadTransfers
    BY <2>3, EvidenceKeepsMeasurement
  <2>4. ASSUME ~Ended, NEW i \in DOMAIN transfers,
               Fulfill(i) \/ Fail(i) \/ FulfillUnconfirmed(i)
        PROVE  MeasurementInv'
    <3>1. PICK state \in {"FULFILLED", "FAILED"}, at \in {clock, Unconfirmed} :
            SettleAs(i, state, at)
      BY <2>4 DEF Fulfill, Fail, FulfillUnconfirmed
    <3> QED
      BY <2>4, <3>1, SettleKeepsMeasurement
  <2>5. CASE UNCHANGED trialVars
    <3>1. /\ clock' = clock /\ transfers' = transfers /\ observationEnd' = observationEnd
          /\ reads' = reads /\ telemetry' = telemetry /\ traces' = traces
          /\ snapshot' = snapshot /\ outstanding' = outstanding
      BY <2>5 DEF trialVars
    <3>2. MeasurementTypeOK' /\ ConfirmedInTime' /\ ObservedFirst' /\ EvidenceIsTrue'
      BY <3>1
      DEF MeasurementInv, MeasurementTypeOK, ConfirmedInTime, ObservedFirst, EvidenceIsTrue
    <3>3. OutstandingIsTrue /\ Len(outstanding) = IF clock' < Windows THEN clock' ELSE Windows
      BY <3>1 DEF MeasurementInv, OutstandingIsTrue
    <3>4. OutstandingIsTrue'
      BY <3>1, <3>3, OutstandingUntouched
    <3> QED
      BY <3>2, <3>4 DEF MeasurementInv
  <2> QED
    BY <2>1, <2>2, <2>3, <2>4, <2>5 DEF MeasurementNext
<1> QED
  BY InitMeasurement, <1>1, PTL DEF MeasurementSpec

\* A complete cohort's traces are its confirmations: what has none is pending.
LEMMA TracesAreTrue ==
  ASSUME MeasurementInv, Ended, CohortComplete, NEW i \in Cohort
  PROVE  /\ transfers[i].receivedAt \in Nat
         /\ traces[i] = transfers[i].confirmedAt
         /\ traces[i] = Unconfirmed => transfers[i].state = "PENDING"
         /\ traces[i] # Unconfirmed => traces[i] \in Nat /\ transfers[i].receivedAt <= traces[i]
         /\ Unconfirmed \notin Nat
<1>1. i \in DOMAIN transfers /\ transfers[i] \in TransferRecords /\ reads = 3
  BY DEF MeasurementInv, MeasurementTypeOK, Cohort, Ended
<1>2. /\ transfers[i].receivedAt \in Nat /\ transfers[i].confirmedAt \in Nat \union {Unconfirmed}
      /\ Unconfirmed \notin Nat
  BY <1>1 DEF TransferRecords, Unconfirmed
<1>3. traces[i] # Unconfirmed => traces[i] = transfers[i].confirmedAt
  BY <1>1 DEF MeasurementInv, EvidenceIsTrue
<1>4. snapshot[i] = transfers[i].state
  BY <1>1 DEF MeasurementInv, EvidenceIsTrue
<1>5. traces[i] = Unconfirmed => transfers[i].state = "PENDING"
  BY <1>4 DEF CohortComplete
<1>6. transfers[i].confirmedAt # Unconfirmed =>
        /\ transfers[i].state # "PENDING"
        /\ transfers[i].receivedAt <= transfers[i].confirmedAt
  BY <1>1 DEF MeasurementInv, ConfirmedInTime
<1> QED
  BY <1>2, <1>3, <1>5, <1>6

\* What the traces show open at a boundary.
OpenAt(w) == {i \in Cohort : Open(i, w)}

\* A window's arrivals join what was open, and its confirmations leave it.
LEMMA FlowThroughWindow ==
  ASSUME MeasurementInv, Ended, CohortComplete, NEW w \in Nat
  PROVE  LET arrivals == {i \in Cohort : ReceivedAt(i) = w}
             confirmations == {i \in Cohort : traces[i] = w}
         IN /\ {Cardinality(OpenAt(w)), Cardinality(arrivals), Cardinality(confirmations)}
                 \subseteq Nat
            /\ Cardinality(OpenAt(w)) + Cardinality(arrivals) - Cardinality(confirmations)
                 = Cardinality(OpenAt(w + 1))
<1> DEFINE arrivals == {i \in Cohort : ReceivedAt(i) = w}
           confirmations == {i \in Cohort : traces[i] = w}
           before == OpenAt(w)
           after == OpenAt(w + 1)
<1>1. ASSUME NEW i \in Cohort
      PROVE  /\ i \in after <=> (i \in before \/ i \in arrivals) /\ i \notin confirmations
             /\ ~(i \in before /\ i \in arrivals)
             /\ i \in confirmations => i \in before \/ i \in arrivals
  <2>1. PICK r \in Nat : r = transfers[i].receivedAt
    BY TracesAreTrue
  <2>2. PICK t : t = traces[i] /\ (t = Unconfirmed \/ (t \in Nat /\ r <= t))
    BY <2>1, TracesAreTrue
  <2>3. Unconfirmed \notin Nat
    BY DEF Unconfirmed
  <2>4. /\ i \in before <=> r < w /\ (t = Unconfirmed \/ t >= w)
        /\ i \in after <=> r < w + 1 /\ (t = Unconfirmed \/ t >= w + 1)
        /\ i \in arrivals <=> r = w
        /\ i \in confirmations <=> t = w
    BY <2>1, <2>2 DEF OpenAt, Open, ReceivedAt
  <2>5. CASE t = Unconfirmed
    BY <2>1, <2>3, <2>4, <2>5
  <2>6. CASE t \in Nat /\ r <= t
    BY <2>1, <2>3, <2>4, <2>6
  <2> QED
    BY <2>2, <2>5, <2>6
<1>2. /\ before \subseteq Cohort /\ after \subseteq Cohort
      /\ arrivals \subseteq Cohort /\ confirmations \subseteq Cohort
  BY DEF OpenAt
<1>3. /\ IsFiniteSet(before) /\ IsFiniteSet(arrivals) /\ IsFiniteSet(before \union arrivals)
      /\ {Cardinality(before), Cardinality(arrivals), Cardinality(confirmations)} \subseteq Nat
      /\ Cardinality(before \union arrivals) \in Nat
  <2>1. /\ before \subseteq DOMAIN transfers /\ arrivals \subseteq DOMAIN transfers
        /\ confirmations \subseteq DOMAIN transfers
        /\ (before \union arrivals) \subseteq DOMAIN transfers
    BY <1>2 DEF Cohort
  <2> HIDE DEF before, arrivals, confirmations
  <2> QED
    BY <2>1, TransfersAreFinite DEF MeasurementInv
<1> HIDE DEF arrivals, confirmations, before, after
<1>4. /\ before \intersect arrivals = {}
      /\ after = (before \union arrivals) \ confirmations
      /\ (before \union arrivals) \intersect confirmations = confirmations
  BY <1>1, <1>2
<1>5. Cardinality(before \union arrivals) = Cardinality(before) + Cardinality(arrivals)
  <2>1. Cardinality(before \union arrivals)
          = Cardinality(before) + Cardinality(arrivals) - Cardinality(before \intersect arrivals)
    BY <1>3, FS_Union
  <2>2. Cardinality(before \intersect arrivals) = 0
    BY <1>4, FS_EmptySet
  <2> QED
    BY <1>3, <2>1, <2>2
<1>6. Cardinality(after) = Cardinality(before \union arrivals) - Cardinality(confirmations)
  <2>1. Cardinality((before \union arrivals) \ confirmations)
          = Cardinality(before \union arrivals)
              - Cardinality((before \union arrivals) \intersect confirmations)
    BY <1>3, FS_Difference
  <2> QED
    BY <1>4, <2>1
<1>7. Cardinality(before) + Cardinality(arrivals) - Cardinality(confirmations) = Cardinality(after)
  BY <1>3, <1>5, <1>6
<1> QED
  BY <1>3, <1>7 DEF arrivals, confirmations, before, after

\* The series deriveOutcomes() reports is the queue as it was: the flow through the
\* windows adds up to it, and at each boundary it is what was under way.
THEOREM MeasuredBacklogIsTheQueue == MeasurementSpec => []MeasuredBacklogIsReal
<1>1. ASSUME MeasurementInv, Ended, CohortComplete
      PROVE  QueueAccounting /\ Backlog = outstanding
  <2>1. Windows \in Nat /\ reads = 3 /\ clock \in Nat /\ None \notin Nat /\ Windows <= clock
    <3>1. Windows \in Nat /\ reads = 3 /\ clock \in Nat /\ None \notin Nat
      BY <1>1, QueueMeasurementAssumption DEF MeasurementInv, MeasurementTypeOK, Ended, None
    <3>2. observationEnd \in Nat /\ Windows <= observationEnd /\ observationEnd < clock
      BY <1>1, <3>1 DEF MeasurementInv, MeasurementTypeOK, ObservedFirst
    <3> QED
      BY <3>1, <3>2
  <2>2. \A w \in 1..Windows : Backlog[w] = Cardinality(OpenAt(w))
    BY DEF Backlog, OpenAt
  <2>3. Cardinality(OpenAt(0)) = 0
    <3>1. \A i \in Cohort : ~Open(i, 0)
      BY <1>1, TracesAreTrue DEF Open, ReceivedAt
    <3>2. OpenAt(0) = {}
      BY <3>1 DEF OpenAt
    <3> QED
      BY <3>2, FS_EmptySet
  <2>4. ASSUME NEW w \in 1..Windows
        PROVE  (IF w = 1 THEN 0 ELSE Backlog[w - 1])
                 + Cardinality({i \in Cohort : ReceivedAt(i) = w - 1})
                 - Cardinality({i \in Cohort : traces[i] = w - 1}) = Backlog[w]
    <3>1. PICK v \in Nat : v = w - 1
      BY <2>1
    <3>2. v + 1 = w
      BY <2>1, <3>1
    <3>3. (IF w = 1 THEN 0 ELSE Backlog[w - 1]) = Cardinality(OpenAt(v))
      <4>1. CASE w = 1
        BY <2>3, <3>1, <4>1
      <4>2. CASE w # 1
        BY <2>1, <2>2, <3>1, <4>2
      <4> QED
        BY <4>1, <4>2
    <3>4. Cardinality(OpenAt(v)) + Cardinality({i \in Cohort : ReceivedAt(i) = v})
            - Cardinality({i \in Cohort : traces[i] = v}) = Cardinality(OpenAt(v + 1))
      BY <1>1, FlowThroughWindow
    <3> QED
      BY <2>2, <3>1, <3>2, <3>3, <3>4
  <2>5. QueueAccounting
    BY <2>4 DEF QueueAccounting
  <2>6. OutstandingIsTrue /\ Len(outstanding) = Windows
    BY <1>1, <2>1 DEF MeasurementInv, OutstandingIsTrue
  <2>7. ASSUME NEW w \in 1..Windows PROVE outstanding[w] = Backlog[w]
    <3>1. PICK S \in SUBSET DOMAIN transfers :
            /\ outstanding[w] = Cardinality(S)
            /\ SurelyOpen(w) \subseteq S /\ S \subseteq PerhapsOpen(w)
      BY <2>6 DEF OutstandingIsTrue
    <3>2. ASSUME NEW i \in Cohort
          PROVE  /\ i \in OpenAt(w) => i \in SurelyOpen(w)
                 /\ i \in PerhapsOpen(w) => i \in OpenAt(w)
      <4>1. /\ traces[i] = transfers[i].confirmedAt
            /\ traces[i] = Unconfirmed => transfers[i].state = "PENDING"
        BY <1>1, TracesAreTrue
      <4> QED
        BY <4>1 DEF OpenAt, Open, ReceivedAt, SurelyOpen, PerhapsOpen
    <3>3. /\ OpenAt(w) \subseteq Cohort /\ SurelyOpen(w) \subseteq Cohort
          /\ PerhapsOpen(w) \subseteq Cohort
      BY DEF OpenAt, SurelyOpen, PerhapsOpen
    <3>4. S = OpenAt(w)
      BY <3>1, <3>2, <3>3
    <3> QED
      BY <2>2, <3>1, <3>4
  <2>8. DOMAIN outstanding = 1..Windows /\ outstanding = [w \in 1..Windows |-> outstanding[w]]
    <3>1. outstanding \in Seq(Nat)
      BY <1>1 DEF MeasurementInv, MeasurementTypeOK
    <3> QED
      BY <2>1, <2>6, <3>1
  <2>9. Backlog = [w \in 1..Windows |-> Backlog[w]]
    BY DEF Backlog
  <2> QED
    BY <2>5, <2>7, <2>8, <2>9
<1>2. MeasurementInv => MeasuredBacklogIsReal
  BY <1>1 DEF MeasuredBacklogIsReal
<1> QED
  BY <1>2, MeasurementInvariant, PTL

\* No verdict on a queue is given for a trial that left a transfer unfulfilled, or one of
\* its cohort without a confirmation in time, whichever request was answered when.
THEOREM VerdictsNeedSettledWork == MeasurementSpec => []VerdictNeedsSettledWork
<1> DEFINE OnTheQueue == {"OBSERVATION_RECORDED", "SUSTAINED", "NOT_SUSTAINED_QUEUE_GROWTH",
                          "INCONCLUSIVE"}
<1>1. ASSUME Verdicts \intersect OnTheQueue # {}
      PROVE  CohortComplete /\ CorrectnessHolds
  <2>1. PICK d \in BOOLEAN : Status(d, TRUE, TRUE, TRUE) \in OnTheQueue
    BY <1>1 DEF Verdicts
  <2>2. Status(d, TRUE, TRUE, TRUE) \notin {"INVALID_OR_HARNESS_LIMIT",
                                            "CORRECTNESS_REVIEW_REQUIRED", "NOT_CORRECTLY_SUSTAINED"}
    BY <2>1
  <2> QED
    BY <2>2 DEF Status
<1>2. ASSUME MeasurementInv, Ended, CohortComplete, CorrectnessHolds
      PROVE  /\ \A i \in DOMAIN transfers : transfers[i].state = "FULFILLED"
             /\ \A i \in Cohort : transfers[i].confirmedAt \in 0..observationEnd
  <2>1. reads = 3 /\ observationEnd \in Nat
    BY <1>2 DEF Ended, MeasurementInv, MeasurementTypeOK, ObservedFirst
  <2>2. ASSUME NEW i \in DOMAIN transfers PROVE transfers[i].state = "FULFILLED"
    BY <1>2, <2>1 DEF CorrectnessHolds, MeasurementInv, EvidenceIsTrue
  <2>3. ASSUME NEW i \in Cohort PROVE transfers[i].confirmedAt \in 0..observationEnd
    <3>1. traces[i] # Unconfirmed
      BY <1>2 DEF CorrectnessHolds, Correct
    <3>2. traces[i] \in ReceivedAt(i)..observationEnd
      BY <1>2, <3>1 DEF CohortComplete
    <3>3. traces[i] = transfers[i].confirmedAt /\ transfers[i].receivedAt \in Nat
      BY <1>2, TracesAreTrue
    <3> QED
      BY <2>1, <3>2, <3>3 DEF ReceivedAt
  <2> QED
    BY <2>2, <2>3
<1>3. MeasurementInv => VerdictNeedsSettledWork
  BY <1>1, <1>2 DEF VerdictNeedsSettledWork
<1> QED
  BY <1>3, MeasurementInvariant, PTL

-------------------------------------------------------------------------------
(* The rules that read the series.  Both are about its slope: where the series  *)
(* only goes one way, the terms of the slope all have its sign.  The sums are   *)
(* recursive; each induction is the smallest of its counterexamples.            *)

\* Every set of natural numbers has a smallest one.
LEMMA SmallestNumber ==
  ASSUME NEW T, T \subseteq Nat, T # {}
  PROVE  \E m \in T : \A n \in T : m <= n
<1>1. PICK m \in T : \A n \in T : ~ (<<n, m>> \in OpToRel(<, Nat))
  BY NatLessThanWellFounded, WFMin
<1>2. \A n \in T : ~ (n < m)
  BY <1>1 DEF OpToRel
<1> QED
  BY <1>2

\* The recursion of Total over the first n values of f.
Totalling(h, f, n) ==
  h = [k \in 0..n |-> IF k = 0 THEN 0 ELSE h[k - 1] + f[k]]

\* There is one for every n.
LEMMA TotallingExists ==
  ASSUME NEW f, NEW n \in Nat
  PROVE  \E h : Totalling(h, f, n)
<1> DEFINE T == {i \in Nat : ~ \E h : Totalling(h, f, i)}
<1>1. SUFFICES ASSUME T # {} PROVE FALSE
  OBVIOUS
<1>2. PICK m \in T : \A j \in T : m <= j
  <2> HIDE DEF T
  <2>1. T \subseteq Nat
    BY DEF T
  <2> QED
    BY <1>1, <2>1, SmallestNumber
<1>3. m # 0
  <2>1. PICK z : z = [k \in 0..0 |-> 0]
    OBVIOUS
  <2>2. z = [k \in 0..0 |-> IF k = 0 THEN 0 ELSE z[k - 1] + f[k]]
    BY <2>1
  <2> QED
    BY <1>2, <2>2 DEF Totalling
<1>4. m \in Nat /\ m - 1 \in Nat /\ ~(m <= m - 1)
  BY <1>2, <1>3
<1>5. PICK h : Totalling(h, f, m - 1)
  BY <1>2, <1>4
<1>6. PICK g : g = [k \in 0..m |-> IF k = m THEN h[m - 1] + f[m] ELSE h[k]]
  OBVIOUS
<1>7. ASSUME NEW k \in 0..m
      PROVE  g[k] = IF k = 0 THEN 0 ELSE g[k - 1] + f[k]
  <2>1. CASE k = m
    BY <1>3, <1>4, <1>6, <2>1
  <2>2. CASE k # m
    <3>1. k \in 0..(m - 1) /\ g[k] = h[k]
      BY <1>4, <1>6, <2>2
    <3>2. h[k] = IF k = 0 THEN 0 ELSE h[k - 1] + f[k]
      BY <1>5, <3>1 DEF Totalling
    <3>3. k # 0 => g[k - 1] = h[k - 1]
      BY <1>4, <1>6, <3>1
    <3> QED
      BY <3>1, <3>2, <3>3
  <2> QED
    BY <2>1, <2>2
<1>8. g = [k \in 0..m |-> g[k]]
  BY <1>6
<1>9. Totalling(g, f, m)
  BY <1>7, <1>8 DEF Totalling
<1> QED
  BY <1>2, <1>9

\* Two of them agree as far as both go.
LEMMA TotallingsAgree ==
  ASSUME NEW f, NEW n \in Nat, NEW l \in Nat, n <= l,
         NEW h, NEW g, Totalling(h, f, n), Totalling(g, f, l)
  PROVE  h[n] = g[n]
<1> DEFINE T == {i \in 0..n : h[i] # g[i]}
<1>1. SUFFICES ASSUME T # {} PROVE FALSE
  <2>1. n \in 0..n
    OBVIOUS
  <2> QED
    BY <2>1
<1>2. PICK i \in T : \A j \in T : i <= j
  <2> HIDE DEF T
  <2>1. T \subseteq Nat
    BY DEF T
  <2> QED
    BY <1>1, <2>1, SmallestNumber
<1>3. i \in 0..n /\ i \in 0..l /\ i \in Nat
  BY <1>2
<1>4. /\ h[i] = IF i = 0 THEN 0 ELSE h[i - 1] + f[i]
      /\ g[i] = IF i = 0 THEN 0 ELSE g[i - 1] + f[i]
  BY <1>3 DEF Totalling
<1>5. i # 0
  BY <1>2, <1>4
<1>6. i - 1 \in 0..n /\ ~(i <= i - 1)
  BY <1>3, <1>5
<1>7. h[i - 1] = g[i - 1]
  BY <1>2, <1>6
<1> QED
  BY <1>2, <1>4, <1>5, <1>7

\* Total adds up the values one after another.
LEMMA TotalSteps ==
  ASSUME NEW f, NEW n \in Nat
  PROVE  Total(f, 0) = 0 /\ Total(f, n + 1) = Total(f, n) + f[n + 1]
<1>1. ASSUME NEW l \in Nat PROVE \E h : Totalling(h, f, l) /\ Total(f, l) = h[l]
  <2>1. PICK h : h = CHOOSE g : Totalling(g, f, l)
    OBVIOUS
  <2>2. Totalling(h, f, l)
    BY <2>1, TotallingExists
  <2>3. Total(f, l) = h[l]
    BY <2>1 DEF Total, Totalling
  <2> QED
    BY <2>2, <2>3
<1>2. Total(f, 0) = 0
  <2>1. PICK h : Totalling(h, f, 0) /\ Total(f, 0) = h[0]
    BY <1>1
  <2> QED
    BY <2>1 DEF Totalling
<1>3. PICK h : Totalling(h, f, n) /\ Total(f, n) = h[n]
  BY <1>1
<1>4. PICK l \in Nat : l = n + 1
  OBVIOUS
<1>5. PICK g : Totalling(g, f, l) /\ Total(f, l) = g[l]
  BY <1>1
<1>6. n <= l /\ l \in 0..l /\ l # 0 /\ l - 1 = n
  BY <1>4
<1>7. g[l] = g[n] + f[l]
  BY <1>5, <1>6 DEF Totalling
<1>8. h[n] = g[n]
  BY <1>3, <1>5, <1>6, TotallingsAgree
<1> QED
  BY <1>2, <1>3, <1>4, <1>5, <1>7, <1>8

\* One more value, at least as high as the last one: what holds of the sums a of
\* i * y[i] and b of y[i] up to k, and of the sum x of the indices.
LEMMA SlopeStep ==
  ASSUME NEW k \in Nat \ {0}, NEW x \in Nat \ {0}, 2 * x = k * (k + 1),
         NEW a \in Int, NEW b \in Int, NEW v \in Int, NEW u \in Int, v <= u,
         b <= k * v, (k + 1) * b - a <= x * v
  PROVE  /\ 2 * (x + (k + 1)) = (k + 1) * ((k + 1) + 1)
         /\ b + u <= (k + 1) * u
         /\ ((k + 1) + 1) * (b + u) - (a + (k + 1) * u) <= (x + (k + 1)) * u
         /\ k * a - x * b <= (k + 1) * (a + (k + 1) * u) - (x + (k + 1)) * (b + u)
         /\ v < u => k * a - x * b < (k + 1) * (a + (k + 1) * u) - (x + (k + 1)) * (b + u)
<1>1. k * v <= k * u /\ x * v <= x * u /\ (v < u => x * v < x * u)
  <2>1. PICK d \in Nat : u = v + d
    <3>1. u - v \in Nat /\ u = v + (u - v)
      OBVIOUS
    <3> QED
      BY <3>1
  <2>2. k * u = k * v + k * d /\ x * u = x * v + x * d
    BY <2>1
  <2>3. k * d \in Nat /\ x * d \in Nat
    BY <2>1
  <2>4. d # 0 => x * d > 0
    OBVIOUS
  <2>5. k * v \in Int /\ x * v \in Int
    OBVIOUS
  <2> QED
    BY <2>1, <2>2, <2>3, <2>4, <2>5
<1>2. /\ k * u \in Int /\ x * u \in Int /\ k * v \in Int /\ x * v \in Int /\ k * b \in Int
      /\ k * a \in Int /\ x * b \in Int /\ k * k \in Int /\ (k * k) * u \in Int
  OBVIOUS
<1>3. /\ (k + 1) * u = k * u + u /\ (k + 1) * b = k * b + b
      /\ ((k + 1) + 1) * (b + u) = k * b + k * u + 2 * b + 2 * u
      /\ (x + (k + 1)) * u = x * u + k * u + u
      /\ (x + (k + 1)) * (b + u) = x * b + x * u + k * b + k * u + b + u
  OBVIOUS
<1>4. (k + 1) * (a + (k + 1) * u) = k * a + a + (k * k) * u + 2 * (k * u) + u
  OBVIOUS
<1>5. (k * k) * u + k * u = 2 * (x * u)
  <2>1. (k * (k + 1)) * u = (k * k) * u + k * u
    OBVIOUS
  <2>2. (2 * x) * u = 2 * (x * u)
    OBVIOUS
  <2> QED
    BY <2>1, <2>2
<1>6. 2 * (x + (k + 1)) = (k + 1) * ((k + 1) + 1)
  OBVIOUS
<1>7. b + u <= (k + 1) * u
  BY <1>1, <1>2, <1>3
<1>8. ((k + 1) + 1) * (b + u) - (a + (k + 1) * u) <= (x + (k + 1)) * u
  BY <1>1, <1>2, <1>3
<1>9. (k + 1) * (a + (k + 1) * u) - (x + (k + 1)) * (b + u)
        = (k * a - x * b) + x * u - ((k + 1) * b - a)
  BY <1>2, <1>3, <1>4, <1>5
<1>10. (k + 1) * b - a \in Int /\ k * a - x * b \in Int
  BY <1>2, <1>3
<1> QED
  BY <1>1, <1>2, <1>6, <1>7, <1>8, <1>9, <1>10

\* The slope of a series, of which Slope is an instance.
SlopeOf(y, n) ==
  n * Total([i \in 1..n |-> i * y[i]], n) - Total([i \in 1..n |-> i], n) * Total(y, n)

\* A series that never falls has no falling slope, and a rising one when it rises at all.
LEMMA RisingSlope ==
  ASSUME NEW n \in Nat \ {0}, NEW y, \A i \in 1..n : y[i] \in Int,
         \A i \in 2..n : y[i - 1] <= y[i]
  PROVE  /\ SlopeOf(y, n) \in Int /\ SlopeOf(y, n) >= 0
         /\ (\E i \in 2..n : y[i - 1] < y[i]) => SlopeOf(y, n) > 0
<1> DEFINE A(k) == Total([i \in 1..n |-> i * y[i]], k)
           X(k) == Total([i \in 1..n |-> i], k)
           Y(k) == Total(y, k)
           D(k) == k * A(k) - X(k) * Y(k)
           Holds(k) == /\ A(k) \in Int /\ Y(k) \in Int /\ X(k) \in Nat \ {0}
                       /\ 2 * X(k) = k * (k + 1)
                       /\ Y(k) <= k * y[k] /\ (k + 1) * Y(k) - A(k) <= X(k) * y[k]
                       /\ D(k) \in Int /\ D(k) >= 0
                       /\ (\E i \in 2..k : y[i - 1] < y[i]) => D(k) > 0
           T == {k \in 1..n : ~Holds(k)}
<1>1. ASSUME NEW k \in Nat, k + 1 \in 1..n
      PROVE  /\ A(k + 1) = A(k) + (k + 1) * y[k + 1]
             /\ X(k + 1) = X(k) + (k + 1)
             /\ Y(k + 1) = Y(k) + y[k + 1]
  BY SMTT(30), <1>1, TotalSteps
<1>2. A(0) = 0 /\ X(0) = 0 /\ Y(0) = 0
  BY TotalSteps
<1>3. Holds(1)
  <2>1. 0 \in Nat /\ 0 + 1 = 1 /\ 0 + 1 \in 1..n /\ 1 \in 1..n
    OBVIOUS
  <2>2. y[1] \in Int
    BY <2>1
  <2> HIDE DEF A, X, Y
  <2>3. A(1) = 0 + 1 * y[1] /\ X(1) = 0 + 1 /\ Y(1) = 0 + y[1]
    BY <1>1, <1>2, <2>1
  <2>4. A(1) = y[1] /\ X(1) = 1 /\ Y(1) = y[1]
    BY <2>2, <2>3
  <2>5. D(1) = 0
    BY <2>2, <2>4
  <2>6. ~ \E i \in 2..1 : y[i - 1] < y[i]
    OBVIOUS
  <2> QED
    BY <2>2, <2>4, <2>5, <2>6
<1>4. ASSUME NEW k \in Nat \ {0}, k + 1 \in 1..n, Holds(k) PROVE Holds(k + 1)
  <2> HIDE DEF A, X, Y
  <2>1. /\ k \in 1..n /\ k + 1 \in 2..n /\ (k + 1) - 1 = k
        /\ k \in Nat
    BY <1>4
  <2>2. y[k] \in Int /\ y[k + 1] \in Int /\ y[k] <= y[k + 1]
    BY <2>1
  <2>3. PICK a \in Int, b \in Int, x \in Nat \ {0}, v \in Int, u \in Int :
          a = A(k) /\ b = Y(k) /\ x = X(k) /\ v = y[k] /\ u = y[k + 1]
    BY <1>4, <2>2
  <2>4. /\ A(k + 1) = a + (k + 1) * u /\ X(k + 1) = x + (k + 1) /\ Y(k + 1) = b + u
        /\ A(k + 1) \in Int /\ X(k + 1) \in Nat \ {0} /\ Y(k + 1) \in Int
    BY <1>1, <1>4, <2>1, <2>3
  <2>5. /\ 2 * x = k * (k + 1) /\ v <= u /\ b <= k * v /\ (k + 1) * b - a <= x * v
        /\ k * a - x * b >= 0 /\ k * a - x * b \in Int
        /\ (\E i \in 2..k : y[i - 1] < y[i]) => k * a - x * b > 0
    BY <1>4, <2>2, <2>3
  <2>6. /\ 2 * (x + (k + 1)) = (k + 1) * ((k + 1) + 1)
        /\ b + u <= (k + 1) * u
        /\ ((k + 1) + 1) * (b + u) - (a + (k + 1) * u) <= (x + (k + 1)) * u
        /\ k * a - x * b <= (k + 1) * (a + (k + 1) * u) - (x + (k + 1)) * (b + u)
        /\ v < u => k * a - x * b < (k + 1) * (a + (k + 1) * u) - (x + (k + 1)) * (b + u)
    <3>1. 2 * x = k * (k + 1) /\ v <= u /\ b <= k * v /\ (k + 1) * b - a <= x * v
      BY <2>5
    <3> QED
      BY ONLY <3>1, SlopeStep
  <2>7. PICK d \in Int : d = D(k + 1)
    BY <2>4
  <2>8. PICK c \in Int : c = k * a - x * b
    BY <2>5
  <2>9. c <= d /\ (v < u => c < d) /\ c >= 0
    BY <2>4, <2>5, <2>6, <2>7, <2>8
  <2>10. (\E i \in 2..(k + 1) : y[i - 1] < y[i]) => d > 0
    <3>1. ASSUME NEW i \in 2..(k + 1), y[i - 1] < y[i] PROVE d > 0
      <4>1. CASE i = k + 1
        BY <2>1, <2>3, <2>9, <3>1, <4>1
      <4>2. CASE i # k + 1
        <5>1. i \in 2..k
          BY <2>1, <4>2
        <5>2. c > 0
          BY <2>5, <2>8, <3>1, <5>1
        <5> QED
          BY <2>9, <5>2
      <4> QED
        BY <4>1, <4>2
    <3> QED
      BY <3>1
  <2>11. d >= 0
    BY <2>9
  <2> HIDE DEF D
  <2> QED
    BY <2>3, <2>4, <2>6, <2>7, <2>10, <2>11
<1>5. T = {}
  <2> HIDE DEF Holds
  <2>1. SUFFICES ASSUME T # {} PROVE FALSE
    OBVIOUS
  <2>2. PICK k \in T : \A j \in T : k <= j
    <3> HIDE DEF T
    <3>1. T \subseteq Nat
      BY DEF T
    <3> QED
      BY <2>1, <3>1, SmallestNumber
  <2>3. k \in 1..n /\ ~Holds(k)
    BY <2>2
  <2>4. k # 1
    BY <1>3, <2>3
  <2>5. PICK j \in Nat \ {0} : k = j + 1
    <3>1. k - 1 \in Nat \ {0} /\ k = (k - 1) + 1
      BY <2>3, <2>4
    <3> QED
      BY <3>1
  <2>6. j \in 1..n /\ ~(k <= j)
    BY <2>3, <2>5
  <2>7. Holds(j)
    BY <2>2, <2>6
  <2> QED
    BY <1>4, <2>3, <2>5, <2>7
<1>6. Holds(n)
  <2> HIDE DEF Holds
  <2>1. n \in 1..n
    OBVIOUS
  <2> QED
    BY <1>5, <2>1
<1>7. SlopeOf(y, n) = D(n)
  BY DEF SlopeOf
<1> HIDE DEF A, X, Y, D
<1> QED
  BY <1>6, <1>7

\* The sum of the opposite values is the opposite sum.
LEMMA TotalOpposite ==
  ASSUME NEW n \in Nat, NEW f, NEW g, \A i \in 1..n : f[i] \in Int /\ g[i] = -f[i]
  PROVE  Total(f, n) \in Int /\ Total(g, n) = -Total(f, n)
<1> DEFINE Holds(k) == Total(f, k) \in Int /\ Total(g, k) = -Total(f, k)
           T == {k \in 0..n : ~Holds(k)}
<1>1. SUFFICES ASSUME T # {} PROVE FALSE
  <2>1. n \in 0..n
    OBVIOUS
  <2> QED
    BY <2>1
<1>2. PICK k \in T : \A j \in T : k <= j
  <2> HIDE DEF T
  <2>1. T \subseteq Nat
    BY DEF T
  <2> QED
    BY <1>1, <2>1, SmallestNumber
<1>3. k # 0
  <2>1. Total(f, 0) = 0 /\ Total(g, 0) = 0
    BY TotalSteps
  <2> QED
    BY <1>2, <2>1
<1>4. PICK j \in Nat : k = j + 1
  <2>1. k - 1 \in Nat /\ k = (k - 1) + 1
    BY <1>2, <1>3
  <2> QED
    BY <2>1
<1>5. j \in 0..n /\ ~(k <= j) /\ k \in 1..n
  BY <1>2, <1>4
<1>6. Total(f, j) \in Int /\ Total(g, j) = -Total(f, j)
  BY <1>2, <1>5
<1>7. /\ Total(f, k) = Total(f, j) + f[k] /\ Total(g, k) = Total(g, j) + g[k]
      /\ f[k] \in Int /\ g[k] = -f[k]
  BY <1>4, <1>5, TotalSteps
<1>8. Holds(k)
  BY <1>6, <1>7
<1> QED
  BY <1>2, <1>8

\* A series that never rises has no rising slope.
LEMMA FallingSlope ==
  ASSUME NEW n \in Nat \ {0}, NEW y, \A i \in 1..n : y[i] \in Int,
         \A i \in 2..n : y[i] <= y[i - 1]
  PROVE  SlopeOf(y, n) \in Int /\ SlopeOf(y, n) <= 0
<1>1. PICK z : z = [i \in 1..n |-> -y[i]]
  OBVIOUS
<1>2. /\ \A i \in 1..n : z[i] \in Int
      /\ \A i \in 2..n : z[i - 1] <= z[i]
  <2>1. ASSUME NEW i \in 2..n PROVE z[i - 1] <= z[i]
    <3>1. i \in 1..n /\ i - 1 \in 1..n /\ y[i] <= y[i - 1]
      OBVIOUS
    <3> QED
      BY <1>1, <3>1
  <2> QED
    BY <1>1, <2>1
<1>3. SlopeOf(z, n) \in Int /\ SlopeOf(z, n) >= 0
  BY <1>2, RisingSlope
<1>4. PICK f, g : f = [i \in 1..n |-> i * y[i]] /\ g = [i \in 1..n |-> i * z[i]]
  OBVIOUS
<1>5. \A i \in 1..n : f[i] \in Int /\ g[i] = -f[i]
  <2>1. ASSUME NEW i \in 1..n PROVE f[i] \in Int /\ g[i] = -f[i]
    <3>1. f[i] = i * y[i] /\ g[i] = i * (-y[i]) /\ y[i] \in Int
      BY <1>1, <1>4
    <3> QED
      BY <3>1
  <2> QED
    BY <2>1
<1>6. Total(f, n) \in Int /\ Total(g, n) = -Total(f, n)
  BY <1>5, TotalOpposite
<1>7. Total(y, n) \in Int /\ Total(z, n) = -Total(y, n)
  <2>1. \A i \in 1..n : y[i] \in Int /\ z[i] = -y[i]
    BY <1>1
  <2> QED
    BY <2>1, TotalOpposite
<1>8. PICK x : x = Total([i \in 1..n |-> i], n)
  OBVIOUS
<1>9. x \in Int
  <2>1. PICK e, h : e = [i \in 1..n |-> i] /\ h = [i \in 1..n |-> -i]
    OBVIOUS
  <2>2. \A i \in 1..n : e[i] \in Int /\ h[i] = -e[i]
    BY <2>1
  <2> QED
    BY <1>8, <2>1, <2>2, TotalOpposite
<1>10. SlopeOf(y, n) = n * Total(f, n) - x * Total(y, n)
  BY <1>4, <1>8 DEF SlopeOf
<1>11. SlopeOf(z, n) = n * (-Total(f, n)) - x * (-Total(y, n))
  BY <1>4, <1>6, <1>7, <1>8 DEF SlopeOf
<1>12. SlopeOf(z, n) = -SlopeOf(y, n) /\ SlopeOf(y, n) \in Int
  BY <1>6, <1>7, <1>9, <1>10, <1>11
<1> QED
  BY <1>3, <1>12

\* The last six boundaries of a series.
LEMMA RecentSeries ==
  ASSUME NEW ys \in Seq(Nat), Len(ys) >= 6
  PROVE  /\ Recent(ys) \in Seq(Nat) /\ Len(Recent(ys)) = 6
         /\ \A i \in 1..6 : Recent(ys)[i] = ys[Len(ys) - 6 + i]
<1>1. PICK n \in Nat : n = Len(ys) /\ n >= 6
  OBVIOUS
<1>2. n - 5 \in 1..n /\ Recent(ys) = SubSeq(ys, n - 5, n)
  BY <1>1 DEF Recent
<1>3. ASSUME NEW i \in 1..6 PROVE SubSeq(ys, n - 5, n)[i] = ys[n - 6 + i]
  <2>1. PICK m \in Nat : m = n - 5
    BY <1>1
  <2>2. i \in 1..(n - m + 1) /\ m + i - 1 = n - 6 + i /\ m \in 1..n
    BY <1>2, <2>1
  <2>3. SubSeq(ys, m, n)[i] = ys[m + i - 1]
    BY <1>1, <2>2
  <2> QED
    BY <2>1, <2>2, <2>3
<1>4. SubSeq(ys, n - 5, n) \in Seq(Nat) /\ Len(SubSeq(ys, n - 5, n)) = 6
  BY <1>1, <1>2
<1> QED
  BY <1>1, <1>2, <1>3, <1>4

\* The draft rule calls a queue that never rose sustained.
LEMMA NoRiseIsSustained ==
  ASSUME NEW ys \in Seq(Nat), Len(ys) >= 6, ~AnyRise(ys)
  PROVE  Classify(ys) = "SUSTAINED"
<1>1. PICK n \in Nat \ {0} : n = Len(ys) /\ n >= 6
  <2>1. Len(ys) \in Nat \ {0}
    OBVIOUS
  <2> QED
    BY <2>1
<1>2. /\ \A i \in 1..n : ys[i] \in Nat /\ ys[i] \in Int
      /\ \A i \in 2..n : ys[i] <= ys[i - 1]
  <2>1. \A i \in 1..n : ys[i] \in Nat
    BY <1>1
  <2>2. ASSUME NEW i \in 2..n PROVE ys[i] <= ys[i - 1]
    <3>1. ~(ys[i] > ys[i - 1])
      BY <1>1 DEF AnyRise
    <3>2. ys[i] \in Nat /\ ys[i - 1] \in Nat
      BY <2>1
    <3> QED
      BY <3>1, <3>2
  <2> QED
    BY <2>1, <2>2
<1>3. Slope(ys) <= 0
  <2>1. SlopeOf(ys, n) <= 0
    BY <1>2, FallingSlope
  <2> QED
    BY <1>1, <2>1 DEF Slope, SlopeOf
<1>4. Slope(Recent(ys)) <= 0
  <2>1. PICK r : r = Recent(ys)
    OBVIOUS
  <2>2. r \in Seq(Nat) /\ Len(r) = 6 /\ \A i \in 1..6 : r[i] = ys[n - 6 + i]
    BY <1>1, <2>1, RecentSeries
  <2>3. \A i \in 1..6 : r[i] \in Int
    <3>1. \A i \in 1..6 : n - 6 + i \in 1..n
      BY <1>1
    <3> QED
      BY <1>2, <2>2, <3>1
  <2>4. ASSUME NEW i \in 2..6 PROVE r[i] <= r[i - 1]
    <3>1. /\ i \in 1..6 /\ i - 1 \in 1..6
          /\ n - 6 + i \in 2..n /\ (n - 6 + i) - 1 = n - 6 + (i - 1)
      BY <1>1
    <3>2. ys[n - 6 + i] <= ys[(n - 6 + i) - 1]
      BY <1>2, <3>1
    <3> QED
      BY <2>2, <3>1, <3>2
  <2>5. 6 \in Nat \ {0}
    OBVIOUS
  <2>6. SlopeOf(r, 6) <= 0
    BY <2>3, <2>4, <2>5, FallingSlope
  <2> QED
    BY <2>1, <2>2, <2>6 DEF Slope, SlopeOf
<1>5. PersistentGrowthAt(ys) = {}
  <2> SUFFICES ASSUME NEW k \in PersistentGrowthAt(ys) PROVE FALSE
    OBVIOUS
  <2>1. PICK b : b = <<0>> \o ys
    OBVIOUS
  <2>2. k \in 6..n /\ b[k + 1] > b[k - 1]
    BY <1>1, <2>1 DEF PersistentGrowthAt
  <2>3. b[k + 1] = ys[k] /\ b[k - 1] = ys[k - 2]
    BY <1>1, <2>1, <2>2
  <2>4. /\ k \in 2..n /\ k - 1 \in 2..n /\ (k - 1) - 1 = k - 2
        /\ ys[k] \in Nat /\ ys[k - 1] \in Nat /\ ys[k - 2] \in Nat
    BY <1>2, <2>2
  <2>5. ys[k] <= ys[k - 1] /\ ys[k - 1] <= ys[k - 2]
    BY <1>2, <2>4
  <2> QED
    BY <2>2, <2>3, <2>4, <2>5
<1> QED
  BY <1>3, <1>4, <1>5 DEF Classify

\* It does not call a queue sustained that rose and never fell.
LEMMA RiseIsNotSustained ==
  ASSUME NEW ys \in Seq(Nat), Len(ys) >= 6, AnyRise(ys), ~AnyFall(ys)
  PROVE  Classify(ys) # "SUSTAINED"
<1>1. PICK n \in Nat \ {0} : n = Len(ys)
  <2>1. Len(ys) \in Nat \ {0}
    OBVIOUS
  <2> QED
    BY <2>1
<1>2. \A i \in 1..n : ys[i] \in Int
  BY <1>1
<1>3. ASSUME NEW i \in 2..n PROVE ys[i - 1] <= ys[i]
  <2>1. ~(ys[i] < ys[i - 1])
    BY <1>1 DEF AnyFall
  <2>2. ys[i] \in Int /\ ys[i - 1] \in Int
    BY <1>2
  <2> QED
    BY <2>1, <2>2
<1>4. \E i \in 2..n : ys[i - 1] < ys[i]
  <2>1. PICK i \in 2..n : ys[i] > ys[i - 1]
    BY <1>1 DEF AnyRise
  <2>2. ys[i - 1] < ys[i]
    BY <2>1
  <2> QED
    BY <2>2
<1>5. SlopeOf(ys, n) \in Int /\ SlopeOf(ys, n) > 0
  BY <1>2, <1>3, <1>4, RisingSlope
<1>6. Slope(ys) \in Int /\ Slope(ys) > 0
  BY <1>1, <1>5 DEF Slope, SlopeOf
<1>7. ~(Slope(ys) <= 0)
  BY <1>6
<1> QED
  BY <1>7 DEF Classify

\* The values of a series.
LEMMA SeriesValues ==
  ASSUME NEW ys \in Seq(Nat)
  PROVE  ys \in [1..Len(ys) -> Nat]
  OBVIOUS

\* What a part of a series contains.
LEMMA PartOfSeries ==
  ASSUME NEW ys \in Seq(Nat), NEW a \in 1..Len(ys), NEW b \in a..Len(ys)
  PROVE  Range(SubSeq(ys, a, b)) = {ys[i] : i \in a..b}
<1>1. a \in Nat /\ b \in Nat /\ 1 <= a /\ a <= b /\ b <= Len(ys) /\ Len(ys) \in Nat
  OBVIOUS
<1>2. PICK s : s = SubSeq(ys, a, b)
  OBVIOUS
<1>3. DOMAIN s = 1..(b - a + 1) /\ \A j \in 1..(b - a + 1) : s[j] = ys[a + j - 1]
  BY <1>1, <1>2
<1>4. ASSUME NEW i \in a..b PROVE \E j \in DOMAIN s : s[j] = ys[i]
  <2>1. i - a + 1 \in 1..(b - a + 1) /\ a + (i - a + 1) - 1 = i
    BY <1>1
  <2>2. s[i - a + 1] = ys[i] /\ i - a + 1 \in DOMAIN s
    BY <1>3, <2>1
  <2> QED
    BY <2>2
<1>5. ASSUME NEW j \in DOMAIN s PROVE \E i \in a..b : s[j] = ys[i]
  <2>1. a + j - 1 \in a..b /\ s[j] = ys[a + j - 1]
    BY <1>1, <1>3
  <2> QED
    BY <2>1
<1>6. Range(s) = {ys[i] : i \in a..b}
  BY <1>4, <1>5 DEF Range
<1> QED
  BY <1>2, <1>6

\* The extremes of two numbers.
LEMMA ExtremesOfTwo ==
  ASSUME NEW a \in Nat, NEW b \in Nat
  PROVE  \E l, u \in Nat : /\ l = Min({a, b}) /\ u = Max({a, b})
                           /\ l + u = a + b /\ l <= u /\ a - b <= u - l /\ b - a <= u - l
<1>1. \E x \in {a, b} : \A y \in {a, b} : x <= y
  OBVIOUS
<1>2. \E x \in {a, b} : \A y \in {a, b} : x >= y
  OBVIOUS
<1>3. Min({a, b}) \in {a, b} /\ \A y \in {a, b} : Min({a, b}) <= y
  BY <1>1 DEF Min
<1>4. Max({a, b}) \in {a, b} /\ \A y \in {a, b} : Max({a, b}) >= y
  BY <1>2 DEF Max
<1>5. PICK l \in {a, b}, u \in {a, b} :
        l = Min({a, b}) /\ u = Max({a, b}) /\ l <= a /\ l <= b /\ u >= a /\ u >= b
  BY <1>3, <1>4
<1>6. l \in Nat /\ u \in Nat
  OBVIOUS
<1>7. (l = a /\ u = b) \/ (l = b /\ u = a) \/ (l = a /\ u = a /\ a = b)
  BY <1>5
<1>8. l + u = a + b /\ l <= u /\ a - b <= u - l /\ b - a <= u - l
  BY <1>5, <1>7
<1> QED
  BY <1>5, <1>6, <1>8

\* Totals written out.
LEMMA TotalOfEight ==
  ASSUME NEW f, \A i \in 1..8 : f[i] \in Int
  PROVE  Total(f, 8) = f[1] + f[2] + f[3] + f[4] + f[5] + f[6] + f[7] + f[8]
<1>1. Total(f, 0) = 0
  BY TotalSteps
<1>2. ASSUME NEW k \in 0..7 PROVE Total(f, k + 1) = Total(f, k) + f[k + 1]
  BY TotalSteps
<1>3. /\ Total(f, 1) = Total(f, 0) + f[1] /\ Total(f, 2) = Total(f, 1) + f[2]
      /\ Total(f, 3) = Total(f, 2) + f[3] /\ Total(f, 4) = Total(f, 3) + f[4]
  <2>1. /\ 0 \in 0..7 /\ 1 \in 0..7 /\ 2 \in 0..7 /\ 3 \in 0..7
        /\ 0 + 1 = 1 /\ 1 + 1 = 2 /\ 2 + 1 = 3 /\ 3 + 1 = 4
    OBVIOUS
  <2> QED
    BY <1>2, <2>1
<1>4. /\ Total(f, 5) = Total(f, 4) + f[5] /\ Total(f, 6) = Total(f, 5) + f[6]
      /\ Total(f, 7) = Total(f, 6) + f[7] /\ Total(f, 8) = Total(f, 7) + f[8]
  <2>1. /\ 4 \in 0..7 /\ 5 \in 0..7 /\ 6 \in 0..7 /\ 7 \in 0..7
        /\ 4 + 1 = 5 /\ 5 + 1 = 6 /\ 6 + 1 = 7 /\ 7 + 1 = 8
    OBVIOUS
  <2> QED
    BY <1>2, <2>1
<1>5. /\ f[1] \in Int /\ f[2] \in Int /\ f[3] \in Int /\ f[4] \in Int
      /\ f[5] \in Int /\ f[6] \in Int /\ f[7] \in Int /\ f[8] \in Int
  OBVIOUS
<1> QED
  BY <1>1, <1>3, <1>4, <1>5

\* The slope of eight boundaries, written out.
LEMMA SlopeOfEight ==
  ASSUME NEW ys, \A i \in 1..8 : ys[i] \in Int, Len(ys) = 8
  PROVE  Slope(ys) = 28 * (ys[8] - ys[1]) + 20 * (ys[7] - ys[2])
                       + 12 * (ys[6] - ys[3]) + 4 * (ys[5] - ys[4])
<1>1. PICK f, x : f = [i \in 1..8 |-> i * ys[i]] /\ x = [i \in 1..8 |-> i]
  OBVIOUS
<1>2. \A i \in 1..8 : f[i] = i * ys[i] /\ f[i] \in Int
  BY <1>1
<1>3. \A i \in 1..8 : x[i] = i /\ x[i] \in Int
  BY <1>1
<1>4. Slope(ys) = 8 * Total(f, 8) - Total(x, 8) * Total(ys, 8)
  BY <1>1 DEF Slope
<1>5. Total(x, 8) = 36
  <2>1. Total(x, 8) = x[1] + x[2] + x[3] + x[4] + x[5] + x[6] + x[7] + x[8]
    BY <1>3, TotalOfEight
  <2>2. /\ x[1] = 1 /\ x[2] = 2 /\ x[3] = 3 /\ x[4] = 4
        /\ x[5] = 5 /\ x[6] = 6 /\ x[7] = 7 /\ x[8] = 8
    BY <1>3
  <2> QED
    BY ONLY <2>1, <2>2
<1>6. Total(ys, 8) = ys[1] + ys[2] + ys[3] + ys[4] + ys[5] + ys[6] + ys[7] + ys[8]
  BY TotalOfEight
<1>7. Total(f, 8) = ys[1] + 2 * ys[2] + 3 * ys[3] + 4 * ys[4]
                      + 5 * ys[5] + 6 * ys[6] + 7 * ys[7] + 8 * ys[8]
  <2>1. Total(f, 8) = f[1] + f[2] + f[3] + f[4] + f[5] + f[6] + f[7] + f[8]
    BY <1>2, TotalOfEight
  <2>2. /\ f[1] = 1 * ys[1] /\ f[2] = 2 * ys[2] /\ f[3] = 3 * ys[3] /\ f[4] = 4 * ys[4]
        /\ f[5] = 5 * ys[5] /\ f[6] = 6 * ys[6] /\ f[7] = 7 * ys[7] /\ f[8] = 8 * ys[8]
    BY <1>2
  <2>3. ys[1] \in Int
    OBVIOUS
  <2> QED
    BY ONLY <2>1, <2>2, <2>3
<1>8. /\ ys[1] \in Int /\ ys[2] \in Int /\ ys[3] \in Int /\ ys[4] \in Int
      /\ ys[5] \in Int /\ ys[6] \in Int /\ ys[7] \in Int /\ ys[8] \in Int
  OBVIOUS
<1> QED
  BY ONLY <1>4, <1>5, <1>6, <1>7, <1>8

\* The quarters of eight boundaries are pairs.
LEMMA QuarterOfEight ==
  ASSUME NEW ys \in Seq(Nat), Len(ys) = 8, NEW q \in 1..4
  PROVE  Quarter(ys, q) = {ys[2 * q - 1], ys[2 * q]}
<1>1. PICK a \in 1..8, b \in 1..8 : a = 2 * q - 1 /\ b = 2 * q /\ b \in a..8
  <2>1. 2 * q - 1 \in 1..8 /\ 2 * q \in 1..8 /\ 2 * q \in (2 * q - 1)..8
    OBVIOUS
  <2> QED
    BY <2>1
<1>2. (q - 1) * (Len(ys) \div 4) + 1 = a /\ q * (Len(ys) \div 4) = b
  <2>1. Len(ys) \div 4 = 2
    OBVIOUS
  <2> QED
    BY <1>1, <2>1
<1>3. Quarter(ys, q) = Range(SubSeq(ys, a, b))
  BY <1>2 DEF Quarter
<1>4. Range(SubSeq(ys, a, b)) = {ys[i] : i \in a..b}
  <2>1. a \in 1..Len(ys) /\ b \in a..Len(ys)
    BY <1>1
  <2> QED
    BY <2>1, PartOfSeries
<1>5. a..b = {a, b}
  BY <1>1
<1>6. {ys[i] : i \in a..b} = {ys[a], ys[b]}
  BY <1>5
<1> QED
  BY <1>1, <1>3, <1>4, <1>6

\* Eight boundaries whose quarters' extremes rise have a rising slope: it is least where
\* the first two quarters fall and the last two fall, and then still positive.
LEMMA BlockGrowthHasRisingSlope ==
  ASSUME NEW ys \in Seq(Nat), Len(ys) = 8, RisesThroughout(ys)
  PROVE  Slope(ys) \in Int /\ Slope(ys) > 0
<1>1. \A i \in 1..8 : ys[i] \in Nat /\ ys[i] \in Int
  <2>1. ys \in [1..Len(ys) -> Nat]
    BY SeriesValues
  <2>2. Len(ys) = 8
    OBVIOUS
  <2> QED
    BY ONLY <2>1, <2>2
<1>2. ASSUME NEW q \in 1..4
      PROVE  \E l, u \in Nat :
               /\ l = Min(Quarter(ys, q)) /\ u = Max(Quarter(ys, q))
               /\ l + u = ys[2 * q - 1] + ys[2 * q] /\ l <= u
               /\ ys[2 * q - 1] - ys[2 * q] <= u - l /\ ys[2 * q] - ys[2 * q - 1] <= u - l
  <2>1. 2 * q - 1 \in 1..8 /\ 2 * q \in 1..8
    OBVIOUS
  <2>2. PICK a \in Nat, b \in Nat : a = ys[2 * q - 1] /\ b = ys[2 * q]
    BY <1>1, <2>1
  <2>3. Quarter(ys, q) = {a, b}
    BY <2>2, QuarterOfEight
  <2>4. \E l, u \in Nat : /\ l = Min({a, b}) /\ u = Max({a, b})
                          /\ l + u = a + b /\ l <= u /\ a - b <= u - l /\ b - a <= u - l
    BY ONLY ExtremesOfTwo
  <2> QED
    BY ONLY <2>2, <2>3, <2>4
<1>3. PICK l1 \in Nat, u1 \in Nat :
        /\ l1 = Min(Quarter(ys, 1)) /\ u1 = Max(Quarter(ys, 1))
        /\ l1 + u1 = ys[1] + ys[2] /\ l1 <= u1 /\ ys[1] - ys[2] <= u1 - l1
  <2>1. 1 \in 1..4 /\ 2 * 1 - 1 = 1 /\ 2 * 1 = 2
    OBVIOUS
  <2> QED
    BY <1>2, <2>1
<1>4. PICK l2 \in Nat, u2 \in Nat :
        /\ l2 = Min(Quarter(ys, 2)) /\ u2 = Max(Quarter(ys, 2))
        /\ l2 + u2 = ys[3] + ys[4] /\ l2 <= u2 /\ ys[3] - ys[4] <= u2 - l2
  <2>1. 2 \in 1..4 /\ 2 * 2 - 1 = 3 /\ 2 * 2 = 4
    OBVIOUS
  <2> QED
    BY <1>2, <2>1
<1>5. PICK l3 \in Nat, u3 \in Nat :
        /\ l3 = Min(Quarter(ys, 3)) /\ u3 = Max(Quarter(ys, 3))
        /\ l3 + u3 = ys[5] + ys[6] /\ l3 <= u3 /\ ys[5] - ys[6] <= u3 - l3
  <2>1. 3 \in 1..4 /\ 2 * 3 - 1 = 5 /\ 2 * 3 = 6
    OBVIOUS
  <2> QED
    BY <1>2, <2>1
<1>6. PICK l4 \in Nat, u4 \in Nat :
        /\ l4 = Min(Quarter(ys, 4)) /\ u4 = Max(Quarter(ys, 4))
        /\ l4 + u4 = ys[7] + ys[8] /\ l4 <= u4 /\ ys[7] - ys[8] <= u4 - l4
  <2>1. 4 \in 1..4 /\ 2 * 4 - 1 = 7 /\ 2 * 4 = 8
    OBVIOUS
  <2> QED
    BY <1>2, <2>1
<1>7. l1 < l2 /\ l2 < l3 /\ l3 < l4 /\ u1 < u2 /\ u2 < u3 /\ u3 < u4 /\ u1 < l4
  <2>1. 2 \in 2..4 /\ 3 \in 2..4 /\ 4 \in 2..4 /\ 2 - 1 = 1 /\ 3 - 1 = 2 /\ 4 - 1 = 3
    OBVIOUS
  <2>2. \A q \in 2..4 : /\ Min(Quarter(ys, q)) > Min(Quarter(ys, q - 1))
                        /\ Max(Quarter(ys, q)) > Max(Quarter(ys, q - 1))
    BY DEF RisesThroughout
  <2>3. l4 > u1
    BY <1>3, <1>6 DEF RisesThroughout
  <2>4. l2 > l1 /\ u2 > u1
    BY <1>3, <1>4, <2>1, <2>2
  <2>5. l3 > l2 /\ u3 > u2
    BY <1>4, <1>5, <2>1, <2>2
  <2>6. l4 > l3 /\ u4 > u3
    BY <1>5, <1>6, <2>1, <2>2
  <2> QED
    BY <2>3, <2>4, <2>5, <2>6
<1>8. PICK y1 \in Nat, y2 \in Nat, y3 \in Nat, y4 \in Nat,
           y5 \in Nat, y6 \in Nat, y7 \in Nat, y8 \in Nat :
        /\ y1 = ys[1] /\ y2 = ys[2] /\ y3 = ys[3] /\ y4 = ys[4]
        /\ y5 = ys[5] /\ y6 = ys[6] /\ y7 = ys[7] /\ y8 = ys[8]
  <2>1. /\ ys[1] \in Nat /\ ys[2] \in Nat /\ ys[3] \in Nat /\ ys[4] \in Nat
        /\ ys[5] \in Nat /\ ys[6] \in Nat /\ ys[7] \in Nat /\ ys[8] \in Nat
    BY ONLY <1>1
  <2> QED
    BY ONLY <2>1
<1>9. Slope(ys) = 28 * (y8 - y1) + 20 * (y7 - y2) + 12 * (y6 - y3) + 4 * (y5 - y4)
  BY <1>1, <1>8, SlopeOfEight
<1>10. /\ 28 * y1 + 20 * y2 <= 28 * u1 + 20 * l1
       /\ 12 * y3 + 4 * y4 <= 12 * u2 + 4 * l2
       /\ 4 * y5 + 12 * y6 >= 4 * u3 + 12 * l3
       /\ 20 * y7 + 28 * y8 >= 20 * u4 + 28 * l4
  <2>1. l1 + u1 = y1 + y2 /\ y1 - y2 <= u1 - l1
    BY <1>3, <1>8
  <2>2. l2 + u2 = y3 + y4 /\ y3 - y4 <= u2 - l2
    BY <1>4, <1>8
  <2>3. l3 + u3 = y5 + y6 /\ y5 - y6 <= u3 - l3
    BY <1>5, <1>8
  <2>4. l4 + u4 = y7 + y8 /\ y7 - y8 <= u4 - l4
    BY <1>6, <1>8
  <2> QED
    BY ONLY <2>1, <2>2, <2>3, <2>4
<1>11. 28 * (l4 - u1) + 20 * (u4 - l1) + 12 * (l3 - u2) + 4 * (u3 - l2) > 0
  <2>1. l2 <= u2
    BY <1>4
  <2> QED
    BY ONLY <1>7, <2>1
<1> QED
  BY ONLY <1>9, <1>10, <1>11

\* In no trial do the two rules contradict each other about a queue that goes one way
\* only, however long the measurement, nor about block growth in a screening trial.
THEOREM TheRulesAgree == MeasurementSpec => []RulesAgree
<1>1. Windows \in Nat /\ Windows >= 8
  BY QueueMeasurementAssumption
<1>2. ASSUME MeasurementInv PROVE RulesAgree
  <2>1. PICK ys : ys = Backlog
    OBVIOUS
  <2>2. \A w \in 1..Windows : ys[w] \in Nat
    <3>1. ASSUME NEW w \in 1..Windows PROVE ys[w] \in Nat
      <4>1. {i \in Cohort : Open(i, w)} \subseteq DOMAIN transfers
        BY DEF Cohort
      <4>2. ys[w] = Cardinality({i \in Cohort : Open(i, w)})
        BY <2>1 DEF Backlog
      <4> QED
        BY <1>2, <4>1, <4>2, TransfersAreFinite DEF MeasurementInv
    <3> QED
      BY <3>1
  <2>3. ys \in Seq(Nat) /\ Len(ys) = Windows
    <3>1. ys = [w \in 1..Windows |-> ys[w]]
      BY <2>1 DEF Backlog
    <3>2. ys \in [1..Windows -> Nat]
      BY <2>2, <3>1
    <3> QED
      BY <1>1, <3>2
  <2>4. Len(ys) >= 6
    BY <1>1, <2>3
  <2>5. Describe(ys) = "NO_INCREASE_AT_SAMPLED_BOUNDARIES" => Classify(ys) = "SUSTAINED"
    <3>1. Describe(ys) = "NO_INCREASE_AT_SAMPLED_BOUNDARIES" => ~AnyRise(ys)
      BY DEF Describe
    <3> QED
      BY <2>3, <2>4, <3>1, NoRiseIsSustained
  <2>6. Describe(ys) = "INCONCLUSIVE_GROWTH_PATTERN" => Classify(ys) # "SUSTAINED"
    <3>1. Describe(ys) = "INCONCLUSIVE_GROWTH_PATTERN" => AnyRise(ys) /\ ~AnyFall(ys)
      BY DEF Describe
    <3> QED
      BY <2>3, <2>4, <3>1, RiseIsNotSustained
  <2>7. Describe(ys) = "CONSISTENT_BLOCK_GROWTH_OBSERVED" /\ Windows = 8
          => Classify(ys) # "SUSTAINED"
    <3> SUFFICES ASSUME Describe(ys) = "CONSISTENT_BLOCK_GROWTH_OBSERVED", Windows = 8
                 PROVE  Classify(ys) # "SUSTAINED"
      OBVIOUS
    <3>1. RisesThroughout(ys) /\ Len(ys) = 8
      BY <2>3 DEF Describe
    <3>2. Slope(ys) \in Int /\ Slope(ys) > 0
      BY <2>3, <3>1, BlockGrowthHasRisingSlope
    <3>3. ~(Slope(ys) <= 0)
      BY <3>2
    <3> QED
      BY <3>3 DEF Classify
  <2> QED
    BY <2>1, <2>5, <2>6, <2>7 DEF RulesAgree
<1> QED
  BY <1>2, MeasurementInvariant, PTL
===============================================================================
