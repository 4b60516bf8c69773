---------------------------- MODULE QueueMeasurement ----------------------------
(***************************************************************************)
(* What a trial of the capacity pilot concludes about the queue: transfers *)
(* arrive and settle while the clock runs, the controller drains the system *)
(* and reads the evidence in three requests, deriveOutcomes() places the   *)
(* transfers in windows, evaluateQueueCapacityRun() decides whether the    *)
(* evidence may be used, and classifyBacklog() and                         *)
(* describeQueueObservation() read the series of backlogs.  One unit of    *)
(* time is one window of 30 seconds; the measurement begins at 0, on a     *)
(* database that was reset after the warm-up.                              *)
(***************************************************************************)
EXTENDS Integers, Sequences, FiniteSets, SequencesExt, FiniteSetsExt

CONSTANTS
  Windows,       \* windows of the measurement
  Drain,         \* units the drain may take after the measurement
  MaxTransfers,  \* bound: transfers of a trial
  MaxAnomalies   \* bound: transfers that fail or lose their confirmation

ASSUME QueueMeasurementAssumption ==
  /\ Windows \in Nat /\ Windows >= 8 /\ Windows % 4 = 0
  /\ {Drain, MaxTransfers, MaxAnomalies} \subseteq Nat

VARIABLES
  clock,
  transfers,       \* in the order they arrived, as the database has them
  observationEnd,  \* OBSERVATION_ENDED in the controller's log
  reads,           \* requests for evidence that were answered
  telemetry,       \* telemetry.json: the states it counts
  traces,          \* traces.json: the confirmations of the transfers
  snapshot,        \* transfers.json: the states of the transfers
  outstanding,     \* history: at each boundary, what was under way
  anomalies

trialVars ==
  <<clock, transfers, observationEnd, reads, telemetry, traces, snapshot, outstanding,
    anomalies>>

Unconfirmed == -1
None == -2

MeasurementInit ==
  /\ clock = 0
  /\ transfers = <<>> /\ outstanding = <<>> /\ anomalies = 0
  /\ observationEnd = None
  /\ reads = 0 /\ telemetry = <<>> /\ traces = <<>> /\ snapshot = <<>>

(***************************************************************************)
(* The trial.                                                              *)
(***************************************************************************)
\* The cohort: what was received during the measurement.
Cohort == {i \in DOMAIN transfers : transfers[i].receivedAt < Windows}

\* The load generator's last requests may be received just after the measurement.
Receive ==
  /\ clock <= Windows /\ observationEnd = None /\ Len(transfers) < MaxTransfers
  /\ transfers' = Append(transfers,
       [receivedAt |-> clock, state |-> "PENDING", confirmedAt |-> Unconfirmed])
  /\ UNCHANGED <<clock, observationEnd, reads, telemetry, traces, snapshot, outstanding, anomalies>>

SettleAs(i, state, confirmedAt) ==
  /\ transfers[i].state = "PENDING"
  /\ transfers' = [transfers EXCEPT ![i].state = state, ![i].confirmedAt = confirmedAt]
  /\ UNCHANGED <<clock, observationEnd, reads, telemetry, traces, snapshot, outstanding>>

Anomaly == anomalies < MaxAnomalies /\ anomalies' = anomalies + 1

Fulfill(i) == SettleAs(i, "FULFILLED", clock) /\ UNCHANGED anomalies

Fail(i) == SettleAs(i, "FAILED", clock) /\ Anomaly

\* The process dies before confirmTerminal(), or another worker confirms the commit
\* as recovered: there is no COMMIT_CONFIRMED to measure by.
FulfillUnconfirmed(i) == SettleAs(i, "FULFILLED", Unconfirmed) /\ Anomaly

WorkUnderWay == Cardinality({i \in Cohort : transfers[i].state = "PENDING"})

Tick ==
  /\ observationEnd = None /\ clock < Windows + Drain
  /\ clock' = clock + 1
  /\ outstanding' = IF clock < Windows THEN Append(outstanding, WorkUnderWay) ELSE outstanding
  /\ UNCHANGED <<transfers, observationEnd, reads, telemetry, traces, snapshot, anomalies>>

\* drain() returns when nothing is pending or its time is over.
EndDrain ==
  /\ observationEnd = None /\ clock >= Windows
  /\ clock = Windows + Drain \/ \A i \in DOMAIN transfers : transfers[i].state # "PENDING"
  /\ observationEnd' = clock
  /\ clock' = clock + 1
  /\ UNCHANGED <<transfers, reads, telemetry, traces, snapshot, outstanding, anomalies>>

(***************************************************************************)
(* The evidence is read in three requests, while work may go on.           *)
(***************************************************************************)
States == [i \in DOMAIN transfers |-> transfers[i].state]

ReadTelemetry ==
  /\ observationEnd # None /\ reads = 0
  /\ reads' = 1 /\ telemetry' = States
  /\ UNCHANGED <<clock, transfers, observationEnd, traces, snapshot, outstanding, anomalies>>

ReadTraces ==
  /\ reads = 1
  /\ reads' = 2 /\ traces' = [i \in DOMAIN transfers |-> transfers[i].confirmedAt]
  /\ UNCHANGED <<clock, transfers, observationEnd, telemetry, snapshot, outstanding, anomalies>>

ReadTransfers ==
  /\ reads = 2
  /\ reads' = 3 /\ snapshot' = States
  /\ UNCHANGED <<clock, transfers, observationEnd, telemetry, traces, outstanding, anomalies>>

Ended == reads = 3

MeasurementNext ==
  \/ Receive \/ Tick \/ EndDrain \/ ReadTelemetry \/ ReadTraces \/ ReadTransfers
  \/ ~Ended /\ \E i \in DOMAIN transfers : Fulfill(i) \/ Fail(i) \/ FulfillUnconfirmed(i)

MeasurementSpec == MeasurementInit /\ [][MeasurementNext]_trialVars

(***************************************************************************)
(* deriveOutcomes(), over the evidence.                                    *)
(***************************************************************************)
ReceivedAt(i) == transfers[i].receivedAt

\* Mutant: a confirmation at the boundary is counted in the window before it.
OpenAfter(i, right) ==
  ReceivedAt(i) < right /\ (traces[i] = Unconfirmed \/ traces[i] > right)

\* Received before a boundary and not confirmed before it.
Open(i, right) ==
  ReceivedAt(i) < right /\ (traces[i] = Unconfirmed \/ traces[i] >= right)

\* backlogAtEnd of the windows under load.
Backlog == [w \in 1..Windows |-> Cardinality({i \in Cohort : Open(i, w)})]

TimingComplete(i) == snapshot[i] = "PENDING" \/ traces[i] \in ReceivedAt(i)..observationEnd

Correct(i) == snapshot[i] = "FULFILLED" /\ traces[i] # Unconfirmed

(***************************************************************************)
(* classifyBacklog(): the draft rule.                                      *)
(***************************************************************************)
\* f[1] + ... + f[n].
Total(f, n) == LET sum[k \in 0..n] == IF k = 0 THEN 0 ELSE sum[k - 1] + f[k] IN sum[n]

\* n * sum(x * y) - sum(x) * sum(y), whose sign is the slope's.
Slope(ys) ==
  LET n == Len(ys)
  IN n * Total([i \in 1..n |-> i * ys[i]], n) - Total([i \in 1..n |-> i], n) * Total(ys, n)

Recent(ys) == SubSeq(ys, Len(ys) - 5, Len(ys))

\* Mutant: a level minute counts as an increase.
NeverFallsAt(ys) ==
  LET b == <<0>> \o ys
  IN {k \in 6..Len(ys) : \A j \in {k, k - 2, k - 4} : b[j + 1] >= b[j - 1]}

\* Three increases in a row, from one minute to the next.
PersistentGrowthAt(ys) ==
  LET b == <<0>> \o ys
  IN {k \in 6..Len(ys) : \A j \in {k, k - 2, k - 4} : b[j + 1] > b[j - 1]}

Classify(ys) ==
  IF Slope(ys) <= 0 /\ Slope(Recent(ys)) <= 0 /\ PersistentGrowthAt(ys) = {} THEN "SUSTAINED"
  ELSE IF Slope(ys) > 0 /\ Slope(Recent(ys)) > 0 /\ Len(ys) \in PersistentGrowthAt(ys)
  THEN "NOT_SUSTAINED_QUEUE_GROWTH"
  ELSE "INCONCLUSIVE"

(***************************************************************************)
(* describeQueueObservation(): the rule that is approved for live trials.  *)
(***************************************************************************)
Quarter(ys, q) == LET size == Len(ys) \div 4 IN Range(SubSeq(ys, (q - 1) * size + 1, q * size))

RisesThroughout(ys) ==
  /\ \A q \in 2..4 : /\ Min(Quarter(ys, q)) > Min(Quarter(ys, q - 1))
                     /\ Max(Quarter(ys, q)) > Max(Quarter(ys, q - 1))
  /\ Min(Quarter(ys, 4)) > Max(Quarter(ys, 1))

AnyRise(ys) == \E i \in 2..Len(ys) : ys[i] > ys[i - 1]
AnyFall(ys) == \E i \in 2..Len(ys) : ys[i] < ys[i - 1]

Describe(ys) ==
  IF ~AnyRise(ys) THEN "NO_INCREASE_AT_SAMPLED_BOUNDARIES"
  ELSE IF RisesThroughout(ys) THEN "CONSISTENT_BLOCK_GROWTH_OBSERVED"
  ELSE IF AnyFall(ys) THEN "MIXED_RISES_AND_FALLS_REVIEW"
  ELSE "INCONCLUSIVE_GROWTH_PATTERN"

(***************************************************************************)
(* evaluateQueueCapacityRun()                                              *)
(***************************************************************************)
CohortComplete ==
  /\ Cohort # {}
  /\ \A i \in Cohort :
       /\ TimingComplete(i)
       /\ IF traces[i] = Unconfirmed THEN snapshot[i] = "PENDING"
          ELSE traces[i] \in ReceivedAt(i)..observationEnd

\* The flow through each window, added up, is the derived backlog.
QueueAccounting ==
  LET Arrivals(w) == Cardinality({i \in Cohort : ReceivedAt(i) = w - 1})
      Confirmations(w) == Cardinality({i \in Cohort : traces[i] = w - 1})
      Before(w) == IF w = 1 THEN 0 ELSE Backlog[w - 1]
  IN \A w \in 1..Windows : Before(w) + Arrivals(w) - Confirmations(w) = Backlog[w]

\* Mutant: only a failed transfer counts against the trial.
NothingFailed ==
  /\ \A i \in DOMAIN transfers : telemetry[i] # "FAILED"
  /\ \A i \in Cohort : snapshot[i] # "FAILED"

\* noFailedTransfers, noPendingAfterDrain and correctCompletions; telemetry counts
\* every transfer, the others those of the cohort.
CorrectnessHolds ==
  /\ \A i \in DOMAIN transfers : telemetry[i] = "FULFILLED"
  /\ \A i \in Cohort : snapshot[i] = "FULFILLED" /\ Correct(i)

\* The gates of other evidence are inputs: safe is the qualification's safety, valid
\* what else makes a trial eligible, served the workload checks and the callbacks.
Status(descriptive, safe, valid, served) ==
  IF ~safe THEN "SAFETY_FAILURE"
  ELSE IF ~(valid /\ CohortComplete /\ QueueAccounting) THEN "INVALID_OR_HARNESS_LIMIT"
  ELSE IF ~(served /\ CorrectnessHolds)
  THEN IF descriptive THEN "CORRECTNESS_REVIEW_REQUIRED" ELSE "NOT_CORRECTLY_SUSTAINED"
  ELSE IF descriptive THEN "OBSERVATION_RECORDED" ELSE Classify(Backlog)

(***************************************************************************)
(* Properties.                                                             *)
(***************************************************************************)
Verdicts == {Status(TRUE, TRUE, TRUE, TRUE), Status(FALSE, TRUE, TRUE, TRUE)}

\* A trial whose timing is complete passes the accounting check and reports as its
\* queue, window by window, what was under way at that moment, whenever the three
\* requests for its evidence were answered.
MeasuredBacklogIsReal ==
  Ended /\ CohortComplete => QueueAccounting /\ Backlog = outstanding

\* A verdict on the queue, of either rule, is only given for a trial that fulfilled
\* everything it received and confirmed it while it was observed.
VerdictNeedsSettledWork ==
  Ended /\ Verdicts \intersect {"OBSERVATION_RECORDED", "SUSTAINED",
                                "NOT_SUSTAINED_QUEUE_GROWTH", "INCONCLUSIVE"} # {} =>
    /\ \A i \in DOMAIN transfers : transfers[i].state = "FULFILLED"
    /\ \A i \in Cohort : transfers[i].confirmedAt \in 0..observationEnd

\* The draft rule and the approved description agree about a queue that only goes
\* one way: one that never rose is sustained, one that rose and never fell is not.
\* In a screening trial, of eight windows, the draft rule does not call sustained what
\* grew from quarter to quarter, either; the quarters' extremes say too little about the
\* slope of a longer series.
RulesAgree ==
  Ended =>
    CASE Describe(Backlog) = "NO_INCREASE_AT_SAMPLED_BOUNDARIES" -> Classify(Backlog) = "SUSTAINED"
      [] Describe(Backlog) = "INCONCLUSIVE_GROWTH_PATTERN" -> Classify(Backlog) # "SUSTAINED"
      [] Describe(Backlog) = "CONSISTENT_BLOCK_GROWTH_OBSERVED" ->
           Windows = 8 => Classify(Backlog) # "SUSTAINED"
      [] OTHER -> TRUE
=================================================================================
