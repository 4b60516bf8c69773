----------------------- MODULE RestOrchestrationProofs -----------------------
(***************************************************************************)
(* Proofs about condition R-A, for every set of keys, commands, failure    *)
(* codes and bounds, in both client modes.  First the orchestrator is      *)
(* shown to implement the open ledger, so that every theorem of            *)
(* TransferLedgerProofs holds of it.  Then RestInv relates what the        *)
(* workers hold in memory to what is stored: an outcome a worker acts on   *)
(* is recorded and definite, and a settled record in its hands is the one  *)
(* the database holds.                                                     *)
(***************************************************************************)
EXTENDS RestOrchestration, TransferLedgerProofs

WorkersTypeOK ==
  /\ at \in [Workers -> AtSteps]
  /\ seen \in [Workers -> States]
  /\ tries \in [Workers -> Nat]
  /\ heard \in [Workers -> Causes \union {NoVerdict}]

StoresTypeOK ==
  /\ verdict \in [Keys -> Causes \union {NoVerdict}]
  /\ attempts \in [Keys -> SUBSET Causes]
  /\ wire \in [Keys -> Nat]
  /\ accepted \in SUBSET Keys
  /\ faults \in Nat
  /\ candidates \in SUBSET (Keys \X {"PENDING", "COMPLETED", "FAILED"})
  /\ told \in [Keys -> SUBSET {"COMPLETED", "FAILED"}]
  /\ delivered \in SUBSET Keys

\* An attempt recorded as completed is in the provider's journal, and a saved
\* result is one of the recorded outcomes, never the unknown one.
RecordedOutcomes ==
  \A k \in Keys :
    /\ "COMPLETED" \in attempts[k] => k \in accepted /\ Answer[k] = "COMPLETED"
    /\ verdict[k] # NoVerdict => verdict[k] \in attempts[k] \ {Unknown}

\* What a worker has heard is true of the provider, and recorded before the
\* worker settles the transfer with it.
HeardOutcomes ==
  \A w \in Workers :
    /\ heard[w] = "COMPLETED" => KeyOf(w) \in accepted /\ Answer[KeyOf(w)] = "COMPLETED"
    /\ at[w] \in {"result", "nofunds"} => heard[w] \in attempts[KeyOf(w)] \ {Unknown}
    /\ at[w] = "nofunds" => heard[w] = "COMPLETED"

\* A settled record in a worker's hands is the row of the database, and what
\* follows execute() only runs with a settled record.
SettledRecords ==
  /\ \A w \in Workers :
       /\ seen[w] \in TerminalStates => state[KeyOf(w)] = seen[w]
       /\ at[w] \in {"return", "post", "row", "retry"} => seen[w] \in TerminalStates
       /\ at[w] = "row" => told[KeyOf(w)] # {}
  /\ \A c \in candidates : c[2] # "PENDING" => state[c[1]] \in TerminalStates

RestInv ==
  /\ WorkersTypeOK
  /\ StoresTypeOK
  /\ RecordedOutcomes
  /\ HeardOutcomes
  /\ SettledRecords
  /\ CompletedOnlyIfAccepted
  /\ FailureIsDefinite
  /\ OneOutcomeTold
  /\ DeliveredWasTold

-------------------------------------------------------------------------------
(* The orchestrator changes the store only through the ledger's transactions *)

\* Causes are the outcomes of attempts.
LEMMA OutcomesAreCauses ==
  /\ "COMPLETED" \in Causes
  /\ \A k \in Keys : Answer[k] \in Causes
  /\ Answers \subseteq Causes
  /\ FailureCodes \subseteq Causes
  /\ NoVerdict \notin Causes
  /\ "COMPLETED" \notin FailureCodes
BY WorkflowStepsAssumption DEF Answers, RetryableCodes, Unknown

\* A worker belongs to a key.
LEMMA WorkersHaveKeys == \A w \in Workers : KeyOf(w) \in Keys
BY DEF Workers, KeyOf

\* Every worker step is a transaction of the open ledger or leaves it alone.
LEMMA WorkerStepIsLedgerStep ==
  ASSUME RestInv, NEW w \in Workers, WorkerStep(w)
  PROVE  [LedgerNext]_ledgerVars
<1> USE WorkersHaveKeys
<1>1. CASE \/ StartWork(w) \/ ReadRecord(w) \/ StepRejected(w) \/ SettleWithoutFunds(w)
           \/ ReturnToTask(w) \/ ReturnToClient(w)
           \/ PostCallback(w) \/ RecordDelivery(w) \/ RecordFailedDelivery(w)
  BY <1>1 DEF StartWork, ReadRecord, StepRejected, SettleWithoutFunds, ReturnToTask,
              ReturnToClient, PostCallback, RecordDelivery, RecordFailedDelivery
<1>2. CASE CallProvider(w)
  BY <1>2 DEF CallProvider, ProviderStep, ReuseVerdict, BeginBurst, Call, ReceiveAnswer,
              RecordAnswer, RetryLater, GiveUp, LeaveUncertain
<1>3. CASE TakeStep(w)
  BY <1>3 DEF TakeStep, StepFrom, LedgerNext
<1>4. CASE SettleCompleted(w)
  BY <1>4 DEF SettleCompleted, LedgerNext
<1>5. CASE SettleFailed(w)
  <2>1. at[w] = "result" => heard[w] \in Causes
    BY DEF RestInv, HeardOutcomes, StoresTypeOK
  <2> QED
    BY <1>5, <2>1 DEF SettleFailed, LedgerNext
<1> QED
  BY <1>1, <1>2, <1>3, <1>4, <1>5 DEF WorkerStep

\* Every step of the system is a step of the open ledger or a stutter of it.
LEMMA NextIsLedgerStep == RestInv /\ [Next]_vars => [LedgerNext]_ledgerVars
<1> SUFFICES ASSUME RestInv, [Next]_vars PROVE [LedgerNext]_ledgerVars
  OBVIOUS
<1>1. CASE UNCHANGED vars
  BY <1>1 DEF vars
<1>2. ASSUME NEW k \in Keys, NEW c \in Commands, Submit(k, c)
      PROVE  [LedgerNext]_ledgerVars
  BY <1>2 DEF Submit, LedgerNext
<1>3. ASSUME NEW k \in Keys, Answered(k) \/ Begin(k) \/ Land(k)
      PROVE  [LedgerNext]_ledgerVars
  BY <1>3 DEF Answered, Begin, Land
<1>4. ASSUME NEW w \in Workers, WorkerStep(w)
      PROVE  [LedgerNext]_ledgerVars
  BY <1>4, WorkerStepIsLedgerStep
<1>5. ASSUME NEW w \in Workers, WorkerFault(w)
      PROVE  [LedgerNext]_ledgerVars
  BY <1>5 DEF WorkerFault, ProviderFault, ReceiveFailure, ReceiveTornAnswer,
              PostCallbackFails, Throw
<1>6. CASE Scan \/ Recover \/ ProcessDies
  BY <1>6 DEF Scan, Recover, ProcessDies
<1> QED
  BY <1>1, <1>2, <1>3, <1>4, <1>5, <1>6 DEF Next

-------------------------------------------------------------------------------
(* RestInv is inductive *)

\* A transfer that is settled stays as it is settled.
LEMMA SettledStay ==
  ASSUME LedgerInv, RestInv, [Next]_vars
  PROVE  \A k \in Keys :
           state[k] \in TerminalStates => state'[k] = state[k] /\ cause'[k] = cause[k]
BY NextIsLedgerStep, StepKeepsSettled

\* The process starts with nothing in hand.
LEMMA InitEstablishesRestInv == Init => RestInv
<1> SUFFICES ASSUME Init PROVE RestInv
  OBVIOUS
<1> USE OutcomesAreCauses DEF Init, WorkflowInit, ApplicationInit, LedgerInit
<1>1. WorkersTypeOK /\ StoresTypeOK
  BY DEF WorkersTypeOK, StoresTypeOK, AtSteps, States
<1>2. RecordedOutcomes /\ HeardOutcomes
  BY DEF RecordedOutcomes, HeardOutcomes
<1>3. SettledRecords /\ OneOutcomeTold /\ DeliveredWasTold
  BY DEF SettledRecords, OneOutcomeTold, DeliveredWasTold, TerminalStates
<1>4. CompletedOnlyIfAccepted /\ FailureIsDefinite
  BY DEF CompletedOnlyIfAccepted, FailureIsDefinite
<1> QED
  BY <1>1, <1>2, <1>3, <1>4 DEF RestInv

\* The steps of a transfer's two possible workers.
LEMMA WorkersOfKeys ==
  \A k \in Keys : /\ Request(k) \in Workers /\ Task(k) \in Workers
                  /\ KeyOf(Request(k)) = k /\ KeyOf(Task(k)) = k
BY RestAssumption DEF Workers, Request, Task, KeyOf

\* Types: what a worker holds and what is stored stay of their kind.
LEMMA TypesKept ==
  ASSUME LedgerInv, LedgerInv', RestInv, [Next]_vars
  PROVE  WorkersTypeOK' /\ StoresTypeOK'
<1> DEFINE P == WorkersTypeOK /\ StoresTypeOK
<1> USE WorkersHaveKeys, WorkersOfKeys, OutcomesAreCauses
    DEF RestInv, WorkersTypeOK, StoresTypeOK, States, AtSteps, ExecuteSteps, Goto,
        ledgerVars, workerVars, providerVars, applicationVars
<1>1. CASE UNCHANGED vars
  BY <1>1 DEF vars
<1>2. ASSUME NEW k \in Keys, NEW c \in Commands, Submit(k, c) PROVE P'
  BY <1>2 DEF Submit
<1>3. ASSUME NEW k \in Keys, Answered(k) PROVE P'
  BY <1>3 DEF Answered, PublicStatus, PendingStates, TerminalStates
<1>4. ASSUME NEW k \in Keys, Begin(k) PROVE P'
  <2>1. CASE ClientMode = "sync"
    BY <1>4, <2>1 DEF Begin
  <2>2. CASE ClientMode # "sync"
    BY <1>4, <2>2 DEF Begin
  <2> QED
    BY <2>1, <2>2
<1>5. ASSUME NEW k \in Keys, Land(k), UNCHANGED applicationVars PROVE P'
  BY <1>5 DEF Land
<1>6. ASSUME NEW w \in Workers, StartWork(w) \/ ReadRecord(w) \/ StepRejected(w) PROVE P'
  BY <1>6 DEF StartWork, ReadRecord, StepRejected, Hold, StepAfter, End, LedgerInv, LedgerTypeOK
<1>7. ASSUME NEW w \in Workers, TakeStep(w) \/ SettleCompleted(w) \/ SettleFailed(w) PROVE P'
  BY <1>7 DEF TakeStep, SettleCompleted, SettleFailed, Hold, StepAfter, LedgerInv, LedgerTypeOK
<1>8. ASSUME NEW w \in Workers, CallProvider(w) PROVE P'
  <2>1. CASE ReuseVerdict(w) \/ BeginBurst(w) \/ Call(w) \/ ReceiveAnswer(w)
    BY <1>8, <2>1 DEF CallProvider, ReuseVerdict, BeginBurst, Call, ReceiveAnswer
  <2>2. CASE RecordAnswer(w) \/ RetryLater(w) \/ GiveUp(w) \/ LeaveUncertain(w)
    BY <1>8, <2>2 DEF CallProvider, RecordAnswer, RetryLater, GiveUp, LeaveUncertain,
                      RecordOutcome, SaveVerdict, End
  <2> QED
    BY <1>8, <2>1, <2>2 DEF CallProvider, ProviderStep
<1>9. ASSUME NEW w \in Workers, SettleWithoutFunds(w) \/ ReturnToTask(w) \/ RecordFailedDelivery(w)
      PROVE  P'
  BY <1>9 DEF SettleWithoutFunds, ReturnToTask, RecordFailedDelivery, End
<1>10. ASSUME NEW w \in Workers, ReturnToClient(w) \/ PostCallback(w) \/ RecordDelivery(w) PROVE P'
  BY <1>10 DEF ReturnToClient, PostCallback, RecordDelivery, Tell, End, SettledRecords,
               PublicStatus, PendingStates, TerminalStates
<1>11. ASSUME NEW w \in Workers, WorkerFault(w) PROVE P'
  <2>1. CASE ProviderFault(w) /\ UNCHANGED applicationVars
    BY <2>1 DEF ProviderFault, ReceiveFailure, ReceiveTornAnswer, End, Fault
  <2>2. CASE PostCallbackFails(w)
    BY <2>2 DEF PostCallbackFails, Tell, Fault, SettledRecords, PublicStatus, PendingStates,
                TerminalStates
  <2>3. CASE Throw(w)
    BY <2>3 DEF Throw, End, Fault
  <2> QED
    BY <1>11, <2>1, <2>2, <2>3 DEF WorkerFault
<1>12. CASE Scan
  BY <1>12 DEF Scan, IsCandidate, Pending, PublicStatus, PendingStates, TerminalStates
<1>13. CASE Recover
  BY <1>13 DEF Recover, LedgerInv, LedgerTypeOK
<1>14. CASE ProcessDies
  BY <1>14 DEF ProcessDies, End, Fault
<1> QED
  BY <1>1, <1>2, <1>3, <1>4, <1>5, <1>6, <1>7, <1>8, <1>9, <1>10, <1>11, <1>12, <1>13, <1>14
     DEF Next, WorkerStep

\* Outcomes: attempts are recorded truly, and before anything rests on them.
LEMMA OutcomesKept ==
  ASSUME LedgerInv, LedgerInv', RestInv, [Next]_vars
  PROVE  RecordedOutcomes' /\ HeardOutcomes'
<1> DEFINE P == RecordedOutcomes /\ HeardOutcomes
<1> USE WorkersHaveKeys, OutcomesAreCauses
    DEF RestInv, WorkersTypeOK, StoresTypeOK, RecordedOutcomes, HeardOutcomes, Goto,
        workerVars, providerVars, applicationVars
<1>1. CASE UNCHANGED vars
  BY <1>1 DEF vars
<1>2. ASSUME NEW k \in Keys, Answered(k) \/ (\E c \in Commands : Submit(k, c)) PROVE P'
  BY <1>2, WorkersOfKeys DEF Answered, Submit
<1>3. ASSUME NEW k \in Keys, Begin(k) PROVE P'
  BY <1>3, WorkersOfKeys DEF Begin
<1>4. ASSUME NEW k \in Keys, Land(k), UNCHANGED applicationVars PROVE P'
  BY <1>4 DEF Land
<1>5. ASSUME NEW w \in Workers, StartWork(w) \/ ReadRecord(w) \/ TakeStep(w) \/ StepRejected(w)
      PROVE  P'
  BY <1>5 DEF StartWork, ReadRecord, TakeStep, StepRejected, Hold, StepAfter, End
<1>6. ASSUME NEW w \in Workers, CallProvider(w) PROVE P'
  <2>1. CASE ReuseVerdict(w) \/ BeginBurst(w) \/ Call(w)
    BY <1>6, <2>1 DEF CallProvider, ReuseVerdict, BeginBurst, Call
  <2>2. CASE ReceiveAnswer(w)
    BY <1>6, <2>2 DEF CallProvider, ReceiveAnswer
  <2>3. CASE RecordAnswer(w)
    <3>1. /\ heard[w] \in Causes \ {Unknown}
          /\ heard[w] = "COMPLETED" => KeyOf(w) \in accepted /\ Answer[KeyOf(w)] = "COMPLETED"
      BY <2>3 DEF RecordAnswer, Answers, Unknown
    <3>2. RecordedOutcomes'
      BY <1>6, <2>3, <3>1 DEF CallProvider, RecordAnswer, RecordOutcome, SaveVerdict
    <3>3. HeardOutcomes'
      BY <1>6, <2>3, <3>1 DEF CallProvider, RecordAnswer, RecordOutcome
    <3> QED
      BY <3>2, <3>3
  <2>4. CASE GiveUp(w)
    BY <1>6, <2>4 DEF CallProvider, GiveUp, Uncertain, RecordOutcome, SaveVerdict
  <2>5. CASE RetryLater(w) \/ LeaveUncertain(w)
    BY <1>6, <2>5 DEF CallProvider, RetryLater, LeaveUncertain, RecordOutcome, End
  <2> QED
    BY <1>6, <2>1, <2>2, <2>3, <2>4, <2>5 DEF CallProvider, ProviderStep
<1>7. ASSUME NEW w \in Workers, SettleCompleted(w) \/ SettleWithoutFunds(w) \/ SettleFailed(w)
      PROVE  P'
  BY <1>7 DEF SettleCompleted, SettleWithoutFunds, SettleFailed, Succeeded, Hold, StepAfter
<1>8. ASSUME NEW w \in Workers, \/ ReturnToTask(w) \/ ReturnToClient(w)
                                \/ PostCallback(w) \/ RecordDelivery(w) \/ RecordFailedDelivery(w)
      PROVE  P'
  BY <1>8 DEF ReturnToTask, ReturnToClient, PostCallback, RecordDelivery, RecordFailedDelivery, End
<1>9. ASSUME NEW w \in Workers, WorkerFault(w) PROVE P'
  <2>1. CASE ReceiveFailure(w) /\ UNCHANGED applicationVars
    BY <2>1 DEF ReceiveFailure
  <2>2. CASE (ReceiveTornAnswer(w) /\ UNCHANGED applicationVars) \/ PostCallbackFails(w) \/ Throw(w)
    BY <2>2 DEF ReceiveTornAnswer, PostCallbackFails, Throw, End
  <2> QED
    BY <1>9, <2>1, <2>2 DEF WorkerFault, ProviderFault
<1>10. CASE Scan \/ ProcessDies
  BY <1>10 DEF Scan, ProcessDies, End
<1>11. CASE Recover
  BY <1>11 DEF Recover
<1> QED
  BY <1>1, <1>2, <1>3, <1>4, <1>5, <1>6, <1>7, <1>8, <1>9, <1>10, <1>11 DEF Next, WorkerStep

\* Records: a settled record in hand is the row, and only it is told.
LEMMA RecordsKept ==
  ASSUME LedgerInv, LedgerInv', RestInv, [Next]_vars
  PROVE  SettledRecords' /\ OneOutcomeTold' /\ DeliveredWasTold'
<1> DEFINE P == SettledRecords /\ OneOutcomeTold /\ DeliveredWasTold
<1> USE WorkersHaveKeys, SettledStay
    DEF RestInv, WorkersTypeOK, StoresTypeOK, SettledRecords, OneOutcomeTold, DeliveredWasTold,
        PublicStatus, TerminalStates, PendingStates, States, Goto,
        ledgerVars, workerVars, providerVars, applicationVars
<1>1. CASE UNCHANGED vars
  BY <1>1 DEF vars
<1>2. ASSUME NEW k \in Keys, NEW c \in Commands, Submit(k, c) PROVE P'
  BY <1>2, WorkersOfKeys DEF Submit, Create, LedgerInv, LedgerTypeOK
<1>3. ASSUME NEW k \in Keys, Answered(k) \/ (Land(k) /\ UNCHANGED applicationVars) PROVE P'
  BY <1>3 DEF Answered, Land
<1>4. ASSUME NEW k \in Keys, Begin(k) PROVE P'
  <2>1. CASE ClientMode = "sync"
    BY <1>4, <2>1 DEF Begin
  <2>2. CASE ClientMode # "sync"
    BY <1>4, <2>2 DEF Begin
  <2> QED
    BY <2>1, <2>2
<1>5. ASSUME NEW w \in Workers, StartWork(w) \/ ReadRecord(w) \/ StepRejected(w) PROVE P'
  BY <1>5 DEF StartWork, ReadRecord, StepRejected, Hold, StepAfter, End
<1>6. ASSUME NEW w \in Workers, TakeStep(w) \/ SettleCompleted(w) \/ SettleFailed(w) PROVE P'
  <2>1. /\ UNCHANGED <<candidates, told, delivered>>
        /\ seen' = [seen EXCEPT ![w] = state'[KeyOf(w)]]
        /\ at' = [at EXCEPT ![w] = StepAfter(state'[KeyOf(w)])]
    BY <1>6 DEF TakeStep, SettleCompleted, SettleFailed, Hold
  <2>2. SettledRecords'
    BY <2>1 DEF StepAfter
  <2>3. \A k \in Keys : told[k] = {} \/ state[k] \in TerminalStates
    BY DEF LedgerInv, LedgerTypeOK
  <2>4. OneOutcomeTold' /\ DeliveredWasTold'
    BY <2>1, <2>3
  <2> QED
    BY <2>2, <2>4
<1>7. ASSUME NEW w \in Workers, CallProvider(w) PROVE P'
  <2>1. CASE ReuseVerdict(w) \/ BeginBurst(w) \/ Call(w) \/ ReceiveAnswer(w)
    BY <1>7, <2>1 DEF CallProvider, ReuseVerdict, BeginBurst, Call, ReceiveAnswer
  <2>2. CASE RecordAnswer(w) \/ RetryLater(w) \/ GiveUp(w) \/ LeaveUncertain(w)
    BY <1>7, <2>2 DEF CallProvider, RecordAnswer, RetryLater, GiveUp, LeaveUncertain, End
  <2> QED
    BY <1>7, <2>1, <2>2 DEF CallProvider, ProviderStep
<1>8. ASSUME NEW w \in Workers, \/ SettleWithoutFunds(w) \/ ReturnToTask(w) \/ ReturnToClient(w)
                                \/ RecordDelivery(w) \/ RecordFailedDelivery(w)
      PROVE  P'
  BY <1>8 DEF SettleWithoutFunds, ReturnToTask, ReturnToClient, RecordDelivery,
              RecordFailedDelivery, End
<1>9. ASSUME NEW w \in Workers, PostCallback(w) \/ PostCallbackFails(w) PROVE P'
  <2>1. /\ UNCHANGED <<state, seen, candidates, delivered>>
        /\ \/ at' = [at EXCEPT ![w] = "row"] /\ Tell(w)
           \/ at' = [at EXCEPT ![w] = "retry"] /\ (Tell(w) \/ told' = told)
    BY <1>9 DEF PostCallback, PostCallbackFails
  <2>2. seen[w] \in TerminalStates /\ state[KeyOf(w)] = seen[w]
    BY <1>9 DEF PostCallback, PostCallbackFails
  <2> DEFINE status == PublicStatus(seen[w])
  <2>3. /\ status \in {"COMPLETED", "FAILED"} /\ status = PublicStatus(state[KeyOf(w)])
        /\ Tell(w) => told' = [told EXCEPT ![KeyOf(w)] = @ \union {status}]
    BY <2>2 DEF Tell
  <2> HIDE DEF status
  <2>4. /\ \A k \in Keys : told[k] \subseteq told'[k]
        /\ Tell(w) => told'[KeyOf(w)] # {}
    <3>1. CASE Tell(w)
      <4>1. \A k \in Keys : told[k] \subseteq told'[k]
        BY <2>3, <3>1
      <4>2. status \in told'[KeyOf(w)]
        BY <2>3, <3>1
      <4> QED
        BY <4>1, <4>2
    <3>2. CASE ~Tell(w)
      BY <2>1, <3>2
    <3> QED
      BY <3>1, <3>2
  <2>5. OneOutcomeTold'
    BY <2>1, <2>3
  <2>6. SettledRecords'
    BY <2>1, <2>2, <2>4
  <2>7. DeliveredWasTold'
    BY <2>1, <2>4
  <2> QED
    BY <2>5, <2>6, <2>7
<1>10. ASSUME NEW w \in Workers, (ProviderFault(w) /\ UNCHANGED applicationVars) \/ Throw(w) PROVE P'
  BY <1>10 DEF ProviderFault, ReceiveFailure, ReceiveTornAnswer, Throw, End
<1>11. CASE Scan
  BY <1>11 DEF Scan, IsCandidate, Pending
<1>12. CASE Recover
  <2> DEFINE settled == {Task(c[1]) : c \in {d \in candidates : d[2] # "PENDING"}}
  <2>1. \A w \in settled : state[KeyOf(w)] \in TerminalStates
    BY WorkersOfKeys
  <2>2. /\ UNCHANGED <<state, told, delivered>> /\ candidates' = {}
        /\ \A w \in Workers :
             \/ at'[w] = "post" /\ w \in settled /\ seen'[w] = state[KeyOf(w)]
             \/ at'[w] = "queued" /\ seen'[w] \in {seen[w], state[KeyOf(w)]}
             \/ at'[w] = at[w] /\ seen'[w] = seen[w]
    BY <1>12 DEF Recover
  <2> HIDE DEF settled
  <2>3. SettledRecords'
    BY <2>1, <2>2
  <2> QED
    BY <2>2, <2>3
<1>13. CASE ProcessDies
  BY <1>13 DEF ProcessDies, End
<1> QED
  BY <1>1, <1>2, <1>3, <1>4, <1>5, <1>6, <1>7, <1>8, <1>9, <1>10, <1>11, <1>12, <1>13
     DEF Next, WorkerStep, WorkerFault

\* Settlements: what they rest on is never taken back.
LEMMA SettlementsKept ==
  ASSUME LedgerInv, LedgerInv', RestInv, [Next]_vars
  PROVE  CompletedOnlyIfAccepted' /\ FailureIsDefinite'
<1> DEFINE P == CompletedOnlyIfAccepted /\ FailureIsDefinite
<1> USE WorkersHaveKeys
    DEF RestInv, StoresTypeOK, CompletedOnlyIfAccepted, FailureIsDefinite, LedgerInv, LedgerTypeOK,
        ledgerVars, workerVars, providerVars
<1>1. ASSUME UNCHANGED ledgerVars, UNCHANGED <<accepted, attempts>> PROVE P'
  BY <1>1
<1>2. ASSUME UNCHANGED ledgerVars, accepted \subseteq accepted', UNCHANGED attempts PROVE P'
  BY <1>2
<1>3. ASSUME NEW w \in Workers, RecordOutcome(w), UNCHANGED ledgerVars, UNCHANGED accepted PROVE P'
  BY <1>3 DEF RecordOutcome
<1>4. ASSUME NEW k \in Keys, NEW c \in Commands, Submit(k, c) PROVE P'
  BY <1>4 DEF Submit, Create
<1>5. ASSUME NEW k \in Keys, \/ Answered(k) \/ Begin(k) \/ Land(k) PROVE P'
  BY <1>1, <1>2, <1>5 DEF Answered, Begin, Land
<1>6. ASSUME NEW w \in Workers, TakeStep(w) PROVE P'
  BY <1>6 DEF TakeStep, StepFrom, Transition, Advance, Pending, PendingStates
<1>7. ASSUME NEW w \in Workers, SettleCompleted(w) PROVE P'
  BY <1>7 DEF SettleCompleted, Succeeded, Fulfill, Post, HeardOutcomes
<1>8. ASSUME NEW w \in Workers, SettleFailed(w) PROVE P'
  BY <1>8 DEF SettleFailed, Succeeded, Transition, Advance, HeardOutcomes, Unknown
<1>9. ASSUME NEW w \in Workers, CallProvider(w) PROVE P'
  BY <1>1, <1>3, <1>9 DEF CallProvider, ProviderStep, ReuseVerdict, BeginBurst, Call, ReceiveAnswer,
                          RecordAnswer, RetryLater, GiveUp, LeaveUncertain
<1>10. ASSUME NEW w \in Workers,
              \/ StartWork(w) \/ ReadRecord(w) \/ StepRejected(w) \/ SettleWithoutFunds(w)
              \/ ReturnToTask(w) \/ ReturnToClient(w)
              \/ PostCallback(w) \/ RecordDelivery(w) \/ RecordFailedDelivery(w) \/ WorkerFault(w)
       PROVE  P'
  BY <1>1, <1>10 DEF StartWork, ReadRecord, StepRejected, SettleWithoutFunds, ReturnToTask,
                     ReturnToClient, PostCallback, RecordDelivery, RecordFailedDelivery,
                     WorkerFault, ProviderFault, ReceiveFailure, ReceiveTornAnswer,
                     PostCallbackFails, Throw
<1>11. CASE Scan \/ Recover \/ ProcessDies \/ UNCHANGED vars
  BY <1>1, <1>11 DEF Scan, Recover, ProcessDies, vars
<1> QED
  BY <1>4, <1>5, <1>6, <1>7, <1>8, <1>9, <1>10, <1>11 DEF Next, WorkerStep

\* One step of the system keeps both invariants.
LEMMA StepKeepsRestInv ==
  LedgerInv /\ RestInv /\ [Next]_vars => LedgerInv' /\ RestInv'
<1> SUFFICES ASSUME LedgerInv, RestInv, [Next]_vars PROVE LedgerInv' /\ RestInv'
  OBVIOUS
<1>1. LedgerInv'
  BY NextIsLedgerStep, StepKeepsInv
<1>2. RestInv'
  BY <1>1, TypesKept, OutcomesKept, RecordsKept, SettlementsKept DEF RestInv
<1> QED
  BY <1>1, <1>2

\* The invariant of condition R-A.
THEOREM RestInvariant == Spec => [](LedgerInv /\ RestInv)
<1>1. Init => LedgerInv /\ RestInv
  BY InitEstablishesInv, InitEstablishesRestInv DEF Init
<1> QED
  BY <1>1, StepKeepsRestInv, PTL DEF Spec

\* The orchestrator only changes the store through the ledger's transactions.
THEOREM RestImplementsLedger == Spec => ImplementsLedger
<1>1. Init => LedgerInit
  BY DEF Init
<1> QED
  BY <1>1, NextIsLedgerStep, RestInvariant, PTL DEF Spec, ImplementsLedger, LedgerSpec

\* So it keeps the API's promise to its clients.
THEOREM RestKeepsContract == Spec => RefinesContract
BY RestImplementsLedger, LedgerRefinesContract DEF ImplementsLedger

\* Under the REST orchestration, with its interleavings, crashes and repeated calls,
\* every balance is explained by the postings recorded for its account.
THEOREM RestBalancesAreExplained == Spec => []AccountBalancesMatchPostings
BY RestImplementsLedger, BalancesAreExplained DEF ImplementsLedger

\* Every variable keeps its type.
THEOREM RestTypeCorrect == Spec => []TypeOK
<1>1. LedgerInv /\ RestInv => TypeOK
  BY DEF LedgerInv, RestInv, WorkersTypeOK, StoresTypeOK, TypeOK
<1> QED
  BY <1>1, RestInvariant, PTL

\* Value only moves behind an effect the provider has accepted.
THEOREM RestCompletesOnlyAccepted == Spec => []CompletedOnlyIfAccepted
<1>1. RestInv => CompletedOnlyIfAccepted
  BY DEF RestInv
<1> QED
  BY <1>1, RestInvariant, PTL

\* A transfer only fails for a definite, recorded cause.
THEOREM RestFailsDefinitely == Spec => []FailureIsDefinite
<1>1. RestInv => FailureIsDefinite
  BY DEF RestInv
<1> QED
  BY <1>1, RestInvariant, PTL

\* No client is ever told an outcome the ledger does not hold.
THEOREM RestTellsOneOutcome == Spec => []OneOutcomeTold
<1>1. RestInv => OneOutcomeTold
  BY DEF RestInv
<1> QED
  BY <1>1, RestInvariant, PTL

-------------------------------------------------------------------------------
(* With asynchronous clients one worker at a time runs a transfer *)

\* A request only leaves its transfer to the task.
RequestsOnlyCreate == \A k \in Keys : at[Request(k)] \in {"idle", "created"}

ProviderSteps == {"ensure", "call", "await", "record", "result", "nofunds"}

\* So a burst runs while no result is saved, and the transfer is settled with
\* the result that the burst has saved or found.
BurstsAreAlone ==
  \A w \in Workers :
    /\ at[w] \in ProviderSteps => state[KeyOf(w)] = "PREPARED"
    /\ at[w] \in {"call", "await", "record"} => verdict[KeyOf(w)] = NoVerdict
    /\ at[w] = "result" => heard[w] = verdict[KeyOf(w)]
    /\ at[w] = "nofunds" => verdict[KeyOf(w)] = "COMPLETED"

AsyncInv == RequestsOnlyCreate /\ BurstsAreAlone /\ VerdictExplainsSettlement

\* The worker that runs a transfer is its task.
LEMMA OneWorkerRuns ==
  ASSUME AsyncInv, NEW v \in Workers, NEW w \in Workers, KeyOf(v) = KeyOf(w),
         at[v] \notin {"idle", "created"}, at[w] \notin {"idle", "created"}
  PROVE  v = w
<1>1. \A u \in Workers : u = Request(KeyOf(u)) \/ u = Task(KeyOf(u))
  BY RestAssumption DEF Workers, Request, Task, KeyOf
<1> QED
  BY <1>1, WorkersHaveKeys DEF AsyncInv, RequestsOnlyCreate

\* Nothing is requested and nothing runs at the start.
LEMMA InitEstablishesAsyncInv == Init => AsyncInv
BY WorkersOfKeys, WorkersHaveKeys
   DEF Init, WorkflowInit, LedgerInit, AsyncInv, RequestsOnlyCreate, BurstsAreAlone,
       ProviderSteps, VerdictExplainsSettlement

\* What the provider call does with the saved result.
LEMMA BurstKeepsAsyncInv ==
  ASSUME RestInv, AsyncInv, NEW w \in Workers, CallProvider(w)
  PROVE  AsyncInv'
<1> USE WorkersHaveKeys, WorkersOfKeys, OutcomesAreCauses
    DEF RestInv, WorkersTypeOK, StoresTypeOK, AsyncInv, RequestsOnlyCreate, BurstsAreAlone,
        ProviderSteps, VerdictExplainsSettlement, Goto, ledgerVars, providerVars
<1>1. CASE ReuseVerdict(w) \/ BeginBurst(w) \/ Call(w) \/ ReceiveAnswer(w)
  BY <1>1 DEF ReuseVerdict, BeginBurst, Call, ReceiveAnswer
<1>2. CASE RetryLater(w) \/ LeaveUncertain(w)
  BY <1>2 DEF RetryLater, LeaveUncertain, End
<1>3. CASE RecordAnswer(w) \/ GiveUp(w)
  <2>1. /\ at[w] = "record" /\ at' = [at EXCEPT ![w] = "result"]
        /\ SaveVerdict(w) /\ UNCHANGED <<ledgerVars, heard>>
    BY <1>3 DEF RecordAnswer, GiveUp
  <2>2. \A v \in Workers : v # w /\ KeyOf(v) = KeyOf(w) => at[v] \in {"idle", "created"}
    BY <2>1, OneWorkerRuns
  <2>3. RequestsOnlyCreate'
    BY <2>1
  <2>4. BurstsAreAlone'
    BY <2>1, <2>2 DEF SaveVerdict
  <2>5. VerdictExplainsSettlement'
    BY <2>1 DEF SaveVerdict
  <2> QED
    BY <2>3, <2>4, <2>5
<1> QED
  BY <1>1, <1>2, <1>3 DEF CallProvider, ProviderStep

\* Steps that move the row: only the worker that runs the transfer does.
LEMMA ProgressKeepsAsyncInv ==
  ASSUME LedgerInv, RestInv, AsyncInv, NEW w \in Workers,
         TakeStep(w) \/ SettleCompleted(w) \/ SettleFailed(w)
  PROVE  AsyncInv'
<1> DEFINE k == KeyOf(w)
<1>1. /\ k \in Keys /\ at[w] \in {"steps", "result", "nofunds"}
      /\ at' = [at EXCEPT ![w] = StepAfter(state'[k])]
      /\ UNCHANGED <<heard, verdict>>
      /\ state' \in [Keys -> States]
      /\ \A j \in Keys : j # k => state'[j] = state[j] /\ cause'[j] = cause[j]
  BY WorkersHaveKeys
     DEF TakeStep, SettleCompleted, SettleFailed, Hold, Goto, Transition, Advance, Fulfill, Post,
         LedgerInv, LedgerTypeOK, ledgerVars, providerVars, StepFrom, States, PendingStates,
         TerminalStates
<1>2. \A v \in Workers : v # w /\ KeyOf(v) = k => at[v] \in {"idle", "created"}
  BY <1>1, OneWorkerRuns
<1>3. /\ state'[k] = "FULFILLED" => verdict[k] = "COMPLETED"
      /\ state'[k] = "FAILED" =>
           \/ verdict[k] = cause'[k]
           \/ verdict[k] = "COMPLETED" /\ cause'[k] = "INSUFFICIENT_FUNDS"
  BY WorkersHaveKeys
     DEF AsyncInv, BurstsAreAlone, VerdictExplainsSettlement, TakeStep, SettleCompleted,
         SettleFailed, Succeeded, Transition, Advance, Fulfill, Post, StepFrom, LedgerInv,
         LedgerTypeOK, ledgerVars
<1>4. RequestsOnlyCreate'
  BY <1>1, WorkersOfKeys DEF AsyncInv, RequestsOnlyCreate
<1>5. BurstsAreAlone'
  <2> SUFFICES ASSUME NEW v \in Workers
               PROVE  /\ at'[v] \in ProviderSteps => state'[KeyOf(v)] = "PREPARED"
                      /\ at'[v] \in {"call", "await", "record"} => verdict'[KeyOf(v)] = NoVerdict
                      /\ at'[v] = "result" => heard'[v] = verdict'[KeyOf(v)]
                      /\ at'[v] = "nofunds" => verdict'[KeyOf(v)] = "COMPLETED"
    BY DEF BurstsAreAlone
  <2>1. CASE v = w
    BY <1>1, <2>1 DEF StepAfter, ProviderSteps, RestInv, WorkersTypeOK
  <2>2. CASE v # w
    <3>1. at'[v] = at[v]
      BY <1>1, <2>2 DEF RestInv, WorkersTypeOK
    <3> QED
      BY <1>1, <1>2, <2>2, <3>1, WorkersHaveKeys DEF AsyncInv, BurstsAreAlone, ProviderSteps
  <2> QED
    BY <2>1, <2>2
<1>6. VerdictExplainsSettlement'
  BY <1>1, <1>3 DEF AsyncInv, VerdictExplainsSettlement
<1> QED
  BY <1>4, <1>5, <1>6 DEF AsyncInv

\* Every step of the orchestrator keeps the invariant of asynchronous clients.
LEMMA StepKeepsAsyncInv ==
  ASSUME ClientMode = "async", LedgerInv, RestInv, AsyncInv, [Next]_vars
  PROVE  AsyncInv'
<1>1. ASSUME UNCHANGED <<state, cause, verdict>>, RequestsOnlyCreate',
             \A w \in Workers : \/ at'[w] = at[w] /\ heard'[w] = heard[w]
                                \/ at'[w] \notin ProviderSteps
      PROVE  AsyncInv'
  BY <1>1 DEF AsyncInv, BurstsAreAlone, ProviderSteps, VerdictExplainsSettlement
<1> USE WorkersHaveKeys, WorkersOfKeys
    DEF RestInv, WorkersTypeOK, RequestsOnlyCreate, ProviderSteps, Goto,
        ledgerVars, workerVars, providerVars
<1>2. /\ RequestsOnlyCreate /\ at \in [Workers -> AtSteps]
      /\ \A k \in Keys : Request(k) # Task(k)
  BY DEF AsyncInv, Request, Task
<1>3. CASE UNCHANGED vars
  BY <1>1, <1>2, <1>3 DEF vars
<1>4. ASSUME NEW k \in Keys, NEW c \in Commands, Submit(k, c) PROVE AsyncInv'
  <2>1. state[k] = "NONE" /\ state' = [state EXCEPT ![k] = "RECEIVED"] /\ UNCHANGED cause
    BY <1>4 DEF Submit, Create
  <2>2. at' = [at EXCEPT ![Request(k)] = "created"] /\ UNCHANGED <<heard, verdict>>
    BY <1>4 DEF Submit
  <2>3. RequestsOnlyCreate'
    BY <1>2, <2>2
  <2>4. BurstsAreAlone'
    BY <1>2, <2>1, <2>2 DEF AsyncInv, BurstsAreAlone, LedgerInv, LedgerTypeOK
  <2>5. VerdictExplainsSettlement'
    BY <2>1, <2>2 DEF AsyncInv, VerdictExplainsSettlement, LedgerInv, LedgerTypeOK
  <2> QED
    BY <2>3, <2>4, <2>5 DEF AsyncInv
<1>5. ASSUME NEW k \in Keys, Answered(k) \/ Land(k) PROVE AsyncInv'
  BY <1>1, <1>2, <1>5 DEF Answered, Land
<1>6. ASSUME NEW k \in Keys, Begin(k) PROVE AsyncInv'
  BY <1>1, <1>2, <1>6 DEF Begin
<1>7. ASSUME NEW w \in Workers, StartWork(w) \/ ReturnToTask(w) \/ PostCallback(w)
      PROVE  AsyncInv'
  BY <1>1, <1>2, <1>7 DEF StartWork, ReturnToTask, PostCallback
<1>8. ASSUME NEW w \in Workers, End({w}), UNCHANGED <<state, cause, verdict>> PROVE AsyncInv'
  BY <1>1, <1>2, <1>8 DEF End
<1>9. ASSUME NEW w \in Workers,
             StepRejected(w) \/ ReturnToClient(w) \/ RecordDelivery(w) \/ RecordFailedDelivery(w)
      PROVE  AsyncInv'
  <2>1. CASE End({w})
    BY <1>8, <1>9, <2>1
       DEF StepRejected, ReturnToClient, RecordDelivery, RecordFailedDelivery
  <2>2. CASE ~End({w})
    BY <1>1, <1>2, <1>9, <2>2
       DEF StepRejected, ReturnToClient, RecordDelivery, RecordFailedDelivery
  <2> QED
    BY <2>1, <2>2
<1>10. ASSUME NEW w \in Workers, ReadRecord(w) PROVE AsyncInv'
  BY <1>2, <1>10
     DEF ReadRecord, Hold, StepAfter, AsyncInv, BurstsAreAlone, VerdictExplainsSettlement
<1>11. ASSUME NEW w \in Workers, SettleWithoutFunds(w) PROVE AsyncInv'
  BY <1>2, <1>11
     DEF SettleWithoutFunds, Succeeded, AsyncInv, BurstsAreAlone, VerdictExplainsSettlement
<1>12. ASSUME NEW w \in Workers, WorkerFault(w) PROVE AsyncInv'
  <2>1. CASE ReceiveTornAnswer(w) \/ Throw(w)
    BY <1>8, <2>1 DEF ReceiveTornAnswer, Throw
  <2>2. CASE PostCallbackFails(w)
    BY <1>1, <1>2, <2>2 DEF PostCallbackFails
  <2>3. CASE ReceiveFailure(w)
    BY <1>2, <2>3 DEF ReceiveFailure, AsyncInv, BurstsAreAlone, VerdictExplainsSettlement
  <2> QED
    BY <1>12, <2>1, <2>2, <2>3 DEF WorkerFault, ProviderFault
<1>13. CASE Scan \/ Recover \/ ProcessDies
  BY ZenonT(60), <1>1, <1>2, <1>13 DEF Scan, Recover, ProcessDies, End, Task, Request
<1> QED
  BY <1>3, <1>4, <1>5, <1>6, <1>7, <1>9, <1>10, <1>11, <1>12, <1>13,
     BurstKeepsAsyncInv, ProgressKeepsAsyncInv DEF Next, WorkerStep

\* With asynchronous clients, as in every condition of the experiment.
THEOREM AsyncInvariant ==
  ASSUME ClientMode = "async"
  PROVE  Spec => [](LedgerInv /\ RestInv /\ AsyncInv)
<1>1. Init => LedgerInv /\ RestInv /\ AsyncInv
  BY InitEstablishesInv, InitEstablishesRestInv, InitEstablishesAsyncInv DEF Init
<1>2. LedgerInv /\ RestInv /\ AsyncInv /\ [Next]_vars => LedgerInv' /\ RestInv' /\ AsyncInv'
  BY StepKeepsRestInv, StepKeepsAsyncInv
<1> QED
  BY <1>1, <1>2, PTL DEF Spec

\* The saved result explains the settlement, however bursts, crashes and
\* recoveries follow each other.
THEOREM RestVerdictExplains ==
  ASSUME ClientMode = "async"
  PROVE  Spec => []VerdictExplainsSettlement
<1>1. AsyncInv => VerdictExplainsSettlement
  BY DEF AsyncInv
<1> QED
  BY <1>1, AsyncInvariant, PTL

\* A saved result is never replaced.
THEOREM RestVerdictIsFinal ==
  ASSUME ClientMode = "async"
  PROVE  Spec => VerdictIsFinal
<1>1. ASSUME LedgerInv, RestInv, AsyncInv, [Next]_vars,
             NEW k \in Keys, verdict[k] # NoVerdict
      PROVE  verdict'[k] = verdict[k]
  <2>1. ASSUME NEW w \in Workers, at[w] = "record", SaveVerdict(w)
        PROVE  verdict'[k] = verdict[k]
    BY <1>1, <2>1, WorkersHaveKeys
       DEF SaveVerdict, AsyncInv, BurstsAreAlone, RestInv, StoresTypeOK
  <2>2. ASSUME NEW w \in Workers, WorkerStep(w) \/ WorkerFault(w)
        PROVE  UNCHANGED verdict \/ (at[w] = "record" /\ SaveVerdict(w))
    BY <2>2 DEF WorkerStep, StartWork, ReadRecord, TakeStep, StepRejected, CallProvider,
                ProviderStep, ReuseVerdict, BeginBurst, Call, ReceiveAnswer, RecordAnswer,
                RetryLater, GiveUp, LeaveUncertain, SettleCompleted, SettleWithoutFunds,
                SettleFailed, ReturnToTask, ReturnToClient, PostCallback, RecordDelivery,
                RecordFailedDelivery, WorkerFault, ProviderFault, ReceiveFailure,
                ReceiveTornAnswer, PostCallbackFails, Throw, providerVars
  <2>3. ASSUME ~\E w \in Workers : WorkerStep(w) \/ WorkerFault(w)
        PROVE  UNCHANGED verdict
    BY <1>1, <2>3 DEF Next, vars, Submit, Answered, Begin, Land, Scan, Recover, ProcessDies,
                      providerVars
  <2> QED
    BY <2>1, <2>2, <2>3
<1>2. LedgerInv /\ RestInv /\ AsyncInv /\ [Next]_vars =>
        [\A k \in Keys : verdict[k] # NoVerdict => verdict'[k] = verdict[k]]_providerVars
  BY <1>1
<1> QED
  BY <1>2, AsyncInvariant, PTL DEF Spec, VerdictIsFinal

\* The provider is only called for a pending transfer without a saved result,
\* however stale the record is that recovery handed to the task.
THEOREM RestCallsOnlyUnresolved ==
  ASSUME ClientMode = "async"
  PROVE  Spec => NoCallOnceResolved
<1>1. ASSUME LedgerInv, RestInv, AsyncInv, [Next]_vars,
             NEW k \in Keys, wire'[k] > wire[k]
      PROVE  Pending(k) /\ verdict[k] = NoVerdict
  <2>1. ASSUME NEW w \in Workers, WorkerStep(w) \/ WorkerFault(w)
        PROVE  \/ UNCHANGED wire
               \/ Call(w)
               \/ wire' = [wire EXCEPT ![KeyOf(w)] = @ - 1]
    BY <2>1 DEF WorkerStep, StartWork, ReadRecord, TakeStep, StepRejected, CallProvider,
                ProviderStep, ReuseVerdict, BeginBurst, ReceiveAnswer, RecordAnswer,
                RetryLater, GiveUp, LeaveUncertain, SettleCompleted, SettleWithoutFunds,
                SettleFailed, ReturnToTask, ReturnToClient, PostCallback, RecordDelivery,
                RecordFailedDelivery, WorkerFault, ProviderFault, ReceiveFailure,
                ReceiveTornAnswer, PostCallbackFails, Throw, providerVars
  <2>2. ASSUME ~\E w \in Workers : WorkerStep(w) \/ WorkerFault(w)
        PROVE  UNCHANGED wire \/ \E j \in Keys : wire' = [wire EXCEPT ![j] = @ - 1]
    BY <1>1, <2>2 DEF Next, vars, Submit, Answered, Begin, Land, Scan, Recover, ProcessDies,
                      providerVars
  <2>3. wire \in [Keys -> Nat]
    BY <1>1 DEF RestInv, StoresTypeOK
  <2>4. PICK w \in Workers : Call(w)
    BY <1>1, <2>1, <2>2, <2>3, WorkersHaveKeys
  <2>5. KeyOf(w) = k /\ at[w] = "call"
    BY <1>1, <2>3, <2>4, WorkersHaveKeys DEF Call
  <2> QED
    BY <1>1, <2>5 DEF AsyncInv, BurstsAreAlone, ProviderSteps, Pending, PendingStates
<1>2. LedgerInv /\ RestInv /\ AsyncInv /\ [Next]_vars =>
        [\A k \in Keys :
           wire'[k] > wire[k] => Pending(k) /\ verdict[k] = NoVerdict]_providerVars
  BY <1>1
<1> QED
  BY <1>2, AsyncInvariant, PTL DEF Spec, NoCallOnceResolved

===============================================================================
