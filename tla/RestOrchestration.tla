--------------------------- MODULE RestOrchestration ---------------------------
(***************************************************************************)
(* Condition R-A (and its synchronous variant): PaymentApplication over    *)
(* RestOrchestrator, which takes each transfer through its steps in one    *)
(* run of execute().                                                       *)
(***************************************************************************)
EXTENDS PaymentApplication

CONSTANT WorkerConcurrency    \* workers the WorkLimiter admits to execute()

ASSUME RestAssumption ==
  /\ Lanes = {"request", "task"}
  /\ WorkerConcurrency \in Nat \ {0}

vars == <<ledgerVars, workerVars, providerVars, faults, applicationVars>>

ExecuteSteps ==
  {"read", "steps", "ensure", "call", "await", "record", "result", "nofunds", "return"}
Busy(w) == at[w] \in ExecuteSteps
AtSteps ==
  ExecuteSteps \union {"idle", "created", "queued", "post", "row", "retry"}

Init ==
  /\ LedgerInit
  /\ WorkflowInit
  /\ ApplicationInit

-------------------------------------------------------------------------------
(* RestOrchestrator.execute() *)

StartWork(w) ==
  /\ at[w] = "queued"
  /\ Cardinality({v \in Workers : Busy(v)}) < WorkerConcurrency
  /\ Goto(w, "read")
  /\ UNCHANGED <<ledgerVars, seen, tries, heard, providerVars, faults, applicationVars>>

\* The record in hand decides what execute() does next.
StepAfter(s) ==
  IF s = "PREPARED" THEN "ensure" ELSE IF s \in TerminalStates THEN "return" ELSE "steps"

Hold(w, s) ==
  /\ seen' = [seen EXCEPT ![w] = s]
  /\ Goto(w, StepAfter(s))

ReadRecord(w) ==
  /\ at[w] = "read"
  /\ Hold(w, state[KeyOf(w)])
  /\ UNCHANGED <<ledgerVars, tries, heard, providerVars, faults, applicationVars>>

StepFrom(s) == IF s = "RECEIVED" THEN "VALIDATED" ELSE "PREPARED"

TakeStep(w) ==
  LET k == KeyOf(w) IN
  /\ at[w] = "steps"
  /\ Transition(k, StepFrom(seen[w]), NoCause)
  /\ Hold(w, state'[k])
  /\ UNCHANGED <<tries, heard, providerVars, faults, applicationVars>>

\* Another worker was faster: INVALID_STATE_TRANSITION ends this one.
StepRejected(w) ==
  /\ at[w] = "steps"
  /\ IllegalTransition(KeyOf(w), StepFrom(seen[w]))
  /\ End({w})
  /\ UNCHANGED <<ledgerVars, providerVars, faults, applicationVars>>

CallProvider(w) == ProviderStep(w) /\ UNCHANGED applicationVars

Succeeded(w) == heard[w] = "COMPLETED"

SettleCompleted(w) ==
  LET k == KeyOf(w) IN
  /\ at[w] = "result"
  /\ Succeeded(w)
  /\ Fulfill(k)
  /\ Hold(w, state'[k])
  /\ UNCHANGED <<tries, heard, providerVars, faults, applicationVars>>

SettleWithoutFunds(w) ==
  /\ at[w] = "result"
  /\ Succeeded(w)
  /\ LacksFunds(KeyOf(w))
  /\ Goto(w, "nofunds")
  /\ UNCHANGED <<ledgerVars, seen, tries, heard, providerVars, faults, applicationVars>>

\* fail() with the record in hand, which is PREPARED: its early return for a
\* terminal record cannot be taken, transition() re-reads the row.
SettleFailed(w) ==
  LET k == KeyOf(w) IN
  /\ \/ at[w] = "result" /\ ~Succeeded(w) /\ Transition(k, "FAILED", heard[w])
     \/ at[w] = "nofunds" /\ Transition(k, "FAILED", "INSUFFICIENT_FUNDS")
  /\ Hold(w, state'[k])
  /\ UNCHANGED <<tries, heard, providerVars, faults, applicationVars>>

-------------------------------------------------------------------------------

WorkerStep(w) ==
  \/ StartWork(w) \/ ReadRecord(w) \/ TakeStep(w) \/ StepRejected(w)
  \/ CallProvider(w)
  \/ SettleCompleted(w) \/ SettleWithoutFunds(w) \/ SettleFailed(w)
  \/ ReturnToTask(w) \/ ReturnToClient(w)
  \/ PostCallback(w) \/ RecordDelivery(w) \/ RecordFailedDelivery(w)

WorkerFault(w) ==
  \/ ProviderFault(w) /\ UNCHANGED applicationVars
  \/ PostCallbackFails(w)
  \/ Throw(w)

Next ==
  \/ \E k \in Keys :
       \/ \E c \in Commands : Submit(k, c)
       \/ Answered(k)
       \/ Begin(k)
       \/ Land(k) /\ UNCHANGED applicationVars
  \/ \E w \in Workers : WorkerStep(w) \/ WorkerFault(w)
  \/ Scan
  \/ Recover
  \/ ProcessDies

Spec == Init /\ [][Next]_vars

\* Timers, promises and sockets make progress as long as the process runs:
\* every worker that can step does, a request under way arrives, and the
\* recovery interval keeps firing.
Fairness ==
  /\ \A k \in Keys : WF_vars(Begin(k)) /\ WF_vars(Land(k) /\ UNCHANGED applicationVars)
  /\ \A w \in Workers : WF_vars(WorkerStep(w))
  /\ WF_vars(Scan)
  /\ WF_vars(Recover)

FairSpec == Spec /\ Fairness

-------------------------------------------------------------------------------
(* Properties *)

TypeOK ==
  /\ LedgerTypeOK
  /\ at \in [Workers -> AtSteps]
  /\ seen \in [Workers -> States]
  /\ tries \in [Workers -> Nat]
  /\ heard \in [Workers -> Causes \union {NoVerdict}]
  /\ verdict \in [Keys -> Causes \union {NoVerdict}]
  /\ attempts \in [Keys -> SUBSET Causes]
  /\ wire \in [Keys -> Nat]
  /\ accepted \in SUBSET Keys
  /\ faults \in Nat
  /\ candidates \in SUBSET (Keys \X {"PENDING", "COMPLETED", "FAILED"})
  /\ told \in [Keys -> SUBSET {"COMPLETED", "FAILED"}]
  /\ delivered \in SUBSET Keys

\* Once faults stop, recovery settles every transfer that was accepted, and has
\* its callback delivered and recorded.
EventuallyDelivered ==
  \A k \in Keys : state[k] # "NONE" ~> k \in delivered
===============================================================================
