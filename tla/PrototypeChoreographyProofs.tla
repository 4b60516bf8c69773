---------------------- MODULE PrototypeChoreographyProofs ----------------------
(***************************************************************************)
(* Proofs about the prototype mode, for every set of keys, commands,       *)
(* failure codes and bounds, in both client modes.  Its store is no        *)
(* refinement of the open ledger: refused funds leave two accounts open,   *)
(* and reset() takes everything back.  LedgerInv survives both all the     *)
(* same.  ProtoInv says what a run that a reset() has overtaken can still  *)
(* hold: work is under way only for transfers the store knows or for       *)
(* retired keys, and a settled record in hand is the row unless its key is *)
(* retired.                                                                *)
(***************************************************************************)
EXTENDS PrototypeChoreography, TransferLedgerProofs

ProtoSteps ==
  {"idle", "created", "queued", "received", "validated", "prepared", "ensure", "call", "await",
   "record", "result", "nofunds", "wait", "return", "post", "row", "retry"}

ProtoTypeOK ==
  /\ at \in [Workers -> ProtoSteps]
  /\ seen \in [Workers -> States]
  /\ heard \in [Workers -> Causes \union {NoVerdict}]
  /\ verdict \in [Keys -> Causes \union {NoVerdict}]
  /\ told \in [Keys -> SUBSET {"COMPLETED", "FAILED"}]
  /\ candidates \in SUBSET (Keys \X {"PENDING", "COMPLETED", "FAILED"})
  /\ retired \in SUBSET Keys

\* A worker acts on a result it has.
ResultsKnown == \A w \in Workers : at[w] = "result" => heard[w] \in Causes

\* Work is under way only for transfers the store knows, or knew before a reset.
WorkIsKnown ==
  /\ \A w \in Workers : at[w] # "idle" => state[KeyOf(w)] # "NONE" \/ KeyOf(w) \in retired
  /\ \A c \in candidates :
       /\ state[c[1]] # "NONE"
       /\ c[2] # "PENDING" => state[c[1]] \in TerminalStates

\* A settled record in a worker's hands is the row, unless the row was reset away.
RecordsAreRows ==
  \A w \in Workers :
    /\ seen[w] \in TerminalStates => state[KeyOf(w)] = seen[w] \/ KeyOf(w) \in retired
    /\ at[w] \in {"return", "post", "row", "retry"} => seen[w] \in TerminalStates

ProtoInv ==
  /\ ProtoTypeOK
  /\ ResultsKnown
  /\ WorkIsKnown
  /\ RecordsAreRows
  /\ WaitFindsSettled
  /\ StaleWorkLeavesNoTrace
  /\ OneOutcomeToldUntilReset

-------------------------------------------------------------------------------
(* The store: the ledger's transactions, refused funds and reset() *)

\* Causes are the outcomes of attempts.
LEMMA OutcomesAreCauses ==
  /\ \A k \in Keys : Answer[k] \in Causes
  /\ Answers \subseteq Causes
  /\ FailureCodes \subseteq Causes
  /\ NoVerdict \notin Causes
BY WorkflowStepsAssumption DEF Answers, RetryableCodes, Unknown

\* A worker belongs to a key, and a key has two workers.
LEMMA WorkersAndKeys ==
  /\ \A w \in Workers : KeyOf(w) \in Keys
  /\ \A k \in Keys : /\ Request(k) \in Workers /\ Task(k) \in Workers
                     /\ KeyOf(Request(k)) = k /\ KeyOf(Task(k)) = k
BY PrototypeAssumption DEF Workers, Request, Task, KeyOf

\* A worker's step, or a fault it meets, is a transaction of the open ledger,
\* or leaves the store alone, or refuses a transfer its funds.
LEMMA WorkerStepOfStore ==
  ASSUME ProtoInv, NEW w \in Workers, WorkerStep(w) \/ WorkerFault(w)
  PROVE  [LedgerNext]_ledgerVars \/ RefuseFunds(w)
<1> USE WorkersAndKeys
<1>1. CASE \/ Execute(w) \/ Overtaken(w) \/ HandlePrepared(w) \/ Resolve(w) \/ RecordGone(w)
           \/ ReturnToTask(w) \/ ReturnToClient(w)
           \/ PostCallback(w) \/ RecordDelivery(w) \/ RecordFailedDelivery(w) \/ WorkerFault(w)
  BY <1>1 DEF Execute, Overtaken, HandlePrepared, Resolve, RecordGone, ReturnToTask,
              ReturnToClient, PostCallback, RecordDelivery, RecordFailedDelivery,
              WorkerFault, ReceiveFailure, PostCallbackFails
<1>2. CASE CallProvider(w)
  BY <1>2 DEF CallProvider, ProviderStep, ReuseVerdict, BeginBurst, Call, ReceiveAnswer,
              RecordAnswer, RetryLater, GiveUp, LeaveUncertain
<1>3. CASE HandleReceived(w) \/ HandleValidated(w)
  BY <1>3 DEF HandleReceived, HandleValidated, Handle, LedgerNext
<1>4. CASE HandleCompleted(w)
  BY <1>4 DEF HandleCompleted, LedgerNext
<1>5. CASE FailUnfunded(w)
  BY <1>5 DEF FailUnfunded, LedgerNext
<1>6. CASE HandleFailed(w)
  <2>1. heard[w] \in Causes /\ Transition(KeyOf(w), "FAILED", heard[w])
    BY <1>6 DEF HandleFailed, ProtoInv, ResultsKnown
  <2> QED
    BY <2>1 DEF LedgerNext
<1> QED
  BY <1>1, <1>2, <1>3, <1>4, <1>5, <1>6 DEF WorkerStep

\* So every step is one of three kinds.
LEMMA StepOfStore ==
  ASSUME ProtoInv, [Next]_vars
  PROVE  \/ [LedgerNext]_ledgerVars /\ UNCHANGED retired
         \/ (\E w \in Workers : RefuseFunds(w)) /\ UNCHANGED retired
         \/ Reset
<1>1. CASE UNCHANGED vars
  <2>1. UNCHANGED ledgerVars /\ UNCHANGED retired
    BY <1>1 DEF vars
  <2> QED
    BY <2>1
<1>2. ASSUME NEW k \in Keys, NEW c \in Commands, SubmitFresh(k, c) PROVE LedgerNext
  BY <1>2 DEF SubmitFresh, Submit, LedgerNext
<1>3. ASSUME NEW k \in Keys, Answered(k) \/ Begin(k) \/ Land(k) PROVE UNCHANGED ledgerVars
  BY <1>3 DEF Answered, Begin, Land
<1>4. ASSUME Scan \/ Recover PROVE UNCHANGED ledgerVars
  BY <1>4 DEF Scan, Recover
<1>5. ASSUME NEW w \in Workers, WorkerStep(w) \/ WorkerFault(w)
      PROVE  [LedgerNext]_ledgerVars \/ \E v \in Workers : RefuseFunds(v)
  BY <1>5, WorkerStepOfStore
<1>6. CASE Next
  <2>1. CASE Reset
    BY <2>1
  <2>2. CASE ~Reset
    <3>1. UNCHANGED retired
      BY <1>6, <2>2 DEF Next
    <3>2. [LedgerNext]_ledgerVars \/ \E v \in Workers : RefuseFunds(v)
      BY <1>2, <1>3, <1>4, <1>5, <1>6, <2>2 DEF Next
    <3> QED
      BY <3>1, <3>2
  <2> QED
    BY <2>1, <2>2
<1> QED
  BY <1>1, <1>6

\* What refused funds do to the accounts.
LEMMA RefusalOpens ==
  ASSUME LedgerInv, NEW w \in Workers, RefuseFunds(w)
  PROVE  /\ KeyOf(w) \in Keys /\ state[KeyOf(w)] = "PREPARED"
         /\ command[KeyOf(w)].payer \in Accounts /\ command[KeyOf(w)].payee \in Accounts
         /\ OpenAccounts(KeyOf(w))
         /\ UNCHANGED <<state, command, cause, entries>>
BY WorkersAndKeys, CommandsAssumption DEF RefuseFunds, LacksFunds, LedgerInv, CommandsBound

\* The accounts it leaves open are those the ledger would open, as empty.
LEMMA RefusalKeepsLedger ==
  ASSUME LedgerInv, NEW w \in Workers, RefuseFunds(w)
  PROVE  LedgerInv'
<1> USE RefusalOpens, DefaultPayerBalanceAssumption DEF LedgerInv, OpenAccounts, Funds
<1>1. LedgerTypeOK'
  BY DEF LedgerTypeOK
<1>2. CommandsBound'
  BY DEF CommandsBound
<1>3. UnopenedAreEmpty' /\ NoOverdraft'
  BY DEF LedgerTypeOK, UnopenedAreEmpty, NoOverdraft
<1>4. LedgerMatchesTransfers'
  BY DEF LedgerMatchesTransfers, EntryOf
<1> QED
  BY <1>1, <1>2, <1>3, <1>4

\* reset() leaves the store as it was at first.
LEMMA ResetKeepsLedger == ASSUME LedgerInv, Reset PROVE LedgerInv'
<1> USE DEF Reset, ResetLedger, LedgerInv
<1>1. LedgerTypeOK'
  BY DEF LedgerTypeOK, States
<1>2. CommandsBound' /\ UnopenedAreEmpty' /\ NoOverdraft'
  BY DEF CommandsBound, UnopenedAreEmpty, NoOverdraft
<1>3. LedgerMatchesTransfers'
  BY DEF LedgerMatchesTransfers
<1> QED
  BY <1>1, <1>2, <1>3

\* The invariant of the open ledger holds in the prototype mode as well.
LEMMA StepKeepsLedger == ASSUME LedgerInv, ProtoInv, [Next]_vars PROVE LedgerInv'
BY StepOfStore, StepKeepsInv, RefusalKeepsLedger, ResetKeepsLedger

\* While there is no reset() a transfer's request stays, a settled transfer is
\* not touched, and only submit() makes a transfer known.
LEMMA RowsStay ==
  ASSUME LedgerInv, ProtoInv, [Next]_vars, ~Reset
  PROVE  \A k \in Keys :
           /\ state[k] # "NONE" => state'[k] # "NONE" /\ command'[k] = command[k]
           /\ state[k] \in TerminalStates => state'[k] = state[k]
<1> SUFFICES ASSUME NEW k \in Keys
             PROVE  /\ state[k] # "NONE" => state'[k] # "NONE" /\ command'[k] = command[k]
                    /\ state[k] \in TerminalStates => state'[k] = state[k]
  OBVIOUS
<1> USE DEF LedgerInv, LedgerTypeOK, TerminalStates, ledgerVars
<1>1. CASE UNCHANGED <<state, command>>
  BY <1>1
<1>2. CASE \E w \in Workers : RefuseFunds(w)
  BY <1>1, <1>2, RefusalOpens
<1>3. CASE LedgerNext
  <2>1. ASSUME NEW j \in Keys, NEW c \in Commands, Create(j, c)
        PROVE  /\ state[k] # "NONE" => state'[k] # "NONE" /\ command'[k] = command[k]
               /\ state[k] \in TerminalStates => state'[k] = state[k]
    BY <2>1 DEF Create
  <2>2. ASSUME NEW j \in Keys, NEW next \in {"VALIDATED", "PREPARED", "FAILED"}, NEW why,
               Transition(j, next, why)
        PROVE  /\ state[k] # "NONE" => state'[k] # "NONE" /\ command'[k] = command[k]
               /\ state[k] \in TerminalStates => state'[k] = state[k]
    BY <2>2 DEF Transition, Advance, Pending, PendingStates
  <2>3. ASSUME NEW j \in Keys, Fulfill(j)
        PROVE  /\ state[k] # "NONE" => state'[k] # "NONE" /\ command'[k] = command[k]
               /\ state[k] \in TerminalStates => state'[k] = state[k]
    BY <2>3 DEF Fulfill, Post
  <2> QED
    BY <1>3, <2>1, <2>2, <2>3 DEF LedgerNext
<1> QED
  BY <1>1, <1>2, <1>3, StepOfStore

\* Only submit() makes a transfer known.
LEMMA RowsBegin ==
  ASSUME LedgerInv, ProtoInv, [Next]_vars,
         NEW k \in Keys, state[k] = "NONE", state'[k] # "NONE"
  PROVE  \E c \in Commands : SubmitFresh(k, c)
<1> USE DEF LedgerInv, LedgerTypeOK, ledgerVars
<1>1. ASSUME NEW j \in Keys, NEW next, NEW why, Transition(j, next, why) PROVE state'[k] = state[k]
  BY <1>1 DEF Transition, Advance, Pending, PendingStates
<1>2. ASSUME NEW j \in Keys, Fulfill(j) PROVE state'[k] = state[k]
  BY <1>2 DEF Fulfill, Post
<1>3. ASSUME NEW w \in Workers, WorkerStep(w) \/ WorkerFault(w) PROVE state'[k] = state[k]
  <2>1. CASE HandleReceived(w) \/ HandleValidated(w) \/ FailUnfunded(w) \/ HandleFailed(w)
    BY <1>1, <2>1, WorkersAndKeys
       DEF HandleReceived, HandleValidated, Handle, FailUnfunded, HandleFailed
  <2>2. CASE HandleCompleted(w)
    BY <1>2, <2>2, WorkersAndKeys DEF HandleCompleted
  <2>3. CASE \/ Execute(w) \/ Overtaken(w) \/ HandlePrepared(w) \/ Resolve(w) \/ RecordGone(w)
             \/ RefuseFunds(w) \/ ReturnToTask(w) \/ ReturnToClient(w)
             \/ PostCallback(w) \/ RecordDelivery(w) \/ RecordFailedDelivery(w) \/ WorkerFault(w)
    BY <2>3 DEF Execute, Overtaken, HandlePrepared, Resolve, RecordGone, RefuseFunds, ReturnToTask,
                ReturnToClient, PostCallback, RecordDelivery, RecordFailedDelivery,
                WorkerFault, ReceiveFailure, PostCallbackFails
  <2>4. CASE CallProvider(w)
    BY <2>4 DEF CallProvider, ProviderStep, ReuseVerdict, BeginBurst, Call, ReceiveAnswer,
                RecordAnswer, RetryLater, GiveUp, LeaveUncertain
  <2> QED
    BY <1>3, <2>1, <2>2, <2>3, <2>4 DEF WorkerStep
<1>4. ASSUME NEW j \in Keys, Answered(j) \/ Begin(j) \/ Land(j) PROVE state'[k] = state[k]
  BY <1>4 DEF Answered, Begin, Land
<1>5. CASE Scan \/ Recover \/ Reset \/ UNCHANGED vars
  BY <1>5 DEF Scan, Recover, Reset, vars
<1>6. ASSUME NEW j \in Keys, NEW c \in Commands, SubmitFresh(j, c) PROVE SubmitFresh(k, c)
  BY <1>6 DEF SubmitFresh, Submit, Create
<1> QED
  BY <1>3, <1>4, <1>5, <1>6 DEF Next

-------------------------------------------------------------------------------
(* What one worker's step does to the workers *)

\* It moves that worker only, which was at work, and keeps every type.  A worker
\* that goes on to a client has read a settled row; one that goes on with a
\* result has a definite one; one that goes on to wait leaves its row settled.
WorkerMove(w) ==
  /\ at[w] # "idle"
  /\ at' \in [Workers -> ProtoSteps]
  /\ seen' \in [Workers -> States]
  /\ heard' \in [Workers -> Causes \union {NoVerdict}]
  /\ verdict' \in [Keys -> Causes \union {NoVerdict}]
  /\ candidates' = candidates
  /\ \A v \in Workers \ {w} : at'[v] = at[v] /\ seen'[v] = seen[v] /\ heard'[v] = heard[v]
  /\ at'[w] = "result" => heard'[w] \in Causes
  /\ at'[w] = "wait" => ~Pending(KeyOf(w))'
  /\ seen'[w] \in {"NONE", seen[w], state[KeyOf(w)]}
  /\ at'[w] \in {"return", "post", "row", "retry"} => seen'[w] \in TerminalStates
  /\ \/ told' = told
     \/ /\ at[w] \in {"return", "post"}
        /\ told' = [told EXCEPT ![KeyOf(w)] = @ \union {PublicStatus(seen[w])}]

\* A handler that settles the row leaves it settled.
LEMMA SettlingSettles ==
  ASSUME LedgerInv, NEW k \in Keys, NEW why,
         Fulfill(k) \/ (state[k] # "NONE" /\ Transition(k, "FAILED", why))
  PROVE  ~Pending(k)'
BY DEF Fulfill, Post, Transition, AlreadyPast, Advance, Pending, PendingStates, TerminalStates,
       LedgerInv, LedgerTypeOK, ledgerVars

\* The handlers and the calls of execute().
LEMMA HandlersMove ==
  ASSUME LedgerInv, ProtoInv, NEW w \in Workers,
         \/ Execute(w) \/ HandleReceived(w) \/ HandleValidated(w) \/ Overtaken(w)
         \/ HandlePrepared(w) \/ HandleCompleted(w) \/ RefuseFunds(w) \/ FailUnfunded(w)
         \/ HandleFailed(w) \/ Resolve(w) \/ RecordGone(w)
  PROVE  WorkerMove(w)
<1> USE WorkersAndKeys
    DEF WorkerMove, ProtoInv, ProtoTypeOK, RecordsAreRows, ProtoSteps, Goto, End,
        States, TerminalStates, PendingStates, providerVars, applicationVars
<1>1. CASE Execute(w)
  BY <1>1 DEF Execute, Exists, Topic, Pending, LedgerInv, LedgerTypeOK, ledgerVars
<1>2. CASE HandleReceived(w) \/ HandleValidated(w)
  BY <1>2 DEF HandleReceived, HandleValidated, Handle
<1>3. CASE Overtaken(w) \/ RecordGone(w)
  BY <1>3 DEF Overtaken, RecordGone
<1>4. CASE HandlePrepared(w)
  BY <1>4 DEF HandlePrepared, Pending, ledgerVars
<1>5. CASE RefuseFunds(w)
  BY <1>5 DEF RefuseFunds
<1>6. CASE HandleCompleted(w) \/ FailUnfunded(w) \/ HandleFailed(w)
  <2>1. ~Pending(KeyOf(w))'
    BY <1>6, SettlingSettles DEF HandleCompleted, FailUnfunded, HandleFailed, Exists
  <2> QED
    BY <1>6, <2>1 DEF HandleCompleted, FailUnfunded, HandleFailed
<1>7. CASE Resolve(w)
  BY <1>7 DEF Resolve, LedgerInv, LedgerTypeOK
<1> QED
  BY <1>1, <1>2, <1>3, <1>4, <1>5, <1>6, <1>7

\* The steps of callProvider, with the answer that fails.
LEMMA ProviderStepsMove ==
  ASSUME LedgerInv, ProtoInv, NEW w \in Workers,
         CallProvider(w) \/ (ReceiveFailure(w) /\ UNCHANGED applicationVars)
  PROVE  WorkerMove(w)
<1> USE WorkersAndKeys, OutcomesAreCauses
    DEF WorkerMove, ProtoInv, ProtoTypeOK, RecordsAreRows, ProtoSteps, Goto, End,
        TerminalStates, providerVars, applicationVars
<1>1. CASE ReceiveFailure(w) /\ UNCHANGED applicationVars
  BY <1>1 DEF ReceiveFailure
<1>2. CASE CallProvider(w) /\ (ReuseVerdict(w) \/ BeginBurst(w) \/ Call(w) \/ ReceiveAnswer(w))
  BY <1>2 DEF CallProvider, ReuseVerdict, BeginBurst, Call, ReceiveAnswer
<1>3. CASE CallProvider(w) /\ (RecordAnswer(w) \/ GiveUp(w))
  BY <1>3 DEF CallProvider, RecordAnswer, GiveUp, SaveVerdict
<1>4. CASE CallProvider(w) /\ (RetryLater(w) \/ LeaveUncertain(w))
  BY <1>4 DEF CallProvider, RetryLater, LeaveUncertain, States
<1> QED
  BY <1>1, <1>2, <1>3, <1>4 DEF CallProvider, ProviderStep

\* What follows execute(): the answer and the callback.
LEMMA AnswersMove ==
  ASSUME LedgerInv, ProtoInv, NEW w \in Workers,
         \/ ReturnToTask(w) \/ ReturnToClient(w) \/ PostCallback(w) \/ PostCallbackFails(w)
         \/ RecordDelivery(w) \/ RecordFailedDelivery(w)
  PROVE  WorkerMove(w)
<1> USE WorkersAndKeys
    DEF WorkerMove, ProtoInv, ProtoTypeOK, RecordsAreRows, ProtoSteps, Goto, End,
        States, TerminalStates, providerVars, applicationVars
<1>1. CASE ReturnToTask(w)
  BY <1>1 DEF ReturnToTask
<1>2. CASE ReturnToClient(w)
  BY <1>2 DEF ReturnToClient
<1>3. CASE PostCallback(w) \/ PostCallbackFails(w)
  BY <1>3 DEF PostCallback, PostCallbackFails, Tell
<1>4. CASE RecordDelivery(w)
  BY <1>4 DEF RecordDelivery
<1>5. CASE RecordFailedDelivery(w)
  BY <1>5 DEF RecordFailedDelivery
<1> QED
  BY <1>1, <1>2, <1>3, <1>4, <1>5

\* Every step of a worker, and every fault it meets, is such a move.
LEMMA WorkerStepsMove ==
  ASSUME LedgerInv, ProtoInv, NEW w \in Workers, WorkerStep(w) \/ WorkerFault(w)
  PROVE  WorkerMove(w)
BY HandlersMove, ProviderStepsMove, AnswersMove DEF WorkerStep, WorkerFault

-------------------------------------------------------------------------------
(* ProtoInv is inductive *)

\* What a row that is not pending and is known, or was retired, can become
\* without a reset(): nothing that is pending.
LEMMA SettledStaySettled ==
  ASSUME LedgerInv, ProtoInv, [Next]_vars, ~Reset,
         NEW k \in Keys, ~Pending(k), state[k] # "NONE" \/ k \in retired
  PROVE  ~Pending(k)'
<1>1. CASE state[k] = "NONE"
  <2>1. state'[k] = "NONE"
    BY <1>1, RowsBegin DEF SubmitFresh
  <2> QED
    BY <2>1 DEF Pending, PendingStates
<1>2. CASE state[k] # "NONE"
  <2>1. state[k] \in TerminalStates
    BY <1>2 DEF LedgerInv, LedgerTypeOK, States, Pending
  <2> QED
    BY <2>1, RowsStay DEF Pending, PendingStates, TerminalStates
<1> QED
  BY <1>1, <1>2

\* What has been told of a transfer stays true without a reset().
LEMMA ToldStaysTrue ==
  ASSUME LedgerInv, ProtoInv, [Next]_vars, ~Reset, UNCHANGED retired,
         NEW k \in Keys, k \notin retired
  PROVE  told[k] \subseteq {PublicStatus(state[k])'} \ {"NONE", "PENDING"}
<1>1. CASE state[k] \in TerminalStates
  <2>1. state'[k] = state[k]
    BY <1>1, RowsStay
  <2> QED
    BY <2>1 DEF ProtoInv, OneOutcomeToldUntilReset, PublicStatus
<1>2. CASE state[k] \notin TerminalStates
  <2>1. told[k] = {}
    BY <1>2 DEF ProtoInv, OneOutcomeToldUntilReset, LedgerInv, LedgerTypeOK, States, PublicStatus
  <2> QED
    BY <2>1
<1> QED
  BY <1>1, <1>2

\* A worker's move keeps every part that is not about the store.
LEMMA MoveKeepsInv ==
  ASSUME LedgerInv, LedgerInv', ProtoInv, [Next]_vars, ~Reset, UNCHANGED retired,
         NEW w \in Workers, WorkerMove(w)
  PROVE  /\ ProtoTypeOK' /\ ResultsKnown' /\ WorkIsKnown' /\ RecordsAreRows'
         /\ WaitFindsSettled' /\ OneOutcomeToldUntilReset'
<1> USE WorkersAndKeys DEF ProtoInv, WorkerMove
<1>1. seen[w] \in States /\ KeyOf(w) \in Keys
  BY DEF ProtoTypeOK
<1>2. told' # told => /\ seen[w] \in TerminalStates
                      /\ told' = [told EXCEPT ![KeyOf(w)] = @ \union {PublicStatus(seen[w])}]
  BY DEF RecordsAreRows
<1>3. told' \in [Keys -> SUBSET {"COMPLETED", "FAILED"}]
  BY <1>2 DEF ProtoTypeOK, TerminalStates, PublicStatus, PendingStates
<1>4. ProtoTypeOK'
  BY <1>3 DEF ProtoTypeOK
<1>5. ResultsKnown'
  BY DEF ResultsKnown
<1>6. WorkIsKnown'
  <2>1. \A v \in Workers : at'[v] # "idle" => at[v] # "idle"
    OBVIOUS
  <2>2. \A v \in Workers : state[KeyOf(v)] # "NONE" => state'[KeyOf(v)] # "NONE"
    BY RowsStay
  <2>3. \A c \in candidates :
          /\ state'[c[1]] # "NONE"
          /\ c[2] # "PENDING" => state'[c[1]] \in TerminalStates
    BY RowsStay DEF WorkIsKnown, ProtoTypeOK
  <2> QED
    BY <2>1, <2>2, <2>3 DEF WorkIsKnown
<1>7. RecordsAreRows'
  <2>1. \A v \in Workers : seen'[v] \in {"NONE", seen[v], state[KeyOf(v)]}
    OBVIOUS
  <2>2. \A v \in Workers : state[KeyOf(v)] \in TerminalStates => state'[KeyOf(v)] = state[KeyOf(v)]
    BY RowsStay
  <2>3. "NONE" \notin TerminalStates
    BY DEF TerminalStates
  <2>4. \A v \in Workers :
          seen'[v] \in TerminalStates => state'[KeyOf(v)] = seen'[v] \/ KeyOf(v) \in retired
    BY <2>1, <2>2, <2>3 DEF RecordsAreRows
  <2>5. \A v \in Workers :
          at'[v] \in {"return", "post", "row", "retry"} => seen'[v] \in TerminalStates
    BY DEF RecordsAreRows
  <2> QED
    BY <2>4, <2>5 DEF RecordsAreRows
<1>8. WaitFindsSettled'
  <2> SUFFICES ASSUME NEW v \in Workers, at'[v] = "wait" PROVE ~Pending(KeyOf(v))'
    BY DEF WaitFindsSettled, Pending
  <2>1. CASE v = w
    BY <2>1
  <2>2. CASE v # w
    <3>1. at[v] = "wait"
      BY <2>2
    <3> QED
      BY <3>1, SettledStaySettled DEF WaitFindsSettled, WorkIsKnown
  <2> QED
    BY <2>1, <2>2
<1>9. OneOutcomeToldUntilReset'
  <2> SUFFICES ASSUME NEW k \in Keys, k \notin retired
               PROVE  told'[k] \subseteq {PublicStatus(state[k])'} \ {"NONE", "PENDING"}
    BY DEF OneOutcomeToldUntilReset
  <2>1. told[k] \subseteq {PublicStatus(state[k])'} \ {"NONE", "PENDING"}
    BY ToldStaysTrue
  <2>2. CASE told'[k] = told[k]
    BY <2>1, <2>2
  <2>3. CASE told'[k] # told[k]
    <3>1. k = KeyOf(w) /\ told'[k] = told[k] \union {PublicStatus(seen[w])} /\ seen[w] \in TerminalStates
      BY <1>2, <2>3 DEF ProtoTypeOK
    <3>2. state'[k] = seen[w]
      BY <3>1, RowsStay DEF RecordsAreRows
    <3>3. PublicStatus(seen[w]) \in {PublicStatus(state[k])'} \ {"NONE", "PENDING"}
      BY <3>1, <3>2 DEF PublicStatus, TerminalStates, PendingStates
    <3> QED
      BY <2>1, <3>1, <3>3
  <2> QED
    BY <2>2, <2>3
<1> QED
  BY <1>4, <1>5, <1>6, <1>7, <1>8, <1>9

\* So does every other step but reset().
LEMMA OthersKeepInv ==
  ASSUME LedgerInv, LedgerInv', ProtoInv, [Next]_vars, ~Reset, UNCHANGED retired,
         \/ UNCHANGED vars
         \/ \E k \in Keys : \/ \E c \in Commands : SubmitFresh(k, c)
                            \/ Answered(k) \/ Begin(k) \/ (Land(k) /\ UNCHANGED applicationVars)
         \/ Scan \/ Recover
  PROVE  /\ ProtoTypeOK' /\ ResultsKnown' /\ WorkIsKnown' /\ RecordsAreRows'
         /\ WaitFindsSettled' /\ OneOutcomeToldUntilReset'
<1> USE WorkersAndKeys DEF ProtoInv, workerVars, providerVars, applicationVars
<1> DEFINE Rest == ResultsKnown' /\ WorkIsKnown' /\ RecordsAreRows'
<1>1. WaitFindsSettled' \/ \E w \in Workers : at'[w] = "wait" /\ at[w] # "wait"
  BY SettledStaySettled DEF WaitFindsSettled, WorkIsKnown, Pending
<1>2. ASSUME told' = told PROVE OneOutcomeToldUntilReset'
  BY <1>2, ToldStaysTrue DEF OneOutcomeToldUntilReset
<1>3. ASSUME UNCHANGED <<at, seen, heard, candidates>> PROVE Rest
  <2>1. \A k \in Keys : /\ state[k] # "NONE" => state'[k] # "NONE"
                        /\ state[k] \in TerminalStates => state'[k] = state[k]
    BY RowsStay
  <2>2. ResultsKnown'
    BY <1>3 DEF ResultsKnown
  <2>3. WorkIsKnown'
    BY <1>3, <2>1 DEF WorkIsKnown, ProtoTypeOK
  <2>4. RecordsAreRows'
    BY <1>3, <2>1 DEF RecordsAreRows
  <2> QED
    BY <2>2, <2>3, <2>4
<1>4. CASE UNCHANGED vars
  BY <1>1, <1>2, <1>3, <1>4 DEF vars, ProtoTypeOK
<1>5. ASSUME NEW k \in Keys, NEW c \in Commands, SubmitFresh(k, c)
      PROVE  Rest /\ ProtoTypeOK' /\ WaitFindsSettled' /\ OneOutcomeToldUntilReset'
  <2>1. /\ at' = [at EXCEPT ![Request(k)] = "created"]
        /\ state' = [state EXCEPT ![k] = "RECEIVED"] /\ state[k] = "NONE"
        /\ UNCHANGED <<seen, heard, verdict, candidates, told>>
    BY <1>5 DEF SubmitFresh, Submit, Create, Goto
  <2>2. ProtoTypeOK' /\ ResultsKnown'
    BY <2>1 DEF ProtoTypeOK, ProtoSteps, ResultsKnown
  <2>3. WorkIsKnown' /\ RecordsAreRows'
    BY <2>1 DEF ProtoTypeOK, WorkIsKnown, RecordsAreRows, LedgerInv, LedgerTypeOK, TerminalStates
  <2>4. WaitFindsSettled'
    BY <1>1, <2>1 DEF ProtoTypeOK
  <2> QED
    BY <1>2, <2>1, <2>2, <2>3, <2>4
<1>6. ASSUME NEW k \in Keys, Answered(k)
      PROVE  Rest /\ ProtoTypeOK' /\ WaitFindsSettled' /\ OneOutcomeToldUntilReset'
  <2>1. /\ UNCHANGED <<at, seen, heard, verdict, candidates, state>>
        /\ state[k] \in TerminalStates
        /\ told' = [told EXCEPT ![k] = @ \union {PublicStatus(state[k])}]
    BY <1>6 DEF Answered, ledgerVars
  <2>2. PublicStatus(state[k]) \in {"COMPLETED", "FAILED"}
    BY <2>1 DEF TerminalStates, PublicStatus, PendingStates
  <2>3. ProtoTypeOK'
    BY <2>1, <2>2 DEF ProtoTypeOK
  <2>4. OneOutcomeToldUntilReset'
    BY <2>1, <2>2 DEF OneOutcomeToldUntilReset, ProtoTypeOK, PublicStatus
  <2> QED
    BY <1>1, <1>3, <2>1, <2>3, <2>4
<1>7. ASSUME NEW k \in Keys, Begin(k)
      PROVE  Rest /\ ProtoTypeOK' /\ WaitFindsSettled' /\ OneOutcomeToldUntilReset'
  <2>1. /\ at[Request(k)] = "created"
        /\ at' \in [Workers -> ProtoSteps]
        /\ \A w \in Workers : \/ at'[w] = at[w] \/ at'[w] = "idle"
                              \/ at'[w] = "queued" /\ w \in {Request(k), Task(k)}
        /\ UNCHANGED <<seen, heard, verdict, candidates, told, state>>
    <3>1. CASE ClientMode = "sync"
      BY <1>7, <3>1 DEF Begin, ProtoTypeOK, ProtoSteps, ledgerVars
    <3>2. CASE ClientMode # "sync"
      BY <1>7, <3>2 DEF Begin, ProtoTypeOK, ProtoSteps, ledgerVars
    <3> QED
      BY <3>1, <3>2
  <2>2. ProtoTypeOK' /\ ResultsKnown'
    BY <2>1 DEF ProtoTypeOK, ResultsKnown
  <2>3. state[k] # "NONE" \/ k \in retired
    BY <2>1 DEF WorkIsKnown
  <2>4. WorkIsKnown' /\ RecordsAreRows'
    BY <2>1, <2>3 DEF WorkIsKnown, RecordsAreRows
  <2>5. WaitFindsSettled'
    BY <1>1, <2>1
  <2> QED
    BY <1>2, <2>1, <2>2, <2>4, <2>5
<1>8. ASSUME NEW k \in Keys, Land(k) /\ UNCHANGED applicationVars
      PROVE  Rest /\ ProtoTypeOK' /\ WaitFindsSettled' /\ OneOutcomeToldUntilReset'
  BY <1>1, <1>2, <1>3, <1>8 DEF Land, ProtoTypeOK
<1>9. CASE Scan
  <2>1. /\ UNCHANGED <<at, seen, heard, verdict, told, state>>
        /\ candidates' = {<<k, PublicStatus(state[k])>> : k \in {j \in Keys : IsCandidate(j)}}
    BY <1>9 DEF Scan, ledgerVars
  <2>2. \A k \in Keys : IsCandidate(k) =>
          /\ state[k] # "NONE" /\ PublicStatus(state[k]) \in {"PENDING", "COMPLETED", "FAILED"}
          /\ PublicStatus(state[k]) # "PENDING" => state[k] \in TerminalStates
    BY DEF IsCandidate, Pending, PendingStates, TerminalStates, PublicStatus
  <2>3. ProtoTypeOK' /\ ResultsKnown'
    BY <2>1, <2>2 DEF ProtoTypeOK, ResultsKnown
  <2>4. WorkIsKnown' /\ RecordsAreRows'
    BY <2>1, <2>2 DEF WorkIsKnown, RecordsAreRows
  <2>5. WaitFindsSettled'
    BY <1>1, <2>1
  <2> QED
    BY <1>2, <2>1, <2>3, <2>4, <2>5
<1>10. CASE Recover
  <2> DEFINE settled == {Task(c[1]) : c \in {d \in candidates : d[2] # "PENDING"}}
             pending == {Task(c[1]) : c \in {d \in candidates : d[2] = "PENDING"}}
  <2>1. /\ \A w \in settled : state[KeyOf(w)] \in TerminalStates
        /\ \A w \in pending : state[KeyOf(w)] # "NONE"
    BY DEF WorkIsKnown, ProtoTypeOK
  <2>2. /\ at' = [w \in Workers |-> IF w \in pending /\ at[w] = "idle" THEN "queued"
                                    ELSE IF w \in settled /\ at[w] = "idle" THEN "post" ELSE at[w]]
        /\ seen' = [w \in Workers |->
                      IF w \in settled /\ at[w] = "idle" THEN state[KeyOf(w)] ELSE seen[w]]
        /\ candidates' = {}
        /\ UNCHANGED <<heard, verdict, told, state>>
    BY <1>10 DEF Recover, ledgerVars
  <2> HIDE DEF settled, pending
  <2>3. \A w \in Workers :
             /\ \/ at'[w] = at[w] /\ seen'[w] = seen[w]
                \/ at'[w] = "queued" /\ state[KeyOf(w)] # "NONE"
                   /\ seen'[w] \in {seen[w], state[KeyOf(w)]}
                \/ at'[w] = "post" /\ seen'[w] = state[KeyOf(w)] /\ state[KeyOf(w)] \in TerminalStates
    BY <2>1, <2>2
  <2>4. ProtoTypeOK'
    BY <2>2 DEF ProtoTypeOK, ProtoSteps, LedgerInv, LedgerTypeOK
  <2>5. "NONE" \notin TerminalStates
    BY DEF TerminalStates
  <2>6. ResultsKnown' /\ WorkIsKnown' /\ RecordsAreRows'
    BY <2>2, <2>3, <2>5 DEF ResultsKnown, WorkIsKnown, RecordsAreRows
  <2>7. WaitFindsSettled'
    BY <1>1, <2>3
  <2> QED
    BY <1>2, <2>2, <2>4, <2>6, <2>7
<1> QED
  BY <1>4, <1>5, <1>6, <1>7, <1>8, <1>9, <1>10

\* reset() retires every key the store knew, with what is still told of it.
LEMMA ResetKeepsInv ==
  ASSUME LedgerInv, ProtoInv, Reset
  PROVE  ProtoInv'
<1> USE WorkersAndKeys DEF ProtoInv, workerVars
<1> DEFINE used == {k \in Keys : state[k] # "NONE"}
<1>1. /\ UNCHANGED <<at, seen, heard, candidates, told>>
      /\ candidates = {}
      /\ state' = [k \in Keys |-> "NONE"]
      /\ verdict' = [k \in Keys |-> NoVerdict]
      /\ opened' = {} /\ entries' = {}
      /\ retired' = retired \union used
  BY DEF Reset, ResetLedger
<1>2. \A k \in Keys : k \in retired' \/ state[k] = "NONE"
  BY <1>1
<1>3. ProtoTypeOK' /\ ResultsKnown'
  BY <1>1 DEF ProtoTypeOK, ResultsKnown
<1>4. WorkIsKnown'
  BY <1>1, <1>2 DEF WorkIsKnown
<1>5. RecordsAreRows'
  BY <1>1, <1>2 DEF RecordsAreRows, TerminalStates
<1>6. WaitFindsSettled'
  BY <1>1 DEF WaitFindsSettled, Pending, PendingStates
<1>7. StaleWorkLeavesNoTrace'
  BY <1>1 DEF StaleWorkLeavesNoTrace, ProtoTypeOK
<1>8. OneOutcomeToldUntilReset'
  <2>1. \A k \in Keys \ retired' : told[k] = {}
    BY <1>1, <1>2 DEF OneOutcomeToldUntilReset, PublicStatus, PendingStates
  <2> QED
    BY <1>1, <2>1 DEF OneOutcomeToldUntilReset
<1> QED
  BY <1>3, <1>4, <1>5, <1>6, <1>7, <1>8

\* The two accounts of a transfer under way belong to a transfer of this trial.
LEMMA OpenedByLiveWork ==
  ASSUME LedgerInv, ProtoInv, [Next]_vars, ~Reset
  PROVE  opened' \subseteq opened \union
           UNION {{command[k].payer, command[k].payee} : k \in {j \in Keys : state[j] # "NONE"}}
<1> DEFINE used == {j \in Keys : state[j] # "NONE"}
<1>1. ASSUME NEW k \in Keys, state[k] = "PREPARED",
             opened' = opened \union {command[k].payer, command[k].payee}
      PROVE  opened' \subseteq opened \union UNION {{command[j].payer, command[j].payee} : j \in used}
  <2>1. k \in used
    BY <1>1
  <2> QED
    BY <1>1, <2>1
<1>2. CASE opened' = opened
  BY <1>2
<1>3. CASE \E w \in Workers : RefuseFunds(w)
  BY <1>1, <1>3, RefusalOpens DEF OpenAccounts
<1>4. CASE LedgerNext
  <2>1. ASSUME NEW k \in Keys, NEW c \in Commands, Create(k, c) PROVE opened' = opened
    BY <2>1 DEF Create
  <2>2. ASSUME NEW k \in Keys, NEW next, NEW why, Transition(k, next, why) PROVE opened' = opened
    BY <2>2 DEF Transition, Advance, ledgerVars
  <2>3. ASSUME NEW k \in Keys, Fulfill(k)
        PROVE  \/ opened' = opened
               \/ state[k] = "PREPARED" /\ opened' = opened \union {command[k].payer, command[k].payee}
    BY <2>3 DEF Fulfill, Post, ledgerVars
  <2> QED
    BY <1>1, <1>2, <1>4, <2>1, <2>2, <2>3 DEF LedgerNext
<1> QED
  BY <1>2, <1>3, <1>4, StepOfStore DEF ledgerVars

\* The store of a trial holds nothing of the trials before it.
LEMMA TraceKept ==
  ASSUME LedgerInv, LedgerInv', ProtoInv, [Next]_vars, ~Reset, UNCHANGED retired
  PROVE  StaleWorkLeavesNoTrace'
<1> USE DEF ProtoInv
<1> DEFINE used == {k \in Keys : state[k] # "NONE"}
           live == {k \in Keys \ retired : state[k] # "NONE"}
           live2 == {k \in Keys \ retired : state'[k] # "NONE"}
<1>1. \A k \in retired : state'[k] = "NONE"
  <2> SUFFICES ASSUME NEW k \in retired, state'[k] # "NONE" PROVE FALSE
    OBVIOUS
  <2>1. k \in Keys /\ state[k] = "NONE"
    BY DEF ProtoTypeOK, StaleWorkLeavesNoTrace
  <2> QED
    BY <2>1, RowsBegin DEF SubmitFresh
<1>2. used = live /\ \A k \in live : k \in live2 /\ command'[k] = command[k]
  BY RowsStay DEF StaleWorkLeavesNoTrace, ProtoTypeOK
<1> HIDE DEF used, live, live2
<1>3. opened' \subseteq UNION {{command'[k].payer, command'[k].payee} : k \in live2}
  <2>1. opened' \subseteq UNION {{command[k].payer, command[k].payee} : k \in live}
    BY <1>2, OpenedByLiveWork DEF StaleWorkLeavesNoTrace, used, live
  <2> QED
    BY <1>2, <2>1
<1>4. \A e \in entries' : e.transfer \in live2
  <2>1. \A e \in entries' : e.transfer \in Keys /\ state'[e.transfer] = "FULFILLED"
    BY DEF LedgerInv, LedgerMatchesTransfers, EntryOf
  <2> QED
    BY <1>1, <2>1 DEF live2
<1> QED
  BY <1>1, <1>3, <1>4 DEF StaleWorkLeavesNoTrace, live2

\* Every step keeps both invariants.
LEMMA StepKeepsProtoInv ==
  LedgerInv /\ ProtoInv /\ [Next]_vars => LedgerInv' /\ ProtoInv'
<1> SUFFICES ASSUME LedgerInv, ProtoInv, [Next]_vars PROVE LedgerInv' /\ ProtoInv'
  OBVIOUS
<1>1. LedgerInv'
  BY StepKeepsLedger
<1>2. CASE Reset
  BY <1>1, <1>2, ResetKeepsInv
<1>3. CASE ~Reset
  <2>1. UNCHANGED retired
    BY <1>3, StepOfStore
  <2>2. \/ \E w \in Workers : WorkerMove(w)
        \/ UNCHANGED vars
        \/ \E k \in Keys : \/ \E c \in Commands : SubmitFresh(k, c)
                           \/ Answered(k) \/ Begin(k) \/ (Land(k) /\ UNCHANGED applicationVars)
        \/ Scan \/ Recover
    BY <1>3, WorkerStepsMove DEF Next
  <2>3. /\ ProtoTypeOK' /\ ResultsKnown' /\ WorkIsKnown' /\ RecordsAreRows'
        /\ WaitFindsSettled' /\ OneOutcomeToldUntilReset'
    BY <1>1, <1>3, <2>1, <2>2, MoveKeepsInv, OthersKeepInv
  <2>4. StaleWorkLeavesNoTrace'
    BY <1>1, <1>3, <2>1, TraceKept
  <2> QED
    BY <1>1, <2>3, <2>4 DEF ProtoInv
<1> QED
  BY <1>2, <1>3

\* Nothing is known at first.
LEMMA InitEstablishesProtoInv == Init => LedgerInv /\ ProtoInv
<1> SUFFICES ASSUME Init PROVE LedgerInv /\ ProtoInv
  OBVIOUS
<1> USE DEF Init, LedgerInit, WorkflowInit, ApplicationInit, ProtoInv
<1>1. LedgerInv
  BY InitEstablishesInv
<1>2. ProtoTypeOK /\ ResultsKnown
  BY DEF ProtoTypeOK, ResultsKnown, ProtoSteps, States
<1>3. WorkIsKnown /\ RecordsAreRows /\ WaitFindsSettled
  BY DEF WorkIsKnown, RecordsAreRows, WaitFindsSettled, TerminalStates
<1>4. StaleWorkLeavesNoTrace /\ OneOutcomeToldUntilReset
  BY DEF StaleWorkLeavesNoTrace, OneOutcomeToldUntilReset
<1> QED
  BY <1>1, <1>2, <1>3, <1>4

\* The invariant of the prototype mode.
THEOREM PrototypeInvariant == Spec => [](LedgerInv /\ ProtoInv)
<1> QED
  BY InitEstablishesProtoInv, StepKeepsProtoInv, PTL DEF Spec

\* Its ledger holds exactly the entries of the completed transfers, through
\* interleaved runs of one transfer, refused funds and reset().
THEOREM PrototypeLedgerMatches == Spec => []LedgerMatchesTransfers
<1>1. LedgerInv => LedgerMatchesTransfers
  BY DEF LedgerInv
<1> QED
  BY <1>1, PrototypeInvariant, PTL

\* A run that reaches wait() finds its transfer settled.
THEOREM PrototypeNeverWaits == Spec => []WaitFindsSettled
<1>1. ProtoInv => WaitFindsSettled
  BY DEF ProtoInv
<1> QED
  BY <1>1, PrototypeInvariant, PTL

\* A request that outlives a reset() leaves nothing in the next trial's store.
THEOREM PrototypeResetIsClean == Spec => []StaleWorkLeavesNoTrace
<1>1. ProtoInv => StaleWorkLeavesNoTrace
  BY DEF ProtoInv
<1> QED
  BY <1>1, PrototypeInvariant, PTL

\* Until a reset() takes its transfer away, a client is told the stored outcome
\* and no other.
THEOREM PrototypeTellsOneOutcome == Spec => []OneOutcomeToldUntilReset
<1>1. ProtoInv => OneOutcomeToldUntilReset
  BY DEF ProtoInv
<1> QED
  BY <1>1, PrototypeInvariant, PTL

-------------------------------------------------------------------------------
(* The books of the prototype *)

\* Refused funds open accounts whose balance is what they were opened with.
LEMMA RefusalKeepsBooks ==
  ASSUME LedgerInv, BooksInv, NEW w \in Workers, RefuseFunds(w)
  PROVE  BooksInv'
<1> DEFINE payer == command[KeyOf(w)].payer
           payee == command[KeyOf(w)].payee
<1>1. /\ payer \in Accounts
      /\ opened' = opened \union {payer, payee}
      /\ opening' = [opening EXCEPT ![payer] = IF payer \in opened THEN @ ELSE DefaultPayerBalance]
      /\ balance' = [balance EXCEPT ![payer] = IF payer \in opened THEN @ ELSE DefaultPayerBalance]
      /\ entries' = entries
  BY RefusalOpens DEF OpenAccounts, Funds, LedgerInv, LedgerTypeOK
<1>2. /\ opening \in [Accounts -> Int] /\ balance \in [Accounts -> Int]
      /\ \A a \in Accounts : a \notin opened => balance[a] = 0 /\ opening[a] = 0
  BY DEF LedgerInv, LedgerTypeOK, UnopenedAreEmpty
<1> HIDE DEF payer, payee
<1>3. IsFiniteSet(opened')
  <2>1. IsFiniteSet((opened \union {payer}) \union {payee})
    BY FS_AddElement DEF BooksInv
  <2>2. opened' = (opened \union {payer}) \union {payee}
    BY <1>1
  <2> QED
    BY <2>1, <2>2
<1>4. PostingsExplain'
  <2> SUFFICES ASSUME NEW a \in Accounts
               PROVE  balance'[a] = opening'[a] + CreditsOf(entries', a) - DebitsOf(entries', a)
    BY DEF PostingsExplain
  <2>1. balance[a] = opening[a] + CreditsOf(entries, a) - DebitsOf(entries, a)
    BY BalancesByPostings DEF BooksInv, PostingsExplain
  <2>2. CreditsOf(entries, a) \in Int /\ DebitsOf(entries, a) \in Int
    BY PostingsAreIntegers DEF BooksInv, LedgerInv, LedgerTypeOK
  <2>3. balance'[a] - opening'[a] = balance[a] - opening[a]
    BY <1>1, <1>2, DefaultPayerBalanceAssumption
  <2>4. balance'[a] \in Int /\ opening'[a] \in Int
    BY <1>1, <1>2, DefaultPayerBalanceAssumption
  <2>5. balance[a] \in Int /\ opening[a] \in Int
    BY <1>2
  <2>6. CreditsOf(entries', a) = CreditsOf(entries, a) /\ DebitsOf(entries', a) = DebitsOf(entries, a)
    BY <1>1
  <2>7. \A x, y, b, o, c, d \in Int : (y - x = b - o /\ b = o + c - d) => y = x + c - d
    OBVIOUS
  <2>8. balance'[a] = opening'[a] + CreditsOf(entries, a) - DebitsOf(entries, a)
    BY <2>1, <2>2, <2>3, <2>4, <2>5, <2>7
  <2> QED
    BY <2>6, <2>8
<1> QED
  BY <1>1, <1>3, <1>4, NextBalancesByPostings DEF BooksInv

\* reset() clears the postings with the balances.
LEMMA ResetKeepsBooks == ASSUME Reset PROVE BooksInv'
<1>1. /\ opened' = {} /\ entries' = {}
      /\ opening' = [a \in Accounts |-> 0] /\ balance' = [a \in Accounts |-> 0]
  BY DEF Reset, ResetLedger
<1>2. \A a : CreditsOf({}, a) = 0 /\ DebitsOf({}, a) = 0
  BY EmptyPostings
<1>3. PostingsExplain'
  BY <1>1, <1>2 DEF PostingsExplain
<1> QED
  BY <1>1, <1>3, FS_EmptySet, NextBalancesByPostings DEF BooksInv

\* Every balance of the prototype is explained by its postings as well, whoever
\* opened the account and whatever was refused or reset.
THEOREM PrototypeBalancesAreExplained == Spec => []AccountBalancesMatchPostings
<1>1. Init => LedgerInv /\ ProtoInv /\ BooksInv
  BY InitEstablishesProtoInv, InitEstablishesBooks DEF Init
<1>2. (LedgerInv /\ ProtoInv /\ BooksInv) /\ [Next]_vars => (LedgerInv /\ ProtoInv /\ BooksInv)'
  BY StepKeepsProtoInv, StepOfStore, StepKeepsBooks, RefusalKeepsBooks, ResetKeepsBooks
<1>3. BooksInv => AccountBalancesMatchPostings
  BY DEF BooksInv
<1> QED
  BY <1>1, <1>2, <1>3, PTL DEF Spec
===============================================================================
