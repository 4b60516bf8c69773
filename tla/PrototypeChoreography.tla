------------------------- MODULE PrototypeChoreography -------------------------
(***************************************************************************)
(* The prototype mode of condition K-A: PaymentApplication over            *)
(* KafkaChoreography with InMemoryPersistence and InMemoryEventBus.  There *)
(* are no transactions, outbox or inbox: publish() runs the handlers, so   *)
(* one execute() takes a transfer through all topics, each handler calling *)
(* publish() for the next one, and two runs of it for one transfer (a      *)
(* synchronous request and a recovery task) may interleave at every await. *)
(* Between two awaits nothing else runs: that is what makes a settlement   *)
(* atomic.  A crash forgets everything and is left out; reset() is here.   *)
(***************************************************************************)
EXTENDS PaymentApplication

CONSTANT WorkerConcurrency    \* slots of the limiter around the provider call

ASSUME PrototypeAssumption ==
  /\ Lanes = {"request", "task"}
  /\ WorkerConcurrency \in Nat \ {0}

VARIABLE retired   \* keys used before a reset(); a new trial uses new keys

vars == <<ledgerVars, workerVars, providerVars, faults, applicationVars, retired>>

InSlot(w) == at[w] \in {"ensure", "call", "await", "record", "result", "nofunds"}

Init ==
  /\ LedgerInit
  /\ WorkflowInit
  /\ ApplicationInit
  /\ retired = {}

SubmitFresh(k, c) == k \notin retired /\ Submit(k, c)

-------------------------------------------------------------------------------
(* The handlers *)

Topic(s) ==
  CASE s = "RECEIVED" -> "received" [] s = "VALIDATED" -> "validated"
    [] s = "PREPARED" -> "prepared" [] OTHER -> "wait"

Exists(w) == state[KeyOf(w)] # "NONE"

\* execute() publishes on the topic of the transfer's state, if it has one.
Execute(w) ==
  /\ at[w] = "queued"
  /\ Exists(w)
  /\ Goto(w, Topic(state[KeyOf(w)]))
  /\ UNCHANGED <<ledgerVars, seen, tries, heard, providerVars, faults, applicationVars>>

\* transition() of the store, which re-reads the row, and publish() of the
\* next topic: also when the row was already past the state.
Handle(w, topic, next, nextTopic) ==
  /\ at[w] = topic
  /\ Transition(KeyOf(w), next, NoCause)
  /\ Goto(w, nextTopic)
  /\ UNCHANGED <<seen, tries, heard, providerVars, faults, applicationVars>>

HandleReceived(w) == Handle(w, "received", "VALIDATED", "validated")
HandleValidated(w) == Handle(w, "validated", "PREPARED", "prepared")

\* The other run was faster and this one's step is illegal by now: the error
\* goes up through every publish() to execute().
Overtaken(w) ==
  /\ at[w] = "received"
  /\ IllegalTransition(KeyOf(w), "VALIDATED")
  /\ End({w})
  /\ UNCHANGED <<ledgerVars, providerVars, faults, applicationVars>>

\* The limiter admits the handler of transfer.prepared, which reads the record.
HandlePrepared(w) ==
  /\ at[w] = "prepared"
  /\ Exists(w)
  /\ Cardinality({v \in Workers : InSlot(v)}) < WorkerConcurrency
  /\ Goto(w, IF Pending(KeyOf(w)) THEN "ensure" ELSE "wait")
  /\ UNCHANGED <<ledgerVars, seen, tries, heard, providerVars, faults, applicationVars>>

CallProvider(w) == ProviderStep(w) /\ UNCHANGED applicationVars

\* provider.completed: fulfill() applies the ledger and saves the row in one
\* turn of the event loop.
HandleCompleted(w) ==
  /\ at[w] = "result"
  /\ heard[w] = "COMPLETED"
  /\ Fulfill(KeyOf(w))
  /\ Goto(w, "wait")
  /\ UNCHANGED <<seen, tries, heard, providerVars, faults, applicationVars>>

\* applyTransfer() opens both accounts before it looks at the funds, and
\* nothing rolls them back.
OpenAccounts(k) ==
  LET payer == command[k].payer IN
  /\ opened' = opened \union {payer, command[k].payee}
  /\ opening' = [opening EXCEPT ![payer] = IF payer \in opened THEN @ ELSE DefaultPayerBalance]
  /\ balance' = [balance EXCEPT ![payer] = Funds(payer)]

\* Mutant: the entry is recorded before the funds are looked at.
RefuseAfterEntry(w) ==
  /\ at[w] = "result"
  /\ heard[w] = "COMPLETED"
  /\ LacksFunds(KeyOf(w))
  /\ OpenAccounts(KeyOf(w))
  /\ entries' = entries \union {EntryOf(KeyOf(w))}
  /\ Goto(w, "nofunds")
  /\ UNCHANGED <<state, command, cause, seen, tries, heard, providerVars, faults, applicationVars>>

RefuseFunds(w) ==
  /\ at[w] = "result"
  /\ heard[w] = "COMPLETED"
  /\ LacksFunds(KeyOf(w))
  /\ OpenAccounts(KeyOf(w))
  /\ Goto(w, "nofunds")
  /\ UNCHANGED <<state, command, cause, entries, seen, tries, heard, providerVars, faults,
                 applicationVars>>

\* Mutant: missing funds are swallowed instead of failing the transfer.
SwallowRefusal(w) ==
  /\ at[w] = "nofunds"
  /\ Goto(w, "wait")
  /\ UNCHANGED <<ledgerVars, seen, tries, heard, providerVars, faults, applicationVars>>

\* INSUFFICIENT_FUNDS is caught by the handler, which fails the transfer.
FailUnfunded(w) ==
  /\ at[w] = "nofunds"
  /\ Exists(w)
  /\ Transition(KeyOf(w), "FAILED", "INSUFFICIENT_FUNDS")
  /\ Goto(w, "wait")
  /\ UNCHANGED <<seen, tries, heard, providerVars, faults, applicationVars>>

\* provider.failed
HandleFailed(w) ==
  /\ at[w] = "result"
  /\ heard[w] # "COMPLETED"
  /\ Exists(w)
  /\ Transition(KeyOf(w), "FAILED", heard[w])
  /\ Goto(w, "wait")
  /\ UNCHANGED <<seen, tries, heard, providerVars, faults, applicationVars>>

\* wait() of TerminalNotifier.
Resolve(w) ==
  /\ at[w] = "wait"
  /\ state[KeyOf(w)] \in TerminalStates
  /\ seen' = [seen EXCEPT ![w] = state[KeyOf(w)]]
  /\ Goto(w, "return")
  /\ UNCHANGED <<ledgerVars, tries, heard, providerVars, faults, applicationVars>>

\* get() finds no record: reading one of its fields throws.
RecordGone(w) ==
  /\ at[w] \in {"queued", "received", "validated", "prepared", "result", "nofunds", "wait"}
  /\ ~Exists(w)
  /\ End({w})
  /\ UNCHANGED <<ledgerVars, providerVars, faults, applicationVars>>

-------------------------------------------------------------------------------
(* reset() *)

\* Mutant: the entries are cleared, the balances are not.
KeepBalances == entries' = {} /\ UNCHANGED <<opened, opening, balance>>

\* InMemoryLedger.reset()
ResetLedger ==
  /\ opened' = {}
  /\ opening' = [a \in Accounts |-> 0]
  /\ balance' = [a \in Accounts |-> 0]
  /\ entries' = {}

\* drain() waits for the background tasks, not for synchronous requests, and
\* the store then forgets everything in one turn of the event loop.  A call
\* under way is answered all the same.
Reset ==
  LET used == {k \in Keys : state[k] # "NONE"} IN
  /\ used # {}
  /\ \A k \in Keys : at[Task(k)] = "idle"
  /\ candidates = {}
  /\ state' = [k \in Keys |-> "NONE"]
  /\ command' = [k \in Keys |-> NoCommand]
  /\ cause' = [k \in Keys |-> NoCause]
  /\ ResetLedger
  /\ verdict' = [k \in Keys |-> NoVerdict]
  /\ attempts' = [k \in Keys |-> {}]
  /\ delivered' = {}
  /\ retired' = retired \union used
  /\ UNCHANGED <<workerVars, wire, accepted, faults, candidates, told>>

-------------------------------------------------------------------------------
WorkerStep(w) ==
  \/ Execute(w) \/ HandleReceived(w) \/ HandleValidated(w) \/ Overtaken(w)
  \/ HandlePrepared(w) \/ CallProvider(w)
  \/ HandleCompleted(w) \/ RefuseFunds(w) \/ FailUnfunded(w) \/ HandleFailed(w)
  \/ Resolve(w) \/ RecordGone(w)
  \/ ReturnToTask(w) \/ ReturnToClient(w)
  \/ PostCallback(w) \/ RecordDelivery(w) \/ RecordFailedDelivery(w)

WorkerFault(w) ==
  \/ ReceiveFailure(w) /\ UNCHANGED applicationVars
  \/ PostCallbackFails(w)

Next ==
  \/ /\ \/ \E k \in Keys :
             \/ \E c \in Commands : SubmitFresh(k, c)
             \/ Answered(k)
             \/ Begin(k)
             \/ Land(k) /\ UNCHANGED applicationVars
        \/ \E w \in Workers : WorkerStep(w) \/ WorkerFault(w)
        \/ Scan
        \/ Recover
     /\ UNCHANGED retired
  \/ Reset

Spec == Init /\ [][Next]_vars

-------------------------------------------------------------------------------
(* Properties *)

\* execute() never has to wait for a notification: when it reaches wait() the
\* handlers it ran, or those of an interleaved run, have settled the transfer.
WaitFindsSettled ==
  \A w \in Workers : at[w] = "wait" => ~Pending(KeyOf(w))

\* A request that is still running when the store is reset leaves nothing in
\* the new trial's store: no transfer, no account and no ledger entry.
StaleWorkLeavesNoTrace ==
  LET Live == {k \in Keys \ retired : state[k] # "NONE"} IN
  /\ \A k \in retired : state[k] = "NONE"
  /\ opened \subseteq UNION {{command[k].payer, command[k].payee} : k \in Live}
  /\ \A e \in entries : e.transfer \in Live

\* Synchronous answers, replays, queries and callbacks, from two interleaved
\* runs of one transfer, give its client no final status but the stored one.
OneOutcomeToldUntilReset ==
  \A k \in Keys \ retired : told[k] \subseteq {PublicStatus(state[k])} \ {"NONE", "PENDING"}
===============================================================================
