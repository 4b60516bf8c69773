--------------------------- MODULE KafkaChoreography ---------------------------
(***************************************************************************)
(* Condition K-A: PaymentApplication over KafkaChoreography.  Each step of *)
(* a transfer is the handler of an event; its transaction changes the      *)
(* row, acknowledges the event in the inbox and puts the next event in the *)
(* outbox.  OutboxDispatcher publishes the outbox, and the broker delivers *)
(* what was published at least once.                                       *)
(*                                                                         *)
(* An event is <<k, i>>: row i of outbox[k].  A worker <<k, topic>> is the *)
(* handler of an event of k on that topic: the transfer id is the message  *)
(* key, so the consumer runs one at a time.  The handlers of the two final *)
(* topics only wake waiters; what wakes a waiter is left out, because a    *)
(* waiter re-reads its transfer when its time is up.                       *)
(***************************************************************************)
EXTENDS PaymentApplication, Sequences

CONSTANT WorkerConcurrency   \* partitions consumed concurrently

Step == [RECEIVED |-> "transfer.received", VALIDATED |-> "transfer.validated",
         PREPARED |-> "transfer.prepared", FULFILLED |-> "transfer.fulfilled",
         FAILED |-> "transfer.failed"]
ProviderTopics == {"provider.completed", "provider.failed"}
Topics == {Step[s] : s \in DOMAIN Step} \union ProviderTopics

ASSUME KafkaAssumption ==
  /\ Lanes = {"request", "task"} \union Topics
  /\ WorkerConcurrency \in Nat \ {0}

VARIABLES
  outbox,      \* outbox[k]: the outbox_events rows of k, oldest first
  published,   \* events whose row has published_at
  inbox,       \* events in inbox_events
  broker,      \* events the broker has stored
  due,         \* events with a delivery to come or under way
  batch,       \* the rest of the batch that dispatchBatch() is publishing
  sent         \* the event that was published and is not yet marked

kafkaVars == <<outbox, published, inbox, broker, due, batch, sent>>
vars == <<ledgerVars, workerVars, providerVars, faults, applicationVars, kafkaVars>>

Row == [topic : Topics, result : Answers \union FailureCodes \union {NoVerdict}]
Written == UNION {{<<k, i>> : i \in DOMAIN outbox[k]} : k \in Keys}
Topic(e) == outbox[e[1]][e[2]].topic
Result(e) == outbox[e[1]][e[2]].result

Handlers == {w \in Workers : w[2] \in Topics}
Running == {w \in Handlers : at[w] # "idle"}
Deliverable(w) == {e \in due : e[1] = w[1] /\ Topic(e) = w[2]}

\* The message a handler works on: the oldest one of its partition.
InHand(w) == CHOOSE e \in Deliverable(w) : \A d \in Deliverable(w) : e[2] <= d[2]

\* The handler returns: the consumer goes on to the next offset.
Done(w) == due' = due \ {InHand(w)} /\ End({w})

Init ==
  /\ LedgerInit
  /\ WorkflowInit
  /\ ApplicationInit
  /\ outbox = [k \in Keys |-> <<>>]
  /\ published = {} /\ inbox = {} /\ broker = {} /\ due = {}
  /\ batch = {} /\ sent = {}

-------------------------------------------------------------------------------
(* The outbox and its dispatcher *)

Emit(k, topic, result) ==
  outbox' = [outbox EXCEPT ![k] = Append(@, [topic |-> topic, result |-> result])]

\* createOrGet() writes the row and its first event in one transaction.
Accept(k, c) ==
  /\ Submit(k, c)
  /\ Emit(k, Step.RECEIVED, NoVerdict)
  /\ UNCHANGED <<published, inbox, broker, due, batch, sent>>

Dispatching == batch # {} \/ sent # {}
Unpublished == Written \ published

\* The poll timer: unpublishedOutbox() selects the batch.
Poll ==
  /\ ~Dispatching
  /\ Unpublished # {}
  /\ batch' = Unpublished
  /\ UNCHANGED <<ledgerVars, workerVars, providerVars, faults, applicationVars,
                 outbox, published, inbox, broker, due, sent>>

\* Mutant: send() is not awaited, and its failure is not noticed.
PublishUnawaited ==
  /\ sent = {}
  /\ \E e \in batch :
       /\ batch' = batch \ {e}
       /\ sent' = {e}
       /\ \/ broker' = broker \union {e} /\ due' = due \union {e}
          \/ UNCHANGED <<broker, due>>
  /\ UNCHANGED <<ledgerVars, workerVars, providerVars, faults, applicationVars,
                 outbox, published, inbox>>

Publish ==
  /\ sent = {}
  /\ \E e \in batch :
       /\ batch' = batch \ {e}
       /\ sent' = {e}
       /\ broker' = broker \union {e}
       /\ due' = due \union {e}
  /\ UNCHANGED <<ledgerVars, workerVars, providerVars, faults, applicationVars,
                 outbox, published, inbox>>

\* The tasks that await dispatchOnce().
Awaiting == {w \in Workers : at[w] = "dispatch"}

MarkPublished ==
  /\ sent # {}
  /\ published' = published \union sent
  /\ sent' = {}
  /\ at' = [w \in Workers |-> IF w \in Awaiting /\ batch = {} THEN "wait" ELSE at[w]]
  /\ UNCHANGED <<ledgerVars, seen, tries, heard, providerVars, faults, applicationVars,
                 outbox, inbox, broker, due, batch>>

\* publish() or markOutboxPublished() rejects: the rest of the batch is given
\* up, and so are the tasks that await it.  The broker may have the message.
DispatchFails ==
  /\ Dispatching
  /\ Fault
  /\ \E e \in IF sent = {} THEN batch ELSE sent :
       \/ broker' = broker \union {e} /\ due' = due \union {e}
       \/ UNCHANGED <<broker, due>>
  /\ batch' = {}
  /\ sent' = {}
  /\ End(Awaiting)
  /\ UNCHANGED <<ledgerVars, providerVars, applicationVars, outbox, published, inbox>>

-------------------------------------------------------------------------------
(* execute() *)

\* dispatchOnce() joins the running batch, or starts one.
StartExecute(w) ==
  /\ at[w] = "queued"
  /\ batch' = IF Dispatching THEN batch ELSE Unpublished
  /\ Goto(w, IF batch' \union sent = {} THEN "wait" ELSE "dispatch")
  /\ UNCHANGED <<ledgerVars, seen, tries, heard, providerVars, faults, applicationVars,
                 outbox, published, inbox, broker, due, sent>>

\* wait() resolves with the settled record.
Resolve(w) ==
  /\ at[w] = "wait"
  /\ state[KeyOf(w)] \in TerminalStates
  /\ seen' = [seen EXCEPT ![w] = state[KeyOf(w)]]
  /\ Goto(w, "return")
  /\ UNCHANGED <<ledgerVars, tries, heard, providerVars, faults, applicationVars, kafkaVars>>

\* The time is up and the transfer is still pending: the task (or the
\* synchronous request) ends with a pending record.
Expire(w) ==
  /\ at[w] = "wait"
  /\ Pending(KeyOf(w))
  /\ End({w})
  /\ UNCHANGED <<ledgerVars, providerVars, faults, applicationVars, kafkaVars>>

-------------------------------------------------------------------------------
(* Delivery *)

\* eachMessage
Deliver(w) ==
  /\ w \in Handlers
  /\ at[w] = "idle"
  /\ Deliverable(w) # {}
  /\ Cardinality(Running) < WorkerConcurrency
  /\ Goto(w, "check")
  /\ UNCHANGED <<ledgerVars, seen, tries, heard, providerVars, faults, applicationVars, kafkaVars>>

\* isInboxProcessed()
SkipProcessed(w) ==
  /\ at[w] = "check"
  /\ InHand(w) \in inbox
  /\ Done(w)
  /\ UNCHANGED <<ledgerVars, providerVars, faults, applicationVars,
                 outbox, published, inbox, broker, batch, sent>>

StartHandler(w) ==
  /\ at[w] = "check"
  /\ InHand(w) \notin inbox
  /\ Goto(w, "read")
  /\ UNCHANGED <<ledgerVars, seen, tries, heard, providerVars, faults, applicationVars, kafkaVars>>

\* The handler reads the record.  Those of transfer.prepared and of
\* provider.failed return when it is settled; the others do not look.
Ignores(topic, s) ==
  \/ topic \in {Step.FULFILLED, Step.FAILED}
  \/ topic \in {Step.PREPARED, "provider.failed"} /\ s \in TerminalStates

ReadRecord(w) ==
  /\ at[w] = "read"
  /\ ~Ignores(w[2], state[KeyOf(w)])
  /\ seen' = [seen EXCEPT ![w] = state[KeyOf(w)]]
  /\ Goto(w, IF w[2] = Step.PREPARED THEN "ensure" ELSE "apply")
  /\ UNCHANGED <<ledgerVars, tries, heard, providerVars, faults, applicationVars, kafkaVars>>

IgnoreRecord(w) ==
  /\ at[w] = "read"
  /\ Ignores(w[2], state[KeyOf(w)])
  /\ Done(w)
  /\ UNCHANGED <<ledgerVars, providerVars, faults, applicationVars,
                 outbox, published, inbox, broker, batch, sent>>

\* A lost offset commit, a rebalance or a repeated send: the broker delivers a
\* message again.
Redeliver ==
  /\ Fault
  /\ \E e \in broker \ due : due' = due \union {e}
  /\ UNCHANGED <<ledgerVars, workerVars, providerVars, applicationVars,
                 outbox, published, inbox, broker, batch, sent>>

-------------------------------------------------------------------------------
(* Handlers: each ends with one transaction over row, inbox and outbox *)

Claimed(w) == InHand(w) \notin inbox

\* Mutant: the inbox row is not written.
AcknowledgeNothing(w) == UNCHANGED inbox

Acknowledge(w) == inbox' = inbox \union {InHand(w)}

\* transition() with an inbox: an event that was processed, or that has
\* nothing left to do, only is acknowledged.  No event meets a state that
\* transitionTransfer() rejects (OutboxIsTrace), so its throw is left out.
TransitionOnce(w, next, why) ==
  LET k == KeyOf(w) IN
  /\ Acknowledge(w)
  /\ \/ /\ ~Claimed(w) \/ AlreadyPast(k, next)
        /\ UNCHANGED <<ledgerVars, outbox>>
     \/ /\ Claimed(w)
        /\ Advance(k, next, why)
        /\ Emit(k, Step[next], NoVerdict)
  /\ Done(w)
  /\ UNCHANGED <<providerVars, faults, applicationVars, published, broker, batch, sent>>

HandleReceived(w) ==
  at[w] = "apply" /\ w[2] = Step.RECEIVED /\ TransitionOnce(w, "VALIDATED", NoCause)

HandleValidated(w) ==
  at[w] = "apply" /\ w[2] = Step.VALIDATED /\ TransitionOnce(w, "PREPARED", NoCause)

CallProvider(w) ==
  ProviderStep(w) /\ UNCHANGED <<applicationVars, kafkaVars>>

\* Mutant: only a declined request is a failure.
NotDeclinedTopic(result) ==
  IF result # "LIMIT_EXCEEDED" THEN "provider.completed" ELSE "provider.failed"

ResultTopic(result) == IF result = "COMPLETED" THEN "provider.completed" ELSE "provider.failed"

\* completeProviderEvent()
HandlePrepared(w) ==
  /\ at[w] = "result"
  /\ Acknowledge(w)
  /\ IF Claimed(w) THEN Emit(KeyOf(w), ResultTopic(heard[w]), heard[w]) ELSE UNCHANGED outbox
  /\ Done(w)
  /\ UNCHANGED <<ledgerVars, providerVars, faults, applicationVars,
                 published, broker, batch, sent>>

\* Mutant: the state is advanced without the postings of fulfill().
CompleteByTransition(w) ==
  /\ at[w] = "apply"
  /\ w[2] = "provider.completed"
  /\ TransitionOnce(w, "FULFILLED", NoCause)

\* fulfill() with an inbox.
HandleCompleted(w) ==
  LET k == KeyOf(w) IN
  /\ at[w] = "apply"
  /\ w[2] = "provider.completed"
  /\ Acknowledge(w)
  /\ \/ /\ ~Claimed(w) \/ ~Pending(k)
        /\ UNCHANGED <<ledgerVars, outbox>>
     \/ /\ Claimed(w)
        /\ Post(k)
        /\ Emit(k, Step.FULFILLED, NoVerdict)
  /\ Done(w)
  /\ UNCHANGED <<providerVars, faults, applicationVars, published, broker, batch, sent>>

\* INSUFFICIENT_FUNDS rolls the transaction back, its acknowledgement included.
HandleWithoutFunds(w) ==
  /\ at[w] = "apply"
  /\ w[2] = "provider.completed"
  /\ Claimed(w) /\ LacksFunds(KeyOf(w))
  /\ Goto(w, "nofunds")
  /\ UNCHANGED <<ledgerVars, seen, tries, heard, providerVars, faults, applicationVars, kafkaVars>>

HandleNoFunds(w) ==
  at[w] = "nofunds" /\ TransitionOnce(w, "FAILED", "INSUFFICIENT_FUNDS")

HandleFailed(w) ==
  /\ at[w] = "apply"
  /\ w[2] = "provider.failed"
  /\ TransitionOnce(w, "FAILED", Result(InHand(w)))

-------------------------------------------------------------------------------

\* All of the process's memory is lost, the batch included, and any offsets
\* that were not committed.
Crash ==
  /\ ProcessDies
  /\ \E lost \in SUBSET broker : due' = due \union lost
  /\ batch' = {}
  /\ sent' = {}
  /\ UNCHANGED <<outbox, published, inbox, broker>>

HandlerStep(w) ==
  \/ Deliver(w) \/ SkipProcessed(w) \/ StartHandler(w) \/ ReadRecord(w) \/ IgnoreRecord(w)
  \/ HandleReceived(w) \/ HandleValidated(w)
  \/ CallProvider(w) \/ HandlePrepared(w)
  \/ HandleCompleted(w) \/ HandleWithoutFunds(w) \/ HandleNoFunds(w) \/ HandleFailed(w)

TaskStep(w) ==
  \/ StartExecute(w) \/ Resolve(w) \/ Expire(w)
  \/ /\ \/ ReturnToTask(w) \/ ReturnToClient(w)
        \/ PostCallback(w) \/ RecordDelivery(w) \/ RecordFailedDelivery(w)
     /\ UNCHANGED kafkaVars

WorkerFault(w) ==
  \/ ProviderFault(w) /\ UNCHANGED <<applicationVars, kafkaVars>>
  \/ (PostCallbackFails(w) \/ Throw(w)) /\ UNCHANGED kafkaVars

Surroundings(k) ==
  \/ (Answered(k) \/ Begin(k)) /\ UNCHANGED kafkaVars
  \/ Land(k) /\ UNCHANGED <<applicationVars, kafkaVars>>

Next ==
  \/ \E k \in Keys : (\E c \in Commands : Accept(k, c)) \/ Surroundings(k)
  \/ \E w \in Workers : HandlerStep(w) \/ TaskStep(w) \/ WorkerFault(w)
  \/ Poll \/ Publish \/ MarkPublished \/ DispatchFails
  \/ Redeliver
  \/ (Scan \/ Recover) /\ UNCHANGED kafkaVars
  \/ Crash

Spec == Init /\ [][Next]_vars

\* As in condition R-A; also the dispatcher's poll timer keeps firing, and the
\* consumer keeps delivering to every partition that has a message.
Fairness ==
  /\ \A k \in Keys : /\ WF_vars(Begin(k) /\ UNCHANGED kafkaVars)
                     /\ WF_vars(Land(k) /\ UNCHANGED <<applicationVars, kafkaVars>>)
  /\ \A w \in Workers : WF_vars(TaskStep(w))
  /\ \A w \in Handlers : WF_vars(HandlerStep(w))
  /\ WF_vars(Poll) /\ WF_vars(Publish) /\ WF_vars(MarkPublished)
  /\ WF_vars(Scan /\ UNCHANGED kafkaVars)
  /\ WF_vars(Recover /\ UNCHANGED kafkaVars)

FairSpec == Spec /\ Fairness

-------------------------------------------------------------------------------
(* Properties *)

\* The topics a transfer's outbox holds in a state.
TraceOf(s) ==
  CASE s = "NONE" -> {<<>>}
    [] s = "RECEIVED" -> {<<Step.RECEIVED>>}
    [] s = "VALIDATED" -> {<<Step.RECEIVED, Step.VALIDATED>>}
    [] s = "PREPARED" ->
         LET begun == <<Step.RECEIVED, Step.VALIDATED, Step.PREPARED>>
         IN  {begun} \union {Append(begun, t) : t \in ProviderTopics}
    [] OTHER ->
         {<<Step.RECEIVED, Step.VALIDATED, Step.PREPARED, t, Step[s]>> : t \in ProviderTopics}

\* "PostgreSQL transactions atomically commit a handler's state change,
\* outgoing event, and inbox acknowledgement" (docs/ARCHITECTURE.md): however
\* often an event is delivered, each step of a transfer leaves one event.
OutboxIsTrace ==
  \A k \in Keys : [i \in DOMAIN outbox[k] |-> outbox[k][i].topic] \in TraceOf(state[k])

\* A pending transfer never loses its way: one of its events is still to be
\* published or delivered, and no handler has acknowledged it.
PendingHasLiveEvent ==
  \A k \in Keys : Pending(k) =>
    \E i \in DOMAIN outbox[k] :
      <<k, i>> \notin inbox /\ (<<k, i>> \in due \/ <<k, i>> \notin published)

\* The result an event carries is the one saved for the provider command.
CarriedResultIsVerdict ==
  \A e \in Written : Topic(e) \in ProviderTopics => Result(e) = verdict[e[1]]

\* Once faults stop, events settle every accepted transfer, and its callback
\* is delivered and recorded.
EventuallyDelivered ==
  \A k \in Keys : state[k] # "NONE" ~> k \in delivered
===============================================================================
