----------------------- MODULE KafkaChoreographyProofs -------------------------
(***************************************************************************)
(* Proofs about condition K-A, for every set of keys, commands, failure    *)
(* codes and bounds, in both client modes.  The heart is OutboxFollows:    *)
(* the rows of a transfer's outbox tell its state, all but the last are    *)
(* acknowledged, and the last is not while the transfer is pending.  So a  *)
(* handler whose event is not in the inbox works on the last event, and    *)
(* the state is the one that the event was written in, however often and   *)
(* however late the event is delivered.  Everything else rests on it: the  *)
(* handlers only take the ledger's steps, one burst runs for a transfer,   *)
(* and its result is the one the settlement uses.                          *)
(***************************************************************************)
EXTENDS KafkaChoreography, TransferLedgerProofs, SequenceTheorems

CallSteps == {"call", "await", "record"}
HandlerSteps == {"check", "read", "apply", "nofunds", "ensure", "result"} \union CallSteps
OtherSteps == {"idle", "created", "queued", "dispatch", "wait", "return", "post", "row", "retry"}
AtSteps == HandlerSteps \union OtherSteps

KafkaTypes ==
  /\ at \in [Workers -> AtSteps]
  /\ seen \in [Workers -> States]
  /\ heard \in [Workers -> Causes \union {NoVerdict}]
  /\ verdict \in [Keys -> Causes \union {NoVerdict}]
  /\ attempts \in [Keys -> SUBSET Causes]
  /\ wire \in [Keys -> Nat]
  /\ accepted \in SUBSET Keys
  /\ candidates \in SUBSET (Keys \X {"PENDING", "COMPLETED", "FAILED"})
  /\ told \in [Keys -> SUBSET {"COMPLETED", "FAILED"}]
  /\ outbox \in [Keys -> Seq(Row)]

\* Only rows of the outbox are published, delivered and acknowledged.
EventsAreWritten ==
  published \union inbox \union broker \union due \union batch \union sent \subseteq Written

\* The outbox of a transfer has n rows in state s.
HasRows(n, s) ==
  \/ n = 0 /\ s = "NONE"
  \/ n = 1 /\ s = "RECEIVED"
  \/ n = 2 /\ s = "VALIDATED"
  \/ n \in {3, 4} /\ s = "PREPARED"
  \/ n = 5 /\ s \in TerminalStates

\* The i-th row of a transfer's outbox has the topic of its place.
Follows(k) ==
  /\ HasRows(Len(outbox[k]), state[k])
  /\ \A i \in 1 .. Len(outbox[k]) :
       /\ i = 1 => outbox[k][i].topic = "transfer.received"
       /\ i = 2 => outbox[k][i].topic = "transfer.validated"
       /\ i = 3 => outbox[k][i].topic = "transfer.prepared"
       /\ i = 4 => outbox[k][i].topic \in ProviderTopics
       /\ i = 5 => outbox[k][i].topic = Step[state[k]]
       /\ i < Len(outbox[k]) => <<k, i>> \in inbox
  /\ Pending(k) => <<k, Len(outbox[k])>> \notin inbox

OutboxFollows == \A k \in Keys : Follows(k)

\* What was sent is delivered until it is acknowledged, while it matters.
SentIsDelivered ==
  \A e \in published \union sent : Pending(e[1]) => e \in inbox \union due

\* A handler that runs has its event, and the provider is called by the
\* handler of transfer.prepared.
HandlersHoldEvents ==
  \A w \in Workers : at[w] \in HandlerSteps =>
    /\ Deliverable(w) # {}
    /\ at[w] \in CallSteps \union {"ensure", "result"} => w[2] = "transfer.prepared"
    /\ at[w] = "nofunds" => w[2] = "provider.completed"

\* A burst runs while no result is saved, and what a handler has heard is true
\* of the provider.
BurstsAreAlone ==
  \A w \in Workers :
    /\ at[w] \in CallSteps => verdict[KeyOf(w)] = NoVerdict
    /\ at[w] = "result" => heard[w] = verdict[KeyOf(w)] /\ heard[w] # NoVerdict
    /\ heard[w] = "COMPLETED" => KeyOf(w) \in accepted /\ Answer[KeyOf(w)] = "COMPLETED"

\* Attempts are recorded truly, and a saved result is one of them.
RecordedOutcomes ==
  \A k \in Keys :
    /\ "COMPLETED" \in attempts[k] => k \in accepted /\ Answer[k] = "COMPLETED"
    /\ verdict[k] # NoVerdict => verdict[k] \in attempts[k] \ {Unknown}

\* The fourth row carries the saved result.
EventsCarryVerdicts ==
  \A k \in Keys : Len(outbox[k]) >= 4 =>
    /\ verdict[k] # NoVerdict
    /\ outbox[k][4].result = verdict[k]
    /\ outbox[k][4].topic = ResultTopic(verdict[k])

\* A settlement rests on the saved result.
SettledByVerdict ==
  \A k \in Keys :
    /\ state[k] = "FULFILLED" => verdict[k] = "COMPLETED"
    /\ state[k] = "FAILED" =>
         \/ verdict[k] = cause[k] /\ verdict[k] # "COMPLETED"
         \/ verdict[k] = "COMPLETED" /\ cause[k] = "INSUFFICIENT_FUNDS"

\* A settled record in hand is the row of the database.
SettledRecords ==
  /\ \A w \in Workers :
       /\ seen[w] \in TerminalStates => state[KeyOf(w)] = seen[w]
       /\ at[w] \in {"return", "post", "row", "retry"} => seen[w] \in TerminalStates
  /\ \A c \in candidates : c[2] # "PENDING" => state[c[1]] \in TerminalStates

KafkaInv ==
  /\ KafkaTypes
  /\ EventsAreWritten
  /\ OutboxFollows
  /\ SentIsDelivered
  /\ HandlersHoldEvents
  /\ BurstsAreAlone
  /\ RecordedOutcomes
  /\ EventsCarryVerdicts
  /\ SettledByVerdict
  /\ SettledRecords
  /\ OneOutcomeTold

-------------------------------------------------------------------------------
(* Names and events *)

\* The steps of the workflow and their topics, one by one.
LEMMA TopicNames ==
  /\ Step.RECEIVED = "transfer.received" /\ Step["RECEIVED"] = "transfer.received"
  /\ Step.VALIDATED = "transfer.validated" /\ Step["VALIDATED"] = "transfer.validated"
  /\ Step.PREPARED = "transfer.prepared" /\ Step["PREPARED"] = "transfer.prepared"
  /\ Step.FULFILLED = "transfer.fulfilled" /\ Step["FULFILLED"] = "transfer.fulfilled"
  /\ Step.FAILED = "transfer.failed" /\ Step["FAILED"] = "transfer.failed"
  /\ Topics = {"transfer.received", "transfer.validated", "transfer.prepared",
               "transfer.fulfilled", "transfer.failed", "provider.completed", "provider.failed"}
<1>1. DOMAIN Step = {"RECEIVED", "VALIDATED", "PREPARED", "FULFILLED", "FAILED"}
  BY DEF Step
<1>2. \A s \in {"RECEIVED", "VALIDATED", "PREPARED", "FULFILLED", "FAILED"} :
        s \in DOMAIN Step
  BY <1>1
<1>3. /\ Step["RECEIVED"] = "transfer.received"
      /\ Step["VALIDATED"] = "transfer.validated"
      /\ Step["PREPARED"] = "transfer.prepared"
      /\ Step["FULFILLED"] = "transfer.fulfilled"
      /\ Step["FAILED"] = "transfer.failed"
  BY DEF Step
<1>4. Topics = {"transfer.received", "transfer.validated", "transfer.prepared",
                "transfer.fulfilled", "transfer.failed", "provider.completed", "provider.failed"}
  BY <1>1, <1>3 DEF Topics, ProviderTopics
<1> QED
  BY <1>3, <1>4

\* Answers and failure codes are the causes a verdict may have; COMPLETED is no failure.
LEMMA OutcomesAreCauses ==
  /\ \A k \in Keys : Answer[k] \in Causes \ {Unknown}
  /\ Answers \subseteq Causes
  /\ FailureCodes \subseteq Causes
  /\ Causes = Answers \union FailureCodes
  /\ NoVerdict \notin Causes
  /\ "COMPLETED" \notin FailureCodes
  /\ "COMPLETED" \in Answers /\ Unknown \notin Answers
BY WorkflowStepsAssumption DEF Answers, RetryableCodes, Unknown

\* A worker works on a key, and each key has its two lanes.
LEMMA WorkersHaveKeys ==
  /\ \A w \in Workers : KeyOf(w) \in Keys
  /\ \A k \in Keys : /\ Request(k) \in Workers /\ Task(k) \in Workers
                     /\ KeyOf(Request(k)) = k /\ KeyOf(Task(k)) = k
BY ApplicationAssumption DEF Workers, KeyOf, Request, Task

\* A worker is its key and its lane.
LEMMA WorkersAreLanes ==
  \A w \in Workers : KeyOf(w) \in Keys /\ w[1] \in Keys /\ w = <<w[1], w[2]>>
BY DEF Workers, KeyOf

\* An event is written when it is a place in the outbox of a transfer.
LEMMA WrittenRows ==
  ASSUME KafkaTypes
  PROVE  \A e : e \in Written <=>
           \E k \in Keys : \E i \in 1 .. Len(outbox[k]) : e = <<k, i>>
BY DEF KafkaTypes, Written

\* The outbox of a transfer is a sequence of rows.
LEMMA RowsAreTyped ==
  ASSUME KafkaTypes
  PROVE  \A k \in Keys :
           /\ outbox[k] \in Seq(Row)
           /\ Len(outbox[k]) \in Nat
           /\ \A i \in 1 .. Len(outbox[k]) : outbox[k][i] \in Row
BY DEF KafkaTypes

\* A place has one topic, so a partition has at most one event of a transfer.
LEMMA OneDeliverable ==
  ASSUME KafkaTypes, EventsAreWritten, OutboxFollows, LedgerTypeOK,
         NEW w \in Workers, NEW d \in Deliverable(w), NEW e \in Deliverable(w)
  PROVE  d = e
<1> DEFINE k == w[1]
<1>1. k \in Keys
  BY WorkersAreLanes
<1>2. PICK i \in 1 .. Len(outbox[k]) : d = <<k, i>> /\ outbox[k][i].topic = w[2]
  BY WrittenRows DEF Deliverable, EventsAreWritten, Topic
<1>3. PICK j \in 1 .. Len(outbox[k]) : e = <<k, j>> /\ outbox[k][j].topic = w[2]
  BY WrittenRows DEF Deliverable, EventsAreWritten, Topic
<1> HIDE DEF k
<1>4. HasRows(Len(outbox[k]), state[k]) /\ Len(outbox[k]) \in Nat
  BY <1>1, RowsAreTyped DEF OutboxFollows, Follows
<1>5. Len(outbox[k]) \in 0 .. 5
  BY <1>4 DEF HasRows
<1>6. Len(outbox[k]) = 5 => state[k] \in {"FULFILLED", "FAILED"}
  BY <1>4 DEF HasRows, TerminalStates
<1>7. \A n \in 0 .. 5 : \A h \in 1 .. n : h \in {1, 2, 3, 4, 5} /\ (h = 5 => n = 5)
  OBVIOUS
<1>8. \A h \in 1 .. Len(outbox[k]) :
        /\ h = 1 => outbox[k][h].topic = "transfer.received"
        /\ h = 2 => outbox[k][h].topic = "transfer.validated"
        /\ h = 3 => outbox[k][h].topic = "transfer.prepared"
        /\ h = 4 => outbox[k][h].topic \in {"provider.completed", "provider.failed"}
        /\ h = 5 => outbox[k][h].topic \in {"transfer.fulfilled", "transfer.failed"}
  <2>1. 5 \in 1 .. Len(outbox[k]) => Len(outbox[k]) = 5
    BY <1>5, <1>7
  <2>2. Len(outbox[k]) = 5 => Step[state[k]] \in {"transfer.fulfilled", "transfer.failed"}
    BY <1>6, TopicNames
  <2> QED
    BY ZenonT(60), <1>1, <2>1, <2>2 DEF OutboxFollows, Follows, ProviderTopics
<1>9. i = j
  BY SMTT(30), <1>2, <1>3, <1>5, <1>7, <1>8
<1> QED
  BY <1>2, <1>3, <1>9

\* So the message in hand is that event.
LEMMA InHandIsDeliverable ==
  ASSUME KafkaInv, LedgerInv, NEW w \in Workers, at[w] \in HandlerSteps
  PROVE  /\ InHand(w) \in Deliverable(w)
         /\ InHand(w) \in due
         /\ \E i \in 1 .. Len(outbox[w[1]]) :
              InHand(w) = <<w[1], i>> /\ outbox[w[1]][i].topic = w[2]
         /\ w[2] \in Topics
<1> USE DEF KafkaInv, LedgerInv
<1>1. PICK e \in Deliverable(w) : TRUE
  BY DEF HandlersHoldEvents
<1>2. PICK i \in 1 .. Len(outbox[w[1]]) : e = <<w[1], i>> /\ outbox[w[1]][i].topic = w[2]
  BY <1>1, WrittenRows DEF Deliverable, EventsAreWritten, Topic
<1>3. Deliverable(w) = {e}
  BY <1>1, OneDeliverable
<1>4. e[2] <= e[2]
  BY <1>2
<1>5. InHand(w) = e
  BY <1>3, <1>4 DEF InHand
<1>6. w[1] \in Keys /\ outbox[w[1]] \in Seq(Row)
  BY WorkersAreLanes DEF KafkaTypes
<1>7. outbox[w[1]][i] \in Row
  BY <1>6
<1>8. w[2] \in Topics
  BY <1>2, <1>7 DEF Row
<1> QED
  BY <1>1, <1>2, <1>5, <1>8 DEF Deliverable

\* An event that nobody has acknowledged is the last one of its transfer, and
\* its topic is the transfer's state.
LEMMA ClaimedIsLast ==
  ASSUME KafkaInv, LedgerInv, NEW w \in Workers, at[w] \in HandlerSteps, Claimed(w)
  PROVE  LET k == KeyOf(w)
             n == Len(outbox[k])
         IN  /\ InHand(w) = <<k, n>> /\ n \in 1 .. 5 /\ outbox[k][n].topic = w[2]
             /\ w[2] = "transfer.received" => n = 1 /\ state[k] = "RECEIVED"
             /\ w[2] = "transfer.validated" => n = 2 /\ state[k] = "VALIDATED"
             /\ w[2] = "transfer.prepared" => n = 3 /\ state[k] = "PREPARED"
             /\ w[2] \in ProviderTopics => n = 4 /\ state[k] = "PREPARED"
<1> DEFINE k == KeyOf(w)
           n == Len(outbox[k])
<1>1. k \in Keys /\ k = w[1]
  BY WorkersAreLanes DEF KeyOf
<1>2. PICK i \in 1 .. n : InHand(w) = <<k, i>> /\ outbox[k][i].topic = w[2]
  BY <1>1, InHandIsDeliverable
<1>3. n \in Nat /\ HasRows(n, state[k])
  BY <1>1, RowsAreTyped DEF KafkaInv, OutboxFollows, Follows
<1>4. i = n
  <2>1. i < n => <<k, i>> \in inbox
    BY <1>1 DEF KafkaInv, OutboxFollows, Follows
  <2> QED
    BY <1>2, <1>3, <2>1 DEF Claimed
<1>5. n \in {1, 2, 3, 4, 5}
  BY <1>2, <1>3, <1>4 DEF HasRows
<1>6. /\ n = 1 => w[2] = "transfer.received"
      /\ n = 2 => w[2] = "transfer.validated"
      /\ n = 3 => w[2] = "transfer.prepared"
      /\ n = 4 => w[2] \in ProviderTopics
      /\ n = 5 => w[2] = Step[state[k]]
  BY <1>1, <1>2, <1>4 DEF KafkaInv, OutboxFollows, Follows
<1> HIDE DEF k, n
<1>7. /\ n = 1 => state[k] = "RECEIVED"
      /\ n = 2 => state[k] = "VALIDATED"
      /\ n = 3 => state[k] = "PREPARED"
      /\ n = 4 => state[k] = "PREPARED"
      /\ n = 5 => state[k] \in {"FULFILLED", "FAILED"}
  BY <1>3 DEF HasRows, TerminalStates
<1>8. n = 5 => w[2] \in {"transfer.fulfilled", "transfer.failed"}
  BY <1>6, <1>7, TopicNames
<1>9. /\ w[2] = "transfer.received" => n = 1 /\ state[k] = "RECEIVED"
      /\ w[2] = "transfer.validated" => n = 2 /\ state[k] = "VALIDATED"
      /\ w[2] = "transfer.prepared" => n = 3 /\ state[k] = "PREPARED"
      /\ w[2] \in ProviderTopics => n = 4 /\ state[k] = "PREPARED"
  BY <1>5, <1>6, <1>7, <1>8 DEF ProviderTopics
<1> QED
  BY <1>2, <1>4, <1>5, <1>9 DEF k, n

-------------------------------------------------------------------------------
(* Every handler's transaction takes the step its event stands for *)

\* The transaction of a handler whose event is new: a step of the transfer.
Claims(w) ==
  LET k == KeyOf(w)
      n == Len(outbox[k])
  IN
  /\ InHand(w) = <<k, n>> /\ InHand(w) \notin inbox
  /\ \/ /\ n = 1 /\ state[k] = "RECEIVED"
        /\ Advance(k, "VALIDATED", NoCause)
        /\ Emit(k, "transfer.validated", NoVerdict)
     \/ /\ n = 2 /\ state[k] = "VALIDATED"
        /\ Advance(k, "PREPARED", NoCause)
        /\ Emit(k, "transfer.prepared", NoVerdict)
     \/ /\ n = 3 /\ state[k] = "PREPARED"
        /\ UNCHANGED ledgerVars
        /\ verdict[k] # NoVerdict
        /\ Emit(k, ResultTopic(verdict[k]), verdict[k])
     \/ /\ n = 4 /\ state[k] = "PREPARED"
        /\ verdict[k] = "COMPLETED"
        /\ Post(k)
        /\ Emit(k, "transfer.fulfilled", NoVerdict)
     \/ /\ n = 4 /\ state[k] = "PREPARED"
        /\ \E why \in Causes \union {"INSUFFICIENT_FUNDS"} :
             /\ Advance(k, "FAILED", why)
             /\ \/ why = verdict[k] /\ verdict[k] # "COMPLETED"
                \/ why = "INSUFFICIENT_FUNDS" /\ verdict[k] = "COMPLETED"
        /\ Emit(k, "transfer.failed", NoVerdict)

Transaction(w) ==
  \/ HandleReceived(w) \/ HandleValidated(w) \/ HandlePrepared(w)
  \/ HandleCompleted(w) \/ HandleNoFunds(w) \/ HandleFailed(w)

\* The transaction of a handler finishes the event in hand, and changes rows only by claiming it.
LEMMA TransactionClaims ==
  ASSUME KafkaInv, LedgerInv, NEW w \in Workers, Transaction(w)
  PROVE  /\ at[w] \in HandlerSteps
         /\ Acknowledge(w)
         /\ Done(w)
         /\ UNCHANGED <<providerVars, faults, applicationVars, published, broker, batch, sent>>
         /\ \/ InHand(w) \in inbox /\ UNCHANGED <<ledgerVars, outbox>>
            \/ Claims(w)
<1> DEFINE k == KeyOf(w)
           n == Len(outbox[k])
           Q == \/ InHand(w) \in inbox /\ UNCHANGED <<ledgerVars, outbox>>
                \/ Claims(w)
<1>1. k \in Keys
  BY WorkersAreLanes
<1>2. at[w] \in HandlerSteps
  BY DEF Transaction, HandleReceived, HandleValidated, HandlePrepared, HandleCompleted,
         HandleNoFunds, HandleFailed, HandlerSteps
<1>3. /\ Acknowledge(w)
      /\ Done(w)
      /\ UNCHANGED <<providerVars, faults, applicationVars, published, broker, batch, sent>>
  BY DEF Transaction, HandleReceived, HandleValidated, HandlePrepared, HandleCompleted,
         HandleNoFunds, HandleFailed, TransitionOnce
<1>4. ASSUME HandleReceived(w) PROVE Q
  <2>1. w[2] = "transfer.received" /\ TransitionOnce(w, "VALIDATED", NoCause)
    BY <1>4, TopicNames DEF HandleReceived
  <2>2. CASE ~Claimed(w)
    BY <2>1, <2>2 DEF TransitionOnce, Claimed
  <2>3. CASE Claimed(w)
    <3>1. InHand(w) = <<k, n>> /\ n = 1 /\ state[k] = "RECEIVED"
      BY <1>2, <2>1, <2>3, ClaimedIsLast
    <3>2. ~AlreadyPast(k, "VALIDATED")
      BY <3>1 DEF AlreadyPast, Pending, PendingStates
    <3>3. Advance(k, "VALIDATED", NoCause) /\ Emit(k, "transfer.validated", NoVerdict)
      BY <2>1, <2>3, <3>2, TopicNames DEF TransitionOnce
    <3> QED
      BY <2>3, <3>1, <3>3 DEF Claims, Claimed
  <2> QED
    BY <2>2, <2>3
<1>5. ASSUME HandleValidated(w) PROVE Q
  <2>1. w[2] = "transfer.validated" /\ TransitionOnce(w, "PREPARED", NoCause)
    BY <1>5, TopicNames DEF HandleValidated
  <2>2. CASE ~Claimed(w)
    BY <2>1, <2>2 DEF TransitionOnce, Claimed
  <2>3. CASE Claimed(w)
    <3>1. InHand(w) = <<k, n>> /\ n = 2 /\ state[k] = "VALIDATED"
      BY <1>2, <2>1, <2>3, ClaimedIsLast
    <3>2. ~AlreadyPast(k, "PREPARED")
      BY <3>1 DEF AlreadyPast, Pending, PendingStates
    <3>3. Advance(k, "PREPARED", NoCause) /\ Emit(k, "transfer.prepared", NoVerdict)
      BY <2>1, <2>3, <3>2, TopicNames DEF TransitionOnce
    <3> QED
      BY <2>3, <3>1, <3>3 DEF Claims, Claimed
  <2> QED
    BY <2>2, <2>3
<1>6. ASSUME HandlePrepared(w) PROVE Q
  <2>1. w[2] = "transfer.prepared" /\ heard[w] = verdict[k] /\ verdict[k] # NoVerdict
    BY <1>2, <1>6 DEF HandlePrepared, KafkaInv, HandlersHoldEvents, BurstsAreAlone
  <2>2. CASE ~Claimed(w)
    BY <1>6, <2>2 DEF HandlePrepared, Claimed
  <2>3. CASE Claimed(w)
    <3>1. InHand(w) = <<k, n>> /\ n = 3 /\ state[k] = "PREPARED"
      BY <1>2, <2>1, <2>3, ClaimedIsLast
    <3>2. UNCHANGED ledgerVars /\ Emit(k, ResultTopic(verdict[k]), verdict[k])
      BY <1>6, <2>1, <2>3 DEF HandlePrepared
    <3> QED
      BY <2>1, <2>3, <3>1, <3>2 DEF Claims, Claimed
  <2> QED
    BY <2>2, <2>3
<1>7. ASSUME HandleCompleted(w) \/ HandleNoFunds(w) \/ HandleFailed(w) PROVE Q
  <2>1. w[2] \in ProviderTopics
    BY <1>2, <1>7 DEF HandleCompleted, HandleNoFunds, HandleFailed, ProviderTopics,
                      KafkaInv, HandlersHoldEvents
  <2>2. CASE ~Claimed(w)
    BY <1>7, <2>2 DEF HandleCompleted, HandleNoFunds, HandleFailed, TransitionOnce, Claimed
  <2>3. CASE Claimed(w)
    <3>1. InHand(w) = <<k, n>> /\ n = 4 /\ state[k] = "PREPARED" /\ outbox[k][4].topic = w[2]
      BY <1>2, <2>1, <2>3, ClaimedIsLast
    <3>2. /\ verdict[k] # NoVerdict /\ outbox[k][4].result = verdict[k]
          /\ w[2] = ResultTopic(verdict[k])
      BY <1>1, <3>1 DEF KafkaInv, EventsCarryVerdicts
    <3>3. verdict[k] \in Causes
      BY <1>1, <3>2 DEF KafkaInv, KafkaTypes
    <3>4. Pending(k) /\ ~AlreadyPast(k, "FAILED")
      BY <3>1 DEF AlreadyPast, Pending, PendingStates
    <3>5. CASE HandleCompleted(w)
      <4>1. verdict[k] = "COMPLETED"
        BY <3>2, <3>5 DEF HandleCompleted, ResultTopic
      <4>2. Post(k) /\ Emit(k, "transfer.fulfilled", NoVerdict)
        BY <2>3, <3>4, <3>5, TopicNames DEF HandleCompleted
      <4> QED
        BY <2>3, <3>1, <4>1, <4>2 DEF Claims, Claimed
    <3>6. CASE HandleNoFunds(w)
      <4>1. w[2] = "provider.completed"
        BY <1>2, <3>6 DEF HandleNoFunds, KafkaInv, HandlersHoldEvents
      <4>2. verdict[k] = "COMPLETED"
        BY <3>2, <4>1 DEF ResultTopic
      <4>3. Advance(k, "FAILED", "INSUFFICIENT_FUNDS") /\ Emit(k, "transfer.failed", NoVerdict)
        BY <2>3, <3>4, <3>6, TopicNames DEF HandleNoFunds, TransitionOnce
      <4> QED
        BY <2>3, <3>1, <4>2, <4>3 DEF Claims, Claimed
    <3>7. CASE HandleFailed(w)
      <4>1. verdict[k] # "COMPLETED"
        BY <3>2, <3>7 DEF HandleFailed, ResultTopic
      <4>2. Result(InHand(w)) = verdict[k]
        BY <3>1, <3>2 DEF Result
      <4>3. Advance(k, "FAILED", verdict[k]) /\ Emit(k, "transfer.failed", NoVerdict)
        BY <2>3, <3>4, <3>7, <4>2, TopicNames DEF HandleFailed, TransitionOnce
      <4> QED
        BY <2>3, <3>1, <3>3, <4>1, <4>3 DEF Claims, Claimed
    <3> QED
      BY <1>7, <3>5, <3>6, <3>7
  <2> QED
    BY <2>2, <2>3
<1>8. Q
  BY <1>4, <1>5, <1>6, <1>7 DEF Transaction
<1> QED
  BY <1>2, <1>3, <1>8

-------------------------------------------------------------------------------
(* What a step does to the store *)

\* A step is a request that is accepted, a handler's transaction, or leaves
\* the rows, the outbox and the inbox alone.
LEMMA StepKinds ==
  ASSUME [Next]_vars
  PROVE  \/ \E k \in Keys : \E c \in Commands : Accept(k, c)
         \/ \E w \in Workers : Transaction(w)
         \/ UNCHANGED <<ledgerVars, outbox, inbox>>
<1> DEFINE Q == UNCHANGED <<ledgerVars, outbox, inbox>>
<1>1. CASE UNCHANGED vars
  BY <1>1 DEF vars, kafkaVars
<1>2. ASSUME NEW k \in Keys, Surroundings(k) PROVE Q
  BY <1>2 DEF Surroundings, Answered, Begin, Land, kafkaVars
<1>3. ASSUME NEW w \in Workers, HandlerStep(w), ~Transaction(w) PROVE Q
  <2>1. CASE \/ Deliver(w) \/ SkipProcessed(w) \/ StartHandler(w) \/ ReadRecord(w)
             \/ IgnoreRecord(w) \/ HandleWithoutFunds(w)
    BY <2>1 DEF Deliver, SkipProcessed, StartHandler, ReadRecord, IgnoreRecord,
                HandleWithoutFunds, kafkaVars
  <2>2. CASE CallProvider(w)
    BY <2>2 DEF CallProvider, ProviderStep, ReuseVerdict, BeginBurst, Call, ReceiveAnswer,
                RecordAnswer, RetryLater, GiveUp, LeaveUncertain, kafkaVars
  <2> QED
    BY <1>3, <2>1, <2>2 DEF HandlerStep, Transaction
<1>4. ASSUME NEW w \in Workers, TaskStep(w) PROVE Q
  BY <1>4 DEF TaskStep, StartExecute, Resolve, Expire, ReturnToTask, ReturnToClient,
              PostCallback, RecordDelivery, RecordFailedDelivery, kafkaVars
<1>5. ASSUME NEW w \in Workers, WorkerFault(w) PROVE Q
  BY <1>5 DEF WorkerFault, ProviderFault, ReceiveFailure, ReceiveTornAnswer,
              PostCallbackFails, Throw, kafkaVars
<1>6. CASE Poll \/ Publish \/ MarkPublished \/ DispatchFails \/ Redeliver
  BY <1>6 DEF Poll, Publish, MarkPublished, DispatchFails, Redeliver
<1>7. CASE (Scan \/ Recover) /\ UNCHANGED kafkaVars
  BY <1>7 DEF Scan, Recover, kafkaVars
<1>8. CASE Crash
  BY <1>8 DEF Crash, ProcessDies
<1> QED
  BY <1>1, <1>2, <1>3, <1>4, <1>5, <1>6, <1>7, <1>8 DEF Next

\* A claiming handler's transaction is one of the ledger's, or leaves it alone.
LEMMA ClaimIsLedgerStep ==
  ASSUME NEW w \in Workers, Claims(w)
  PROVE  [LedgerNext]_ledgerVars
<1> DEFINE k == KeyOf(w)
<1>1. k \in Keys
  BY WorkersAreLanes
<1>2. \/ UNCHANGED ledgerVars
      \/ \E next \in {"VALIDATED", "PREPARED"} : Advance(k, next, NoCause)
      \/ Post(k)
      \/ \E why \in Causes \union {"INSUFFICIENT_FUNDS"} : Advance(k, "FAILED", why)
  BY DEF Claims
<1> QED
  BY <1>1, <1>2 DEF LedgerNext, Transition, Fulfill

\* Every step of the choreography is a step of the open ledger or a stutter.
LEMMA NextIsLedgerStep ==
  LedgerInv /\ KafkaInv /\ [Next]_vars => [LedgerNext]_ledgerVars
<1> SUFFICES ASSUME LedgerInv, KafkaInv, [Next]_vars PROVE [LedgerNext]_ledgerVars
  OBVIOUS
<1>1. ASSUME NEW k \in Keys, NEW c \in Commands, Accept(k, c) PROVE [LedgerNext]_ledgerVars
  BY <1>1 DEF Accept, Submit, LedgerNext
<1>2. ASSUME NEW w \in Workers, Transaction(w) PROVE [LedgerNext]_ledgerVars
  BY <1>2, TransactionClaims, ClaimIsLedgerStep
<1> QED
  BY <1>1, <1>2, StepKinds

\* A settled transfer stays as it is.
LEMMA SettledStay ==
  ASSUME LedgerInv, KafkaInv, [Next]_vars
  PROVE  \A k \in Keys :
           state[k] \in TerminalStates => state'[k] = state[k] /\ cause'[k] = cause[k]
BY NextIsLedgerStep, StepKeepsSettled

\* Emit() appends one row.
LEMMA EmitAppends ==
  ASSUME KafkaTypes, NEW k \in Keys, NEW t \in Topics, NEW r \in Causes \union {NoVerdict},
         Emit(k, t, r)
  PROVE  /\ outbox' \in [Keys -> Seq(Row)]
         /\ Len(outbox'[k]) = Len(outbox[k]) + 1
         /\ outbox'[k][Len(outbox[k]) + 1] = [topic |-> t, result |-> r]
         /\ \A i \in 1 .. Len(outbox[k]) : outbox'[k][i] = outbox[k][i]
         /\ \A j \in Keys : j # k => outbox'[j] = outbox[j]
<1> DEFINE row == [topic |-> t, result |-> r]
<1>1. row \in Row
  BY OutcomesAreCauses DEF Row
<1>2. outbox[k] \in Seq(Row)
  BY DEF KafkaTypes
<1>3. outbox' = [outbox EXCEPT ![k] = Append(@, row)]
  BY DEF Emit
<1> HIDE DEF row
<1>4. outbox'[k] = Append(outbox[k], row) /\ \A j \in Keys : j # k => outbox'[j] = outbox[j]
  BY <1>3 DEF KafkaTypes
<1>5. /\ Append(outbox[k], row) \in Seq(Row)
      /\ Len(Append(outbox[k], row)) = Len(outbox[k]) + 1
      /\ \A i \in 1 .. Len(outbox[k]) : Append(outbox[k], row)[i] = outbox[k][i]
      /\ Append(outbox[k], row)[Len(outbox[k]) + 1] = row
  BY <1>1, <1>2
<1>6. outbox' \in [Keys -> Seq(Row)]
  BY <1>3, <1>5 DEF KafkaTypes
<1> QED
  BY <1>4, <1>5, <1>6 DEF row

\* The rows a step adds to the outbox.
LEMMA ClaimEmits ==
  ASSUME KafkaInv, LedgerInv, NEW w \in Workers, Claims(w)
  PROVE  \E t \in Topics : \E r \in Causes \union {NoVerdict} : Emit(KeyOf(w), t, r)
<1>1. /\ KeyOf(w) \in Keys
      /\ verdict[KeyOf(w)] \in Causes \union {NoVerdict}
      /\ ResultTopic(verdict[KeyOf(w)]) \in Topics
  BY WorkersAreLanes, TopicNames DEF KafkaInv, KafkaTypes, ResultTopic
<1> QED
  BY <1>1, TopicNames DEF Claims

\* The outbox only grows at its end.
LEMMA OutboxGrows ==
  ASSUME KafkaInv, LedgerInv, [Next]_vars
  PROVE  /\ outbox' \in [Keys -> Seq(Row)]
         /\ \A k \in Keys :
              /\ Len(outbox'[k]) \in {Len(outbox[k]), Len(outbox[k]) + 1}
              /\ \A i \in 1 .. Len(outbox[k]) : outbox'[k][i] = outbox[k][i]
<1> USE DEF KafkaInv
<1>1. ASSUME outbox' = outbox
      PROVE  /\ outbox' \in [Keys -> Seq(Row)]
             /\ \A k \in Keys :
                  /\ Len(outbox'[k]) \in {Len(outbox[k]), Len(outbox[k]) + 1}
                  /\ \A i \in 1 .. Len(outbox[k]) : outbox'[k][i] = outbox[k][i]
  BY <1>1 DEF KafkaTypes
<1>2. ASSUME NEW k \in Keys, NEW t \in Topics, NEW r \in Causes \union {NoVerdict},
             Emit(k, t, r)
      PROVE  /\ outbox' \in [Keys -> Seq(Row)]
             /\ \A j \in Keys :
                  /\ Len(outbox'[j]) \in {Len(outbox[j]), Len(outbox[j]) + 1}
                  /\ \A i \in 1 .. Len(outbox[j]) : outbox'[j][i] = outbox[j][i]
  BY <1>2, EmitAppends
<1>3. CASE \E k \in Keys : \E c \in Commands : Accept(k, c)
  <2>1. PICK k \in Keys : Emit(k, "transfer.received", NoVerdict)
    BY <1>3, TopicNames DEF Accept
  <2> QED
    BY <1>2, <2>1, TopicNames
<1>4. CASE \E w \in Workers : Transaction(w)
  <2>1. PICK w \in Workers : UNCHANGED outbox \/ Claims(w)
    BY <1>4, TransactionClaims
  <2> QED
    BY <1>1, <1>2, <2>1, ClaimEmits, WorkersAreLanes
<1> QED
  BY <1>1, <1>3, <1>4, StepKinds

-------------------------------------------------------------------------------
(* KafkaInv is inductive: the events *)

\* A written row stays written.
LEMMA WrittenStay ==
  ASSUME KafkaInv, LedgerInv, [Next]_vars
  PROVE  Written \subseteq Written'
<1>1. \A k \in Keys : DOMAIN outbox[k] = 1 .. Len(outbox[k]) /\ DOMAIN outbox'[k] = 1 .. Len(outbox'[k])
  BY OutboxGrows, RowsAreTyped DEF KafkaInv
<1>2. \A k \in Keys : 1 .. Len(outbox[k]) \subseteq 1 .. Len(outbox'[k])
  BY OutboxGrows, RowsAreTyped DEF KafkaInv
<1> QED
  BY <1>1, <1>2 DEF Written

\* Messages come from the outbox, by way of a batch.
LEMMA MessagesKept ==
  ASSUME KafkaInv, LedgerInv, [Next]_vars
  PROVE  EventsAreWritten'
<1> DEFINE P == published' \union inbox' \union broker' \union due' \union batch' \union sent'
                  \subseteq Written
<1> USE DEF KafkaInv, EventsAreWritten
<1>1. CASE UNCHANGED vars
  BY <1>1, WrittenStay DEF vars, kafkaVars
<1>2. ASSUME NEW k \in Keys, (\E c \in Commands : Accept(k, c)) \/ Surroundings(k) PROVE P
  BY <1>2 DEF Accept, Surroundings, kafkaVars
<1>3. ASSUME NEW w \in Workers, HandlerStep(w) PROVE P
  <2>1. CASE Transaction(w)
    BY <2>1, TransactionClaims, InHandIsDeliverable DEF Acknowledge, Done
  <2>2. CASE SkipProcessed(w) \/ IgnoreRecord(w)
    BY <2>2 DEF SkipProcessed, IgnoreRecord, Done
  <2>3. CASE ~(Transaction(w) \/ SkipProcessed(w) \/ IgnoreRecord(w))
    BY <1>3, <2>3 DEF HandlerStep, Transaction, Deliver, StartHandler, ReadRecord,
                      HandleWithoutFunds, CallProvider, kafkaVars
  <2> QED
    BY <2>1, <2>2, <2>3
<1>4. ASSUME NEW w \in Workers, TaskStep(w) \/ WorkerFault(w) PROVE P
  BY <1>4 DEF TaskStep, StartExecute, Resolve, Expire, WorkerFault, Unpublished, kafkaVars
<1>5. ASSUME Poll \/ Publish \/ MarkPublished \/ DispatchFails PROVE P
  BY <1>5 DEF Poll, Publish, MarkPublished, DispatchFails, Unpublished
<1>6. ASSUME Redeliver \/ Crash \/ ((Scan \/ Recover) /\ UNCHANGED kafkaVars) PROVE P
  BY <1>6 DEF Redeliver, Crash, kafkaVars
<1>7. UNCHANGED vars \/ P
  BY <1>2, <1>3, <1>4, <1>5, <1>6 DEF Next
<1> QED
  BY <1>1, <1>7, WrittenStay

\* A new row is nowhere yet.
LEMMA AppendedRow ==
  ASSUME KafkaInv, LedgerInv, NEW k \in Keys
  PROVE  /\ <<k, Len(outbox[k]) + 1>> \notin Written
         /\ <<k, Len(outbox[k]) + 1>> # <<k, Len(outbox[k])>>
         /\ HasRows(Len(outbox[k]), state[k])
<1>1. Len(outbox[k]) \in Nat
  BY RowsAreTyped DEF KafkaInv
<1>2. \A i \in 1 .. Len(outbox[k]) : i # Len(outbox[k]) + 1
  BY <1>1
<1>3. <<k, Len(outbox[k]) + 1>> \notin Written
  BY <1>2, WrittenRows DEF KafkaInv
<1>4. HasRows(Len(outbox[k]), state[k])
  BY DEF KafkaInv, OutboxFollows, Follows
<1>5. Len(outbox[k]) + 1 # Len(outbox[k])
  BY <1>1
<1> QED
  BY <1>3, <1>4, <1>5

\* The rows of a transfer that is not concerned stay as they are.
LEMMA OthersFollow ==
  ASSUME KafkaInv, LedgerInv, NEW j \in Keys, outbox'[j] = outbox[j], state'[j] = state[j],
         inbox \subseteq inbox',
         Pending(j) => (<<j, Len(outbox[j])>> \in inbox' => <<j, Len(outbox[j])>> \in inbox)
  PROVE  Follows(j)'
BY DEF KafkaInv, OutboxFollows, Follows, HasRows, Pending

\* The rows of the transfer that takes its step: the last one is acknowledged,
\* the next one is written.
LEMMA ClaimFollows ==
  ASSUME KafkaInv, LedgerInv, NEW w \in Workers, Claims(w), Acknowledge(w)
  PROVE  Follows(KeyOf(w))'
<1> DEFINE k == KeyOf(w)
           n == Len(outbox[k])
<1>1. k \in Keys
  BY WorkersAreLanes
<1>2. n \in Nat /\ InHand(w) = <<k, n>> /\ inbox' = inbox \union {<<k, n>>}
  BY <1>1, RowsAreTyped DEF Claims, Acknowledge, KafkaInv
<1>3. PICK t \in Topics, r \in Causes \union {NoVerdict} :
        /\ Emit(k, t, r)
        /\ \/ n = 1 /\ t = "transfer.validated" /\ state'[k] = "VALIDATED"
           \/ n = 2 /\ t = "transfer.prepared" /\ state'[k] = "PREPARED"
           \/ n = 3 /\ t \in ProviderTopics /\ state'[k] = "PREPARED"
           \/ n = 4 /\ t = "transfer.fulfilled" /\ state'[k] = "FULFILLED"
           \/ n = 4 /\ t = "transfer.failed" /\ state'[k] = "FAILED"
  <2>1. state \in [Keys -> States]
    BY DEF LedgerInv, LedgerTypeOK
  <2>2. ResultTopic(verdict[k]) \in ProviderTopics /\ verdict[k] \in Causes \union {NoVerdict}
    BY <1>1 DEF ResultTopic, ProviderTopics, KafkaInv, KafkaTypes
  <2>3. ProviderTopics \subseteq Topics
    BY DEF Topics
  <2>4. \A next, why : Advance(k, next, why) => state'[k] = next
    BY <1>1, <2>1 DEF Advance
  <2>5. Post(k) => state'[k] = "FULFILLED"
    BY <1>1, <2>1 DEF Post
  <2>6. state[k] = "PREPARED" /\ UNCHANGED ledgerVars => state'[k] = "PREPARED"
    BY DEF ledgerVars
  <2> HIDE DEF k, n
  <2>7. \/ n = 1 /\ state'[k] = "VALIDATED" /\ Emit(k, "transfer.validated", NoVerdict)
        \/ n = 2 /\ state'[k] = "PREPARED" /\ Emit(k, "transfer.prepared", NoVerdict)
        \/ n = 3 /\ state'[k] = "PREPARED" /\ Emit(k, ResultTopic(verdict[k]), verdict[k])
        \/ n = 4 /\ state'[k] = "FULFILLED" /\ Emit(k, "transfer.fulfilled", NoVerdict)
        \/ n = 4 /\ state'[k] = "FAILED" /\ Emit(k, "transfer.failed", NoVerdict)
    BY <2>4, <2>5, <2>6 DEF Claims, k, n
  <2> QED
    BY <2>2, <2>3, <2>7, TopicNames
<1>4. /\ Len(outbox'[k]) = n + 1
      /\ outbox'[k][n + 1].topic = t
      /\ \A i \in 1 .. n : outbox'[k][i] = outbox[k][i]
  <2>1. KafkaTypes
    BY DEF KafkaInv
  <2>2. /\ Len(outbox'[k]) = n + 1
        /\ outbox'[k][n + 1] = [topic |-> t, result |-> r]
        /\ \A i \in 1 .. n : outbox'[k][i] = outbox[k][i]
    BY <1>1, <1>3, <2>1, EmitAppends
  <2> QED
    BY <2>2
<1>5. Follows(k)
  BY <1>1 DEF KafkaInv, OutboxFollows
<1>6. <<k, n + 1>> \notin inbox'
  BY <1>1, <1>2, AppendedRow DEF KafkaInv, EventsAreWritten
<1> HIDE DEF k, n
<1>7. HasRows(n + 1, state'[k])
  <2>1. \A s : /\ HasRows(2, "VALIDATED") /\ HasRows(3, "PREPARED") /\ HasRows(4, "PREPARED")
               /\ s \in TerminalStates => HasRows(5, s)
    BY DEF HasRows
  <2>2. 1 + 1 = 2 /\ 2 + 1 = 3 /\ 3 + 1 = 4 /\ 4 + 1 = 5
    OBVIOUS
  <2> QED
    BY <1>3, <2>1, <2>2 DEF TerminalStates
<1>8. \A i \in 1 .. n + 1 :
        /\ i = 1 => outbox'[k][i].topic = "transfer.received"
        /\ i = 2 => outbox'[k][i].topic = "transfer.validated"
        /\ i = 3 => outbox'[k][i].topic = "transfer.prepared"
        /\ i = 4 => outbox'[k][i].topic \in ProviderTopics
        /\ i = 5 => outbox'[k][i].topic = Step[state'[k]]
        /\ i < n + 1 => <<k, i>> \in inbox'
  <2> SUFFICES ASSUME NEW i \in 1 .. n + 1
               PROVE  /\ i = 1 => outbox'[k][i].topic = "transfer.received"
                      /\ i = 2 => outbox'[k][i].topic = "transfer.validated"
                      /\ i = 3 => outbox'[k][i].topic = "transfer.prepared"
                      /\ i = 4 => outbox'[k][i].topic \in ProviderTopics
                      /\ i = 5 => outbox'[k][i].topic = Step[state'[k]]
                      /\ i < n + 1 => <<k, i>> \in inbox'
    OBVIOUS
  <2>1. n \in {1, 2, 3, 4}
    BY <1>3
  <2>2. CASE i = n + 1
    BY <1>3, <1>4, <2>1, <2>2, TopicNames
  <2>3. CASE i # n + 1
    <3>1. i \in 1 .. n /\ i # 5 /\ outbox'[k][i] = outbox[k][i]
      BY <1>4, <2>1, <2>3
    <3>2. <<k, i>> \in inbox'
      BY <1>2, <1>5, <2>1, <3>1 DEF Follows, n
    <3> QED
      BY <1>5, <3>1, <3>2 DEF Follows, n
  <2> QED
    BY <2>2, <2>3
<1> QED
  BY <1>4, <1>6, <1>7, <1>8 DEF Follows, k, n

\* Every step leaves the outbox of a transfer following its state.
LEMMA FollowsKept ==
  ASSUME KafkaInv, LedgerInv, [Next]_vars
  PROVE  OutboxFollows'
<1> SUFFICES ASSUME NEW j \in Keys PROVE Follows(j)'
  BY DEF OutboxFollows
<1>1. CASE UNCHANGED <<ledgerVars, outbox, inbox>>
  BY <1>1, OthersFollow DEF ledgerVars
<1>2. ASSUME NEW k \in Keys, NEW c \in Commands, Accept(k, c) PROVE Follows(j)'
  <2>1. /\ state[k] = "NONE" /\ state' = [state EXCEPT ![k] = "RECEIVED"]
        /\ Emit(k, "transfer.received", NoVerdict) /\ inbox' = inbox
    BY <1>2, TopicNames DEF Accept, Submit, Create
  <2>2. state \in [Keys -> States]
    BY DEF LedgerInv, LedgerTypeOK
  <2>3. CASE j # k
    BY <2>1, <2>2, <2>3, EmitAppends, OthersFollow, TopicNames DEF KafkaInv
  <2>4. CASE j = k
    <3>1. Len(outbox[k]) = 0 /\ state'[k] = "RECEIVED"
      <4>1. HasRows(Len(outbox[k]), "NONE")
        BY <2>1, AppendedRow
      <4> QED
        BY <2>1, <2>2, <4>1 DEF HasRows, TerminalStates
    <3>2. Len(outbox'[k]) = 1 /\ outbox'[k][1].topic = "transfer.received"
      <4>1. KafkaTypes /\ "transfer.received" \in Topics
        BY TopicNames DEF KafkaInv
      <4>2. /\ Len(outbox'[k]) = Len(outbox[k]) + 1
            /\ outbox'[k][Len(outbox[k]) + 1]
                 = [topic |-> "transfer.received", result |-> NoVerdict]
        BY <2>1, <4>1, EmitAppends
      <4> QED
        BY <3>1, <4>2
    <3>3. <<k, 1>> \notin inbox'
      BY <2>1, <3>1, AppendedRow DEF KafkaInv, EventsAreWritten
    <3>4. \A i \in 1 .. 1 : i = 1
      OBVIOUS
    <3> QED
      BY <2>4, <3>1, <3>2, <3>3, <3>4 DEF Follows, HasRows
  <2> QED
    BY <2>3, <2>4
<1>3. ASSUME NEW w \in Workers, Transaction(w) PROVE Follows(j)'
  <2> DEFINE k == KeyOf(w)
  <2>1. k \in Keys /\ state \in [Keys -> States]
    BY WorkersAreLanes DEF LedgerInv, LedgerTypeOK
  <2>2. inbox' = inbox \union {InHand(w)}
    BY <1>3, TransactionClaims DEF Acknowledge
  <2>3. CASE InHand(w) \in inbox /\ UNCHANGED <<ledgerVars, outbox>>
    BY <1>1, <2>2, <2>3
  <2>4. CASE Claims(w)
    <3>1. InHand(w) = <<k, Len(outbox[k])>>
      BY <2>4 DEF Claims
    <3>2. CASE j = k
      BY <1>3, <2>4, <3>2, TransactionClaims, ClaimFollows
    <3>3. CASE j # k
      <4>1. state'[j] = state[j]
        <5>1. \A next, why : Advance(k, next, why) => state'[j] = state[j]
          BY <2>1, <3>3 DEF Advance
        <5>2. Post(k) \/ UNCHANGED ledgerVars => state'[j] = state[j]
          BY <2>1, <3>3 DEF Post, ledgerVars
        <5> QED
          BY <2>4, <5>1, <5>2 DEF Claims
      <4>2. outbox'[j] = outbox[j]
        BY <2>1, <2>4, <3>3, ClaimEmits, EmitAppends DEF KafkaInv
      <4>3. <<j, Len(outbox[j])>> # InHand(w)
        BY <3>1, <3>3
      <4> QED
        BY <2>2, <4>1, <4>2, <4>3, OthersFollow
    <3> QED
      BY <3>2, <3>3
  <2> QED
    BY <1>3, <2>3, <2>4, TransactionClaims
<1> QED
  BY <1>1, <1>2, <1>3, StepKinds

\* An event keeps its topic and its result.
LEMMA EventsStay ==
  ASSUME KafkaInv, LedgerInv, [Next]_vars, NEW e \in Written
  PROVE  Topic(e)' = Topic(e) /\ Result(e)' = Result(e)
<1>1. PICK k \in Keys : \E i \in 1 .. Len(outbox[k]) : e = <<k, i>>
  BY WrittenRows DEF KafkaInv
<1>2. PICK i \in 1 .. Len(outbox[k]) : e = <<k, i>>
  BY <1>1
<1>3. outbox'[k][i] = outbox[k][i]
  BY OutboxGrows
<1> QED
  BY <1>2, <1>3 DEF Topic, Result

\* A transfer with events that is pending after a step was pending before it.
LEMMA PendingBefore ==
  ASSUME KafkaInv, LedgerInv, [Next]_vars, NEW e \in Written, Pending(e[1])'
  PROVE  Pending(e[1])
<1>1. PICK k \in Keys : \E i \in 1 .. Len(outbox[k]) : e = <<k, i>>
  BY WrittenRows DEF KafkaInv
<1>2. Len(outbox[k]) # 0
  BY <1>1, RowsAreTyped DEF KafkaInv
<1>3. state[k] # "NONE" /\ state[k] \in States
  <2>1. HasRows(Len(outbox[k]), state[k])
    BY AppendedRow
  <2> QED
    BY <1>2, <2>1 DEF HasRows, TerminalStates, LedgerInv, LedgerTypeOK
<1>4. state[k] \notin TerminalStates
  BY <1>1, SettledStay DEF Pending, PendingStates, TerminalStates
<1> QED
  BY <1>1, <1>3, <1>4 DEF Pending, States

\* A handler only ignores what no longer matters.
LEMMA IgnoredIsSettled ==
  ASSUME KafkaInv, LedgerInv, NEW w \in Workers, IgnoreRecord(w)
  PROVE  ~Pending(KeyOf(w))
<1> DEFINE k == KeyOf(w)
<1>1. at[w] \in HandlerSteps /\ k \in Keys /\ k = w[1]
  BY WorkersAreLanes DEF IgnoreRecord, HandlerSteps, KeyOf
<1>2. CASE state[k] \in TerminalStates
  BY <1>2 DEF Pending, PendingStates, TerminalStates
<1>3. CASE w[2] \in {"transfer.fulfilled", "transfer.failed"}
  <2>1. PICK i \in 1 .. Len(outbox[k]) : outbox[k][i].topic = w[2]
    BY <1>1, InHandIsDeliverable
  <2>2. Follows(k) /\ Len(outbox[k]) \in Nat
    BY <1>1, RowsAreTyped DEF KafkaInv, OutboxFollows
  <2>3. HasRows(Len(outbox[k]), state[k])
    BY <2>2 DEF Follows
  <2> HIDE DEF k
  <2>4. Len(outbox[k]) \in 0 .. 5
    BY <2>3 DEF HasRows
  <2>5. \A n \in 0 .. 5 : \A h \in 1 .. n : h \in {1, 2, 3, 4, 5} /\ (h = 5 => n = 5)
    OBVIOUS
  <2>6. i \in {1, 2, 3, 4, 5} /\ (i = 5 => Len(outbox[k]) = 5)
    BY <2>4, <2>5
  <2>7. i = 5
    BY <1>3, <2>1, <2>2, <2>6 DEF Follows, ProviderTopics
  <2>8. state[k] \in TerminalStates
    <3>1. HasRows(5, state[k])
      BY <2>3, <2>6, <2>7
    <3> QED
      BY <3>1 DEF HasRows
  <2> QED
    BY <2>8 DEF Pending, PendingStates, TerminalStates, k
<1> QED
  BY <1>2, <1>3, TopicNames DEF IgnoreRecord, Ignores

\* What leaves the consumer's hands is acknowledged, or no longer matters.
LEMMA DeliveryKept ==
  ASSUME KafkaInv, LedgerInv, [Next]_vars
  PROVE  SentIsDelivered'
<1> DEFINE P == \A e \in published' \union sent' : Pending(e[1]) => e \in inbox' \union due'
<1>1. SentIsDelivered /\ published \union sent \subseteq Written
  BY DEF KafkaInv, EventsAreWritten
<1>2. CASE UNCHANGED vars
  BY <1>1, <1>2 DEF SentIsDelivered, Pending, vars, kafkaVars, ledgerVars
<1>3. ASSUME NEW k \in Keys, (\E c \in Commands : Accept(k, c)) \/ Surroundings(k) PROVE P
  BY <1>1, <1>3 DEF SentIsDelivered, Accept, Surroundings, kafkaVars
<1>4. ASSUME NEW w \in Workers, HandlerStep(w) PROVE P
  <2>1. CASE Transaction(w)
    BY <1>1, <2>1, TransactionClaims DEF SentIsDelivered, Acknowledge, Done
  <2>2. CASE SkipProcessed(w)
    BY <1>1, <2>2 DEF SentIsDelivered, SkipProcessed, Done
  <2>3. CASE IgnoreRecord(w)
    <3>1. at[w] \in HandlerSteps
      BY <2>3 DEF IgnoreRecord, HandlerSteps
    <3>2. ~Pending(InHand(w)[1])
      BY <2>3, <3>1, IgnoredIsSettled, InHandIsDeliverable DEF KeyOf
    <3> QED
      BY <1>1, <2>3, <3>2 DEF SentIsDelivered, IgnoreRecord, Done
  <2>4. CASE ~(Transaction(w) \/ SkipProcessed(w) \/ IgnoreRecord(w))
    BY <1>1, <1>4, <2>4 DEF SentIsDelivered, HandlerStep, Transaction, Deliver, StartHandler,
                            ReadRecord, HandleWithoutFunds, CallProvider, kafkaVars
  <2> QED
    BY <2>1, <2>2, <2>3, <2>4
<1>5. ASSUME NEW w \in Workers, TaskStep(w) \/ WorkerFault(w) PROVE P
  BY <1>1, <1>5 DEF SentIsDelivered, TaskStep, StartExecute, Resolve, Expire, WorkerFault, kafkaVars
<1>6. ASSUME Poll \/ Publish \/ MarkPublished \/ DispatchFails PROVE P
  BY <1>1, <1>6 DEF SentIsDelivered, Poll, Publish, MarkPublished, DispatchFails
<1>7. ASSUME Redeliver \/ Crash \/ ((Scan \/ Recover) /\ UNCHANGED kafkaVars) PROVE P
  BY <1>1, <1>7 DEF SentIsDelivered, Redeliver, Crash, kafkaVars
<1>8. published' \union sent' \subseteq published \union sent \union batch
  <2>1. CASE \E w \in Workers : Transaction(w)
    BY <2>1, TransactionClaims
  <2>2. CASE ~\E w \in Workers : Transaction(w)
    BY <2>2 DEF Next, vars, kafkaVars, Accept, Surroundings, HandlerStep, Transaction, TaskStep,
                WorkerFault, Deliver, SkipProcessed, StartHandler, ReadRecord, IgnoreRecord,
                HandleWithoutFunds, CallProvider, StartExecute, Resolve, Expire, Poll, Publish,
                MarkPublished, DispatchFails, Redeliver, Crash
  <2> QED
    BY <2>1, <2>2
<1>9. published' \union sent' \subseteq Written
  BY <1>8 DEF KafkaInv, EventsAreWritten
<1>10. UNCHANGED vars \/ P
  BY <1>3, <1>4, <1>5, <1>6, <1>7 DEF Next
<1>11. ASSUME P PROVE SentIsDelivered'
  BY <1>9, <1>11, PendingBefore DEF SentIsDelivered
<1> QED
  BY <1>2, <1>10, <1>11

-------------------------------------------------------------------------------
(* KafkaInv is inductive: the handlers *)

\* What handler v is entitled to.
HoldsEvent(v) ==
  at[v] \in HandlerSteps =>
    /\ Deliverable(v) # {}
    /\ at[v] \in CallSteps \union {"ensure", "result"} => v[2] = "transfer.prepared"
    /\ at[v] = "nofunds" => v[2] = "provider.completed"

\* A delivery to another handler stays.
LEMMA DeliverableStays ==
  ASSUME KafkaInv, LedgerInv, [Next]_vars, NEW v \in Workers
  PROVE  /\ due \subseteq due' => Deliverable(v) \subseteq Deliverable(v)'
         /\ \A w \in Workers :
              /\ at[w] \in HandlerSteps /\ w # v
              /\ due' = due \ {InHand(w)}
              => Deliverable(v) \subseteq Deliverable(v)'
<1>1. \A e \in due : Topic(e)' = Topic(e)
  BY EventsStay DEF KafkaInv, EventsAreWritten
<1>2. due \subseteq due' => Deliverable(v) \subseteq Deliverable(v)'
  BY <1>1 DEF Deliverable
<1>3. ASSUME NEW w \in Workers, at[w] \in HandlerSteps, w # v, due' = due \ {InHand(w)}
      PROVE  Deliverable(v) \subseteq Deliverable(v)'
  <2>1. InHand(w) \in Deliverable(w)
    BY <1>3, InHandIsDeliverable
  <2>2. InHand(w) \notin Deliverable(v)
    BY <1>3, <2>1, WorkersAreLanes DEF Deliverable
  <2> QED
    BY <1>1, <1>3, <2>2 DEF Deliverable
<1> QED
  BY <1>2, <1>3

\* Through every step a handler holds an event that is still there to be handled.
LEMMA HoldersKept ==
  ASSUME KafkaInv, LedgerInv, [Next]_vars
  PROVE  HandlersHoldEvents'
<1> SUFFICES ASSUME NEW v \in Workers PROVE HoldsEvent(v)'
  BY DEF HandlersHoldEvents, HoldsEvent
<1>1. HoldsEvent(v) /\ at \in [Workers -> HandlerSteps \union OtherSteps]
  BY DEF AtSteps, KafkaInv, KafkaTypes, HandlersHoldEvents, HoldsEvent
\* The worker goes on as it was, or stops being a handler.
<1>2. ASSUME due \subseteq due', at'[v] \in {at[v]} \union OtherSteps PROVE HoldsEvent(v)'
  <2>1. Deliverable(v) \subseteq Deliverable(v)'
    BY <1>2, DeliverableStays
  <2>2. HandlerSteps \intersect OtherSteps = {}
    BY DEF HandlerSteps, OtherSteps, CallSteps
  <2> QED
    BY <1>1, <1>2, <2>1, <2>2 DEF HoldsEvent
<1>3. CASE UNCHANGED vars
  BY <1>2, <1>3 DEF vars, workerVars, kafkaVars
<1>4. ASSUME NEW k \in Keys, (\E c \in Commands : Accept(k, c)) \/ Surroundings(k)
      PROVE  HoldsEvent(v)'
  <2>1. due' = due /\ at'[v] \in {at[v]} \union OtherSteps
    BY <1>1, <1>4, WorkersHaveKeys
       DEF Accept, Submit, Surroundings, Answered, Begin, Land, Goto, OtherSteps, kafkaVars, workerVars
  <2> QED
    BY <1>2, <2>1
<1>5. ASSUME NEW w \in Workers, HandlerStep(w) PROVE HoldsEvent(v)'
  <2>1. CASE Transaction(w) \/ SkipProcessed(w) \/ IgnoreRecord(w)
    <3>1. at[w] \in HandlerSteps /\ Done(w)
      BY <2>1, TransactionClaims DEF SkipProcessed, IgnoreRecord, HandlerSteps
    <3>2. at' = [u \in Workers |-> IF u = w THEN "idle" ELSE at[u]]
      BY <3>1 DEF Done, End
    <3>3. CASE v = w
      BY <3>2, <3>3 DEF HoldsEvent, HandlerSteps, CallSteps
    <3>4. CASE v # w
      <4>1. Deliverable(v) \subseteq Deliverable(v)'
        BY <3>1, <3>4, DeliverableStays DEF Done
      <4>2. at'[v] = at[v]
        BY <3>2, <3>4
      <4> QED
        BY <1>1, <4>1, <4>2 DEF HoldsEvent
    <3> QED
      BY <3>3, <3>4
  <2>2. CASE Deliver(w)
    <3>1. Deliverable(w) \subseteq Deliverable(w)' /\ Deliverable(w) # {} /\ due' = due
      BY <2>2, DeliverableStays DEF Deliver, kafkaVars
    <3>2. at' = [at EXCEPT ![w] = "check"]
      BY <2>2 DEF Deliver, Goto
    <3> QED
      BY <1>1, <1>2, <3>1, <3>2 DEF HoldsEvent, CallSteps
  <2>3. CASE StartHandler(w) \/ ReadRecord(w) \/ HandleWithoutFunds(w)
    <3>1. due' = due /\ at[w] \in HandlerSteps
      BY <2>3 DEF StartHandler, ReadRecord, HandleWithoutFunds, kafkaVars, HandlerSteps
    <3>2. \/ at' = [at EXCEPT ![w] = "read"]
          \/ at' = [at EXCEPT ![w] = "apply"]
          \/ at' = [at EXCEPT ![w] = "ensure"] /\ w[2] = "transfer.prepared"
          \/ at' = [at EXCEPT ![w] = "nofunds"] /\ w[2] = "provider.completed"
      BY <2>3, TopicNames DEF StartHandler, ReadRecord, HandleWithoutFunds, Goto
    <3>3. Deliverable(v) \subseteq Deliverable(v)'
      BY <3>1, DeliverableStays
    <3> QED
      BY <1>1, <1>2, <3>1, <3>2, <3>3 DEF HoldsEvent, CallSteps
  <2>4. CASE CallProvider(w)
    <3>1. due' = due /\ at[w] \in CallSteps \union {"ensure"}
      BY <2>4 DEF CallProvider, ProviderStep, ReuseVerdict, BeginBurst, Call, ReceiveAnswer,
                  RecordAnswer, RetryLater, GiveUp, LeaveUncertain, kafkaVars, CallSteps
    <3>2. \/ \E step \in CallSteps \union {"result"} : at' = [at EXCEPT ![w] = step]
          \/ at' = [u \in Workers |-> IF u = w THEN "idle" ELSE at[u]]
      BY <2>4 DEF CallProvider, ProviderStep, ReuseVerdict, BeginBurst, Call, ReceiveAnswer,
                  RecordAnswer, RetryLater, GiveUp, LeaveUncertain, Goto, End, CallSteps
    <3>3. Deliverable(v) \subseteq Deliverable(v)'
      BY <3>1, DeliverableStays
    <3>4. CASE v # w
      BY <1>1, <1>2, <3>1, <3>2, <3>4
    <3>5. CASE v = w
      BY <1>1, <3>1, <3>2, <3>3, <3>5 DEF HoldsEvent, HandlerSteps, CallSteps
    <3> QED
      BY <3>4, <3>5
  <2> QED
    BY <1>5, <2>1, <2>2, <2>3, <2>4 DEF HandlerStep, Transaction
<1>6. ASSUME NEW w \in Workers, TaskStep(w) PROVE HoldsEvent(v)'
  <2>1. due' = due /\ at'[v] \in {at[v]} \union OtherSteps
    BY <1>1, <1>6 DEF TaskStep, StartExecute, Resolve, Expire, ReturnToTask, ReturnToClient,
                      PostCallback, RecordDelivery, RecordFailedDelivery, Goto, End, OtherSteps,
                      kafkaVars
  <2> QED
    BY <1>2, <2>1
<1>7. ASSUME NEW w \in Workers, WorkerFault(w) PROVE HoldsEvent(v)'
  <2>1. CASE ReceiveFailure(w) /\ UNCHANGED <<applicationVars, kafkaVars>>
    <3>1. due' = due /\ at[w] = "await" /\ at' = [at EXCEPT ![w] = "record"]
      BY <2>1 DEF ReceiveFailure, Goto, kafkaVars
    <3>2. Deliverable(v) \subseteq Deliverable(v)'
      BY <3>1, DeliverableStays
    <3> QED
      BY <1>1, <3>1, <3>2 DEF HoldsEvent, HandlerSteps, CallSteps
  <2>2. CASE ~(ReceiveFailure(w) /\ UNCHANGED <<applicationVars, kafkaVars>>)
    <3>1. due' = due /\ at'[v] \in {at[v]} \union OtherSteps
      BY <1>1, <1>7, <2>2 DEF WorkerFault, ProviderFault, ReceiveTornAnswer, PostCallbackFails,
                              Throw, Goto, End, OtherSteps, kafkaVars
    <3> QED
      BY <1>2, <3>1
  <2> QED
    BY <2>1, <2>2
<1>8. CASE Poll \/ Publish \/ MarkPublished \/ DispatchFails \/ Redeliver
  <2>1. due \subseteq due' /\ at'[v] \in {at[v]} \union OtherSteps
    BY <1>1, <1>8 DEF Poll, Publish, MarkPublished, DispatchFails, Redeliver, End, OtherSteps, workerVars
  <2> QED
    BY <1>2, <2>1
<1>9. CASE ((Scan \/ Recover) /\ UNCHANGED kafkaVars) \/ Crash
  <2>1. due \subseteq due' /\ at'[v] \in {at[v]} \union OtherSteps
    BY <1>1, <1>9 DEF Scan, Recover, Crash, ProcessDies, End, OtherSteps, workerVars, kafkaVars
  <2> QED
    BY <1>2, <2>1
<1> QED
  BY <1>3, <1>4, <1>5, <1>6, <1>7, <1>8, <1>9 DEF Next

\* The types of the rows, the outbox and the handlers, step by step.
LEMMA TypesKept ==
  ASSUME KafkaInv, LedgerInv, LedgerInv', [Next]_vars
  PROVE  KafkaTypes'
<1> DEFINE P == /\ at' \in [Workers -> AtSteps]
                /\ seen' \in [Workers -> States]
                /\ heard' \in [Workers -> Causes \union {NoVerdict}]
                /\ verdict' \in [Keys -> Causes \union {NoVerdict}]
                /\ attempts' \in [Keys -> SUBSET Causes]
                /\ wire' \in [Keys -> Nat]
                /\ accepted' \in SUBSET Keys
                /\ candidates' \in SUBSET (Keys \X {"PENDING", "COMPLETED", "FAILED"})
                /\ told' \in [Keys -> SUBSET {"COMPLETED", "FAILED"}]
<1>0. {"idle", "created", "queued", "dispatch", "wait", "return", "post", "row", "retry",
       "check", "read", "apply", "nofunds", "ensure", "result", "call", "await", "record"}
        \subseteq AtSteps
  BY DEF AtSteps, HandlerSteps, OtherSteps, CallSteps
<1>1. /\ at \in [Workers -> AtSteps]
      /\ seen \in [Workers -> States]
      /\ heard \in [Workers -> Causes \union {NoVerdict}]
      /\ verdict \in [Keys -> Causes \union {NoVerdict}]
      /\ attempts \in [Keys -> SUBSET Causes]
      /\ wire \in [Keys -> Nat]
      /\ accepted \in SUBSET Keys
      /\ candidates \in SUBSET (Keys \X {"PENDING", "COMPLETED", "FAILED"})
      /\ told \in [Keys -> SUBSET {"COMPLETED", "FAILED"}]
      /\ state \in [Keys -> States]
      /\ "NONE" \in States
  BY DEF KafkaInv, KafkaTypes, LedgerInv, LedgerTypeOK, States
<1> USE <1>0, WorkersHaveKeys, OutcomesAreCauses
    DEF Goto, workerVars, providerVars, applicationVars
<1>2. ASSUME UNCHANGED vars PROVE P
  BY <1>1, <1>2 DEF vars
<1>3. ASSUME NEW k \in Keys, NEW c \in Commands, Accept(k, c) PROVE P
  BY <1>1, <1>3 DEF Accept, Submit
<1>4. ASSUME NEW k \in Keys, Surroundings(k) PROVE P
  <2>1. CASE Answered(k)
    BY <1>1, <2>1 DEF Answered, PublicStatus, PendingStates, TerminalStates
  <2>2. CASE Begin(k) /\ ClientMode = "sync"
    BY <1>1, <2>2 DEF Begin
  <2>3. CASE Begin(k) /\ ClientMode # "sync"
    BY <1>1, <2>3 DEF Begin
  <2>4. CASE Land(k) /\ UNCHANGED <<applicationVars, kafkaVars>>
    BY <1>1, <2>4 DEF Land
  <2> QED
    BY <1>4, <2>1, <2>2, <2>3, <2>4 DEF Surroundings
<1>5. ASSUME NEW w \in Workers, HandlerStep(w) PROVE P
  <2>1. CASE Transaction(w) \/ SkipProcessed(w) \/ IgnoreRecord(w)
    <3>1. End({w}) /\ UNCHANGED <<providerVars, applicationVars>>
      BY <2>1, TransactionClaims DEF SkipProcessed, IgnoreRecord, Done
    <3> QED
      BY <1>1, <3>1 DEF End
  <2>2. CASE Deliver(w) \/ StartHandler(w) \/ ReadRecord(w) \/ HandleWithoutFunds(w)
    BY <1>1, <2>2 DEF Deliver, StartHandler, ReadRecord, HandleWithoutFunds
  <2>3. CASE CallProvider(w)
    <3>1. CASE ReuseVerdict(w) \/ BeginBurst(w) \/ Call(w) \/ ReceiveAnswer(w)
      BY <1>1, <2>3, <3>1 DEF CallProvider, ReuseVerdict, BeginBurst, Call, ReceiveAnswer
    <3>2. CASE RecordAnswer(w) \/ RetryLater(w) \/ GiveUp(w) \/ LeaveUncertain(w)
      BY <1>1, <2>3, <3>2 DEF CallProvider, RecordAnswer, RetryLater, GiveUp, LeaveUncertain,
                              RecordOutcome, SaveVerdict, End
    <3> QED
      BY <2>3, <3>1, <3>2 DEF CallProvider, ProviderStep
  <2> QED
    BY <1>5, <2>1, <2>2, <2>3 DEF HandlerStep, Transaction
<1>6. ASSUME NEW w \in Workers, TaskStep(w) PROVE P
  <2>1. CASE StartExecute(w) \/ Resolve(w) \/ Expire(w)
    BY <1>1, <2>1 DEF StartExecute, Resolve, Expire, End
  <2>2. CASE ReturnToTask(w) \/ RecordFailedDelivery(w)
    BY <1>1, <2>2 DEF ReturnToTask, RecordFailedDelivery, End
  <2>3. CASE ReturnToClient(w) \/ PostCallback(w) \/ RecordDelivery(w)
    BY <1>1, <2>3 DEF ReturnToClient, PostCallback, RecordDelivery, Tell, End,
                      KafkaInv, SettledRecords, PublicStatus, PendingStates, TerminalStates
  <2> QED
    BY <1>6, <2>1, <2>2, <2>3 DEF TaskStep
<1>7. ASSUME NEW w \in Workers, WorkerFault(w) PROVE P
  <2>1. CASE ProviderFault(w) /\ UNCHANGED <<applicationVars, kafkaVars>>
    BY <1>1, <2>1 DEF ProviderFault, ReceiveFailure, ReceiveTornAnswer, End
  <2>2. CASE PostCallbackFails(w)
    BY <1>1, <2>2 DEF PostCallbackFails, Tell, KafkaInv, SettledRecords, PublicStatus, PendingStates,
                      TerminalStates
  <2>3. CASE Throw(w)
    BY <1>1, <2>3 DEF Throw, End
  <2> QED
    BY <1>7, <2>1, <2>2, <2>3 DEF WorkerFault
<1>8. ASSUME Poll \/ Publish \/ MarkPublished \/ DispatchFails \/ Redeliver PROVE P
  BY <1>1, <1>8 DEF Poll, Publish, MarkPublished, DispatchFails, Redeliver, End
<1>9. ASSUME Scan \/ Recover \/ Crash PROVE P
  <2>1. CASE Scan
    BY <1>1, <2>1 DEF Scan, IsCandidate, Pending, PublicStatus, PendingStates, TerminalStates
  <2>2. CASE Recover
    BY <1>1, <2>2 DEF Recover
  <2>3. CASE Crash
    BY <1>1, <2>3 DEF Crash, ProcessDies, End
  <2> QED
    BY <1>9, <2>1, <2>2, <2>3
<1>10. P
  BY <1>2, <1>3, <1>4, <1>5, <1>6, <1>7, <1>8, <1>9 DEF Next
<1> QED
  BY <1>10, OutboxGrows DEF KafkaTypes

\* The provider is called for a transfer by one handler at a time.
LEMMA OneBurst ==
  ASSUME KafkaInv, NEW v \in Workers, NEW w \in Workers, KeyOf(v) = KeyOf(w),
         at[v] \in CallSteps \union {"ensure", "result"},
         at[w] \in CallSteps \union {"ensure", "result"}
  PROVE  v = w
<1>1. v[2] = "transfer.prepared" /\ w[2] = "transfer.prepared"
  BY DEF KafkaInv, HandlersHoldEvents, HandlerSteps
<1> QED
  BY <1>1, WorkersAreLanes DEF KeyOf

\* The burst of w records its attempt and saves the outcome as the result.
Saves(w) ==
  /\ at[w] = "record"
  /\ heard[w] \in Causes \ {Unknown}
  /\ RecordOutcome(w)
  /\ SaveVerdict(w)
  /\ at' = [at EXCEPT ![w] = "result"]
  /\ UNCHANGED heard

\* What a step does to the provider's stores.
StoreEffect ==
  /\ accepted \subseteq accepted'
  /\ \/ UNCHANGED <<verdict, attempts>>
     \/ \E w \in Workers : at[w] = "record" /\ RecordOutcome(w) /\ (UNCHANGED verdict \/ Saves(w))

\* What each step does to the store, as one of few cases.
LEMMA StoreEffects ==
  ASSUME KafkaInv, LedgerInv, [Next]_vars
  PROVE  StoreEffect
<1>1. ASSUME NEW w \in Workers, HandlerStep(w) PROVE StoreEffect
  <2>1. CASE Transaction(w)
    BY <2>1, TransactionClaims DEF StoreEffect, providerVars
  <2>2. CASE CallProvider(w)
    <3>1. CASE RecordAnswer(w) \/ GiveUp(w)
      BY <3>1, OutcomesAreCauses DEF StoreEffect, RecordAnswer, GiveUp, Uncertain, Saves, Goto
    <3>2. CASE RetryLater(w) \/ LeaveUncertain(w)
      BY <3>2 DEF StoreEffect, RetryLater, LeaveUncertain
    <3>3. CASE ReuseVerdict(w) \/ BeginBurst(w) \/ Call(w) \/ ReceiveAnswer(w)
      BY <3>3 DEF StoreEffect, ReuseVerdict, BeginBurst, Call, ReceiveAnswer, providerVars
    <3> QED
      BY <2>2, <3>1, <3>2, <3>3 DEF CallProvider, ProviderStep
  <2>3. CASE ~(Transaction(w) \/ CallProvider(w))
    BY <1>1, <2>3 DEF StoreEffect, HandlerStep, Transaction, Deliver, SkipProcessed, StartHandler,
                      ReadRecord, IgnoreRecord, HandleWithoutFunds, providerVars
  <2> QED
    BY <2>1, <2>2, <2>3
<1>2. CASE ~\E w \in Workers : HandlerStep(w)
  <2>1. accepted \subseteq accepted' /\ UNCHANGED <<verdict, attempts>>
    BY <1>2 DEF Next, vars, Accept, Submit, Surroundings, Answered, Begin, Land, TaskStep,
                StartExecute, Resolve, Expire, ReturnToTask, ReturnToClient, PostCallback,
                RecordDelivery, RecordFailedDelivery, WorkerFault, ProviderFault, ReceiveFailure,
                ReceiveTornAnswer, PostCallbackFails, Throw, Poll, Publish, MarkPublished,
                DispatchFails, Redeliver, Scan, Recover, Crash, ProcessDies, providerVars
  <2> QED
    BY <2>1 DEF StoreEffect
<1> QED
  BY <1>1, <1>2

\* A saved result is final.
LEMMA VerdictsStay ==
  ASSUME KafkaInv, LedgerInv, [Next]_vars
  PROVE  \A k \in Keys : verdict[k] # NoVerdict => verdict'[k] = verdict[k]
<1>1. ASSUME NEW w \in Workers, Saves(w), NEW k \in Keys, verdict[k] # NoVerdict
      PROVE  verdict'[k] = verdict[k]
  <2>1. verdict[KeyOf(w)] = NoVerdict
    BY <1>1 DEF Saves, KafkaInv, BurstsAreAlone, CallSteps
  <2> QED
    BY <1>1, <2>1 DEF Saves, SaveVerdict, KafkaInv, KafkaTypes
<1> QED
  BY <1>1, StoreEffects DEF StoreEffect

\* Attempts are recorded truly, before anything rests on them.
LEMMA OutcomesKept ==
  ASSUME KafkaInv, LedgerInv, [Next]_vars
  PROVE  RecordedOutcomes'
<1> USE DEF KafkaInv
<1>1. /\ RecordedOutcomes /\ BurstsAreAlone
      /\ verdict \in [Keys -> Causes \union {NoVerdict}]
      /\ attempts \in [Keys -> SUBSET Causes]
  BY DEF KafkaTypes
<1>2. accepted \subseteq accepted'
  BY StoreEffects DEF StoreEffect
<1>3. CASE UNCHANGED <<verdict, attempts>>
  BY <1>1, <1>2, <1>3 DEF RecordedOutcomes
<1>4. ASSUME NEW w \in Workers, RecordOutcome(w), UNCHANGED verdict \/ Saves(w)
      PROVE  RecordedOutcomes'
  <2>1. heard[w] = "COMPLETED" => KeyOf(w) \in accepted /\ Answer[KeyOf(w)] = "COMPLETED"
    BY <1>1 DEF BurstsAreAlone
  <2>2. \A k \in Keys : attempts[k] \subseteq attempts'[k]
    BY <1>1, <1>4 DEF RecordOutcome
  <2>3. ASSUME NEW k \in Keys, "COMPLETED" \in attempts'[k]
        PROVE  k \in accepted /\ Answer[k] = "COMPLETED"
    BY <1>1, <1>4, <2>1, <2>3 DEF RecordOutcome, RecordedOutcomes
  <2>4. ASSUME NEW k \in Keys, verdict'[k] # NoVerdict
        PROVE  verdict'[k] \in attempts'[k] \ {Unknown}
    <3>1. CASE verdict'[k] = verdict[k]
      BY <1>1, <2>2, <2>4, <3>1 DEF RecordedOutcomes
    <3>2. CASE verdict'[k] # verdict[k]
      <4>1. Saves(w) /\ k = KeyOf(w) /\ verdict'[k] = heard[w]
        BY <1>1, <1>4, <3>2 DEF Saves, SaveVerdict
      <4> QED
        BY <1>1, <1>4, <4>1 DEF Saves, RecordOutcome
    <3> QED
      BY <3>1, <3>2
  <2> QED
    BY <1>2, <2>3, <2>4 DEF RecordedOutcomes
<1> QED
  BY <1>3, <1>4, StoreEffects DEF StoreEffect

\* The fourth row is written with the saved result.
LEMMA CarriedKept ==
  ASSUME KafkaInv, LedgerInv, [Next]_vars
  PROVE  EventsCarryVerdicts'
<1> SUFFICES ASSUME NEW k \in Keys, Len(outbox'[k]) >= 4
             PROVE  /\ verdict'[k] # NoVerdict
                    /\ outbox'[k][4].result = verdict'[k]
                    /\ outbox'[k][4].topic = ResultTopic(verdict'[k])
  BY DEF EventsCarryVerdicts, ResultTopic
<1> DEFINE n == Len(outbox[k])
<1>1. n \in Nat /\ Len(outbox'[k]) \in {n, n + 1} /\ \A i \in 1 .. n : outbox'[k][i] = outbox[k][i]
  BY OutboxGrows, RowsAreTyped DEF KafkaInv
<1> HIDE DEF n
<1>2. CASE n >= 4
  <2>1. verdict[k] # NoVerdict /\ outbox[k][4].result = verdict[k]
        /\ outbox[k][4].topic = ResultTopic(verdict[k])
    BY <1>2 DEF KafkaInv, EventsCarryVerdicts, n
  <2>2. outbox'[k][4] = outbox[k][4]
    BY <1>1, <1>2
  <2> QED
    BY <2>1, <2>2, VerdictsStay
<1>3. CASE ~(n >= 4)
  <2>1. n = 3 /\ Len(outbox'[k]) = n + 1
    BY <1>1, <1>3
  <2>2. ~(outbox' = outbox)
    BY <1>1, <2>1 DEF n
  <2>3. ASSUME NEW j \in Keys, NEW c \in Commands, Accept(j, c) PROVE FALSE
    <3>1. state[j] = "NONE" /\ Emit(j, "transfer.received", NoVerdict)
      BY <2>3, TopicNames DEF Accept, Submit, Create
    <3>2. HasRows(Len(outbox[j]), "NONE")
      BY <3>1, AppendedRow
    <3>3. Len(outbox[j]) = 0
      BY <3>2 DEF HasRows, TerminalStates
    <3>4. j = k
      <4>1. j # k => outbox'[k] = outbox[k]
        BY <3>1, EmitAppends, TopicNames DEF KafkaInv
      <4> QED
        BY <1>1, <2>1, <4>1 DEF n
    <3> QED
      BY <2>1, <3>3, <3>4 DEF n
  <2>4. PICK w \in Workers : Transaction(w)
    BY <2>2, <2>3, StepKinds
  <2>5. Claims(w) /\ verdict' = verdict
    BY <2>2, <2>4, TransactionClaims DEF providerVars
  <2>6. PICK t \in Topics : \E r \in Causes \union {NoVerdict} : Emit(KeyOf(w), t, r)
    BY <2>5, ClaimEmits
  <2>7. KeyOf(w) = k
    <3>1. k # KeyOf(w) => outbox'[k] = outbox[k]
      BY <2>6, EmitAppends, WorkersHaveKeys DEF KafkaInv
    <3> QED
      BY <1>1, <2>1, <3>1 DEF n
  <2>8. verdict[k] # NoVerdict /\ Emit(k, ResultTopic(verdict[k]), verdict[k])
    BY SMTT(30), <2>1, <2>5, <2>7 DEF Claims, n
  <2>9. ResultTopic(verdict[k]) \in Topics /\ verdict[k] \in Causes \union {NoVerdict}
    BY TopicNames DEF ResultTopic, KafkaInv, KafkaTypes
  <2>10. outbox'[k][n + 1] = [topic |-> ResultTopic(verdict[k]), result |-> verdict[k]]
    BY <2>8, <2>9, EmitAppends DEF KafkaInv, n
  <2> QED
    BY <2>1, <2>5, <2>8, <2>10
<1> QED
  BY <1>2, <1>3

\* A settlement rests on the saved result.
LEMMA SettlementsKept ==
  ASSUME KafkaInv, LedgerInv, [Next]_vars
  PROVE  SettledByVerdict'
<1> SUFFICES ASSUME NEW k \in Keys
             PROVE  /\ state'[k] = "FULFILLED" => verdict'[k] = "COMPLETED"
                    /\ state'[k] = "FAILED" =>
                         \/ verdict'[k] = cause'[k] /\ verdict'[k] # "COMPLETED"
                         \/ verdict'[k] = "COMPLETED" /\ cause'[k] = "INSUFFICIENT_FUNDS"
  BY DEF SettledByVerdict
<1>1. state \in [Keys -> States] /\ cause \in [Keys -> Causes \union {NoCause, "INSUFFICIENT_FUNDS"}]
  BY DEF LedgerInv, LedgerTypeOK
<1>2. CASE state[k] \in TerminalStates
  <2>1. state'[k] = state[k] /\ cause'[k] = cause[k]
    BY <1>2, SettledStay
  <2>2. HasRows(Len(outbox[k]), state[k])
    BY AppendedRow
  <2>3. Len(outbox[k]) = 5
    BY <1>2, <2>2 DEF HasRows, TerminalStates
  <2>4. 5 >= 4
    OBVIOUS
  <2>5. verdict[k] # NoVerdict
    BY <2>3, <2>4 DEF KafkaInv, EventsCarryVerdicts
  <2>6. verdict'[k] = verdict[k]
    BY <2>5, VerdictsStay
  <2> QED
    BY <2>1, <2>6 DEF KafkaInv, SettledByVerdict
<1>3. CASE state[k] \notin TerminalStates
  <2>1. CASE state'[k] = state[k]
    BY <1>3, <2>1 DEF TerminalStates
  <2>2. CASE \E j \in Keys : \E c \in Commands : Accept(j, c)
    BY <1>1, <1>3, <2>2 DEF Accept, Submit, Create, TerminalStates
  <2>3. ASSUME state'[k] # state[k], NEW w \in Workers, Transaction(w)
        PROVE  /\ state'[k] = "FULFILLED" => verdict'[k] = "COMPLETED"
               /\ state'[k] = "FAILED" =>
                    \/ verdict'[k] = cause'[k] /\ verdict'[k] # "COMPLETED"
                    \/ verdict'[k] = "COMPLETED" /\ cause'[k] = "INSUFFICIENT_FUNDS"
    <3>1. Claims(w) /\ verdict' = verdict
      BY <2>3, TransactionClaims DEF providerVars, ledgerVars
    <3> DEFINE j == KeyOf(w)
    <3>2. j \in Keys
      BY WorkersHaveKeys
    <3>3. \A next, why : Advance(j, next, why) =>
            state' = [state EXCEPT ![j] = next] /\ cause' = [cause EXCEPT ![j] = why]
      BY DEF Advance
    <3>4. Post(j) => state' = [state EXCEPT ![j] = "FULFILLED"]
      BY DEF Post
    <3>5. \/ \E next \in {"VALIDATED", "PREPARED"} : state' = [state EXCEPT ![j] = next]
          \/ state' = [state EXCEPT ![j] = "FULFILLED"] /\ verdict[j] = "COMPLETED"
          \/ /\ state' = [state EXCEPT ![j] = "FAILED"]
             /\ \E why : /\ cause' = [cause EXCEPT ![j] = why]
                         /\ \/ why = verdict[j] /\ verdict[j] # "COMPLETED"
                            \/ why = "INSUFFICIENT_FUNDS" /\ verdict[j] = "COMPLETED"
          \/ state' = state
      BY <3>1, <3>3, <3>4 DEF Claims, ledgerVars
    <3> HIDE DEF j
    <3>6. k = j
      BY <1>1, <2>3, <3>2, <3>5
    <3> QED
      BY <1>1, <2>3, <3>1, <3>2, <3>5, <3>6
  <2> QED
    BY <2>1, <2>2, <2>3, StepKinds DEF ledgerVars
<1> QED
  BY <1>2, <1>3

\* What a step does to worker v's place in its burst.
BurstEffect(v) ==
  /\ at'[v] \in CallSteps =>
       at[v] \in CallSteps \/ (at[v] = "ensure" /\ verdict[KeyOf(v)] = NoVerdict)
  /\ at'[v] = "result" =>
       \/ at[v] = "result" /\ heard'[v] = heard[v]
       \/ heard'[v] = verdict[KeyOf(v)] /\ verdict[KeyOf(v)] # NoVerdict
       \/ Saves(v)
  /\ \/ heard'[v] \in {heard[v], NoVerdict, verdict[KeyOf(v)]} \union FailureCodes
     \/ heard'[v] = Answer[KeyOf(v)] /\ KeyOf(v) \in accepted

\* What each step does to the bursts, as one of few cases.
LEMMA BurstEffects ==
  ASSUME KafkaInv, LedgerInv, [Next]_vars, NEW v \in Workers
  PROVE  BurstEffect(v)
<1>1. at \in [Workers -> AtSteps] /\ heard \in [Workers -> Causes \union {NoVerdict}]
  BY DEF KafkaInv, KafkaTypes
\* The steps outside a burst.
<1>2. ASSUME at'[v] \in {at[v]} \union (AtSteps \ (CallSteps \union {"result"})),
             at'[v] = at[v] => heard'[v] = heard[v],
             heard'[v] \in {heard[v], NoVerdict}
      PROVE  BurstEffect(v)
  BY <1>2 DEF BurstEffect
<1>3. {"idle", "created", "queued", "dispatch", "wait", "return", "post", "row", "retry",
       "check", "read", "apply", "nofunds", "ensure"} \subseteq AtSteps \ (CallSteps \union {"result"})
  BY DEF AtSteps, HandlerSteps, OtherSteps, CallSteps
<1> HIDE DEF CallSteps
<1>4. CASE UNCHANGED vars
  BY <1>2, <1>4 DEF vars, workerVars
<1>5. ASSUME NEW k \in Keys, (\E c \in Commands : Accept(k, c)) \/ Surroundings(k)
      PROVE  BurstEffect(v)
  <2>1. /\ heard' = heard
        /\ at'[v] \in {at[v], "created", "queued", "idle"}
    BY <1>1, <1>5, WorkersHaveKeys
       DEF Accept, Submit, Surroundings, Answered, Begin, Land, Goto, workerVars
  <2> QED
    BY <1>2, <1>3, <2>1
<1>6. ASSUME NEW w \in Workers, End({w}) PROVE BurstEffect(v)
  <2>1. /\ at'[v] \in {at[v], "idle"} /\ heard'[v] \in {heard[v], NoVerdict}
        /\ v # w => at'[v] = at[v] /\ heard'[v] = heard[v]
        /\ v = w => at'[v] = "idle"
    BY <1>6 DEF End
  <2>2. "idle" \notin CallSteps \union {"result"}
    BY <1>3
  <2> QED
    BY <2>1, <2>2 DEF BurstEffect
<1>7. ASSUME NEW w \in Workers, HandlerStep(w) PROVE BurstEffect(v)
  <2>1. CASE Transaction(w) \/ SkipProcessed(w) \/ IgnoreRecord(w)
    BY <1>6, <2>1, TransactionClaims DEF SkipProcessed, IgnoreRecord, Done
  <2>2. CASE Deliver(w) \/ StartHandler(w) \/ ReadRecord(w) \/ HandleWithoutFunds(w)
    <3>1. heard' = heard /\ at'[v] \in {at[v], "check", "read", "ensure", "apply", "nofunds"}
      BY <1>1, <2>2 DEF Deliver, StartHandler, ReadRecord, HandleWithoutFunds, Goto
    <3> QED
      BY <1>2, <1>3, <3>1
  <2>3. CASE CallProvider(w)
    <3>1. CASE v # w
      <4>1. at'[v] = at[v] /\ heard'[v] = heard[v]
        BY <1>1, <2>3, <3>1 DEF CallProvider, ProviderStep, ReuseVerdict, BeginBurst, Call,
              ReceiveAnswer, RecordAnswer, RetryLater, GiveUp, LeaveUncertain, Goto, End
      <4> QED
        BY <1>2, <4>1
    <3>2. CASE v = w /\ (ReuseVerdict(w) \/ BeginBurst(w) \/ Call(w) \/ ReceiveAnswer(w))
      BY <1>1, <3>2 DEF BurstEffect, ReuseVerdict, BeginBurst, Call, ReceiveAnswer, Goto, CallSteps
    <3>3. CASE v = w /\ (RecordAnswer(w) \/ RetryLater(w) \/ GiveUp(w))
      BY <1>1, <3>3, OutcomesAreCauses
         DEF BurstEffect, RecordAnswer, RetryLater, GiveUp, Uncertain, Goto, CallSteps, Saves
    <3>4. CASE LeaveUncertain(w)
      BY <1>6, <3>4 DEF LeaveUncertain
    <3> QED
      BY <2>3, <3>1, <3>2, <3>3, <3>4 DEF CallProvider, ProviderStep
  <2> QED
    BY <1>7, <2>1, <2>2, <2>3 DEF HandlerStep, Transaction
<1>8. ASSUME NEW w \in Workers, TaskStep(w) PROVE BurstEffect(v)
  <2>1. CASE Expire(w) \/ ReturnToClient(w) \/ RecordDelivery(w)
    BY <1>6, <2>1 DEF Expire, ReturnToClient, RecordDelivery
  <2>2. CASE RecordFailedDelivery(w) /\ End({w})
    BY <1>6, <2>2
  <2>3. CASE \/ StartExecute(w) \/ Resolve(w) \/ ReturnToTask(w) \/ PostCallback(w)
             \/ (RecordFailedDelivery(w) /\ ~End({w}))
    <3>1. \/ heard' = heard /\ at'[v] \in {at[v], "dispatch", "wait", "return", "post", "row"}
          \/ at' = [at EXCEPT ![w] = "post"] /\ heard' = [heard EXCEPT ![w] = NoVerdict]
      BY <1>1, <2>3 DEF StartExecute, Resolve, ReturnToTask, PostCallback, RecordFailedDelivery, Goto
    <3>2. /\ at'[v] \in {at[v], "dispatch", "wait", "return", "post", "row"}
          /\ heard'[v] \in {heard[v], NoVerdict}
          /\ at'[v] = "post" \/ heard'[v] = heard[v]
      BY <1>1, <3>1
    <3> QED
      BY <1>3, <3>2 DEF BurstEffect
  <2> QED
    BY <1>8, <2>1, <2>2, <2>3 DEF TaskStep
<1>9. ASSUME NEW w \in Workers, WorkerFault(w) PROVE BurstEffect(v)
  <2>1. CASE ReceiveFailure(w) /\ UNCHANGED <<applicationVars, kafkaVars>>
    BY <1>1, <2>1 DEF BurstEffect, ReceiveFailure, Goto, CallSteps
  <2>2. CASE (ReceiveTornAnswer(w) /\ UNCHANGED <<applicationVars, kafkaVars>>) \/ Throw(w)
    BY <1>6, <2>2 DEF ReceiveTornAnswer, Throw
  <2>3. CASE PostCallbackFails(w)
    <3>1. heard' = heard /\ at'[v] \in {at[v], "retry"}
      BY <1>1, <2>3 DEF PostCallbackFails, Goto
    <3> QED
      BY <1>2, <1>3, <3>1
  <2> QED
    BY <1>9, <2>1, <2>2, <2>3 DEF WorkerFault, ProviderFault
<1>10. CASE Poll \/ Publish \/ MarkPublished \/ DispatchFails \/ Redeliver
  <2>1. /\ at'[v] \in {at[v], "wait", "idle"} /\ heard'[v] \in {heard[v], NoVerdict}
        /\ at'[v] \in {"wait", "idle"} \/ heard'[v] = heard[v]
    BY <1>1, <1>10 DEF Poll, Publish, MarkPublished, DispatchFails, Redeliver, End, workerVars
  <2> QED
    BY <1>3, <2>1 DEF BurstEffect
<1>11. CASE ((Scan \/ Recover) /\ UNCHANGED kafkaVars) \/ Crash
  <2>1. /\ at'[v] \in {at[v], "queued", "post", "idle"} /\ heard'[v] \in {heard[v], NoVerdict}
        /\ at'[v] = "idle" \/ heard'[v] = heard[v]
    BY <1>1, <1>11 DEF Scan, Recover, Crash, ProcessDies, End, workerVars
  <2> QED
    BY <1>3, <2>1 DEF BurstEffect
<1> QED
  BY <1>4, <1>5, <1>7, <1>8, <1>9, <1>10, <1>11 DEF Next

\* A burst calls only for a payment without a verdict, and ends with the verdict stored.
LEMMA BurstsKept ==
  ASSUME KafkaInv, LedgerInv, [Next]_vars
  PROVE  BurstsAreAlone'
<1> SUFFICES ASSUME NEW v \in Workers
             PROVE  /\ at'[v] \in CallSteps => verdict'[KeyOf(v)] = NoVerdict
                    /\ at'[v] = "result" =>
                         heard'[v] = verdict'[KeyOf(v)] /\ heard'[v] # NoVerdict
                    /\ heard'[v] = "COMPLETED" =>
                         KeyOf(v) \in accepted' /\ Answer[KeyOf(v)] = "COMPLETED"
  BY DEF BurstsAreAlone
<1> DEFINE k == KeyOf(v)
<1>1. /\ k \in Keys /\ accepted \subseteq accepted'
      /\ verdict \in [Keys -> Causes \union {NoVerdict}]
      /\ at \in [Workers -> AtSteps]
  BY WorkersHaveKeys, StoreEffects DEF StoreEffect, KafkaInv, KafkaTypes
<1>2. /\ at[v] \in CallSteps => verdict[k] = NoVerdict
      /\ at[v] = "result" => heard[v] = verdict[k] /\ heard[v] # NoVerdict
      /\ heard[v] = "COMPLETED" => k \in accepted /\ Answer[k] = "COMPLETED"
  BY DEF KafkaInv, BurstsAreAlone
<1>3. ASSUME at'[v] \in CallSteps PROVE verdict'[k] = NoVerdict
  <2>1. verdict[k] = NoVerdict /\ at[v] \in CallSteps \union {"ensure"}
    BY <1>2, <1>3, BurstEffects DEF BurstEffect
  <2>2. ASSUME NEW w \in Workers, Saves(w), KeyOf(w) = k PROVE FALSE
    <3>1. v = w
      BY <2>1, <2>2, OneBurst DEF Saves, CallSteps
    <3>2. at'[v] = "result"
      BY <1>1, <2>2, <3>1 DEF Saves
    <3> QED
      BY <1>3, <3>2 DEF CallSteps
  <2>3. \A w \in Workers : Saves(w) => verdict'[k] = verdict[k]
    BY <1>1, <2>2 DEF Saves, SaveVerdict
  <2> QED
    BY <2>1, <2>3, StoreEffects DEF StoreEffect
<1>4. ASSUME at'[v] = "result" PROVE heard'[v] = verdict'[k] /\ heard'[v] # NoVerdict
  <2>1. CASE Saves(v)
    BY <1>1, <2>1, OutcomesAreCauses DEF Saves, SaveVerdict
  <2>2. CASE ~Saves(v)
    BY <1>1, <1>2, <1>4, <2>2, BurstEffects, VerdictsStay DEF BurstEffect
  <2> QED
    BY <2>1, <2>2
<1>5. ASSUME heard'[v] = "COMPLETED" PROVE k \in accepted' /\ Answer[k] = "COMPLETED"
  <2>1. verdict[k] = "COMPLETED" => k \in accepted /\ Answer[k] = "COMPLETED"
    BY <1>1, OutcomesAreCauses DEF KafkaInv, RecordedOutcomes
  <2> QED
    BY <1>1, <1>2, <1>5, <2>1, BurstEffects, OutcomesAreCauses DEF BurstEffect
<1> QED
  BY <1>3, <1>4, <1>5

\* A settled record in hand is the row, and only it is told.
LEMMA RecordsKept ==
  ASSUME KafkaInv, LedgerInv, LedgerInv', [Next]_vars
  PROVE  SettledRecords' /\ OneOutcomeTold'
<1> DEFINE P == SettledRecords' /\ OneOutcomeTold'
           Handed == {"return", "post", "row", "retry"}
<1>1. /\ at \in [Workers -> AtSteps]
      /\ seen \in [Workers -> States]
      /\ told \in [Keys -> SUBSET {"COMPLETED", "FAILED"}]
      /\ candidates \in SUBSET (Keys \X {"PENDING", "COMPLETED", "FAILED"})
      /\ state \in [Keys -> States] /\ state' \in [Keys -> States]
      /\ SettledRecords /\ OneOutcomeTold
      /\ "NONE" \notin TerminalStates
  BY DEF KafkaInv, KafkaTypes, LedgerInv, LedgerTypeOK, TerminalStates
<1> USE WorkersHaveKeys, SettledStay
    DEF SettledRecords, OneOutcomeTold, PublicStatus, TerminalStates, PendingStates, States,
        Goto, workerVars, applicationVars
\* What is in hand and what is told stays, or is dropped.
<1>2. ASSUME \A w \in Workers :
               \/ /\ seen'[w] = seen[w]
                  /\ at'[w] \in {at[w]} \union (AtSteps \ Handed)
               \/ seen'[w] = "NONE" /\ at'[w] \notin Handed,
             candidates' \subseteq candidates, told' = told
      PROVE  P
  BY <1>1, <1>2
<1>3. {"idle", "created", "queued", "dispatch", "wait",
       "check", "read", "apply", "nofunds", "ensure", "result", "call", "await", "record"}
        \subseteq AtSteps \ Handed
  BY DEF AtSteps, HandlerSteps, OtherSteps, CallSteps
<1>same. ASSUME UNCHANGED <<at, seen, candidates, told>> PROVE P
  <2>1. \A w \in Workers : seen'[w] = seen[w] /\ at'[w] = at[w]
    BY <1>same
  <2>2. candidates' \subseteq candidates /\ told' = told
    BY <1>same
  <2> QED
    BY <1>1, <1>2, <2>1, <2>2
<1>4. CASE UNCHANGED vars
  <2>1. UNCHANGED <<at, seen, candidates, told>>
    BY <1>4 DEF vars
  <2> QED
    BY <1>same, <2>1
<1>5. ASSUME NEW k \in Keys, NEW c \in Commands, Accept(k, c) PROVE P
  BY <1>1, <1>2, <1>3, <1>5 DEF Accept, Submit
<1>6. ASSUME NEW k \in Keys, Surroundings(k) PROVE P
  <2>1. CASE Answered(k)
    BY <1>1, <2>1 DEF Answered
  <2>2. CASE Begin(k)
    BY <1>1, <1>2, <1>3, <2>2 DEF Begin
  <2>3. CASE Land(k) /\ UNCHANGED <<applicationVars, kafkaVars>>
    <3>1. UNCHANGED <<at, seen, candidates, told>>
      BY <2>3 DEF Land
    <3> QED
      BY <1>same, <3>1
  <2> QED
    BY <1>6, <2>1, <2>2, <2>3 DEF Surroundings
<1>7. ASSUME NEW w \in Workers, End({w}), UNCHANGED <<candidates, told>> PROVE P
  BY <1>1, <1>2, <1>3, <1>7 DEF End
<1>8. ASSUME NEW w \in Workers, HandlerStep(w) PROVE P
  <2>1. CASE Transaction(w) \/ SkipProcessed(w) \/ IgnoreRecord(w)
    <3>1. End({w}) /\ UNCHANGED <<candidates, told>>
      BY <2>1, TransactionClaims DEF SkipProcessed, IgnoreRecord, Done
    <3> QED
      BY <1>7, <3>1
  <2>2. CASE Deliver(w) \/ StartHandler(w) \/ HandleWithoutFunds(w)
    BY <1>1, <1>2, <1>3, <2>2 DEF Deliver, StartHandler, HandleWithoutFunds
  <2>3. CASE ReadRecord(w)
    BY <1>1, <2>3 DEF ReadRecord, ledgerVars
  <2>4. CASE CallProvider(w)
    <3>1. CASE LeaveUncertain(w)
      BY <1>7, <2>4, <3>1 DEF CallProvider, LeaveUncertain
    <3>2. CASE ~LeaveUncertain(w)
      BY <1>1, <1>2, <1>3, <2>4, <3>2
         DEF CallProvider, ProviderStep, ReuseVerdict, BeginBurst, Call, ReceiveAnswer,
             RecordAnswer, RetryLater, GiveUp
    <3> QED
      BY <3>1, <3>2
  <2> QED
    BY <1>8, <2>1, <2>2, <2>3, <2>4 DEF HandlerStep, Transaction
<1>9. ASSUME NEW w \in Workers, at[w] \in Handed,
             UNCHANGED <<state, seen, candidates>>,
             at'[w] \in Handed, \A v \in Workers : v # w => at'[v] = at[v],
             Tell(w) \/ UNCHANGED told
      PROVE  P
  <2>1. seen[w] \in TerminalStates /\ state[KeyOf(w)] = seen[w]
    BY <1>1, <1>9
  <2>2. SettledRecords'
    BY <1>1, <1>9, <2>1
  <2>3. OneOutcomeTold'
    <3>1. CASE UNCHANGED told
      BY <1>1, <1>9, <3>1
    <3>2. CASE Tell(w)
      <4>1. told' = [told EXCEPT ![KeyOf(w)] = @ \union {PublicStatus(state[KeyOf(w)])}]
        BY <2>1, <3>2 DEF Tell
      <4>2. PublicStatus(state[KeyOf(w)]) \in {"COMPLETED", "FAILED"}
        BY <2>1
      <4> HIDE DEF PublicStatus
      <4> QED
        BY <1>1, <1>9, <4>1, <4>2
    <3> QED
      BY <1>9, <3>1, <3>2
  <2> QED
    BY <2>2, <2>3
<1>10. ASSUME NEW w \in Workers, TaskStep(w) PROVE P
  <2>1. CASE Expire(w) \/ RecordDelivery(w) \/ (RecordFailedDelivery(w) /\ End({w}))
    BY <1>7, <2>1 DEF Expire, RecordDelivery, RecordFailedDelivery
  <2>2. CASE StartExecute(w)
    BY <1>1, <1>2, <1>3, <2>2 DEF StartExecute
  <2>3. CASE Resolve(w)
    BY <1>1, <2>3 DEF Resolve, ledgerVars
  <2>4. CASE \/ ReturnToTask(w) \/ PostCallback(w) \/ (RecordFailedDelivery(w) /\ ~End({w}))
    <3>1. /\ at[w] \in Handed /\ UNCHANGED <<state, seen, candidates>>
          /\ \E step \in Handed : at' = [at EXCEPT ![w] = step]
          /\ Tell(w) \/ UNCHANGED told
      BY <2>4 DEF ReturnToTask, PostCallback, RecordFailedDelivery, ledgerVars
    <3> QED
      BY <1>1, <1>9, <3>1
  <2>5. CASE ReturnToClient(w)
    <3>1. seen[w] \in TerminalStates /\ state[KeyOf(w)] = seen[w]
      BY <1>1, <2>5 DEF ReturnToClient
    <3>2. SettledRecords'
      BY <1>1, <2>5 DEF ReturnToClient, End, ledgerVars
    <3>3. OneOutcomeTold'
      <4>1. /\ told' = [told EXCEPT ![KeyOf(w)] = @ \union {PublicStatus(state[KeyOf(w)])}]
            /\ state' = state
        BY <2>5, <3>1 DEF ReturnToClient, ledgerVars
      <4>2. PublicStatus(state[KeyOf(w)]) \in {"COMPLETED", "FAILED"}
        BY <3>1
      <4> HIDE DEF PublicStatus
      <4> QED
        BY <1>1, <4>1, <4>2
    <3> QED
      BY <3>2, <3>3
  <2>6. CASE RecordFailedDelivery(w)
    BY <2>1, <2>4, <2>6
  <2> QED
    BY <1>10, <2>1, <2>2, <2>3, <2>4, <2>5, <2>6 DEF TaskStep
<1>11. ASSUME NEW w \in Workers, WorkerFault(w) PROVE P
  <2>1. CASE ReceiveFailure(w) /\ UNCHANGED <<applicationVars, kafkaVars>>
    BY <1>1, <1>2, <1>3, <2>1 DEF ReceiveFailure
  <2>2. CASE (ReceiveTornAnswer(w) /\ UNCHANGED <<applicationVars, kafkaVars>>) \/ Throw(w)
    BY <1>7, <2>2 DEF ReceiveTornAnswer, Throw
  <2>3. CASE PostCallbackFails(w)
    BY <1>1, <1>9, <2>3 DEF PostCallbackFails, ledgerVars
  <2> QED
    BY <1>11, <2>1, <2>2, <2>3 DEF WorkerFault, ProviderFault
<1>12. ASSUME Poll \/ Publish \/ MarkPublished \/ DispatchFails \/ Redeliver PROVE P
  BY <1>1, <1>2, <1>3, <1>12 DEF Poll, Publish, MarkPublished, DispatchFails, Redeliver, End
<1>13. CASE Scan
  BY <1>1, <1>13 DEF Scan, IsCandidate, Pending, ledgerVars
<1>14. CASE Recover
  <2> DEFINE settled == {Task(c[1]) : c \in {d \in candidates : d[2] # "PENDING"}}
  <2>1. \A w \in settled : state[KeyOf(w)] \in TerminalStates
    BY <1>1
  <2>2. /\ UNCHANGED <<state, told>> /\ candidates' = {}
        /\ \A w \in Workers :
             \/ at'[w] = "post" /\ w \in settled /\ seen'[w] = state[KeyOf(w)]
             \/ at'[w] = "queued" /\ seen'[w] \in {seen[w], state[KeyOf(w)]}
             \/ at'[w] = at[w] /\ seen'[w] = seen[w]
    BY <1>14 DEF Recover, ledgerVars
  <2> HIDE DEF settled
  <2>3. SettledRecords'
    BY <1>1, <2>1, <2>2
  <2> QED
    BY <1>1, <2>2, <2>3
<1>15. CASE Crash
  BY <1>1, <1>2, <1>3, <1>15 DEF Crash, ProcessDies, End
<1> QED
  BY <1>4, <1>5, <1>6, <1>8, <1>10, <1>11, <1>12, <1>13, <1>14, <1>15 DEF Next

-------------------------------------------------------------------------------
(* The invariant *)

\* Nothing is written and nothing runs at the start.
LEMMA InitEstablishesKafkaInv == Init => KafkaInv
<1> SUFFICES ASSUME Init PROVE KafkaInv
  OBVIOUS
<1> USE WorkersHaveKeys DEF Init, WorkflowInit, ApplicationInit, LedgerInit
<1>1. KafkaTypes
  <2>1. \A k \in Keys : outbox[k] = <<>> /\ <<>> \in Seq(Row)
    OBVIOUS
  <2> QED
    BY <2>1, OutcomesAreCauses DEF KafkaTypes, AtSteps, OtherSteps, States
<1>2. EventsAreWritten
  BY DEF EventsAreWritten
<1>3. OutboxFollows
  BY DEF OutboxFollows, Follows, HasRows, Pending, PendingStates
<1>4. SentIsDelivered
  BY DEF SentIsDelivered
<1>5. HandlersHoldEvents
  BY DEF HandlersHoldEvents, HandlerSteps, CallSteps
<1>6. BurstsAreAlone
  BY OutcomesAreCauses DEF BurstsAreAlone, CallSteps
<1>7. RecordedOutcomes
  BY DEF RecordedOutcomes
<1>8. EventsCarryVerdicts
  BY DEF EventsCarryVerdicts
<1>9. SettledByVerdict
  BY DEF SettledByVerdict
<1>10. SettledRecords
  BY DEF SettledRecords, TerminalStates
<1>11. OneOutcomeTold
  BY DEF OneOutcomeTold
<1> QED
  BY <1>1, <1>2, <1>3, <1>4, <1>5, <1>6, <1>7, <1>8, <1>9, <1>10, <1>11 DEF KafkaInv

\* The parts of the invariant carry one another through every step.
LEMMA StepKeepsKafkaInv ==
  LedgerInv /\ KafkaInv /\ [Next]_vars => LedgerInv' /\ KafkaInv'
<1> SUFFICES ASSUME LedgerInv, KafkaInv, [Next]_vars PROVE LedgerInv' /\ KafkaInv'
  OBVIOUS
<1>1. LedgerInv'
  BY NextIsLedgerStep, StepKeepsInv
<1>2. EventsAreWritten' /\ OutboxFollows' /\ SentIsDelivered' /\ HandlersHoldEvents'
  BY MessagesKept, FollowsKept, DeliveryKept, HoldersKept
<1>3. KafkaTypes' /\ BurstsAreAlone' /\ RecordedOutcomes' /\ EventsCarryVerdicts'
  BY <1>1, TypesKept, BurstsKept, OutcomesKept, CarriedKept
<1>4. SettledByVerdict' /\ SettledRecords' /\ OneOutcomeTold'
  BY <1>1, SettlementsKept, RecordsKept
<1> QED
  BY <1>1, <1>2, <1>3, <1>4 DEF KafkaInv

\* The invariant of condition K-A.
THEOREM KafkaInvariant == Spec => [](LedgerInv /\ KafkaInv)
<1>1. Init => LedgerInv /\ KafkaInv
  BY InitEstablishesInv, InitEstablishesKafkaInv DEF Init
<1> QED
  BY <1>1, StepKeepsKafkaInv, PTL DEF Spec

-------------------------------------------------------------------------------
(* What follows *)

\* However often events are delivered, the handlers only change the store
\* through the ledger's transactions.
THEOREM KafkaImplementsLedger == Spec => ImplementsLedger
<1>1. Init => LedgerInit
  BY DEF Init
<1> QED
  BY <1>1, NextIsLedgerStep, KafkaInvariant, PTL DEF Spec, ImplementsLedger, LedgerSpec

\* So K-A keeps the API's promise to its clients, as R-A does.
THEOREM KafkaKeepsContract == Spec => RefinesContract
BY KafkaImplementsLedger, LedgerRefinesContract DEF ImplementsLedger

\* Under the choreography, with its interleavings, crashes and repeated calls,
\* every balance is explained by the postings recorded for its account.
THEOREM KafkaBalancesAreExplained == Spec => []AccountBalancesMatchPostings
BY KafkaImplementsLedger, BalancesAreExplained DEF ImplementsLedger

\* What TraceOf() is, topic by topic.
LEMMA Traces ==
  /\ TraceOf("NONE") = {<<>>}
  /\ TraceOf("RECEIVED") = {<<"transfer.received">>}
  /\ TraceOf("VALIDATED") = {<<"transfer.received", "transfer.validated">>}
  /\ <<"transfer.received", "transfer.validated", "transfer.prepared">> \in TraceOf("PREPARED")
  /\ \A t \in ProviderTopics :
       /\ <<"transfer.received", "transfer.validated", "transfer.prepared", t>>
            \in TraceOf("PREPARED")
       /\ \A s \in TerminalStates :
            <<"transfer.received", "transfer.validated", "transfer.prepared", t, Step[s]>>
              \in TraceOf(s)
<1>1. TraceOf("NONE") = {<<>>}
  BY Zenon DEF TraceOf
<1>2. TraceOf("RECEIVED") = {<<Step.RECEIVED>>}
  BY Zenon DEF TraceOf
<1>3. TraceOf("VALIDATED") = {<<Step.RECEIVED, Step.VALIDATED>>}
  BY Zenon DEF TraceOf
<1>4. TraceOf("PREPARED") =
        {<<Step.RECEIVED, Step.VALIDATED, Step.PREPARED>>} \union
        {Append(<<Step.RECEIVED, Step.VALIDATED, Step.PREPARED>>, t) : t \in ProviderTopics}
  BY Zenon DEF TraceOf
<1>5. \A s \in TerminalStates : TraceOf(s) =
        {<<Step.RECEIVED, Step.VALIDATED, Step.PREPARED, t, Step[s]>> : t \in ProviderTopics}
  BY Zenon DEF TraceOf, TerminalStates
<1> QED
  BY <1>1, <1>2, <1>3, <1>4, <1>5, TopicNames

\* Two sequences of topics that agree in every place are the same.
LEMMA SameTopics ==
  ASSUME NEW n \in Nat, NEW s \in [1 .. n -> Topics], NEW t \in Seq(Topics),
         Len(t) = n, \A i \in 1 .. n : s[i] = t[i]
  PROVE  s = t
<1>1. s \in Seq(Topics)
  BY SeqDef
<1>2. Len(s) = n
  BY <1>1, LenProperties
<1> QED
  BY <1>1, <1>2, SeqEqual

\* The topics of a transfer's outbox are the trace of its state.
LEMMA RowsAreTrace ==
  ASSUME KafkaInv, NEW k \in Keys
  PROVE  [i \in DOMAIN outbox[k] |-> outbox[k][i].topic] \in TraceOf(state[k])
<1> DEFINE n == Len(outbox[k])
           topics == [i \in DOMAIN outbox[k] |-> outbox[k][i].topic]
<1>1. /\ outbox[k] \in Seq(Row) /\ n \in Nat /\ DOMAIN outbox[k] = 1 .. n
      /\ Follows(k)
      /\ \A i \in 1 .. n : outbox[k][i].topic \in Topics
  <2>1. outbox[k] \in Seq(Row) /\ Follows(k)
    BY DEF KafkaInv, KafkaTypes, OutboxFollows
  <2>2. \A r \in Row : r.topic \in Topics
    BY DEF Row
  <2> QED
    BY <2>1, <2>2
<1>2. /\ HasRows(n, state[k])
      /\ \A i \in 1 .. n :
           /\ i = 1 => outbox[k][i].topic = "transfer.received"
           /\ i = 2 => outbox[k][i].topic = "transfer.validated"
           /\ i = 3 => outbox[k][i].topic = "transfer.prepared"
           /\ i = 4 => outbox[k][i].topic \in ProviderTopics
           /\ i = 5 => outbox[k][i].topic = Step[state[k]]
  BY <1>1 DEF Follows
<1>3. topics \in [1 .. n -> Topics] /\ \A i \in 1 .. n : topics[i] = outbox[k][i].topic
  BY <1>1
<1>4. \A s \in TerminalStates : Step[s] \in Topics
  BY TopicNames DEF TerminalStates
<1> SUFFICES topics \in TraceOf(state[k])
  OBVIOUS
<1> HIDE DEF n, topics
<1>5. CASE n = 0
  <2>1. topics = <<>>
    BY <1>3, <1>5, SameTopics, TopicNames
  <2>2. state[k] = "NONE"
    BY <1>2, <1>5 DEF HasRows
  <2> QED
    BY <2>1, <2>2, Traces
<1>6. CASE n = 1
  <2>1. topics = <<"transfer.received">>
    BY <1>2, <1>3, <1>6, SameTopics, TopicNames
  <2>2. state[k] = "RECEIVED"
    BY <1>2, <1>6 DEF HasRows
  <2> QED
    BY <2>1, <2>2, Traces
<1>7. CASE n = 2
  <2>1. topics = <<"transfer.received", "transfer.validated">>
    BY <1>2, <1>3, <1>7, SameTopics, TopicNames
  <2>2. state[k] = "VALIDATED"
    BY <1>2, <1>7 DEF HasRows
  <2> QED
    BY <2>1, <2>2, Traces
<1>8. CASE n = 3
  <2>1. topics = <<"transfer.received", "transfer.validated", "transfer.prepared">>
    BY <1>2, <1>3, <1>8, SameTopics, TopicNames
  <2>2. state[k] = "PREPARED"
    BY <1>2, <1>8 DEF HasRows
  <2> QED
    BY <2>1, <2>2, Traces
<1>9. CASE n = 4
  <2>1. PICK t \in ProviderTopics : topics[4] = t
    BY <1>2, <1>3, <1>9
  <2>2. topics = <<"transfer.received", "transfer.validated", "transfer.prepared", t>>
    BY <1>2, <1>3, <1>9, <2>1, SameTopics, TopicNames
       DEF ProviderTopics
  <2>3. state[k] = "PREPARED"
    BY <1>2, <1>9 DEF HasRows
  <2> QED
    BY <2>2, <2>3, Traces
<1>10. CASE n = 5
  <2>1. PICK t \in ProviderTopics : topics[4] = t
    BY <1>2, <1>3, <1>10
  <2>2. state[k] \in TerminalStates
    BY <1>2, <1>10 DEF HasRows
  <2>3. topics = <<"transfer.received", "transfer.validated", "transfer.prepared", t,
                   Step[state[k]]>>
    BY <1>2, <1>3, <1>4, <1>10, <2>1, <2>2, SameTopics, TopicNames
       DEF ProviderTopics
  <2> QED
    BY <2>2, <2>3, Traces
<1> QED
  BY <1>2, <1>5, <1>6, <1>7, <1>8, <1>9, <1>10 DEF HasRows

\* "PostgreSQL transactions atomically commit a handler's state change,
\* outgoing event, and inbox acknowledgement": each step of a transfer leaves
\* one event, however often an event is delivered.
THEOREM KafkaOutboxIsTrace == Spec => []OutboxIsTrace
<1>1. KafkaInv => OutboxIsTrace
  BY RowsAreTrace DEF OutboxIsTrace
<1> QED
  BY <1>1, KafkaInvariant, PTL

\* A pending transfer has an event that will be published or delivered.
THEOREM KafkaPendingHasLiveEvent == Spec => []PendingHasLiveEvent
<1>1. ASSUME KafkaInv, NEW k \in Keys, Pending(k)
      PROVE  \E i \in DOMAIN outbox[k] :
               <<k, i>> \notin inbox /\ (<<k, i>> \in due \/ <<k, i>> \notin published)
  <2>1. outbox[k] \in Seq(Row) /\ Follows(k) /\ SentIsDelivered
    BY <1>1 DEF KafkaInv, KafkaTypes, OutboxFollows
  <2>2. Len(outbox[k]) \in DOMAIN outbox[k] /\ <<k, Len(outbox[k])>> \notin inbox
    <3>1. Len(outbox[k]) # 0 /\ <<k, Len(outbox[k])>> \notin inbox
      BY <1>1, <2>1 DEF Follows, HasRows, Pending, PendingStates
    <3> QED
      BY <2>1, <3>1
  <2>3. <<k, Len(outbox[k])>> \in due \/ <<k, Len(outbox[k])>> \notin published
    BY <1>1, <2>1, <2>2 DEF SentIsDelivered
  <2> QED
    BY <2>2, <2>3
<1>2. KafkaInv => PendingHasLiveEvent
  BY <1>1 DEF PendingHasLiveEvent
<1> QED
  BY <1>2, KafkaInvariant, PTL

\* The result a provider event carries is the one saved for its command.
THEOREM KafkaCarriesVerdict == Spec => []CarriedResultIsVerdict
<1>1. ASSUME KafkaInv, NEW k \in Keys, NEW i \in DOMAIN outbox[k],
             outbox[k][i].topic \in ProviderTopics
      PROVE  outbox[k][i].result = verdict[k]
  <2>1. outbox[k] \in Seq(Row) /\ Follows(k)
    BY <1>1 DEF KafkaInv, KafkaTypes, OutboxFollows
  <2> DEFINE n == Len(outbox[k])
  <2>2. /\ n \in Nat /\ i \in 1 .. n /\ HasRows(n, state[k])
        /\ i = 1 => outbox[k][i].topic = "transfer.received"
        /\ i = 2 => outbox[k][i].topic = "transfer.validated"
        /\ i = 3 => outbox[k][i].topic = "transfer.prepared"
        /\ i = 5 => outbox[k][i].topic = Step[state[k]]
    <3>1. n \in Nat /\ i \in 1 .. n
      BY <2>1
    <3> QED
      BY <2>1, <3>1 DEF Follows
  <2>3. i = 4 /\ n >= 4
    <3> HIDE DEF n
    <3>1. i \in 1 .. 5 /\ (i = 5 => state[k] \in TerminalStates)
      BY <2>2 DEF HasRows
    <3> QED
      BY <1>1, <2>2, <3>1, TopicNames DEF ProviderTopics, TerminalStates
  <2> QED
    BY <1>1, <2>2, <2>3 DEF KafkaInv, EventsCarryVerdicts
<1>2. KafkaInv => CarriedResultIsVerdict
  BY <1>1 DEF CarriedResultIsVerdict, Written, Topic, Result
<1> QED
  BY <1>2, KafkaInvariant, PTL

\* The provider is only called for a pending transfer without a saved result.
LEMMA CallsAreUnresolved ==
  ASSUME LedgerInv, KafkaInv, [Next]_vars, NEW k \in Keys, wire'[k] > wire[k]
  PROVE  Pending(k) /\ verdict[k] = NoVerdict
<1>1. wire \in [Keys -> Nat]
  BY DEF KafkaInv, KafkaTypes
<1>2. PICK w \in Workers : Call(w) /\ KeyOf(w) = k
  <2>1. ASSUME NEW w \in Workers, HandlerStep(w)
        PROVE  UNCHANGED wire \/ Call(w)
    BY <2>1, TransactionClaims
       DEF HandlerStep, Transaction, Deliver, SkipProcessed, StartHandler, ReadRecord,
           IgnoreRecord, HandleWithoutFunds, CallProvider, ProviderStep, ReuseVerdict,
           BeginBurst, ReceiveAnswer, RecordAnswer, RetryLater, GiveUp, LeaveUncertain,
           providerVars
  <2>2. ASSUME \A w \in Workers : ~HandlerStep(w)
        PROVE  UNCHANGED wire \/ \E j \in Keys : wire' = [wire EXCEPT ![j] = @ - 1]
    BY <2>2, WorkersHaveKeys
       DEF Next, vars, Accept, Submit, Surroundings, Answered, Begin, Land, TaskStep,
           StartExecute, Resolve, Expire, ReturnToTask, ReturnToClient, PostCallback,
           RecordDelivery, RecordFailedDelivery, WorkerFault, ProviderFault, ReceiveFailure,
           ReceiveTornAnswer, PostCallbackFails, Throw, Poll, Publish, MarkPublished,
           DispatchFails, Redeliver, Scan, Recover, Crash, ProcessDies, providerVars
  <2>3. PICK w \in Workers : Call(w)
    BY <1>1, <2>1, <2>2
  <2>4. wire' = [wire EXCEPT ![KeyOf(w)] = @ + 1]
    BY <2>3 DEF Call
  <2> QED
    BY <1>1, <2>3, <2>4
<1>3. at[w] \in CallSteps
  BY <1>2 DEF Call, CallSteps
<1>4. verdict[k] = NoVerdict
  BY <1>2, <1>3 DEF KafkaInv, BurstsAreAlone
\* The event of transfer.prepared is written, and the one that would carry the
\* result is not.
<1>5. PICK e \in due : e[1] = k /\ Topic(e) = "transfer.prepared" /\ e \in Written
  <2>1. Deliverable(w) # {} /\ w[2] = "transfer.prepared"
    BY <1>3 DEF KafkaInv, HandlersHoldEvents, HandlerSteps
  <2> QED
    BY <1>2, <2>1 DEF Deliverable, KeyOf, KafkaInv, EventsAreWritten
<1>6. Pending(k)
  <2> DEFINE n == Len(outbox[k])
  <2>1. HasRows(n, state[k]) /\ (n >= 4 => verdict[k] # NoVerdict)
    BY DEF KafkaInv, OutboxFollows, Follows, EventsCarryVerdicts
  <2>2. n >= 3
    <3>1. PICK i \in DOMAIN outbox[k] : outbox[k][i].topic = "transfer.prepared"
      BY <1>5 DEF Written, Topic
    <3>2. outbox[k] \in Seq(Row) /\ Follows(k)
      BY DEF KafkaInv, KafkaTypes, OutboxFollows
    <3>3. n \in Nat /\ i \in 1 .. n
      BY <3>1, <3>2
    <3>4. i # 1 /\ i # 2
      BY <3>1, <3>2, <3>3 DEF Follows
    <3> HIDE DEF n
    <3> QED
      BY <3>3, <3>4
  <2> HIDE DEF n
  <2> QED
    BY <1>4, <2>1, <2>2 DEF HasRows, Pending, PendingStates
<1> QED
  BY <1>4, <1>6

\* No handler calls the provider for a payment whose verdict the store already has:
\* NoCallOnceResolved, for any keys, handlers and faults.
THEOREM KafkaCallsOnlyUnresolved == Spec => NoCallOnceResolved
<1>1. LedgerInv /\ KafkaInv /\ [Next]_vars =>
        [\A k \in Keys :
           wire'[k] > wire[k] => Pending(k) /\ verdict[k] = NoVerdict]_providerVars
  BY CallsAreUnresolved
<1> QED
  BY <1>1, KafkaInvariant, PTL DEF Spec, NoCallOnceResolved

\* The saved result explains the settlement.
THEOREM KafkaVerdictExplains == Spec => []VerdictExplainsSettlement
<1>1. KafkaInv => VerdictExplainsSettlement
  BY DEF KafkaInv, SettledByVerdict, VerdictExplainsSettlement
<1> QED
  BY <1>1, KafkaInvariant, PTL

\* A saved result is never replaced.
THEOREM KafkaVerdictIsFinal == Spec => VerdictIsFinal
<1>1. LedgerInv /\ KafkaInv /\ [Next]_vars =>
        [\A k \in Keys : verdict[k] # NoVerdict => verdict'[k] = verdict[k]]_providerVars
  BY VerdictsStay
<1> QED
  BY <1>1, KafkaInvariant, PTL DEF Spec, VerdictIsFinal

\* Value only moves behind an effect the provider has accepted.
THEOREM KafkaCompletesOnlyAccepted == Spec => []CompletedOnlyIfAccepted
<1>1. KafkaInv => CompletedOnlyIfAccepted
  BY OutcomesAreCauses
     DEF KafkaInv, SettledByVerdict, RecordedOutcomes, CompletedOnlyIfAccepted
<1> QED
  BY <1>1, KafkaInvariant, PTL

\* A transfer only fails for a definite, recorded cause.
THEOREM KafkaFailsDefinitely == Spec => []FailureIsDefinite
<1>1. ASSUME KafkaInv, NEW k \in Keys, state[k] = "FAILED"
      PROVE  \/ cause[k] \in attempts[k] \ {Unknown, "COMPLETED"}
             \/ cause[k] = "INSUFFICIENT_FUNDS" /\ "COMPLETED" \in attempts[k]
  <2>1. verdict[k] # NoVerdict
    <3> DEFINE n == Len(outbox[k])
    <3>1. HasRows(n, state[k]) /\ (n >= 4 => verdict[k] # NoVerdict)
      BY <1>1 DEF KafkaInv, OutboxFollows, Follows, EventsCarryVerdicts
    <3> HIDE DEF n
    <3> QED
      BY <1>1, <3>1 DEF HasRows, TerminalStates
  <2> QED
    BY <1>1, <2>1 DEF KafkaInv, SettledByVerdict, RecordedOutcomes
<1>2. KafkaInv => FailureIsDefinite
  BY <1>1 DEF FailureIsDefinite
<1> QED
  BY <1>2, KafkaInvariant, PTL

\* No client is ever told an outcome the ledger does not hold.
THEOREM KafkaTellsOneOutcome == Spec => []OneOutcomeTold
<1>1. KafkaInv => OneOutcomeTold
  BY DEF KafkaInv
<1> QED
  BY <1>1, KafkaInvariant, PTL

===============================================================================
