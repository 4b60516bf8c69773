-------------------------- MODULE PaymentApplication --------------------------
(***************************************************************************)
(* PaymentApplication and CallbackSink: what surrounds a coordinator's     *)
(* execute() in both conditions.  Workers on lane "task" are the           *)
(* background tasks of process(), at most one per transfer (inFlight);     *)
(* workers on lane "request" are the HTTP handlers of submit().  Every     *)
(* await is a step of its own, so requests, tasks, the recovery scan, late *)
(* provider effects, failed database calls and crashes interleave between  *)
(* them.                                                                   *)
(*                                                                         *)
(* Every transfer has a callback URL, and callbacks are sent over HTTP (as *)
(* compose.yaml configures it).  The coordinator takes a worker from       *)
(* "queued" to "return".                                                   *)
(***************************************************************************)
EXTENDS WorkflowSteps

CONSTANTS
  ClientMode,           \* "async" or "sync"
  CallbackMaxAttempts

ASSUME ApplicationAssumption ==
  /\ {"request", "task"} \subseteq Lanes
  /\ ClientMode \in {"async", "sync"}
  /\ CallbackMaxAttempts \in Nat \ {0}

VARIABLES
  candidates,  \* rows of a recovery scan whose process() calls are still to be made
  told,        \* told[k]: the final statuses any client has been given
  delivered    \* keys with a delivered row in callback_deliveries

applicationVars == <<candidates, told, delivered>>

Request(k) == <<k, "request">>
Task(k) == <<k, "task">>

ApplicationInit ==
  /\ candidates = {}
  /\ told = [k \in Keys |-> {}]
  /\ delivered = {}

-------------------------------------------------------------------------------
(* submit(), get() *)

\* createOrGet() inserts the row; the rest of submit() is Begin.
Submit(k, c) ==
  /\ at[Request(k)] = "idle"
  /\ Create(k, c)
  /\ Goto(Request(k), "created")
  /\ UNCHANGED <<seen, tries, heard, providerVars, faults, applicationVars>>

\* Mutant: the saved provider result is taken for the transfer's outcome.
AnsweredFromVerdict(k) ==
  /\ verdict[k] = "COMPLETED"
  /\ told' = [told EXCEPT ![k] = @ \union {"COMPLETED"}]
  /\ UNCHANGED <<ledgerVars, workerVars, providerVars, faults, candidates, delivered>>

\* get(), or submit() of a request that is already known: a settled transfer
\* is answered with its final status.
Answered(k) ==
  /\ state[k] \in TerminalStates
  /\ told' = [told EXCEPT ![k] = @ \union {PublicStatus(state[k])}]
  /\ UNCHANGED <<ledgerVars, workerVars, providerVars, faults, candidates, delivered>>

\* process(): joins the task in flight, or starts one that will execute().
Begin(k) ==
  /\ at[Request(k)] = "created"
  /\ at' = IF ClientMode = "sync"
           THEN [at EXCEPT ![Request(k)] = "queued"]
           ELSE [at EXCEPT ![Request(k)] = "idle",
                           ![Task(k)] = IF @ = "idle" THEN "queued" ELSE @]
  /\ UNCHANGED <<ledgerVars, seen, tries, heard, providerVars, faults, applicationVars>>

\* execute() returns a settled record: a task goes on to the callback, a
\* synchronous request answers its client.
ReturnToTask(w) ==
  /\ at[w] = "return"
  /\ w = Task(KeyOf(w))
  /\ tries' = [tries EXCEPT ![w] = 1]
  /\ heard' = [heard EXCEPT ![w] = NoVerdict]
  /\ Goto(w, "post")
  /\ UNCHANGED <<ledgerVars, seen, providerVars, faults, applicationVars>>

ReturnToClient(w) ==
  LET k == KeyOf(w) IN
  /\ at[w] = "return"
  /\ w = Request(k)
  /\ told' = [told EXCEPT ![k] = @ \union {PublicStatus(seen[w])}]
  /\ End({w})
  /\ UNCHANGED <<ledgerVars, providerVars, faults, candidates, delivered>>

-------------------------------------------------------------------------------
(* CallbackSink.deliver() *)

Tell(w) ==
  told' = [told EXCEPT ![KeyOf(w)] = @ \union {PublicStatus(seen[w])}]

\* The receiver answers 2xx.
PostCallback(w) ==
  /\ at[w] = "post"
  /\ Tell(w)
  /\ Goto(w, "row")
  /\ UNCHANGED <<ledgerVars, seen, tries, heard, providerVars, faults, candidates, delivered>>

\* The POST fails; the receiver may have processed it all the same.
PostCallbackFails(w) ==
  /\ at[w] = "post"
  /\ Fault
  /\ Tell(w) \/ UNCHANGED told
  /\ Goto(w, "retry")
  /\ UNCHANGED <<ledgerVars, seen, tries, heard, providerVars, candidates, delivered>>

\* recordCallbackDelivery() of a delivered result ends the task.
RecordDelivery(w) ==
  /\ at[w] = "row"
  /\ delivered' = delivered \union {KeyOf(w)}
  /\ End({w})
  /\ UNCHANGED <<ledgerVars, providerVars, faults, candidates, told>>

\* recordCallbackDelivery() of a failed attempt; the last one ends the task.
RecordFailedDelivery(w) ==
  /\ at[w] = "retry"
  /\ IF tries[w] < CallbackMaxAttempts
     THEN /\ tries' = [tries EXCEPT ![w] = @ + 1]
          /\ Goto(w, "post")
          /\ UNCHANGED <<seen, heard>>
     ELSE End({w})
  /\ UNCHANGED <<ledgerVars, providerVars, faults, applicationVars>>

-------------------------------------------------------------------------------
(* Recovery and faults *)

\* Mutant: only pending transfers are recovered.
OnlyPending(k) == Pending(k)

\* recoveryCandidates(): pending transfers and those without a delivered
\* callback, with the status they have now.
IsCandidate(k) == Pending(k) \/ (state[k] \in TerminalStates /\ k \notin delivered)

Scan ==
  /\ candidates = {}
  /\ candidates' = {<<k, PublicStatus(state[k])>> : k \in {j \in Keys : IsCandidate(j)}}
  /\ candidates' # {}
  /\ UNCHANGED <<ledgerVars, workerVars, providerVars, faults, told, delivered>>

\* recover() calls process() on each row it got: what is in flight is joined,
\* a pending record is executed, a settled one only has its callback to send.
Recover ==
  LET pending == {Task(c[1]) : c \in {d \in candidates : d[2] = "PENDING"}}
      settled == {Task(c[1]) : c \in {d \in candidates : d[2] # "PENDING"}}
      Starts(w, ws) == w \in ws /\ at[w] = "idle"
  IN
  /\ candidates # {}
  /\ candidates' = {}
  /\ at' = [w \in Workers |-> IF Starts(w, pending) THEN "queued"
                              ELSE IF Starts(w, settled) THEN "post" ELSE at[w]]
  /\ seen' = [w \in Workers |-> IF Starts(w, settled) THEN state[KeyOf(w)] ELSE seen[w]]
  /\ tries' = [w \in Workers |-> IF Starts(w, settled) THEN 1 ELSE tries[w]]
  /\ UNCHANGED <<ledgerVars, heard, providerVars, faults, told, delivered>>

\* A database call of the worker rejects (before its transaction, or after
\* the commit of the step before): the error ends the task or the request.
Throw(w) ==
  /\ at[w] \notin {"idle", "created", "queued"}
  /\ Fault
  /\ End({w})
  /\ UNCHANGED <<ledgerVars, providerVars, applicationVars>>

\* The process dies and is started again: only what is stored survives.
ProcessDies ==
  /\ Fault
  /\ End(Workers)
  /\ candidates' = {}
  /\ UNCHANGED <<ledgerVars, providerVars, told, delivered>>

-------------------------------------------------------------------------------
(* Properties of both conditions *)

\* Value moves only for a transfer whose request the provider has accepted,
\* whatever answers were lost and whatever crashed between the acceptance, the
\* saved result and fulfill().
CompletedOnlyIfAccepted ==
  \A k \in Keys :
    state[k] = "FULFILLED" => k \in accepted /\ Answer[k] = "COMPLETED"

\* "A network timeout is an unknown provider outcome and remains pending"
\* (docs/ARCHITECTURE.md): a failed transfer has a definite recorded cause; no
\* number of timeouts, exhausted bursts, crashes and recoveries fails it.
FailureIsDefinite ==
  \A k \in Keys :
    state[k] = "FAILED" =>
      \/ cause[k] \in attempts[k] \ {Unknown, "COMPLETED"}
      \/ cause[k] = "INSUFFICIENT_FUNDS" /\ "COMPLETED" \in attempts[k]

\* The clients of a transfer (callbacks of every attempt and of every
\* recovery, status queries, replays, a synchronous response) are never given
\* a final status other than the one the ledger holds.
OneOutcomeTold ==
  \A k \in Keys : told[k] \subseteq {PublicStatus(state[k])} \ {"NONE", "PENDING"}

\* A callback_deliveries row that stops the retries exists only when the
\* client has been given the final status.
DeliveredWasTold == \A k \in delivered : told[k] # {}

\* The result saved in provider_commands, which a restarted burst reuses, is
\* never replaced by the result of another burst.
VerdictIsFinal ==
  [][\A k \in Keys : verdict[k] # NoVerdict => verdict'[k] = verdict[k]]_providerVars

\* The provider is only called for a transfer that is pending and has no saved
\* result, however stale the record of the task that calls is.
NoCallOnceResolved ==
  [][\A k \in Keys : wire'[k] > wire[k] => Pending(k) /\ verdict[k] = NoVerdict]_providerVars

\* The stored provider result explains the settlement of the transfer.
VerdictExplainsSettlement ==
  \A k \in Keys :
    /\ state[k] = "FULFILLED" => verdict[k] = "COMPLETED"
    /\ state[k] = "FAILED" =>
         \/ verdict[k] = cause[k]
         \/ verdict[k] = "COMPLETED" /\ cause[k] = "INSUFFICIENT_FUNDS"

\* The coordinator and the application only change the store through its
\* transactions, so what holds of the open ledger holds here.
ImplementsLedger == LedgerSpec

\* "do not turn an uncertain effect into FAILED" (workflow-steps.js:20): an
\* effect the provider holds, behind an attempt whose outcome was unknown, is
\* not reported as failed, except for the payer's missing funds.
UncertainEffectNotFailed ==
  \A k \in Keys :
    (Unknown \in attempts[k] /\ k \in accepted /\ Answer[k] = "COMPLETED")
      => (state[k] = "FAILED" => cause[k] = "INSUFFICIENT_FUNDS")
===============================================================================
