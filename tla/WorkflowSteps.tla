----------------------------- MODULE WorkflowSteps -----------------------------
(***************************************************************************)
(* callProvider of workflow-steps.js: the step both coordinators take for  *)
(* a PREPARED transfer, with the adapter boundary it calls and the         *)
(* provider behind it.  A worker is one run of a coordinator for a key;    *)
(* its program counter and locals die with the process, provider_commands, *)
(* provider_attempts and the provider's journal do not.                    *)
(*                                                                         *)
(* A request that was sent may take effect at any later time, even after   *)
(* its caller has given up.  dead_letter_events rows are left out.         *)
(***************************************************************************)
EXTENDS TransferLedger

CONSTANTS
  Lanes,          \* what may run a coordinator for a key at the same time
  Answer,         \* Answer[k]: what the provider replies to the request of k
  FailureCodes,   \* the error codes the adapter boundary can throw
  MaxAttempts,    \* providerRetryMaxAttempts
  NoVerdict,      \* provider_commands.result IS NULL
  MaxFaults       \* bound: faults (lost answers, errors, crashes) per behaviour

Answers == {"COMPLETED", "LIMIT_EXCEEDED"}
Unknown == "ADAPTER_OUTCOME_UNKNOWN"
RetryableCodes == {"ADAPTER_UNAVAILABLE", Unknown}

ASSUME WorkflowStepsAssumption ==
  /\ Answer \in [Keys -> Answers]
  /\ FailureCodes \subseteq RetryableCodes \union {"ADAPTER_ERROR"}
  /\ Causes = Answers \union FailureCodes
  /\ MaxAttempts \in Nat \ {0}
  /\ NoVerdict \notin Answers \union FailureCodes
  /\ MaxFaults \in Nat

VARIABLES
  at,         \* at[w]: the next step of worker w; "idle" when it does not run
  seen,       \* seen[w]: internalState of the record the worker holds
  tries,      \* tries[w]: attempts of the running burst
  heard,      \* heard[w]: outcome of the last attempt, then of the burst
  verdict,    \* provider_commands.result
  attempts,   \* attempts[k]: outcomes recorded in provider_attempts
  wire,       \* wire[k]: requests under way to the provider
  accepted,   \* keys whose effect is in the provider's journal
  faults      \* faults so far

workerVars == <<at, seen, tries, heard>>
providerVars == <<verdict, attempts, wire, accepted>>

Workers == Keys \X Lanes
KeyOf(w) == w[1]

WorkflowInit ==
  /\ at = [w \in Workers |-> "idle"]
  /\ seen = [w \in Workers |-> "NONE"]
  /\ tries = [w \in Workers |-> 0]
  /\ heard = [w \in Workers |-> NoVerdict]
  /\ verdict = [k \in Keys |-> NoVerdict]
  /\ attempts = [k \in Keys |-> {}]
  /\ wire = [k \in Keys |-> 0]
  /\ accepted = {}
  /\ faults = 0

Fault == faults < MaxFaults /\ faults' = faults + 1

\* The worker goes on at another step, keeping its locals.
Goto(w, step) == at' = [at EXCEPT ![w] = step]

\* The workers in ws return or throw; their locals are gone.
End(ws) ==
  /\ at' = [w \in Workers |-> IF w \in ws THEN "idle" ELSE at[w]]
  /\ seen' = [w \in Workers |-> IF w \in ws THEN "NONE" ELSE seen[w]]
  /\ tries' = [w \in Workers |-> IF w \in ws THEN 0 ELSE tries[w]]
  /\ heard' = [w \in Workers |-> IF w \in ws THEN NoVerdict ELSE heard[w]]

-------------------------------------------------------------------------------
(* The provider: one durable effect per request key *)

\* submit(): the first request under a key is journalled; a repeated one
\* changes nothing and is answered from the journal.
Land(k) ==
  /\ wire[k] > 0
  /\ wire' = [wire EXCEPT ![k] = @ - 1]
  /\ accepted' = accepted \union {k}
  /\ UNCHANGED <<ledgerVars, workerVars, verdict, attempts, faults>>

-------------------------------------------------------------------------------
(* callProvider *)

\* ensureProviderCommand() finds a saved result: the provider is not called.
ReuseVerdict(w) ==
  /\ at[w] = "ensure"
  /\ verdict[KeyOf(w)] # NoVerdict
  /\ heard' = [heard EXCEPT ![w] = verdict[KeyOf(w)]]
  /\ Goto(w, "result")
  /\ UNCHANGED <<ledgerVars, providerVars, seen, tries, faults>>

\* Mutant: the saved result is not looked up.
BeginBurstAnyway(w) ==
  /\ at[w] = "ensure"
  /\ tries' = [tries EXCEPT ![w] = 1]
  /\ Goto(w, "call")
  /\ UNCHANGED <<ledgerVars, providerVars, seen, heard, faults>>

BeginBurst(w) ==
  /\ at[w] = "ensure"
  /\ verdict[KeyOf(w)] = NoVerdict
  /\ tries' = [tries EXCEPT ![w] = 1]
  /\ Goto(w, "call")
  /\ UNCHANGED <<ledgerVars, providerVars, seen, heard, faults>>

Call(w) ==
  /\ at[w] = "call"
  /\ wire' = [wire EXCEPT ![KeyOf(w)] = @ + 1]
  /\ Goto(w, "await")
  /\ UNCHANGED <<ledgerVars, verdict, attempts, accepted, seen, tries, heard, faults>>

\* The adapter maps the provider's response to a result.
ReceiveAnswer(w) ==
  /\ at[w] = "await"
  /\ KeyOf(w) \in accepted
  /\ heard' = [heard EXCEPT ![w] = Answer[KeyOf(w)]]
  /\ Goto(w, "record")
  /\ UNCHANGED <<ledgerVars, providerVars, seen, tries, faults>>

\* execute() throws: fetch failed or timed out (OUTCOME_UNKNOWN), the service
\* answered with an error (ADAPTER_ERROR, or the code it sent).  None of them
\* takes the request back, except that ADAPTER_UNAVAILABLE refuses it.
ReceiveFailure(w) ==
  LET k == KeyOf(w) IN
  /\ at[w] = "await"
  /\ Fault
  /\ \E code \in FailureCodes :
       /\ heard' = [heard EXCEPT ![w] = code]
       /\ IF code = "ADAPTER_UNAVAILABLE"
          THEN wire[k] > 0 /\ wire' = [wire EXCEPT ![k] = @ - 1]
          ELSE UNCHANGED wire
  /\ Goto(w, "record")
  /\ UNCHANGED <<ledgerVars, verdict, attempts, accepted, seen, tries>>

\* A 200 whose body is cut off is read as {}: execution.result is undefined
\* and callProvider throws before it records the attempt.
ReceiveTornAnswer(w) ==
  /\ at[w] = "await"
  /\ KeyOf(w) \in accepted
  /\ Fault
  /\ End({w})
  /\ UNCHANGED <<ledgerVars, providerVars>>

RecordOutcome(w) ==
  attempts' = [attempts EXCEPT ![KeyOf(w)] = @ \union {heard[w]}]

\* Mutant: the attempt is recorded, its result is not.
ForgetVerdict(w) == UNCHANGED verdict

SaveVerdict(w) == verdict' = [verdict EXCEPT ![KeyOf(w)] = heard[w]]

\* recordProviderAttempt(..., { result }) in one transaction.
RecordAnswer(w) ==
  /\ at[w] = "record"
  /\ heard[w] \in Answers
  /\ RecordOutcome(w)
  /\ SaveVerdict(w)
  /\ Goto(w, "result")
  /\ UNCHANGED <<ledgerVars, wire, accepted, seen, tries, heard, faults>>

\* A failure that cannot be retried, or the last attempt, ends the burst; so
\* may any other failure, for whether the deadline has passed is left open.
MustExhaust(w) == heard[w] \notin RetryableCodes \/ tries[w] >= MaxAttempts

\* Mutant: an exhausted burst is a failure, whatever its last outcome.
NeverUncertain(w) == FALSE

Uncertain(w) == heard[w] = Unknown

RetryLater(w) ==
  /\ at[w] = "record"
  /\ heard[w] \in FailureCodes
  /\ ~MustExhaust(w)
  /\ RecordOutcome(w)
  /\ tries' = [tries EXCEPT ![w] = @ + 1]
  /\ heard' = [heard EXCEPT ![w] = NoVerdict]
  /\ Goto(w, "call")
  /\ UNCHANGED <<ledgerVars, verdict, wire, accepted, seen, faults>>

\* The burst is exhausted with a definite failure, which becomes the result.
GiveUp(w) ==
  /\ at[w] = "record"
  /\ heard[w] \in FailureCodes
  /\ ~Uncertain(w)
  /\ RecordOutcome(w)
  /\ SaveVerdict(w)
  /\ Goto(w, "result")
  /\ UNCHANGED <<ledgerVars, wire, accepted, seen, tries, heard, faults>>

\* The burst is exhausted with an unknown outcome: callProvider throws and
\* the transfer stays pending.
LeaveUncertain(w) ==
  /\ at[w] = "record"
  /\ heard[w] \in FailureCodes
  /\ Uncertain(w)
  /\ RecordOutcome(w)
  /\ End({w})
  /\ UNCHANGED <<ledgerVars, verdict, wire, accepted, faults>>

ProviderStep(w) ==
  \/ ReuseVerdict(w) \/ BeginBurst(w) \/ Call(w)
  \/ ReceiveAnswer(w) \/ RecordAnswer(w)
  \/ RetryLater(w) \/ GiveUp(w) \/ LeaveUncertain(w)

ProviderFault(w) == ReceiveFailure(w) \/ ReceiveTornAnswer(w)
===============================================================================
