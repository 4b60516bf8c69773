----------------------------- MODULE CompletionPath -----------------------------
(***************************************************************************)
(* How a waiting request of condition K-A learns of its settlement: the    *)
(* handler of transfer.prepared takes a slot of the work limiter among the *)
(* handlers of other transfers, the event it ends with lets another        *)
(* handler settle the transfer, and the notifier wakes the calls of wait() *)
(* on it.  Those calls hold no slot while they wait.  A handler call that  *)
(* fails gives its slot back and is delivered again.                       *)
(***************************************************************************)
EXTENDS TerminalNotifier, WorkLimiter

CONSTANTS
  Mine,          \* the handler call of the transfer that is waited for
  MaxFailures    \* bound: failures of that call

ASSUME CompletionPathAssumption ==
  /\ Mine \in Calls
  /\ MaxFailures \in Nat

VARIABLES
  resolved,   \* the transfer's provider.completed or provider.failed is out
  failures

pathVars == <<notifierVars, limiterVars, resolved, failures>>

PathInit ==
  /\ Init
  /\ LimiterInit
  /\ resolved = FALSE
  /\ failures = 0

Limiting == UNCHANGED <<notifierVars, resolved, failures>>
Notifying == UNCHANGED <<limiterVars, resolved, failures>>

\* transfer.prepared is delivered, for the first time or again.
Deliver(c) ==
  /\ Enter(c) \/ Wait(c)
  /\ Limiting

Continue(c) == Resume(c) /\ Limiting

GiveSlot(c) == HandOver(c) \/ Release(c)

HandlerReturns(c) ==
  /\ GiveSlot(c)
  /\ resolved' = (resolved \/ c = Mine)
  /\ UNCHANGED <<notifierVars, failures>>

\* The handler throws; finally gives the slot back all the same.
HandlerThrows ==
  /\ failures < MaxFailures
  /\ failures' = failures + 1
  /\ GiveSlot(Mine)
  /\ UNCHANGED <<notifierVars, resolved>>

\* The handler of the provider's result settles the transfer, outside the
\* limiter.
SettleResolved == resolved /\ Settle /\ Notifying

\* confirmTerminal() of the settlement, or the handler of the final event.
Confirm == Notify /\ Notifying

Observe(w) == WaiterStep(w) /\ Notifying

PathNext ==
  \/ \E c \in Calls : Deliver(c) \/ Continue(c) \/ HandlerReturns(c)
  \/ HandlerThrows
  \/ SettleResolved
  \/ Confirm
  \/ \E w \in Waiters : Observe(w)

PathSpec == PathInit /\ [][PathNext]_pathVars

\* An event is delivered until it is handled, handlers end, and what is settled
\* is notified; a resolved promise is continued.  The timer of wait() is given no
\* fairness: nothing depends on it.
PathFairness ==
  /\ WF_pathVars(Deliver(Mine))
  /\ \A c \in Calls : WF_pathVars(Continue(c)) /\ WF_pathVars(HandlerReturns(c))
  /\ WF_pathVars(SettleResolved)
  /\ WF_pathVars(Confirm)
  /\ \A w \in Waiters : WF_pathVars((Wake(w) \/ Reread(w)) /\ Notifying)

PathFairSpec == PathSpec /\ PathFairness

-------------------------------------------------------------------------------
(* Properties *)

\* A waiting request is answered by the settlement, without its timer: neither
\* other transfers' handlers, which share the slots, nor other waiters, which
\* come and leave, keep it waiting for ever.
SettlementIsHeard == \A w \in Waiters : at[w] = "waiting" ~> at[w] # "waiting"
===============================================================================
