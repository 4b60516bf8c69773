------------------------------ MODULE WorkLimiter ------------------------------
(***************************************************************************)
(* WorkLimiter.run(), which bounds the workers both coordinators run.  A   *)
(* call that finds no slot waits for a promise; the call that finishes     *)
(* resolves the promise of the first waiter and leaves it its slot, which  *)
(* the waiter takes up when its continuation is scheduled.                 *)
(***************************************************************************)
EXTENDS Integers, Sequences, FiniteSets

CONSTANTS
  Calls,    \* calls of run() that may be made, one after another
  Limit     \* the constructor's limit

ASSUME WorkLimiterAssumption ==
  /\ IsFiniteSet(Calls)
  /\ Limit \in Nat \ {0}

VARIABLES
  turn,     \* turn[c]: "out", "queued", "woken" (its promise is resolved) or "working"
  active,   \* slots taken
  queue     \* the calls that wait, first come first

limiterVars == <<turn, active, queue>>

LimiterInit ==
  /\ turn = [c \in Calls |-> "out"]
  /\ active = 0
  /\ queue = <<>>

Enter(c) ==
  /\ turn[c] = "out"
  /\ active < Limit
  /\ active' = active + 1
  /\ turn' = [turn EXCEPT ![c] = "working"]
  /\ UNCHANGED queue

Wait(c) ==
  /\ turn[c] = "out"
  /\ active >= Limit
  /\ queue' = Append(queue, c)
  /\ turn' = [turn EXCEPT ![c] = "queued"]
  /\ UNCHANGED active

Resume(c) ==
  /\ turn[c] = "woken"
  /\ turn' = [turn EXCEPT ![c] = "working"]
  /\ UNCHANGED <<active, queue>>

\* Mutant: the waiter that came last is served first.
HandOverToLast(c) ==
  /\ turn[c] = "working"
  /\ queue # <<>>
  /\ queue' = SubSeq(queue, 1, Len(queue) - 1)
  /\ turn' = [turn EXCEPT ![c] = "out", ![queue[Len(queue)]] = "woken"]
  /\ UNCHANGED active

\* work() returned or threw, and a call waits: it inherits the slot.
HandOver(c) ==
  /\ turn[c] = "working"
  /\ queue # <<>>
  /\ queue' = Tail(queue)
  /\ turn' = [turn EXCEPT ![c] = "out", ![Head(queue)] = "woken"]
  /\ UNCHANGED active

\* Mutant: the slot is released without a look at the queue.
ReleaseAlways(c) ==
  /\ turn[c] = "working"
  /\ active' = active - 1
  /\ turn' = [turn EXCEPT ![c] = "out"]
  /\ UNCHANGED queue

Release(c) ==
  /\ turn[c] = "working"
  /\ queue = <<>>
  /\ active' = active - 1
  /\ turn' = [turn EXCEPT ![c] = "out"]
  /\ UNCHANGED queue

LimiterNext == \E c \in Calls : Enter(c) \/ Wait(c) \/ Resume(c) \/ HandOver(c) \/ Release(c)

LimiterSpec == LimiterInit /\ [][LimiterNext]_limiterVars

-------------------------------------------------------------------------------
(* Properties *)

LimiterTypeOK ==
  /\ turn \in [Calls -> {"out", "queued", "woken", "working"}]
  /\ active \in Nat
  /\ queue \in Seq(Calls)

Holders == {c \in Calls : turn[c] \in {"woken", "working"}}

\* "Application concurrency is bounded" (docs/ARCHITECTURE.md): never more than
\* Limit calls hold a slot, the one that was handed over included.
RunsWithinLimit == Cardinality(Holders) <= Limit

\* No slot gets lost or is left unused: active counts the calls that hold one,
\* and calls wait only while every slot is taken.
NoSlotWasted ==
  /\ active = Cardinality(Holders)
  /\ queue # <<>> => active = Limit
===============================================================================
