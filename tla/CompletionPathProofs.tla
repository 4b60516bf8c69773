-------------------------- MODULE CompletionPathProofs --------------------------
(***************************************************************************)
(* The path from a settlement to the request that waits for it, for any    *)
(* number of calls.  No call of wait() is lost: the invariant says in      *)
(* which Set an unwoken call is, and that an entry can only be removed     *)
(* under other calls once nobody can wait any more.  No slot is lost: the  *)
(* queue of the limiter lists exactly calls that hold none.  Put together, *)
(* neither part disturbs the other: every step of the path is a step of    *)
(* the notifier or leaves it alone, and the same of the limiter.           *)
(***************************************************************************)
EXTENDS CompletionPath, FiniteSetTheorems, SequenceTheorems, TLAPS

-------------------------------------------------------------------------------
(* The notifier *)

\* Whoever can still come to wait, or waits, for the next notify().
Expectant(w) ==
  promise[w] = "open" /\ (at[w] = "waiting" \/ (at[w] = "reading" /\ ~settled))

\* Calls in wait() hold a Set and are in it; Sets hold no other calls.
SetsMatchCalls ==
  /\ \A w \in Waiters :
       IF at[w] = "idle" THEN held[w] = NoSet ELSE held[w] \in Sets /\ w \in members[held[w]]
  /\ \A s \in Sets : \A w \in members[s] : held[w] = s
  /\ entry # NoSet => members[entry] # {}

\* A call holds a Set that is not in the map only after a notify(), when
\* nobody waits unwoken.
DetachedMeansOver ==
  (\E v \in Waiters : at[v] # "idle" /\ held[v] # entry) =>
     settled /\ \A w \in Waiters : ~Expectant(w)

NotifierInv ==
  TypeOK /\ SetsMatchCalls /\ DetachedMeansOver /\ WaiterIsReachable /\ NothingLeaks

-------------------------------------------------------------------------------

\* There is a Set object to create: more Sets than calls that can hold one.
LEMMA NewSetExists ==
  ASSUME TypeOK, entry = NoSet
  PROVE  NewSet \in Sets /\ \A w \in Waiters : held[w] # NewSet
<1> DEFINE taken == {held[w] : w \in Waiters}
<1>1. IsFiniteSet(taken) /\ Cardinality(taken) <= Cardinality(Waiters)
  <2>1. held \in Surjection(Waiters, taken)
    BY DEF TypeOK, Surjection
  <2> QED
    BY <2>1, FS_Surjection, TerminalNotifierAssumption DEF ExistsSurjection
<1>2. \E s \in Sets : s \notin taken
  <2>1. SUFFICES ASSUME Sets \subseteq taken PROVE FALSE
    OBVIOUS
  <2>2. Cardinality(Sets) <= Cardinality(taken)
    BY <1>1, <2>1, FS_Subset
  <2>3. Cardinality(Sets) \in Nat /\ Cardinality(taken) \in Nat /\ Cardinality(Waiters) \in Nat
    BY <1>1, FS_CardinalityType, TerminalNotifierAssumption
  <2> QED
    BY <1>1, <2>2, <2>3, TerminalNotifierAssumption
<1>3. \E s \in Sets : s # entry /\ \A w \in Waiters : held[w] # s
  BY <1>2, TerminalNotifierAssumption
<1> QED
  BY <1>3 DEF NewSet

\* Nobody waits at the start.
LEMMA InitEstablishesNotifierInv == Init => NotifierInv
BY TerminalNotifierAssumption
   DEF Init, NotifierInv, TypeOK, SetsMatchCalls, DetachedMeansOver, WaiterIsReachable,
       NothingLeaks, Expectant

\* The finally block keeps the invariant, the removal of an entry included.
LEMMA LeaveKeepsNotifierInv ==
  ASSUME NotifierInv, NEW v \in Waiters, at[v] # "idle", Leave(v)
  PROVE  NotifierInv'
<1> USE TerminalNotifierAssumption DEF NotifierInv
<1>0. held[v] \in Sets /\ v \in members[held[v]]
  BY DEF SetsMatchCalls
<1>1. TypeOK'
  BY <1>0 DEF TypeOK, Leave
<1>2. SetsMatchCalls'
  BY <1>0 DEF TypeOK, SetsMatchCalls, Leave
<1>3. entry' = entry \/ (entry' = NoSet /\ members[held[v]] = {v})
  BY <1>0 DEF Leave
<1>4. ASSUME NEW w \in Waiters, at'[w] = "waiting", promise'[w] = "open"
      PROVE  entry' = entry /\ entry # NoSet /\ w \in members'[entry]
  <2>1. w # v /\ at[w] = "waiting" /\ promise[w] = "open"
    BY <1>4 DEF TypeOK, Leave
  <2>2. entry # NoSet /\ w \in members[entry] /\ Expectant(w)
    BY <2>1 DEF WaiterIsReachable, Expectant
  <2>3. held[v] = entry
    BY <2>2 DEF DetachedMeansOver
  <2> QED
    BY <1>0, <1>3, <2>1, <2>2, <2>3 DEF TypeOK, Leave
<1>5. WaiterIsReachable'
  BY <1>4 DEF WaiterIsReachable
<1>6. NothingLeaks'
  BY <1>0, <1>2 DEF NothingLeaks, SetsMatchCalls, TypeOK, Leave
<1>7. DetachedMeansOver'
  <2> SUFFICES ASSUME NEW u \in Waiters, at'[u] # "idle", held'[u] # entry'
               PROVE  settled' /\ \A w \in Waiters : ~Expectant(w)'
    BY DEF DetachedMeansOver
  <2>1. u # v /\ at[u] # "idle" /\ held[u] = held'[u]
    BY DEF TypeOK, Leave
  <2>2. held[u] # entry \/ held[v] # entry
    <3>1. SUFFICES ASSUME held[u] = entry PROVE held[v] # entry
      OBVIOUS
    <3>2. members[held[v]] = {v} /\ u \in members[entry]
      BY <1>3, <2>1, <3>1 DEF SetsMatchCalls
    <3> QED
      BY <2>1, <3>2
  <2>3. settled /\ \A w \in Waiters : ~Expectant(w)
    BY <2>1, <2>2 DEF DetachedMeansOver
  <2> QED
    BY <2>3 DEF Expectant, TypeOK, Leave
<1> QED
  BY <1>1, <1>2, <1>5, <1>6, <1>7

\* Every step of a caller, the poller or the store keeps the invariant.
LEMMA StepKeepsNotifierInv == NotifierInv /\ [Next]_notifierVars => NotifierInv'
<1> USE TerminalNotifierAssumption DEF NotifierInv
<1> SUFFICES ASSUME NotifierInv, [Next]_notifierVars
             PROVE  NotifierInv'
  OBVIOUS
<1>1. ASSUME NEW w \in Waiters, Register(w)
      PROVE  NotifierInv'
  <2> DEFINE s == IF entry = NoSet THEN NewSet ELSE entry
  <2>1. s \in Sets /\ (entry = NoSet => \A u \in Waiters : held[u] # s)
    BY NewSetExists DEF TypeOK
  <2>2. entry = NoSet => members[s] = {}
    BY <2>1 DEF TypeOK, SetsMatchCalls
  <2>3. /\ at[w] = "idle" /\ held[w] = NoSet
        /\ held' = [held EXCEPT ![w] = s]
        /\ members' = [members EXCEPT ![s] = @ \union {w}]
        /\ entry' = s
        /\ at' = [at EXCEPT ![w] = "reading"]
        /\ UNCHANGED <<settled, promise>>
    BY <1>1 DEF Register, SetsMatchCalls
  <2> HIDE DEF s
  <2>4. TypeOK'
    BY <2>1, <2>3 DEF TypeOK
  <2>5. SetsMatchCalls'
    BY <2>1, <2>2, <2>3 DEF TypeOK, SetsMatchCalls
  <2>6. WaiterIsReachable'
    BY <2>1, <2>2, <2>3 DEF TypeOK, WaiterIsReachable, s
  <2>7. NothingLeaks'
    BY <2>1, <2>2, <2>3 DEF TypeOK, SetsMatchCalls, NothingLeaks
  <2>8. DetachedMeansOver'
    <3> SUFFICES ASSUME NEW v \in Waiters, at'[v] # "idle", held'[v] # entry'
                 PROVE  settled' /\ \A u \in Waiters : ~Expectant(u)'
      BY DEF DetachedMeansOver
    <3>1. v # w /\ at[v] # "idle" /\ held[v] # entry
      BY <2>1, <2>3 DEF TypeOK, SetsMatchCalls, s
    <3> QED
      BY <2>3, <3>1 DEF DetachedMeansOver, Expectant, TypeOK
  <2> QED
    BY <2>4, <2>5, <2>6, <2>7, <2>8
<1>2. ASSUME NEW w \in Waiters, ReadPending(w)
      PROVE  NotifierInv'
  <2>1. promise[w] = "open" => Expectant(w)
    BY <1>2 DEF ReadPending, Expectant
  <2>2. promise[w] = "open" => held[w] = entry /\ entry # NoSet /\ w \in members[entry]
    BY <1>2, <2>1 DEF ReadPending, DetachedMeansOver, SetsMatchCalls
  <2>3. TypeOK' /\ SetsMatchCalls' /\ NothingLeaks'
    BY <1>2 DEF ReadPending, TypeOK, SetsMatchCalls, NothingLeaks
  <2>4. WaiterIsReachable'
    BY <1>2, <2>2 DEF ReadPending, TypeOK, WaiterIsReachable
  <2>5. DetachedMeansOver'
    BY <1>2 DEF ReadPending, TypeOK, DetachedMeansOver, Expectant
  <2> QED
    BY <2>3, <2>4, <2>5
<1>3. ASSUME NEW w \in Waiters, ReadEnds(w) \/ Wake(w) \/ RereadEnds(w)
      PROVE  NotifierInv'
  BY <1>3, LeaveKeepsNotifierInv DEF ReadEnds, Wake, RereadEnds
<1>4. ASSUME NEW w \in Waiters, Expire(w)
      PROVE  NotifierInv'
  <2>1. TypeOK' /\ SetsMatchCalls' /\ NothingLeaks'
    BY <1>4 DEF Expire, TypeOK, SetsMatchCalls, NothingLeaks
  <2>2. WaiterIsReachable' /\ DetachedMeansOver'
    BY <1>4 DEF Expire, TypeOK, WaiterIsReachable, DetachedMeansOver, Expectant
  <2> QED
    BY <2>1, <2>2
<1>5. ASSUME NEW w \in Waiters, Reread(w)
      PROVE  NotifierInv'
  <2>1. TypeOK' /\ SetsMatchCalls' /\ NothingLeaks'
    BY <1>5 DEF Reread, TypeOK, SetsMatchCalls, NothingLeaks
  <2>2. WaiterIsReachable' /\ DetachedMeansOver'
    BY <1>5 DEF Reread, TypeOK, WaiterIsReachable, DetachedMeansOver, Expectant
  <2> QED
    BY <2>1, <2>2
<1>6. CASE Settle
  BY <1>6 DEF Settle, TypeOK, SetsMatchCalls, NothingLeaks, WaiterIsReachable,
              DetachedMeansOver, Expectant
<1>7. CASE Notify
  <2>1. TypeOK' /\ SetsMatchCalls' /\ NothingLeaks'
    BY <1>7 DEF Notify, TypeOK, SetsMatchCalls, NothingLeaks
  <2>2. \A w \in Waiters : ~(at'[w] = "waiting" /\ promise'[w] = "open")
    BY <1>7 DEF Notify, TypeOK, WaiterIsReachable
  <2>3. settled' /\ \A w \in Waiters : ~Expectant(w)'
    BY <1>7, <2>2 DEF Notify, Expectant
  <2> QED
    BY <2>1, <2>2, <2>3 DEF WaiterIsReachable, DetachedMeansOver
<1>8. CASE UNCHANGED notifierVars
  BY <1>8 DEF notifierVars, TypeOK, SetsMatchCalls, NothingLeaks, WaiterIsReachable,
              DetachedMeansOver, Expectant
<1> QED
  BY <1>1, <1>2, <1>3, <1>4, <1>5, <1>6, <1>7, <1>8 DEF Next, WaiterStep

\* The inductive invariant holds for any number of calls and interleavings.
THEOREM NotifierInvariant == Spec => []NotifierInv
BY InitEstablishesNotifierInv, StepKeepsNotifierInv, PTL DEF Spec

\* No wake-up is ever lost: an unwoken call is where notify() will look.
THEOREM NoWakeupLost == Spec => []WaiterIsReachable
<1>1. NotifierInv => WaiterIsReachable
  BY DEF NotifierInv
<1> QED
  BY <1>1, NotifierInvariant, PTL

\* The waiters map holds an entry only while a call is in it.
THEOREM NoEntryLeaks == Spec => []NothingLeaks
<1>1. NotifierInv => NothingLeaks
  BY DEF NotifierInv
<1> QED
  BY <1>1, NotifierInvariant, PTL

-------------------------------------------------------------------------------
(* The limiter *)

\* Who is in the queue waits, and is in it once.
QueueMatchesCalls ==
  /\ \A i \in 1 .. Len(queue) : turn[queue[i]] = "queued"
  /\ \A i, j \in 1 .. Len(queue) : queue[i] = queue[j] => i = j

LimiterInv ==
  LimiterTypeOK /\ QueueMatchesCalls /\ NoSlotWasted /\ active <= Limit

-------------------------------------------------------------------------------

\* The holders of slots are finitely many.
LEMMA HoldersFinite ==
  /\ IsFiniteSet(Holders)
  /\ Cardinality(Holders) \in Nat
<1>1. IsFiniteSet(Holders)
  BY FS_Subset, WorkLimiterAssumption DEF Holders
<1> QED
  BY <1>1, FS_CardinalityType

\* All slots are free at the start.
LEMMA InitEstablishesLimiterInv == LimiterInit => LimiterInv
<1> SUFFICES ASSUME LimiterInit PROVE LimiterInv
  OBVIOUS
<1>1. Holders = {}
  BY DEF LimiterInit, Holders
<1>2. Cardinality(Holders) = 0
  BY <1>1, FS_EmptySet
<1> QED
  BY <1>2, WorkLimiterAssumption DEF LimiterInit, LimiterInv, LimiterTypeOK, QueueMatchesCalls, NoSlotWasted

\* Every step keeps the count of the slots.
LEMMA StepKeepsLimiterInv == LimiterInv /\ [LimiterNext]_limiterVars => LimiterInv'
<1> USE WorkLimiterAssumption, HoldersFinite DEF LimiterInv
<1> SUFFICES ASSUME LimiterInv, [LimiterNext]_limiterVars
             PROVE  LimiterInv'
  OBVIOUS
<1>1. ASSUME NEW c \in Calls, Enter(c)
      PROVE  LimiterInv'
  <2>1. Holders' = Holders \union {c} /\ c \notin Holders
    BY <1>1 DEF Enter, Holders, LimiterTypeOK
  <2>2. Cardinality(Holders') = Cardinality(Holders) + 1
    BY <2>1, FS_AddElement
  <2>3. LimiterTypeOK' /\ QueueMatchesCalls'
    BY <1>1 DEF Enter, LimiterTypeOK, QueueMatchesCalls
  <2> QED
    BY <1>1, <2>2, <2>3 DEF Enter, LimiterTypeOK, NoSlotWasted
<1>2. ASSUME NEW c \in Calls, Wait(c)
      PROVE  LimiterInv'
  <2>1. Holders' = Holders
    BY <1>2 DEF Wait, Holders, LimiterTypeOK
  <2>2. LimiterTypeOK'
    BY <1>2 DEF Wait, LimiterTypeOK
  <2>3. \A i \in 1 .. Len(queue) : queue[i] # c
    BY <1>2 DEF Wait, QueueMatchesCalls
  <2>4. /\ Len(queue') = Len(queue) + 1
        /\ \A i \in 1 .. Len(queue) : queue'[i] = queue[i]
        /\ queue'[Len(queue) + 1] = c
    BY <1>2, AppendProperties DEF Wait, LimiterTypeOK
  <2>5. QueueMatchesCalls'
    BY <1>2, <2>2, <2>3, <2>4 DEF Wait, LimiterTypeOK, QueueMatchesCalls
  <2>6. NoSlotWasted' /\ active' <= Limit
    BY <1>2, <2>1 DEF Wait, LimiterTypeOK, NoSlotWasted
  <2> QED
    BY <2>2, <2>5, <2>6
<1>3. ASSUME NEW c \in Calls, Resume(c)
      PROVE  LimiterInv'
  <2>1. Holders' = Holders
    BY <1>3 DEF Resume, Holders, LimiterTypeOK
  <2>2. LimiterTypeOK' /\ QueueMatchesCalls'
    BY <1>3 DEF Resume, LimiterTypeOK, QueueMatchesCalls
  <2> QED
    BY <1>3, <2>1, <2>2 DEF Resume, NoSlotWasted
<1>4. ASSUME NEW c \in Calls, HandOver(c)
      PROVE  LimiterInv'
  <2> DEFINE h == Head(queue)
  <2>1. h \in Calls /\ h = queue[1] /\ Len(queue) \in Nat /\ Len(queue) > 0
    BY <1>4, HeadTailProperties DEF HandOver, LimiterTypeOK
  <2>2. turn[h] = "queued" /\ h # c
    BY <1>4, <2>1 DEF HandOver, QueueMatchesCalls
  <2>3. turn' = [turn EXCEPT ![c] = "out", ![h] = "woken"] /\ queue' = Tail(queue)
        /\ active' = active
    BY <1>4 DEF HandOver
  <2>4. /\ queue' \in Seq(Calls)
        /\ Len(queue') = Len(queue) - 1
        /\ \A i \in 1 .. Len(queue') : queue'[i] = queue[i + 1]
    BY <1>4, <2>3, HeadTailProperties DEF HandOver, LimiterTypeOK
  <2> HIDE DEF h
  <2>5. LimiterTypeOK'
    BY <2>1, <2>3, <2>4 DEF LimiterTypeOK
  <2>6. QueueMatchesCalls'
    <3>1. \A i \in 1 .. Len(queue') : queue'[i] # h /\ queue'[i] # c /\ queue'[i] \in Calls
      BY <1>4, <2>1, <2>4 DEF HandOver, QueueMatchesCalls, LimiterTypeOK
    <3> QED
      BY <2>1, <2>3, <2>4, <3>1 DEF LimiterTypeOK, QueueMatchesCalls
  <2>7. Holders' = (Holders \ {c}) \union {h} /\ c \in Holders /\ h \notin Holders \ {c}
    BY <1>4, <2>1, <2>2, <2>3 DEF HandOver, Holders, LimiterTypeOK
  <2>8. IsFiniteSet(Holders \ {c}) /\ Cardinality(Holders \ {c}) = Cardinality(Holders) - 1
    BY <2>7, FS_RemoveElement
  <2>9. Cardinality(Holders') = Cardinality(Holders)
    <3>1. Cardinality((Holders \ {c}) \union {h}) = Cardinality(Holders \ {c}) + 1
      BY <2>7, <2>8, FS_AddElement
    <3> QED
      BY <2>7, <2>8, <3>1
  <2>10. NoSlotWasted' /\ active' <= Limit
    BY <1>4, <2>3, <2>9 DEF HandOver, NoSlotWasted
  <2> QED
    BY <2>5, <2>6, <2>10
<1>5. ASSUME NEW c \in Calls, Release(c)
      PROVE  LimiterInv'
  <2>1. Holders' = Holders \ {c} /\ c \in Holders
    BY <1>5 DEF Release, Holders, LimiterTypeOK
  <2>2. Cardinality(Holders') = Cardinality(Holders) - 1
    BY <2>1, FS_RemoveElement
  <2>3. Cardinality(Holders) > 0
    BY <2>1, FS_EmptySet
  <2>4. LimiterTypeOK' /\ QueueMatchesCalls'
    BY <1>5, <2>3 DEF Release, LimiterTypeOK, QueueMatchesCalls, NoSlotWasted
  <2> QED
    BY <1>5, <2>2, <2>4 DEF Release, LimiterTypeOK, NoSlotWasted
<1>6. CASE UNCHANGED limiterVars
  <2>1. Holders' = Holders
    BY <1>6 DEF limiterVars, Holders
  <2> QED
    BY <1>6, <2>1 DEF limiterVars, LimiterTypeOK, QueueMatchesCalls, NoSlotWasted
<1> QED
  BY <1>1, <1>2, <1>3, <1>4, <1>5, <1>6 DEF LimiterNext

\* The inductive invariant of the limiter.
THEOREM LimiterInvariant == LimiterSpec => []LimiterInv
BY InitEstablishesLimiterInv, StepKeepsLimiterInv, PTL DEF LimiterSpec

\* Never more than Limit calls hold a slot, for any limit and number of calls.
THEOREM NeverAboveLimit == LimiterSpec => []RunsWithinLimit
<1>1. LimiterInv => RunsWithinLimit
  BY DEF LimiterInv, NoSlotWasted, RunsWithinLimit
<1> QED
  BY <1>1, LimiterInvariant, PTL

\* active counts the slots in use, and nobody waits for a slot that is free.
THEOREM NoSlotLost == LimiterSpec => []NoSlotWasted
<1>1. LimiterInv => NoSlotWasted
  BY DEF LimiterInv
<1> QED
  BY <1>1, LimiterInvariant, PTL

-------------------------------------------------------------------------------
(* The path *)

\* A step of the path is a step of the notifier, or none of it.
LEMMA PathStepOfNotifier == [PathNext]_pathVars => [Next]_notifierVars
<1> SUFFICES ASSUME [PathNext]_pathVars PROVE [Next]_notifierVars
  OBVIOUS
<1>1. CASE UNCHANGED pathVars
  BY <1>1 DEF pathVars
<1>2. ASSUME NEW c \in Calls, Deliver(c) \/ Continue(c) \/ HandlerReturns(c)
      PROVE  UNCHANGED notifierVars
  BY <1>2 DEF Deliver, Continue, HandlerReturns, Limiting
<1>3. CASE HandlerThrows
  BY <1>3 DEF HandlerThrows
<1>4. CASE SettleResolved \/ Confirm
  BY <1>4 DEF SettleResolved, Confirm, Next
<1>5. ASSUME NEW w \in Waiters, Observe(w) PROVE Next
  BY <1>5 DEF Observe, Next
<1> QED
  BY <1>1, <1>2, <1>3, <1>4, <1>5 DEF PathNext

\* A step of the path is a step of the limiter, or none of it.
LEMMA PathStepOfLimiter == [PathNext]_pathVars => [LimiterNext]_limiterVars
<1> SUFFICES ASSUME [PathNext]_pathVars PROVE [LimiterNext]_limiterVars
  OBVIOUS
<1>1. CASE UNCHANGED pathVars
  BY <1>1 DEF pathVars
<1>2. ASSUME NEW c \in Calls, Deliver(c) \/ Continue(c) \/ HandlerReturns(c)
      PROVE  LimiterNext
  BY <1>2 DEF Deliver, Continue, HandlerReturns, GiveSlot, LimiterNext
<1>3. CASE HandlerThrows
  BY <1>3, CompletionPathAssumption DEF HandlerThrows, GiveSlot, LimiterNext
<1>4. CASE SettleResolved \/ Confirm
  BY <1>4 DEF SettleResolved, Confirm, Notifying, limiterVars
<1>5. ASSUME NEW w \in Waiters, Observe(w) PROVE UNCHANGED limiterVars
  BY <1>5 DEF Observe, Notifying
<1> QED
  BY <1>1, <1>2, <1>3, <1>4, <1>5 DEF PathNext

\* The path runs its two components by their own specifications: handlers that
\* fail and are delivered again give the limiter no behaviour of their own, and
\* the notifier learns nothing of slots.
THEOREM PathRunsItsParts == PathSpec => Spec /\ LimiterSpec
<1>1. PathInit => Init /\ LimiterInit
  BY DEF PathInit
<1> QED
  BY <1>1, PathStepOfNotifier, PathStepOfLimiter, PTL DEF PathSpec, Spec, LimiterSpec

\* A request of condition K-A that waits is where the settlement will look for
\* it, however the handlers around it share the slots, fail and are repeated.
THEOREM PathLosesNoWakeup == PathSpec => []WaiterIsReachable
BY PathRunsItsParts, NoWakeupLost, PTL

\* Handlers that throw and are delivered again neither lose nor leave a slot.
THEOREM PathLosesNoSlot == PathSpec => []NoSlotWasted
BY PathRunsItsParts, NoSlotLost, PTL
===============================================================================
