---------------------------- MODULE TerminalNotifier ----------------------------
(***************************************************************************)
(* TerminalNotifier for one transfer: wait(), which KafkaChoreography's    *)
(* execute() ends with, and notify(), which every settlement's             *)
(* confirmTerminal() calls, and every handler of a final event again.      *)
(*                                                                         *)
(* The entry of the waiters map is a Set object that waiters share and     *)
(* keep a reference to; it can be taken out of the map while they still    *)
(* hold it, so Set objects have identities here.                           *)
(***************************************************************************)
EXTENDS Naturals, FiniteSets

CONSTANTS
  Waiters,   \* calls of wait() that may be made, one after another
  Sets,      \* identities of Set objects
  NoSet      \* no entry in the map; a call that holds no Set

ASSUME TerminalNotifierAssumption ==
  /\ NoSet \notin Sets
  /\ IsFiniteSet(Waiters)
  /\ IsFiniteSet(Sets)
  /\ Cardinality(Sets) > Cardinality(Waiters)

VARIABLES
  settled,   \* the transfer's row has a final status
  at,        \* at[w]: "idle", "reading", "waiting" or "rereading"
  promise,   \* promise[w]: "open", or what finish() was first called with
  held,      \* held[w]: the Set that w put its finish() in
  members,   \* members[s]: the waiters whose finish() is in Set s
  entry      \* the Set in the waiters map

notifierVars == <<settled, at, promise, held, members, entry>>

Init ==
  /\ settled = FALSE
  /\ at = [w \in Waiters |-> "idle"]
  /\ promise = [w \in Waiters |-> "open"]
  /\ held = [w \in Waiters |-> NoSet]
  /\ members = [s \in Sets |-> {}]
  /\ entry = NoSet

-------------------------------------------------------------------------------
(* wait() *)

\* A Set nobody refers to.
NewSet == CHOOSE s \in Sets : s # entry /\ \A w \in Waiters : held[w] # s

\* finish() is registered and the timer is set, before the row is read.
Register(w) ==
  LET s == IF entry = NoSet THEN NewSet ELSE entry IN
  /\ at[w] = "idle"
  /\ held' = [held EXCEPT ![w] = s]
  /\ members' = [members EXCEPT ![s] = @ \union {w}]
  /\ entry' = s
  /\ at' = [at EXCEPT ![w] = "reading"]
  /\ UNCHANGED <<settled, promise>>

\* Mutant: the entry is taken out of the map, whoever is still in the Set.
AlwaysUnregister(w) ==
  /\ members' = [members EXCEPT ![held[w]] = @ \ {w}]
  /\ entry' = NoSet
  /\ held' = [held EXCEPT ![w] = NoSet]
  /\ promise' = [promise EXCEPT ![w] = "open"]
  /\ at' = [at EXCEPT ![w] = "idle"]
  /\ UNCHANGED settled

\* The finally block: the last waiter of a Set takes the entry out of the map,
\* whichever Set the entry is by now.
Leave(w) ==
  LET rest == members[held[w]] \ {w} IN
  /\ members' = [members EXCEPT ![held[w]] = rest]
  /\ entry' = IF rest = {} THEN NoSet ELSE entry
  /\ held' = [held EXCEPT ![w] = NoSet]
  /\ promise' = [promise EXCEPT ![w] = "open"]
  /\ at' = [at EXCEPT ![w] = "idle"]
  /\ UNCHANGED settled

ReadPending(w) ==
  /\ at[w] = "reading"
  /\ ~settled
  /\ at' = [at EXCEPT ![w] = "waiting"]
  /\ UNCHANGED <<settled, promise, held, members, entry>>

\* The row is settled, or reading it rejects: wait() ends.
ReadEnds(w) == at[w] = "reading" /\ Leave(w)

Wake(w) == at[w] = "waiting" /\ promise[w] = "record" /\ Leave(w)

Expire(w) ==
  /\ at[w] \in {"reading", "waiting"}
  /\ promise[w] = "open"
  /\ promise' = [promise EXCEPT ![w] = "null"]
  /\ UNCHANGED <<settled, at, held, members, entry>>

\* The time was up first: the row is read once more.
Reread(w) ==
  /\ at[w] = "waiting"
  /\ promise[w] = "null"
  /\ at' = [at EXCEPT ![w] = "rereading"]
  /\ UNCHANGED <<settled, promise, held, members, entry>>

RereadEnds(w) == at[w] = "rereading" /\ Leave(w)

-------------------------------------------------------------------------------
(* notify() *)

\* The transaction that settles the transfer commits.
Settle ==
  /\ ~settled
  /\ settled' = TRUE
  /\ UNCHANGED <<at, promise, held, members, entry>>

\* finish(record) for every member of the entry, which leaves the map.
Notify ==
  /\ settled
  /\ entry # NoSet
  /\ promise' = [w \in Waiters |->
       IF w \in members[entry] /\ promise[w] = "open" THEN "record" ELSE promise[w]]
  /\ entry' = NoSet
  /\ UNCHANGED <<settled, at, held, members>>

WaiterStep(w) ==
  \/ Register(w) \/ ReadPending(w) \/ ReadEnds(w)
  \/ Wake(w) \/ Expire(w) \/ Reread(w) \/ RereadEnds(w)

Next == (\E w \in Waiters : WaiterStep(w)) \/ Settle \/ Notify

Spec == Init /\ [][Next]_notifierVars

-------------------------------------------------------------------------------
(* Properties *)

TypeOK ==
  /\ settled \in BOOLEAN
  /\ at \in [Waiters -> {"idle", "reading", "waiting", "rereading"}]
  /\ promise \in [Waiters -> {"open", "record", "null"}]
  /\ held \in [Waiters -> Sets \union {NoSet}]
  /\ members \in [Sets -> SUBSET Waiters]
  /\ entry \in Sets \union {NoSet}

\* "wait() registers before reading current state, so a completion during
\* dispatch cannot be missed" (kafka-choreography.js): a call that waits and
\* has not been woken is in the Set the next notify() will read, although
\* other calls come and leave and may take the entry out of the map.
WaiterIsReachable ==
  \A w \in Waiters :
    at[w] = "waiting" /\ promise[w] = "open" => entry # NoSet /\ w \in members[entry]

\* The map holds no entry of a transfer that nobody waits for.
NothingLeaks ==
  /\ entry # NoSet => members[entry] # {}
  /\ \A s \in Sets : \A w \in members[s] : at[w] # "idle" /\ held[w] = s
===============================================================================
