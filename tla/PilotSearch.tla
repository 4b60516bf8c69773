------------------------------ MODULE PilotSearch -------------------------------
(***************************************************************************)
(* nextPilotStep(): the capacity pilot's search for the highest rate each  *)
(* condition sustains.  The trials of a batch run both conditions at one   *)
(* rate, and a trial is STABLE or UNSTABLE as the system under test has    *)
(* it: results need not be monotone in the rate, nor repeat themselves.    *)
(***************************************************************************)
EXTENDS PilotProtocol, Integers, FiniteSets, FiniteSetsExt

CONSTANTS
  StartRate, MaximumRate,
  RelativeWidth,        \* boundaryRelativeWidth, in percent
  ScreeningReplicates, BoundaryReplicates, FaultReplicates,
  LoadPercentages,      \* confirmatoryLoadPercentages
  FaultScenarios

ASSUME PilotSearchAssumption ==
  /\ {StartRate, MaximumRate, ScreeningReplicates, BoundaryReplicates, FaultReplicates}
       \subseteq Nat \ {0}
  /\ RelativeWidth \in Nat
  /\ LoadPercentages \subseteq Nat
  /\ IsFiniteSet(FaultScenarios)

VARIABLES
  stable,     \* stable[c]: rates with a STABLE record of condition c
  unstable,   \* unstable[c]: rates with an UNSTABLE one
  confirmed,  \* confirmed[c][r]: STABLE confirmation runs
  faultRuns,  \* faultRuns[c][f]: runs of fault scenario f
  decision    \* the action of the last nextPilotStep()

searchVars == <<stable, unstable, confirmed, faultRuns, decision>>

Rates == 1..MaximumRate
None == 0

SearchInit ==
  /\ stable = [c \in Conditions |-> {}]
  /\ unstable = [c \in Conditions |-> {}]
  /\ confirmed = [c \in Conditions |-> [r \in Rates |-> 0]]
  /\ faultRuns = [c \in Conditions |-> [f \in FaultScenarios |-> 0]]
  /\ decision = "RUN"

(***************************************************************************)
(* The boundaries of a condition: the lowest unstable rate, and the        *)
(* highest stable one below it.                                            *)
(***************************************************************************)
Upper(c) == IF unstable[c] = {} THEN None ELSE Min(unstable[c])

\* Mutant: a stable rate above an unstable one is a lower bound.
LowerAnywhere(c) == Max({None} \union stable[c])

Lower(c) ==
  LET upper == Upper(c)
  IN Max({None} \union {r \in stable[c] : upper = None \/ r < upper})

Resolved(c) ==
  LET lower == Lower(c)
      upper == Upper(c)
  IN /\ lower # None /\ upper # None
     /\ (upper - lower) * 100 <= RelativeWidth * lower

Settled(c) == Resolved(c) /\ confirmed[c][Lower(c)] >= BoundaryReplicates

\* The boundaries are settled in turn: the condition the next step is about.
Turn(c) == decision = "RUN" /\ ~Settled(c) /\ (c = "R-A" \/ Settled("R-A"))

\* Mutant: the bisection rounds up.
NextRateUp(c) ==
  IF Upper(c) # None THEN (Lower(c) + Upper(c) + 1) \div 2
  ELSE IF Lower(c) # None THEN 2 * Lower(c) ELSE StartRate

\* Double while nothing is unstable, then bisect.
NextRate(c) ==
  IF Upper(c) # None THEN (Lower(c) + Upper(c)) \div 2
  ELSE IF Lower(c) # None THEN 2 * Lower(c) ELSE StartRate

\* No stable rate, the ceiling, or the integers' resolution: no capacity claim.
Unresolvable(c) ==
  \/ Upper(c) # None /\ Lower(c) = None
  \/ ~Resolved(c) /\ (NextRate(c) > MaximumRate \/ NextRate(c) = Lower(c))

(***************************************************************************)
(* The batches.  good[c] of the n runs of condition c are STABLE.          *)
(***************************************************************************)
Record(rate, n, good) ==
  /\ stable' = [c \in Conditions |-> stable[c] \union {r \in {rate} : good[c] > 0}]
  /\ unstable' = [c \in Conditions |-> unstable[c] \union {r \in {rate} : good[c] < n}]

Screen(c) ==
  /\ Turn(c) /\ ~Unresolvable(c) /\ ~Resolved(c)
  /\ LET rate == NextRate(c)
     IN \E good \in [Conditions -> 0..ScreeningReplicates] :
          Record(rate, ScreeningReplicates, good)
  /\ UNCHANGED <<confirmed, faultRuns, decision>>

Confirm(c) ==
  /\ Turn(c) /\ Resolved(c)
  /\ LET rate == Lower(c)
     IN \E good \in [Conditions -> 0..BoundaryReplicates] :
          /\ Record(rate, BoundaryReplicates, good)
          /\ confirmed' = [d \in Conditions |-> [confirmed[d] EXCEPT ![rate] = @ + good[d]]]
  /\ UNCHANGED <<faultRuns, decision>>

Review(c) ==
  /\ Turn(c) /\ Unresolvable(c)
  /\ decision' = "REVIEW"
  /\ UNCHANGED <<stable, unstable, confirmed, faultRuns>>

SharedRate == Min({Lower(c) : c \in Conditions})

\* Math.round(rate * p / 100).
Percent(rate, p) == (2 * rate * p + 100) \div 200

GridIsUsable ==
  LET rate == SharedRate
  IN \A p, q \in LoadPercentages :
       /\ Percent(rate, p) > 0
       /\ p # q => Percent(rate, p) # Percent(rate, q)

BothSettled == decision = "RUN" /\ \A c \in Conditions : Settled(c)

FaultsComplete(f) == \A c \in Conditions : faultRuns[c][f] >= FaultReplicates

RejectGrid ==
  /\ BothSettled /\ ~GridIsUsable
  /\ decision' = "REVIEW"
  /\ UNCHANGED <<stable, unstable, confirmed, faultRuns>>

\* The fault runs' results are no capacity observations.  The scenarios' order
\* is left open.
InjectFaults ==
  /\ BothSettled /\ GridIsUsable
  /\ \E f \in FaultScenarios :
       /\ ~FaultsComplete(f)
       /\ faultRuns' = [c \in Conditions |-> [faultRuns[c] EXCEPT ![f] = @ + FaultReplicates]]
  /\ UNCHANGED <<stable, unstable, confirmed, decision>>

Complete ==
  /\ BothSettled /\ GridIsUsable
  /\ \A f \in FaultScenarios : FaultsComplete(f)
  /\ decision' = "COMPLETE"
  /\ UNCHANGED <<stable, unstable, confirmed, faultRuns>>

SearchNext ==
  \/ \E c \in Conditions : Screen(c) \/ Confirm(c) \/ Review(c)
  \/ RejectGrid \/ InjectFaults \/ Complete

\* The session asks for the next step as long as it is RUN.
SearchSpec == SearchInit /\ [][SearchNext]_searchVars /\ WF_searchVars(SearchNext)

(***************************************************************************)
(* Properties.                                                             *)
(***************************************************************************)
\* "The shared rate is the lower confirmed capacity": when the pilot completes,
\* each condition has its fresh confirmations at the shared rate, also the one
\* whose own boundary lies higher, and nothing unstable at or below it.
SharedRateHolds ==
  decision = "COMPLETE" =>
    \A c \in Conditions :
      /\ confirmed[c][SharedRate] >= BoundaryReplicates
      /\ \A r \in unstable[c] : r > SharedRate

\* However the trials turn out, and however they contradict each other, the
\* search comes to a decision.
SearchEnds == <>(decision # "RUN")
=================================================================================
