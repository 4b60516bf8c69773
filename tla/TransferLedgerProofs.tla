------------------------- MODULE TransferLedgerProofs -------------------------
(***************************************************************************)
(* Proofs about the open ledger, for every set of keys, accounts and       *)
(* commands.  LedgerInv is the inductive invariant: beside the properties  *)
(* it says that a transfer with a row has a valid command (so an entry     *)
(* moves a positive amount between two different accounts) and that an     *)
(* account without a row holds nothing (so the row a later transaction     *)
(* inserts starts from its opening balance).                               *)
(***************************************************************************)
EXTENDS TransferLedger, FiniteSetTheorems, WellFoundedInduction, TLAPS

-------------------------------------------------------------------------------
(* Sums over finite sets.  A fold is defined by recursion over the subsets of *)
(* its set, so each fact about it is an induction over them; the provers do   *)
(* not instantiate an induction principle, and each induction is the minimal  *)
(* element of the set of its counterexamples instead.                         *)

\* The sum of the values of f over S.
SumOf(f, S) == MapThenSumSet(LAMBDA x : f[x], S)

\* The element a fold takes from s.
Taken(s) == CHOOSE x \in s : TRUE

\* h is the recursive function by which the fold over S computes that sum.
SumRecursion(h, f, S) ==
  h = [s \in SUBSET S |-> IF s = {} THEN 0 ELSE f[Taken(s)] + h[s \ {Taken(s)}]]

\* Every collection of subsets of a finite set has one that contains no other.
LEMMA SmallestSubset ==
  ASSUME NEW X, IsFiniteSet(X), NEW T, T \subseteq SUBSET X, T # {}
  PROVE  \E m \in T : \A s \in T : s \subseteq m => s = m
<1>1. IsWellFoundedOn(StrictSubsetOrdering(X), SUBSET X)
  BY FS_StrictSubsetOrderingWellFounded, FS_FiniteSubsetsOfFinite
<1>2. PICK m \in T : \A s \in T : ~ (<<s, m>> \in StrictSubsetOrdering(X))
  BY <1>1, WFMin, SMT
<1> QED
  BY <1>2 DEF StrictSubsetOrdering

\* The sum is what that function yields for the whole set.
LEMMA SumOfFunction ==
  ASSUME NEW f, NEW S
  PROVE  SumOf(f, S) = (CHOOSE h : SumRecursion(h, f, S))[S]
BY DEF SumOf, MapThenSumSet, MapThenFoldSet, SumRecursion, Taken

\* Two such functions agree on every subset both are defined on.
LEMMA SumRecursionsAgree ==
  ASSUME NEW X, IsFiniteSet(X), NEW f, NEW S1 \in SUBSET X, NEW S2 \in SUBSET X,
         NEW h1, NEW h2, SumRecursion(h1, f, S1), SumRecursion(h2, f, S2),
         NEW s \in SUBSET S1, s \in SUBSET S2
  PROVE  h1[s] = h2[s]
<1> DEFINE T == {t \in SUBSET X : t \subseteq S1 /\ t \subseteq S2 /\ h1[t] # h2[t]}
<1>1. SUFFICES ASSUME T # {} PROVE FALSE
  OBVIOUS
<1>2. PICK m \in T : \A t \in T : t \subseteq m => t = m
  <2> HIDE DEF T
  <2>1. T \subseteq SUBSET X
    BY DEF T
  <2> QED
    BY <1>1, <2>1, SmallestSubset
<1>3. /\ h1[m] = IF m = {} THEN 0 ELSE f[Taken(m)] + h1[m \ {Taken(m)}]
      /\ h2[m] = IF m = {} THEN 0 ELSE f[Taken(m)] + h2[m \ {Taken(m)}]
  BY <1>2 DEF SumRecursion
<1>4. m # {}
  BY <1>2, <1>3
<1>5. Taken(m) \in m
  BY <1>4 DEF Taken
<1>6. h1[m \ {Taken(m)}] = h2[m \ {Taken(m)}]
  BY <1>2, <1>5
<1> QED
  BY <1>2, <1>3, <1>6

\* There is such a function for every finite set.
LEMMA SumRecursionExists ==
  ASSUME NEW X, IsFiniteSet(X), NEW f
  PROVE  \E h : SumRecursion(h, f, X)
<1> DEFINE T == {t \in SUBSET X : ~ \E h : SumRecursion(h, f, t)}
<1>1. SUFFICES ASSUME T # {} PROVE FALSE
  OBVIOUS
<1>2. PICK m \in T : \A t \in T : t \subseteq m => t = m
  <2> HIDE DEF T
  <2>1. T \subseteq SUBSET X
    BY DEF T
  <2> QED
    BY <1>1, <2>1, SmallestSubset
<1> DEFINE G(t) == CHOOSE h : SumRecursion(h, f, t)
           v(t) == IF t = {} THEN 0 ELSE f[Taken(t)] + G(t \ {Taken(t)})[t \ {Taken(t)}]
           g == [t \in SUBSET m |-> v(t)]
<1>3. ASSUME NEW t \in SUBSET m, t # m PROVE SumRecursion(G(t), f, t)
  BY <1>2, <1>3
<1>4. ASSUME NEW t \in SUBSET m, t # m PROVE G(t)[t] = v(t)
  <2>1. CASE t = {}
    <3>1. SumRecursion(G(t), f, t)
      BY <1>3, <1>4
    <3> HIDE DEF G
    <3> QED
      BY <2>1, <3>1 DEF SumRecursion
  <2>2. CASE t # {}
    <3>1. Taken(t) \in t
      BY <2>2 DEF Taken
    <3> DEFINE r == t \ {Taken(t)}
    <3>2. r \in SUBSET m /\ r # m /\ r \in SUBSET t /\ r \in SUBSET X /\ t \in SUBSET X
      BY <3>1, <1>2
    <3>3. SumRecursion(G(t), f, t) /\ SumRecursion(G(r), f, r)
      BY <3>2, <1>3, <1>4
    <3>4. G(t)[r] = G(r)[r]
      <4> HIDE DEF r, G
      <4> QED
        BY <3>2, <3>3, SumRecursionsAgree
    <3>5. G(t)[t] = f[Taken(t)] + G(t)[r]
      <4> HIDE DEF G
      <4> QED
        BY <3>3, <2>2 DEF SumRecursion
    <3> QED
      BY <3>4, <3>5, <2>2
  <2> QED
    BY <2>1, <2>2
<1>5. ASSUME NEW t \in SUBSET m, t # {} PROVE g[t \ {Taken(t)}] = G(t \ {Taken(t)})[t \ {Taken(t)}]
  <2>1. Taken(t) \in t
    BY <1>5 DEF Taken
  <2> DEFINE r == t \ {Taken(t)}
  <2>2. r \in SUBSET m /\ r # m
    BY <2>1
  <2>3. g[r] = v(r)
    BY <2>2
  <2>4. G(r)[r] = v(r)
    BY <2>2, <1>4
  <2> QED
    BY <2>3, <2>4
<1>6. SumRecursion(g, f, m)
  <2>1. ASSUME NEW t \in SUBSET m
        PROVE  g[t] = IF t = {} THEN 0 ELSE f[Taken(t)] + g[t \ {Taken(t)}]
    <3>1. g[t] = v(t)
      OBVIOUS
    <3>2. CASE t = {}
      BY <3>1, <3>2
    <3>3. CASE t # {}
      <4>1. g[t \ {Taken(t)}] = G(t \ {Taken(t)})[t \ {Taken(t)}]
        BY <1>5, <3>3
      <4> HIDE DEF g, G
      <4> QED
        BY <3>1, <3>3, <4>1
    <3> QED
      BY <3>2, <3>3
  <2>2. g = [t \in SUBSET m |-> g[t]]
    OBVIOUS
  <2> HIDE DEF g
  <2> QED
    BY <2>1, <2>2 DEF SumRecursion
<1> QED
  BY <1>2, <1>6

\* The recursion of the sum over a non-empty finite set.
LEMMA SumOfTaken ==
  ASSUME NEW X, IsFiniteSet(X), NEW f
  PROVE  SumOf(f, X) = IF X = {} THEN 0 ELSE f[Taken(X)] + SumOf(f, X \ {Taken(X)})
<1> DEFINE r == X \ {Taken(X)}
           h == CHOOSE g : SumRecursion(g, f, X)
           k == CHOOSE g : SumRecursion(g, f, r)
<1>1. r \in SUBSET X /\ IsFiniteSet(r)
  BY FS_Subset
<1>2. SumRecursion(h, f, X) /\ SumRecursion(k, f, r)
  BY <1>1, SumRecursionExists
<1>3. SumOf(f, X) = h[X] /\ SumOf(f, r) = k[r]
  BY SumOfFunction
<1>4. h[X] = IF X = {} THEN 0 ELSE f[Taken(X)] + h[r]
  <2> HIDE DEF h
  <2> QED
    BY <1>2 DEF SumRecursion
<1>5. h[r] = k[r]
  <2> HIDE DEF h, k, r
  <2> QED
    BY <1>1, <1>2, SumRecursionsAgree
<1> QED
  BY <1>3, <1>4, <1>5

\* The empty sum.
LEMMA SumOfEmpty == ASSUME NEW f PROVE SumOf(f, {}) = 0
BY SumOfTaken, FS_EmptySet

\* A finite sum of integers is an integer.
LEMMA SumOfType ==
  ASSUME NEW X, IsFiniteSet(X), NEW f, \A x \in X : f[x] \in Int
  PROVE  SumOf(f, X) \in Int
<1> DEFINE T == {t \in SUBSET X : SumOf(f, t) \notin Int}
<1>1. SUFFICES ASSUME T # {} PROVE FALSE
  OBVIOUS
<1>2. PICK m \in T : \A t \in T : t \subseteq m => t = m
  <2> HIDE DEF T
  <2>1. T \subseteq SUBSET X
    BY DEF T
  <2> QED
    BY <1>1, <2>1, SmallestSubset
<1>3. SumOf(f, m) = IF m = {} THEN 0 ELSE f[Taken(m)] + SumOf(f, m \ {Taken(m)})
  BY <1>2, SumOfTaken, FS_Subset
<1>4. m # {}
  BY <1>2, <1>3
<1>5. Taken(m) \in m
  BY <1>4 DEF Taken
<1>6. SumOf(f, m \ {Taken(m)}) \in Int
  BY <1>2, <1>5
<1> QED
  BY <1>2, <1>3, <1>5, <1>6

\* Any element may be taken out of a finite sum.
LEMMA SumOfRemove ==
  ASSUME NEW X, IsFiniteSet(X), NEW f, \A x \in X : f[x] \in Int, NEW c \in X
  PROVE  SumOf(f, X) = f[c] + SumOf(f, X \ {c})
<1> DEFINE T == {t \in SUBSET X : \E x \in t : SumOf(f, t) # f[x] + SumOf(f, t \ {x})}
<1>1. SUFFICES ASSUME T # {} PROVE FALSE
  OBVIOUS
<1>2. PICK m \in T : \A t \in T : t \subseteq m => t = m
  <2> HIDE DEF T
  <2>1. T \subseteq SUBSET X
    BY DEF T
  <2> QED
    BY <1>1, <2>1, SmallestSubset
<1>3. PICK x \in m : SumOf(f, m) # f[x] + SumOf(f, m \ {x})
  BY <1>2
<1> DEFINE y == Taken(m)
<1>4. y \in m
  BY <1>3 DEF Taken
<1>5. SumOf(f, m) = f[y] + SumOf(f, m \ {y})
  BY <1>2, <1>3, SumOfTaken, FS_Subset
<1>6. x # y
  BY <1>3, <1>5
<1> HIDE DEF y
<1> DEFINE r == m \ {x, y}
<1>7. /\ (m \ {y}) \ {x} = r /\ (m \ {x}) \ {y} = r
      /\ m \ {y} \in SUBSET X /\ m \ {x} \in SUBSET X
      /\ x \in m \ {y} /\ y \in m \ {x}
  BY <1>2, <1>4, <1>6
<1>8. SumOf(f, m \ {y}) = f[x] + SumOf(f, r)
  BY <1>2, <1>4, <1>7
<1>9. SumOf(f, m \ {x}) = f[y] + SumOf(f, r)
  BY <1>2, <1>7
<1>10. SumOf(f, r) \in Int /\ f[x] \in Int /\ f[y] \in Int
  <2>1. IsFiniteSet(r) /\ r \in SUBSET X
    BY <1>2, FS_Subset
  <2> QED
    BY <2>1, <1>2, <1>4, SumOfType
<1> QED
  BY <1>3, <1>5, <1>8, <1>9, <1>10

\* Functions that agree on a finite set have one sum over it.
LEMMA SumOfSame ==
  ASSUME NEW X, IsFiniteSet(X), NEW f, NEW g, \A x \in X : f[x] = g[x]
  PROVE  SumOf(f, X) = SumOf(g, X)
<1> DEFINE T == {t \in SUBSET X : SumOf(f, t) # SumOf(g, t)}
<1>1. SUFFICES ASSUME T # {} PROVE FALSE
  OBVIOUS
<1>2. PICK m \in T : \A t \in T : t \subseteq m => t = m
  <2> HIDE DEF T
  <2>1. T \subseteq SUBSET X
    BY DEF T
  <2> QED
    BY <1>1, <2>1, SmallestSubset
<1>3. /\ SumOf(f, m) = IF m = {} THEN 0 ELSE f[Taken(m)] + SumOf(f, m \ {Taken(m)})
      /\ SumOf(g, m) = IF m = {} THEN 0 ELSE g[Taken(m)] + SumOf(g, m \ {Taken(m)})
  BY <1>2, SumOfTaken, FS_Subset
<1>4. m # {}
  BY <1>2, <1>3
<1>5. Taken(m) \in m
  BY <1>4 DEF Taken
<1>6. SumOf(f, m \ {Taken(m)}) = SumOf(g, m \ {Taken(m)})
  BY <1>2, <1>5
<1> QED
  BY <1>2, <1>3, <1>5, <1>6

\* A sum grows by what is added at one element.
LEMMA SumOfChange ==
  ASSUME NEW X, IsFiniteSet(X), NEW f, NEW g, NEW c \in X,
         \A x \in X : f[x] \in Int /\ g[x] \in Int,
         \A x \in X \ {c} : f[x] = g[x]
  PROVE  SumOf(g, X) = SumOf(f, X) + g[c] - f[c]
<1> DEFINE r == X \ {c}
<1>1. IsFiniteSet(r)
  BY FS_Subset
<1>2. SumOf(f, r) = SumOf(g, r) /\ SumOf(f, r) \in Int
  BY <1>1, SumOfSame, SumOfType
<1>3. SumOf(f, X) = f[c] + SumOf(f, r) /\ SumOf(g, X) = g[c] + SumOf(g, r)
  BY SumOfRemove
<1> QED
  BY <1>2, <1>3

\* A new element adds its value to a finite sum.
LEMMA SumOfAdd ==
  ASSUME NEW X, IsFiniteSet(X), NEW c, c \notin X, NEW f,
         \A x \in X \union {c} : f[x] \in Int
  PROVE  SumOf(f, X \union {c}) = SumOf(f, X) + f[c]
<1>1. IsFiniteSet(X \union {c}) /\ (X \union {c}) \ {c} = X
  BY FS_AddElement
<1>2. SumOf(f, X \union {c}) = f[c] + SumOf(f, X)
  BY <1>1, SumOfRemove, c \in X \union {c}
<1>3. SumOf(f, X) \in Int /\ f[c] \in Int
  BY SumOfType
<1> QED
  BY <1>2, <1>3

\* The sum of the amounts of a set of records.
AmountsOf(S) == MapThenSumSet(LAMBDA e : e.amount, S)

\* It is a sum of the other form.
LEMMA AmountsAreASum ==
  ASSUME NEW S, IsFiniteSet(S)
  PROVE  AmountsOf(S) = SumOf([e \in S |-> e.amount], S)
<1> DEFINE f == [e \in S |-> e.amount]
           A(h) == h = [s \in SUBSET S |->
                          IF s = {} THEN 0 ELSE Taken(s).amount + h[s \ {Taken(s)}]]
           a == CHOOSE h : A(h)
           k == CHOOSE h : SumRecursion(h, f, S)
<1>1. AmountsOf(S) = a[S]
  BY DEF AmountsOf, MapThenSumSet, MapThenFoldSet, Taken
<1>2. ASSUME NEW h PROVE A(h) <=> SumRecursion(h, f, S)
  <2>1. ASSUME NEW s \in SUBSET S
        PROVE  (IF s = {} THEN 0 ELSE Taken(s).amount + h[s \ {Taken(s)}])
                 = (IF s = {} THEN 0 ELSE f[Taken(s)] + h[s \ {Taken(s)}])
    <3>1. s # {} => Taken(s) \in s
      BY DEF Taken
    <3> QED
      BY <3>1
  <2> HIDE DEF f
  <2> QED
    BY <2>1 DEF SumRecursion
<1>3. SumRecursion(k, f, S)
  BY SumRecursionExists
<1>4. SumRecursion(a, f, S)
  <2>1. A(a)
    <3> HIDE DEF k, f
    <3>1. \E h : A(h)
      BY <1>2, <1>3
    <3> QED
      BY <3>1
  <2> HIDE DEF a, f, A
  <2> QED
    BY <1>2, <2>1
<1>5. a[S] = k[S]
  <2> HIDE DEF a, k, f, A
  <2> QED
    BY <1>3, <1>4, SumRecursionsAgree
<1>6. SumOf(f, S) = k[S]
  <2> HIDE DEF f
  <2> QED
    BY SumOfFunction
<1> QED
  BY <1>1, <1>5, <1>6
-------------------------------------------------------------------------------
(* The inductive invariant *)

CommandsBound ==
  \A k \in Keys :
    IF state[k] = "NONE" THEN command[k] = NoCommand
    ELSE command[k] \in Commands /\ ValidCommand(command[k])

UnopenedAreEmpty ==
  \A a \in Accounts \ opened : balance[a] = 0 /\ opening[a] = 0

LedgerInv ==
  /\ LedgerTypeOK
  /\ CommandsBound
  /\ UnopenedAreEmpty
  /\ NoOverdraft
  /\ LedgerMatchesTransfers

-------------------------------------------------------------------------------

\* The initial database satisfies the invariant.
LEMMA InitEstablishesInv == LedgerInit => LedgerInv
<1> SUFFICES ASSUME LedgerInit PROVE LedgerInv
  OBVIOUS
<1>1. LedgerTypeOK
  BY DEF LedgerInit, LedgerTypeOK, States
<1>2. CommandsBound /\ UnopenedAreEmpty /\ NoOverdraft
  BY DEF LedgerInit, CommandsBound, UnopenedAreEmpty, NoOverdraft
<1>3. LedgerMatchesTransfers
  BY DEF LedgerInit, LedgerMatchesTransfers
<1> QED
  BY <1>1, <1>2, <1>3 DEF LedgerInv

\* createOrGet() inserting a row keeps the invariant.
LEMMA CreateKeepsInv ==
  ASSUME LedgerInv, NEW k \in Keys, NEW c \in Commands, Create(k, c)
  PROVE  LedgerInv'
<1> USE CommandsAssumption DEF LedgerInv
<1>1. LedgerTypeOK'
  BY DEF Create, LedgerTypeOK, States, PendingStates
<1>2. CommandsBound'
  BY DEF Create, LedgerTypeOK, CommandsBound
<1>3. UnopenedAreEmpty' /\ NoOverdraft'
  BY DEF Create, UnopenedAreEmpty, NoOverdraft
<1>4. LedgerMatchesTransfers'
  <2>1. {j \in Keys : state'[j] = "FULFILLED"} = {j \in Keys : state[j] = "FULFILLED"}
    BY DEF Create, LedgerTypeOK
  <2>2. \A j \in {i \in Keys : state[i] = "FULFILLED"} : EntryOf(j)' = EntryOf(j)
    BY DEF Create, LedgerTypeOK, EntryOf
  <2> QED
    BY <2>1, <2>2 DEF Create, LedgerMatchesTransfers
<1> QED
  BY <1>1, <1>2, <1>3, <1>4

\* transition() to a state that moves no value keeps the invariant.
LEMMA AdvanceKeepsInv ==
  ASSUME LedgerInv, NEW k \in Keys, NEW next \in {"VALIDATED", "PREPARED", "FAILED"},
         NEW why \in Causes \union {NoCause, "INSUFFICIENT_FUNDS"},
         Advance(k, next, why)
  PROVE  LedgerInv'
<1> USE DEF LedgerInv
<1>1. LedgerTypeOK'
  BY DEF Advance, LedgerTypeOK, States, PendingStates, TerminalStates
<1>2. CommandsBound'
  BY DEF Advance, LedgerTypeOK, CommandsBound, Pending, PendingStates
<1>3. UnopenedAreEmpty' /\ NoOverdraft'
  BY DEF Advance, UnopenedAreEmpty, NoOverdraft
<1>4. LedgerMatchesTransfers'
  <2>1. {j \in Keys : state'[j] = "FULFILLED"} = {j \in Keys : state[j] = "FULFILLED"}
    BY DEF Advance, LedgerTypeOK, Pending, PendingStates
  <2>2. \A j \in Keys : EntryOf(j)' = EntryOf(j)
    BY DEF Advance, EntryOf
  <2> QED
    BY <2>1, <2>2 DEF Advance, LedgerMatchesTransfers
<1> QED
  BY <1>1, <1>2, <1>3, <1>4

\* fulfill() posting a transfer keeps the invariant.
LEMMA PostKeepsInv ==
  ASSUME LedgerInv, NEW k \in Keys, Post(k)
  PROVE  LedgerInv'
<1> DEFINE payer == command[k].payer
           payee == command[k].payee
           amount == command[k].amount
<1> USE CommandsAssumption, DefaultPayerBalanceAssumption DEF LedgerInv
<1>1. /\ command[k] \in Commands
      /\ payer \in Accounts /\ payee \in Accounts /\ payer # payee
      /\ amount \in Int /\ amount > 0
  BY DEF Post, CommandsBound, ValidCommand
<1>2. Funds(payer) \in Int /\ Funds(payer) - amount >= 0
  BY <1>1 DEF Post, CanPay, Funds, LedgerTypeOK
<1>3. LedgerTypeOK'
  BY <1>1, <1>2 DEF Post, LedgerTypeOK, Entry, States, TerminalStates
<1>4. CommandsBound'
  BY DEF Post, LedgerTypeOK, CommandsBound
<1>5. UnopenedAreEmpty'
  BY <1>1 DEF Post, LedgerTypeOK, UnopenedAreEmpty
<1>6. NoOverdraft'
  BY <1>1, <1>2 DEF Post, LedgerTypeOK, NoOverdraft
<1>7. LedgerMatchesTransfers'
  <2>1. {j \in Keys : state'[j] = "FULFILLED"} = {j \in Keys : state[j] = "FULFILLED"} \union {k}
    BY DEF Post, LedgerTypeOK
  <2>2. \A j \in Keys : EntryOf(j)' = EntryOf(j)
    BY DEF Post, EntryOf
  <2>3. entries' = entries \union {EntryOf(k)}
    BY DEF Post, EntryOf
  <2> QED
    BY <2>1, <2>2, <2>3 DEF LedgerMatchesTransfers
<1> QED
  BY <1>3, <1>4, <1>5, <1>6, <1>7

\* Every transaction, and a step that leaves the database alone, keeps it.
LEMMA StepKeepsInv == LedgerInv /\ [LedgerNext]_ledgerVars => LedgerInv'
<1> SUFFICES ASSUME LedgerInv, [LedgerNext]_ledgerVars PROVE LedgerInv'
  OBVIOUS
<1>1. ASSUME UNCHANGED ledgerVars PROVE LedgerInv'
  BY <1>1 DEF ledgerVars, LedgerInv, LedgerTypeOK, CommandsBound, UnopenedAreEmpty,
              NoOverdraft, LedgerMatchesTransfers, EntryOf
<1>2. ASSUME NEW k \in Keys, NEW c \in Commands, Create(k, c) PROVE LedgerInv'
  BY <1>2, CreateKeepsInv
<1>3. ASSUME NEW k \in Keys, NEW next \in {"VALIDATED", "PREPARED"}, Transition(k, next, NoCause)
      PROVE  LedgerInv'
  BY <1>1, <1>3, AdvanceKeepsInv DEF Transition
<1>4. ASSUME NEW k \in Keys, Fulfill(k) PROVE LedgerInv'
  BY <1>1, <1>4, PostKeepsInv DEF Fulfill
<1>5. ASSUME NEW k \in Keys, NEW why \in Causes \union {"INSUFFICIENT_FUNDS"},
             Transition(k, "FAILED", why)
      PROVE  LedgerInv'
  BY <1>1, <1>5, AdvanceKeepsInv DEF Transition
<1> QED
  BY <1>1, <1>2, <1>3, <1>4, <1>5 DEF LedgerNext

\* The invariant of the open ledger.
THEOREM LedgerInvariant == LedgerSpec => []LedgerInv
<1> QED
  BY InitEstablishesInv, StepKeepsInv, PTL DEF LedgerSpec

\* The rows keep their types.
THEOREM LedgerTypeCorrect == LedgerSpec => []LedgerTypeOK
<1>1. LedgerInv => LedgerTypeOK
  BY DEF LedgerInv
<1> QED
  BY <1>1, LedgerInvariant, PTL

\* The ledger holds exactly the entries of the completed transfers.
THEOREM LedgerAlwaysMatches == LedgerSpec => []LedgerMatchesTransfers
<1>1. LedgerInv => LedgerMatchesTransfers
  BY DEF LedgerInv
<1> QED
  BY <1>1, LedgerInvariant, PTL

\* No account is ever overdrawn.
THEOREM NeverOverdrawn == LedgerSpec => []NoOverdraft
<1>1. LedgerInv => NoOverdraft
  BY DEF LedgerInv
<1> QED
  BY <1>1, LedgerInvariant, PTL

-------------------------------------------------------------------------------
(* The books balance. *)

\* What makes the balances add up: the ledger and the accounts are finite, and
\* every balance is explained by the postings.
BooksInv ==
  /\ IsFiniteSet(entries)
  /\ IsFiniteSet(opened)
  /\ AccountBalancesMatchPostings

\* The amounts of a finite set of entries add up to an integer.
LEMMA AmountsType ==
  ASSUME NEW S, IsFiniteSet(S), \A e \in S : e.amount \in Int
  PROVE  AmountsOf(S) \in Int
BY AmountsAreASum, SumOfType

\* A new entry adds its amount.
LEMMA AmountsAdd ==
  ASSUME NEW S, IsFiniteSet(S), NEW n, n \notin S,
         \A e \in S \union {n} : e.amount \in Int
  PROVE  AmountsOf(S \union {n}) = AmountsOf(S) + n.amount
<1> DEFINE f == [e \in S |-> e.amount]
           g == [e \in S \union {n} |-> e.amount]
<1>1. IsFiniteSet(S \union {n})
  BY FS_AddElement
<1>2. AmountsOf(S \union {n}) = SumOf(g, S \union {n}) /\ AmountsOf(S) = SumOf(f, S)
  BY <1>1, AmountsAreASum
<1>3. (\A x \in S \union {n} : g[x] \in Int) /\ g[n] = n.amount /\ \A x \in S : f[x] = g[x]
  OBVIOUS
<1> HIDE DEF f, g
<1>4. SumOf(f, S) = SumOf(g, S)
  BY <1>3, SumOfSame
<1>5. SumOf(g, S \union {n}) = SumOf(g, S) + g[n]
  BY ONLY IsFiniteSet(S), n \notin S, <1>3, SumOfAdd
<1> QED
  BY <1>2, <1>3, <1>4, <1>5

\* What the postings credit and debit to an account, after a transaction.
CreditsOf(S, a) == AmountsOf({e \in S : e.credit = a})
DebitsOf(S, a) == AmountsOf({e \in S : e.debit = a})

\* Nothing is posted in an empty ledger.
LEMMA EmptyPostings == \A a : CreditsOf({}, a) = 0 /\ DebitsOf({}, a) = 0
<1>1. AmountsOf({}) = 0
  BY FS_EmptySet, AmountsAreASum, SumOfEmpty
<1>2. \A a : {e \in {} : e.credit = a} = {} /\ {e \in {} : e.debit = a} = {}
  OBVIOUS
<1> QED
  BY <1>1, <1>2 DEF CreditsOf, DebitsOf

\* What is posted to an account is an integer.
LEMMA PostingsAreIntegers ==
  ASSUME NEW S, S \subseteq Entry, IsFiniteSet(S), NEW a
  PROVE  CreditsOf(S, a) \in Int /\ DebitsOf(S, a) \in Int
<1> DEFINE C == {e \in S : e.credit = a}
           D == {e \in S : e.debit = a}
<1>1. IsFiniteSet(C) /\ IsFiniteSet(D)
  BY FS_Subset
<1>2. \A e \in S : e.amount \in Int
  BY DEF Entry
<1>3. AmountsOf(C) \in Int /\ AmountsOf(D) \in Int
  BY <1>1, <1>2, AmountsType
<1> QED
  BY <1>3 DEF CreditsOf, DebitsOf

\* An entry changes what is posted to its two accounts only.
LEMMA PostingsAdd ==
  ASSUME NEW S, S \subseteq Entry, IsFiniteSet(S), NEW n \in Entry, n \notin S, NEW a
  PROVE  /\ CreditsOf(S, a) \in Int /\ DebitsOf(S, a) \in Int
         /\ CreditsOf(S \union {n}, a) = CreditsOf(S, a) + (IF n.credit = a THEN n.amount ELSE 0)
         /\ DebitsOf(S \union {n}, a) = DebitsOf(S, a) + (IF n.debit = a THEN n.amount ELSE 0)
<1> DEFINE C == {e \in S : e.credit = a}
           D == {e \in S : e.debit = a}
<1>1. IsFiniteSet(C) /\ IsFiniteSet(D)
  BY FS_Subset
<1>2. \A e \in S \union {n} : e.amount \in Int
  BY DEF Entry
<1>3. AmountsOf(C) \in Int /\ AmountsOf(D) \in Int
  BY <1>1, <1>2, AmountsType
<1>4. {e \in S \union {n} : e.credit = a} = IF n.credit = a THEN C \union {n} ELSE C
  OBVIOUS
<1>5. {e \in S \union {n} : e.debit = a} = IF n.debit = a THEN D \union {n} ELSE D
  OBVIOUS
<1>6. AmountsOf(C \union {n}) = AmountsOf(C) + n.amount
  BY <1>1, <1>2, AmountsAdd
<1>7. AmountsOf(D \union {n}) = AmountsOf(D) + n.amount
  BY <1>1, <1>2, AmountsAdd
<1>8. CreditsOf(S, a) = AmountsOf(C) /\ DebitsOf(S, a) = AmountsOf(D)
  BY DEF CreditsOf, DebitsOf
<1>9. CreditsOf(S \union {n}, a) = AmountsOf(IF n.credit = a THEN C \union {n} ELSE C)
  BY <1>4 DEF CreditsOf
<1>10. DebitsOf(S \union {n}, a) = AmountsOf(IF n.debit = a THEN D \union {n} ELSE D)
  BY <1>5 DEF DebitsOf
<1>11. n.amount \in Int
  BY <1>2
<1> HIDE DEF C, D
<1> QED
  BY <1>3, <1>6, <1>7, <1>8, <1>9, <1>10, <1>11

\* The property in terms of those sums, in this state and in the next.
PostingsExplain ==
  \A a \in Accounts : balance[a] = opening[a] + CreditsOf(entries, a) - DebitsOf(entries, a)

\* The two forms say the same of every state.
LEMMA BalancesByPostings == AccountBalancesMatchPostings <=> PostingsExplain
BY DEF AccountBalancesMatchPostings, PostingsExplain, CreditsOf, DebitsOf, AmountsOf

\* The same of the next state.
LEMMA NextBalancesByPostings == AccountBalancesMatchPostings' <=> PostingsExplain'
BY BalancesByPostings, PTL

\* fulfill() posting a transfer keeps the books balanced: the row it inserts for
\* the payer starts from the opening balance, the payee's from nothing.
LEMMA PostKeepsBooks ==
  ASSUME LedgerInv, BooksInv, NEW k \in Keys, Post(k)
  PROVE  BooksInv'
<1> DEFINE payer == command[k].payer
           payee == command[k].payee
           amount == command[k].amount
           n == [transfer |-> k, debit |-> payer, credit |-> payee, amount |-> amount]
<1> USE CommandsAssumption, DefaultPayerBalanceAssumption DEF LedgerInv
<1>1. /\ payer \in Accounts /\ payee \in Accounts /\ payer # payee
      /\ amount \in Int /\ amount > 0
  BY DEF Post, CommandsBound, ValidCommand
<1>2. n \in Entry /\ n \notin entries /\ entries' = entries \union {n}
  BY <1>1 DEF Post, Entry
<1>3. /\ n.credit = payee /\ n.debit = payer /\ n.amount = amount
  OBVIOUS
<1>4. IsFiniteSet(entries') /\ IsFiniteSet(opened')
  <2>1. IsFiniteSet({payer, payee})
    <3> HIDE DEF payer, payee
    <3>1. IsFiniteSet({payer} \union {payee})
      BY FS_Singleton, FS_AddElement
    <3>2. {payer} \union {payee} = {payer, payee}
      OBVIOUS
    <3> QED
      BY <3>1, <3>2
  <2> QED
    BY <2>1, <1>2, FS_AddElement, FS_Union DEF Post, BooksInv
<1> HIDE DEF n
<1>5. ASSUME NEW a \in Accounts
      PROVE  balance'[a] = opening'[a] + CreditsOf(entries', a) - DebitsOf(entries', a)
  <2>1. /\ CreditsOf(entries, a) \in Int /\ DebitsOf(entries, a) \in Int
        /\ CreditsOf(entries', a) = CreditsOf(entries, a) + (IF payee = a THEN amount ELSE 0)
        /\ DebitsOf(entries', a) = DebitsOf(entries, a) + (IF payer = a THEN amount ELSE 0)
    <3>1. entries \subseteq Entry /\ IsFiniteSet(entries)
      BY DEF BooksInv, LedgerTypeOK
    <3>2. /\ CreditsOf(entries, a) \in Int /\ DebitsOf(entries, a) \in Int
          /\ CreditsOf(entries \union {n}, a)
               = CreditsOf(entries, a) + (IF n.credit = a THEN n.amount ELSE 0)
          /\ DebitsOf(entries \union {n}, a)
               = DebitsOf(entries, a) + (IF n.debit = a THEN n.amount ELSE 0)
      BY <1>2, <3>1, PostingsAdd
    <3> QED
      BY <1>2, <1>3, <3>2
  <2>2. balance[a] = opening[a] + CreditsOf(entries, a) - DebitsOf(entries, a)
    BY BalancesByPostings DEF BooksInv, PostingsExplain
  <2>3. balance[a] \in Int /\ opening[a] \in Int
    BY DEF LedgerTypeOK
  <2>4. CASE a = payer
    <3>1. /\ opening'[a] = IF a \in opened THEN opening[a] ELSE DefaultPayerBalance
          /\ balance'[a] = Funds(a) - amount
      BY <1>1, <2>4 DEF Post, LedgerTypeOK
    <3>2. a \notin opened => balance[a] = 0 /\ opening[a] = 0
      BY DEF UnopenedAreEmpty
    <3>3. balance'[a] = opening'[a] + (balance[a] - opening[a]) - amount
      BY <1>1, <2>3, <3>1, <3>2 DEF Funds
    <3>4. opening'[a] \in Int
      BY <2>3, <3>1
    <3> HIDE DEF payer, payee, amount
    <3> QED
      BY <1>1, <2>1, <2>2, <2>3, <2>4, <3>3, <3>4
  <2>5. CASE a = payee
    <3>1. opening'[a] = opening[a] /\ balance'[a] = balance[a] + amount
      BY <1>1, <2>5 DEF Post, LedgerTypeOK
    <3> QED
      BY <1>1, <2>1, <2>2, <2>3, <2>5, <3>1
  <2>6. CASE a # payer /\ a # payee
    <3>1. opening'[a] = opening[a] /\ balance'[a] = balance[a]
      BY <1>1, <2>6 DEF Post, LedgerTypeOK
    <3> QED
      BY <2>1, <2>2, <2>3, <2>6, <3>1
  <2> QED
    BY <2>4, <2>5, <2>6
<1>6. AccountBalancesMatchPostings'
  BY <1>5, NextBalancesByPostings DEF PostingsExplain
<1> QED
  BY <1>4, <1>6 DEF BooksInv

\* No other transaction touches the books.
LEMMA StepKeepsBooks ==
  ASSUME LedgerInv, BooksInv, [LedgerNext]_ledgerVars
  PROVE  BooksInv'
<1>1. ASSUME UNCHANGED <<opened, opening, balance, entries>> PROVE BooksInv'
  BY <1>1, BalancesByPostings, NextBalancesByPostings DEF BooksInv, PostingsExplain
<1>2. CASE UNCHANGED ledgerVars
  BY <1>1, <1>2 DEF ledgerVars
<1>3. ASSUME NEW k \in Keys, NEW c \in Commands, Create(k, c) PROVE BooksInv'
  BY <1>1, <1>3 DEF Create
<1>4. ASSUME NEW k \in Keys, NEW next, NEW why, Transition(k, next, why) PROVE BooksInv'
  BY <1>1, <1>4 DEF Transition, Advance, ledgerVars
<1>5. ASSUME NEW k \in Keys, Fulfill(k) PROVE BooksInv'
  BY <1>1, <1>5, PostKeepsBooks DEF Fulfill, ledgerVars
<1> QED
  BY <1>2, <1>3, <1>4, <1>5 DEF LedgerNext

\* An empty database has balanced books.
LEMMA InitEstablishesBooks == LedgerInit => BooksInv
<1> SUFFICES ASSUME LedgerInit PROVE BooksInv
  OBVIOUS
<1>1. \A a \in Accounts : CreditsOf(entries, a) = 0 /\ DebitsOf(entries, a) = 0
  BY EmptyPostings DEF LedgerInit
<1> QED
  BY <1>1, BalancesByPostings, FS_EmptySet DEF LedgerInit, BooksInv, PostingsExplain

\* Every balance is the account's opening balance and what was posted to it,
\* whoever opened the account and in whatever order its transfers settled.
THEOREM BalancesAreExplained == LedgerSpec => []AccountBalancesMatchPostings
<1>1. LedgerInit => LedgerInv /\ BooksInv
  BY InitEstablishesInv, InitEstablishesBooks
<1>2. (LedgerInv /\ BooksInv) /\ [LedgerNext]_ledgerVars => (LedgerInv /\ BooksInv)'
  BY StepKeepsInv, StepKeepsBooks
<1>3. LedgerInv /\ BooksInv => AccountBalancesMatchPostings
  BY DEF BooksInv
<1> QED
  BY <1>1, <1>2, <1>3, PTL DEF LedgerSpec

-------------------------------------------------------------------------------

\* No transaction changes the state or the failure code of a settled transfer.
LEMMA StepKeepsSettled ==
  ASSUME LedgerInv, [LedgerNext]_ledgerVars,
         NEW k \in Keys, state[k] \in TerminalStates
  PROVE  state'[k] = state[k] /\ cause'[k] = cause[k]
<1> USE DEF LedgerInv, TerminalStates
<1>1. CASE UNCHANGED ledgerVars
  BY <1>1 DEF ledgerVars
<1>2. ASSUME NEW j \in Keys, NEW c \in Commands, Create(j, c)
      PROVE  state'[k] = state[k] /\ cause'[k] = cause[k]
  BY <1>2 DEF Create, LedgerTypeOK
<1>3. ASSUME NEW j \in Keys, NEW next \in {"VALIDATED", "PREPARED", "FAILED"},
             NEW why \in Causes \union {NoCause, "INSUFFICIENT_FUNDS"},
             Transition(j, next, why)
      PROVE  state'[k] = state[k] /\ cause'[k] = cause[k]
  BY <1>1, <1>3 DEF Transition, Advance, Pending, PendingStates, LedgerTypeOK
<1>4. ASSUME NEW j \in Keys, Fulfill(j)
      PROVE  state'[k] = state[k] /\ cause'[k] = cause[k]
  BY <1>1, <1>4 DEF Fulfill, Post, LedgerTypeOK
<1> QED
  BY <1>1, <1>2, <1>3, <1>4 DEF LedgerNext

\* A settled transfer keeps its outcome for ever.
THEOREM SettledForEver == LedgerSpec => TerminalNeverReversed
<1>1. LedgerInv /\ [LedgerNext]_ledgerVars =>
        [\A k \in Keys :
           state[k] \in TerminalStates => state'[k] = state[k] /\ cause'[k] = cause[k]]_ledgerVars
  BY StepKeepsSettled
<1> QED
  BY <1>1, LedgerInvariant, PTL DEF LedgerSpec, TerminalNeverReversed

-------------------------------------------------------------------------------
(* The open ledger implements the contract of the API. *)

\* An inserted row is an accepted request.
LEMMA CreateAccepts ==
  ASSUME LedgerInv, NEW k \in Keys, NEW c \in Commands, Create(k, c)
  PROVE  Contract!Accept(k, c)
BY DEF LedgerInv, LedgerTypeOK, Create, Contract!Accept, PublicStatus, PendingStates

\* A transition that is not a failure is invisible; a failure fails the transfer.
LEMMA AdvanceIsHiddenOrFails ==
  ASSUME LedgerInv, NEW k \in Keys, NEW next \in {"VALIDATED", "PREPARED", "FAILED"},
         NEW why, Advance(k, next, why)
  PROVE  IF next = "FAILED" THEN Contract!Fail(k) ELSE UNCHANGED Contract!vars
<1> USE DEF LedgerInv, LedgerTypeOK, Advance, Pending, PendingStates, PublicStatus
<1>1. CASE next = "FAILED"
  BY <1>1 DEF Contract!Fail
<1>2. CASE next # "FAILED"
  <2>1. \A j \in Keys : PublicStatus(state[j])' = PublicStatus(state[j])
    BY <1>2
  <2> QED
    BY <1>2, <2>1 DEF Contract!vars
<1> QED
  BY <1>1, <1>2

\* Posting a transfer completes it and moves its value in the same step.
LEMMA PostCompletes ==
  ASSUME LedgerInv, NEW k \in Keys, Post(k)
  PROVE  Contract!Complete(k)
<1> USE DEF LedgerInv, LedgerTypeOK
<1>1. [j \in Keys |-> PublicStatus(state[j])]' =
        [[j \in Keys |-> PublicStatus(state[j])] EXCEPT ![k] = "COMPLETED"]
  BY DEF Post, PublicStatus, PendingStates
<1>2. [j \in Keys |-> PublicStatus(state[j])][k] = "PENDING"
  BY DEF Post, PublicStatus, PendingStates
<1>3. {e.transfer : e \in entries}' = {e.transfer : e \in entries} \union {k}
  <2> DEFINE new == [transfer |-> k, debit |-> command[k].payer,
                     credit |-> command[k].payee, amount |-> command[k].amount]
  <2>1. entries' = entries \union {new}
    BY DEF Post
  <2>2. new.transfer = k
    OBVIOUS
  <2> HIDE DEF new
  <2> QED
    BY <2>1, <2>2
<1>4. UNCHANGED command
  BY DEF Post
<1> QED
  BY <1>1, <1>2, <1>3, <1>4 DEF Contract!Complete

\* The transactions of PostgresPersistence implement the API's contract.
THEOREM LedgerRefinesContract == LedgerSpec => RefinesContract
<1>1. LedgerInit => Contract!Init
  BY DEF LedgerInit, Contract!Init, PublicStatus, PendingStates
<1>2. LedgerInv /\ [LedgerNext]_ledgerVars => [Contract!Next]_(Contract!vars)
  <2> SUFFICES ASSUME LedgerInv, [LedgerNext]_ledgerVars
               PROVE  [Contract!Next]_(Contract!vars)
    OBVIOUS
  <2>1. ASSUME UNCHANGED ledgerVars PROVE UNCHANGED Contract!vars
    BY <2>1 DEF ledgerVars, Contract!vars, PublicStatus
  <2>2. ASSUME NEW k \in Keys, NEW c \in Commands, Create(k, c) PROVE Contract!Next
    BY <2>2, CreateAccepts DEF Contract!Next
  <2>3. ASSUME NEW k \in Keys, NEW next \in {"VALIDATED", "PREPARED", "FAILED"}, NEW why,
               Transition(k, next, why)
        PROVE  [Contract!Next]_(Contract!vars)
    BY <2>1, <2>3, AdvanceIsHiddenOrFails DEF Transition, Contract!Next
  <2>4. ASSUME NEW k \in Keys, Fulfill(k) PROVE [Contract!Next]_(Contract!vars)
    BY <2>1, <2>4, PostCompletes DEF Fulfill, Contract!Next
  <2> QED
    BY <2>1, <2>2, <2>3, <2>4 DEF LedgerNext
<1> QED
  BY <1>1, <1>2, LedgerInvariant, PTL DEF LedgerSpec, RefinesContract, Contract!Spec
===============================================================================
