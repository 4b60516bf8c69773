------------------------- MODULE IntegrityReportProofs -------------------------
(***************************************************************************)
(* What an audit of a running ledger can get wrong, for every set of keys, *)
(* accounts and commands.  ReportInv carries what the list of transfers is *)
(* worth while the ledger moves on: a final state in it is still true, and *)
(* a transfer it does not know as completed can only have completed since. *)
(***************************************************************************)
EXTENDS IntegrityReport, TransferLedgerProofs

ListIsPast ==
  query = "transfers" =>
    \A k \in Keys :
      /\ rows[k] \in TerminalStates => state[k] = rows[k]
      /\ state[k] = "FULFILLED" => rows[k] = "FULFILLED" \/ settled

ReportInv ==
  /\ LedgerInv
  /\ rows \in [Keys -> States]
  /\ ListIsPast
  /\ EntryAlarmsAreTorn

-------------------------------------------------------------------------------

\* Nothing has been read yet.
LEMMA InitEstablishesReportInv == ReportInit => ReportInv
BY InitEstablishesInv DEF ReportInit, ReportInv, ListIsPast, EntryAlarmsAreTorn, NoRows, States

\* list() reads the present.
LEMMA ListKeepsInv == ASSUME ReportInv, List PROVE ReportInv'
<1>1. LedgerInv'
  BY StepKeepsInv DEF List, ReportInv
<1>2. rows' \in [Keys -> States] /\ ListIsPast' /\ EntryAlarmsAreTorn'
  BY DEF List, ReportInv, LedgerInv, LedgerTypeOK, ListIsPast, EntryAlarmsAreTorn, ledgerVars
<1> QED
  BY <1>1, <1>2 DEF ReportInv

\* Against any list that is past, the entries of the present fail one check at
\* most, and that one only for a transfer that has completed since.
LEMMA EntryChecksAreTorn ==
  ASSUME ReportInv, query = "transfers"
  PROVE  \A name \in EntryChecks : name = "ledgerMatchesTransfers" /\ settled
<1> USE DEF ReportInv, LedgerInv, LedgerMatchesTransfers, ListIsPast
<1>1. \A e \in entries : e.transfer \in Keys /\ state[e.transfer] = "FULFILLED" /\ e = EntryOf(e.transfer)
  BY DEF EntryOf
<1>2. FulfilledHaveOneLedgerEntry
  <2> SUFFICES ASSUME NEW k \in Keys, rows[k] = "FULFILLED" PROVE HasEntry(k)
    BY DEF FulfilledHaveOneLedgerEntry
  <2>1. state[k] = "FULFILLED"
    BY DEF TerminalStates
  <2>2. EntryOf(k) \in entries /\ EntryOf(k).transfer = k
    BY <2>1 DEF EntryOf
  <2> QED
    BY <2>2 DEF HasEntry
<1>3. FailedHaveNoLedgerEntry
  BY <1>1 DEF FailedHaveNoLedgerEntry, HasEntry, TerminalStates
<1>4. UniqueLedgerEntries
  BY <1>1 DEF UniqueLedgerEntries
<1>5. settled \/ \A e \in entries : EntryMatches(e)
  BY <1>1 DEF EntryMatches
<1> QED
  BY <1>2, <1>3, <1>4, <1>5 DEF EntryChecks, FailedOn

\* entries() and the checks on them.
LEMMA ReadEntriesKeepsInv == ASSUME ReportInv, ReadEntries PROVE ReportInv'
<1>1. LedgerInv'
  BY StepKeepsInv DEF ReadEntries, ReportInv
<1>2. rows' \in [Keys -> States] /\ ListIsPast'
  BY DEF ReadEntries, ListIsPast, NoRows, States
<1>3. EntryAlarmsAreTorn'
  BY EntryChecksAreTorn DEF ReadEntries, EntryAlarmsAreTorn
<1> QED
  BY <1>1, <1>2, <1>3 DEF ReportInv

\* The checks of the accounts, and the end of the audit, add no entry alarm.
LEMMA AccountChecksKeepInv ==
  ASSUME ReportInv, CheckConservation \/ CheckAccountPostings \/ RecordReconciliation
  PROVE  ReportInv'
<1> USE DEF CheckConservation, CheckAccountPostings, RecordReconciliation
<1>1. LedgerInv'
  BY StepKeepsInv DEF ReportInv
<1>2. rows' \in [Keys -> States] /\ ListIsPast'
  BY DEF ReportInv, ListIsPast
<1>3. EntryAlarmsAreTorn'
  BY DEF ReportInv, EntryAlarmsAreTorn, FailedOn
<1> QED
  BY <1>1, <1>2, <1>3 DEF ReportInv

-------------------------------------------------------------------------------
(* The ledger moves on. *)

\* A transaction that leaves the entries alone completes no transfer.
LEMMA NewlyCompletedHasNewEntry ==
  ASSUME LedgerInv, LedgerNext, NEW k \in Keys, state'[k] = "FULFILLED", state[k] # "FULFILLED"
  PROVE  entries' # entries
<1>1. LedgerInv'
  BY StepKeepsInv
<1>2. EntryOf(k)' \in entries'
  BY <1>1 DEF LedgerInv, LedgerMatchesTransfers
<1>3. EntryOf(k)'.transfer = k
  BY DEF EntryOf
<1>4. \A e \in entries : e.transfer # k
  BY DEF LedgerInv, LedgerMatchesTransfers, EntryOf
<1> QED
  BY <1>2, <1>3, <1>4

\* A step of the ledger only adds to what the audit has not read yet.
LEMMA LedgerStepKeepsInv == ASSUME ReportInv, LedgerStep PROVE ReportInv'
<1> USE DEF LedgerStep
<1>1. LedgerInv'
  BY StepKeepsInv DEF ReportInv
<1>2. rows' \in [Keys -> States]
  BY DEF ReportInv
<1>3. ListIsPast'
  <2> SUFFICES ASSUME query = "transfers", NEW k \in Keys
               PROVE  /\ rows[k] \in TerminalStates => state'[k] = rows[k]
                      /\ state'[k] = "FULFILLED" => rows[k] = "FULFILLED" \/ settled'
    BY DEF ListIsPast
  <2>1. rows[k] \in TerminalStates => state'[k] = rows[k]
    BY StepKeepsSettled DEF ReportInv, ListIsPast
  <2>2. CASE state[k] = "FULFILLED"
    BY <2>1, <2>2 DEF ReportInv, ListIsPast
  <2>3. CASE state[k] # "FULFILLED"
    BY <2>1, <2>3, NewlyCompletedHasNewEntry DEF ReportInv
  <2> QED
    BY <2>1, <2>2, <2>3
<1>4. EntryAlarmsAreTorn'
  BY DEF ReportInv, EntryAlarmsAreTorn
<1> QED
  BY <1>1, <1>2, <1>3, <1>4 DEF ReportInv

-------------------------------------------------------------------------------

\* So every step, of the ledger or of the audit, keeps the invariant.
LEMMA ReportStepKeepsInv == ReportInv /\ [ReportNext]_<<ledgerVars, reportVars>> => ReportInv'
<1> SUFFICES ASSUME ReportInv, [ReportNext]_<<ledgerVars, reportVars>> PROVE ReportInv'
  OBVIOUS
<1>1. CASE UNCHANGED <<ledgerVars, reportVars>>
  <2>1. LedgerInv'
    BY <1>1, StepKeepsInv DEF ReportInv
  <2> QED
    BY <1>1, <2>1 DEF ReportInv, ListIsPast, EntryAlarmsAreTorn, ledgerVars, reportVars
<1>2. CASE List \/ ReadEntries
  BY <1>2, ListKeepsInv, ReadEntriesKeepsInv
<1>3. CASE CheckConservation \/ CheckAccountPostings \/ RecordReconciliation
  BY <1>3, AccountChecksKeepInv
<1>4. CASE LedgerStep
  BY <1>4, LedgerStepKeepsInv
<1> QED
  BY <1>1, <1>2, <1>3, <1>4 DEF ReportNext

\* An audit that compares entries with an older list misfires in one check only,
\* and never over a system at rest.
THEOREM EntryAlarmsNeedTornReads == ReportSpec => []EntryAlarmsAreTorn
<1>1. ReportInv => EntryAlarmsAreTorn
  BY DEF ReportInv
<1> QED
  BY <1>1, InitEstablishesReportInv, ReportStepKeepsInv, PTL DEF ReportSpec

-------------------------------------------------------------------------------
(* Value is conserved, so the checks of the accounts never fail. *)

\* The sums checkConservation() compares, over the rows of a set of accounts.
ValueConserved == SumOf(opening, opened) = SumOf(balance, opened)

\* The two forms say the same of every state.
LEMMA ConservedBySums == Conserved <=> ValueConserved
BY DEF Conserved, ValueConserved, SumOf

\* The same of the next state.
LEMMA NextConservedBySums == Conserved' <=> ValueConserved'
BY ConservedBySums, PTL

\* An account that holds nothing may be counted or not.
LEMMA SumOfEmptyAccount ==
  ASSUME NEW S, IsFiniteSet(S), NEW c, NEW f, \A x \in S \union {c} : f[x] \in Int,
         c \in S \/ f[c] = 0
  PROVE  SumOf(f, S \union {c}) = SumOf(f, S)
<1>1. CASE c \in S
  <2>1. S \union {c} = S
    BY <1>1
  <2> QED
    BY <2>1
<1>2. CASE c \notin S
  <2>1. SumOf(f, S \union {c}) = SumOf(f, S) + f[c]
    BY <1>2, SumOfAdd
  <2>2. SumOf(f, S) \in Int
    BY SumOfType
  <2> QED
    BY <1>2, <2>1, <2>2
<1> QED
  BY <1>1, <1>2

\* fulfill() posting a transfer moves value between two rows, and opens each
\* missing row with the value it starts from on both sides of the comparison.
LEMMA PostConserves ==
  ASSUME LedgerInv, BooksInv, ValueConserved, NEW k \in Keys, Post(k)
  PROVE  ValueConserved'
<1> DEFINE payer == command[k].payer
           payee == command[k].payee
           amount == command[k].amount
           S == opened \union {payer, payee}
           b1 == [balance EXCEPT ![payer] = Funds(payer) - amount]
<1>1. /\ payer \in Accounts /\ payee \in Accounts /\ payer # payee
      /\ amount \in Int /\ amount > 0
  BY CommandsAssumption DEF Post, LedgerInv, CommandsBound, ValidCommand
<1>2. /\ opening \in [Accounts -> Int] /\ balance \in [Accounts -> Int] /\ opened \subseteq Accounts
      /\ Funds(payer) \in Int
  BY <1>1, DefaultPayerBalanceAssumption DEF LedgerInv, LedgerTypeOK, Funds
<1>3. \A a \in Accounts : a \in opened \/ (balance[a] = 0 /\ opening[a] = 0)
  BY DEF LedgerInv, UnopenedAreEmpty
<1>4. /\ opened' = S
      /\ opening' = [opening EXCEPT ![payer] = IF payer \in opened THEN @ ELSE DefaultPayerBalance]
      /\ balance' = [b1 EXCEPT ![payee] = @ + amount]
  BY <1>1, <1>2 DEF Post
<1>5. payer \in S /\ payee \in S /\ S \subseteq Accounts
  BY <1>1, <1>2
<1>6. /\ IsFiniteSet(opened) /\ IsFiniteSet(S)
      /\ SumOf(opening, S) = SumOf(opening, opened)
      /\ SumOf(balance, S) = SumOf(balance, opened)
  <2> HIDE DEF payer, payee, amount
  <2>1. IsFiniteSet(opened) /\ IsFiniteSet(opened \union {payer})
    BY FS_AddElement DEF BooksInv
  <2>2. S = (opened \union {payer}) \union {payee}
    OBVIOUS
  <2> HIDE DEF S
  <2>3. IsFiniteSet(S)
    BY <2>1, <2>2, FS_AddElement
  <2>4. /\ SumOf(opening, opened \union {payer}) = SumOf(opening, opened)
        /\ SumOf(balance, opened \union {payer}) = SumOf(balance, opened)
    BY <1>1, <1>2, <1>3, <2>1, SumOfEmptyAccount
  <2>5. /\ SumOf(opening, S) = SumOf(opening, opened \union {payer})
        /\ SumOf(balance, S) = SumOf(balance, opened \union {payer})
    BY <1>1, <1>2, <1>3, <2>1, <2>2, SumOfEmptyAccount
  <2> QED
    BY <2>1, <2>3, <2>4, <2>5
<1> HIDE DEF payer, payee, amount, S
<1>7. /\ opening' \in [Accounts -> Int] /\ b1 \in [Accounts -> Int] /\ balance' \in [Accounts -> Int]
      /\ \A a \in Accounts \ {payer} : opening'[a] = opening[a] /\ b1[a] = balance[a]
      /\ \A a \in Accounts \ {payee} : balance'[a] = b1[a]
      /\ opening'[payer] = IF payer \in opened THEN opening[payer] ELSE DefaultPayerBalance
      /\ b1[payer] = Funds(payer) - amount
      /\ balance'[payee] = b1[payee] + amount
  BY <1>1, <1>2, <1>4, DefaultPayerBalanceAssumption
<1> HIDE DEF b1
<1>8. SumOf(opening', S) = SumOf(opening, S) + opening'[payer] - opening[payer]
  BY <1>2, <1>5, <1>6, <1>7, SumOfChange
<1>9. SumOf(b1, S) = SumOf(balance, S) + b1[payer] - balance[payer]
  BY <1>2, <1>5, <1>6, <1>7, SumOfChange
<1>10. SumOf(balance', S) = SumOf(b1, S) + balance'[payee] - b1[payee]
  BY <1>2, <1>5, <1>6, <1>7, SumOfChange
<1>11. SumOf(opening, S) \in Int /\ SumOf(balance, S) \in Int
  BY <1>2, <1>5, <1>6, SumOfType
<1>12. b1[payer] + amount - balance[payer] = opening'[payer] - opening[payer]
  BY <1>1, <1>2, <1>3, <1>7, DefaultPayerBalanceAssumption DEF Funds
<1>13. /\ opening'[payer] \in Int /\ opening[payer] \in Int /\ b1[payer] \in Int
       /\ balance[payer] \in Int /\ b1[payee] \in Int
  BY <1>1, <1>2, <1>7
<1>14. SumOf(opening, S) = SumOf(balance, S)
  BY <1>6 DEF ValueConserved
<1>15. SumOf(opening', S) = SumOf(balance', S)
  BY <1>1, <1>7, <1>8, <1>9, <1>10, <1>11, <1>12, <1>13, <1>14
<1> QED
  BY <1>4, <1>15 DEF ValueConserved

\* No other transaction moves value.
LEMMA StepConserves ==
  ASSUME LedgerInv, BooksInv, Conserved, [LedgerNext]_ledgerVars
  PROVE  Conserved'
<1> USE ConservedBySums, NextConservedBySums
<1>1. ASSUME UNCHANGED <<opened, opening, balance>> PROVE Conserved'
  BY <1>1 DEF ValueConserved
<1>2. CASE UNCHANGED ledgerVars
  BY <1>1, <1>2 DEF ledgerVars
<1>3. ASSUME NEW k \in Keys, NEW c \in Commands, Create(k, c) PROVE Conserved'
  BY <1>1, <1>3 DEF Create
<1>4. ASSUME NEW k \in Keys, NEW next, NEW why, Transition(k, next, why) PROVE Conserved'
  BY <1>1, <1>4 DEF Transition, Advance, ledgerVars
<1>5. ASSUME NEW k \in Keys, Fulfill(k) PROVE Conserved'
  BY <1>1, <1>5, PostConserves DEF Fulfill, ledgerVars
<1> QED
  BY <1>2, <1>3, <1>4, <1>5 DEF LedgerNext

\* No account is open at first.
LEMMA InitConserves == LedgerInit => Conserved
BY ConservedBySums, SumOfEmpty DEF LedgerInit, ValueConserved

\* Money is neither made nor lost: whatever transactions run, the balances add up
\* to what the accounts were opened with.
THEOREM ValueIsConserved == LedgerSpec => []Conserved
<1>1. LedgerInit => LedgerInv /\ BooksInv /\ Conserved
  BY InitEstablishesInv, InitEstablishesBooks, InitConserves
<1>2. (LedgerInv /\ BooksInv /\ Conserved) /\ [LedgerNext]_ledgerVars
        => (LedgerInv /\ BooksInv /\ Conserved)'
  BY StepKeepsInv, StepKeepsBooks, StepConserves
<1> QED
  BY <1>1, <1>2, PTL DEF LedgerSpec

-------------------------------------------------------------------------------
(* The audit of a ledger whose books balance. *)

AccountAlarms == failed \intersect {"valueConserved", "accountBalancesMatchPostings"}

AuditInv == ReportInv /\ BooksInv /\ Conserved /\ AccountAlarms = {}

\* Every step keeps it: the ledger's keep the books balanced, and the audit's
\* find them so.
LEMMA AuditStepKeepsInv == AuditInv /\ [ReportNext]_<<ledgerVars, reportVars>> => AuditInv'
<1> SUFFICES ASSUME AuditInv, [ReportNext]_<<ledgerVars, reportVars>> PROVE AuditInv'
  OBVIOUS
<1>1. ReportInv'
  BY ReportStepKeepsInv DEF AuditInv
<1>2. [LedgerNext]_ledgerVars
  BY DEF ReportNext, List, ReadEntries, CheckConservation, CheckAccountPostings,
         RecordReconciliation, LedgerStep, ledgerVars, reportVars
<1>3. BooksInv' /\ Conserved'
  BY <1>2, StepKeepsBooks, StepConserves DEF AuditInv, ReportInv
<1>4. AccountAlarms' = {}
  <2> USE DEF AuditInv, AccountAlarms
  <2>1. CASE UNCHANGED failed
    BY <2>1
  <2>2. CASE List
    BY <2>2 DEF List
  <2>3. CASE ReadEntries
    BY <2>3 DEF ReadEntries, EntryChecks, FailedOn
  <2>4. CASE CheckConservation
    BY <2>4 DEF CheckConservation, FailedOn
  <2>5. CASE CheckAccountPostings
    <3>1. AccountBalancesMatchPostings
      BY DEF BooksInv
    <3> QED
      BY <2>5, <3>1 DEF CheckAccountPostings, FailedOn
  <2> QED
    BY <2>1, <2>2, <2>3, <2>4, <2>5 DEF ReportNext, RecordReconciliation, LedgerStep, reportVars
<1> QED
  BY <1>1, <1>3, <1>4 DEF AuditInv

\* The only false alarm of an audit is ledgerMatchesTransfers, for a transfer that
\* completed under it; the checks of the accounts never raise one.
THEOREM AuditRaisesOneFalseAlarm == ReportSpec => []AlarmsAreTorn
<1>1. ReportInit => AuditInv
  BY InitEstablishesReportInv, InitEstablishesBooks, InitConserves
     DEF ReportInit, AuditInv, AccountAlarms
<1>2. AuditInv => AlarmsAreTorn
  BY DEF AuditInv, ReportInv, AccountAlarms, AlarmsAreTorn
<1> QED
  BY <1>1, <1>2, AuditStepKeepsInv, PTL DEF ReportSpec
===============================================================================
