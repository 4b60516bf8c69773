---------------------------- MODULE TransferLedger ----------------------------
(***************************************************************************)
(* The transfer rows, the accounts and the ledger of PostgresPersistence,  *)
(* and the transactions that change them.  Each transaction locks its      *)
(* transfer row (SELECT ... FOR UPDATE) and, when it moves value, both     *)
(* account rows in one order, so it is one atomic action here.  LedgerNext *)
(* is the open specification: any caller, with any stale copy of a record, *)
(* may call any transaction at any time.  RestOrchestration and            *)
(* KafkaChoreography restrict who calls what and when.                     *)
(*                                                                         *)
(* A transfer is named by its idempotency key: transfers.idempotency_key   *)
(* is UNIQUE, so the key and the generated transfer id determine each      *)
(* other.  There is one currency.  trace_events rows are left out.         *)
(***************************************************************************)
EXTENDS Integers, FiniteSetsExt

CONSTANTS
  Keys,                 \* idempotency keys
  Accounts,             \* account ids
  Commands,             \* request payloads a client may send, valid or not
  NoCommand,            \* the command of a key with no transfer row
  Causes,               \* failure codes a caller may pass to fail()
  NoCause,              \* failure_code IS NULL
  DefaultPayerBalance   \* opening balance of an account first seen as a payer

ASSUME CommandsAssumption ==
  /\ Commands \subseteq [payer : Accounts, payee : Accounts, amount : Int]
  /\ NoCommand \notin Commands

ASSUME CausesAssumption == NoCause \notin Causes

ASSUME DefaultPayerBalanceAssumption == DefaultPayerBalance \in Nat

VARIABLES
  state,     \* transfers.internal_state; "NONE" when the key has no row
  command,   \* the immutable part of the row: payer, payee and amount
  cause,     \* transfers.failure_code
  opened,    \* the accounts that have a row
  opening,   \* accounts.opening_balance
  balance,   \* accounts.balance
  entries    \* ledger_transactions, each with its debit and credit posting

ledgerVars == <<state, command, cause, opened, opening, balance, entries>>

PendingStates == {"RECEIVED", "VALIDATED", "PREPARED"}
TerminalStates == {"FULFILLED", "FAILED"}
States == {"NONE"} \union PendingStates \union TerminalStates

AllowedTransitions ==
  [s \in States |->
     CASE s = "RECEIVED" -> {"VALIDATED", "FAILED"}
       [] s = "VALIDATED" -> {"PREPARED", "FAILED"}
       [] s = "PREPARED" -> {"FULFILLED", "FAILED"}
       [] OTHER -> {}]

PublicStatus(s) ==
  IF s \in PendingStates THEN "PENDING" ELSE IF s = "FULFILLED" THEN "COMPLETED" ELSE s

\* A ledger transaction with its DEBIT and CREDIT postings; CHECK (amount > 0).
Entry == [transfer : Keys, debit : Accounts, credit : Accounts, amount : Nat \ {0}]

LedgerTypeOK ==
  /\ state \in [Keys -> States]
  /\ command \in [Keys -> Commands \union {NoCommand}]
  /\ cause \in [Keys -> Causes \union {NoCause, "INSUFFICIENT_FUNDS"}]
  /\ opened \in SUBSET Accounts
  /\ opening \in [Accounts -> Nat]
  /\ balance \in [Accounts -> Int]
  /\ entries \in SUBSET Entry

LedgerInit ==
  /\ state = [k \in Keys |-> "NONE"]
  /\ command = [k \in Keys |-> NoCommand]
  /\ cause = [k \in Keys |-> NoCause]
  /\ opened = {}
  /\ opening = [a \in Accounts |-> 0]
  /\ balance = [a \in Accounts |-> 0]
  /\ entries = {}

-------------------------------------------------------------------------------
(* Creation *)

ValidCommand(c) == c.payer # c.payee /\ c.amount > 0

\* The key is free: the row is inserted and the request is accepted.
Create(k, c) ==
  /\ ValidCommand(c)
  /\ state[k] = "NONE"
  /\ state' = [state EXCEPT ![k] = "RECEIVED"]
  /\ command' = [command EXCEPT ![k] = c]
  /\ UNCHANGED <<cause, opened, opening, balance, entries>>

-------------------------------------------------------------------------------
(* Progress *)

Pending(k) == state[k] \in PendingStates

\* transition() re-reads the row under its lock.  A row that is there already,
\* or settled, is returned as it is.
AlreadyPast(k, next) == state[k] # "NONE" /\ (state[k] = next \/ ~Pending(k))

\* transitionTransfer() throws INVALID_STATE_TRANSITION and nothing is changed.
IllegalTransition(k, next) ==
  Pending(k) /\ state[k] # next /\ next \notin AllowedTransitions[state[k]]

\* Mutant: the caller's copy of the record is trusted, the row is not re-read.
AdvanceUnchecked(k, next, why) ==
  /\ state[k] # "NONE"
  /\ state' = [state EXCEPT ![k] = next]
  /\ cause' = [cause EXCEPT ![k] = why]
  /\ UNCHANGED <<command, opened, opening, balance, entries>>

Advance(k, next, why) ==
  /\ Pending(k)
  /\ state[k] # next
  /\ next \in AllowedTransitions[state[k]]
  /\ state' = [state EXCEPT ![k] = next]
  /\ cause' = [cause EXCEPT ![k] = why]
  /\ UNCHANGED <<command, opened, opening, balance, entries>>

Transition(k, next, why) ==
  \/ AlreadyPast(k, next) /\ UNCHANGED ledgerVars
  \/ Advance(k, next, why)

-------------------------------------------------------------------------------
(* Settlement *)

\* Mutant: an existing account row is taken for a new one.
AlwaysDefault(a) == DefaultPayerBalance

\* What the payer can spend: its row, or the one fulfill() would insert.
Funds(a) == IF a \in opened THEN balance[a] ELSE DefaultPayerBalance

\* Mutant: the balance was checked before the account rows were locked.
CouldPay(k) == DefaultPayerBalance >= command[k].amount

CanPay(k) == Funds(command[k].payer) >= command[k].amount

\* fulfill() throws INSUFFICIENT_FUNDS and the whole transaction rolls back.
LacksFunds(k) == state[k] = "PREPARED" /\ ~CanPay(k)

\* One transaction: missing account rows, both balances, the ledger
\* transaction with its two postings (UNIQUE per transfer), and FULFILLED.
Post(k) ==
  LET payer == command[k].payer
      payee == command[k].payee
      amount == command[k].amount
  IN
  /\ state[k] = "PREPARED"
  /\ CanPay(k)
  /\ \A e \in entries : e.transfer # k
  /\ opened' = opened \union {payer, payee}
  /\ opening' = [opening EXCEPT ![payer] = IF payer \in opened THEN @ ELSE DefaultPayerBalance]
  /\ balance' = [balance EXCEPT ![payer] = Funds(payer) - amount, ![payee] = @ + amount]
  /\ entries' = entries \union
       {[transfer |-> k, debit |-> payer, credit |-> payee, amount |-> amount]}
  /\ state' = [state EXCEPT ![k] = "FULFILLED"]
  /\ UNCHANGED <<command, cause>>

Fulfill(k) ==
  \/ state[k] \in TerminalStates /\ UNCHANGED ledgerVars
  \/ Post(k)

-------------------------------------------------------------------------------

LedgerNext ==
  \E k \in Keys :
    \/ \E c \in Commands : Create(k, c)
    \/ \E next \in {"VALIDATED", "PREPARED"} : Transition(k, next, NoCause)
    \/ Fulfill(k)
    \/ \E why \in Causes \union {"INSUFFICIENT_FUNDS"} : Transition(k, "FAILED", why)

LedgerSpec == LedgerInit /\ [][LedgerNext]_ledgerVars

-------------------------------------------------------------------------------
(* Properties *)

\* The entry the transfer row asks for.
EntryOf(k) ==
  [transfer |-> k, debit |-> command[k].payer, credit |-> command[k].payee,
   amount |-> command[k].amount]

\* Rules 4 and 5 of docs/ARCHITECTURE.md, audited by invariants(): the ledger
\* holds the entry of every completed transfer, and nothing else, however the
\* callers of fulfill(), fail() and transition() interleave.
LedgerMatchesTransfers ==
  entries = {EntryOf(k) : k \in {j \in Keys : state[j] = "FULFILLED"}}

\* No account is overdrawn by transfers that were checked against stale funds:
\* every fulfill() re-reads the balance under the account locks.
NoOverdraft == \A a \in Accounts : balance[a] >= 0

\* checkAccountPostings(): each balance is its opening balance plus what the
\* postings credit and minus what they debit, whoever created the row first.
AccountBalancesMatchPostings ==
  \A a \in Accounts :
    balance[a] = opening[a]
      + MapThenSumSet(LAMBDA e : e.amount, {e \in entries : e.credit = a})
      - MapThenSumSet(LAMBDA e : e.amount, {e \in entries : e.debit = a})

\* Rule 3: a settled transfer keeps its state and its failure code, whatever
\* late transition(), fulfill() or fail() still arrives with a stale record.
TerminalNeverReversed ==
  [][\A k \in Keys :
       state[k] \in TerminalStates => state'[k] = state[k] /\ cause'[k] = cause[k]]_ledgerVars

Contract ==
  INSTANCE TransferContract WITH
    request <- command,
    status <- [k \in Keys |-> PublicStatus(state[k])],
    moved <- {e.transfer : e \in entries}

\* The transactions keep the API's promise: one request per key, one settlement
\* per transfer, and value moves in the very step that completes it.
RefinesContract == Contract!Spec
===============================================================================
