---------------------------- MODULE IntegrityReport ----------------------------
(***************************************************************************)
(* PaymentApplication.invariants(), the audit a trial's safety verdict     *)
(* rests on.  It reads the transfers, the ledger, and the accounts twice,  *)
(* in four queries of their own, while the ledger's transactions go on:    *)
(* a trial whose drain reached its deadline is audited with work under     *)
(* way.                                                                    *)
(*                                                                         *)
(* The history array of a row and the currencies are left out, and an      *)
(* entry has one amount for its two postings, so the checks of those are;  *)
(* row counts and the list of reconciled transfers are wording.            *)
(***************************************************************************)
EXTENDS TransferLedger

VARIABLES
  query,    \* what invariants() has read last; "none" when it is not running
  rows,     \* list(): the internal state of every transfer it found
  failed,   \* the checks that did not hold
  settled   \* history: some transfer completed after list() and before entries()

reportVars == <<query, rows, failed, settled>>

NoRows == [k \in Keys |-> "NONE"]

ReportInit ==
  /\ LedgerInit
  /\ query = "none" /\ rows = NoRows /\ failed = {} /\ settled = FALSE

-------------------------------------------------------------------------------
(* The checks on the listed transfers and on the entries read after them *)

HasEntry(k) == \E e \in entries : e.transfer = k

FulfilledHaveOneLedgerEntry == \A k \in Keys : rows[k] = "FULFILLED" => HasEntry(k)

FailedHaveNoLedgerEntry == \A k \in Keys : rows[k] = "FAILED" => ~HasEntry(k)

UniqueLedgerEntries == \A e, f \in entries : e.transfer = f.transfer => e = f

\* An entry belongs to a completed transfer of the list and repeats its command,
\* which never changes.
EntryMatches(e) == rows[e.transfer] = "FULFILLED" /\ e = EntryOf(e.transfer)

FailedOn(name, holds) == IF holds THEN {} ELSE {name}

EntryChecks ==
  FailedOn("fulfilledHaveOneLedgerEntry", FulfilledHaveOneLedgerEntry)
  \union FailedOn("failedHaveNoLedgerEntry", FailedHaveNoLedgerEntry)
  \union FailedOn("uniqueLedgerEntries", UniqueLedgerEntries)
  \union FailedOn("ledgerMatchesTransfers", \A e \in entries : EntryMatches(e))

-------------------------------------------------------------------------------
(* invariants(), one query at a time *)

List ==
  /\ query = "none"
  /\ query' = "transfers"
  /\ rows' = state
  /\ failed' = {}
  /\ settled' = FALSE
  /\ UNCHANGED ledgerVars

\* entries(), and every check that needs no further query.
ReadEntries ==
  /\ query = "transfers"
  /\ query' = "entries"
  /\ failed' = EntryChecks
  /\ rows' = NoRows
  /\ UNCHANGED <<settled, ledgerVars>>

\* checkConservation(): the balances add up to what the accounts were opened with.
Conserved ==
  MapThenSumSet(LAMBDA a : opening[a], opened) = MapThenSumSet(LAMBDA a : balance[a], opened)

CheckConservation ==
  /\ query = "entries"
  /\ query' = "conservation"
  /\ failed' = failed \union FailedOn("valueConserved", Conserved)
  /\ UNCHANGED <<rows, settled, ledgerVars>>

CheckAccountPostings ==
  /\ query = "conservation"
  /\ query' = "postings"
  /\ failed' = failed \union FailedOn("accountBalancesMatchPostings", AccountBalancesMatchPostings)
  /\ UNCHANGED <<rows, settled, ledgerVars>>

\* The report passes when no check failed; it is saved and returned.
RecordReconciliation ==
  /\ query = "postings"
  /\ query' = "none"
  /\ UNCHANGED <<rows, failed, settled, ledgerVars>>

\* A transaction of the running system.
LedgerStep ==
  /\ LedgerNext
  /\ settled' = (settled \/ (query = "transfers" /\ entries' # entries))
  /\ UNCHANGED <<query, rows, failed>>

ReportNext ==
  \/ List \/ ReadEntries \/ CheckConservation \/ CheckAccountPostings \/ RecordReconciliation
  \/ LedgerStep

ReportSpec == ReportInit /\ [][ReportNext]_<<ledgerVars, reportVars>>

-------------------------------------------------------------------------------
(* Properties *)

\* Of the checks that compare the list with the entries read after it only one
\* can fail, and only when a transfer completed between the two.
EntryAlarmsAreTorn ==
  \A name \in failed \ {"valueConserved", "accountBalancesMatchPostings"} :
    name = "ledgerMatchesTransfers" /\ settled

\* An audit of a running system raises one kind of false alarm and no other:
\* ledgerMatchesTransfers, for a transfer that completed between list() and
\* entries().  Every other failed check, the two on the accounts included, and
\* any failed audit of a system at rest, is a broken ledger.
AlarmsAreTorn ==
  /\ EntryAlarmsAreTorn
  /\ failed \intersect {"valueConserved", "accountBalancesMatchPostings"} = {}
===============================================================================
