--------------------------- MODULE MCIntegrityReport ---------------------------
(* The open ledger and its audit over three transfers.  alice pays bob and   *)
(* bob pays alice, so an account can first be seen as a payee; one command   *)
(* is larger than any opening balance and two are invalid.                   *)
EXTENDS IntegrityReport

CONSTANTS alice, bob

MCCommands ==
  {[payer |-> alice, payee |-> bob, amount |-> 2],
   [payer |-> bob, payee |-> alice, amount |-> 3],
   [payer |-> alice, payee |-> alice, amount |-> 1],
   [payer |-> bob, payee |-> alice, amount |-> -1]}
===============================================================================
