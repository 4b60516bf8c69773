--------------------------- MODULE TransferContract ---------------------------
(***************************************************************************)
(* What the transfer API promises its client, whatever coordinates the     *)
(* work behind it (docs/ARCHITECTURE.md, "Correctness rules"): an          *)
(* idempotency key is bound to one request for ever; a pending transfer    *)
(* is settled once, and its value moves exactly when it is completed.      *)
(***************************************************************************)
CONSTANTS
  Keys,       \* idempotency keys; a key names the one transfer made under it
  Commands,   \* request payloads
  NoCommand   \* the request of a key nobody has used

VARIABLES
  request,    \* the payload bound to each key
  status,     \* the public status of each transfer
  moved       \* the keys whose value has moved in the ledger

vars == <<request, status, moved>>

Settled == {"COMPLETED", "FAILED"}

TypeOK ==
  /\ request \in [Keys -> Commands \union {NoCommand}]
  /\ status \in [Keys -> {"NONE", "PENDING"} \union Settled]
  /\ moved \in SUBSET Keys

Init ==
  /\ request = [k \in Keys |-> NoCommand]
  /\ status = [k \in Keys |-> "NONE"]
  /\ moved = {}

Accept(k, c) ==
  /\ status[k] = "NONE"
  /\ status' = [status EXCEPT ![k] = "PENDING"]
  /\ request' = [request EXCEPT ![k] = c]
  /\ UNCHANGED moved

Complete(k) ==
  /\ status[k] = "PENDING"
  /\ status' = [status EXCEPT ![k] = "COMPLETED"]
  /\ moved' = moved \union {k}
  /\ UNCHANGED request

Fail(k) ==
  /\ status[k] = "PENDING"
  /\ status' = [status EXCEPT ![k] = "FAILED"]
  /\ UNCHANGED <<request, moved>>

Next ==
  \E k \in Keys :
    \/ \E c \in Commands : Accept(k, c)
    \/ Complete(k)
    \/ Fail(k)

Spec == Init /\ [][Next]_vars
===============================================================================
