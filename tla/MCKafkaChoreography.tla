-------------------------- MODULE MCKafkaChoreography --------------------------
(* Transfers from alice to bob; the provider declines the transfer of any    *)
(* key in Declined.                                                          *)
EXTENDS KafkaChoreography

CONSTANTS alice, bob, Declined

MCCommands == {[payer |-> alice, payee |-> bob, amount |-> 2]}

\* One the payer can afford, and one not.
MCTwoCommands == {[payer |-> alice, payee |-> bob, amount |-> a] : a \in {2, 4}}

MCAnswer == [k \in Keys |-> IF k \in Declined THEN "LIMIT_EXCEEDED" ELSE "COMPLETED"]

MCLanes == {"request", "task"} \union Topics
===============================================================================
