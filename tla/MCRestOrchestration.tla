-------------------------- MODULE MCRestOrchestration --------------------------
(* Two transfers from one payer, who can afford only one of them; the        *)
(* provider declines the transfer of any key in Declined.                    *)
EXTENDS RestOrchestration

CONSTANTS alice, bob, Declined

MCCommands == {[payer |-> alice, payee |-> bob, amount |-> 2]}

\* One the payer can afford, and one not.
MCTwoCommands == {[payer |-> alice, payee |-> bob, amount |-> a] : a \in {2, 4}}

MCAnswer == [k \in Keys |-> IF k \in Declined THEN "LIMIT_EXCEEDED" ELSE "COMPLETED"]
===============================================================================
