------------------------ MODULE MCPrototypeChoreography ------------------------
EXTENDS PrototypeChoreography, TLC

CONSTANTS alice, bob, Declined

\* alice can pay one of the two transfers.
MCCommands == [payer : {alice}, payee : {bob}, amount : {2}]
MCAnswer == [k \in Keys |-> IF k \in Declined THEN "LIMIT_EXCEEDED" ELSE "COMPLETED"]

\* The two keys differ in nothing: no key is declined.
MCSymmetry == Permutations(Keys)
===============================================================================
