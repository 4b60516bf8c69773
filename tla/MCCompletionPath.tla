--------------------------- MODULE MCCompletionPath ---------------------------
(* Two calls of wait() on one transfer, so that one can leave while the other *)
(* waits, and five handler calls on two slots, so that three may queue.      *)
EXTENDS CompletionPath
===============================================================================
