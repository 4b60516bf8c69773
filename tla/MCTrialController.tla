--------------------------- MODULE MCTrialController ---------------------------
EXTENDS TrialController

\* Two trials in matrix order, one of each condition and of each kind of fault.
MCCondition == <<"R-A", "K-A">>
MCScenario == <<"database-delay", "adapter-crash">>
===============================================================================
