------------------------------ MODULE MCOlmKeys ------------------------------
(* Instances of OlmKeys for TLC. *)
EXTENDS OlmKeys

\* One round of claims can empty the pool, a second one uses the fallback key.
MCBudget == [claim |-> 2, trouble |-> 1]
MCNoFaults == [claim |-> 2, trouble |-> 0]
=============================================================================
