--------------------------- MODULE MCSyncDelivery ---------------------------
(* Small instances of SyncDelivery: the budgets of the environment.         *)
EXTENDS SyncDelivery

Allow(S, n) == [x \in EnvEvents |-> IF x \in S THEN n ELSE 0]

FullBudget  == Allow(EnvEvents, 1)
CrashBudget == Allow({"crash", "close"}, 1)
==============================================================================
