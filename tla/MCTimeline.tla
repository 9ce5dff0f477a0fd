----------------------------- MODULE MCTimeline -----------------------------
(* A small instance of Timeline: a room of six events, two of them history; *)
(* one that is sent from here gets a reply from here, and a reaction.       *)
EXTENDS Timeline

MCRoot == <<0, 1, 0, 3, 3, 0>>
MCBudget == [divider |-> 2, clear |-> 1, page |-> 1]
=============================================================================
