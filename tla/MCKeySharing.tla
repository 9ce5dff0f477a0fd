---------------------------- MODULE MCKeySharing ----------------------------
(* A small instance of KeySharing: two members, two threads.  The first key  *)
(* that bob's device has on the server is one of an old identity.            *)
EXTENDS KeySharing, TLC

CONSTANTS bob, carol, t1, t2

MCMembers == {bob, carol}
FewOtks   == (bob :> 3) @@ (carol :> 0)
OldOtks   == (bob :> 1) @@ (carol :> 0)

\* A user interface thread, and a pool worker that also sends.
MCOps == (t1 :> {"send", "olm"}) @@ (t2 :> {"send", "join", "devices", "fresh"})
=============================================================================
