---------------------------- MODULE MCKeyRequests ----------------------------
(* A small instance of KeyRequests: two sessions of one sender in one room, *)
(* an event of each.                                                        *)
EXTENDS KeyRequests, TLC

CONSTANTS k1, k2, room, alice, e1, e2

MCKeys == {k1, k2}
MCRoomOf == [k \in MCKeys |-> room]
MCSenderOf == [k \in MCKeys |-> alice]
MCEvents == {e1, e2}
MCKeyOf == (e1 :> k1) @@ (e2 :> k2)

\* Two scheduled retries, after one tick and after two.
MCDelay == <<1, 2>>

\* After a reboot the saved ages are in the future of the steady clock.
MCRebootAge == -1

\* One of each in kinds, saves of them, and that many events.
Counts(events, saves, kinds) ==
    [x \in EnvEvents |-> CASE x = "event" -> events
                          [] x = "persist" -> saves
                          [] OTHER -> IF x \in kinds THEN 1 ELSE 0]

\* What happens together: two saves around an answer, a resend and a restart;
\* and for two events, or three with a restart, each of the other pairs.
MCBudgets ==
    {Counts(1, 2, {"restart", "key", "resend"}), Counts(2, 1, {"restart", "resend"}),
     Counts(3, 1, {"restart"}), Counts(2, 0, {"restart", "manual"})} \cup
    {Counts(2, 0, kinds) : kinds \in {{"key", "bad"}, {"key", "forward"},
                                     {"forward", "resend"}, {"manual", "resend"}}}
==============================================================================
