------------------------------- MODULE Mailbox -------------------------------
(***************************************************************************)
(* What the delivery of to-device messages promises, without tokens, runs  *)
(* or steps of a worker: a mailbox at the homeserver, a handler, and the   *)
(* knowledge the handler gains, which is volatile until it is saved.       *)
(* SyncDelivery implements it.                                             *)
(***************************************************************************)
EXTENDS Naturals

CONSTANT Messages

VARIABLES
    posted,   \* messages ever put into the mailbox
    queue,    \* messages the homeserver still holds
    handled,  \* messages the handler has seen
    dropped,  \* messages the client has let go unseen
    known,    \* messages whose effect is in memory
    safe      \* messages whose effect is on disk

mvars == <<posted, queue, handled, dropped, known, safe>>

Init ==
    /\ posted = {} /\ queue = {} /\ handled = {} /\ dropped = {}
    /\ known = {} /\ safe = {}

\* A new message arrives.
Post ==
    \E x \in Messages \ posted :
        /\ posted' = posted \cup {x} /\ queue' = queue \cup {x}
        /\ UNCHANGED <<handled, dropped, known, safe>>

\* One exchange with the homeserver: it forgets only messages that were
\* handled or let go, and the client may let go some that it fetched.
Exchange ==
    \E Gone \in SUBSET (queue \cap (handled \cup dropped)) :
        /\ queue' = queue \ Gone
        /\ \E Unseen \in SUBSET queue' : dropped' = dropped \cup Unseen
        /\ UNCHANGED <<posted, handled, known, safe>>

\* Messages that are still in the mailbox are handled: known from then on.
Handle ==
    \E Batch \in SUBSET queue :
        /\ handled' = handled \cup Batch /\ known' = known \cup Batch
        /\ UNCHANGED <<posted, queue, dropped, safe>>

\* What is known is saved; a restart knows exactly what was saved.
Save    == safe' = known /\ UNCHANGED <<posted, queue, handled, dropped, known>>
Restart == known' = safe /\ UNCHANGED <<posted, queue, handled, dropped, safe>>

Next == Post \/ Exchange \/ Handle \/ Save \/ Restart

Safety == Init /\ [][Next]_mvars

\* Every message is handled or let go in the end.
Progress == \A x \in Messages : (x \in posted) ~> (x \in handled \cup dropped)

Spec == Safety /\ Progress
==============================================================================
