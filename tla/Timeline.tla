------------------------------ MODULE Timeline ------------------------------
(***************************************************************************)
(* The rows of one room's timeline (TimelineState): deduplication by event *)
(* id, the row index, the eviction at the cap, local echoes and their      *)
(* replacement, pages of history and the reply counts of threads.          *)
(*                                                                         *)
(* The callers are a user interface outside the repository.  They are      *)
(* modelled by what they hand over: the events of /sync in order, one by   *)
(* one or in batches; the echo of a message that is being sent and, when   *)
(* the server has answered, the real event; pages of older history; a      *)
(* second version of an event whose key came late; clear().                *)
(*                                                                         *)
(* The events of the room are numbered in the server's order.  An echo of  *)
(* event n has the temporary id -n, a row without an id (a date divider)   *)
(* has the id 0.                                                           *)
(***************************************************************************)
EXTENDS Integers, Sequences, FiniteSets

CONSTANTS
    Cap,        \* MAX_TIMELINE_EVENTS
    Page,       \* events per page of history
    MaxEvents,  \* bound: events the room ever has
    Old,        \* events that are history when the timeline is opened
    Own,        \* events that are sent from here
    Late,       \* events whose key arrives after them
    Reactions,  \* events of type m.reaction
    Root,       \* the thread root each event replies to, 0 if none
    Budget      \* bound: how often the caller's rarer operations happen

Rare == {"divider", "clear", "page"}
Events == 1..MaxEvents
NoId == 0

ASSUME TimelineAssumption ==
    /\ Cap \in Nat \ {0} /\ Page \in Nat \ {0} /\ MaxEvents \in Nat /\ Old \in 0..MaxEvents
    /\ Own \subseteq (Old + 1)..MaxEvents
    /\ Late \subseteq Events \ Own /\ Reactions \subseteq Events \ Own
    /\ Root \in [Events -> 0..MaxEvents]
    /\ Budget \in [Rare -> Nat]

VARIABLES
    events,    \* events_: the rows
    seenIds,   \* seenIds_
    rowIndex,  \* rowIndex_: id -> row
    posted,    \* server: events of the room so far
    synced,    \* last event /sync has delivered
    opened,    \* what /sync had delivered when the timeline was last cleared
    oldest,    \* the history before this event was not fetched yet
    pageEnd,   \* last event of the page that was fetched last
    sending,   \* own events whose echo was shown and whose request is open
    readable,  \* Late events whose key has arrived
    evicted,   \* history: events dropped at the cap
    lost,      \* history: how many replies to an event were dropped at the cap
    doubled,   \* history: reply echoes removed because the event was there
    left       \* remaining budget

rows == <<events, seenIds, rowIndex>>
vars == <<rows, posted, synced, opened, oldest, pageEnd, sending, readable, evicted, lost, doubled,
          left>>

Ids == -MaxEvents..MaxEvents

\* A row: its id, the thread it replies to, and its own reply count.
Row == [id : Ids, reply : 0..MaxEvents, count : Nat]

ShownIds(s) == {s[i].id : i \in DOMAIN s} \ {NoId}
Shown == ShownIds(events)

TypeOK ==
    /\ events \in Seq(Row)
    /\ seenIds \subseteq Ids \ {NoId}
    /\ DOMAIN rowIndex \subseteq Ids \ {NoId}
    /\ \A x \in DOMAIN rowIndex : rowIndex[x] \in 1..Len(events)
    /\ posted \in 0..MaxEvents /\ synced \in 0..posted /\ opened \in 0..synced
    /\ oldest \in 1..MaxEvents + 1 /\ pageEnd \in 0..MaxEvents
    /\ sending \subseteq Own /\ readable \subseteq Late
    /\ evicted \subseteq Events /\ lost \in [Events -> Nat] /\ doubled \in Nat
    /\ left \in [Rare -> Nat]

Init ==
    /\ events = <<>> /\ seenIds = {} /\ rowIndex = << >>
    /\ posted = Old /\ synced = Old /\ opened = Old /\ oldest = Old + 1 /\ pageEnd = Old
    /\ sending = {} /\ readable = {}
    /\ evicted = {} /\ lost = [x \in Events |-> 0] /\ doubled = 0
    /\ left = Budget

Spend(what) == left[what] > 0 /\ left' = [left EXCEPT ![what] = @ - 1]

Displayed_Bundled(n) ==
    [id |-> n, reply |-> IF n \in Late \ readable THEN 0 ELSE Root[n],
     count |-> Cardinality({k \in 1..posted : Root[k] = n})]

\* fastEventToDisplayed: the relation of an encrypted event is known only
\* when it was decrypted.
Displayed(n) ==
    [id |-> n, reply |-> IF n \in Late \ readable THEN 0 ELSE Root[n], count |-> 0]

Echo(n) == [id |-> -n, reply |-> Root[n], count |-> 0]
Divider == [id |-> NoId, reply |-> 0, count |-> 0]
-----------------------------------------------------------------------------
(* TimelineState: the rows after an operation *)

\* The loop that rebuilds rowIndex_: of equal ids the last row counts.
Indexed(s) ==
    [x \in ShownIds(s) |->
        CHOOSE i \in DOMAIN s : s[i].id = x /\ \A j \in DOMAIN s : s[j].id = x => j <= i]

\* The rows s, with index ix, after each of the replies has been counted at
\* its root, if that is a row.
Counted(s, ix, replies) ==
    [i \in DOMAIN s |->
        IF s[i].id \in DOMAIN ix /\ ix[s[i].id] = i
        THEN [s[i] EXCEPT !.count =
                 @ + Cardinality({k \in DOMAIN replies : replies[k].reply # 0
                                                         /\ replies[k].reply = s[i].id})]
        ELSE s[i]]

Evicting(s) == IF Len(s) > Cap THEN Len(s) - Cap ELSE 0

Dropped_None(s) == {}
Dropped(s) == {s[i].id : i \in 1..Evicting(s)}

AfterEviction_NoRebuild(s, ix) == ix
AfterEviction(s, ix) ==
    IF Evicting(s) > 0 THEN Indexed(SubSeq(s, Evicting(s) + 1, Len(s))) ELSE ix

\* A row goes to the back; rows beyond the cap leave at the front.
AppendRow(e) ==
    LET ix   == IF e.id = NoId THEN rowIndex
                ELSE [x \in DOMAIN rowIndex \cup {e.id} |->
                         IF x = e.id THEN Len(events) + 1 ELSE rowIndex[x]]
        s    == Counted(Append(events, e), ix, IF e.id \in Reactions THEN <<>> ELSE <<e>>)
    IN  /\ events' = SubSeq(s, Evicting(s) + 1, Len(s))
        /\ seenIds' = (seenIds \cup ({e.id} \ {NoId})) \ Dropped(s)
        /\ rowIndex' = AfterEviction(s, ix)
        /\ evicted' = evicted \cup (Dropped(s) \cap Events)
        /\ lost' = [x \in Events |->
                       lost[x] + Cardinality({i \in 1..Evicting(s) : s[i].reply = x})]

Duplicate_OfEcho(e) == e.id # NoId /\ {e.id, -e.id} \cap seenIds # {}
Duplicate(e) == e.id # NoId /\ e.id \in seenIds

AppendBack(e) ==
    \/ Duplicate(e) /\ UNCHANGED <<rows, evicted, lost>>
    \/ ~Duplicate(e) /\ AppendRow(e)

Listings(S) == {s \in [1..Cardinality(S) -> S] : \A i, j \in DOMAIN s : i < j => s[i] < s[j]}
DisplayedAll(s) == [i \in DOMAIN s |-> Displayed(s[i])]

Unseen(S) == S \ seenIds

\* The rows are s, in which the events of new were just placed; nothing is
\* evicted.
Placed(s, new) ==
    /\ seenIds' = seenIds \cup {new[i] : i \in DOMAIN new}
    /\ rowIndex' = Indexed(s)
    /\ events' = Counted(s, rowIndex', DisplayedAll(new))

\* What was not seen goes to the back or, a page of history, to the front.
AppendBackBatch(S) ==
    \/ Unseen(S) = {} /\ UNCHANGED rows
    \/ Unseen(S) # {} /\ \E new \in Listings(Unseen(S)) : Placed(events \o DisplayedAll(new), new)

AppendFront(S) ==
    \/ Unseen(S) = {} /\ UNCHANGED rows
    \/ Unseen(S) # {} /\ \E new \in Listings(Unseen(S)) : Placed(DisplayedAll(new) \o events, new)

Without_KeepsRow(s, i) == s
Without(s, i) == SubSeq(s, 1, i - 1) \o SubSeq(s, i + 1, Len(s))

Renamed_KeepsEcho(temp, n) ==
    [x \in DOMAIN rowIndex \cup {n} |-> IF x = n THEN rowIndex[temp] ELSE rowIndex[x]]
Renamed(temp, n) ==
    [x \in (DOMAIN rowIndex \ {temp}) \cup {n} |-> IF x = n THEN rowIndex[temp] ELSE rowIndex[x]]

\* replaceEcho: append if the echo is gone, remove it if the event was seen,
\* else replace it where it is (its row is always in range: IndexExact).
ReplaceEcho(n) ==
    LET temp == -n
        row  == rowIndex[temp]
    IN  \/ temp \notin DOMAIN rowIndex /\ AppendBack(Displayed(n)) /\ UNCHANGED doubled
        \/ /\ temp \in DOMAIN rowIndex /\ n \in seenIds
           /\ events' = Without(events, row)
           /\ rowIndex' = Indexed(events')
           /\ doubled' = IF Root[n] = 0 THEN doubled ELSE doubled + 1
           /\ UNCHANGED <<seenIds, evicted, lost>>
        \/ /\ temp \in DOMAIN rowIndex /\ n \notin seenIds
           /\ events' = [events EXCEPT ![row] = Displayed(n)]
           /\ seenIds' = seenIds \cup {n}
           /\ rowIndex' = Renamed(temp, n)
           /\ UNCHANGED <<evicted, lost, doubled>>
-----------------------------------------------------------------------------
(* The room, and the calls of the user interface *)

Post ==
    /\ posted < MaxEvents
    /\ posted + 1 \in Own => posted + 1 \in sending
    /\ posted' = posted + 1
    /\ UNCHANGED <<rows, synced, opened, oldest, pageEnd, sending, readable, evicted, lost,
                   doubled, left>>

\* One event of /sync, or a batch of them.
SyncOne ==
    /\ synced < posted
    /\ synced' = synced + 1
    /\ AppendBack(Displayed(synced + 1))
    /\ UNCHANGED <<posted, opened, oldest, pageEnd, sending, readable, doubled, left>>

SyncBatch ==
    \E last \in synced + 2..posted :
        /\ synced' = last
        /\ AppendBackBatch(synced + 1..last)
        /\ UNCHANGED <<posted, opened, oldest, pageEnd, sending, readable, evicted, lost,
                       doubled, left>>

\* The echo of a message, before the server has it.
Send(n) ==
    /\ n \in Own /\ n > posted /\ n \notin sending
    /\ AppendBack(Echo(n))
    /\ sending' = sending \cup {n}
    /\ UNCHANGED <<posted, synced, opened, oldest, pageEnd, readable, doubled, left>>

\* The answer to the request, possibly after /sync has delivered the event.
Sent(n) ==
    /\ n \in sending /\ n <= posted
    /\ ReplaceEcho(n)
    /\ sending' = sending \ {n}
    /\ UNCHANGED <<posted, synced, opened, oldest, pageEnd, readable, left>>

\* A page of history; the view may ask for the same page a second time.
ScrollBack ==
    /\ oldest > 1
    /\ oldest' = (IF oldest > Page THEN oldest - Page ELSE 1) /\ pageEnd' = oldest - 1
    /\ AppendFront(oldest'..pageEnd')
    /\ UNCHANGED <<posted, synced, opened, sending, readable, evicted, lost, doubled, left>>

ScrollAgain ==
    /\ Spend("page")
    /\ AppendFront(oldest..pageEnd)
    /\ UNCHANGED <<posted, synced, opened, oldest, pageEnd, sending, readable, evicted, lost,
                   doubled>>

AddDivider ==
    /\ Spend("divider")
    /\ AppendBack(Divider)
    /\ UNCHANGED <<posted, synced, opened, oldest, pageEnd, sending, readable, doubled>>

\* The key of an event has come: replaceEvent on the row, if there is one.
KeyArrives(n) ==
    /\ n \in Late \ readable /\ n <= synced
    /\ readable' = readable \cup {n}
    /\ IF n \in DOMAIN rowIndex
       THEN events' = [events EXCEPT ![rowIndex[n]] = [@ EXCEPT !.reply = Root[n], !.count = 0]]
       ELSE UNCHANGED events
    /\ UNCHANGED <<seenIds, rowIndex, posted, synced, opened, oldest, pageEnd, sending, evicted,
                   lost, doubled, left>>

\* clear(): another room, or the same one again.
Clear ==
    /\ Spend("clear")
    /\ events' = <<>> /\ seenIds' = {} /\ rowIndex' = << >>
    /\ opened' = synced /\ oldest' = synced + 1 /\ pageEnd' = synced
    /\ evicted' = {} /\ lost' = [x \in Events |-> 0] /\ doubled' = 0
    /\ UNCHANGED <<posted, synced, sending, readable>>

Next ==
    \/ Post \/ SyncOne \/ SyncBatch \/ ScrollBack \/ ScrollAgain \/ AddDivider \/ Clear
    \/ \E n \in Events : Send(n) \/ Sent(n) \/ KeyArrives(n)

Spec == Init /\ [][Next]_vars
-----------------------------------------------------------------------------
\* The row index is what its rebuild would give, so every update of a row by
\* its id (edits, redactions, pins, reactions) hits that event's row; hence
\* also no id is shown twice (timeline_state.cpp:66, 91, 154-181).
IndexExact ==
    /\ DOMAIN rowIndex = Shown
    /\ \A i \in DOMAIN events : events[i].id # NoId => rowIndex[events[i].id] = i

\* An event is refused as a duplicate only while it is on the screen: what was
\* evicted can be fetched again (timeline_state.cpp:60-61, 84-86, 166).
SeenExact == {x \in seenIds : x > 0} = {x \in Shown : x > 0}

\* The echo of a message stands only while its request is open: whichever of
\* the answer and /sync comes first, it never stays beside the real event
\* (timeline_state.cpp:154-181).
NoGhost == \A x \in Shown : x < 0 => -x \in sending

\* What /sync delivered since the timeline was opened is shown, or was dropped
\* at the cap; no race with an echo swallows it.
NothingMissing == (opened + 1)..synced \subseteq Shown \cup evicted

Replies(x) == {i \in DOMAIN events : events[i].reply = x}

\* A reply count never exceeds the replies shown, but for those dropped at the
\* cap and, a known flaw, one more for each removed reply echo, which is not
\* taken back (timeline_state.cpp:166-173).  A reply that is dropped, fetched
\* again and dropped again is counted twice (timeline_state.cpp:145-152).
CountBounded ==
    \A i \in DOMAIN events :
        events[i].id > 0 =>
            events[i].count <= Cardinality(Replies(events[i].id)) + doubled + lost[events[i].id]
=============================================================================
