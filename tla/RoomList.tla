------------------------------ MODULE RoomList ------------------------------
(***************************************************************************)
(* The room list: SyncApplier turns each /sync response into a             *)
(* RoomSyncUpdate on the worker thread, RoomState applies it, room by      *)
(* room, on the UI thread.  Between the two threads updates wait in a      *)
(* queue, and the room that is open may change meanwhile.                  *)
(*                                                                         *)
(* The homeserver and the user interface are outside the repository.  The  *)
(* server reports, for each room with news, whether the user is invited,   *)
(* joined or has left.  The interface calls RoomState in the order of the  *)
(* fields of RoomSyncUpdate (roomsToRemove, roomsToUpsert, invitedRooms),  *)
(* hides a room by removing its row first, and mirrors the list in a view  *)
(* (RoomListModel) that learns of changes only from what upsertRoom and    *)
(* removeRoom return.                                                      *)
(***************************************************************************)
EXTENDS Integers, Sequences, FiniteSets

CONSTANTS
    Rooms,
    Times,      \* origin_server_ts of timeline events
    MaxQueue,   \* bound: updates that wait for the UI thread
    Changes,    \* bound: how often a room has news
    UiCalls,    \* bound: hide, unhide, open and log-out
    NoRoom      \* no room is open

Memberships == {"none", "invite", "join", "leave"}

ASSUME RoomListAssumption ==
    /\ IsFiniteSet(Rooms) /\ NoRoom \notin Rooms /\ Times \subseteq Nat \ {0}
    /\ MaxQueue \in Nat \ {0} /\ Changes \in Nat /\ UiCalls \in Nat

VARIABLES
    rooms,    \* rooms_: the rows
    index,    \* index_: room -> row
    hidden,   \* hiddenRoomIds_
    view,     \* the rows RoomListModel shows
    todo,     \* calls of RoomState the UI thread has still to make
    queue,    \* updates that wait for the UI thread
    open,     \* the current room, or NoRoom
    member,   \* server: the user's membership of each room
    news,     \* server: rooms for the next response
    latest,   \* history: what the last prepared update said of each room
    unlisted, \* history: rooms whose row the user removed, or refused, by hiding
    left      \* what is left of Changes and UiCalls

state == <<rooms, index, hidden>>
server == <<member, news>>
vars == <<state, view, todo, queue, open, server, latest, unlisted, left>>

\* RoomData.  0 is the time of a room without timeline events.
Row == [id : Rooms, ts : Times \cup {0}, unread : {0, 1}, invite : BOOLEAN]

Call == [op : {"remove"}, id : Rooms] \cup [op : {"upsert"}, room : Row]

TypeOK ==
    /\ rooms \in Seq(Row) /\ view \in Seq(Row)
    /\ DOMAIN index \subseteq Rooms /\ \A r \in DOMAIN index : index[r] \in 1..Len(rooms)
    /\ hidden \subseteq Rooms
    /\ todo \in Seq(Call) /\ queue \in Seq(Seq(Call)) /\ Len(queue) <= MaxQueue
    /\ open \in Rooms \cup {NoRoom}
    /\ member \in [Rooms -> Memberships] /\ news \subseteq Rooms
    /\ latest \in [Rooms -> Row \cup {<<>>}]
    /\ unlisted \subseteq Rooms
    /\ left \in [{"news", "ui"} -> Nat]

Init ==
    /\ rooms = <<>> /\ index = << >> /\ hidden = {} /\ view = <<>>
    /\ todo = <<>> /\ queue = <<>> /\ open = NoRoom
    /\ member = [r \in Rooms |-> "none"] /\ news = {}
    /\ latest = [r \in Rooms |-> <<>>] /\ unlisted = {}
    /\ left = [x \in {"news", "ui"} |-> IF x = "news" THEN Changes ELSE UiCalls]

Spend(what) == left[what] > 0 /\ left' = [left EXCEPT ![what] = @ - 1]
-----------------------------------------------------------------------------
(* The homeserver *)

May == [none |-> {"invite", "join"}, invite |-> {"join", "leave"},
        join |-> {"join", "leave", "invite"}, leave |-> {"join", "invite"}]

\* Something happens in a room: a message, an invitation, a join, a leave;
\* to a joined room also a kick and a new invitation at once.
Change(r) ==
    /\ Spend("news")
    /\ \E m \in May[member[r]] : member' = [member EXCEPT ![r] = m]
    /\ news' = news \cup {r}
    /\ UNCHANGED <<state, view, todo, queue, open, latest, unlisted>>
-----------------------------------------------------------------------------
(* SyncApplier, on the worker thread *)

Orders(S) == {s \in [1..Cardinality(S) -> S] : \A i, j \in DOMAIN s : s[i] = s[j] => i = j}
With(m) == {r \in news : member[r] = m}

\* A joined room: the counts of the room the user has open are not shown.
Joined(r, ts, n) ==
    [id |-> r, ts |-> ts, unread |-> IF r = open THEN 0 ELSE n, invite |-> FALSE]

Invited(r) == [id |-> r, ts |-> 0, unread |-> 0, invite |-> TRUE]

Upserts(s) == [i \in DOMAIN s |-> [op |-> "upsert", room |-> s[i]]]
Removals(s) == [i \in DOMAIN s |-> [op |-> "remove", id |-> s[i]]]

\* prepareRoomSyncUpdate: one response becomes one update.
Prepare ==
    /\ news # {} /\ Len(queue) < MaxQueue
    /\ \E gone \in Orders(With("leave")), joined \in Orders(With("join")),
          invited \in Orders(With("invite")) :
       \E ts \in [With("join") -> Times \cup {0}], n \in [With("join") -> {0, 1}] :
          LET said(r) == IF member[r] = "join" THEN Joined(r, ts[r], n[r]) ELSE Invited(r)
          IN  /\ queue' = Append(queue, Removals(gone)
                    \o Upserts([i \in DOMAIN joined |-> said(joined[i])])
                    \o Upserts([i \in DOMAIN invited |-> said(invited[i])]))
              /\ latest' = [r \in Rooms |->
                    IF r \notin news THEN latest[r]
                    ELSE IF member[r] = "leave" THEN <<>> ELSE said(r)]
    /\ news' = {}
    /\ UNCHANGED <<state, view, todo, open, member, unlisted, left>>
-----------------------------------------------------------------------------
(* RoomState, on the UI thread *)

\* findRowByRoomId: 0 for none.
RowOf(r) == IF r \in DOMAIN index THEN index[r] ELSE 0

InsertAt(s, p, x) == SubSeq(s, 1, p - 1) \o <<x>> \o SubSeq(s, p, Len(s))
RemoveAt(s, p) == SubSeq(s, 1, p - 1) \o SubSeq(s, p + 1, Len(s))

\* The index after the rows from p on were counted again.
Reindexed_FromNext(s, p, ix) ==
    [r \in DOMAIN ix \cup {s[i].id : i \in p + 1..Len(s)} |->
        IF \E i \in p + 1..Len(s) : s[i].id = r
        THEN CHOOSE i \in p + 1..Len(s) : s[i].id = r ELSE ix[r]]

Reindexed(s, p, ix) ==
    [r \in DOMAIN ix \cup {s[i].id : i \in p..Len(s)} |->
        IF \E i \in p..Len(s) : s[i].id = r
        THEN CHOOSE i \in p..Len(s) : s[i].id = r ELSE ix[r]]

Without(ix, r) == [q \in DOMAIN ix \ {r} |-> ix[q]]

\* The comparison of the sorted insert (no room is pinned or anchored).
Before(a, b) == a.ts > b.ts

\* Where upper_bound can end: the list need not be sorted, and then any place
\* with these neighbours may be found.
Place(x, p) ==
    /\ p > 1 => ~Before(x, rooms[p - 1])
    /\ p <= Len(rooms) => Before(x, rooms[p])

\* upsertRoom of a room that has a row, and what it returns.
Merged_KeepsInvite(old, new) == [new EXCEPT !.invite = old.invite]
Merged(old, new) == new

Tells_OfTimeOnly(old, new) == old.ts # new.ts
Tells(old, new) == old # new

CallDone == todo' = Tail(todo)
Doing(op) == todo # <<>> /\ Head(todo).op = op

\* UpsertResult::Hidden
UpsertHidden ==
    /\ Doing("upsert") /\ Head(todo).room.id \in hidden
    /\ unlisted' = unlisted \cup {Head(todo).room.id}
    /\ CallDone
    /\ UNCHANGED <<state, view, queue, open, server, latest, left>>

\* UpsertResult::Updated and UpsertResult::Unchanged: the row keeps its place.
UpsertMerge ==
    /\ Doing("upsert")
    /\ LET x == Head(todo).room
           p == RowOf(x.id)
           y == Merged(rooms[p], x)
       IN  /\ x.id \notin hidden /\ p # 0
           /\ rooms' = [rooms EXCEPT ![p] = y]
           /\ view' = IF Tells(rooms[p], y) THEN [view EXCEPT ![p] = y] ELSE view
    /\ CallDone
    /\ UNCHANGED <<index, hidden, queue, open, server, latest, unlisted, left>>

\* UpsertResult::Inserted
UpsertInsert ==
    /\ Doing("upsert")
    /\ LET x == Head(todo).room
       IN  /\ x.id \notin hidden /\ RowOf(x.id) = 0
           /\ \E p \in 1..Len(rooms) + 1 :
                /\ Place(x, p)
                /\ rooms' = InsertAt(rooms, p, x)
                /\ index' = Reindexed(rooms', p, index)
                /\ view' = InsertAt(view, p, x)
           /\ unlisted' = unlisted \ {x.id}
    /\ CallDone
    /\ UNCHANGED <<hidden, queue, open, server, latest, left>>

\* removeRoom; a room without a row stays hidden.
Removed(r) ==
    IF RowOf(r) = 0 THEN UNCHANGED <<state, view>>
    ELSE /\ rooms' = RemoveAt(rooms, RowOf(r))
         /\ index' = Reindexed(rooms', RowOf(r), Without(index, r))
         /\ hidden' = hidden \ {r}
         /\ view' = RemoveAt(view, RowOf(r))

RemoveRoom ==
    /\ Doing("remove")
    /\ Removed(Head(todo).id)
    /\ unlisted' = unlisted \ {Head(todo).id}
    /\ CallDone
    /\ UNCHANGED <<queue, open, server, latest, left>>
-----------------------------------------------------------------------------
(* The user interface *)

\* The UI thread takes the next update.
Deliver ==
    /\ todo = <<>> /\ queue # <<>>
    /\ todo' = Head(queue) /\ queue' = Tail(queue)
    /\ UNCHANGED <<state, view, open, server, latest, unlisted, left>>

OpenRoom(r) ==
    /\ todo = <<>> /\ r # open /\ Spend("ui")
    /\ open' = r
    /\ UNCHANGED <<state, view, todo, queue, server, latest, unlisted>>

\* hideRoom, after removeRoom, which would otherwise clear the mark.
HideRoom(r) ==
    /\ todo = <<>> /\ r \notin hidden /\ Spend("ui")
    /\ IF RowOf(r) = 0 THEN UNCHANGED <<rooms, index, view>>
       ELSE /\ rooms' = RemoveAt(rooms, RowOf(r))
            /\ index' = Reindexed(rooms', RowOf(r), Without(index, r))
            /\ view' = RemoveAt(view, RowOf(r))
    /\ hidden' = hidden \cup {r}
    /\ unlisted' = IF RowOf(r) = 0 THEN unlisted ELSE unlisted \cup {r}
    /\ UNCHANGED <<todo, queue, open, server, latest>>

\* unhideRoom: the row comes back with the next news of the room.
UnhideRoom(r) ==
    /\ todo = <<>> /\ r \in hidden /\ Spend("ui")
    /\ hidden' = hidden \ {r}
    /\ UNCHANGED <<rooms, index, view, todo, queue, open, server, latest, unlisted>>

\* clear(), when the account is left: the updates that wait are dropped and
\* the next sync starts from the beginning.  The hidden rooms stay.
Clear ==
    /\ todo = <<>> /\ Spend("ui")
    /\ rooms' = <<>> /\ index' = << >> /\ view' = <<>>
    /\ queue' = <<>> /\ open' = NoRoom
    /\ news' = {r \in Rooms : member[r] \in {"invite", "join"}}
    /\ latest' = [r \in Rooms |-> <<>>] /\ unlisted' = {}
    /\ UNCHANGED <<hidden, todo, member>>

Next ==
    \/ \E r \in Rooms : Change(r) \/ OpenRoom(r) \/ HideRoom(r) \/ UnhideRoom(r)
    \/ Prepare \/ Deliver \/ Clear
    \/ UpsertHidden \/ UpsertMerge \/ UpsertInsert \/ RemoveRoom

Spec == Init /\ [][Next]_vars
-----------------------------------------------------------------------------
Listed(r) == \E i \in DOMAIN rooms : rooms[i].id = r

\* Calls for the room that were prepared and not made yet.
Awaited(s, r) ==
    \E i \in DOMAIN s : IF s[i].op = "remove" THEN s[i].id = r ELSE s[i].room.id = r
UnderWay(r) == Awaited(todo, r) \/ \E k \in DOMAIN queue : Awaited(queue[k], r)

\* room_state.hpp "roomId -> row, O(1) lookup": the index finds every row, and
\* nothing else, so no room has two rows; over every sequence of inserts,
\* removals, hides and clears.
IndexExact ==
    /\ DOMAIN index = {rooms[i].id : i \in DOMAIN rooms}
    /\ \A i \in DOMAIN rooms : index[rooms[i].id] = i

\* What the responses said last is what the list shows, whichever way the
\* room went (invited, joined, kicked and invited again): once no call for a
\* room is under way it has a row with the latest membership, time and count,
\* or none if it was left, hidden, or removed by hiding and not reported since.
ListIsCurrent ==
    \A r \in Rooms : ~UnderWay(r) =>
        IF latest[r] # <<>> /\ r \notin hidden /\ r \notin unlisted
        THEN r \in DOMAIN index /\ rooms[index[r]] = latest[r]
        ELSE ~Listed(r)

\* The results of upsertRoom and removeRoom (Updated or not, the row) are
\* enough for a view that applies nothing else: it never differs from the list.
ViewFollows == view = rooms
=============================================================================
