--------------------------- MODULE RoomList_proofs ---------------------------
(***************************************************************************)
(* For any set of rooms, any times and any number of updates: the list is  *)
(* well typed, the index agrees with the rows, a view that follows the     *)
(* results of upsertRoom and removeRoom shows the list, and the list says  *)
(* what the responses said last.                                           *)
(***************************************************************************)
EXTENDS RoomList, SequenceTheorems, FiniteSetTheorems, TLAPS

\* The index ix finds the rows s and nothing else.
Exact(s, ix) ==
    /\ DOMAIN ix = {s[i].id : i \in DOMAIN s}
    /\ \A i \in DOMAIN s : ix[s[i].id] = i

\* A row inserted at p moves the rows from p on by one.
LEMMA InsertRows ==
    ASSUME NEW s \in Seq(Row), NEW x \in Row, NEW p \in 1..Len(s) + 1
    PROVE  /\ InsertAt(s, p, x) \in Seq(Row)
           /\ Len(InsertAt(s, p, x)) = Len(s) + 1
           /\ \A i \in 1..Len(s) + 1 :
                 InsertAt(s, p, x)[i] = IF i < p THEN s[i] ELSE IF i = p THEN x ELSE s[i - 1]
<1> DEFINE h == SubSeq(s, 1, p - 1)
           t == SubSeq(s, p, Len(s))
<1>1. h \in Seq(Row) /\ Len(h) = p - 1 /\ \A i \in 1..p - 1 : h[i] = s[i]
    OBVIOUS
<1>2. t \in Seq(Row) /\ Len(t) = Len(s) - p + 1 /\ \A i \in 1..Len(s) - p + 1 : t[i] = s[p + i - 1]
    OBVIOUS
<1>3. <<x>> \in Seq(Row) /\ Len(<<x>>) = 1 /\ <<x>>[1] = x
    OBVIOUS
<1> HIDE DEF h, t
<1>4. InsertAt(s, p, x) = (h \o <<x>>) \o t
    BY DEF InsertAt, h, t
<1>5. h \o <<x>> \in Seq(Row) /\ Len(h \o <<x>>) = p /\ (h \o <<x>>)[p] = x
      /\ \A i \in 1..p - 1 : (h \o <<x>>)[i] = s[i]
    BY <1>1, <1>3, ConcatProperties
<1> DEFINE g == h \o <<x>>
<1> HIDE DEF g
<1>6. /\ g \o t \in Seq(Row) /\ Len(g \o t) = Len(s) + 1
      /\ \A i \in 1..Len(s) + 1 : (g \o t)[i] = IF i <= p THEN g[i] ELSE t[i - p]
  <2>1. g \in Seq(Row) /\ Len(g) = p /\ t \in Seq(Row) /\ Len(t) = Len(s) - p + 1
      BY <1>2, <1>5 DEF g
  <2>2. /\ g \o t \in Seq(Row) /\ Len(g \o t) = Len(g) + Len(t)
        /\ \A i \in 1..Len(g) + Len(t) : (g \o t)[i] = IF i <= Len(g) THEN g[i] ELSE t[i - Len(g)]
      BY <2>1, ConcatProperties
  <2>3. Len(g) + Len(t) = Len(s) + 1
      BY <2>1
  <2> QED BY <2>1, <2>2, <2>3
<1>7. \A i \in 1..Len(s) + 1 :
         (g \o t)[i] = IF i < p THEN s[i] ELSE IF i = p THEN x ELSE s[i - 1]
  <2> SUFFICES ASSUME NEW i \in 1..Len(s) + 1
               PROVE  (g \o t)[i] = IF i < p THEN s[i] ELSE IF i = p THEN x ELSE s[i - 1]
      OBVIOUS
  <2>1. CASE i <= p
      BY <1>5, <1>6, <2>1 DEF g
  <2>2. CASE ~(i <= p)
    <3>1. i - p \in 1..Len(s) - p + 1 /\ p + (i - p) - 1 = i - 1
        BY <2>2
    <3> QED BY <1>2, <1>6, <2>2, <3>1
  <2> QED BY <2>1, <2>2
<1> QED BY <1>4, <1>6, <1>7 DEF g

\* Without the row at p the rows behind it move up by one.
LEMMA RemoveRows ==
    ASSUME NEW s \in Seq(Row), NEW p \in 1..Len(s)
    PROVE  /\ RemoveAt(s, p) \in Seq(Row)
           /\ Len(RemoveAt(s, p)) = Len(s) - 1
           /\ \A i \in 1..Len(s) - 1 : RemoveAt(s, p)[i] = IF i < p THEN s[i] ELSE s[i + 1]
<1> DEFINE h == SubSeq(s, 1, p - 1)
           t == SubSeq(s, p + 1, Len(s))
<1>1. h \in Seq(Row) /\ Len(h) = p - 1 /\ \A i \in 1..p - 1 : h[i] = s[i]
    OBVIOUS
<1>2. t \in Seq(Row) /\ Len(t) = Len(s) - p /\ \A i \in 1..Len(s) - p : t[i] = s[p + i]
    OBVIOUS
<1> HIDE DEF h, t
<1>3. RemoveAt(s, p) = h \o t
    BY DEF RemoveAt, h, t
<1>4. /\ h \o t \in Seq(Row) /\ Len(h \o t) = Len(s) - 1
      /\ \A i \in 1..Len(s) - 1 : (h \o t)[i] = IF i <= p - 1 THEN h[i] ELSE t[i - (p - 1)]
  <2>1. /\ h \o t \in Seq(Row) /\ Len(h \o t) = Len(h) + Len(t)
        /\ \A i \in 1..Len(h) + Len(t) : (h \o t)[i] = IF i <= Len(h) THEN h[i] ELSE t[i - Len(h)]
      BY <1>1, <1>2, ConcatProperties
  <2>2. Len(h) = p - 1 /\ Len(h) + Len(t) = Len(s) - 1
      BY <1>1, <1>2
  <2> QED BY <2>1, <2>2
<1>5. \A i \in 1..Len(s) - 1 : (h \o t)[i] = IF i < p THEN s[i] ELSE s[i + 1]
  <2> SUFFICES ASSUME NEW i \in 1..Len(s) - 1
               PROVE  (h \o t)[i] = IF i < p THEN s[i] ELSE s[i + 1]
      OBVIOUS
  <2>1. CASE i < p
      BY <1>1, <1>4, <2>1
  <2>2. CASE ~(i < p)
    <3>1. i - (p - 1) \in 1..Len(s) - p /\ p + (i - (p - 1)) = i + 1 /\ ~(i <= p - 1)
        BY <2>2
    <3>2. t[i - (p - 1)] = s[i + 1]
        BY <1>2, <3>1
    <3> QED BY <1>4, <2>2, <3>1, <3>2
  <2> QED BY <2>1, <2>2
<1> QED BY <1>3, <1>4, <1>5

\* Counting the rows from p on again makes an index exact that is right for
\* the rows before p and knows no other room.
LEMMA ReindexedIsExact ==
    ASSUME NEW s \in Seq(Row), NEW p \in 1..Len(s) + 1, NEW ix,
           \A i, j \in DOMAIN s : s[i].id = s[j].id => i = j,
           \A i \in 1..p - 1 : s[i].id \in DOMAIN ix /\ ix[s[i].id] = i,
           \A r \in DOMAIN ix : \E i \in DOMAIN s : s[i].id = r
    PROVE  Exact(s, Reindexed(s, p, ix))
<1> DEFINE tail == {s[i].id : i \in p..Len(s)}
           new == Reindexed(s, p, ix)
<1>1. DOMAIN new = DOMAIN ix \cup tail
    BY DEF Reindexed
<1>2. DOMAIN new = {s[i].id : i \in DOMAIN s}
  <2>1. ASSUME NEW i \in DOMAIN s PROVE s[i].id \in DOMAIN ix \cup tail
    <3>1. i \in 1..p - 1 \/ i \in p..Len(s)
        OBVIOUS
    <3> QED BY <3>1
  <2>2. ASSUME NEW r \in DOMAIN ix \cup tail PROVE \E i \in DOMAIN s : s[i].id = r
    <3>1. p..Len(s) \subseteq DOMAIN s
        OBVIOUS
    <3> QED BY <3>1
  <2> QED BY <1>1, <2>1, <2>2
<1>3. ASSUME NEW i \in DOMAIN s PROVE new[s[i].id] = i
  <2>1. s[i].id \in DOMAIN new
      BY <1>2
  <2>2. CASE i \in p..Len(s)
    <3>1. new[s[i].id] = CHOOSE j \in p..Len(s) : s[j].id = s[i].id
        BY <2>1, <2>2, <1>1 DEF Reindexed
    <3>2. \A j \in p..Len(s) : s[j].id = s[i].id => j = i
        OBVIOUS
    <3> QED BY <2>2, <3>1, <3>2
  <2>3. CASE i \in 1..p - 1
    <3>1. ~ \E j \in p..Len(s) : s[j].id = s[i].id
      <4>1. \A j \in p..Len(s) : j \in DOMAIN s /\ j # i
          BY <2>3
      <4> QED BY <4>1
    <3>2. new[s[i].id] = ix[s[i].id]
        BY <2>1, <3>1, <1>1 DEF Reindexed
    <3> QED BY <2>3, <3>2
  <2> QED BY <2>2, <2>3
<1> QED BY <1>2, <1>3 DEF Exact

LEMMA InsertKeepsExact ==
    ASSUME NEW s \in Seq(Row), NEW ix, Exact(s, ix),
           NEW x \in Row, x.id \notin DOMAIN ix, NEW p \in 1..Len(s) + 1
    PROVE  Exact(InsertAt(s, p, x), Reindexed(InsertAt(s, p, x), p, ix))
<1> DEFINE t == InsertAt(s, p, x)
<1>1. /\ t \in Seq(Row) /\ Len(t) = Len(s) + 1
      /\ \A i \in 1..Len(s) + 1 : t[i] = IF i < p THEN s[i] ELSE IF i = p THEN x ELSE s[i - 1]
    BY InsertRows
<1> HIDE DEF t
<1>2. \A i, j \in DOMAIN s : s[i].id = s[j].id => i = j
    BY DEF Exact
<1>3. \A i \in DOMAIN s : s[i].id # x.id
    BY DEF Exact
<1>4. \A i, j \in DOMAIN t : t[i].id = t[j].id => i = j
  <2> SUFFICES ASSUME NEW i \in 1..Len(s) + 1, NEW j \in 1..Len(s) + 1, t[i].id = t[j].id
               PROVE  i = j
      BY <1>1
  <2> DEFINE back(k) == IF k < p THEN k ELSE k - 1
  <2>1. \A k \in 1..Len(s) + 1 : k # p => back(k) \in DOMAIN s /\ t[k] = s[back(k)]
      BY <1>1
  <2>2. t[p] = x
      BY <1>1
  <2>3. CASE i = p \/ j = p
      BY <1>3, <2>1, <2>2, <2>3
  <2>4. CASE i # p /\ j # p
    <3>1. back(i) = back(j)
        BY <1>2, <2>1, <2>4
    <3> QED BY <2>4, <3>1
  <2> QED BY <2>3, <2>4
<1>5. \A i \in 1..p - 1 : t[i].id \in DOMAIN ix /\ ix[t[i].id] = i
  <2>1. \A i \in 1..p - 1 : i \in DOMAIN s /\ t[i] = s[i]
      BY <1>1
  <2> QED BY <2>1 DEF Exact
<1>6. \A r \in DOMAIN ix : \E i \in DOMAIN t : t[i].id = r
  <2> SUFFICES ASSUME NEW i \in DOMAIN s PROVE \E k \in DOMAIN t : t[k].id = s[i].id
      BY DEF Exact
  <2>1. CASE i < p
      BY <1>1, <2>1
  <2>2. CASE ~(i < p)
    <3>1. i + 1 \in DOMAIN t /\ t[i + 1] = s[i]
        BY <1>1, <2>2
    <3> QED BY <3>1
  <2> QED BY <2>1, <2>2
<1>7. p \in 1..Len(t) + 1
    BY <1>1
<1>8. Exact(t, Reindexed(t, p, ix))
    BY <1>1, <1>4, <1>5, <1>6, <1>7, ReindexedIsExact
<1> QED BY <1>8 DEF t

LEMMA RemoveKeepsExact ==
    ASSUME NEW s \in Seq(Row), NEW ix, Exact(s, ix), NEW r \in DOMAIN ix
    PROVE  /\ ix[r] \in 1..Len(s)
           /\ Exact(RemoveAt(s, ix[r]), Reindexed(RemoveAt(s, ix[r]), ix[r], Without(ix, r)))
<1> DEFINE p == ix[r]
           t == RemoveAt(s, p)
           out == Without(ix, r)
<1>1. p \in 1..Len(s) /\ s[p].id = r
    BY DEF Exact
<1> HIDE DEF p
<1>2. /\ t \in Seq(Row) /\ Len(t) = Len(s) - 1
      /\ \A i \in 1..Len(s) - 1 : t[i] = IF i < p THEN s[i] ELSE s[i + 1]
    BY <1>1, RemoveRows
<1>3. DOMAIN out = DOMAIN ix \ {r} /\ \A q \in DOMAIN ix \ {r} : out[q] = ix[q]
    BY DEF Without
<1> HIDE DEF t, out
<1>4. \A i, j \in DOMAIN s : s[i].id = s[j].id => i = j
    BY DEF Exact
<1> DEFINE from(k) == IF k < p THEN k ELSE k + 1
<1>5. \A k \in DOMAIN t : from(k) \in DOMAIN s /\ from(k) # p /\ t[k] = s[from(k)]
    BY <1>1, <1>2
<1>6. \A i, j \in DOMAIN t : t[i].id = t[j].id => i = j
  <2> SUFFICES ASSUME NEW i \in DOMAIN t, NEW j \in DOMAIN t, t[i].id = t[j].id PROVE i = j
      OBVIOUS
  <2>1. from(i) = from(j)
      BY <1>4, <1>5
  <2>2. i \in Nat /\ j \in Nat /\ p \in Nat
      BY <1>1, <1>2
  <2> QED BY <2>1, <2>2
<1>7. \A i \in 1..p - 1 : t[i].id \in DOMAIN out /\ out[t[i].id] = i
  <2> SUFFICES ASSUME NEW i \in 1..p - 1 PROVE t[i].id \in DOMAIN out /\ out[t[i].id] = i
      OBVIOUS
  <2>1. i \in DOMAIN s /\ i # p /\ t[i] = s[i]
      BY <1>1, <1>2
  <2>2. s[i].id # r
      BY <1>1, <1>4, <2>1
  <2>3. s[i].id \in DOMAIN ix /\ ix[s[i].id] = i
      BY <2>1 DEF Exact
  <2> QED BY <1>3, <2>1, <2>2, <2>3
<1>8. \A q \in DOMAIN out : \E i \in DOMAIN t : t[i].id = q
  <2> SUFFICES ASSUME NEW i \in DOMAIN s, s[i].id # r PROVE \E k \in DOMAIN t : t[k].id = s[i].id
      BY <1>3 DEF Exact
  <2>1. i # p
      BY <1>1
  <2>2. CASE i < p
    <3>1. i \in DOMAIN t /\ t[i] = s[i]
        BY <1>1, <1>2, <2>2
    <3> QED BY <3>1
  <2>3. CASE ~(i < p)
    <3>1. i - 1 \in DOMAIN t /\ t[i - 1] = s[i]
        BY <1>1, <1>2, <2>1, <2>3
    <3> QED BY <3>1
  <2> QED BY <2>2, <2>3
<1>9. p \in 1..Len(t) + 1
    BY <1>1, <1>2
<1>10. Exact(t, Reindexed(t, p, out))
    BY <1>2, <1>6, <1>7, <1>8, <1>9, ReindexedIsExact
<1> QED BY <1>1, <1>10 DEF p, t, out
-----------------------------------------------------------------------------
IInv == TypeOK /\ IndexExact /\ ViewFollows

LEMMA IndexExactIsExact == IndexExact <=> Exact(rooms, index)
BY DEF IndexExact, Exact

LEMMA IndexExactIsExactNext == IndexExact' <=> Exact(rooms, index)'
BY DEF IndexExact, Exact

\* An exact index points into the rows.
LEMMA ExactRange ==
    ASSUME NEW s \in Seq(Row), NEW ix, Exact(s, ix)
    PROVE  DOMAIN ix \subseteq Rooms /\ \A r \in DOMAIN ix : ix[r] \in 1..Len(s)
<1> SUFFICES ASSUME NEW r \in DOMAIN ix PROVE r \in Rooms /\ ix[r] \in 1..Len(s)
    OBVIOUS
<1>1. PICK i \in DOMAIN s : s[i].id = r
    BY DEF Exact
<1>2. s[i] \in Row
    BY <1>1
<1> QED BY <1>1, <1>2 DEF Exact, Row

\* A call that is made: what is left is again a list of calls.
LEMMA CallType ==
    ASSUME todo \in Seq(Call), todo # <<>>
    PROVE  /\ Tail(todo) \in Seq(Call)
           /\ Head(todo).op = "upsert" => Head(todo).room \in Row
           /\ Head(todo).op = "remove" => Head(todo).id \in Rooms
<1>1. Head(todo) \in Call /\ Tail(todo) \in Seq(Call)
    BY HeadTailProperties
<1> QED BY <1>1 DEF Call

LEMMA SpendType ==
    ASSUME TypeOK, NEW what \in {"news", "ui"}, Spend(what)
    PROVE  left' \in [{"news", "ui"} -> Nat]
BY DEF TypeOK, Spend

\* The row of a room leaves the list, the index and the view.
LEMMA RemovalKeeps ==
    ASSUME IInv, NEW r \in Rooms, RowOf(r) # 0,
           rooms' = RemoveAt(rooms, RowOf(r)),
           index' = Reindexed(rooms', RowOf(r), Without(index, r)),
           view' = RemoveAt(view, RowOf(r))
    PROVE  /\ rooms' \in Seq(Row) /\ view' = rooms' /\ IndexExact'
           /\ DOMAIN index' \subseteq Rooms
           /\ \A q \in DOMAIN index' : index'[q] \in 1..Len(rooms')
<1>1. r \in DOMAIN index /\ RowOf(r) = index[r]
    BY DEF RowOf
<1>2. rooms \in Seq(Row) /\ Exact(rooms, index) /\ view = rooms
    BY IndexExactIsExact DEF IInv, TypeOK, ViewFollows
<1>3. index[r] \in 1..Len(rooms) /\ Exact(rooms', index')
    BY <1>1, <1>2, RemoveKeepsExact
<1>4. rooms' \in Seq(Row)
    BY <1>1, <1>2, <1>3, RemoveRows
<1>5. IndexExact'
    BY <1>3 DEF Exact, IndexExact
<1>6. DOMAIN index' \subseteq Rooms /\ \A q \in DOMAIN index' : index'[q] \in 1..Len(rooms')
    BY <1>3, <1>4, ExactRange
<1> QED BY <1>2, <1>4, <1>5, <1>6

LEMMA InitIInv == Init => IInv
<1> SUFFICES ASSUME Init PROVE IInv
    OBVIOUS
<1> USE DEF Init
<1>1. TypeOK
  <2>1. rooms \in Seq(Row) /\ view \in Seq(Row) /\ todo \in Seq(Call)
      OBVIOUS
  <2>2. queue \in Seq(Seq(Call)) /\ Len(queue) <= MaxQueue
      BY RoomListAssumption
  <2>3. DOMAIN index \subseteq Rooms /\ \A r \in DOMAIN index : index[r] \in 1..Len(rooms)
      OBVIOUS
  <2>4. member \in [Rooms -> Memberships] /\ latest \in [Rooms -> Row \cup {<<>>}]
      BY DEF Memberships
  <2>5. left \in [{"news", "ui"} -> Nat]
      BY RoomListAssumption
  <2> QED BY <2>1, <2>2, <2>3, <2>4, <2>5 DEF TypeOK
<1>2. IndexExact /\ ViewFollows
    BY DEF IndexExact, ViewFollows
<1> QED BY <1>1, <1>2 DEF IInv

\* The orders in which a response lists rooms are sequences of rooms.
LEMMA OrderIsSeq ==
    ASSUME NEW S \in SUBSET Rooms, NEW s \in Orders(S)
    PROVE  s \in Seq(S)
<1>1. Cardinality(S) \in Nat
    BY RoomListAssumption, FS_Subset, FS_CardinalityType
<1>2. s \in [1..Cardinality(S) -> S]
    BY DEF Orders
<1> QED BY <1>1, <1>2

LEMMA CallLists ==
    /\ \A s \in Seq(Rooms) : Removals(s) \in Seq(Call)
    /\ \A s \in Seq(Row) : Upserts(s) \in Seq(Call)
<1>1. ASSUME NEW s \in Seq(Rooms) PROVE Removals(s) \in Seq(Call)
  <2>1. s \in [1..Len(s) -> Rooms] /\ Len(s) \in Nat
      OBVIOUS
  <2>2. Removals(s) \in [1..Len(s) -> Call]
      BY <2>1 DEF Removals, Call
  <2> QED BY <2>1, <2>2
<1>2. ASSUME NEW s \in Seq(Row) PROVE Upserts(s) \in Seq(Call)
  <2>1. s \in [1..Len(s) -> Row] /\ Len(s) \in Nat
      OBVIOUS
  <2>2. Upserts(s) \in [1..Len(s) -> Call]
      BY <2>1 DEF Upserts, Call
  <2> QED BY <2>1, <2>2
<1> QED BY <1>1, <1>2

LEMMA PrepareKeeps == ASSUME IInv, Prepare PROVE IInv'
<1> USE DEF IInv
<1>1. PICK gone \in Orders(With("leave")), joined \in Orders(With("join")),
           invited \in Orders(With("invite")) :
      \E ts \in [With("join") -> Times \cup {0}], n \in [With("join") -> {0, 1}] :
         LET said(r) == IF member[r] = "join" THEN Joined(r, ts[r], n[r]) ELSE Invited(r)
         IN  /\ queue' = Append(queue, Removals(gone)
                   \o Upserts([i \in DOMAIN joined |-> said(joined[i])])
                   \o Upserts([i \in DOMAIN invited |-> said(invited[i])]))
             /\ latest' = [r \in Rooms |->
                   IF r \notin news THEN latest[r]
                   ELSE IF member[r] = "leave" THEN <<>> ELSE said(r)]
    BY DEF Prepare
<1>2. PICK ts \in [With("join") -> Times \cup {0}], n \in [With("join") -> {0, 1}] :
         LET said(r) == IF member[r] = "join" THEN Joined(r, ts[r], n[r]) ELSE Invited(r)
         IN  /\ queue' = Append(queue, Removals(gone)
                   \o Upserts([i \in DOMAIN joined |-> said(joined[i])])
                   \o Upserts([i \in DOMAIN invited |-> said(invited[i])]))
             /\ latest' = [r \in Rooms |->
                   IF r \notin news THEN latest[r]
                   ELSE IF member[r] = "leave" THEN <<>> ELSE said(r)]
    BY <1>1
<1> DEFINE said(r) == IF member[r] = "join" THEN Joined(r, ts[r], n[r]) ELSE Invited(r)
<1>3. \A m \in Memberships : With(m) \subseteq Rooms /\ \A r \in With(m) : r \in news /\ member[r] = m
    BY DEF With, TypeOK
<1>4. \A r \in news : said(r) \in Row
  <2> SUFFICES ASSUME NEW r \in news PROVE said(r) \in Row
      OBVIOUS
  <2>1. r \in Rooms
      BY DEF TypeOK
  <2>2. Invited(r) \in Row
      BY <2>1 DEF Invited, Row
  <2>3. CASE member[r] = "join"
    <3>1. r \in With("join")
        BY <2>3 DEF With
    <3>2. ts[r] \in Times \cup {0} /\ n[r] \in {0, 1}
        BY <3>1
    <3>3. Joined(r, ts[r], n[r]) \in Row
        BY <2>1, <3>2 DEF Joined, Row
    <3> QED BY <2>3, <3>3
  <2> QED BY <2>2, <2>3
<1>5. gone \in Seq(Rooms)
    BY <1>3, OrderIsSeq DEF Memberships
<1> DEFINE js == [i \in DOMAIN joined |-> said(joined[i])]
           is == [i \in DOMAIN invited |-> said(invited[i])]
<1>6. js \in Seq(Row) /\ is \in Seq(Row)
  <2>1. ASSUME NEW m \in {"join", "invite"}, NEW s \in Orders(With(m))
        PROVE  [i \in DOMAIN s |-> said(s[i])] \in Seq(Row)
    <3>1. s \in Seq(With(m))
        BY <1>3, OrderIsSeq DEF Memberships
    <3>2. s \in [1..Len(s) -> With(m)] /\ Len(s) \in Nat
        BY <3>1
    <3>3. \A i \in 1..Len(s) : s[i] \in news
        BY <1>3, <3>2 DEF Memberships
    <3>4. [i \in DOMAIN s |-> said(s[i])] \in [1..Len(s) -> Row]
        BY <1>4, <3>2, <3>3
    <3> QED BY <3>2, <3>4
  <2> QED BY <2>1
<1>7. /\ queue' = Append(queue, Removals(gone) \o Upserts(js) \o Upserts(is))
      /\ latest' = [r \in Rooms |->
            IF r \notin news THEN latest[r]
            ELSE IF member[r] = "leave" THEN <<>> ELSE said(r)]
    BY <1>2
<1> HIDE DEF js, is, said
<1>8. Removals(gone) \o Upserts(js) \o Upserts(is) \in Seq(Call)
  <2>1. Removals(gone) \in Seq(Call) /\ Upserts(js) \in Seq(Call) /\ Upserts(is) \in Seq(Call)
      BY <1>5, <1>6, CallLists
  <2> QED BY <2>1, ConcatProperties
<1>9. queue' \in Seq(Seq(Call)) /\ Len(queue') <= MaxQueue
  <2>1. queue \in Seq(Seq(Call)) /\ Len(queue) < MaxQueue /\ Len(queue) \in Nat
      BY DEF Prepare, TypeOK
  <2>2. \A e \in Seq(Call) :
           Append(queue, e) \in Seq(Seq(Call)) /\ Len(Append(queue, e)) = Len(queue) + 1
      BY <2>1, AppendProperties
  <2>3. queue' \in Seq(Seq(Call)) /\ Len(queue') = Len(queue) + 1
      BY <1>7, <1>8, <2>2
  <2> QED BY <2>1, <2>3, RoomListAssumption
<1>10. latest' \in [Rooms -> Row \cup {<<>>}]
    BY <1>4, <1>7 DEF TypeOK
<1>11. TypeOK'
    BY <1>9, <1>10 DEF Prepare, TypeOK, state
<1>12. IndexExact' /\ ViewFollows'
    BY DEF Prepare, state, IndexExact, ViewFollows
<1> QED BY <1>11, <1>12

LEMMA UpsertMergeKeeps == ASSUME IInv, UpsertMerge PROVE IInv'
<1> USE DEF IInv
<1> DEFINE x == Head(todo).room
           p == RowOf(x.id)
<1>1. x \in Row /\ Tail(todo) \in Seq(Call)
    BY CallType DEF UpsertMerge, Doing, TypeOK
<1>2. p \in 1..Len(rooms) /\ index[x.id] = p /\ x.id \in DOMAIN index
    BY DEF UpsertMerge, RowOf, TypeOK
<1>3. rooms[p].id = x.id
    BY <1>2 DEF IndexExact
<1>4. rooms' = [rooms EXCEPT ![p] = x]
    BY DEF UpsertMerge, Merged
<1>5. view' = rooms'
  <2>1. view' = IF rooms[p] # x THEN [view EXCEPT ![p] = x] ELSE view
      BY DEF UpsertMerge, Merged, Tells
  <2>2. view = rooms
      BY DEF ViewFollows
  <2>3. CASE rooms[p] # x
      BY <1>4, <2>1, <2>2, <2>3
  <2>4. CASE rooms[p] = x
    <3>1. rooms' = rooms
        BY <1>2, <1>4, <2>4 DEF TypeOK
    <3> QED BY <2>1, <2>2, <2>4, <3>1
  <2> QED BY <2>3, <2>4
<1> HIDE DEF x, p
<1>6. rooms' \in Seq(Row) /\ Len(rooms') = Len(rooms)
    BY <1>1, <1>2, <1>4 DEF TypeOK
<1>7. \A i \in DOMAIN rooms : rooms'[i].id = rooms[i].id
    BY <1>2, <1>3, <1>4 DEF TypeOK
<1>8. DOMAIN rooms' = DOMAIN rooms
    BY <1>2, <1>4 DEF TypeOK
<1>9. IndexExact'
  <2>1. {rooms'[i].id : i \in DOMAIN rooms'} = {rooms[i].id : i \in DOMAIN rooms}
      BY <1>7, <1>8
  <2>2. index' = index
      BY DEF UpsertMerge
  <2> QED BY <1>7, <1>8, <2>1, <2>2 DEF IndexExact
<1>10. TypeOK'
  <2>1. todo' = Tail(todo)
      BY DEF UpsertMerge, CallDone, TypeOK
  <2> QED BY <1>1, <1>5, <1>6, <2>1 DEF TypeOK, UpsertMerge, server
<1> QED BY <1>5, <1>9, <1>10 DEF ViewFollows

LEMMA UpsertInsertKeeps == ASSUME IInv, UpsertInsert PROVE IInv'
<1> USE DEF IInv
<1> DEFINE x == Head(todo).room
<1>1. x \in Row /\ Tail(todo) \in Seq(Call)
    BY CallType DEF UpsertInsert, Doing, TypeOK
<1>2. x.id \notin DOMAIN index
  <2>1. RowOf(x.id) = 0
      BY DEF UpsertInsert
  <2> QED BY <2>1 DEF RowOf, TypeOK
<1>3. PICK p \in 1..Len(rooms) + 1 :
         /\ rooms' = InsertAt(rooms, p, x)
         /\ index' = Reindexed(rooms', p, index)
         /\ view' = InsertAt(view, p, x)
    BY DEF UpsertInsert
<1> HIDE DEF x
<1>4. rooms \in Seq(Row) /\ Exact(rooms, index) /\ view = rooms
    BY IndexExactIsExact DEF TypeOK, ViewFollows
<1>5. rooms' \in Seq(Row) /\ Exact(rooms', index')
    BY <1>1, <1>2, <1>3, <1>4, InsertRows, InsertKeepsExact
<1>6. IndexExact'
    BY <1>5 DEF Exact, IndexExact
<1>7. DOMAIN index' \subseteq Rooms /\ \A r \in DOMAIN index' : index'[r] \in 1..Len(rooms')
    BY <1>5, ExactRange
<1>8. view' = rooms'
    BY <1>3, <1>4
<1>9. TypeOK'
  <2>1. todo' = Tail(todo) /\ unlisted' \subseteq unlisted
      BY DEF UpsertInsert, CallDone
  <2> QED BY <1>1, <1>5, <1>7, <1>8, <2>1 DEF TypeOK, UpsertInsert, server
<1> QED BY <1>6, <1>8, <1>9 DEF ViewFollows

LEMMA RemoveRoomKeeps == ASSUME IInv, RemoveRoom PROVE IInv'
<1> USE DEF IInv
<1> DEFINE r == Head(todo).id
<1>1. r \in Rooms /\ Tail(todo) \in Seq(Call) /\ todo' = Tail(todo)
    BY CallType DEF RemoveRoom, Doing, CallDone, TypeOK
<1>2. Removed(r) /\ unlisted' \subseteq unlisted
    BY DEF RemoveRoom
<1> HIDE DEF r
<1>3. CASE RowOf(r) = 0
  <2>1. UNCHANGED <<rooms, index, hidden, view>>
      BY <1>2, <1>3 DEF Removed, state
  <2> QED BY <1>1, <1>2, <2>1 DEF TypeOK, IndexExact, ViewFollows, RemoveRoom, server
<1>4. CASE RowOf(r) # 0
  <2>1. /\ rooms' = RemoveAt(rooms, RowOf(r))
        /\ index' = Reindexed(rooms', RowOf(r), Without(index, r))
        /\ view' = RemoveAt(view, RowOf(r)) /\ hidden' \subseteq hidden
      BY <1>2, <1>4 DEF Removed
  <2>2. /\ rooms' \in Seq(Row) /\ view' = rooms' /\ IndexExact'
        /\ DOMAIN index' \subseteq Rooms
        /\ \A q \in DOMAIN index' : index'[q] \in 1..Len(rooms')
      BY <1>1, <1>4, <2>1, RemovalKeeps
  <2>3. TypeOK'
      BY <1>1, <1>2, <2>1, <2>2 DEF TypeOK, RemoveRoom, server
  <2> QED BY <2>2, <2>3 DEF ViewFollows
<1> QED BY <1>3, <1>4

LEMMA HideKeeps == ASSUME IInv, NEW r \in Rooms, HideRoom(r) PROVE IInv'
<1> USE DEF IInv
<1>1. left' \in [{"news", "ui"} -> Nat]
    BY SpendType DEF HideRoom
<1>2. CASE RowOf(r) = 0
    BY <1>1, <1>2 DEF TypeOK, IndexExact, ViewFollows, HideRoom, server
<1>3. CASE RowOf(r) # 0
  <2>1. /\ rooms' = RemoveAt(rooms, RowOf(r))
        /\ index' = Reindexed(rooms', RowOf(r), Without(index, r))
        /\ view' = RemoveAt(view, RowOf(r))
      BY <1>3 DEF HideRoom
  <2>2. /\ rooms' \in Seq(Row) /\ view' = rooms' /\ IndexExact'
        /\ DOMAIN index' \subseteq Rooms
        /\ \A q \in DOMAIN index' : index'[q] \in 1..Len(rooms')
      BY <1>3, <2>1, RemovalKeeps
  <2>3. TypeOK'
      BY <1>1, <1>3, <2>2 DEF TypeOK, HideRoom, server
  <2> QED BY <2>2, <2>3 DEF ViewFollows
<1> QED BY <1>2, <1>3

LEMMA NextIInv == IInv /\ [Next]_vars => IInv'
<1> SUFFICES ASSUME IInv, [Next]_vars PROVE IInv'
    OBVIOUS
<1> USE DEF IInv
<1>1. ASSUME NEW r \in Rooms, Change(r) PROVE IInv'
  <2>1. member' \in [Rooms -> Memberships]
    <3>1. member[r] \in Memberships
        BY DEF TypeOK
    <3>2. May[member[r]] \subseteq Memberships
        BY <3>1 DEF May, Memberships
    <3> QED BY <1>1, <3>2 DEF Change, TypeOK
  <2>2. left' \in [{"news", "ui"} -> Nat]
      BY <1>1, SpendType DEF Change
  <2> QED BY <1>1, <2>1, <2>2 DEF Change, TypeOK, IndexExact, ViewFollows, state
<1>2. ASSUME NEW r \in Rooms, OpenRoom(r) PROVE IInv'
  <2>1. left' \in [{"news", "ui"} -> Nat]
      BY <1>2, SpendType DEF OpenRoom
  <2> QED BY <1>2, <2>1 DEF OpenRoom, TypeOK, IndexExact, ViewFollows, state, server
<1>3. ASSUME NEW r \in Rooms, HideRoom(r) PROVE IInv'
    BY <1>3, HideKeeps
<1>4. ASSUME NEW r \in Rooms, UnhideRoom(r) PROVE IInv'
  <2>1. left' \in [{"news", "ui"} -> Nat]
      BY <1>4, SpendType DEF UnhideRoom
  <2> QED BY <1>4, <2>1 DEF UnhideRoom, TypeOK, IndexExact, ViewFollows, server
<1>5. CASE Prepare
    BY <1>5, PrepareKeeps
<1>6. CASE Deliver
  <2>1. Head(queue) \in Seq(Call) /\ Tail(queue) \in Seq(Seq(Call)) /\ Len(Tail(queue)) <= MaxQueue
      BY <1>6, HeadTailProperties, RoomListAssumption DEF Deliver, TypeOK
  <2> QED BY <1>6, <2>1 DEF Deliver, TypeOK, IndexExact, ViewFollows, state, server
<1>7. CASE Clear
  <2>1. left' \in [{"news", "ui"} -> Nat]
      BY <1>7, SpendType DEF Clear
  <2>2. queue' \in Seq(Seq(Call)) /\ Len(queue') <= MaxQueue /\ rooms' \in Seq(Row) /\ view' = rooms'
      BY <1>7, RoomListAssumption DEF Clear
  <2>3. IndexExact'
      BY <1>7 DEF Clear, IndexExact
  <2>4. DOMAIN index' = {} /\ latest' \in [Rooms -> Row \cup {<<>>}]
      BY <1>7 DEF Clear
  <2>5. /\ open' \in Rooms \cup {NoRoom} /\ news' \subseteq Rooms /\ unlisted' \subseteq Rooms
        /\ UNCHANGED hidden /\ UNCHANGED todo /\ UNCHANGED member
      BY <1>7 DEF Clear
  <2>6. TypeOK'
      BY <2>1, <2>2, <2>4, <2>5 DEF TypeOK
  <2> QED BY <2>2, <2>3, <2>6 DEF ViewFollows
<1>8. CASE UpsertHidden
  <2>1. Head(todo).room \in Row /\ Tail(todo) \in Seq(Call) /\ todo' = Tail(todo)
      BY <1>8, CallType DEF UpsertHidden, Doing, CallDone, TypeOK
  <2>2. unlisted' \subseteq Rooms
      BY <1>8, <2>1 DEF UpsertHidden, TypeOK, Row
  <2> QED BY <1>8, <2>1, <2>2 DEF UpsertHidden, TypeOK, IndexExact, ViewFollows, state, server
<1>9. CASE UpsertMerge
    BY <1>9, UpsertMergeKeeps
<1>10. CASE UpsertInsert
    BY <1>10, UpsertInsertKeeps
<1>11. CASE RemoveRoom
    BY <1>11, RemoveRoomKeeps
<1>12. CASE UNCHANGED vars
    BY <1>12 DEF vars, state, server, TypeOK, IndexExact, ViewFollows
<1> QED BY <1>1, <1>2, <1>3, <1>4, <1>5, <1>6, <1>7, <1>8, <1>9, <1>10, <1>11, <1>12 DEF Next
-----------------------------------------------------------------------------
LEMMA IInvAlways == Spec => []IInv
<1> QED BY InitIInv, NextIInv, PTL DEF Spec

\* The state is well typed for every set of rooms and times, every number of
\* updates and calls and every queue: in particular the index never points
\* past the rows, which findRowByRoomId would answer with "no such room".
THEOREM TypeCorrect == Spec => []TypeOK
<1>1. IInv => TypeOK
    BY DEF IInv
<1> QED BY <1>1, IInvAlways, PTL

\* index_ of RoomState agrees with rooms_ after every sequence of upserts,
\* removals, hides and clears, so no room is listed twice.
THEOREM IndexIsExact == Spec => []IndexExact
<1>1. IInv => IndexExact
    BY DEF IInv
<1> QED BY <1>1, IInvAlways, PTL

\* What upsertRoom and removeRoom return is enough to keep a view equal to the
\* list.
THEOREM ViewShowsList == Spec => []ViewFollows
<1>1. IInv => ViewFollows
    BY DEF IInv
<1> QED BY <1>1, IInvAlways, PTL
-----------------------------------------------------------------------------
\* ListIsCurrent, strengthened with what the calls under way will leave behind.
Shown == {rooms[i] : i \in DOMAIN rooms}
ShownFor(r) == {x \in Shown : x.id = r}

\* A call about the room, as in Awaited, and what the last response said of it.
About(call, r) == IF call.op = "remove" THEN call.id = r ELSE call.room.id = r
Agrees(call, said) ==
    IF call.op = "remove" THEN said = <<>> ELSE said # <<>> /\ call.room = said

LastAbout(s, i, r) ==
    /\ i \in DOMAIN s /\ About(s[i], r)
    /\ \A j \in DOMAIN s : j > i => ~About(s[j], r)

\* Of all calls for a room the last one agrees with the last response.
Promise(r) ==
    /\ \A i : LastAbout(todo, i, r) /\ (\A k \in DOMAIN queue : ~Awaited(queue[k], r))
                 => Agrees(todo[i], latest[r])
    /\ \A k \in DOMAIN queue : \A i :
          LastAbout(queue[k], i, r) /\ (\A m \in DOMAIN queue : m > k => ~Awaited(queue[m], r))
             => Agrees(queue[k][i], latest[r])

\* A hidden room has no row, and neither has one that lost it by hiding.
Current(r) ==
    /\ r \in hidden \cup unlisted => ShownFor(r) = {}
    /\ ~UnderWay(r) /\ latest[r] = <<>> => ShownFor(r) = {}
    /\ ~UnderWay(r) /\ latest[r] # <<>> /\ r \notin unlisted => latest[r] \in Shown
    /\ latest[r] # <<>> => latest[r].id = r

CurrentInv ==
    /\ \A r \in Rooms : Promise(r) /\ Current(r)
    /\ \A r \in news : member[r] # "none"

LEMMA AwaitedAbout == \A s, r : Awaited(s, r) <=> \E i \in DOMAIN s : About(s[i], r)
BY DEF Awaited, About

\* A call that was made leaves the promise for the others; the last call of a
\* room agrees with the last response.
LEMMA CallMade ==
    ASSUME TypeOK, todo # <<>>, todo' = Tail(todo), UNCHANGED <<queue, latest>>,
           NEW r, Promise(r)
    PROVE  /\ Promise(r)'
           /\ ~About(Head(todo), r) => (UnderWay(r)' <=> UnderWay(r))
           /\ About(Head(todo), r) /\ ~UnderWay(r)' => Agrees(Head(todo), latest[r])
<1>1. /\ todo \in Seq(Call) /\ Len(todo) \in Nat \ {0} /\ DOMAIN todo = 1..Len(todo)
      /\ Head(todo) = todo[1]
      /\ DOMAIN todo' = 1..Len(todo) - 1
      /\ \A i \in 1..Len(todo) - 1 : todo'[i] = todo[i + 1]
    BY DEF TypeOK
<1>2. \A i \in 1..Len(todo) - 1 : i + 1 \in 1..Len(todo)
    BY <1>1
<1>3. \A i \in 1..Len(todo) : i # 1 => i - 1 \in 1..Len(todo) - 1 /\ (i - 1) + 1 = i
    BY <1>1
<1>4. latest' = latest
    OBVIOUS
<1>5. Awaited(todo, r) <=> About(todo[1], r) \/ Awaited(todo', r)
  <2>1. Awaited(todo, r) <=> \E i \in 1..Len(todo) : About(todo[i], r)
      BY <1>1, AwaitedAbout
  <2>2. Awaited(todo', r) <=> \E i \in 1..Len(todo) - 1 : About(todo[i + 1], r)
      BY <1>1, AwaitedAbout
  <2> QED BY <1>1, <1>2, <1>3, <2>1, <2>2
<1>6. \A i : LastAbout(todo', i, r) => i \in 1..Len(todo) - 1 /\ LastAbout(todo, i + 1, r)
  <2> SUFFICES ASSUME NEW i, LastAbout(todo', i, r)
               PROVE  i \in 1..Len(todo) - 1 /\ LastAbout(todo, i + 1, r)
      OBVIOUS
  <2>1. i \in 1..Len(todo) - 1 /\ About(todo[i + 1], r)
      BY <1>1 DEF LastAbout
  <2>2. ASSUME NEW j \in 1..Len(todo), j > i + 1 PROVE ~About(todo[j], r)
    <3>1. j - 1 \in 1..Len(todo) - 1 /\ j - 1 > i /\ todo'[j - 1] = todo[j]
        BY <1>1, <1>3, <2>1, <2>2
    <3> QED BY <1>1, <3>1 DEF LastAbout
  <2> QED BY <1>1, <1>2, <2>1, <2>2 DEF LastAbout
<1>7. Promise(r)'
  <2>1. ASSUME NEW i, LastAbout(todo', i, r), \A k \in DOMAIN queue : ~Awaited(queue[k], r)
        PROVE  Agrees(todo'[i], latest'[r])
    <3>1. i \in 1..Len(todo) - 1 /\ Agrees(todo[i + 1], latest[r])
        BY <1>6, <2>1 DEF Promise
    <3> QED BY <1>1, <1>4, <3>1
  <2> QED BY <1>4, <2>1 DEF Promise
<1>8. ASSUME About(Head(todo), r), ~UnderWay(r)' PROVE Agrees(Head(todo), latest[r])
  <2>1. ~Awaited(todo', r) /\ \A k \in DOMAIN queue : ~Awaited(queue[k], r)
      BY <1>8 DEF UnderWay
  <2>2. ASSUME NEW j \in 1..Len(todo), j > 1 PROVE ~About(todo[j], r)
    <3>1. j - 1 \in 1..Len(todo) - 1 /\ todo'[j - 1] = todo[j]
        BY <1>1, <1>3, <2>2
    <3> QED BY <1>1, <2>1, <3>1, AwaitedAbout
  <2>3. LastAbout(todo, 1, r)
      BY <1>1, <1>8, <2>2 DEF LastAbout
  <2> QED BY <1>1, <2>1, <2>3 DEF Promise
<1> QED BY <1>1, <1>5, <1>7, <1>8 DEF UnderWay

\* The UI thread takes an update: its calls are the first of those under way.
LEMMA Delivered ==
    ASSUME TypeOK, Deliver, NEW r, Promise(r)
    PROVE  Promise(r)' /\ (UnderWay(r)' <=> UnderWay(r))
<1>1. /\ todo = <<>> /\ todo' = queue[1] /\ Len(queue) \in Nat \ {0} /\ DOMAIN queue = 1..Len(queue)
      /\ DOMAIN queue' = 1..Len(queue) - 1
      /\ \A k \in 1..Len(queue) - 1 : queue'[k] = queue[k + 1]
      /\ latest' = latest
    BY DEF Deliver, TypeOK
<1>2. \A k \in 1..Len(queue) - 1 : k + 1 \in 1..Len(queue)
    BY <1>1
<1>3. \A k \in 1..Len(queue) : k # 1 => k - 1 \in 1..Len(queue) - 1 /\ (k - 1) + 1 = k
    BY <1>1
<1>4. latest' = latest
    BY <1>1
<1>5. ~Awaited(todo, r)
    BY <1>1, AwaitedAbout
<1>6. (\E k \in DOMAIN queue : Awaited(queue[k], r)) <=>
         Awaited(todo', r) \/ \E k \in DOMAIN queue' : Awaited(queue'[k], r)
  <2>1. ASSUME NEW k \in 1..Len(queue), k # 1, Awaited(queue[k], r)
        PROVE  \E m \in 1..Len(queue) - 1 : Awaited(queue'[m], r)
    <3>1. k - 1 \in 1..Len(queue) - 1 /\ queue'[k - 1] = queue[k]
        BY <1>1, <1>3, <2>1
    <3> QED BY <2>1, <3>1
  <2>2. ASSUME NEW m \in 1..Len(queue) - 1, Awaited(queue'[m], r)
        PROVE  \E k \in 1..Len(queue) : Awaited(queue[k], r)
    <3>1. m + 1 \in 1..Len(queue) /\ queue'[m] = queue[m + 1]
        BY <1>1, <1>2
    <3> QED BY <2>2, <3>1
  <2>3. 1 \in 1..Len(queue)
      BY <1>1
  <2> QED BY <1>1, <2>1, <2>2, <2>3
<1>7. ASSUME NEW i, LastAbout(todo', i, r), \A k \in DOMAIN queue' : ~Awaited(queue'[k], r)
      PROVE  Agrees(todo'[i], latest'[r])
  <2>1. \A m \in DOMAIN queue : m > 1 => ~Awaited(queue[m], r)
    <3> SUFFICES ASSUME NEW m \in 1..Len(queue), m > 1 PROVE ~Awaited(queue[m], r)
        BY <1>1
    <3>1. m - 1 \in 1..Len(queue) - 1 /\ queue'[m - 1] = queue[m]
        BY <1>1, <1>3
    <3> QED BY <1>1, <1>7, <3>1
  <2>2. 1 \in DOMAIN queue
      BY <1>1
  <2> QED BY <1>1, <1>4, <1>7, <2>1, <2>2 DEF Promise
<1>8. ASSUME NEW k \in DOMAIN queue', NEW i, LastAbout(queue'[k], i, r),
             \A m \in DOMAIN queue' : m > k => ~Awaited(queue'[m], r)
      PROVE  Agrees(queue'[k][i], latest'[r])
  <2>1. k + 1 \in DOMAIN queue /\ queue'[k] = queue[k + 1]
      BY <1>1, <1>2
  <2>2. \A m \in DOMAIN queue : m > k + 1 => ~Awaited(queue[m], r)
    <3> SUFFICES ASSUME NEW m \in 1..Len(queue), m > k + 1 PROVE ~Awaited(queue[m], r)
        BY <1>1
    <3>1. m - 1 \in 1..Len(queue) - 1 /\ queue'[m - 1] = queue[m] /\ m - 1 > k
        BY <1>1, <1>3
    <3> QED BY <1>1, <1>8, <3>1
  <2> QED BY <1>4, <1>8, <2>1, <2>2 DEF Promise
<1> QED BY <1>5, <1>6, <1>7, <1>8 DEF Promise, UnderWay

\* The rooms a response names in one list are all the rooms of that kind.
LEMMA OrderNamesAll ==
    ASSUME NEW S \in SUBSET Rooms, NEW s \in Orders(S), NEW r \in S
    PROVE  \E i \in DOMAIN s : s[i] = r
<1>1. IsFiniteSet(S) /\ Cardinality(S) \in Nat
    BY RoomListAssumption, FS_Subset, FS_CardinalityType
<1>2. s \in [1..Cardinality(S) -> S] /\ \A i, j \in DOMAIN s : s[i] = s[j] => i = j
    BY DEF Orders
<1>3. IsFiniteSet(1..Cardinality(S)) /\ Cardinality(1..Cardinality(S)) = Cardinality(S)
    BY <1>1, FS_Interval
<1> DEFINE T == {s[i] : i \in 1..Cardinality(S)}
<1>4. T \subseteq S
    BY <1>2
<1>5. s \in Bijection(1..Cardinality(S), T)
  <2>1. s \in [1..Cardinality(S) -> T]
      BY <1>2
  <2>2. IsInjective(s)
      BY <1>2 DEF IsInjective
  <2> QED BY <2>1, <2>2 DEF Bijection, Injection, Surjection
<1>6. Cardinality(T) = Cardinality(S)
  <2>1. ExistsBijection(1..Cardinality(S), T)
      BY <1>5 DEF ExistsBijection
  <2> QED BY <1>3, <2>1, FS_Bijection
<1>7. T = S
    BY <1>1, <1>4, <1>6, FS_Subset
<1> QED BY <1>2, <1>7

\* A row is a record, and no record is the empty sequence.
LEMMA RowIsNotEmpty == <<>> \notin Row
<1>1. ASSUME NEW x \in Row PROVE x # <<>>
  <2>1. "id" \in DOMAIN x
      BY DEF Row
  <2>2. DOMAIN <<>> = {}
      OBVIOUS
  <2> QED BY <2>1, <2>2
<1> QED BY <1>1

\* Two lists of calls one after the other hold the calls of both.
CallsOf(s) == {s[i] : i \in DOMAIN s}

LEMMA TwoLists ==
    ASSUME NEW s \in Seq(Call), NEW t \in Seq(Call), NEW w, w = s \o t
    PROVE  w \in Seq(Call) /\ CallsOf(w) = CallsOf(s) \cup CallsOf(t)
<1>1. /\ w \in Seq(Call) /\ Len(w) = Len(s) + Len(t)
      /\ \A i \in 1..Len(s) + Len(t) : w[i] = IF i <= Len(s) THEN s[i] ELSE t[i - Len(s)]
    BY ConcatProperties
<1>2. Len(s) \in Nat /\ Len(t) \in Nat /\ DOMAIN s = 1..Len(s) /\ DOMAIN t = 1..Len(t)
    OBVIOUS
<1>3. DOMAIN w = 1..Len(s) + Len(t)
    BY <1>1
<1>4. ASSUME NEW i \in 1..Len(s) + Len(t) PROVE w[i] \in CallsOf(s) \cup CallsOf(t)
  <2>1. CASE i <= Len(s)
    <3>1. i \in 1..Len(s) /\ w[i] = s[i]
        BY <1>1, <1>2, <2>1
    <3> QED BY <1>2, <3>1 DEF CallsOf
  <2>2. CASE ~(i <= Len(s))
    <3>1. i - Len(s) \in 1..Len(t) /\ w[i] = t[i - Len(s)]
        BY <1>1, <1>2, <2>2
    <3> QED BY <1>2, <3>1 DEF CallsOf
  <2> QED BY <2>1, <2>2
<1>5. ASSUME NEW j \in 1..Len(s) PROVE s[j] \in CallsOf(w)
  <2>1. j \in 1..Len(s) + Len(t) /\ w[j] = s[j]
      BY <1>1, <1>2
  <2> QED BY <1>3, <2>1 DEF CallsOf
<1>6. ASSUME NEW j \in 1..Len(t) PROVE t[j] \in CallsOf(w)
  <2>1. j + Len(s) \in 1..Len(s) + Len(t) /\ ~(j + Len(s) <= Len(s)) /\ (j + Len(s)) - Len(s) = j
      BY <1>2
  <2>2. w[j + Len(s)] = t[j]
      BY <1>1, <2>1
  <2> QED BY <1>3, <2>1, <2>2 DEF CallsOf
<1>7. CallsOf(w) \subseteq CallsOf(s) \cup CallsOf(t)
    BY <1>3, <1>4 DEF CallsOf
<1>8. CallsOf(s) \subseteq CallsOf(w) /\ CallsOf(t) \subseteq CallsOf(w)
    BY <1>2, <1>5, <1>6 DEF CallsOf
<1> QED BY <1>1, <1>7, <1>8

\* An update says of each room with news what the last response said, and
\* nothing of the others.
LEMMA PrepareSays ==
    ASSUME IInv, Prepare, \A r \in news : member[r] # "none"
    PROVE  \E u \in Seq(Call) :
              /\ queue' = Append(queue, u)
              /\ \A r \in Rooms :
                    /\ Awaited(u, r) <=> r \in news
                    /\ \A i \in DOMAIN u : About(u[i], r) => Agrees(u[i], latest'[r])
                    /\ r \notin news => latest'[r] = latest[r]
                    /\ r \in news /\ latest'[r] # <<>> => latest'[r].id = r
<1> USE DEF IInv
<1>1. PICK gone \in Orders(With("leave")), joined \in Orders(With("join")),
           invited \in Orders(With("invite")) :
      \E ts \in [With("join") -> Times \cup {0}], n \in [With("join") -> {0, 1}] :
         LET said(r) == IF member[r] = "join" THEN Joined(r, ts[r], n[r]) ELSE Invited(r)
         IN  /\ queue' = Append(queue, Removals(gone)
                   \o Upserts([i \in DOMAIN joined |-> said(joined[i])])
                   \o Upserts([i \in DOMAIN invited |-> said(invited[i])]))
             /\ latest' = [r \in Rooms |->
                   IF r \notin news THEN latest[r]
                   ELSE IF member[r] = "leave" THEN <<>> ELSE said(r)]
    BY DEF Prepare
<1>2. PICK ts \in [With("join") -> Times \cup {0}], n \in [With("join") -> {0, 1}] :
         LET said(r) == IF member[r] = "join" THEN Joined(r, ts[r], n[r]) ELSE Invited(r)
         IN  /\ queue' = Append(queue, Removals(gone)
                   \o Upserts([i \in DOMAIN joined |-> said(joined[i])])
                   \o Upserts([i \in DOMAIN invited |-> said(invited[i])]))
             /\ latest' = [r \in Rooms |->
                   IF r \notin news THEN latest[r]
                   ELSE IF member[r] = "leave" THEN <<>> ELSE said(r)]
    BY <1>1
<1> DEFINE said(r) == IF member[r] = "join" THEN Joined(r, ts[r], n[r]) ELSE Invited(r)
           js == [i \in DOMAIN joined |-> said(joined[i])]
           is == [i \in DOMAIN invited |-> said(invited[i])]
           A == Removals(gone)
           B == Upserts(js)
           C == Upserts(is)
<1>3. /\ queue' = Append(queue, A \o B \o C)
      /\ latest' = [r \in Rooms |->
            IF r \notin news THEN latest[r]
            ELSE IF member[r] = "leave" THEN <<>> ELSE said(r)]
    BY <1>2
<1>4. \A m \in Memberships : With(m) \in SUBSET Rooms /\ With(m) = {r \in news : member[r] = m}
    BY DEF With, TypeOK
<1>5. \A r \in news : said(r) \in Row /\ said(r).id = r /\ said(r) # <<>>
  <2> SUFFICES ASSUME NEW r \in news PROVE said(r) \in Row /\ said(r).id = r /\ said(r) # <<>>
      OBVIOUS
  <2>1. r \in Rooms
      BY DEF TypeOK
  <2>2. Invited(r) \in Row /\ Invited(r).id = r
      BY <2>1 DEF Invited, Row
  <2>3. CASE member[r] = "join"
    <3>1. r \in With("join")
        BY <2>3 DEF With
    <3>2. ts[r] \in Times \cup {0} /\ n[r] \in {0, 1}
        BY <3>1
    <3>3. Joined(r, ts[r], n[r]) \in Row /\ Joined(r, ts[r], n[r]).id = r
        BY <2>1, <3>2 DEF Joined, Row
    <3> QED BY <2>3, <3>3, RowIsNotEmpty
  <2> QED BY <2>2, <2>3, RowIsNotEmpty
<1>6. /\ gone \in Seq(With("leave"))
      /\ joined \in Seq(With("join"))
      /\ invited \in Seq(With("invite"))
    BY <1>4, OrderIsSeq DEF Memberships
<1> HIDE DEF said
<1>7. /\ A \in Seq(Call) /\ DOMAIN A = DOMAIN gone
      /\ \A i \in DOMAIN A : A[i] = [op |-> "remove", id |-> gone[i]] /\ gone[i] \in With("leave")
  <2>1. gone \in Seq(Rooms)
      BY <1>4, <1>6 DEF Memberships
  <2> QED BY <1>6, <2>1, CallLists DEF Removals
<1>8. /\ B \in Seq(Call) /\ DOMAIN B = DOMAIN joined
      /\ \A i \in DOMAIN B : B[i] = [op |-> "upsert", room |-> said(joined[i])]
                                /\ joined[i] \in With("join")
  <2>1. \A i \in DOMAIN joined : joined[i] \in With("join") /\ joined[i] \in news
      BY <1>4, <1>6 DEF Memberships
  <2>2. js \in Seq(Row)
      BY <1>5, <1>6, <2>1
  <2> QED BY <2>1, <2>2, CallLists DEF Upserts
<1>9. /\ C \in Seq(Call) /\ DOMAIN C = DOMAIN invited
      /\ \A i \in DOMAIN C : C[i] = [op |-> "upsert", room |-> said(invited[i])]
                                /\ invited[i] \in With("invite")
  <2>1. \A i \in DOMAIN invited : invited[i] \in With("invite") /\ invited[i] \in news
      BY <1>4, <1>6 DEF Memberships
  <2>2. is \in Seq(Row)
      BY <1>5, <1>6, <2>1
  <2> QED BY <2>1, <2>2, CallLists DEF Upserts
<1> HIDE DEF js, is, A, B, C
\* Of which room a call of the update is, and what it says.
<1> DEFINE Right(call, r) == r \in news /\ Agrees(call, latest'[r])
<1>10. \A call \in CallsOf(A) : \A r \in Rooms : About(call, r) => Right(call, r)
  <2> SUFFICES ASSUME NEW i \in DOMAIN A, NEW r \in Rooms, About(A[i], r) PROVE Right(A[i], r)
      BY DEF CallsOf
  <2>1. gone[i] = r /\ A[i].op = "remove"
      BY <1>7 DEF About
  <2>2. r \in news /\ member[r] = "leave"
      BY <1>4, <1>7, <2>1 DEF Memberships
  <2> QED BY <1>3, <2>1, <2>2 DEF Agrees
<1>11. \A call \in CallsOf(B) : \A r \in Rooms : About(call, r) => Right(call, r)
  <2> SUFFICES ASSUME NEW i \in DOMAIN B, NEW r \in Rooms, About(B[i], r) PROVE Right(B[i], r)
      BY DEF CallsOf
  <2>1. B[i].op = "upsert" /\ B[i].room = said(joined[i])
      BY <1>8
  <2>2. joined[i] \in news /\ member[joined[i]] = "join"
      BY <1>4, <1>8 DEF Memberships
  <2>3. joined[i] = r
      BY <1>5, <2>1, <2>2 DEF About
  <2> QED BY <1>3, <1>5, <2>1, <2>2, <2>3 DEF Agrees
<1>12. \A call \in CallsOf(C) : \A r \in Rooms : About(call, r) => Right(call, r)
  <2> SUFFICES ASSUME NEW i \in DOMAIN C, NEW r \in Rooms, About(C[i], r) PROVE Right(C[i], r)
      BY DEF CallsOf
  <2>1. C[i].op = "upsert" /\ C[i].room = said(invited[i])
      BY <1>9
  <2>2. invited[i] \in news /\ member[invited[i]] = "invite"
      BY <1>4, <1>9 DEF Memberships
  <2>3. invited[i] = r
      BY <1>5, <2>1, <2>2 DEF About
  <2> QED BY <1>3, <1>5, <2>1, <2>2, <2>3 DEF Agrees
<1>13. ASSUME NEW r \in news
       PROVE  \E call \in CallsOf(A) \cup CallsOf(B) \cup CallsOf(C) : About(call, r)
  <2>1. r \in Rooms /\ member[r] \in {"leave", "join", "invite"}
      BY DEF TypeOK, Memberships
  <2>2. CASE member[r] = "leave"
    <3>1. r \in With("leave")
        BY <2>2 DEF With
    <3>2. PICK i \in DOMAIN gone : gone[i] = r
        BY <1>4, <3>1, OrderNamesAll DEF Memberships
    <3> QED BY <1>7, <3>2 DEF About, CallsOf
  <2>3. CASE member[r] = "join"
    <3>1. r \in With("join")
        BY <2>3 DEF With
    <3>2. PICK i \in DOMAIN joined : joined[i] = r
        BY <1>4, <3>1, OrderNamesAll DEF Memberships
    <3> QED BY <1>5, <1>8, <3>2 DEF About, CallsOf
  <2>4. CASE member[r] = "invite"
    <3>1. r \in With("invite")
        BY <2>4 DEF With
    <3>2. PICK i \in DOMAIN invited : invited[i] = r
        BY <1>4, <3>1, OrderNamesAll DEF Memberships
    <3> QED BY <1>5, <1>9, <3>2 DEF About, CallsOf
  <2> QED BY <2>1, <2>2, <2>3, <2>4
<1> DEFINE u == A \o B \o C
<1>14. u = A \o B \o C /\ queue' = Append(queue, u)
    BY <1>3
<1> HIDE DEF u
<1>15. u \in Seq(Call) /\ CallsOf(u) = CallsOf(A) \cup CallsOf(B) \cup CallsOf(C)
  <2>1. A \o B \in Seq(Call) /\ CallsOf(A \o B) = CallsOf(A) \cup CallsOf(B)
      BY <1>7, <1>8, TwoLists
  <2>2. u \in Seq(Call) /\ CallsOf(u) = CallsOf(A \o B) \cup CallsOf(C)
      BY <1>9, <1>14, <2>1, TwoLists
  <2> QED BY <2>1, <2>2
<1>16. \A call \in CallsOf(u) : \A r \in Rooms : About(call, r) => Right(call, r)
    BY <1>10, <1>11, <1>12, <1>15
<1>17. /\ \A r \in Rooms : Awaited(u, r) <=> r \in news
       /\ \A r \in Rooms : \A i \in DOMAIN u : About(u[i], r) => Agrees(u[i], latest'[r])
  <2>1. \A i \in DOMAIN u : u[i] \in CallsOf(u)
      BY DEF CallsOf
  <2>2. \A r \in news : \E i \in DOMAIN u : About(u[i], r)
      BY <1>13, <1>15 DEF CallsOf
  <2>3. \A r \in Rooms : \A i \in DOMAIN u : About(u[i], r) => Right(u[i], r)
      BY <1>16, <2>1
  <2>4. \A r \in Rooms : Awaited(u, r) <=> r \in news
      BY <2>2, <2>3, AwaitedAbout
  <2> QED BY <2>3, <2>4
<1>18. \A r \in Rooms : /\ r \notin news => latest'[r] = latest[r]
                        /\ r \in news /\ latest'[r] # <<>> => latest'[r].id = r
    BY <1>3, <1>5
<1> QED BY <1>14, <1>15, <1>17, <1>18

\* What Prepare leaves behind.
LEMMA Prepared ==
    ASSUME IInv, Prepare, CurrentInv
    PROVE  CurrentInv'
<1> USE DEF IInv
<1>1. PICK u \in Seq(Call) :
         /\ queue' = Append(queue, u)
         /\ \A r \in Rooms :
               /\ Awaited(u, r) <=> r \in news
               /\ \A i \in DOMAIN u : About(u[i], r) => Agrees(u[i], latest'[r])
               /\ r \notin news => latest'[r] = latest[r]
               /\ r \in news /\ latest'[r] # <<>> => latest'[r].id = r
    BY PrepareSays DEF CurrentInv
<1>2. /\ queue \in Seq(Seq(Call)) /\ Len(queue) \in Nat /\ DOMAIN queue = 1..Len(queue)
      /\ DOMAIN queue' = 1..Len(queue) + 1
      /\ \A k \in 1..Len(queue) : queue'[k] = queue[k]
      /\ queue'[Len(queue) + 1] = u
    BY <1>1, AppendProperties DEF TypeOK
<1>3. UNCHANGED <<rooms, hidden, todo, unlisted>> /\ news' = {}
    BY DEF Prepare, state
<1>4. ASSUME NEW r \in Rooms PROVE UnderWay(r)' <=> UnderWay(r) \/ r \in news
  <2>1. (\E k \in 1..Len(queue) + 1 : Awaited(queue'[k], r)) <=>
           (\E k \in 1..Len(queue) : Awaited(queue[k], r)) \/ Awaited(u, r)
    <3>1. \A k \in 1..Len(queue) + 1 : k \in 1..Len(queue) \/ k = Len(queue) + 1
        BY <1>2
    <3>2. 1..Len(queue) \subseteq 1..Len(queue) + 1 /\ Len(queue) + 1 \in 1..Len(queue) + 1
        BY <1>2
    <3> QED BY <1>2, <3>1, <3>2
  <2> QED BY <1>1, <1>2, <1>3, <2>1 DEF UnderWay
<1>5. ASSUME NEW r \in Rooms PROVE Promise(r)'
  <2>0. Promise(r) /\ Len(queue) + 1 \in DOMAIN queue'
      BY <1>2 DEF CurrentInv
  <2>1. ASSUME NEW i, LastAbout(todo', i, r), \A k \in DOMAIN queue' : ~Awaited(queue'[k], r)
        PROVE  Agrees(todo'[i], latest'[r])
    <3>1. r \notin news
        BY <1>1, <1>2, <2>0, <2>1
    <3>2. \A k \in DOMAIN queue : ~Awaited(queue[k], r)
        BY <1>2, <2>1
    <3> QED BY <1>1, <1>3, <2>0, <2>1, <3>1, <3>2 DEF Promise
  <2>2. ASSUME NEW k \in DOMAIN queue', NEW i, LastAbout(queue'[k], i, r),
               \A m \in DOMAIN queue' : m > k => ~Awaited(queue'[m], r)
        PROVE  Agrees(queue'[k][i], latest'[r])
    <3>1. CASE k = Len(queue) + 1
        BY <1>1, <1>2, <2>2, <3>1 DEF LastAbout
    <3>2. CASE k \in 1..Len(queue)
      <4>1. r \notin news
        <5>1. Len(queue) + 1 > k
            BY <1>2, <3>2
        <5> QED BY <1>1, <1>2, <2>0, <2>2, <5>1
      <4>2. \A m \in DOMAIN queue : m > k => ~Awaited(queue[m], r)
          BY <1>2, <2>2
      <4>3. queue'[k] = queue[k] /\ k \in DOMAIN queue
          BY <1>2, <3>2
      <4> QED BY <1>1, <2>0, <2>2, <4>1, <4>2, <4>3 DEF Promise
    <3> QED BY <1>2, <3>1, <3>2
  <2> QED BY <2>1, <2>2 DEF Promise
<1>6. ASSUME NEW r \in Rooms PROVE Current(r)'
  <2>1. Current(r)
      BY DEF CurrentInv
  <2>2. Shown' = Shown /\ ShownFor(r)' = ShownFor(r)
      BY <1>3 DEF Shown, ShownFor
  <2> QED BY <1>1, <1>3, <1>4, <2>1, <2>2 DEF Current
<1> QED BY <1>3, <1>5, <1>6 DEF CurrentInv

\* What the rows are after an insertion, a removal and a merge.
LEMMA RowsAfterInsert ==
    ASSUME IInv, NEW x \in Row, NEW p \in 1..Len(rooms) + 1, rooms' = InsertAt(rooms, p, x)
    PROVE  Shown' = Shown \cup {x}
<1>1. /\ rooms \in Seq(Row) /\ Len(rooms) \in Nat /\ DOMAIN rooms = 1..Len(rooms)
      /\ DOMAIN rooms' = 1..Len(rooms) + 1
      /\ \A i \in 1..Len(rooms) + 1 :
            rooms'[i] = IF i < p THEN rooms[i] ELSE IF i = p THEN x ELSE rooms[i - 1]
    BY InsertRows DEF IInv, TypeOK
<1>2. ASSUME NEW i \in 1..Len(rooms) + 1 PROVE rooms'[i] \in Shown \cup {x}
  <2>1. CASE i < p
    <3>1. i \in 1..Len(rooms) /\ rooms'[i] = rooms[i]
        BY <1>1, <2>1
    <3> QED BY <1>1, <3>1 DEF Shown
  <2>2. CASE i = p
      BY <1>1, <2>2
  <2>3. CASE i > p
    <3>1. i - 1 \in 1..Len(rooms) /\ rooms'[i] = rooms[i - 1]
        BY <1>1, <2>3
    <3> QED BY <1>1, <3>1 DEF Shown
  <2> QED BY <2>1, <2>2, <2>3
<1>3. ASSUME NEW i \in 1..Len(rooms) PROVE rooms[i] \in Shown'
  <2>1. CASE i < p
    <3>1. i \in 1..Len(rooms) + 1 /\ rooms'[i] = rooms[i]
        BY <1>1, <2>1
    <3> QED BY <1>1, <3>1 DEF Shown
  <2>2. CASE i >= p
    <3>1. i + 1 \in 1..Len(rooms) + 1 /\ rooms'[i + 1] = rooms[i]
        BY <1>1, <2>2
    <3> QED BY <1>1, <3>1 DEF Shown
  <2> QED BY <2>1, <2>2
<1>4. x \in Shown'
  <2>1. p \in 1..Len(rooms) + 1 /\ rooms'[p] = x
      BY <1>1
  <2> QED BY <1>1, <2>1 DEF Shown
<1>5. Shown' \subseteq Shown \cup {x}
    BY <1>1, <1>2 DEF Shown
<1>6. Shown \subseteq Shown'
    BY <1>1, <1>3 DEF Shown
<1> QED BY <1>4, <1>5, <1>6

LEMMA RowFound ==
    ASSUME IInv, NEW r \in Rooms
    PROVE  /\ RowOf(r) = 0 => ShownFor(r) = {}
           /\ RowOf(r) # 0 => /\ RowOf(r) \in DOMAIN rooms
                              /\ rooms[RowOf(r)].id = r
                              /\ \A i \in DOMAIN rooms : rooms[i].id = r => i = RowOf(r)
<1>1. DOMAIN index = {rooms[i].id : i \in DOMAIN rooms} /\ \A i \in DOMAIN rooms : index[rooms[i].id] = i
    BY DEF IInv, IndexExact
<1>2. \A q \in DOMAIN index : index[q] # 0
    BY DEF IInv, TypeOK
<1>3. CASE r \in DOMAIN index
    BY <1>1, <1>2, <1>3 DEF RowOf
<1>4. CASE r \notin DOMAIN index
    BY <1>1, <1>4 DEF RowOf, Shown, ShownFor
<1> QED BY <1>3, <1>4

LEMMA RowsAfterRemove ==
    ASSUME IInv, NEW r \in Rooms, RowOf(r) # 0, rooms' = RemoveAt(rooms, RowOf(r))
    PROVE  Shown' = {y \in Shown : y.id # r}
<1>0. PICK p : p = RowOf(r)
    OBVIOUS
<1>1. /\ rooms \in Seq(Row) /\ Len(rooms) \in Nat /\ DOMAIN rooms = 1..Len(rooms)
      /\ p \in 1..Len(rooms) /\ rooms[p].id = r
      /\ \A i \in 1..Len(rooms) : rooms[i].id = r => i = p
    BY <1>0, RowFound DEF IInv, TypeOK
<1>2. rooms' = RemoveAt(rooms, p)
    BY <1>0
<1>3. /\ DOMAIN rooms' = 1..Len(rooms) - 1
      /\ \A i \in 1..Len(rooms) - 1 : rooms'[i] = IF i < p THEN rooms[i] ELSE rooms[i + 1]
  <2>1. rooms \in Seq(Row) /\ p \in 1..Len(rooms)
      BY <1>1
  <2>2. /\ RemoveAt(rooms, p) \in Seq(Row) /\ Len(RemoveAt(rooms, p)) = Len(rooms) - 1
        /\ \A i \in 1..Len(rooms) - 1 :
              RemoveAt(rooms, p)[i] = IF i < p THEN rooms[i] ELSE rooms[i + 1]
      BY <2>1, RemoveRows
  <2> QED BY <1>1, <1>2, <2>2
<1>4. ASSUME NEW i \in 1..Len(rooms) - 1 PROVE rooms'[i] \in {y \in Shown : y.id # r}
  <2>1. CASE i < p
    <3>1. i \in 1..Len(rooms) /\ i # p /\ rooms'[i] = rooms[i]
        BY <1>1, <1>3, <2>1
    <3> QED BY <1>1, <3>1 DEF Shown
  <2>2. CASE i >= p
    <3>1. i + 1 \in 1..Len(rooms) /\ i + 1 # p /\ rooms'[i] = rooms[i + 1]
        BY <1>1, <1>3, <2>2
    <3> QED BY <1>1, <3>1 DEF Shown
  <2> QED BY <1>1, <2>1, <2>2
<1>5. ASSUME NEW i \in 1..Len(rooms), rooms[i].id # r PROVE rooms[i] \in Shown'
  <2>0. i # p
      BY <1>1, <1>5
  <2>1. CASE i < p
    <3>1. i \in 1..Len(rooms) - 1 /\ rooms'[i] = rooms[i]
        BY <1>1, <1>3, <2>1
    <3> QED BY <1>3, <3>1 DEF Shown
  <2>2. CASE i > p
    <3>1. i - 1 \in 1..Len(rooms) - 1 /\ rooms'[i - 1] = rooms[i]
        BY <1>1, <1>3, <2>2
    <3> QED BY <1>3, <3>1 DEF Shown
  <2> QED BY <1>1, <2>0, <2>1, <2>2
<1>6. Shown' \subseteq {y \in Shown : y.id # r}
    BY <1>3, <1>4 DEF Shown
<1>7. {y \in Shown : y.id # r} \subseteq Shown'
    BY <1>1, <1>5 DEF Shown
<1> QED BY <1>6, <1>7

LEMMA RowsAfterMerge ==
    ASSUME IInv, NEW x \in Row, RowOf(x.id) # 0, rooms' = [rooms EXCEPT ![RowOf(x.id)] = x]
    PROVE  Shown' = {y \in Shown : y.id # x.id} \cup {x}
<1> DEFINE p == RowOf(x.id)
<1>1. /\ DOMAIN rooms' = DOMAIN rooms /\ p \in DOMAIN rooms /\ rooms'[p] = x /\ rooms[p].id = x.id
      /\ \A i \in DOMAIN rooms : i # p => rooms'[i] = rooms[i]
      /\ \A i \in DOMAIN rooms : rooms[i].id = x.id => i = p
  <2>1. x.id \in Rooms
      BY DEF Row
  <2>2. p \in DOMAIN rooms /\ rooms[p].id = x.id /\ \A i \in DOMAIN rooms : rooms[i].id = x.id => i = p
      BY <2>1, RowFound
  <2>3. rooms' = [rooms EXCEPT ![p] = x]
      OBVIOUS
  <2> HIDE DEF p
  <2>4. rooms \in Seq(Row)
      BY DEF IInv, TypeOK
  <2> QED BY <2>2, <2>3, <2>4
<1> HIDE DEF p
<1> QED BY <1>1 DEF Shown

\* A room whose row, marks and calls a step leaves alone is as current as before.
LEMMA OtherRoom ==
    ASSUME NEW r, Current(r), UnderWay(r)' <=> UnderWay(r), latest' = latest,
           ShownFor(r)' = ShownFor(r),
           r \in hidden' \cup unlisted' => r \in hidden \cup unlisted,
           r \in unlisted' <=> r \in unlisted
    PROVE  Current(r)'
<1>1. latest[r] # <<>> /\ latest[r] \in Shown => latest'[r] \in Shown'
    BY DEF Current, ShownFor
<1> QED BY <1>1 DEF Current

\* The three ways of an upsert, and a removal.
LEMMA CallCurrent ==
    ASSUME IInv, CurrentInv, UpsertHidden \/ UpsertMerge \/ UpsertInsert \/ RemoveRoom
    PROVE  CurrentInv'
<1> USE DEF IInv
<1>0. PICK call : call = Head(todo)
    OBVIOUS
<1>1. /\ todo # <<>> /\ todo' = Tail(todo) /\ UNCHANGED <<queue, latest, news, member>>
      /\ UpsertHidden \/ UpsertMerge \/ UpsertInsert => call.op = "upsert"
      /\ RemoveRoom => call.op = "remove"
    BY <1>0 DEF UpsertHidden, UpsertMerge, UpsertInsert, RemoveRoom, CallDone, Doing, server
<1>2. PICK q \in Rooms :
      /\ call.op = "upsert" => call.room \in Row /\ call.room.id = q
      /\ call.op = "remove" => call.id = q
  <2>1. /\ call.op = "upsert" => call.room \in Row
        /\ call.op = "remove" => call.id \in Rooms
      BY <1>0, <1>1, CallType DEF TypeOK
  <2> QED BY <1>1, <2>1 DEF Row
<1>3. \A r : About(call, r) <=> r = q
    BY <1>1, <1>2 DEF About
<1>4. \A r \in Rooms : /\ Promise(r)'
                       /\ r # q => (UnderWay(r)' <=> UnderWay(r))
                       /\ r = q /\ ~UnderWay(r)' => Agrees(call, latest[r])
    BY <1>0, <1>1, <1>3, CallMade DEF CurrentInv
<1>5. \A r \in news' : member'[r] # "none"
    BY <1>1 DEF CurrentInv
<1>6. Current(q)
    BY <1>2 DEF CurrentInv
\* The other rooms.
<1>7. ASSUME NEW r \in Rooms, r # q, ShownFor(r)' = ShownFor(r),
             hidden' \subseteq hidden, r \in unlisted' <=> r \in unlisted
      PROVE  Current(r)'
  <2>1. Current(r)
      BY DEF CurrentInv
  <2> QED BY <1>1, <1>4, <1>7, <2>1, OtherRoom
<1>8. ASSUME NEW S, Shown' = {y \in Shown : y.id # q} \cup S, \A y \in S : y.id = q
      PROVE  (\A r \in Rooms : r # q => ShownFor(r)' = ShownFor(r)) /\ ShownFor(q)' = S
    BY <1>8 DEF ShownFor
<1>9. CASE UpsertHidden
  <2>1. /\ q \in hidden /\ hidden' = hidden /\ Shown' = Shown /\ unlisted' = unlisted \cup {q}
      BY <1>0, <1>1, <1>2, <1>9 DEF UpsertHidden, state, Shown
  <2>2. \A r : ShownFor(r)' = ShownFor(r)
      BY <2>1 DEF ShownFor
  <2>3. Current(q)'
      BY <1>1, <1>6, <2>1, <2>2 DEF Current
  <2>4. \A r \in Rooms : r # q => Current(r)'
      BY <1>7, <2>1, <2>2
  <2> QED BY <1>4, <1>5, <2>3, <2>4 DEF CurrentInv
<1>10. ASSUME call.op = "upsert", Shown' = {y \in Shown : y.id # q} \cup {call.room},
              q \notin hidden' \cup unlisted', hidden' \subseteq hidden,
              \A r \in Rooms : r # q => (r \in unlisted' <=> r \in unlisted)
       PROVE  CurrentInv'
  <2>1. (\A r \in Rooms : r # q => ShownFor(r)' = ShownFor(r)) /\ ShownFor(q)' = {call.room}
      BY <1>2, <1>8, <1>10
  <2>2. ~UnderWay(q)' => latest'[q] # <<>> /\ call.room = latest'[q]
      BY <1>1, <1>2, <1>4, <1>10 DEF Agrees
  <2>3. Current(q)'
      BY <1>1, <1>6, <1>10, <2>2 DEF Current
  <2>4. \A r \in Rooms : r # q => Current(r)'
      BY <1>7, <1>10, <2>1
  <2> QED BY <1>4, <1>5, <2>3, <2>4 DEF CurrentInv
<1>11. CASE UpsertMerge
  <2>1. /\ RowOf(q) # 0 /\ rooms' = [rooms EXCEPT ![RowOf(q)] = call.room]
        /\ UNCHANGED <<hidden, unlisted>>
      BY <1>0, <1>1, <1>2, <1>11 DEF UpsertMerge, Merged
  <2>2. Shown' = {y \in Shown : y.id # q} \cup {call.room}
      BY <1>1, <1>2, <1>11, <2>1, RowsAfterMerge
  <2>3. ShownFor(q) # {}
      BY <1>2, <2>1, RowFound DEF ShownFor, Shown
  <2> QED BY <1>1, <1>6, <1>10, <1>11, <2>1, <2>2, <2>3 DEF Current
<1>12. CASE UpsertInsert
  <2>1. /\ RowOf(q) = 0 /\ q \notin hidden /\ hidden' = hidden /\ unlisted' = unlisted \ {q}
        /\ \E p \in 1..Len(rooms) + 1 : rooms' = InsertAt(rooms, p, call.room)
      BY <1>0, <1>1, <1>2, <1>12 DEF UpsertInsert
  <2>2. Shown' = Shown \cup {call.room}
      BY <1>1, <1>2, <1>12, <2>1, RowsAfterInsert
  <2>3. \A y \in Shown : y.id # q
      BY <1>2, <2>1, RowFound DEF ShownFor
  <2>4. Shown' = {y \in Shown : y.id # q} \cup {call.room}
      BY <2>2, <2>3
  <2> QED BY <1>1, <1>10, <1>12, <2>1, <2>4
<1>13. CASE RemoveRoom
  <2>1. unlisted' = unlisted \ {q} /\ Removed(q) /\ call.op = "remove"
      BY <1>0, <1>1, <1>2, <1>13 DEF RemoveRoom
  <2>2. Shown' = {y \in Shown : y.id # q} /\ hidden' \subseteq hidden
    <3>1. CASE RowOf(q) = 0
      <4>1. UNCHANGED <<rooms, hidden>>
          BY <2>1, <3>1 DEF Removed, state
      <4>2. \A y \in Shown : y.id # q
          BY <1>2, <3>1, RowFound DEF ShownFor
      <4> QED BY <4>1, <4>2 DEF Shown
    <3>2. CASE RowOf(q) # 0
      <4>1. rooms' = RemoveAt(rooms, RowOf(q)) /\ hidden' \subseteq hidden
          BY <2>1, <3>2 DEF Removed
      <4> QED BY <1>2, <3>2, <4>1, RowsAfterRemove
    <3> QED BY <3>1, <3>2
  <2>3. (\A r \in Rooms : r # q => ShownFor(r)' = ShownFor(r)) /\ ShownFor(q)' = {}
    <3>1. Shown' = {y \in Shown : y.id # q} \cup {}
        BY <2>2
    <3> QED BY <1>8, <3>1
  <2>4. ~UnderWay(q)' => latest'[q] = <<>>
      BY <1>1, <1>2, <1>4, <2>1 DEF Agrees
  <2>5. Current(q)'
      BY <1>1, <1>6, <2>3, <2>4 DEF Current
  <2>6. \A r \in Rooms : r # q => Current(r)'
      BY <1>7, <2>1, <2>2, <2>3
  <2> QED BY <1>4, <1>5, <2>5, <2>6 DEF CurrentInv
<1> QED BY <1>9, <1>11, <1>12, <1>13

\* The steps of the server and of the interface.
LEMMA OutsideCurrent ==
    ASSUME IInv, CurrentInv,
           \/ \E r \in Rooms : Change(r) \/ OpenRoom(r) \/ HideRoom(r) \/ UnhideRoom(r)
           \/ Deliver \/ Clear
    PROVE  CurrentInv'
<1> USE DEF IInv
<1>1. ASSUME UNCHANGED <<todo, queue, latest>>
      PROVE  \A r : /\ Promise(r) => Promise(r)'
                    /\ UnderWay(r)' <=> UnderWay(r)
    BY <1>1 DEF Promise, UnderWay
<1>2. ASSUME NEW q \in Rooms, Change(q) \/ OpenRoom(q) PROVE CurrentInv'
  <2>1. UNCHANGED <<rooms, hidden, todo, queue, latest, unlisted>>
      BY <1>2 DEF Change, OpenRoom, state
  <2>2. \A r \in news' : member'[r] # "none"
    <3>1. CASE Change(q)
      <4>1. PICK m \in May[member[q]] : member' = [member EXCEPT ![q] = m]
          BY <3>1 DEF Change
      <4>2. member \in [Rooms -> Memberships] /\ news' = news \cup {q}
          BY <3>1 DEF Change, TypeOK
      <4>3. \A x \in Memberships : "none" \notin May[x]
          BY DEF Memberships, May
      <4> QED BY <4>1, <4>2, <4>3 DEF CurrentInv
    <3>2. CASE OpenRoom(q)
        BY <3>2 DEF OpenRoom, server, CurrentInv
    <3> QED BY <1>2, <3>1, <3>2
  <2>3. ASSUME NEW r \in Rooms PROVE Current(r)'
    <3>1. Current(r) /\ ShownFor(r)' = ShownFor(r)
        BY <2>1 DEF CurrentInv, ShownFor, Shown
    <3> QED BY <1>1, <2>1, <3>1, OtherRoom
  <2> QED BY <1>1, <2>1, <2>2, <2>3 DEF CurrentInv
<1>3. ASSUME NEW q \in Rooms, UnhideRoom(q) PROVE CurrentInv'
  <2>1. UNCHANGED <<rooms, todo, queue, latest, unlisted, news, member>> /\ hidden' \subseteq hidden
      BY <1>3 DEF UnhideRoom, server
  <2>2. ASSUME NEW r \in Rooms PROVE Current(r)'
    <3>1. Current(r) /\ ShownFor(r)' = ShownFor(r)
        BY <2>1 DEF CurrentInv, ShownFor, Shown
    <3> QED BY <1>1, <2>1, <3>1, OtherRoom
  <2> QED BY <1>1, <2>1, <2>2 DEF CurrentInv
<1>4. ASSUME NEW q \in Rooms, HideRoom(q) PROVE CurrentInv'
  <2>1. UNCHANGED <<todo, queue, latest, news, member>> /\ hidden' = hidden \cup {q}
      BY <1>4 DEF HideRoom, server
  <2>2. /\ Shown' = {y \in Shown : y.id # q}
        /\ unlisted' = IF RowOf(q) = 0 THEN unlisted ELSE unlisted \cup {q}
    <3>1. CASE RowOf(q) = 0
      <4>1. \A y \in Shown : y.id # q
          BY <3>1, RowFound DEF ShownFor
      <4> QED BY <1>4, <3>1, <4>1 DEF HideRoom, Shown
    <3>2. CASE RowOf(q) # 0
      <4>1. rooms' = RemoveAt(rooms, RowOf(q))
          BY <1>4, <3>2 DEF HideRoom
      <4> QED BY <1>4, <3>2, <4>1, RowsAfterRemove DEF HideRoom
    <3> QED BY <3>1, <3>2
  <2>3. ASSUME NEW r \in Rooms, r # q PROVE Current(r)'
    <3>1. Current(r) /\ ShownFor(r)' = ShownFor(r)
        BY <2>2, <2>3 DEF CurrentInv, ShownFor
    <3>2. /\ r \in hidden' \cup unlisted' => r \in hidden \cup unlisted
          /\ r \in unlisted' <=> r \in unlisted
        BY <2>1, <2>2, <2>3
    <3> QED BY <1>1, <2>1, <3>1, <3>2, OtherRoom
  <2>4. Current(q)'
    <3>1. Current(q) /\ ShownFor(q)' = {}
        BY <2>2 DEF CurrentInv, ShownFor
    <3>2. RowOf(q) = 0 => ShownFor(q) = {}
        BY RowFound
    <3>3. ~UnderWay(q) /\ latest[q] # <<>> => q \in unlisted'
        BY <2>2, <3>1, <3>2 DEF Current, ShownFor
    <3> QED BY <1>1, <2>1, <3>1, <3>3 DEF Current
  <2> QED BY <1>1, <2>1, <2>3, <2>4 DEF CurrentInv
<1>5. CASE Deliver
  <2>1. UNCHANGED <<rooms, hidden, latest, unlisted, news, member>>
      BY <1>5 DEF Deliver, state, server
  <2>2. ASSUME NEW r \in Rooms PROVE Promise(r)' /\ Current(r)'
    <3>1. Promise(r) /\ Current(r) /\ ShownFor(r)' = ShownFor(r)
        BY <2>1 DEF CurrentInv, ShownFor, Shown
    <3>2. Promise(r)' /\ (UnderWay(r)' <=> UnderWay(r))
        BY <1>5, <3>1, Delivered
    <3> QED BY <2>1, <3>1, <3>2, OtherRoom
  <2> QED BY <2>1, <2>2 DEF CurrentInv
<1>6. CASE Clear
  <2>1. /\ todo' = <<>> /\ queue' = <<>> /\ rooms' = <<>> /\ latest' = [r \in Rooms |-> <<>>]
        /\ \A r \in news' : member'[r] # "none"
      BY <1>6 DEF Clear
  <2>2. Shown' = {}
      BY <2>1 DEF Shown
  <2>3. ASSUME NEW r \in Rooms PROVE Promise(r)' /\ Current(r)'
    <3>1. Promise(r)'
        BY <2>1 DEF Promise, LastAbout
    <3>2. latest'[r] = <<>> /\ ShownFor(r)' = {}
        BY <2>1, <2>2 DEF ShownFor
    <3> QED BY <3>1, <3>2 DEF Current
  <2> QED BY <2>1, <2>3 DEF CurrentInv
<1> QED BY <1>2, <1>3, <1>4, <1>5, <1>6

LEMMA CurrentStep ==
    ASSUME IInv, CurrentInv, [Next]_vars
    PROVE  CurrentInv'
<1>1. CASE UNCHANGED vars
  <2>1. UNCHANGED <<rooms, hidden, todo, queue, latest, unlisted, news, member>>
      BY <1>1 DEF vars, state, server
  <2> QED BY <2>1 DEF CurrentInv, Promise, Current, UnderWay, ShownFor, Shown
<1> QED BY <1>1, Prepared, CallCurrent, OutsideCurrent DEF Next

\* Once the calls for a room were made, the list shows what the responses said
\* last of it: for any order of invitations, joins, kicks and leaves, with
\* updates that wait while the user hides, unhides and opens rooms
\* (ListIsCurrent; room_state.cpp upsertRoom and removeRoom).
THEOREM ListShowsLatest == Spec => []ListIsCurrent
<1>1. Init => CurrentInv
  <2> SUFFICES ASSUME Init PROVE CurrentInv
      OBVIOUS
  <2>1. ASSUME NEW r \in Rooms PROVE Promise(r) /\ Current(r)
    <3>1. Promise(r)
        BY DEF Init, Promise, LastAbout
    <3>2. latest[r] = <<>> /\ ShownFor(r) = {}
        BY DEF Init, ShownFor, Shown
    <3> QED BY <3>1, <3>2 DEF Current
  <2> QED BY <2>1 DEF Init, CurrentInv
<1>2. IInv /\ CurrentInv /\ [Next]_vars => CurrentInv'
    BY CurrentStep
<1>3. IInv /\ CurrentInv => ListIsCurrent
  <2> SUFFICES ASSUME IInv, CurrentInv, NEW r \in Rooms, ~UnderWay(r)
               PROVE  IF latest[r] # <<>> /\ r \notin hidden /\ r \notin unlisted
                      THEN r \in DOMAIN index /\ rooms[index[r]] = latest[r]
                      ELSE ~Listed(r)
      BY DEF ListIsCurrent
  <2>1. Current(r)
      BY DEF CurrentInv
  <2>2. Listed(r) <=> ShownFor(r) # {}
      BY DEF Listed, ShownFor, Shown
  <2>3. CASE latest[r] # <<>> /\ r \notin hidden /\ r \notin unlisted
    <3>1. latest[r] \in Shown /\ latest[r].id = r
        BY <2>1, <2>3 DEF Current
    <3>2. PICK i \in DOMAIN rooms : rooms[i] = latest[r]
        BY <3>1 DEF Shown
    <3>3. r \in DOMAIN index /\ index[r] = i
        BY <3>1, <3>2 DEF IInv, IndexExact
    <3> QED BY <2>3, <3>2, <3>3
  <2>4. CASE ~(latest[r] # <<>> /\ r \notin hidden /\ r \notin unlisted)
    <3>1. ShownFor(r) = {}
        BY <2>1, <2>4 DEF Current
    <3> QED BY <2>2, <2>4, <3>1
  <2> QED BY <2>3, <2>4
<1> QED BY <1>1, <1>2, <1>3, IInvAlways, PTL DEF Spec

=============================================================================
