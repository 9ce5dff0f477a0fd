--------------------------- MODULE Timeline_proofs ---------------------------
(***************************************************************************)
(* Proofs about Timeline, for any cap, page size, room, set of own and of  *)
(* late events and any budget of the caller: the row index is exact, a     *)
(* refused event is on the screen, no echo outlives its request, nothing   *)
(* that /sync delivered is missing, and reply counts are bounded.          *)
(***************************************************************************)
EXTENDS Timeline, FiniteSetTheorems, TLAPS

\* No two rows of s have the same id.
Distinct(s) == \A i, j \in DOMAIN s : s[i].id # NoId /\ s[i].id = s[j].id => i = j

\* The index ix is right for the rows s.
Exact(s, ix) ==
    /\ DOMAIN ix = ShownIds(s)
    /\ \A i \in DOMAIN s : s[i].id # NoId => ix[s[i].id] = i

IInv == TypeOK /\ IndexExact /\ SeenExact /\ NoGhost
-----------------------------------------------------------------------------
(* Constants and rows. *)

LEMMA ConstantFacts ==
    /\ Cap \in Nat \ {0} /\ Page \in Nat \ {0} /\ MaxEvents \in Nat /\ Old \in 0..MaxEvents
    /\ Own \subseteq Events /\ Late \subseteq Events
    /\ \A n \in Events : Root[n] \in 0..MaxEvents
    /\ Events \subseteq Ids \ {NoId} /\ \A n \in Events : n > 0 /\ -n \in Ids \ {NoId} /\ -n < 0
    /\ Ids \subseteq Int
  BY TimelineAssumption DEF Events, Ids, NoId

LEMMA RowFacts ==
    /\ \A n \in Events : /\ Displayed(n) \in Row /\ Displayed(n).id = n
                         /\ Echo(n) \in Row /\ Echo(n).id = -n
    /\ Divider \in Row /\ Divider.id = NoId
  <1>1. ASSUME NEW n \in Events
        PROVE  /\ Displayed(n) \in Row /\ Displayed(n).id = n
               /\ Displayed(n).count = 0 /\ Displayed(n).reply \in 0..MaxEvents
    <2>1. n \in Ids /\ Root[n] \in 0..MaxEvents /\ 0 \in 0..MaxEvents  BY ConstantFacts
    <2>2. (IF n \in Late \ readable THEN 0 ELSE Root[n]) \in 0..MaxEvents  BY <2>1
    <2> QED  BY <2>1, <2>2 DEF Displayed, Row
  <1>2. ASSUME NEW n \in Events
        PROVE  Echo(n) \in Row /\ Echo(n).id = -n
    <2>1. -n \in Ids /\ Root[n] \in 0..MaxEvents  BY ConstantFacts
    <2> QED  BY <2>1 DEF Echo, Row
  <1>3. Divider \in Row /\ Divider.id = NoId
    <2>1. 0 \in Ids /\ 0 \in 0..MaxEvents  BY ConstantFacts DEF Ids
    <2> QED  BY <2>1 DEF Divider, Row, NoId
  <1> QED  BY <1>1, <1>2, <1>3

\* An exact index has one entry per row, so the rows are distinct.
LEMMA ExactIsDistinct ==
    ASSUME NEW s, NEW ix, Exact(s, ix)
    PROVE  Distinct(s)
  BY DEF Exact, Distinct

\* What the rebuild gives for distinct rows.
LEMMA RebuildIsExact ==
    ASSUME NEW s \in Seq(Row), Distinct(s)
    PROVE  Exact(s, Indexed(s))
  <1>1. DOMAIN Indexed(s) = ShownIds(s)  BY DEF Indexed
  <1>2. ASSUME NEW i \in DOMAIN s, s[i].id # NoId PROVE Indexed(s)[s[i].id] = i
    <2>1. s[i].id \in ShownIds(s)  BY <1>2 DEF ShownIds
    <2>2. DOMAIN s \subseteq Nat  OBVIOUS
    <2>3. /\ s[i].id = s[i].id /\ \A j \in DOMAIN s : s[j].id = s[i].id => j <= i
      BY <1>2, <2>2 DEF Distinct
    <2>4. \A k \in DOMAIN s : s[k].id = s[i].id => k = i  BY <1>2 DEF Distinct
    <2> QED  BY <2>1, <2>3, <2>4 DEF Indexed
  <1> QED  BY <1>1, <1>2 DEF Exact

LEMMA CountedRow ==
    ASSUME NEW w \in Row, NEW k \in Nat
    PROVE  [w EXCEPT !.count = @ + k] \in Row /\ [w EXCEPT !.count = @ + k].id = w.id
  BY DEF Row

\* Counting replies changes neither the ids nor the places of the rows.
LEMMA CountedRows ==
    ASSUME NEW s \in Seq(Row), NEW ix, NEW replies \in Seq(Row)
    PROVE  /\ Counted(s, ix, replies) \in Seq(Row)
           /\ DOMAIN Counted(s, ix, replies) = DOMAIN s
           /\ Len(Counted(s, ix, replies)) = Len(s)
           /\ \A i \in DOMAIN s : Counted(s, ix, replies)[i].id = s[i].id
           /\ ShownIds(Counted(s, ix, replies)) = ShownIds(s)
           /\ Distinct(s) => Distinct(Counted(s, ix, replies))
           /\ \A x : Exact(s, x) => Exact(Counted(s, ix, replies), x)
  <1> DEFINE c == Counted(s, ix, replies)
             n(i) == Cardinality({k \in DOMAIN replies : replies[k].reply # 0
                                                         /\ replies[k].reply = s[i].id})
  <1>1. \A i \in DOMAIN s : n(i) \in Nat
    <2>1. DOMAIN replies = 1..Len(replies) /\ Len(replies) \in Nat  OBVIOUS
    <2>2. IsFiniteSet(1..Len(replies))  BY <2>1, FS_Interval
    <2>3. TAKE i \in DOMAIN s
    <2>4. IsFiniteSet({k \in DOMAIN replies : replies[k].reply # 0 /\ replies[k].reply = s[i].id})
      BY <2>1, <2>2, FS_Subset
    <2> QED  BY <2>4, FS_CardinalityType
  <1>2. DOMAIN c = DOMAIN s  BY DEF Counted
  <1>3. \A i \in DOMAIN s : c[i] \in Row /\ c[i].id = s[i].id
    <2> TAKE i \in DOMAIN s
    <2>1. s[i] \in Row  OBVIOUS
    <2>2. c[i] = s[i] \/ c[i] = [s[i] EXCEPT !.count = @ + n(i)]  BY DEF Counted
    <2>3. [s[i] EXCEPT !.count = @ + n(i)] \in Row /\ [s[i] EXCEPT !.count = @ + n(i)].id = s[i].id
      <3> HIDE DEF n
      <3>1. n(i) \in Nat  BY <1>1
      <3> QED  BY <2>1, <3>1, CountedRow
    <2> HIDE DEF c, n
    <2> QED  BY <2>1, <2>2, <2>3
  <1>4. c \in [1..Len(s) -> Row]
    <2>1. c = [i \in DOMAIN s |-> c[i]]  BY DEF Counted
    <2> HIDE DEF c
    <2> QED  BY <1>2, <1>3, <2>1
  <1> HIDE DEF c
  <1>5. c \in Seq(Row) /\ Len(c) = Len(s)  BY <1>4
  <1>6. ShownIds(c) = ShownIds(s)  BY <1>2, <1>3 DEF ShownIds
  <1>7. Distinct(s) => Distinct(c)  BY <1>2, <1>3 DEF Distinct
  <1>8. \A x : Exact(s, x) => Exact(c, x)  BY <1>2, <1>3, <1>6 DEF Exact
  <1> QED  BY <1>2, <1>3, <1>5, <1>6, <1>7, <1>8 DEF c

LEMMA AppendRows ==
    ASSUME NEW s \in Seq(Row), NEW e \in Row, Distinct(s), e.id # NoId => e.id \notin ShownIds(s)
    PROVE  /\ Append(s, e) \in Seq(Row) /\ Distinct(Append(s, e))
           /\ ShownIds(Append(s, e)) = ShownIds(s) \cup ({e.id} \ {NoId})
           /\ Len(Append(s, e)) = Len(s) + 1
  <1>1. /\ DOMAIN Append(s, e) = (DOMAIN s) \cup {Len(s) + 1} /\ Len(s) + 1 \notin DOMAIN s
        /\ \A i \in DOMAIN s : Append(s, e)[i] = s[i]
        /\ Append(s, e)[Len(s) + 1] = e
    OBVIOUS
  <1>2. ShownIds(Append(s, e)) = ShownIds(s) \cup ({e.id} \ {NoId})
    BY <1>1 DEF ShownIds
  <1>3. \A i \in DOMAIN s : s[i].id # NoId => s[i].id \in ShownIds(s)  BY DEF ShownIds
  <1>4. Distinct(Append(s, e))  BY <1>1, <1>3 DEF Distinct
  <1> QED  BY <1>2, <1>4

\* The rows that stay when the first ones leave.
LEMMA EvictedRows ==
    ASSUME NEW s \in Seq(Row), Distinct(s), Len(s) > Cap
    PROVE  LET t == SubSeq(s, Evicting(s) + 1, Len(s))
           IN  /\ t \in Seq(Row) /\ Distinct(t)
               /\ ShownIds(t) = ShownIds(s) \ Dropped(s)
  <1> DEFINE g == Evicting(s)
             t == SubSeq(s, g + 1, Len(s))
  <1>1. g \in Nat /\ g <= Len(s) /\ g = Len(s) - Cap  BY ConstantFacts DEF Evicting
  <1>d. Dropped(s) = {s[i].id : i \in 1..g}  BY DEF Dropped
  <1> HIDE DEF g
  <1>2. /\ t \in Seq(Row) /\ Len(t) = Len(s) - g /\ DOMAIN t = 1..(Len(s) - g)
        /\ \A i \in 1..(Len(s) - g) : t[i] = s[g + i]
    BY <1>1
  <1> HIDE DEF t
  <1>3. Distinct(t)
    <2> SUFFICES ASSUME NEW i \in DOMAIN t, NEW j \in DOMAIN t, t[i].id # NoId, t[i].id = t[j].id
                 PROVE  i = j
      BY DEF Distinct
    <2>1. g + i \in DOMAIN s /\ g + j \in DOMAIN s /\ t[i] = s[g + i] /\ t[j] = s[g + j]
      BY <1>1, <1>2
    <2>2. g + i = g + j  BY <2>1 DEF Distinct
    <2> QED  BY <1>1, <1>2, <2>2
  <1>4. ShownIds(t) \subseteq ShownIds(s) \ Dropped(s)
    <2> SUFFICES ASSUME NEW i \in DOMAIN t, t[i].id # NoId
                 PROVE  t[i].id \in ShownIds(s) \ Dropped(s)
      BY DEF ShownIds
    <2>1. g + i \in DOMAIN s /\ t[i] = s[g + i] /\ g + i > g  BY <1>1, <1>2
    <2>2. t[i].id \in ShownIds(s)  BY <2>1 DEF ShownIds
    <2>3. \A k \in 1..g : k \in DOMAIN s /\ k # g + i  BY <1>1, <2>1
    <2>4. t[i].id \notin Dropped(s)  BY <1>d, <2>1, <2>3 DEF Distinct
    <2> QED  BY <2>2, <2>4
  <1>5. ShownIds(s) \ Dropped(s) \subseteq ShownIds(t)
    <2> SUFFICES ASSUME NEW k \in DOMAIN s, s[k].id # NoId, s[k].id \notin Dropped(s)
                 PROVE  s[k].id \in ShownIds(t)
      BY DEF ShownIds
    <2>1. k \notin 1..g  BY <1>d
    <2>2. k - g \in DOMAIN t /\ t[k - g] = s[k]  BY <1>1, <1>2, <2>1
    <2> QED  BY <2>2 DEF ShownIds
  <1> QED  BY <1>2, <1>3, <1>4, <1>5 DEF t, g

LEMMA JoinedRows ==
    ASSUME NEW s \in Seq(Row), NEW t \in Seq(Row), Distinct(s), Distinct(t),
           ShownIds(s) \cap ShownIds(t) = {}
    PROVE  /\ s \o t \in Seq(Row) /\ Distinct(s \o t)
           /\ ShownIds(s \o t) = ShownIds(s) \cup ShownIds(t)
  <1> DEFINE u == s \o t
  <1>1. /\ u \in Seq(Row) /\ Len(u) = Len(s) + Len(t) /\ DOMAIN u = 1..(Len(s) + Len(t))
        /\ DOMAIN s = 1..Len(s) /\ DOMAIN t = 1..Len(t) /\ Len(s) \in Nat /\ Len(t) \in Nat
        /\ \A i \in 1..Len(s) : u[i] = s[i]
        /\ \A i \in 1..Len(t) : u[Len(s) + i] = t[i]
    OBVIOUS
  <1> HIDE DEF u
  <1>2. \A k \in DOMAIN u : \/ k \in DOMAIN s /\ u[k] = s[k]
                            \/ k - Len(s) \in DOMAIN t /\ u[k] = t[k - Len(s)]
    <2> TAKE k \in DOMAIN u
    <2>1. CASE k <= Len(s)  BY <1>1, <2>1
    <2>2. CASE k > Len(s)
      <3>1. k - Len(s) \in 1..Len(t) /\ Len(s) + (k - Len(s)) = k  BY <1>1, <2>2
      <3> QED  BY <1>1, <3>1
    <2> QED  BY <1>1, <2>1, <2>2
  <1>3. Distinct(u)
    <2> SUFFICES ASSUME NEW i \in DOMAIN u, NEW j \in DOMAIN u, u[i].id # NoId, u[i].id = u[j].id
                 PROVE  i = j
      BY DEF Distinct
    <2>1. \A k \in DOMAIN s : s[k].id # NoId => s[k].id \in ShownIds(s)  BY DEF ShownIds
    <2>2. \A k \in DOMAIN t : t[k].id # NoId => t[k].id \in ShownIds(t)  BY DEF ShownIds
    <2>3. CASE i \in DOMAIN s /\ u[i] = s[i] /\ j \in DOMAIN s /\ u[j] = s[j]
      BY <2>3 DEF Distinct
    <2>4. CASE /\ i - Len(s) \in DOMAIN t /\ u[i] = t[i - Len(s)]
               /\ j - Len(s) \in DOMAIN t /\ u[j] = t[j - Len(s)]
      <3>1. i - Len(s) = j - Len(s)  BY <2>4 DEF Distinct
      <3> QED  BY <1>1, <3>1
    <2> QED  BY <1>2, <2>1, <2>2, <2>3, <2>4
  <1>4. ShownIds(u) \subseteq ShownIds(s) \cup ShownIds(t)  BY <1>2 DEF ShownIds
  <1>5. ShownIds(s) \subseteq ShownIds(u)  BY <1>1 DEF ShownIds
  <1>6. ShownIds(t) \subseteq ShownIds(u)
    <2> SUFFICES ASSUME NEW k \in DOMAIN t, t[k].id # NoId PROVE t[k].id \in ShownIds(u)
      BY DEF ShownIds
    <2>1. Len(s) + k \in DOMAIN u /\ u[Len(s) + k] = t[k]  BY <1>1
    <2> QED  BY <2>1 DEF ShownIds
  <1> QED  BY <1>1, <1>3, <1>4, <1>5, <1>6 DEF u

LEMMA WithoutRows ==
    ASSUME NEW s \in Seq(Row), Distinct(s), NEW r \in DOMAIN s, s[r].id # NoId
    PROVE  /\ Without(s, r) \in Seq(Row) /\ Distinct(Without(s, r))
           /\ ShownIds(Without(s, r)) = ShownIds(s) \ {s[r].id}
  <1> DEFINE a == SubSeq(s, 1, r - 1)
             b == SubSeq(s, r + 1, Len(s))
  <1>0. r \in 1..Len(s) /\ Len(s) \in Nat /\ DOMAIN s = 1..Len(s)  OBVIOUS
  <1>1. /\ a \in Seq(Row) /\ DOMAIN a = 1..(r - 1) /\ \A i \in 1..(r - 1) : a[i] = s[i]
    BY <1>0
  <1>2. /\ b \in Seq(Row) /\ DOMAIN b = 1..(Len(s) - r)
        /\ \A i \in 1..(Len(s) - r) : b[i] = s[r + i]
    BY <1>0
  <1>w. Without(s, r) = a \o b  BY DEF Without
  <1> HIDE DEF a, b
  <1>3. ShownIds(a) \cup ShownIds(b) = ShownIds(s) \ {s[r].id}
    <2>1. ShownIds(a) \subseteq ShownIds(s) \ {s[r].id}
      <3> SUFFICES ASSUME NEW i \in DOMAIN a, a[i].id # NoId
                   PROVE  a[i].id \in ShownIds(s) \ {s[r].id}
        BY DEF ShownIds
      <3>1. i \in DOMAIN s /\ i # r /\ a[i] = s[i]  BY <1>0, <1>1
      <3> QED  BY <3>1 DEF ShownIds, Distinct
    <2>2. ShownIds(b) \subseteq ShownIds(s) \ {s[r].id}
      <3> SUFFICES ASSUME NEW i \in DOMAIN b, b[i].id # NoId
                   PROVE  b[i].id \in ShownIds(s) \ {s[r].id}
        BY DEF ShownIds
      <3>1. r + i \in DOMAIN s /\ r + i # r /\ b[i] = s[r + i]  BY <1>0, <1>2
      <3> QED  BY <3>1 DEF ShownIds, Distinct
    <2>3. ShownIds(s) \ {s[r].id} \subseteq ShownIds(a) \cup ShownIds(b)
      <3> SUFFICES ASSUME NEW k \in DOMAIN s, s[k].id # NoId, s[k].id # s[r].id
                   PROVE  s[k].id \in ShownIds(a) \cup ShownIds(b)
        BY DEF ShownIds
      <3>1. CASE k < r
        <4>1. k \in DOMAIN a /\ a[k] = s[k]  BY <1>0, <1>1, <3>1
        <4> QED  BY <4>1 DEF ShownIds
      <3>2. CASE k > r
        <4>1. k - r \in DOMAIN b /\ b[k - r] = s[k]  BY <1>0, <1>2, <3>2
        <4> QED  BY <4>1 DEF ShownIds
      <3> QED  BY <1>0, <3>1, <3>2
    <2> QED  BY <2>1, <2>2, <2>3
  <1>4. Distinct(a)  BY <1>0, <1>1 DEF Distinct
  <1>5. Distinct(b)
    <2> SUFFICES ASSUME NEW i \in DOMAIN b, NEW j \in DOMAIN b, b[i].id # NoId, b[i].id = b[j].id
                 PROVE  i = j
      BY DEF Distinct
    <2>0. \A k \in DOMAIN b : r + k \in DOMAIN s /\ b[k] = s[r + k]  BY <1>0, <1>2
    <2>1. r + i \in DOMAIN s /\ r + j \in DOMAIN s /\ b[i] = s[r + i] /\ b[j] = s[r + j]
      BY <2>0
    <2>2. r + i = r + j  BY <2>1 DEF Distinct
    <2> QED  BY <1>0, <1>2, <2>2
  <1>6. ShownIds(a) \cap ShownIds(b) = {}
    <2> SUFFICES ASSUME NEW i \in DOMAIN a, NEW j \in DOMAIN b, a[i].id # NoId, a[i].id = b[j].id
                 PROVE  FALSE
      BY DEF ShownIds
    <2>1. i \in DOMAIN s /\ r + j \in DOMAIN s /\ i # r + j /\ a[i] = s[i] /\ b[j] = s[r + j]
      BY <1>0, <1>1, <1>2
    <2> QED  BY <2>1 DEF Distinct
  <1> QED  BY <1>1, <1>2, <1>w, <1>3, <1>4, <1>5, <1>6, JoinedRows
-----------------------------------------------------------------------------
(* The operations. *)

\* What each operation keeps of the rows, and the ids it adds and removes.
Changed(in, out) ==
    /\ events' \in Seq(Row)
    /\ Exact(events', rowIndex')
    /\ Shown' = (Shown \cup in) \ out

RowsGood ==
    /\ events \in Seq(Row) /\ Exact(events, rowIndex)
    /\ seenIds \subseteq Ids \ {NoId}

LEMMA AppendRowChange ==
    ASSUME RowsGood, NEW e \in Row, e.id # NoId => e.id \notin Shown, AppendRow(e)
    PROVE  \E out : /\ Changed({e.id} \ {NoId}, out)
                    /\ seenIds' = (seenIds \cup ({e.id} \ {NoId})) \ out
                    /\ evicted' = evicted \cup (out \cap Events)
  <1> DEFINE ix == IF e.id = NoId THEN rowIndex
                   ELSE [x \in DOMAIN rowIndex \cup {e.id} |->
                            IF x = e.id THEN Len(events) + 1 ELSE rowIndex[x]]
             a  == Append(events, e)
             r  == IF e.id \in Reactions THEN <<>> ELSE <<e>>
             s  == Counted(a, ix, r)
  <1>1. /\ events' = SubSeq(s, Evicting(s) + 1, Len(s))
        /\ seenIds' = (seenIds \cup ({e.id} \ {NoId})) \ Dropped(s)
        /\ rowIndex' = AfterEviction(s, ix)
        /\ evicted' = evicted \cup (Dropped(s) \cap Events)
    BY DEF AppendRow
  <1>2. Distinct(events) /\ events \in Seq(Row)  BY ExactIsDistinct DEF RowsGood
  <1>3. /\ a \in Seq(Row) /\ Distinct(a) /\ ShownIds(a) = Shown \cup ({e.id} \ {NoId})
        /\ Len(a) = Len(events) + 1
    BY <1>2, AppendRows DEF Shown
  <1>4. Exact(a, ix)
    <2>1. DOMAIN ix = Shown \cup ({e.id} \ {NoId})  BY DEF RowsGood, Exact, Shown
    <2>2. /\ DOMAIN a = (DOMAIN events) \cup {Len(events) + 1}
          /\ \A i \in DOMAIN events : a[i] = events[i]
          /\ a[Len(events) + 1] = e
      BY <1>2
    <2>3. \A i \in DOMAIN events : events[i].id # NoId =>
              events[i].id \in Shown /\ rowIndex[events[i].id] = i
      BY DEF RowsGood, Exact, Shown, ShownIds
    <2>4. \A i \in DOMAIN a : a[i].id # NoId => ix[a[i].id] = i
      BY <2>2, <2>3 DEF RowsGood, Exact, Shown
    <2> QED  BY <1>3, <2>1, <2>4 DEF Exact
  <1>5. r \in Seq(Row)  OBVIOUS
  <1> HIDE DEF ix, a, r
  <1>6. /\ s \in Seq(Row) /\ ShownIds(s) = ShownIds(a) /\ Distinct(s) /\ Exact(s, ix)
    BY <1>3, <1>4, <1>5, CountedRows
  <1> HIDE DEF s
  <1>7. CASE Len(s) > Cap
    <2>1. Evicting(s) > 0  BY <1>6, <1>7, ConstantFacts DEF Evicting
    <2>2. rowIndex' = Indexed(events')  BY <1>1, <2>1 DEF AfterEviction
    <2>3. /\ events' \in Seq(Row) /\ Distinct(events')
          /\ ShownIds(events') = ShownIds(s) \ Dropped(s)
      BY <1>1, <1>6, <1>7, EvictedRows
    <2>4. Exact(events', rowIndex')  BY <2>2, <2>3, RebuildIsExact
    <2>5. Changed({e.id} \ {NoId}, Dropped(s))
      BY <1>3, <1>6, <2>3, <2>4 DEF Changed, Shown
    <2> QED  BY <1>1, <2>5
  <1>8. CASE ~(Len(s) > Cap)
    <2>1. Evicting(s) = 0  BY <1>8 DEF Evicting
    <2>2. Dropped(s) = {}
      <3>1. 1..0 = {}  OBVIOUS
      <3> QED  BY <2>1, <3>1 DEF Dropped
    <2>3. events' = s  BY <1>1, <1>6, <2>1
    <2>4. rowIndex' = ix  BY <1>1, <2>1 DEF AfterEviction
    <2>5. Changed({e.id} \ {NoId}, Dropped(s))
      BY <1>3, <1>6, <2>2, <2>3, <2>4 DEF Changed, Shown
    <2> QED  BY <1>1, <2>5
  <1> QED  BY <1>7, <1>8

LEMMA ListedRows ==
    ASSUME NEW S \in SUBSET Events, NEW new \in Listings(S)
    PROVE  LET d == DisplayedAll(new)
           IN  /\ d \in Seq(Row) /\ Distinct(d)
               /\ ShownIds(d) = {new[i] : i \in DOMAIN new}
               /\ {new[i] : i \in DOMAIN new} \subseteq S
  <1> DEFINE d == DisplayedAll(new)
             n == Cardinality(S)
  <1>1. /\ new \in [1..n -> S] /\ \A i, j \in DOMAIN new : i < j => new[i] < new[j]
    BY DEF Listings
  <1>f. n \in Nat
    <2>1. IsFiniteSet(Events)  BY ConstantFacts, FS_Interval DEF Events
    <2> QED  BY <2>1, FS_Subset, FS_CardinalityType
  <1>2. \A i \in DOMAIN new : new[i] \in Events /\ new[i] \in Int /\ new[i] # NoId
    BY <1>1, ConstantFacts
  <1>3. DOMAIN d = DOMAIN new /\ \A i \in DOMAIN new : d[i] = Displayed(new[i])
    BY DEF DisplayedAll
  <1>4. \A i \in DOMAIN new : d[i] \in Row /\ d[i].id = new[i]
    <2> TAKE i \in DOMAIN new
    <2>1. new[i] \in Events /\ d[i] = Displayed(new[i])  BY <1>2, <1>3
    <2> HIDE DEF d
    <2> QED  BY <2>1, RowFacts
  <1>5. d \in Seq(Row)
    <2>1. d = [i \in 1..n |-> d[i]]  BY <1>1 DEF DisplayedAll
    <2> HIDE DEF d, n
    <2>2. d \in [1..n -> Row]  BY <1>1, <1>3, <1>4, <2>1
    <2> QED  BY <1>f, <2>2
  <1> HIDE DEF d
  <1>6. Distinct(d)
    <2> SUFFICES ASSUME NEW i \in DOMAIN d, NEW j \in DOMAIN d, d[i].id = d[j].id
                 PROVE  i = j
      BY DEF Distinct
    <2>1. new[i] = new[j] /\ i \in 1..n /\ j \in 1..n  BY <1>1, <1>3, <1>4
    <2>2. ~(i < j) /\ ~(j < i)  BY <1>1, <1>2, <1>3, <2>1
    <2> QED  BY <1>f, <2>1, <2>2
  <1>7. ShownIds(d) = {new[i] : i \in DOMAIN new}
    BY <1>2, <1>3, <1>4 DEF ShownIds
  <1>8. {new[i] : i \in DOMAIN new} \subseteq S  BY <1>1
  <1> QED  BY <1>5, <1>6, <1>7, <1>8 DEF d

\* A listing in order leaves nothing out.
LEMMA ListedAll ==
    ASSUME NEW S \in SUBSET Events, NEW new \in Listings(S)
    PROVE  {new[i] : i \in DOMAIN new} = S
  <1> DEFINE n == Cardinality(S)
  <1>1. /\ new \in [1..n -> S] /\ \A i, j \in DOMAIN new : i < j => new[i] < new[j]
    BY DEF Listings
  <1>2. IsFiniteSet(S)
    <2>1. IsFiniteSet(Events)  BY ConstantFacts, FS_Interval DEF Events
    <2> QED  BY <2>1, FS_Subset
  <1>3. n \in Nat  BY <1>2, FS_CardinalityType
  <1> HIDE DEF n
  <1>4. \A i \in 1..n : new[i] \in Int  BY <1>1, ConstantFacts
  <1>5. ASSUME NEW i \in 1..n, NEW j \in 1..n, new[i] = new[j] PROVE i = j
    <2>1. ~(i < j) /\ ~(j < i)  BY <1>1, <1>4, <1>5
    <2> QED  BY <1>3, <2>1
  <1>6. new \in Injection(1..n, S)  BY <1>1, <1>5 DEF Injection, IsInjective
  <1>7. Cardinality(1..n) = n  BY <1>3, FS_Interval
  <1>8. new \in Surjection(1..n, S)  BY <1>2, <1>6, <1>7, FS_Injection DEF n
  <1> QED  BY <1>1, <1>8 DEF Surjection

\* A batch and a page add ids that were not shown, and mark them as seen:
\* every id of the batch or the page is one of the seen ones then.
LEMMA InsertChange ==
    ASSUME RowsGood, NEW S \in SUBSET Events, Shown \cap Events \subseteq seenIds,
           AppendBackBatch(S) \/ AppendFront(S)
    PROVE  \E in \in SUBSET Events :
              Changed(in, {}) /\ seenIds' = seenIds \cup in /\ S \subseteq seenIds'
  <1>1. CASE UNCHANGED rows /\ Unseen(S) = {}
    <2>1. events' = events /\ rowIndex' = rowIndex /\ seenIds' = seenIds  BY <1>1 DEF rows
    <2>2. Changed({}, {}) /\ seenIds' = seenIds \cup {}  BY <2>1 DEF Changed, RowsGood, Shown
    <2>3. S \subseteq seenIds'  BY <1>1, <2>1 DEF Unseen
    <2> QED  BY <2>2, <2>3
  <1>2. ASSUME NEW new \in Listings(Unseen(S)), NEW s,
               \/ s = events \o DisplayedAll(new)
               \/ s = DisplayedAll(new) \o events,
               seenIds' = seenIds \cup {new[i] : i \in DOMAIN new},
               rowIndex' = Indexed(s),
               events' = Counted(s, rowIndex', DisplayedAll(new))
        PROVE  \E in \in SUBSET Events :
                  Changed(in, {}) /\ seenIds' = seenIds \cup in /\ S \subseteq seenIds'
    <2> DEFINE in == {new[i] : i \in DOMAIN new}
               d == DisplayedAll(new)
    <2>1. Unseen(S) \in SUBSET Events /\ Unseen(S) \cap seenIds = {}  BY DEF Unseen
    <2>2. d \in Seq(Row) /\ Distinct(d) /\ ShownIds(d) = in /\ in \subseteq Unseen(S)
      BY <1>2, <2>1, ListedRows
    <2> HIDE DEF in, d
    <2>3. in \cap Shown = {}  BY <2>1, <2>2
    <2>4. Distinct(events) /\ events \in Seq(Row)  BY ExactIsDistinct DEF RowsGood
    <2>5. s = events \o d \/ s = d \o events  BY <1>2 DEF d
    <2>6. s \in Seq(Row) /\ Distinct(s) /\ ShownIds(s) = Shown \cup in
      <3>1. ShownIds(events) \cap ShownIds(d) = {} /\ ShownIds(d) \cap ShownIds(events) = {}
        BY <2>2, <2>3 DEF Shown
      <3>2. CASE s = events \o d
        BY <2>2, <2>4, <3>1, <3>2, JoinedRows DEF Shown
      <3>3. CASE s = d \o events
        <4>1. s \in Seq(Row) /\ Distinct(s) /\ ShownIds(s) = ShownIds(d) \cup ShownIds(events)
          BY <2>2, <2>4, <3>1, <3>3, JoinedRows
        <4> QED  BY <2>2, <4>1 DEF Shown
      <3> QED  BY <2>5, <3>2, <3>3
    <2>7. Exact(s, rowIndex')  BY <1>2, <2>6, RebuildIsExact
    <2>8. events' = Counted(s, rowIndex', d)  BY <1>2 DEF d
    <2>9. events' \in Seq(Row) /\ Exact(events', rowIndex') /\ ShownIds(events') = ShownIds(s)
      BY <2>2, <2>6, <2>7, <2>8, CountedRows
    <2>10. Changed(in, {})  BY <2>6, <2>9 DEF Changed, Shown
    <2>11. seenIds' = seenIds \cup in  BY <1>2 DEF in
    <2>12. in = Unseen(S)  BY <1>2, <2>1, ListedAll DEF in
    <2>13. S \subseteq seenIds'  BY <2>11, <2>12 DEF Unseen
    <2> QED  BY <2>1, <2>2, <2>10, <2>11, <2>13
  <1>3. CASE AppendBackBatch(S)
    BY <1>1, <1>2, <1>3 DEF AppendBackBatch, Placed
  <1>4. CASE AppendFront(S)
    BY <1>1, <1>2, <1>4 DEF AppendFront, Placed
  <1> QED  BY <1>3, <1>4

LEMMA ReplaceEchoChange ==
    ASSUME RowsGood, NEW n \in Events, Shown \cap Events = seenIds \cap Events, ReplaceEcho(n),
           doubled \in Nat
    PROVE  \E in, out :
              /\ in \in {{}, {n}}
              /\ Changed(in, out)
              /\ seenIds' \subseteq seenIds \cup in
              /\ seenIds' \cap Events = ((seenIds \cup in) \ out) \cap Events
              /\ -n \notin Shown' /\ doubled' \in Nat
              /\ evicted' = evicted \/ evicted' = evicted \cup (out \cap Events)
  <1> DEFINE real == Displayed(n)
             row == rowIndex[-n]
  <1>0. real \in Row /\ real.id = n  BY RowFacts
  <1> HIDE DEF real
  <1>1. real \in Row /\ real.id = n /\ n # NoId /\ -n # NoId /\ n # -n /\ -n \notin Events
    <2>1. n \in Int /\ n > 0 /\ -n < 0  BY ConstantFacts
    <2>2. -n \notin Events  BY <2>1, ConstantFacts
    <2> QED  BY <1>0, <2>1, <2>2 DEF NoId
  <1>2. DOMAIN rowIndex = Shown /\ Distinct(events) /\ events \in Seq(Row)
    BY ExactIsDistinct DEF RowsGood, Exact, Shown
  <1>3. CASE -n \notin DOMAIN rowIndex /\ AppendBack(real) /\ UNCHANGED doubled
    <2>1. CASE UNCHANGED <<rows, evicted, lost>>
      <3>1. events' = events /\ rowIndex' = rowIndex /\ seenIds' = seenIds /\ evicted' = evicted
        BY <2>1 DEF rows
      <3>2. /\ Changed({}, {}) /\ seenIds' \cap Events = ((seenIds \cup {}) \ {}) \cap Events
            /\ -n \notin Shown'
        BY <1>2, <1>3, <3>1 DEF Changed, RowsGood, Shown
      <3> QED  BY <1>3, <3>1, <3>2
    <2>2. CASE ~Duplicate(real) /\ AppendRow(real)
      <3>1. n \notin Shown  BY <1>1, <2>2 DEF Duplicate
      <3>2. PICK out : /\ Changed({n}, out) /\ seenIds' = (seenIds \cup {n}) \ out
                       /\ evicted' = evicted \cup (out \cap Events)
        <4>1. {real.id} \ {NoId} = {n}  BY <1>1
        <4> QED  BY <1>1, <2>2, <3>1, <4>1, AppendRowChange
      <3>3. Shown' = (Shown \cup {n}) \ out  BY <3>2 DEF Changed
      <3>4. -n \notin Shown'  BY <1>1, <1>2, <1>3, <3>3
      <3> QED  BY <1>3, <3>2, <3>4
    <2> QED  BY <1>3, <2>1, <2>2 DEF AppendBack
  <1>4. CASE /\ -n \in DOMAIN rowIndex /\ n \in seenIds
             /\ events' = Without(events, row)
             /\ rowIndex' = Indexed(events')
             /\ doubled' = IF Root[n] = 0 THEN doubled ELSE doubled + 1
             /\ UNCHANGED <<seenIds, evicted, lost>>
    <2>1. row \in DOMAIN events /\ events[row].id = -n
      BY <1>1, <1>2, <1>4 DEF RowsGood, Exact, Shown, ShownIds
    <2>2. /\ events' \in Seq(Row) /\ Distinct(events') /\ ShownIds(events') = Shown \ {-n}
      <3> HIDE DEF row
      <3> QED  BY <1>1, <1>2, <1>4, <2>1, WithoutRows DEF Shown
    <2>3. Exact(events', rowIndex')  BY <1>4, <2>2, RebuildIsExact
    <2>4. Changed({}, {-n}) /\ -n \notin Shown'  BY <2>2, <2>3 DEF Changed, Shown
    <2>5. seenIds' \cap Events = ((seenIds \cup {}) \ {-n}) \cap Events /\ doubled' \in Nat
      BY <1>1, <1>4
    <2> QED  BY <1>4, <2>4, <2>5
  <1>5. CASE /\ -n \in DOMAIN rowIndex /\ n \notin seenIds
             /\ events' = [events EXCEPT ![row] = real]
             /\ seenIds' = seenIds \cup {n}
             /\ rowIndex' = Renamed(-n, n)
             /\ UNCHANGED <<evicted, lost, doubled>>
    <2>1. row \in DOMAIN events /\ events[row].id = -n
      BY <1>1, <1>2, <1>5 DEF RowsGood, Exact, Shown, ShownIds
    <2>2. n \notin Shown  BY <1>5
    <2>3. /\ events' \in Seq(Row) /\ DOMAIN events' = DOMAIN events /\ events'[row] = real
          /\ \A i \in DOMAIN events : i # row => events'[i] = events[i]
      <3> HIDE DEF row
      <3> QED  BY <1>1, <1>2, <1>5, <2>1
    <2> HIDE DEF row
    <2>4. Shown' = (Shown \cup {n}) \ {-n}
      <3>1. ShownIds(events') \subseteq (Shown \cup {n}) \ {-n}
        BY <1>1, <1>2, <2>1, <2>3 DEF Shown, ShownIds, Distinct
      <3>2. (Shown \cup {n}) \ {-n} \subseteq ShownIds(events')
        <4>1. n \in ShownIds(events')  BY <1>1, <2>1, <2>3 DEF ShownIds
        <4>2. Shown \ {-n} \subseteq ShownIds(events')
          <5> SUFFICES ASSUME NEW i \in DOMAIN events, events[i].id # NoId, events[i].id # -n
                       PROVE  events[i].id \in ShownIds(events')
            BY DEF Shown, ShownIds
          <5> QED  BY <2>1, <2>3 DEF ShownIds
        <4> QED  BY <4>1, <4>2
      <3> QED  BY <3>1, <3>2 DEF Shown
    <2>5. /\ DOMAIN rowIndex' = (Shown \ {-n}) \cup {n}
          /\ rowIndex'[n] = row
          /\ \A x \in Shown \ {-n} : rowIndex'[x] = rowIndex[x]
      BY <1>2, <1>5, <2>2 DEF Renamed, row
    <2>6. \A i \in DOMAIN events' : events'[i].id # NoId => rowIndex'[events'[i].id] = i
      <3> SUFFICES ASSUME NEW i \in DOMAIN events', events'[i].id # NoId
                   PROVE  rowIndex'[events'[i].id] = i
        OBVIOUS
      <3>1. CASE i = row  BY <1>1, <2>3, <2>5, <3>1
      <3>2. CASE i # row
        <4>1. events'[i] = events[i] /\ i \in DOMAIN events  BY <2>3, <3>2
        <4>2. events[i].id \in Shown /\ events[i].id # -n
          BY <1>2, <2>1, <3>2, <4>1 DEF Shown, ShownIds, Distinct
        <4>3. rowIndex[events[i].id] = i  BY <4>1 DEF RowsGood, Exact
        <4> QED  BY <2>5, <4>1, <4>2, <4>3
      <3> QED  BY <3>1, <3>2
    <2>7. Exact(events', rowIndex')
      <3>1. (Shown \ {-n}) \cup {n} = (Shown \cup {n}) \ {-n}  BY <1>1
      <3> QED  BY <2>4, <2>5, <2>6, <3>1 DEF Exact, Shown
    <2>8. Changed({n}, {-n}) /\ -n \notin Shown'  BY <2>3, <2>4, <2>7 DEF Changed
    <2>9. seenIds' \cap Events = ((seenIds \cup {n}) \ {-n}) \cap Events  BY <1>1, <1>5
    <2> QED  BY <1>5, <2>8, <2>9
  <1> QED  BY <1>3, <1>4, <1>5 DEF ReplaceEcho, real
-----------------------------------------------------------------------------
(* The invariant. *)

\* The parts of the type that the rows do not determine.
Rest ==
    /\ posted \in 0..MaxEvents /\ synced \in 0..posted /\ opened \in 0..synced
    /\ oldest \in 1..MaxEvents + 1 /\ pageEnd \in 0..MaxEvents
    /\ sending \subseteq Own /\ readable \subseteq Late
    /\ evicted \subseteq Events /\ lost \in [Events -> Nat] /\ doubled \in Nat
    /\ left \in [Rare -> Nat]

LEMMA IInvParts ==
    IInv <=> /\ RowsGood /\ Rest
             /\ Shown \subseteq Ids \ {NoId}
             /\ SeenExact /\ NoGhost
  <1>1. ASSUME IInv PROVE RowsGood /\ Rest /\ Shown \subseteq Ids \ {NoId}
    BY <1>1 DEF IInv, TypeOK, RowsGood, Rest, Exact, IndexExact, Shown
  <1>2. ASSUME RowsGood, Rest, Shown \subseteq Ids \ {NoId} PROVE TypeOK /\ IndexExact
    <2>1. IndexExact  BY <1>2 DEF RowsGood, Exact, IndexExact, Shown
    <2>2. \A x \in DOMAIN rowIndex : rowIndex[x] \in 1..Len(events)
      <3> SUFFICES ASSUME NEW x \in DOMAIN rowIndex PROVE rowIndex[x] \in 1..Len(events)
        OBVIOUS
      <3>1. PICK i \in DOMAIN events : events[i].id = x /\ x # NoId
        BY <2>1 DEF IndexExact, Shown, ShownIds
      <3>2. rowIndex[x] = i  BY <2>1, <3>1 DEF IndexExact
      <3> QED  BY <1>2, <3>2 DEF RowsGood
    <2> QED  BY <1>2, <2>1, <2>2 DEF RowsGood, Rest, TypeOK, IndexExact
  <1> QED  BY <1>1, <1>2 DEF IInv

\* The same of the next state.
LEMMA IInvPartsNext ==
    ASSUME RowsGood', Rest', (Shown \subseteq Ids \ {NoId})', SeenExact', NoGhost'
    PROVE  IInv'
  <1>1. IndexExact'  BY DEF RowsGood, Exact, IndexExact, Shown
  <1>2. (\A x \in DOMAIN rowIndex : rowIndex[x] \in 1..Len(events))'
    <2> SUFFICES ASSUME NEW x \in DOMAIN rowIndex' PROVE rowIndex'[x] \in 1..Len(events')
      OBVIOUS
    <2>1. PICK i \in DOMAIN events' : events'[i].id = x /\ x # NoId
      BY <1>1 DEF IndexExact, Shown, ShownIds
    <2>2. rowIndex'[x] = i  BY <1>1, <2>1 DEF IndexExact
    <2> QED  BY <2>2 DEF RowsGood
  <1>3. TypeOK'  BY <1>1, <1>2 DEF RowsGood, Rest, TypeOK, IndexExact
  <1> QED  BY <1>1, <1>3 DEF IInv

\* Positive ids are events.
LEMMA PositiveIds == \A x \in Ids : x > 0 <=> x \in Events
  BY ConstantFacts DEF Ids, Events

LEMMA SeenShown ==
    ASSUME IInv
    PROVE  Shown \cap Events = seenIds \cap Events
  BY IInvParts, PositiveIds DEF SeenExact, RowsGood

\* A step that adds the same events to the rows and to the seen ids, and only
\* echoes of what is being sent, keeps the invariant.
LEMMA ChangeKeeps ==
    ASSUME IInv, Rest', NEW in \in SUBSET (Ids \ {NoId}), NEW out, Changed(in, out),
           seenIds' \subseteq seenIds \cup in,
           seenIds' \cap Events = ((seenIds \cup in) \ out) \cap Events,
           \A x \in Shown' : x < 0 => -x \in sending'
    PROVE  IInv'
  <1>1. Shown \subseteq Ids \ {NoId} /\ seenIds \subseteq Ids \ {NoId}
    BY IInvParts DEF RowsGood
  <1>2. Shown' \subseteq Ids \ {NoId} /\ seenIds' \subseteq Ids \ {NoId}
    BY <1>1 DEF Changed
  <1>3. Shown' \cap Events = seenIds' \cap Events
    BY SeenShown DEF Changed
  <1>4. SeenExact'  BY <1>2, <1>3, PositiveIds DEF SeenExact
  <1>5. RowsGood'  BY <1>2 DEF Changed, RowsGood
  <1>6. NoGhost'  BY DEF NoGhost
  <1> QED  BY <1>2, <1>4, <1>5, <1>6, IInvPartsNext

LEMMA InitIInv == Init => IInv
  <1> SUFFICES ASSUME Init PROVE IInv  OBVIOUS
  <1>1. /\ events = <<>> /\ seenIds = {} /\ rowIndex = << >>  BY DEF Init
  <1>2. Shown = {} /\ DOMAIN rowIndex = {}  BY <1>1 DEF Shown, ShownIds
  <1>3. RowsGood  BY <1>1, <1>2 DEF RowsGood, Exact, Shown
  <1>4. Rest
    <2>1. Old \in 0..MaxEvents /\ Old \in 0..Old /\ Old + 1 \in 1..MaxEvents + 1
      BY ConstantFacts
    <2> QED  BY <2>1, TimelineAssumption DEF Init, Rest
  <1>5. SeenExact /\ NoGhost  BY <1>1, <1>2 DEF SeenExact, NoGhost
  <1> QED  BY <1>2, <1>3, <1>4, <1>5, IInvParts

\* An event that /sync or the answer to a request hands over.
LEMMA AppendEventKeeps ==
    ASSUME IInv, Rest', NEW e \in Row, e.id \in Events \cup {NoId}, sending' = sending,
           AppendBack(e)
    PROVE  IInv'
  <1>1. RowsGood /\ NoGhost  BY IInvParts
  <1>2. {e.id} \ {NoId} \subseteq Events /\ Events \subseteq Ids \ {NoId}  BY ConstantFacts
  <1>3. CASE UNCHANGED <<rows, evicted, lost>>
    <2>1. events' = events /\ rowIndex' = rowIndex /\ seenIds' = seenIds  BY <1>3 DEF rows
    <2>2. Changed({}, {})  BY <1>1, <2>1 DEF Changed, RowsGood, Shown
    <2>3. seenIds' \cap Events = ((seenIds \cup {}) \ {}) \cap Events  BY <2>1
    <2>4. \A x \in Shown' : x < 0 => -x \in sending'
      BY <1>1, <2>1 DEF NoGhost, Shown
    <2> QED  BY <2>1, <2>2, <2>3, <2>4, ChangeKeeps
  <1>4. CASE ~Duplicate(e) /\ AppendRow(e)
    <2>1. e.id # NoId => e.id \notin Shown
      BY <1>2, <1>4, SeenShown DEF Duplicate
    <2>2. PICK out : /\ Changed({e.id} \ {NoId}, out)
                     /\ seenIds' = (seenIds \cup ({e.id} \ {NoId})) \ out
      BY <1>1, <1>4, <2>1, AppendRowChange
    <2>3. \A x \in Events : ~(x < 0)  BY ConstantFacts
    <2>4. \A x \in Shown' : x < 0 => -x \in sending'
      BY <1>1, <1>2, <2>2, <2>3 DEF Changed, NoGhost
    <2>5. {e.id} \ {NoId} \in SUBSET (Ids \ {NoId})  BY <1>2
    <2> QED  BY <2>2, <2>4, <2>5, ChangeKeeps
  <1> QED  BY <1>3, <1>4 DEF AppendBack

\* The type of what an eviction adds to its history.
LEMMA AppendRowType ==
    ASSUME events \in Seq(Row), lost \in [Events -> Nat], NEW e \in Row, AppendRow(e)
    PROVE  \E ix : LET a == Append(events, e)
                       s == Counted(a, ix, IF e.id \in Reactions THEN <<>> ELSE <<e>>)
                   IN  /\ a \in Seq(Row) /\ s \in Seq(Row) /\ Len(s) = Len(a)
                       /\ Evicting(s) \in 0..Len(s)
                       /\ events' = SubSeq(s, Evicting(s) + 1, Len(s))
                       /\ lost' \in [Events -> Nat]
                       /\ \A x \in Events :
                             lost'[x] = lost[x]
                                 + Cardinality({i \in 1..Evicting(s) : s[i].reply = x})
  <1> DEFINE ix == IF e.id = NoId THEN rowIndex
                   ELSE [x \in DOMAIN rowIndex \cup {e.id} |->
                            IF x = e.id THEN Len(events) + 1 ELSE rowIndex[x]]
             a  == Append(events, e)
             r  == IF e.id \in Reactions THEN <<>> ELSE <<e>>
             s  == Counted(a, ix, r)
             D(x) == {i \in 1..Evicting(s) : s[i].reply = x}
  <1>1. /\ events' = SubSeq(s, Evicting(s) + 1, Len(s))
        /\ lost' = [x \in Events |-> lost[x] + Cardinality(D(x))]
    BY DEF AppendRow
  <1>2. a \in Seq(Row) /\ r \in Seq(Row)  OBVIOUS
  <1> HIDE DEF a, r, ix
  <1>3. s \in Seq(Row) /\ Len(s) = Len(a)  BY <1>2, CountedRows
  <1> HIDE DEF s
  <1>4. Len(s) \in Nat /\ Evicting(s) \in 0..Len(s)
    <2>1. Len(s) \in Nat /\ Cap \in Nat  BY <1>3, ConstantFacts
    <2> QED  BY <2>1 DEF Evicting
  <1>5. \A x : Cardinality(D(x)) \in Nat
    <2> TAKE x
    <2>1. IsFiniteSet(1..Evicting(s)) /\ D(x) \in SUBSET (1..Evicting(s))
      BY <1>4, FS_Interval
    <2> QED  BY <2>1, FS_Subset, FS_CardinalityType
  <1> HIDE DEF D
  <1>6. lost' \in [Events -> Nat] /\ \A x \in Events : lost'[x] = lost[x] + Cardinality(D(x))
    BY <1>1, <1>5
  <1> WITNESS ix
  <1> QED  BY <1>1, <1>2, <1>3, <1>4, <1>6 DEF a, r, s, D

LEMMA AppendBackEvicts ==
    ASSUME IInv, NEW e \in Row, AppendBack(e)
    PROVE  evicted' \in SUBSET Events /\ lost' \in [Events -> Nat]
  <1>1. evicted' \in SUBSET Events  BY DEF IInv, TypeOK, AppendBack, AppendRow
  <1>2. events \in Seq(Row) /\ lost \in [Events -> Nat]  BY DEF IInv, TypeOK
  <1>3. CASE lost' = lost  BY <1>1, <1>2, <1>3
  <1>4. CASE AppendRow(e)
    <2>1. lost' \in [Events -> Nat]  BY <1>2, <1>4, AppendRowType
    <2> QED  BY <1>1, <2>1
  <1> QED  BY <1>3, <1>4 DEF AppendBack

LEMMA ReplaceEchoEvicts ==
    ASSUME IInv, NEW n \in Events, ReplaceEcho(n)
    PROVE  lost' \in [Events -> Nat]
  <1>1. CASE lost' = lost  BY <1>1 DEF IInv, TypeOK
  <1>2. CASE AppendBack(Displayed(n))  BY <1>2, RowFacts, AppendBackEvicts
  <1> QED  BY <1>1, <1>2 DEF ReplaceEcho

LEMMA InsertKeeps ==
    ASSUME IInv, Rest', NEW S \in SUBSET Events, sending' = sending,
           AppendBackBatch(S) \/ AppendFront(S)
    PROVE  IInv'
  <1>1. RowsGood /\ NoGhost  BY IInvParts
  <1>2. PICK in \in SUBSET Events : Changed(in, {}) /\ seenIds' = seenIds \cup in
    BY <1>1, SeenShown, InsertChange
  <1>3. in \in SUBSET (Ids \ {NoId}) /\ \A x \in in : ~(x < 0)  BY ConstantFacts
  <1>4. \A x \in Shown' : x < 0 => -x \in sending'
    BY <1>1, <1>2, <1>3 DEF Changed, NoGhost
  <1> QED  BY <1>2, <1>3, <1>4, ChangeKeeps

LEMMA SpendType ==
    ASSUME IInv, NEW what \in Rare, Spend(what)
    PROVE  left' \in [Rare -> Nat]
  BY DEF IInv, TypeOK, Spend

LEMMA SyncKeeps ==
    ASSUME IInv, SyncOne \/ SyncBatch
    PROVE  IInv'
  <1>0. Rest /\ MaxEvents \in Nat  BY IInvParts, ConstantFacts
  <1>1. CASE SyncOne
    <2>1. /\ synced + 1 \in Events /\ AppendBack(Displayed(synced + 1)) /\ synced' = synced + 1
          /\ synced' \in 0..posted /\ opened \in 0..synced'
          /\ UNCHANGED <<posted, opened, oldest, pageEnd, sending, readable, doubled, left>>
      BY <1>0, <1>1 DEF SyncOne, Rest, Events
    <2>2. Displayed(synced + 1) \in Row /\ Displayed(synced + 1).id = synced + 1
      BY <2>1, RowFacts
    <2>3. evicted' \in SUBSET Events /\ lost' \in [Events -> Nat]
      BY <2>1, RowFacts, AppendBackEvicts
    <2>4. Rest'  BY <1>0, <2>1, <2>3 DEF Rest
    <2> QED  BY <2>1, <2>2, <2>4, AppendEventKeeps
  <1>2. CASE SyncBatch
    <2>1. PICK last \in synced + 2..posted :
             /\ synced' = last /\ AppendBackBatch(synced + 1..last)
             /\ UNCHANGED <<posted, opened, oldest, pageEnd, sending, readable, evicted, lost,
                            doubled, left>>
      BY <1>2 DEF SyncBatch
    <2>2. synced + 1..last \in SUBSET Events  BY <1>0 DEF Rest, Events
    <2>3. last \in 0..posted /\ opened \in 0..last  BY <1>0 DEF Rest
    <2>4. Rest'  BY <1>0, <2>1, <2>3 DEF Rest
    <2> QED  BY <2>1, <2>2, <2>4, InsertKeeps
  <1> QED  BY <1>1, <1>2

LEMMA ScrollKeeps ==
    ASSUME IInv, ScrollBack \/ ScrollAgain
    PROVE  IInv'
  <1>0. Rest /\ MaxEvents \in Nat /\ Page \in Nat \ {0}  BY IInvParts, ConstantFacts
  <1>1. CASE ScrollBack
    <2>1. /\ oldest' \in 1..MaxEvents + 1 /\ pageEnd' \in 0..MaxEvents
          /\ AppendFront(oldest'..pageEnd')
          /\ UNCHANGED <<posted, synced, opened, sending, readable, evicted, lost, doubled, left>>
      BY <1>0, <1>1 DEF ScrollBack, Rest
    <2>2. oldest'..pageEnd' \in SUBSET Events  BY <1>0, <2>1 DEF Events
    <2>3. Rest'  BY <1>0, <2>1 DEF Rest
    <2> QED  BY <2>1, <2>2, <2>3, InsertKeeps
  <1>2. CASE ScrollAgain
    <2>1. /\ AppendFront(oldest..pageEnd) /\ left' \in [Rare -> Nat]
          /\ UNCHANGED <<posted, synced, opened, oldest, pageEnd, sending, readable, evicted, lost,
                         doubled>>
      BY <1>2, SpendType DEF ScrollAgain, Rare
    <2>2. oldest..pageEnd \in SUBSET Events  BY <1>0 DEF Rest, Events
    <2>3. Rest'  BY <1>0, <2>1 DEF Rest
    <2> QED  BY <2>1, <2>2, <2>3, InsertKeeps
  <1> QED  BY <1>1, <1>2

LEMMA SendKeeps ==
    ASSUME IInv, NEW n \in Events, Send(n)
    PROVE  IInv'
  <1>1. /\ n \in Own /\ n \notin sending /\ AppendBack(Echo(n))
        /\ sending' = sending \cup {n}
        /\ UNCHANGED <<posted, synced, opened, oldest, pageEnd, readable, doubled, left>>
    BY DEF Send
  <1>2. RowsGood /\ NoGhost /\ Rest  BY IInvParts
  <1>3. /\ Echo(n) \in Row /\ Echo(n).id = -n /\ -n \in Ids \ {NoId} /\ -n < 0 /\ -n \notin Events
        /\ -(-n) = n
    <2>1. n \in Int /\ -n < 0 /\ -n \in Ids \ {NoId} /\ \A x \in Events : x > 0
      BY ConstantFacts
    <2>2. Echo(n) \in Row /\ Echo(n).id = -n  BY RowFacts
    <2>3. -n \notin Events
      <3> SUFFICES ASSUME -n \in Events PROVE FALSE  OBVIOUS
      <3>1. -n > 0  BY <2>1
      <3> QED  BY <2>1, <3>1
    <2>4. -(-n) = n  BY <2>1
    <2> QED  BY <2>1, <2>2, <2>3, <2>4
  <1>4. -n \notin Shown  BY <1>1, <1>2, <1>3 DEF NoGhost
  <1>5. evicted' \in SUBSET Events /\ lost' \in [Events -> Nat]  BY <1>1, RowFacts, AppendBackEvicts
  <1>6. Rest'  BY <1>1, <1>2, <1>5 DEF Rest
  <1>7. CASE UNCHANGED <<rows, evicted, lost>>
    <2>1. events' = events /\ rowIndex' = rowIndex /\ seenIds' = seenIds  BY <1>7 DEF rows
    <2>2. Changed({}, {})  BY <1>2, <2>1 DEF Changed, RowsGood, Shown
    <2>3. seenIds' \cap Events = ((seenIds \cup {}) \ {}) \cap Events  BY <2>1
    <2>4. \A x \in Shown' : x < 0 => -x \in sending'
      BY <1>1, <1>2, <2>1 DEF NoGhost, Shown
    <2> QED  BY <1>6, <2>1, <2>2, <2>3, <2>4, ChangeKeeps
  <1>8. CASE AppendRow(Echo(n))
    <2>1. {Echo(n).id} \ {NoId} = {-n}  BY <1>3
    <2>2. PICK out : Changed({-n}, out) /\ seenIds' = (seenIds \cup {-n}) \ out
      BY <1>2, <1>3, <1>4, <1>8, <2>1, AppendRowChange
    <2>3. \A x \in Shown' : x < 0 => -x \in sending'
      BY <1>1, <1>2, <1>3, <2>2 DEF Changed, NoGhost
    <2> QED  BY <1>3, <1>6, <2>2, <2>3, ChangeKeeps
  <1> QED  BY <1>1, <1>7, <1>8 DEF AppendBack

LEMMA SentKeeps ==
    ASSUME IInv, NEW n \in Events, Sent(n)
    PROVE  IInv'
  <1>1. /\ ReplaceEcho(n) /\ sending' = sending \ {n}
        /\ UNCHANGED <<posted, synced, opened, oldest, pageEnd, readable, left>>
    BY DEF Sent
  <1>2. RowsGood /\ NoGhost /\ Rest  BY IInvParts
  <1>3. Shown \cap Events = seenIds \cap Events /\ doubled \in Nat
    BY <1>2, SeenShown DEF Rest
  <1>4. PICK in, out :
              /\ in \in {{}, {n}}
              /\ Changed(in, out)
              /\ seenIds' \subseteq seenIds \cup in
              /\ seenIds' \cap Events = ((seenIds \cup in) \ out) \cap Events
              /\ -n \notin Shown' /\ doubled' \in Nat
              /\ evicted' = evicted \/ evicted' = evicted \cup (out \cap Events)
    BY <1>1, <1>2, <1>3, ReplaceEchoChange
  <1>5. Rest'  BY <1>1, <1>2, <1>4, ReplaceEchoEvicts DEF Rest
  <1>6. in \in SUBSET (Ids \ {NoId}) /\ \A x \in in : ~(x < 0)
    <2>1. in \in {{}, {n}}  BY <1>4
    <2> QED  BY <2>1, ConstantFacts
  <1>7. \A x \in Shown' : x < 0 => -x \in sending'
    <2> SUFFICES ASSUME NEW x \in Shown', x < 0 PROVE -x \in sending'  OBVIOUS
    <2>1. x \in Shown /\ x \in Int
      BY <1>4, <1>6, IInvParts, ConstantFacts DEF Changed
    <2>2. -x \in sending  BY <1>2, <2>1 DEF NoGhost
    <2>3. -x # n  BY <1>4, <2>1
    <2> QED  BY <1>1, <2>2, <2>3
  <1> QED  BY <1>4, <1>5, <1>6, <1>7, ChangeKeeps

\* A row once its key is there.
Unlocked(w, x) == [w EXCEPT !.reply = x, !.count = 0]

LEMMA KeyRow ==
    ASSUME NEW w \in Row, NEW x \in 0..MaxEvents
    PROVE  /\ Unlocked(w, x) \in Row /\ Unlocked(w, x).id = w.id
           /\ Unlocked(w, x).reply = x /\ Unlocked(w, x).count = 0
  BY DEF Row, Unlocked

LEMMA KeyKeeps ==
    ASSUME IInv, NEW n \in Events, KeyArrives(n)
    PROVE  IInv'
  <1>1. /\ n \in Late /\ readable' = readable \cup {n}
        /\ UNCHANGED <<seenIds, rowIndex, posted, synced, opened, oldest, pageEnd, sending,
                       evicted, lost, doubled, left>>
        /\ IF n \in DOMAIN rowIndex
           THEN events' = [events EXCEPT ![rowIndex[n]] =
                              [@ EXCEPT !.reply = Root[n], !.count = 0]]
           ELSE UNCHANGED events
    BY DEF KeyArrives
  <1>2. RowsGood /\ NoGhost /\ Rest  BY IInvParts
  <1>3. Rest'  BY <1>1, <1>2 DEF Rest
  <1>4. Root[n] \in 0..MaxEvents  BY ConstantFacts
  <1>5. /\ events' \in Seq(Row) /\ DOMAIN events' = DOMAIN events
        /\ \A i \in DOMAIN events : events'[i].id = events[i].id
    <2>1. CASE n \in DOMAIN rowIndex
      <3>1. PICK i \in DOMAIN events : events[i].id = n /\ n # NoId
        BY <1>2, <2>1 DEF RowsGood, Exact, ShownIds
      <3>2. rowIndex[n] = i  BY <1>2, <3>1 DEF RowsGood, Exact
      <3>3. events' = [events EXCEPT ![i] = Unlocked(events[i], Root[n])]
        BY <1>1, <2>1, <3>2 DEF Unlocked
      <3>4. events \in Seq(Row) /\ events[i] \in Row  BY <1>2 DEF RowsGood
      <3>5. PICK w \in Row : w = Unlocked(events[i], Root[n]) /\ w.id = events[i].id
        BY <1>4, <3>4, KeyRow
      <3>6. events' = [events EXCEPT ![i] = w]  BY <3>3, <3>5
      <3> QED  BY <3>4, <3>5, <3>6
    <2>2. CASE n \notin DOMAIN rowIndex  BY <1>1, <1>2, <2>2 DEF RowsGood
    <2> QED  BY <2>1, <2>2
  <1>6. Shown' = Shown  BY <1>5 DEF Shown, ShownIds
  <1>7. Exact(events', rowIndex')
    BY <1>1, <1>2, <1>5, <1>6 DEF RowsGood, Exact, Shown
  <1>8. Changed({}, {})  BY <1>5, <1>6, <1>7 DEF Changed
  <1>9. seenIds' \cap Events = ((seenIds \cup {}) \ {}) \cap Events  BY <1>1
  <1>10. \A x \in Shown' : x < 0 => -x \in sending'  BY <1>1, <1>2, <1>6 DEF NoGhost
  <1> QED  BY <1>1, <1>3, <1>8, <1>9, <1>10, ChangeKeeps

LEMMA NextIInv == IInv /\ [Next]_vars => IInv'
  <1> SUFFICES ASSUME IInv, [Next]_vars PROVE IInv'  OBVIOUS
  <1>0. RowsGood /\ NoGhost /\ Rest /\ SeenExact /\ MaxEvents \in Nat
    BY IInvParts, ConstantFacts
  <1>1. CASE Post
    <2>1. UNCHANGED <<rows, synced, opened, oldest, pageEnd, sending, readable, evicted, lost,
                      doubled, left>>
      BY <1>1 DEF Post
    <2>2. posted' \in 0..MaxEvents /\ synced \in 0..posted'  BY <1>0, <1>1 DEF Post, Rest
    <2> QED  BY <2>1, <2>2 DEF IInv, TypeOK, IndexExact, SeenExact, NoGhost, Shown, rows
  <1>2. CASE SyncOne \/ SyncBatch  BY <1>2, SyncKeeps
  <1>3. CASE ScrollBack \/ ScrollAgain  BY <1>3, ScrollKeeps
  <1>4. CASE AddDivider
    <2>1. /\ AppendBack(Divider) /\ left' \in [Rare -> Nat]
          /\ UNCHANGED <<posted, synced, opened, oldest, pageEnd, sending, readable, doubled>>
      BY <1>4, SpendType DEF AddDivider, Rare
    <2>2. evicted' \in SUBSET Events /\ lost' \in [Events -> Nat]
      BY <2>1, RowFacts, AppendBackEvicts
    <2>3. Rest'  BY <1>0, <2>1, <2>2 DEF Rest
    <2> QED  BY <2>1, <2>3, RowFacts, AppendEventKeeps
  <1>5. CASE Clear
    <2>1. /\ events' = <<>> /\ seenIds' = {} /\ rowIndex' = << >>
          /\ opened' = synced /\ oldest' = synced + 1 /\ pageEnd' = synced
          /\ evicted' = {} /\ lost' = [x \in Events |-> 0] /\ doubled' = 0
          /\ left' \in [Rare -> Nat]
          /\ UNCHANGED <<posted, synced, sending, readable>>
      BY <1>5, SpendType DEF Clear, Rare
    <2>2. synced \in 0..synced /\ synced + 1 \in 1..MaxEvents + 1 /\ synced \in 0..MaxEvents
      BY <1>0 DEF Rest
    <2>3. Rest'  BY <1>0, <2>1, <2>2 DEF Rest
    <2>4. Shown' = {} /\ DOMAIN rowIndex' = {}  BY <2>1 DEF Shown, ShownIds
    <2>5. RowsGood'  BY <2>1, <2>4 DEF RowsGood, Exact, Shown
    <2>6. SeenExact' /\ NoGhost'  BY <2>1, <2>4 DEF SeenExact, NoGhost
    <2> QED  BY <2>3, <2>4, <2>5, <2>6, IInvPartsNext
  <1>6. ASSUME NEW n \in Events, Send(n) \/ Sent(n) \/ KeyArrives(n) PROVE IInv'
    BY <1>6, SendKeeps, SentKeeps, KeyKeeps
  <1>7. CASE UNCHANGED vars
    BY <1>7 DEF vars, rows, IInv, TypeOK, IndexExact, SeenExact, NoGhost, Shown
  <1> QED  BY <1>1, <1>2, <1>3, <1>4, <1>5, <1>6, <1>7 DEF Next

-----------------------------------------------------------------------------
(* Nothing that /sync delivered is lost. *)

\* What is on the screen or was dropped at the cap stays so.
Keeps ==
    /\ Shown \cap Events \subseteq Shown' \cup evicted'
    /\ evicted \subseteq evicted'

LEMMA AppendBackLoses ==
    ASSUME IInv, NEW e \in Row, e.id # NoId => e.id \in seenIds \/ e.id \notin Shown,
           AppendBack(e)
    PROVE  Keeps /\ (e.id \in Events => e.id \in Shown' \cup evicted')
  <1>1. RowsGood  BY IInvParts
  <1>2. CASE Duplicate(e) /\ UNCHANGED <<rows, evicted, lost>>
    <2>1. Shown' = Shown /\ evicted' = evicted  BY <1>2 DEF rows, Shown
    <2>2. e.id \in Events => e.id \in Shown  BY <1>2, SeenShown DEF Duplicate
    <2> QED  BY <2>1, <2>2 DEF Keeps
  <1>3. CASE ~Duplicate(e) /\ AppendRow(e)
    <2>1. e.id # NoId => e.id \notin Shown  BY <1>3 DEF Duplicate
    <2>2. PICK out : /\ Changed({e.id} \ {NoId}, out)
                     /\ evicted' = evicted \cup (out \cap Events)
      BY <1>1, <1>3, <2>1, AppendRowChange
    <2>3. e.id \in Events => e.id \in {e.id} \ {NoId}  BY ConstantFacts
    <2> QED  BY <2>2, <2>3 DEF Changed, Keeps
  <1> QED  BY <1>2, <1>3 DEF AppendBack

LEMMA InsertLoses ==
    ASSUME IInv, NEW S \in SUBSET Events, AppendBackBatch(S) \/ AppendFront(S),
           UNCHANGED evicted
    PROVE  Keeps /\ S \subseteq Shown'
  <1>1. RowsGood  BY IInvParts
  <1>2. PICK in \in SUBSET Events :
           Changed(in, {}) /\ seenIds' = seenIds \cup in /\ S \subseteq seenIds'
    BY <1>1, SeenShown, InsertChange
  <1>3. S \subseteq Shown'  BY <1>2, SeenShown DEF Changed
  <1> QED  BY <1>2, <1>3 DEF Keeps, Changed

LEMMA SentLoses ==
    ASSUME IInv, NEW n \in Events, Sent(n)
    PROVE  Keeps
  <1>1. RowsGood /\ Shown \cap Events = seenIds \cap Events /\ doubled \in Nat /\ ReplaceEcho(n)
    BY IInvParts, SeenShown DEF Rest, Sent
  <1> DEFINE e == Displayed(n)
  <1>2. e \in Row /\ e.id = n /\ (n # NoId => n \in seenIds \/ n \notin Shown)
    BY <1>1, RowFacts
  <1>3. CASE AppendBack(e)  BY <1>2, <1>3, AppendBackLoses
  <1>4. CASE UNCHANGED evicted /\ -n \in DOMAIN rowIndex
    <2>1. PICK in, out : /\ Changed(in, out)
                         /\ seenIds' \cap Events = ((seenIds \cup in) \ out) \cap Events
      BY <1>1, ReplaceEchoChange
    <2>2. seenIds \subseteq seenIds'  BY <1>1, <1>4 DEF ReplaceEcho
    <2>3. Shown \cap Events \subseteq Shown'  BY <1>1, <2>1, <2>2 DEF Changed
    <2> QED  BY <1>4, <2>3 DEF Keeps
  <1> QED  BY <1>1, <1>3, <1>4 DEF ReplaceEcho

LEMMA KeyLoses ==
    ASSUME IInv, NEW n \in Events, KeyArrives(n)
    PROVE  Keeps
  <1>1. IInv' /\ seenIds' = seenIds /\ evicted' = evicted
    <2>1. IInv'  BY KeyKeeps
    <2> QED  BY <2>1 DEF KeyArrives
  <1>2. Shown' \cap Events = seenIds' \cap Events
    BY <1>1, PositiveIds, IInvParts DEF IInv, TypeOK, SeenExact, IndexExact
  <1> QED  BY <1>1, <1>2, SeenShown DEF Keeps

LEMMA NextMissing == IInv /\ NothingMissing /\ [Next]_vars => NothingMissing'
  <1> SUFFICES ASSUME IInv, NothingMissing, [Next]_vars PROVE NothingMissing'
    OBVIOUS
  <1>0. Rest /\ MaxEvents \in Nat /\ Page \in Nat \ {0} /\ Shown \subseteq Ids \ {NoId}
    BY IInvParts, ConstantFacts
  <1>1. (opened + 1)..synced \subseteq Events  BY <1>0 DEF Rest, Events
  <1>2. ASSUME Keeps, UNCHANGED <<opened, synced>> PROVE NothingMissing'
    BY <1>1, <1>2 DEF Keeps, NothingMissing
  <1>3. CASE Post \/ UNCHANGED vars
    BY <1>3 DEF Post, vars, rows, NothingMissing, Shown
  <1>4. CASE SyncOne
    <2>1. /\ synced + 1 \in Events /\ AppendBack(Displayed(synced + 1)) /\ synced' = synced + 1
          /\ opened' = opened
      BY <1>0, <1>4 DEF SyncOne, Rest, Events
    <2>2. /\ Displayed(synced + 1) \in Row /\ Displayed(synced + 1).id = synced + 1
          /\ (synced + 1 \in Shown => synced + 1 \in seenIds)
      BY <2>1, RowFacts, SeenShown
    <2>3. Keeps /\ synced + 1 \in Shown' \cup evicted'  BY <2>1, <2>2, AppendBackLoses
    <2>4. (opened + 1)..(synced + 1) \subseteq ((opened + 1)..synced) \cup {synced + 1}
      BY <1>0 DEF Rest
    <2> QED  BY <1>1, <2>1, <2>3, <2>4 DEF Keeps, NothingMissing
  <1>5. CASE SyncBatch
    <2>1. PICK last \in synced + 2..posted :
             /\ synced' = last /\ AppendBackBatch(synced + 1..last)
             /\ UNCHANGED <<opened, evicted>>
      BY <1>5 DEF SyncBatch
    <2>2. synced + 1..last \in SUBSET Events  BY <1>0 DEF Rest, Events
    <2>3. Keeps /\ synced + 1..last \subseteq Shown'  BY <2>1, <2>2, InsertLoses
    <2>4. (opened + 1)..last \subseteq ((opened + 1)..synced) \cup (synced + 1..last)
      BY <1>0 DEF Rest
    <2> QED  BY <1>1, <2>1, <2>3, <2>4 DEF Keeps, NothingMissing
  <1>6. CASE ScrollBack
    <2>1. /\ oldest' \in 1..MaxEvents + 1 /\ pageEnd' \in 0..MaxEvents
          /\ AppendFront(oldest'..pageEnd')
          /\ UNCHANGED <<synced, opened, evicted>>
      BY <1>0, <1>6 DEF ScrollBack, Rest
    <2>2. oldest'..pageEnd' \in SUBSET Events  BY <1>0, <2>1 DEF Events
    <2> QED  BY <1>2, <2>1, <2>2, InsertLoses
  <1>7. CASE ScrollAgain
    <2>1. AppendFront(oldest..pageEnd) /\ UNCHANGED <<synced, opened, evicted>>
      BY <1>7 DEF ScrollAgain
    <2>2. oldest..pageEnd \in SUBSET Events  BY <1>0 DEF Rest, Events
    <2> QED  BY <1>2, <2>1, <2>2, InsertLoses
  <1>8. CASE AddDivider
    <2>1. AppendBack(Divider) /\ UNCHANGED <<synced, opened>>  BY <1>8 DEF AddDivider
    <2> QED  BY <1>2, <2>1, RowFacts, AppendBackLoses
  <1>9. CASE Clear
    <2>1. opened' = synced /\ synced' = synced  BY <1>9 DEF Clear
    <2>2. (synced + 1)..synced = {}  BY <1>0 DEF Rest
    <2> QED  BY <2>1, <2>2 DEF NothingMissing
  <1>10. ASSUME NEW n \in Events, Send(n) PROVE NothingMissing'
    <2>1. AppendBack(Echo(n)) /\ n \notin sending /\ UNCHANGED <<synced, opened>>
      BY <1>10 DEF Send
    <2>2. Echo(n) \in Row /\ Echo(n).id = -n /\ -n < 0 /\ -(-n) = n
      BY RowFacts, ConstantFacts
    <2>3. -n \notin Shown  BY <2>1, <2>2, IInvParts DEF NoGhost
    <2> QED  BY <1>2, <2>1, <2>2, <2>3, AppendBackLoses
  <1>11. ASSUME NEW n \in Events, Sent(n) \/ KeyArrives(n) PROVE NothingMissing'
    <2>1. Keeps  BY <1>11, SentLoses, KeyLoses
    <2>2. UNCHANGED <<opened, synced>>  BY <1>11 DEF Sent, KeyArrives
    <2> QED  BY <1>2, <2>1, <2>2
  <1> QED  BY <1>3, <1>4, <1>5, <1>6, <1>7, <1>8, <1>9, <1>10, <1>11 DEF Next

-----------------------------------------------------------------------------
(* Reply counts. *)

\* The rows of s that reply to x, and how many they are.
InReply(s, x) == {i \in DOMAIN s : s[i].reply = x}
Count(s, x) == Cardinality(InReply(s, x))

\* An echo says what its event will say; an event whose key has not come
\* (late) replies to nothing.
KnownRow(w, late) ==
    /\ w.id \in late => w.reply = 0
    /\ w.id < 0 => w.reply = Root[-w.id]

\* What is known of the replies of the rows s, and the bound on their counts
\* where d echoes were removed and l[x] replies to x were dropped.
Known(s, late) == \A i \in DOMAIN s : KnownRow(s[i], late)
Bounded(s, d, l) ==
    \A i \in DOMAIN s : s[i].id > 0 => s[i].count <= Count(s, s[i].id) + d + l[s[i].id]

LEMMA RowIds == \A w \in Row : /\ w.id \in Int /\ w.count \in Nat /\ w.reply \in 0..MaxEvents
                               /\ w.id > 0 <=> w.id \in Events
  BY PositiveIds, ConstantFacts DEF Row

LEMMA CountType ==
    ASSUME NEW s \in Seq(Row), NEW x
    PROVE  IsFiniteSet(InReply(s, x)) /\ Count(s, x) \in Nat
  <1>1. DOMAIN s = 1..Len(s) /\ Len(s) \in Nat  OBVIOUS
  <1>2. IsFiniteSet(1..Len(s)) /\ InReply(s, x) \in SUBSET (1..Len(s))
    BY <1>1, FS_Interval DEF InReply
  <1> QED  BY <1>2, FS_Subset, FS_CardinalityType DEF Count

LEMMA SameRows ==
    ASSUME NEW s \in Seq(Row), NEW t \in Seq(Row), Len(s) = Len(t),
           \A i \in 1..Len(t) : s[i] = t[i]
    PROVE  s = t
  OBVIOUS

LEMMA JoinedAt ==
    ASSUME NEW s \in Seq(Row), NEW t \in Seq(Row)
    PROVE  /\ s \o t \in Seq(Row) /\ Len(s \o t) = Len(s) + Len(t)
           /\ Len(s) \in Nat /\ Len(t) \in Nat
           /\ \A i \in 1..Len(s) : (s \o t)[i] = s[i]
           /\ \A i \in 1..Len(t) : (s \o t)[Len(s) + i] = t[i]
  OBVIOUS

\* The replies of two parts add up.
LEMMA CountJoined ==
    ASSUME NEW s \in Seq(Row), NEW t \in Seq(Row), NEW x
    PROVE  Count(s \o t, x) = Count(s, x) + Count(t, x)
  <1> DEFINE u == s \o t
             n == Len(s)
             A == InReply(s, x)
             B == InReply(t, x)
             C == {n + k : k \in B}
             f == [k \in B |-> n + k]
  <1>1. /\ DOMAIN u = 1..(n + Len(t)) /\ n \in Nat /\ Len(t) \in Nat
        /\ DOMAIN s = 1..n /\ DOMAIN t = 1..Len(t)
        /\ \A i \in 1..n : u[i] = s[i]
        /\ \A i \in 1..Len(t) : u[n + i] = t[i]
    OBVIOUS
  <1> HIDE DEF u, n
  <1>2. A \subseteq 1..n /\ B \subseteq 1..Len(t)  BY <1>1 DEF InReply
  <1>3. InReply(u, x) = A \cup C
    <2>1. InReply(u, x) \subseteq A \cup C
      <3> SUFFICES ASSUME NEW k \in DOMAIN u, u[k].reply = x PROVE k \in A \cup C
        BY DEF InReply
      <3>1. CASE k <= n  BY <1>1, <3>1 DEF InReply
      <3>2. CASE k > n
        <4>1. k - n \in DOMAIN t /\ n + (k - n) = k  BY <1>1, <3>2
        <4>2. k - n \in B  BY <1>1, <4>1 DEF InReply
        <4> QED  BY <4>1, <4>2
      <3> QED  BY <1>1, <3>1, <3>2
    <2>2. A \subseteq InReply(u, x)  BY <1>1, <1>2 DEF InReply
    <2>3. C \subseteq InReply(u, x)
      <3> SUFFICES ASSUME NEW k \in B PROVE n + k \in InReply(u, x)  OBVIOUS
      <3>1. k \in 1..Len(t) /\ t[k].reply = x  BY <1>1 DEF InReply
      <3>2. n + k \in DOMAIN u /\ u[n + k] = t[k]  BY <1>1, <3>1
      <3> QED  BY <3>1, <3>2 DEF InReply
    <2> QED  BY <2>1, <2>2, <2>3
  <1>4. IsFiniteSet(A) /\ IsFiniteSet(B) /\ Cardinality(A) \in Nat /\ Cardinality(B) \in Nat
    BY CountType DEF Count
  <1>5. IsFiniteSet(C) /\ Cardinality(C) = Cardinality(B)
    <2>1. \A i, j \in B : n + i = n + j => i = j  BY <1>1, <1>2
    <2> HIDE DEF B
    <2>2. f \in Bijection(B, C)
      BY <2>1 DEF Bijection, Injection, IsInjective, Surjection
    <2> QED  BY <1>4, <2>2, FS_Bijection DEF ExistsBijection
  <1>6. A \cap C = {}  BY <1>1, <1>2
  <1> HIDE DEF A, B, C
  <1>7. Cardinality(A \cup C) = Cardinality(A) + Cardinality(C) - Cardinality(A \cap C)
    BY <1>4, <1>5, FS_Union
  <1>8. Cardinality(A \cap C) = 0  BY <1>6, FS_EmptySet
  <1>9. Cardinality(A \cup C) = Cardinality(A) + Cardinality(B)  BY <1>4, <1>5, <1>7, <1>8
  <1> QED  BY <1>3, <1>9 DEF Count, u, A, B

LEMMA CountOne ==
    ASSUME NEW e \in Row, NEW x
    PROVE  /\ e.reply = x => Count(<<e>>, x) = 1
           /\ e.reply # x => Count(<<e>>, x) = 0
  <1>1. DOMAIN <<e>> = {1} /\ <<e>>[1] = e  OBVIOUS
  <1>2. e.reply = x => InReply(<<e>>, x) = {1}  BY <1>1 DEF InReply
  <1>3. e.reply # x => InReply(<<e>>, x) = {}  BY <1>1 DEF InReply
  <1> QED  BY <1>2, <1>3, FS_Singleton, FS_EmptySet DEF Count

\* What the counting of the replies r adds to the rows s.
LEMMA CountedCounts ==
    ASSUME NEW s \in Seq(Row), NEW ix, NEW r \in Seq(Row)
    PROVE  LET c == Counted(s, ix, r)
           IN  /\ c \in Seq(Row) /\ DOMAIN c = DOMAIN s
               /\ \A i \in DOMAIN s : /\ c[i].id = s[i].id /\ c[i].reply = s[i].reply
                                      /\ c[i].count <= s[i].count + Count(r, s[i].id)
               /\ \A x : Count(c, x) = Count(s, x)
  <1> DEFINE c == Counted(s, ix, r)
             n(i) == Cardinality({k \in DOMAIN r : r[k].reply # 0 /\ r[k].reply = s[i].id})
  <1>1. c \in Seq(Row) /\ DOMAIN c = DOMAIN s  BY CountedRows
  <1>2. ASSUME NEW i \in DOMAIN s
        PROVE  /\ c[i].id = s[i].id /\ c[i].reply = s[i].reply
               /\ c[i].count <= s[i].count + Count(r, s[i].id)
    <2>1. s[i] \in Row /\ s[i].count \in Nat  BY RowIds
    <2>2. c[i] = s[i] \/ c[i] = [s[i] EXCEPT !.count = @ + n(i)]  BY DEF Counted
    <2>3. n(i) \in Nat /\ n(i) <= Count(r, s[i].id)
      <3>1. {k \in DOMAIN r : r[k].reply # 0 /\ r[k].reply = s[i].id} \in SUBSET InReply(r, s[i].id)
        BY DEF InReply
      <3> QED  BY <3>1, CountType, FS_Subset, FS_CardinalityType DEF Count
    <2>4. Count(r, s[i].id) \in Nat  BY CountType
    <2> HIDE DEF c, n
    <2>5. CASE c[i] = s[i]  BY <2>1, <2>4, <2>5
    <2>6. CASE c[i] = [s[i] EXCEPT !.count = @ + n(i)]
      <3>1. c[i].id = s[i].id /\ c[i].reply = s[i].reply /\ c[i].count = s[i].count + n(i)
        BY <2>1, <2>6 DEF Row
      <3> QED  BY <2>1, <2>3, <2>4, <3>1
    <2> QED  BY <2>2, <2>5, <2>6
  <1> HIDE DEF c
  <1>3. \A x : InReply(c, x) = InReply(s, x)  BY <1>1, <1>2 DEF InReply
  <1>4. \A x : Count(c, x) = Count(s, x)  BY <1>3 DEF Count
  <1> QED  BY <1>1, <1>2, <1>4 DEF c

\* Where the rows of two parts come from.
LEMMA JoinedFrom ==
    ASSUME NEW s \in Seq(Row), NEW t \in Seq(Row)
    PROVE  \A i \in DOMAIN (s \o t) : \/ \E j \in DOMAIN s : (s \o t)[i] = s[j]
                                      \/ \E j \in DOMAIN t : (s \o t)[i] = t[j]
  <1> DEFINE u == s \o t
  <1>1. /\ DOMAIN u = 1..(Len(s) + Len(t)) /\ Len(s) \in Nat /\ Len(t) \in Nat
        /\ DOMAIN s = 1..Len(s) /\ DOMAIN t = 1..Len(t)
        /\ \A i \in 1..Len(s) : u[i] = s[i]
        /\ \A i \in 1..Len(t) : u[Len(s) + i] = t[i]
    OBVIOUS
  <1> HIDE DEF u
  <1>2. ASSUME NEW i \in DOMAIN u
        PROVE  (\E j \in DOMAIN s : u[i] = s[j]) \/ (\E j \in DOMAIN t : u[i] = t[j])
    <2>1. CASE i <= Len(s)  BY <1>1, <2>1
    <2>2. CASE i > Len(s)
      <3>1. i - Len(s) \in DOMAIN t /\ Len(s) + (i - Len(s)) = i  BY <1>1, <2>2
      <3> QED  BY <1>1, <3>1
    <2> QED  BY <1>1, <2>1, <2>2
  <1> QED  BY <1>2 DEF u

LEMMA Further ==
    ASSUME NEW a \in Nat, NEW b \in Nat, NEW p \in Nat, NEW q \in Nat, a <= b + p
    PROVE  /\ p <= q => a <= b + q
           /\ \A d, l \in Nat : b <= q + d + l => a <= q + p + d + l
  OBVIOUS

LEMMA Slack ==
    ASSUME NEW n \in Nat, NEW p \in Nat, NEW d \in Nat, NEW l \in Nat
    PROVE  /\ n <= p + d + l => n <= p + (d + 1) + l
           /\ n <= (p + 1) + d + l => n <= p + (d + 1) + l
           /\ \A q \in Nat : p <= q /\ n <= p + d + l => n <= q + d + l
  OBVIOUS

LEMMA Moved ==
    ASSUME NEW n \in Nat, NEW a \in Nat, NEW b \in Nat, NEW d \in Nat, NEW l \in Nat,
           n <= a + b + d + l
    PROVE  n <= b + d + (l + a)
  OBVIOUS

\* Rows that replies join keep the bound when those replies are counted.
LEMMA GrownBounded ==
    ASSUME NEW s \in Seq(Row), NEW t \in Seq(Row), NEW u \in Seq(Row),
           u = s \o t \/ u = t \o s,
           NEW r \in Seq(Row), \A x : Count(r, x) <= Count(t, x), NEW ix,
           \A k \in DOMAIN t : t[k].count = 0,
           NEW d \in Nat, NEW l \in [Events -> Nat], Bounded(s, d, l),
           NEW late, Known(s, late), Known(t, late)
    PROVE  Bounded(Counted(u, ix, r), d, l) /\ Known(Counted(u, ix, r), late)
  <1> DEFINE c == Counted(u, ix, r)
  <1>1. /\ DOMAIN c = DOMAIN u /\ c \in Seq(Row)
        /\ \A i \in DOMAIN u : /\ c[i].id = u[i].id /\ c[i].reply = u[i].reply
                               /\ c[i].count <= u[i].count + Count(r, u[i].id)
        /\ \A x : Count(c, x) = Count(u, x)
    BY CountedCounts
  <1> HIDE DEF c
  <1>2. \A x : /\ Count(s, x) \in Nat /\ Count(t, x) \in Nat /\ Count(r, x) \in Nat
               /\ Count(u, x) = Count(s, x) + Count(t, x)
    <2> TAKE x
    <2>1. Count(s, x) \in Nat /\ Count(t, x) \in Nat /\ Count(r, x) \in Nat  BY CountType
    <2>2. CASE u = s \o t  BY <2>1, <2>2, CountJoined
    <2>3. CASE u = t \o s
      <3>1. Count(u, x) = Count(t, x) + Count(s, x)  BY <2>3, CountJoined
      <3> QED  BY <2>1, <3>1
    <2> QED  BY <2>1, <2>2, <2>3
  <1>3. \A i \in DOMAIN u : \/ \E j \in DOMAIN s : u[i] = s[j]
                            \/ \E j \in DOMAIN t : u[i] = t[j]
    <2>1. CASE u = s \o t
      <3>1. \A i \in DOMAIN (s \o t) : \/ \E j \in DOMAIN s : (s \o t)[i] = s[j]
                                       \/ \E j \in DOMAIN t : (s \o t)[i] = t[j]
        BY JoinedFrom
      <3> QED  BY <2>1, <3>1
    <2>2. CASE u = t \o s
      <3>1. \A i \in DOMAIN (t \o s) : \/ \E j \in DOMAIN t : (t \o s)[i] = t[j]
                                       \/ \E j \in DOMAIN s : (t \o s)[i] = s[j]
        BY JoinedFrom
      <3> QED  BY <2>2, <3>1
    <2> QED  BY <2>1, <2>2
  <1>4. Known(c, late)
    <2>1. \A i \in DOMAIN u : KnownRow(u[i], late)  BY <1>3 DEF Known
    <2> QED  BY <1>1, <2>1 DEF Known, KnownRow
  <1>5. Bounded(c, d, l)
    <2> SUFFICES ASSUME NEW i \in DOMAIN u, u[i].id > 0
                 PROVE  c[i].count <= Count(c, u[i].id) + d + l[u[i].id]
      BY <1>1 DEF Bounded
    <2>0. u[i] \in Row  OBVIOUS
    <2> DEFINE x == u[i].id
    <2>1. x \in Events /\ u[i].count \in Nat  BY <2>0, RowIds
    <2>2. l[x] \in Nat  BY <2>1
    <2>3. u[i].count <= Count(s, x) + d + l[x]
      <3>1. CASE \E j \in DOMAIN s : u[i] = s[j]
        <4>1. PICK j \in DOMAIN s : u[i] = s[j]  BY <3>1
        <4>2. s[j].id = x /\ x > 0 /\ s[j].count = u[i].count  BY <4>1
        <4>3. s[j].count <= Count(s, x) + d + l[x]  BY <4>2 DEF Bounded
        <4> QED  BY <4>2, <4>3
      <3>2. CASE \E j \in DOMAIN t : u[i] = t[j]
        <4>1. u[i].count = 0  BY <3>2
        <4> QED  BY <1>2, <2>2, <4>1
      <3> QED  BY <1>3, <3>1, <3>2
    <2>4. /\ c[i].count <= u[i].count + Count(r, x) /\ Count(r, x) <= Count(t, x)
          /\ Count(c, x) = Count(s, x) + Count(t, x)
      BY <1>1, <1>2
    <2>5. c[i].count \in Nat
      <3>1. c[i] \in Row  BY <1>1
      <3> QED  BY <3>1, RowIds
    <2> HIDE DEF x
    <2>6. Count(s, x) \in Nat /\ Count(t, x) \in Nat /\ Count(r, x) \in Nat  BY <1>2
    <2>7. c[i].count <= Count(s, x) + Count(t, x) + d + l[x]
      <3>1. c[i].count <= u[i].count + Count(t, x)
        BY <2>1, <2>4, <2>5, <2>6, Further
      <3> QED  BY <2>1, <2>2, <2>3, <2>5, <2>6, <3>1, Further
    <2> QED  BY <2>4, <2>7 DEF x
  <1> QED  BY <1>4, <1>5 DEF c

\* The rows that stay after the first g have left, whose replies go to m.
LEMMA SplitCounts ==
    ASSUME NEW s \in Seq(Row), NEW g \in 0..Len(s)
    PROVE  LET a == SubSeq(s, 1, g)
               b == SubSeq(s, g + 1, Len(s))
           IN  /\ a \in Seq(Row) /\ b \in Seq(Row)
               /\ DOMAIN a = 1..g /\ \A i \in 1..g : a[i] = s[i]
               /\ \A i \in DOMAIN b : \E j \in DOMAIN s : b[i] = s[j]
               /\ \A x : Count(s, x) = Count(a, x) + Count(b, x)
  <1> DEFINE a == SubSeq(s, 1, g)
             b == SubSeq(s, g + 1, Len(s))
  <1>0. g \in Nat /\ g <= Len(s) /\ Len(s) \in Nat /\ DOMAIN s = 1..Len(s)  OBVIOUS
  <1>1. a \in Seq(Row) /\ Len(a) = g /\ DOMAIN a = 1..g /\ \A i \in 1..g : a[i] = s[i]
    BY <1>0
  <1>2. /\ b \in Seq(Row) /\ Len(b) = Len(s) - g /\ DOMAIN b = 1..(Len(s) - g)
        /\ \A i \in 1..(Len(s) - g) : g + i \in DOMAIN s /\ b[i] = s[g + i]
    <2>1. /\ b \in Seq(Row) /\ Len(b) = Len(s) - g /\ DOMAIN b = 1..(Len(s) - g)
          /\ \A i \in 1..(Len(s) - g) : b[i] = s[g + i]
      BY <1>0
    <2>2. \A i \in 1..(Len(s) - g) : g + i \in DOMAIN s  BY <1>0
    <2> QED  BY <2>1, <2>2
  <1> HIDE DEF a, b
  <1>3. a \o b = s
    <2>0. /\ a \o b \in Seq(Row) /\ Len(a \o b) = Len(a) + Len(b)
          /\ \A i \in 1..g : (a \o b)[i] = a[i]
          /\ \A i \in 1..(Len(s) - g) : (a \o b)[g + i] = b[i]
      BY <1>1, <1>2, JoinedAt
    <2>1. Len(a \o b) = Len(s)  BY <1>0, <1>1, <1>2, <2>0
    <2>2. ASSUME NEW k \in 1..Len(s) PROVE (a \o b)[k] = s[k]
      <3>1. CASE k <= g  BY <1>0, <1>1, <2>0, <3>1
      <3>2. CASE k > g
        <4>1. k - g \in 1..(Len(s) - g) /\ k = g + (k - g)  BY <1>0, <3>2
        <4>2. PICK i \in 1..(Len(s) - g) : k = g + i  BY <4>1
        <4> QED  BY <1>2, <2>0, <4>2
      <3>3. k <= g \/ k > g  BY <1>0
      <3> QED  BY <3>1, <3>2, <3>3
    <2> QED  BY <2>0, <2>1, <2>2, SameRows
  <1>4. \A x : Count(s, x) = Count(a, x) + Count(b, x)  BY <1>1, <1>2, <1>3, CountJoined
  <1> QED  BY <1>1, <1>2, <1>4 DEF a, b

\* How many replies to x are among the first g rows.
Gone(s, g, x) == Cardinality({i \in 1..g : s[i].reply = x})

LEMMA EvictedBounded ==
    ASSUME NEW s \in Seq(Row), NEW g \in 0..Len(s), NEW d \in Nat,
           NEW l \in [Events -> Nat], NEW m \in [Events -> Nat],
           \A x \in Events : m[x] = l[x] + Gone(s, g, x),
           Bounded(s, d, l), NEW late, Known(s, late)
    PROVE  /\ Bounded(SubSeq(s, g + 1, Len(s)), d, m)
           /\ Known(SubSeq(s, g + 1, Len(s)), late)
  <1> DEFINE a == SubSeq(s, 1, g)
             b == SubSeq(s, g + 1, Len(s))
  <1>2. /\ a \in Seq(Row) /\ b \in Seq(Row)
        /\ DOMAIN a = 1..g /\ \A i \in 1..g : a[i] = s[i]
        /\ \A i \in DOMAIN b : \E j \in DOMAIN s : b[i] = s[j]
        /\ \A x : Count(s, x) = Count(a, x) + Count(b, x)
    BY SplitCounts
  <1> HIDE DEF a, b
  <1>3. Known(b, late)  BY <1>2 DEF Known
  <1>4. Bounded(b, d, m)
    <2> SUFFICES ASSUME NEW i \in DOMAIN b, b[i].id > 0
                 PROVE  b[i].count <= Count(b, b[i].id) + d + m[b[i].id]
      BY DEF Bounded
    <2>1. PICK j \in DOMAIN s : b[i] = s[j]  BY <1>2
    <2>2. s[j].count <= Count(s, s[j].id) + d + l[s[j].id]  BY <2>1 DEF Bounded
    <2>3. s[j] \in Row  OBVIOUS
    <2>4. PICK x \in Events : x = s[j].id  BY <2>1, <2>3, RowIds
    <2>5. PICK n \in Nat : n = s[j].count  BY <2>3, RowIds
    <2>6. m[x] = l[x] + Count(a, x)
      <3>1. InReply(a, x) = {k \in 1..g : s[k].reply = x}  BY <1>2 DEF InReply
      <3> QED  BY <3>1 DEF Count, Gone
    <2>7. Count(s, x) = Count(a, x) + Count(b, x) /\ Count(a, x) \in Nat /\ Count(b, x) \in Nat
      BY <1>2, CountType
    <2>8. l[x] \in Nat /\ m[x] \in Nat  OBVIOUS
    <2>9. n <= Count(a, x) + Count(b, x) + d + l[x]  BY <2>2, <2>4, <2>5, <2>7
    <2>10. n <= Count(b, x) + d + m[x]  BY <2>6, <2>7, <2>8, <2>9, Moved
    <2> QED  BY <2>1, <2>4, <2>5, <2>10
  <1> QED  BY <1>3, <1>4 DEF b

LEMMA WithoutCounts ==
    ASSUME NEW s \in Seq(Row), NEW r \in DOMAIN s, NEW t, t = Without(s, r)
    PROVE  /\ t \in Seq(Row)
           /\ \A k \in DOMAIN t : \E j \in DOMAIN s : t[k] = s[j]
           /\ \A x : Count(s, x) = Count(t, x) + Count(<<s[r]>>, x)
  <1> DEFINE a == SubSeq(s, 1, r - 1)
             b == SubSeq(s, r + 1, Len(s))
             p == SubSeq(s, 1, r)
  <1>2. r \in 1..Len(s) /\ Len(s) \in Nat /\ s[r] \in Row  OBVIOUS
  <1>3. /\ a \in Seq(Row) /\ Len(a) = r - 1 /\ DOMAIN a = 1..(r - 1)
        /\ \A i \in 1..(r - 1) : i \in DOMAIN s /\ a[i] = s[i]
    BY <1>2
  <1>4. /\ p \in Seq(Row) /\ b \in Seq(Row)
        /\ \A i \in DOMAIN b : \E j \in DOMAIN s : b[i] = s[j]
        /\ \A x : Count(s, x) = Count(p, x) + Count(b, x)
    <2>1. r \in 0..Len(s)  BY <1>2
    <2> QED  BY <2>1, SplitCounts
  <1>5. Len(p) = r /\ \A i \in 1..r : p[i] = s[i]  BY <1>2
  <1>6. t = a \o b  BY DEF Without
  <1> HIDE DEF a, b, p
  <1>11. p = a \o <<s[r]>>
    <2>2. /\ a \o <<s[r]>> \in Seq(Row) /\ Len(a \o <<s[r]>>) = r
          /\ \A i \in 1..r : (a \o <<s[r]>>)[i] = s[i]
      <3>1. PICK w : w = <<s[r]>>  OBVIOUS
      <3>2. w \in Seq(Row) /\ Len(w) = 1 /\ w[1] = s[r]  BY <1>2, <3>1
      <3>3. /\ a \o w \in Seq(Row) /\ Len(a \o w) = Len(a) + Len(w)
            /\ \A i \in 1..Len(a) : (a \o w)[i] = a[i]
            /\ \A i \in 1..Len(w) : (a \o w)[Len(a) + i] = w[i]
        BY <1>3, <3>2, JoinedAt
      <3>4. 1 \in 1..1 /\ (r - 1) + 1 = r  BY <1>2
      <3>5. (a \o w)[r] = s[r] /\ Len(a \o w) = r  BY <1>3, <3>2, <3>3, <3>4
      <3>6. \A i \in 1..r : i = r \/ i \in 1..(r - 1)  BY <1>2
      <3> QED  BY <1>3, <3>1, <3>3, <3>5, <3>6
    <2> QED  BY <1>4, <1>5, <2>2, SameRows
  <1>7. ASSUME NEW x PROVE Count(s, x) = Count(t, x) + Count(<<s[r]>>, x)
    <2>0. <<s[r]>> \in Seq(Row)  BY <1>2
    <2>1. Count(p, x) = Count(a, x) + Count(<<s[r]>>, x)  BY <1>3, <1>11, <2>0, CountJoined
    <2>2. Count(t, x) = Count(a, x) + Count(b, x)  BY <1>3, <1>4, <1>6, CountJoined
    <2>3. Count(a, x) \in Nat /\ Count(b, x) \in Nat /\ Count(<<s[r]>>, x) \in Nat
      BY <1>3, <1>4, <2>0, CountType
    <2> QED  BY <1>4, <2>1, <2>2, <2>3
  <1>8. t \in Seq(Row)  BY <1>3, <1>4, <1>6
  <1>9. \A i \in DOMAIN t : (\E j \in DOMAIN a : t[i] = a[j]) \/ (\E j \in DOMAIN b : t[i] = b[j])
    <2>1. \A i \in DOMAIN (a \o b) : \/ \E j \in DOMAIN a : (a \o b)[i] = a[j]
                                     \/ \E j \in DOMAIN b : (a \o b)[i] = b[j]
      BY <1>3, <1>4, JoinedFrom
    <2> QED  BY <1>6, <2>1
  <1>10. \A k \in DOMAIN t : \E j \in DOMAIN s : t[k] = s[j]  BY <1>3, <1>4, <1>9
  <1> QED  BY <1>7, <1>8, <1>10

\* A row is replaced by one that nothing was counted at, and that replies to
\* the same event or did not reply before.
LEMMA SwappedBounded ==
    ASSUME NEW s \in Seq(Row), NEW r \in DOMAIN s, NEW w \in Row,
           w.count = 0, s[r].reply = 0 \/ s[r].reply = w.reply,
           NEW d \in Nat, NEW l \in [Events -> Nat], Bounded(s, d, l),
           NEW late, Known(s, late), KnownRow(w, late)
    PROVE  Known([s EXCEPT ![r] = w], late) /\ Bounded([s EXCEPT ![r] = w], d, l)
  <1> DEFINE t == [s EXCEPT ![r] = w]
  <1>1. /\ t \in Seq(Row) /\ DOMAIN t = DOMAIN s /\ t[r] = w
        /\ \A i \in DOMAIN s : i # r => t[i] = s[i]
    OBVIOUS
  <1> HIDE DEF t
  <1>2. Known(t, late)  BY <1>1 DEF Known
  <1>3. ASSUME NEW x \in Events
        PROVE  /\ Count(s, x) <= Count(t, x) /\ Count(s, x) \in Nat /\ Count(t, x) \in Nat
    <2>1. x # 0  BY ConstantFacts DEF NoId
    <2>2. InReply(s, x) \in SUBSET InReply(t, x)  BY <1>1, <2>1 DEF InReply
    <2> QED  BY <1>1, <2>2, CountType, FS_Subset DEF Count
  <1>4. Bounded(t, d, l)
    <2> SUFFICES ASSUME NEW i \in DOMAIN s, t[i].id > 0
                 PROVE  t[i].count <= Count(t, t[i].id) + d + l[t[i].id]
      BY <1>1 DEF Bounded
    <2>1. t[i] \in Row  BY <1>1
    <2>2. PICK x \in Events : x = t[i].id  BY <2>1, RowIds
    <2>3. PICK c \in Nat : c = t[i].count  BY <2>1, RowIds
    <2>4. PICK k \in Nat : k = l[x]  OBVIOUS
    <2>5. PICK p, q \in Nat : p = Count(s, x) /\ q = Count(t, x) /\ p <= q  BY <1>3
    <2>6. c <= q + d + k
      <3>1. CASE i = r
        <4>1. c = 0  BY <1>1, <2>3, <3>1
        <4> QED  BY <4>1
      <3>2. CASE i # r
        <4>1. c <= p + d + k  BY <1>1, <2>2, <2>3, <2>4, <2>5, <3>2 DEF Bounded
        <4> QED  BY <2>5, <4>1, Slack
      <3> QED  BY <3>1, <3>2
    <2> QED  BY <2>2, <2>3, <2>4, <2>5, <2>6
  <1> QED  BY <1>2, <1>4 DEF t

\* What the calls hand over is known, and nothing was counted at it yet.
LEMMA HandedOver ==
    /\ \A n \in Events : /\ Displayed(n).count = 0 /\ Echo(n).count = 0
                         /\ KnownRow(Displayed(n), Late \ readable)
                         /\ KnownRow(Echo(n), Late \ readable)
                         /\ n \notin Late => Displayed(n).reply = Root[n]
    /\ Divider.count = 0 /\ KnownRow(Divider, Late \ readable)
  <1>1. ASSUME NEW n \in Events
        PROVE  /\ Displayed(n).count = 0 /\ Echo(n).count = 0
               /\ KnownRow(Displayed(n), Late \ readable)
               /\ KnownRow(Echo(n), Late \ readable)
               /\ n \notin Late => Displayed(n).reply = Root[n]
    <2>1. n \in Int /\ n > 0 /\ -n < 0 /\ -(-n) = n /\ ~(n < 0) /\ \A k \in Events : k > 0
      BY ConstantFacts
    <2>2. -n \notin Late
      <3> SUFFICES ASSUME -n \in Late PROVE FALSE  OBVIOUS
      <3>1. -n > 0  BY <2>1, ConstantFacts
      <3> QED  BY <2>1, <3>1
    <2>3. KnownRow(Displayed(n), Late \ readable)  BY <2>1 DEF KnownRow, Displayed
    <2>4. KnownRow(Echo(n), Late \ readable)  BY <2>1, <2>2 DEF KnownRow, Echo
    <2> QED  BY <2>3, <2>4 DEF Displayed, Echo
  <1>2. Divider.count = 0 /\ KnownRow(Divider, Late \ readable)
    <2>1. ~(0 < 0)  OBVIOUS
    <2> QED  BY <2>1 DEF Divider, KnownRow, NoId
  <1> QED  BY <1>1, <1>2

CountInv == Known(events, Late \ readable) /\ Bounded(events, doubled, lost)

LEMMA CountInvBounds == CountInv => CountBounded
  BY DEF CountInv, Bounded, CountBounded, Count, InReply, Replies

LEMMA AppendBackBounded ==
    ASSUME IInv, CountInv, NEW e \in Row, KnownRow(e, Late \ readable), e.count = 0,
           AppendBack(e)
    PROVE  Known(events', Late \ readable) /\ Bounded(events', doubled, lost')
  <1> DEFINE late == Late \ readable
  <1>1. /\ events \in Seq(Row) /\ lost \in [Events -> Nat] /\ doubled \in Nat
        /\ Known(events, late) /\ Bounded(events, doubled, lost) /\ KnownRow(e, late)
    BY DEF IInv, TypeOK, CountInv
  <1> HIDE DEF late
  <1>2. CASE events' = events /\ lost' = lost  BY <1>1, <1>2 DEF late
  <1>3. CASE AppendRow(e)
    <2>0. PICK ix : LET a == Append(events, e)
                        s == Counted(a, ix, IF e.id \in Reactions THEN <<>> ELSE <<e>>)
                    IN  /\ a \in Seq(Row) /\ s \in Seq(Row) /\ Len(s) = Len(a)
                        /\ Evicting(s) \in 0..Len(s)
                        /\ events' = SubSeq(s, Evicting(s) + 1, Len(s))
                        /\ lost' \in [Events -> Nat]
                        /\ \A x \in Events :
                              lost'[x] = lost[x]
                                  + Cardinality({i \in 1..Evicting(s) : s[i].reply = x})
      BY <1>1, <1>3, AppendRowType
    <2> DEFINE a == Append(events, e)
               r == IF e.id \in Reactions THEN <<>> ELSE <<e>>
               s == Counted(a, ix, r)
               g == Evicting(s)
    <2>1. /\ a \in Seq(Row) /\ s \in Seq(Row) /\ g \in 0..Len(s)
          /\ events' = SubSeq(s, g + 1, Len(s)) /\ lost' \in [Events -> Nat]
          /\ \A x \in Events : lost'[x] = lost[x] + Gone(s, g, x)
      BY <2>0 DEF Gone
    <2> HIDE DEF g
    <2>2. PICK t : t = <<e>>  OBVIOUS
    <2>3. a = events \o t /\ t \in Seq(Row) /\ DOMAIN t = {1} /\ t[1] = e
      BY <1>1, <2>1, <2>2
    <2>4. r \in Seq(Row) /\ (r = t \/ r = <<>>)  BY <2>2
    <2> HIDE DEF a, r
    <2>5. \A x : Count(r, x) <= Count(t, x)
      <3> TAKE x
      <3>1. Count(t, x) \in Nat  BY <2>3, CountType
      <3>2. CASE r = t  BY <3>1, <3>2
      <3>3. CASE r = <<>>
        <4>1. InReply(r, x) = {}  BY <3>3 DEF InReply
        <4>2. Count(r, x) = 0  BY <4>1, FS_EmptySet DEF Count
        <4> QED  BY <3>1, <4>2
      <3> QED  BY <2>4, <3>2, <3>3
    <2>6. Known(t, late) /\ \A k \in DOMAIN t : t[k].count = 0  BY <1>1, <2>3 DEF Known
    <2>7. Bounded(s, doubled, lost) /\ Known(s, late)
      BY <1>1, <2>1, <2>3, <2>4, <2>5, <2>6, GrownBounded
    <2> HIDE DEF s
    <2>9. Bounded(events', doubled, lost') /\ Known(events', late)
      BY <1>1, <2>1, <2>7, EvictedBounded
    <2> QED  BY <2>9 DEF late
  <1> QED  BY <1>2, <1>3 DEF AppendBack, rows

LEMMA InsertBounded ==
    ASSUME IInv, CountInv, NEW S \in SUBSET Events, AppendBackBatch(S) \/ AppendFront(S)
    PROVE  Known(events', Late \ readable) /\ Bounded(events', doubled, lost)
  <1> DEFINE late == Late \ readable
  <1>1. /\ events \in Seq(Row) /\ lost \in [Events -> Nat] /\ doubled \in Nat
        /\ Known(events, late) /\ Bounded(events, doubled, lost)
    BY DEF IInv, TypeOK, CountInv
  <1>2. CASE events' = events  BY <1>1, <1>2
  <1>3. ASSUME NEW new \in Listings(Unseen(S)), NEW u,
               \/ u = events \o DisplayedAll(new)
               \/ u = DisplayedAll(new) \o events,
               events' = Counted(u, rowIndex', DisplayedAll(new))
        PROVE  Known(events', late) /\ Bounded(events', doubled, lost)
    <2>1. Unseen(S) \in SUBSET Events  BY DEF Unseen
    <2>2. /\ DisplayedAll(new) \in Seq(Row)
          /\ \A i \in DOMAIN new : new[i] \in Events
      BY <2>1, ListedRows
    <2>3. DOMAIN DisplayedAll(new) = DOMAIN new
          /\ \A i \in DOMAIN new : DisplayedAll(new)[i] = Displayed(new[i])
      BY DEF DisplayedAll
    <2>4. PICK t : t = DisplayedAll(new)  OBVIOUS
    <2>5. t \in Seq(Row) /\ \A k \in DOMAIN t : t[k].count = 0 /\ KnownRow(t[k], late)
      <3> SUFFICES ASSUME NEW k \in DOMAIN t PROVE t[k].count = 0 /\ KnownRow(t[k], late)
        BY <2>2, <2>4
      <3>1. new[k] \in Events /\ t[k] = Displayed(new[k])  BY <2>2, <2>3, <2>4
      <3> QED  BY <3>1, HandedOver
    <2>6. Known(t, late) /\ \A x : Count(t, x) <= Count(t, x)
      <3>1. \A x : Count(t, x) \in Nat  BY <2>5, CountType
      <3>2. Known(t, late)  BY <2>5 DEF Known
      <3> QED  BY <3>1, <3>2
    <2>7. u \in Seq(Row) /\ (u = events \o t \/ u = t \o events)
      <3>1. u = events \o t \/ u = t \o events  BY <1>3, <2>4
      <3>2. events \o t \in Seq(Row) /\ t \o events \in Seq(Row)  BY <1>1, <2>5
      <3> QED  BY <3>1, <3>2
    <2>8. PICK ix : ix = rowIndex'  OBVIOUS
    <2> HIDE DEF late
    <2>9. Bounded(Counted(u, ix, t), doubled, lost) /\ Known(Counted(u, ix, t), late)
      BY <1>1, <2>5, <2>6, <2>7, GrownBounded
    <2> QED  BY <1>3, <2>4, <2>8, <2>9
  <1>4. CASE AppendBackBatch(S)  BY <1>2, <1>3, <1>4 DEF AppendBackBatch, Placed, rows
  <1>5. CASE AppendFront(S)  BY <1>2, <1>3, <1>5 DEF AppendFront, Placed, rows
  <1> QED  BY <1>4, <1>5

\* The answer to a request: the echo goes, and the bound grows by one if it
\* was a reply, or the event takes its place.
LEMMA ReplaceBounded ==
    ASSUME IInv, CountInv, NEW n \in Own, ReplaceEcho(n)
    PROVE  Known(events', Late \ readable) /\ Bounded(events', doubled', lost')
  <1> DEFINE late == Late \ readable
             row == rowIndex[-n]
  <1>1. /\ events \in Seq(Row) /\ lost \in [Events -> Nat] /\ doubled \in Nat
        /\ Known(events, late) /\ Bounded(events, doubled, lost)
    BY DEF IInv, TypeOK, CountInv
  <1>2. /\ n \in Events /\ n > 0 /\ n \notin Late /\ -n < 0 /\ -(-n) = n /\ -n # NoId
        /\ Displayed(n) \in Row /\ Displayed(n).id = n
        /\ Displayed(n).reply = Root[n] /\ Displayed(n).count = 0
        /\ KnownRow(Displayed(n), late)
    <2>1. n \in Events /\ n \notin Late  BY TimelineAssumption, ConstantFacts
    <2>2. n > 0 /\ -n < 0 /\ -(-n) = n /\ -n # NoId
      BY <2>1, ConstantFacts DEF NoId
    <2> QED  BY <2>1, <2>2, RowFacts, HandedOver
  <1>3. CASE AppendBack(Displayed(n)) /\ UNCHANGED doubled
    BY <1>2, <1>3, AppendBackBounded
  <1>4. -n \in DOMAIN rowIndex => /\ row \in DOMAIN events /\ events[row].id = -n
                                  /\ events[row].reply = Root[n]
    <2> SUFFICES ASSUME -n \in DOMAIN rowIndex
                 PROVE  /\ row \in DOMAIN events /\ events[row].id = -n
                        /\ events[row].reply = Root[n]
      OBVIOUS
    <2>1. row \in DOMAIN events /\ events[row].id = -n
      BY <1>2, IInvParts DEF RowsGood, Exact, ShownIds
    <2> QED  BY <1>1, <1>2, <2>1 DEF Known, KnownRow
  <1>5. CASE /\ -n \in DOMAIN rowIndex
             /\ events' = Without(events, row)
             /\ doubled' = IF Root[n] = 0 THEN doubled ELSE doubled + 1
             /\ lost' = lost
    <2>1. PICK r \in DOMAIN events : r = row /\ events[r].reply = Root[n]  BY <1>4, <1>5
    <2>2. PICK t : t = Without(events, r)  OBVIOUS
    <2>3. /\ t \in Seq(Row)
          /\ \A k \in DOMAIN t : \E j \in DOMAIN events : t[k] = events[j]
          /\ \A x : Count(events, x) = Count(t, x) + Count(<<events[r]>>, x)
      BY <1>1, <2>2, WithoutCounts
    <2>4. Known(t, late)  BY <1>1, <2>3 DEF Known
    <2>5. Bounded(t, doubled', lost)
      <3> SUFFICES ASSUME NEW k \in DOMAIN t, t[k].id > 0
                   PROVE  t[k].count <= Count(t, t[k].id) + doubled' + lost[t[k].id]
        BY DEF Bounded
      <3>1. PICK j \in DOMAIN events : t[k] = events[j]  BY <2>3
      <3>2. events[j].count <= Count(events, events[j].id) + doubled + lost[events[j].id]
        BY <1>1, <3>1 DEF Bounded
      <3>3. events[j] \in Row /\ events[r] \in Row  BY <1>1
      <3>4. PICK x \in Events : x = events[j].id  BY <3>1, <3>3, RowIds
      <3>5. PICK c \in Nat : c = events[j].count  BY <3>3, RowIds
      <3>6. /\ Count(t, x) \in Nat /\ lost[x] \in Nat
            /\ Count(events, x) = Count(t, x) + Count(<<events[r]>>, x)
        BY <1>1, <2>3, CountType
      <3>7. c <= Count(events, x) + doubled + lost[x]  BY <3>2, <3>4, <3>5
      <3>8. c <= Count(t, x) + doubled' + lost[x]
        <4>1. CASE events[r].reply # x
          <5>1. Count(<<events[r]>>, x) = 0  BY <3>3, <4>1, CountOne
          <5>2. c <= Count(t, x) + doubled + lost[x]  BY <3>6, <3>7, <5>1
          <5>3. doubled' = doubled \/ doubled' = doubled + 1  BY <1>5
          <5>4. c <= Count(t, x) + (doubled + 1) + lost[x]  BY <1>1, <3>6, <5>2, Slack
          <5> QED  BY <5>2, <5>3, <5>4
        <4>2. CASE events[r].reply = x
          <5>1. Count(<<events[r]>>, x) = 1  BY <3>3, <4>2, CountOne
          <5>2. x # 0  BY ConstantFacts DEF NoId
          <5>3. doubled' = doubled + 1  BY <1>5, <2>1, <4>2, <5>2
          <5>4. c <= (Count(t, x) + 1) + doubled + lost[x]  BY <3>6, <3>7, <5>1
          <5>5. c <= Count(t, x) + (doubled + 1) + lost[x]  BY <1>1, <3>6, <5>4, Slack
          <5> QED  BY <5>3, <5>5
        <4> QED  BY <4>1, <4>2
      <3> QED  BY <3>1, <3>4, <3>5, <3>8
    <2> QED  BY <1>5, <2>1, <2>2, <2>4, <2>5
  <1>6. CASE /\ -n \in DOMAIN rowIndex
             /\ events' = [events EXCEPT ![row] = Displayed(n)]
             /\ UNCHANGED <<lost, doubled>>
    <2>1. PICK r \in DOMAIN events : r = row /\ events[r].reply = Root[n]  BY <1>4, <1>6
    <2>2. PICK w \in Row : /\ w = Displayed(n) /\ w.id = n /\ w.reply = Root[n] /\ w.count = 0
                           /\ KnownRow(w, late)
      BY <1>2
    <2>3. events' = [events EXCEPT ![r] = w]  BY <1>6, <2>1, <2>2
    <2> HIDE DEF late
    <2>4. /\ Known([events EXCEPT ![r] = w], late)
          /\ Bounded([events EXCEPT ![r] = w], doubled, lost)
      BY <1>1, <2>1, <2>2, SwappedBounded
    <2> QED  BY <1>6, <2>3, <2>4 DEF late
  <1> QED  BY <1>3, <1>5, <1>6 DEF ReplaceEcho

\* A key arrives: the row replies to what it said, and its count starts anew.
LEMMA KeyBounded ==
    ASSUME IInv, CountInv, NEW n \in Events, KeyArrives(n)
    PROVE  CountInv'
  <1> DEFINE late == Late \ readable'
  <1>1. /\ events \in Seq(Row) /\ lost \in [Events -> Nat] /\ doubled \in Nat
        /\ Known(events, Late \ readable) /\ Bounded(events, doubled, lost)
    BY DEF IInv, TypeOK, CountInv
  <1>2. /\ n \in Late \ readable /\ readable' = readable \cup {n}
        /\ lost' = lost /\ doubled' = doubled
        /\ IF n \in DOMAIN rowIndex
           THEN events' = [events EXCEPT ![rowIndex[n]] =
                              [@ EXCEPT !.reply = Root[n], !.count = 0]]
           ELSE events' = events
    BY DEF KeyArrives
  <1>3. Known(events, late) /\ n \notin late  BY <1>1, <1>2 DEF Known, KnownRow
  <1>4. CASE n \notin DOMAIN rowIndex  BY <1>1, <1>2, <1>3, <1>4 DEF CountInv
  <1>5. CASE n \in DOMAIN rowIndex
    <2>1. PICK r \in DOMAIN events : rowIndex[n] = r /\ events[r].id = n
      BY <1>5, IInvParts DEF RowsGood, Exact, ShownIds
    <2>2. events[r] \in Row /\ events[r].reply = 0  BY <1>1, <1>2, <2>1 DEF Known, KnownRow
    <2>3. PICK w \in Row : /\ w = Unlocked(events[r], Root[n])
                           /\ w.id = n /\ w.reply = Root[n] /\ w.count = 0
      <3>1. Root[n] \in 0..MaxEvents  BY ConstantFacts
      <3> QED  BY <2>1, <2>2, <3>1, KeyRow
    <2>4. events' = [events EXCEPT ![r] = w]  BY <1>2, <1>5, <2>1, <2>3 DEF Unlocked
    <2>5. KnownRow(w, late)
      <3>1. ~(n < 0)  BY ConstantFacts
      <3> QED  BY <1>3, <2>3, <3>1 DEF KnownRow
    <2> HIDE DEF late
    <2>6. Known(events', late) /\ Bounded(events', doubled, lost)
      <3>1. /\ Known([events EXCEPT ![r] = w], late)
            /\ Bounded([events EXCEPT ![r] = w], doubled, lost)
        BY <1>1, <1>3, <2>2, <2>3, <2>5, SwappedBounded
      <3> QED  BY <2>4, <3>1
    <2> QED  BY <1>2, <2>6 DEF CountInv, late
  <1> QED  BY <1>4, <1>5

LEMMA NextCountInv == IInv /\ CountInv /\ [Next]_vars => CountInv'
  <1> SUFFICES ASSUME IInv, CountInv, [Next]_vars PROVE CountInv'
    OBVIOUS
  <1>0. Rest /\ MaxEvents \in Nat /\ Page \in Nat \ {0}  BY IInvParts, ConstantFacts
  <1>1. ASSUME Known(events', Late \ readable), Bounded(events', doubled', lost'),
               readable' = readable
        PROVE  CountInv'
    BY <1>1 DEF CountInv
  <1>2. CASE Post \/ UNCHANGED vars
    BY <1>2 DEF Post, vars, rows, CountInv
  <1>3. CASE SyncOne
    <2>1. /\ synced + 1 \in Events /\ AppendBack(Displayed(synced + 1))
          /\ UNCHANGED <<readable, doubled>>
      BY <1>0, <1>3 DEF SyncOne, Rest, Events
    <2> QED  BY <1>1, <2>1, RowFacts, HandedOver, AppendBackBounded
  <1>4. CASE SyncBatch
    <2>1. PICK last \in synced + 2..posted :
             /\ AppendBackBatch(synced + 1..last) /\ UNCHANGED <<readable, lost, doubled>>
      BY <1>4 DEF SyncBatch
    <2>2. synced + 1..last \in SUBSET Events  BY <1>0 DEF Rest, Events
    <2> QED  BY <1>1, <2>1, <2>2, InsertBounded
  <1>5. CASE ScrollBack
    <2>1. /\ oldest' \in 1..MaxEvents + 1 /\ pageEnd' \in 0..MaxEvents
          /\ AppendFront(oldest'..pageEnd') /\ UNCHANGED <<readable, lost, doubled>>
      BY <1>0, <1>5 DEF ScrollBack, Rest
    <2>2. oldest'..pageEnd' \in SUBSET Events  BY <1>0, <2>1 DEF Events
    <2> QED  BY <1>1, <2>1, <2>2, InsertBounded
  <1>6. CASE ScrollAgain
    <2>1. AppendFront(oldest..pageEnd) /\ UNCHANGED <<readable, lost, doubled>>
      BY <1>6 DEF ScrollAgain
    <2>2. oldest..pageEnd \in SUBSET Events  BY <1>0 DEF Rest, Events
    <2> QED  BY <1>1, <2>1, <2>2, InsertBounded
  <1>7. CASE AddDivider
    <2>1. AppendBack(Divider) /\ UNCHANGED <<readable, doubled>>  BY <1>7 DEF AddDivider
    <2> QED  BY <1>1, <2>1, RowFacts, HandedOver, AppendBackBounded
  <1>8. CASE Clear
    <2>1. events' = <<>> /\ DOMAIN events' = {}  BY <1>8 DEF Clear
    <2> QED  BY <2>1 DEF CountInv, Known, Bounded
  <1>9. ASSUME NEW n \in Events, Send(n) PROVE CountInv'
    <2>1. AppendBack(Echo(n)) /\ UNCHANGED <<readable, doubled>>  BY <1>9 DEF Send
    <2> QED  BY <1>1, <2>1, RowFacts, HandedOver, AppendBackBounded
  <1>10. ASSUME NEW n \in Events, Sent(n) PROVE CountInv'
    <2>1. ReplaceEcho(n) /\ n \in Own /\ UNCHANGED readable  BY <1>0, <1>10 DEF Sent, Rest
    <2> QED  BY <1>1, <2>1, ReplaceBounded
  <1>11. ASSUME NEW n \in Events, KeyArrives(n) PROVE CountInv'  BY <1>11, KeyBounded
  <1> QED  BY <1>2, <1>3, <1>4, <1>5, <1>6, <1>7, <1>8, <1>9, <1>10, <1>11 DEF Next

\* The rows, the index and the bookkeeping keep their types
\* (timeline_state.cpp:58-223).
THEOREM TypeCorrect == Spec => []TypeOK
  <1>1. IInv => TypeOK  BY DEF IInv
  <1> QED  BY InitIInv, NextIInv, <1>1, PTL DEF Spec

\* After any sequence of appends, batches, pages, echoes, evictions and
\* clears the row index names exactly the rows on screen, each by its id.
THEOREM IndexIsExact == Spec => []IndexExact
  <1>1. IInv => IndexExact  BY DEF IInv
  <1> QED  BY InitIInv, NextIInv, <1>1, PTL DEF Spec

\* The deduplication never refuses an event that is not on the screen.
THEOREM SeenIsShown == Spec => []SeenExact
  <1>1. IInv => SeenExact  BY DEF IInv
  <1> QED  BY InitIInv, NextIInv, <1>1, PTL DEF Spec

\* No echo outlives its request, whichever of the answer and /sync is first.
THEOREM EchoesGoAway == Spec => []NoGhost
  <1>1. IInv => NoGhost  BY DEF IInv
  <1> QED  BY InitIInv, NextIInv, <1>1, PTL DEF Spec

\* Every event that /sync delivered since the timeline was opened is on the
\* screen or was dropped at the cap, one by one or in a batch, before or after
\* the answer to the request that sent it (timeline_state.cpp:58-181).
THEOREM NothingIsMissing == Spec => []NothingMissing
  <1>1. Init => NothingMissing
    <2> SUFFICES ASSUME Init PROVE NothingMissing  OBVIOUS
    <2>1. opened = Old /\ synced = Old /\ Old \in Nat  BY ConstantFacts DEF Init
    <2>2. (Old + 1)..Old = {}  BY <2>1
    <2> QED  BY <2>1, <2>2 DEF NothingMissing
  <1> QED  BY InitIInv, NextIInv, <1>1, NextMissing, PTL DEF Spec

\* A reply count exceeds the replies shown only by the echoes of replies that
\* were removed and by the replies that were dropped at the cap, in every order
\* of appends, pages, keys and answers (timeline_state.cpp:58-217).
THEOREM CountsStayBounded == Spec => []CountBounded
  <1>1. Init => CountInv
    <2> SUFFICES ASSUME Init PROVE CountInv  OBVIOUS
    <2>1. events = <<>> /\ DOMAIN events = {}  BY DEF Init
    <2> QED  BY <2>1 DEF CountInv, Known, Bounded
  <1> QED  BY InitIInv, NextIInv, <1>1, NextCountInv, CountInvBounds, PTL DEF Spec
=============================================================================
