---------------------------- MODULE OlmKeys_proofs ----------------------------
(***************************************************************************)
(* Proofs about OlmKeys, for any size of libolm's list, any thresholds and *)
(* numbers of retries, and servers that report the key count or do not:    *)
(*   - the shared flag never says more than the server knows;              *)
(*   - the types of the account, of what is saved of it and of the pool;   *)
(*   - the keys the server can hand out, one-time and fallback, have their *)
(*     private halves here, while none of the three faults happened.       *)
(***************************************************************************)
EXTENDS OlmKeys, SequenceTheorems, FiniteSetTheorems, TLAPS

\* An account and a server are records with a Boolean flag each.
IsAccount(a) ==
    /\ a = [keys |-> a.keys, fresh |-> a.fresh, next |-> a.next, fb |-> a.fb, prev |-> a.prev,
            fbFresh |-> a.fbFresh, shared |-> a.shared, count |-> a.count]
    /\ a.shared \in BOOLEAN /\ a.fbFresh \in BOOLEAN

IsServer(s) ==
    /\ s = [pool |-> s.pool, device |-> s.device, fb |-> s.fb, used |-> s.used]
    /\ s.device \in BOOLEAN

Shapes == IsAccount(acct) /\ IsAccount(disk) /\ IsServer(server)

IInv == Shapes /\ SharedIsHonest

\* What a step may do to the flag and its meaning, short of a switch: a set
\* flag was set before, or the server got the device keys with this step.
Honest ==
    /\ Shapes'
    /\ server.device => server'.device
    /\ acct'.shared => acct.shared \/ disk.shared \/ server'.device
    /\ disk'.shared => acct.shared \/ disk.shared \/ server'.device
    /\ causes \subseteq causes'

LEMMA HonestKeeps == ASSUME IInv, Honest PROVE IInv'
  BY DEF IInv, Honest, SharedIsHonest

\* Generating keys and marking them leaves the flag alone.
LEMMA AccountSteps ==
    ASSUME NEW a, IsAccount(a), NEW n
    PROVE  /\ IsAccount(Marked(a)) /\ Marked(a).shared = a.shared
           /\ IsAccount(WithFallback(a)) /\ WithFallback(a).shared = a.shared
           /\ IsAccount(WithKeys(a, n)) /\ WithKeys(a, n).shared = a.shared
  <1>1. IsAccount(Marked(a)) /\ Marked(a).shared = a.shared
    <2> DEFINE none == {}
    <2>1. Marked(a) = [a EXCEPT !.fresh = none, !.fbFresh = FALSE]  BY DEF Marked
    <2> HIDE DEF none
    <2> QED  BY <2>1 DEF IsAccount
  <1>2. IsAccount(WithFallback(a)) /\ WithFallback(a).shared = a.shared
    <2> DEFINE key == NewFallback(a)
    <2>1. WithFallback(a) = [a EXCEPT !.prev = a.fb, !.fb = key, !.fbFresh = TRUE]
      BY DEF WithFallback
    <2> HIDE DEF key
    <2> QED  BY <2>1 DEF IsAccount
  <1>3. IsAccount(WithKeys(a, n)) /\ WithKeys(a, n).shared = a.shared
    <2> DEFINE new == [i \in 1..n |-> [id |-> a.next + n - i, run |-> run]]
               all == new \o a.keys
               kept == SubSeq(all, 1, IF Len(all) < MaxKeys THEN Len(all) ELSE MaxKeys)
               fresh == (a.fresh \cup Elements(new)) \cap Elements(kept)
    <2>1. WithKeys(a, n) = [a EXCEPT !.keys = kept, !.next = @ + n, !.fresh = fresh]
      BY DEF WithKeys, IsAccount
    <2> HIDE DEF kept, fresh
    <2> QED  BY <2>1 DEF IsAccount
  <1> QED  BY <1>1, <1>2, <1>3

\* An upload that arrives brings the device keys, if they are in it.
LEMMA StoredServer ==
    ASSUME IsServer(server), NEW c
    PROVE  /\ IsServer(Stored(c))
           /\ Stored(c).device = (server.device \/ c.device)
  <1> DEFINE pool == server.pool \o Ordered(c.keys \ Pool)
             fb == IF c.fb = 0 THEN server.fb ELSE c.fb
             used == IF c.fb = 0 THEN server.used ELSE FALSE
  <1>1. Stored(c) = [server EXCEPT !.pool = pool, !.device = @ \/ c.device, !.fb = fb, !.used = used]
    BY DEF Stored, IsServer
  <1> HIDE DEF pool, fb, used
  <1> QED  BY <1>1 DEF IsServer

LEMMA InitIInv == Init => IInv
  BY DEF Init, Fresh, NewDevice, IInv, Shapes, IsAccount, IsServer, SharedIsHonest

LEMMA UploadHonest ==
    ASSUME Shapes, NEW t \in Threads, Upload(t) \/ UploadFails(t)
    PROVE  Honest
  <1>1. CASE Discard(t)
    BY <1>1, AccountSteps DEF Discard, engine, Honest, Shapes
  <1>2. CASE Build(t)
    <2> DEFINE more == WithKeys(acct, call[t].needed)
    <2>1. IsAccount(more) /\ more.shared = acct.shared  BY AccountSteps DEF Shapes
    <2>2. acct' = more \/ acct' = WithFallback(more)  BY <1>2 DEF Build
    <2> HIDE DEF more
    <2>3. IsAccount(acct') /\ acct'.shared = acct.shared  BY <2>1, <2>2, AccountSteps
    <2> QED  BY <1>2, <2>3 DEF Build, engine, Honest, Shapes
  <1>3. CASE UploadAccepted(t)
    <2>1. IsServer(server') /\ server'.device = (server.device \/ call[t].device)
      BY <1>3, StoredServer DEF UploadAccepted, Shapes
    <2>2. IsAccount(acct') /\ acct'.shared = (acct.shared \/ call[t].device)
      <3>1. IsAccount(Marked(acct)) /\ Marked(acct).shared = acct.shared
        BY AccountSteps DEF Shapes
      <3>2. PICK n : acct' = [Marked(acct) EXCEPT !.shared = @ \/ call[t].device, !.count = n]
        BY <1>3 DEF UploadAccepted
      <3> HIDE DEF Marked
      <3> QED  BY <3>1, <3>2 DEF IsAccount
    <2> QED  BY <1>3, <2>1, <2>2 DEF UploadAccepted, engine, Honest, Shapes
  <1>4. CASE UploadRefused(t)
    BY <1>4 DEF UploadRefused, Honest, Shapes
  <1>5. CASE Save(t)
    BY <1>5 DEF Save, Honest, Shapes
  <1>6. CASE UploadFails(t)
    <2>1. server' = server \/ server' = Stored(call[t])  BY <1>6 DEF UploadFails
    <2>2. IsServer(server') /\ (server.device => server'.device)
      BY <2>1, StoredServer DEF Shapes
    <2> QED  BY <1>6, <2>2 DEF UploadFails, Honest, Shapes
  <1> QED  BY <1>1, <1>2, <1>3, <1>4, <1>5, <1>6 DEF Upload

LEMMA LoopHonest ==
    ASSUME Shapes, Loop
    PROVE  Honest
  <1>1. CASE Tick \/ CheckWithoutCount \/ FallbackSave
    BY <1>1 DEF Tick, CheckWithoutCount, FallbackSave, Honest, Shapes
  <1>2. CASE CheckCount
    <2>1. PICK n : acct' = acct \/ acct' = [acct EXCEPT !.count = n]
      BY <1>2 DEF CheckCount
    <2>2. IsAccount(acct') /\ acct'.shared = acct.shared
      BY <2>1 DEF Shapes, IsAccount
    <2> QED  BY <1>2, <2>2 DEF CheckCount, Honest, Shapes
  <1>3. CASE FallbackRests
    BY <1>3 DEF FallbackRests, Honest, Shapes
  <1>4. CASE FallbackDue
    BY <1>4, AccountSteps DEF FallbackDue, Honest, Shapes
  <1>5. CASE FallbackAccepted
    BY <1>5, AccountSteps, StoredServer DEF FallbackAccepted, Honest, Shapes
  <1>6. CASE Forget
    <2>1. acct' = [acct EXCEPT !.prev = 0]  BY <1>6 DEF Forget
    <2>2. IsAccount(acct') /\ acct'.shared = acct.shared  BY <2>1 DEF Shapes, IsAccount
    <2> QED  BY <1>6, <2>2 DEF Forget, Honest, Shapes
  <1> QED  BY <1>1, <1>2, <1>3, <1>4, <1>5, <1>6 DEF Loop

LEMMA PeersHonest ==
    ASSUME Shapes, Claim \/ Crash \/ Login
    PROVE  Honest
  <1>1. CASE Claim
    <2>1. PICK p : server' = [server EXCEPT !.pool = p] \/ server' = [server EXCEPT !.used = TRUE]
      BY <1>1 DEF Claim
    <2>2. IsServer(server') /\ server'.device = server.device
      BY <2>1 DEF Shapes, IsServer
    <2> QED  BY <1>1, <2>2 DEF Claim, Honest, Shapes
  <1>2. CASE Crash
    BY <1>2 DEF Crash, Honest, Shapes
  <1>3. CASE Login
    BY <1>3 DEF Login, Honest, Shapes
  <1> QED  BY <1>1, <1>2, <1>3

\* After a switch the flag is set only if it was, and then the cause is known.
LEMMA SwitchIInv ==
    ASSUME IInv, Switch
    PROVE  IInv'
  <1>1. /\ acct' = Fresh(acct.shared) /\ disk' = acct' /\ server' = NewDevice
        /\ causes' = IF acct.shared THEN {"switch"} ELSE {}
    BY DEF Switch
  <1>2. acct.shared \in BOOLEAN  BY DEF IInv, Shapes, IsAccount
  <1> QED  BY <1>1, <1>2 DEF Fresh, NewDevice, IInv, Shapes, IsAccount, IsServer, SharedIsHonest

LEMMA NextIInv == IInv /\ [Next]_vars => IInv'
  <1> SUFFICES ASSUME IInv, [Next]_vars PROVE IInv'  OBVIOUS
  <1>s. Shapes  BY DEF IInv
  <1>1. ASSUME NEW t \in Threads, Upload(t) \/ UploadFails(t)  PROVE IInv'
    BY <1>s, <1>1, UploadHonest, HonestKeeps
  <1>2. CASE Loop  BY <1>s, <1>2, LoopHonest, HonestKeeps
  <1>3. CASE Claim \/ Crash \/ Login  BY <1>s, <1>3, PeersHonest, HonestKeeps
  <1>4. CASE Switch  BY <1>4, SwitchIInv
  <1>5. CASE UNCHANGED vars
    BY <1>5 DEF vars, IInv, Shapes, SharedIsHonest
  <1> QED  BY <1>1, <1>2, <1>3, <1>4, <1>5 DEF Next

\* The shared flag, in memory and on disk, never says more than the server
\* knows, over failed and repeated uploads, two uploading threads and crashes,
\* until an account is switched (olm_account.cpp:72-80, sync_engine.cpp:795).
THEOREM SharedFlagIsHonest == Spec => []SharedIsHonest
  <1>1. IInv => SharedIsHonest  BY DEF IInv
  <1> QED  BY InitIInv, NextIInv, <1>1, PTL DEF Spec
-----------------------------------------------------------------------------
(* Type correctness.  A body can be put in the order of its ids because no *)
(* two keys of an account have the same id, and the ids of its list fall.  *)

Falling(a) ==
    /\ \A i \in DOMAIN a.keys : a.keys[i].id < a.next
    /\ \A i, j \in DOMAIN a.keys : i < j => a.keys[j].id < a.keys[i].id

GoodAccount(a) ==
    /\ a \in Account
    /\ Len(a.keys) <= MaxKeys
    /\ a.fresh \subseteq Elements(a.keys)
    /\ Falling(a)

GoodBody(S) == S \subseteq Key /\ IsFiniteSet(S) /\ \A j, k \in S : j.id = k.id => j = k

LEMMA ConstantFacts ==
    /\ MaxKeys \in Nat /\ Low \in Nat /\ Low < MaxKeys /\ Low > 0
    /\ Retries \in Nat /\ Levels \in Nat /\ Budget \in [Happenings -> Nat]
  BY OlmKeysAssumption

LEMMA Numbers ==
    ASSUME NEW n \in Nat
    PROVE  IsFiniteSet(1..n) /\ Cardinality(1..n) = n
  BY FS_Interval

\* The elements of a sequence are finitely many, not more than its length.
LEMMA ElementsFinite ==
    ASSUME NEW S, NEW s \in Seq(S)
    PROVE  IsFiniteSet(Elements(s)) /\ Cardinality(Elements(s)) <= Len(s)
  <1>1. Len(s) \in Nat /\ DOMAIN s = 1..Len(s)  BY LenProperties
  <1>2. IsFiniteSet(1..Len(s)) /\ Cardinality(1..Len(s)) = Len(s)
    BY <1>1, Numbers
  <1>3. s \in [1..Len(s) -> Elements(s)]
    <2>1. s = [i \in 1..Len(s) |-> s[i]]  BY <1>1, LenProperties
    <2>2. \A i \in 1..Len(s) : s[i] \in Elements(s)  BY <1>1 DEF Elements
    <2> QED  BY <2>1, <2>2
  <1>4. s \in Surjection(1..Len(s), Elements(s))  BY <1>1, <1>3 DEF Surjection, Elements
  <1> QED  BY <1>2, <1>4, FS_Surjection

\* The rank of a key in a body: an injection into the numbers up to its size,
\* and so onto them; the inverse puts the body in order.
LEMMA OrderedExists ==
    ASSUME NEW S, GoodBody(S)
    PROVE  \E s \in [1..Cardinality(S) -> S] :
              \A i, j \in 1..Cardinality(S) : i < j => s[i].id < s[j].id
  <1> DEFINE n == Cardinality(S)
             Upto(k) == {j \in S : j.id <= k.id}
             rank == [k \in S |-> Cardinality(Upto(k))]
  <1>1. IsFiniteSet(S) /\ n \in Nat  BY FS_CardinalityType DEF GoodBody
  <1>2. \A k \in S : k.id \in Nat  BY DEF GoodBody, Key
  <1>3. ASSUME NEW k \in S  PROVE rank[k] \in 1..n /\ IsFiniteSet(Upto(k))
    <2>1. Upto(k) \in SUBSET S /\ {k} \in SUBSET Upto(k)  BY <1>2, <1>3
    <2>2. IsFiniteSet(Upto(k)) /\ Cardinality(Upto(k)) <= n  BY <1>1, <2>1, FS_Subset
    <2>3. Cardinality({k}) <= Cardinality(Upto(k)) /\ Cardinality({k}) = 1
      BY <2>1, <2>2, FS_Subset, FS_Singleton
    <2>4. Cardinality(Upto(k)) \in Nat  BY <2>2, FS_CardinalityType
    <2> QED  BY <1>1, <2>2, <2>3, <2>4
  <1>4. ASSUME NEW j \in S, NEW k \in S, j.id < k.id  PROVE rank[j] < rank[k]
    <2>1. Upto(j) \in SUBSET Upto(k) /\ k \notin Upto(j) /\ k \in Upto(k)  BY <1>2, <1>4
    <2>2. Cardinality(Upto(j)) <= Cardinality(Upto(k))
      BY <1>3, <2>1, FS_Subset
    <2>3. Cardinality(Upto(j)) # Cardinality(Upto(k))
      <3>1. Upto(j) # Upto(k)  BY <2>1
      <3> QED  BY <1>3, <2>1, <3>1, FS_Subset
    <2>4. rank[j] \in Int /\ rank[k] \in Int  BY <1>3
    <2> QED  BY <2>2, <2>3, <2>4
  <1>5. rank \in [S -> 1..n]  BY <1>3
  <1> HIDE DEF n, rank
  <1>6. rank \in Injection(S, 1..n)
    <2>1. ASSUME NEW j \in S, NEW k \in S, rank[j] = rank[k]  PROVE j = k
      <3>1. ~(rank[j] < rank[k]) /\ ~(rank[k] < rank[j])  BY <1>1, <1>5, <2>1
      <3>2. j.id = k.id  BY <1>2, <1>4, <3>1
      <3> QED  BY <3>2 DEF GoodBody
    <2> QED  BY <1>5, <2>1 DEF Injection, IsInjective
  <1>7. IsFiniteSet(1..n) /\ Cardinality(1..n) = n  BY <1>1, Numbers
  <1>8. rank \in Surjection(S, 1..n)  BY <1>6, <1>7, FS_Injection DEF n
  <1> DEFINE s == [i \in 1..n |-> CHOOSE k \in S : rank[k] = i]
  <1>9. \A i \in 1..n : s[i] \in S /\ rank[s[i]] = i  BY <1>8 DEF Surjection
  <1>10. s \in [1..n -> S]  BY <1>9
  <1> HIDE DEF s
  <1>11. ASSUME NEW i \in 1..n, NEW j \in 1..n, i < j  PROVE s[i].id < s[j].id
    <2>1. s[i] \in S /\ s[j] \in S /\ ~(rank[s[j]] < rank[s[i]]) /\ rank[s[i]] # rank[s[j]]
      BY <1>1, <1>9, <1>11
    <2>2. s[i].id # s[j].id
      <3>1. s[i] # s[j]  BY <2>1
      <3> QED  BY <2>1, <3>1 DEF GoodBody
    <2> QED  BY <1>2, <1>4, <2>1, <2>2
  <1> QED  BY <1>10, <1>11 DEF n

LEMMA OrderedBody ==
    ASSUME NEW S, GoodBody(S), NEW s, s = Ordered(S)
    PROVE  /\ s \in Seq(Key) /\ Len(s) = Cardinality(S) /\ Elements(s) = S
           /\ \A i, j \in DOMAIN s : i < j => s[i].id < s[j].id
  <1> DEFINE n == Cardinality(S)
  <1>1. IsFiniteSet(S) /\ n \in Nat  BY FS_CardinalityType DEF GoodBody
  <1>2. /\ s \in [1..n -> S]
        /\ \A i, j \in 1..n : i < j => s[i].id < s[j].id
    BY OrderedExists DEF Ordered
  <1> HIDE DEF n
  <1>3. s \in Seq(Key) /\ Len(s) = n
    <2>1. s \in [1..n -> Key]  BY <1>2 DEF GoodBody
    <2> QED  BY <1>1, <2>1
  <1>4. ASSUME NEW i \in 1..n, NEW j \in 1..n, s[i] = s[j]  PROVE i = j
    <2>1. s[i].id \in Int /\ s[j].id \in Int  BY <1>2 DEF GoodBody, Key
    <2>2. ~(i < j) /\ ~(j < i)  BY <1>2, <1>4, <2>1
    <2> QED  BY <1>1, <2>2
  <1>5. s \in Injection(1..n, S)  BY <1>2, <1>4 DEF Injection, IsInjective
  <1>6. Cardinality(1..n) = n  BY <1>1, Numbers
  <1>7. s \in Surjection(1..n, S)  BY <1>1, <1>5, <1>6, FS_Injection DEF n
  <1>8. Elements(s) = S  BY <1>2, <1>7 DEF Surjection, Elements
  <1> QED  BY <1>2, <1>3, <1>8 DEF n

\* What an account is made of.
LEMMA AccountParts ==
    ASSUME NEW a \in Account
    PROVE  /\ IsAccount(a)
           /\ a.keys \in Seq(Key) /\ a.fresh \subseteq Key /\ a.next \in Nat
           /\ a.fb \in Nat /\ a.prev \in Nat /\ a.count \in Nat
           /\ Len(a.keys) \in Nat /\ DOMAIN a.keys = 1..Len(a.keys)
           /\ \A i \in DOMAIN a.keys : a.keys[i] \in Key
  <1>1. /\ IsAccount(a) /\ a.keys \in Seq(Key) /\ a.fresh \subseteq Key /\ a.next \in Nat
        /\ a.fb \in Nat /\ a.prev \in Nat /\ a.count \in Nat
    BY DEF Account, IsAccount
  <1>2. /\ Len(a.keys) \in Nat /\ DOMAIN a.keys = 1..Len(a.keys)
        /\ \A i \in DOMAIN a.keys : a.keys[i] \in Key
    BY <1>1
  <1> QED  BY <1>1, <1>2

\* The list after new keys were generated: they come first, and of the older
\* ones those stay that still fit.
NewKey(a, n, i) == [id |-> a.next + n - i, run |-> run]

LEMMA Generated ==
    ASSUME NEW a \in Account, NEW n \in Nat, run \in Nat, NEW b, b = WithKeys(a, n)
    PROVE  /\ b.keys \in Seq(Key)
           /\ Len(b.keys) = IF n + Len(a.keys) < MaxKeys THEN n + Len(a.keys) ELSE MaxKeys
           /\ \A i \in 1..Len(b.keys) :
                 b.keys[i] = IF i <= n THEN NewKey(a, n, i) ELSE a.keys[i - n]
           /\ \A i \in 1..n : NewKey(a, n, i) \in Key
           /\ b.next = a.next + n
           /\ b.fresh = (a.fresh \cup {NewKey(a, n, i) : i \in 1..n}) \cap Elements(b.keys)
           /\ b.fb = a.fb /\ b.prev = a.prev /\ b.fbFresh = a.fbFresh
           /\ b.shared = a.shared /\ b.count = a.count
           /\ IsAccount(b)
  <1> DEFINE new == [i \in 1..n |-> NewKey(a, n, i)]
             all == new \o a.keys
             size == IF Len(all) < MaxKeys THEN Len(all) ELSE MaxKeys
             kept == SubSeq(all, 1, size)
             fresh == (a.fresh \cup Elements(new)) \cap Elements(kept)
  <1>0. /\ IsAccount(a) /\ a.keys \in Seq(Key) /\ a.next \in Nat /\ Len(a.keys) \in Nat
        /\ DOMAIN a.keys = 1..Len(a.keys)
    BY AccountParts
  <1>1. b = [a EXCEPT !.keys = kept, !.next = @ + n, !.fresh = fresh]
    BY DEF WithKeys, NewKey, IsAccount
  <1>2. \A i \in 1..n : NewKey(a, n, i) \in Key
    <2>1. ASSUME NEW i \in 1..n  PROVE a.next + n - i \in Nat  BY <1>0
    <2> QED  BY <2>1 DEF NewKey, Key
  <1>3. new \in Seq(Key) /\ Len(new) = n /\ \A i \in 1..n : new[i] = NewKey(a, n, i)
    BY <1>2
  <1>4. Elements(new) = {NewKey(a, n, i) : i \in 1..n}  BY <1>3 DEF Elements
  <1> HIDE DEF new
  <1>5. /\ all \in Seq(Key) /\ Len(all) = n + Len(a.keys)
        /\ \A i \in 1..(n + Len(a.keys)) :
              all[i] = IF i <= n THEN NewKey(a, n, i) ELSE a.keys[i - n]
    <2>1. /\ all \in Seq(Key) /\ Len(all) = n + Len(a.keys)
          /\ \A i \in 1..(n + Len(a.keys)) : all[i] = IF i <= n THEN new[i] ELSE a.keys[i - n]
      BY <1>0, <1>3, ConcatProperties
    <2> QED  BY <1>3, <2>1
  <1>6. size \in Nat /\ size <= Len(all) /\ Len(all) \in Nat
    BY <1>0, <1>5, ConstantFacts
  <1> HIDE DEF all
  <1>7. \A i \in 1..size : all[i] \in Key  BY <1>5, <1>6
  <1>8. size = IF n + Len(a.keys) < MaxKeys THEN n + Len(a.keys) ELSE MaxKeys
    BY <1>5
  <1> HIDE DEF size
  <1>9. kept \in Seq(Key) /\ Len(kept) = size /\ \A i \in 1..size : kept[i] = all[i]
    <2>1. 1 \in Int /\ size \in Int  BY <1>6
    <2>2. /\ kept \in Seq(Key) /\ Len(kept) = IF 1 <= size THEN size - 1 + 1 ELSE 0
          /\ \A i \in 1..(size - 1 + 1) : kept[i] = all[1 + i - 1]
      BY <1>7, <2>1, SubSeqProperties
    <2>3. size - 1 + 1 = size /\ \A i \in 1..size : 1 + i - 1 = i  BY <1>6
    <2> QED  BY <1>6, <2>2, <2>3
  <1> HIDE DEF kept
  <1>10. /\ b.keys = kept /\ b.next = a.next + n /\ b.fresh = fresh
         /\ b.fb = a.fb /\ b.prev = a.prev /\ b.fbFresh = a.fbFresh
         /\ b.shared = a.shared /\ b.count = a.count /\ IsAccount(b)
    <2> HIDE DEF fresh
    <2> QED  BY <1>0, <1>1 DEF IsAccount
  <1>11. \A i \in 1..size : kept[i] = IF i <= n THEN NewKey(a, n, i) ELSE a.keys[i - n]
    <2>1. ASSUME NEW i \in 1..size
          PROVE  kept[i] = IF i <= n THEN NewKey(a, n, i) ELSE a.keys[i - n]
      <3>1. i \in 1..(n + Len(a.keys))  BY <1>0, <1>5, <1>6
      <3>2. kept[i] = all[i]  BY <1>9
      <3> QED  BY <1>5, <3>1, <3>2
    <2> QED  BY <2>1
  <1> QED  BY <1>2, <1>4, <1>8, <1>9, <1>10, <1>11

\* Generating keys, marking them and a new fallback key keep an account in
\* shape.
LEMMA WithKeysGood ==
    ASSUME NEW a, GoodAccount(a), NEW n \in Nat, run \in Nat, NEW b, b = WithKeys(a, n)
    PROVE  GoodAccount(b)
  <1>0. /\ a \in Account /\ Len(a.keys) <= MaxKeys /\ a.fresh \subseteq Elements(a.keys)
        /\ Falling(a)
    BY DEF GoodAccount
  <1>1. /\ a.keys \in Seq(Key) /\ a.next \in Nat /\ a.fresh \subseteq Key /\ Len(a.keys) \in Nat
        /\ a.fb \in Nat /\ a.prev \in Nat /\ a.count \in Nat
        /\ DOMAIN a.keys = 1..Len(a.keys)
        /\ \A i \in DOMAIN a.keys : a.keys[i] \in Key
        /\ a.shared \in BOOLEAN /\ a.fbFresh \in BOOLEAN
    BY <1>0, AccountParts DEF IsAccount
  <1>2. /\ b.keys \in Seq(Key)
        /\ Len(b.keys) = IF n + Len(a.keys) < MaxKeys THEN n + Len(a.keys) ELSE MaxKeys
        /\ \A i \in 1..Len(b.keys) :
              b.keys[i] = IF i <= n THEN NewKey(a, n, i) ELSE a.keys[i - n]
        /\ b.next = a.next + n
        /\ b.fresh \subseteq Elements(b.keys)
    BY <1>0, Generated
  <1>3. /\ b.fb = a.fb /\ b.prev = a.prev /\ b.fbFresh = a.fbFresh
        /\ b.shared = a.shared /\ b.count = a.count /\ IsAccount(b)
    BY <1>0, Generated
  <1>4. Len(b.keys) \in Nat /\ DOMAIN b.keys = 1..Len(b.keys) /\ Len(b.keys) <= MaxKeys
        /\ Len(b.keys) <= n + Len(a.keys)
    <2>1. Len(b.keys) \in Nat /\ DOMAIN b.keys = 1..Len(b.keys)  BY <1>2, LenProperties
    <2>2. PICK l \in Nat : l = Len(a.keys)  BY <1>1
    <2>3. Len(b.keys) = IF n + l < MaxKeys THEN n + l ELSE MaxKeys  BY <1>2, <2>2
    <2>4. Len(b.keys) <= MaxKeys /\ Len(b.keys) <= n + l
      BY <2>3, ConstantFacts
    <2> QED  BY <2>1, <2>2, <2>4
  <1>5. b.fresh \subseteq Key
    <2>1. Elements(b.keys) \subseteq Key  BY <1>2 DEF Elements
    <2> QED  BY <1>2, <2>1
  <1>6. b \in Account
    BY <1>1, <1>2, <1>3, <1>5 DEF Account, IsAccount
  <1>7. ASSUME NEW i \in 1..Len(b.keys)
        PROVE  /\ i <= n => b.keys[i].id = a.next + n - i
               /\ i > n => i - n \in 1..Len(a.keys) /\ b.keys[i] = a.keys[i - n]
    <2>1. i \in Int /\ 1 <= i /\ i <= n + Len(a.keys)  BY <1>4
    <2>2. i <= n => b.keys[i].id = a.next + n - i
      <3>1. i <= n => b.keys[i] = NewKey(a, n, i)  BY <1>2
      <3>2. NewKey(a, n, i).id = a.next + n - i  BY DEF NewKey
      <3> QED  BY <3>1, <3>2
    <2> QED  BY <1>1, <1>2, <2>1, <2>2
  <1>8. \A i \in 1..Len(a.keys) : a.keys[i].id \in Nat /\ a.keys[i].id < a.next
    BY <1>0, <1>1 DEF Falling, Key
  <1>9. Falling(b)
    <2>1. ASSUME NEW i \in 1..Len(b.keys)  PROVE b.keys[i].id < b.next
      <3>0. i \in Int /\ 1 <= i  BY <1>4
      <3>1. CASE i <= n
        <4>1. b.keys[i].id = a.next + n - i /\ b.next = a.next + n  BY <1>2, <1>7, <3>1
        <4>2. a.next \in Nat  BY <1>1
        <4> QED  BY <3>0, <4>1, <4>2
      <3>2. CASE i > n
        <4>1. b.keys[i].id < a.next /\ b.keys[i].id \in Nat  BY <1>7, <1>8, <3>2
        <4> QED  BY <1>1, <1>2, <4>1
      <3> QED  BY <1>4, <3>1, <3>2
    <2>2. ASSUME NEW i \in 1..Len(b.keys), NEW j \in 1..Len(b.keys), i < j
          PROVE  b.keys[j].id < b.keys[i].id
      <3>0. i \in Int /\ j \in Int  BY <1>4
      <3>1. CASE j <= n
        <4>1. i <= n  BY <2>2, <3>0, <3>1
        <4>2. b.keys[j].id = a.next + n - j /\ b.keys[i].id = a.next + n - i
          BY <1>7, <3>1, <4>1
        <4>3. a.next \in Nat  BY <1>1
        <4> QED  BY <2>2, <3>0, <4>2, <4>3
      <3>2. CASE i <= n /\ j > n
        <4>1. b.keys[j].id < a.next /\ b.keys[j].id \in Nat  BY <1>7, <1>8, <3>2
        <4>2. b.keys[i].id = a.next + n - i  BY <1>7, <3>2
        <4> QED  BY <1>1, <3>0, <3>2, <4>1, <4>2
      <3>3. CASE i > n
        <4>1. /\ i - n \in 1..Len(a.keys) /\ b.keys[i] = a.keys[i - n]
              /\ j - n \in 1..Len(a.keys) /\ b.keys[j] = a.keys[j - n]
              /\ i - n < j - n
          BY <1>7, <2>2, <3>0, <3>3
        <4> QED  BY <1>0, <1>1, <4>1 DEF Falling
      <3> QED  BY <2>2, <3>0, <3>1, <3>2, <3>3
    <2> QED  BY <1>4, <2>1, <2>2 DEF Falling
  <1> QED  BY <1>2, <1>4, <1>6, <1>9 DEF GoodAccount

\* Fewer keys that are not marked as published, or another fallback key, flag
\* or count, leave an account in shape.
LEMMA SameKeysGood ==
    ASSUME NEW a, GoodAccount(a), NEW b \in Account, b.keys = a.keys, b.next = a.next,
           b.fresh \subseteq a.fresh
    PROVE  GoodAccount(b)
  BY DEF GoodAccount, Falling

LEMMA MarkedGood ==
    ASSUME NEW a, GoodAccount(a), NEW b, b = Marked(a)
    PROVE  /\ GoodAccount(b)
           /\ b.keys = a.keys /\ b.next = a.next /\ b.fresh = {} /\ b.fb = a.fb
           /\ b.prev = a.prev /\ b.shared = a.shared /\ b.count = a.count
           /\ b.fbFresh = FALSE
  <1> DEFINE none == {}
  <1>0. a \in Account  BY DEF GoodAccount
  <1>1. b = [a EXCEPT !.fresh = none, !.fbFresh = FALSE]  BY DEF Marked
  <1>2. none \subseteq Key /\ none \subseteq a.fresh  OBVIOUS
  <1>3. none = {}  OBVIOUS
  <1> HIDE DEF none
  <1>4. /\ b \in Account
        /\ b.keys = a.keys /\ b.next = a.next /\ b.fresh = none /\ b.fb = a.fb
        /\ b.prev = a.prev /\ b.shared = a.shared /\ b.count = a.count
        /\ b.fbFresh = FALSE
    BY <1>0, <1>1, <1>2 DEF Account
  <1>5. GoodAccount(b)  BY <1>2, <1>4, SameKeysGood
  <1> QED  BY <1>3, <1>4, <1>5

LEMMA FallbackGood ==
    ASSUME NEW a, GoodAccount(a), server.fb \in Nat, NEW b, b = WithFallback(a)
    PROVE  /\ GoodAccount(b)
           /\ b.keys = a.keys /\ b.next = a.next /\ b.fresh = a.fresh /\ b.prev = a.fb
           /\ b.fb \in Nat /\ b.fb > a.fb /\ b.fb > server.fb
           /\ b.shared = a.shared /\ b.count = a.count
  <1> DEFINE key == NewFallback(a)
  <1>0. a \in Account  BY DEF GoodAccount
  <1>1. b = [a EXCEPT !.prev = a.fb, !.fb = key, !.fbFresh = TRUE]  BY DEF WithFallback
  <1>2. a.fb \in Nat  BY <1>0, AccountParts
  <1>3. key \in Nat /\ key > a.fb /\ key > server.fb  BY <1>2 DEF NewFallback
  <1> HIDE DEF key
  <1>4. /\ b \in Account
        /\ b.keys = a.keys /\ b.next = a.next /\ b.fresh = a.fresh /\ b.prev = a.fb
        /\ b.fb = key /\ b.shared = a.shared /\ b.count = a.count
    BY <1>0, <1>1, <1>2, <1>3 DEF Account
  <1>5. GoodAccount(b)  BY <1>4, SameKeysGood
  <1> QED  BY <1>3, <1>4, <1>5

\* What is not marked as published makes a body.
LEMMA FreshBody ==
    ASSUME NEW a, GoodAccount(a)
    PROVE  GoodBody(a.fresh)
  <1>1. /\ a.keys \in Seq(Key) /\ a.fresh \subseteq Key /\ a.fresh \in SUBSET Elements(a.keys)
        /\ Falling(a) /\ Len(a.keys) \in Nat /\ DOMAIN a.keys = 1..Len(a.keys)
        /\ \A i \in DOMAIN a.keys : a.keys[i] \in Key
    BY AccountParts DEF GoodAccount
  <1>2. IsFiniteSet(Elements(a.keys))  BY <1>1, ElementsFinite
  <1>3. IsFiniteSet(a.fresh)  BY <1>1, <1>2, FS_Subset
  <1>4. ASSUME NEW j \in a.fresh, NEW k \in a.fresh, j.id = k.id  PROVE j = k
    <2>1. PICK x \in DOMAIN a.keys : j = a.keys[x]  BY <1>1 DEF Elements
    <2>2. PICK y \in DOMAIN a.keys : k = a.keys[y]  BY <1>1 DEF Elements
    <2>3. j.id \in Nat /\ k.id \in Nat  BY <1>1 DEF Key
    <2>4. ~(x < y) /\ ~(y < x)  BY <1>1, <1>4, <2>1, <2>2, <2>3 DEF Falling
    <2>5. x = y  BY <1>1, <2>4
    <2> QED  BY <2>1, <2>2, <2>5
  <1> QED  BY <1>1, <1>3, <1>4 DEF GoodBody

\* A body arrives: its keys that are not there yet go to the end of the pool,
\* in the order of their ids.
Server == [pool : Seq(Key), device : BOOLEAN, fb : Nat, used : BOOLEAN]

LEMMA StoredGood ==
    ASSUME server \in Server, NEW c \in Call, GoodBody(c.keys), NEW s, s = Stored(c)
    PROVE  /\ s \in Server
           /\ s.fb = (IF c.fb = 0 THEN server.fb ELSE c.fb)
           /\ \E more \in Seq(Key) :
                 /\ s.pool = server.pool \o more
                 /\ Len(more) = Cardinality(c.keys \ Pool)
                 /\ Elements(more) = c.keys \ Pool
                 /\ \A i, j \in DOMAIN more : i < j => more[i].id < more[j].id
  <1> DEFINE body == c.keys \ Pool
  <1>1. PICK more : more = Ordered(body)  OBVIOUS
  <1>2. GoodBody(body)
    <2>1. body \in SUBSET c.keys  OBVIOUS
    <2>2. IsFiniteSet(body)  BY <2>1, FS_Subset DEF GoodBody
    <2> QED  BY <2>1, <2>2 DEF GoodBody
  <1>3. /\ more \in Seq(Key) /\ Len(more) = Cardinality(body) /\ Elements(more) = body
        /\ \A i, j \in DOMAIN more : i < j => more[i].id < more[j].id
    BY <1>1, <1>2, OrderedBody
  <1> DEFINE pool == server.pool \o more
             fb == IF c.fb = 0 THEN server.fb ELSE c.fb
             used == IF c.fb = 0 THEN server.used ELSE FALSE
             device == server.device \/ c.device
  <1>4. s = [server EXCEPT !.pool = pool, !.device = device, !.fb = fb, !.used = used]
    BY <1>1 DEF Stored, Server
  <1>5. server.pool \in Seq(Key) /\ server.fb \in Nat /\ server.used \in BOOLEAN
    BY DEF Server
  <1>6. pool \in Seq(Key)  BY <1>3, <1>5, ConcatProperties
  <1>7. fb \in Nat /\ used \in BOOLEAN  BY <1>5 DEF Call
  <1>8. device \in BOOLEAN  BY DEF Server, Call
  <1> HIDE DEF pool, fb, used, device
  <1>9. s \in Server /\ s.fb = fb /\ s.pool = pool
    BY <1>4, <1>6, <1>7, <1>8 DEF Server
  <1> QED  BY <1>3, <1>9 DEF pool, fb
-----------------------------------------------------------------------------
Places == {"start", "idle", "check", "discard", "build", "upload", "save", "done", "fallback",
           "fbUpload", "fbSave"}

Holdings == GoodAccount(acct) /\ GoodAccount(disk) /\ server \in Server

Calls == call \in [Threads -> Call] /\ \A t \in Threads : GoodBody(call[t].keys)

Points ==
    /\ pc \in [Threads -> Places]
    /\ pc["login"] \notin {"idle", "check", "fallback", "fbUpload", "fbSave"}
    /\ pc["sync"] \notin {"start", "done"}

Counters ==
    /\ level \in 0..Levels /\ noted \in BOOLEAN /\ published \in BOOLEAN /\ seen \in BOOLEAN
    /\ run \in Nat /\ causes \subseteq {"crash", "failed", "overlap", "switch"}
    /\ left \in [Happenings -> Nat]

TypeInv == Holdings /\ Calls /\ Points /\ Counters

LEMMA TypeInvImplies == ASSUME TypeInv PROVE TypeOK
  <1>1. acct \in Account /\ disk \in Account /\ Len(acct.keys) <= MaxKeys /\ acct.fresh \subseteq Held
    BY DEF TypeInv, Holdings, GoodAccount, Held
  <1>2. /\ server.pool \in Seq(Key) /\ server.device \in BOOLEAN /\ server.fb \in Nat
        /\ server.used \in BOOLEAN
    BY DEF TypeInv, Holdings, Server
  <1>3. /\ pc["login"] \in {"start", "discard", "build", "upload", "save", "done"}
        /\ pc["sync"] \in {"idle", "check", "discard", "build", "upload", "save", "fallback",
                           "fbUpload", "fbSave"}
    BY DEF TypeInv, Points, Places, Threads
  <1> QED  BY <1>1, <1>2, <1>3 DEF TypeInv, Calls, Counters, TypeOK

LEMMA FreshGood ==
    ASSUME NEW b \in BOOLEAN
    PROVE  GoodAccount(Fresh(b))
  <1> DEFINE a == Fresh(b)
  <1>1. /\ a.keys = <<>> /\ a.fresh = {} /\ a \in Account
    <2>1. <<>> \in Seq(Key) /\ {} \subseteq Key /\ 0 \in Nat /\ 1 \in Nat  OBVIOUS
    <2> QED  BY <2>1 DEF Fresh, Account
  <1>2. Len(a.keys) = 0 /\ DOMAIN a.keys = {}  BY <1>1
  <1> HIDE DEF a
  <1>3. GoodAccount(a)  BY <1>1, <1>2, ConstantFacts DEF GoodAccount, Falling
  <1> QED  BY <1>3 DEF a

LEMMA NoCallGood == NoCall \in Call /\ GoodBody(NoCall.keys)
  <1>1. {} \subseteq Key /\ IsFiniteSet({})  BY FS_EmptySet
  <1>2. 0 \in 0..Retries  BY ConstantFacts
  <1> QED  BY <1>1, <1>2 DEF NoCall, Call, GoodBody

LEMMA NewDeviceGood == NewDevice \in Server
  BY DEF NewDevice, Server

LEMMA InitTypeInv == Init => TypeInv
  <1> SUFFICES ASSUME Init PROVE TypeInv  OBVIOUS
  <1>1. Holdings
    BY FreshGood, NewDeviceGood DEF Init, Holdings
  <1>2. Calls  BY NoCallGood DEF Init, Calls
  <1>3. Points  BY DEF Init, Points, Places, Threads
  <1>4. Counters
    <2>1. 0 \in 0..Levels /\ 1 \in Nat /\ Budget \in [Happenings -> Nat]  BY ConstantFacts
    <2> QED  BY <2>1 DEF Init, Counters
  <1> QED  BY <1>1, <1>2, <1>3, <1>4 DEF TypeInv

\* Steps of one thread.
LEMMA NeededNat == ASSUME NEW n \in Nat PROVE Needed(n) \in Nat
  BY ConstantFacts DEF Needed

LEMMA SpendGood ==
    ASSUME Counters, NEW what \in Happenings, Spend(what)
    PROVE  left' \in [Happenings -> Nat]
  BY DEF Counters, Spend

LEMMA GotoGood ==
    ASSUME Points, NEW t \in Threads, NEW place \in Places, Goto(t, place),
           t = "login" => place \notin {"idle", "check", "fallback", "fbUpload", "fbSave"},
           t = "sync" => place \notin {"start", "done"}
    PROVE  Points' /\ pc'[t] = place /\ \A u \in Threads \ {t} : pc'[u] = pc[u]
  BY DEF Points, Goto, Threads

LEMMA BeginGood ==
    ASSUME Points, Calls, NEW t \in Threads, NEW count \in Nat, NEW force \in BOOLEAN,
           acct.shared \in BOOLEAN, Begin(t, count, force)
    PROVE  Points' /\ Calls' /\ \A u \in Threads \ {t} : pc'[u] = pc[u] /\ call'[u] = call[u]
  <1>1. CASE Goto(t, After(t)) /\ UNCHANGED call
    <2>1. /\ After(t) \in Places
          /\ t = "login" => After(t) \notin {"idle", "check", "fallback", "fbUpload", "fbSave"}
          /\ t = "sync" => After(t) \notin {"start", "done"}
      BY DEF After, Places
    <2>2. Points' /\ \A u \in Threads \ {t} : pc'[u] = pc[u]  BY <1>1, <2>1, GotoGood
    <2> QED  BY <1>1, <2>2 DEF Calls
  <1>2. CASE /\ Goto(t, "discard")
             /\ call' = [call EXCEPT ![t].known = count, ![t].needed = Needed(count),
                                     ![t].device = ~acct.shared, ![t].tries = 0]
    <2>1. Points' /\ \A u \in Threads \ {t} : pc'[u] = pc[u]
      BY <1>2, GotoGood DEF Places
    <2> DEFINE needed == Needed(count)
               device == ~acct.shared
               new == [call[t] EXCEPT !.known = count, !.needed = needed,
                                      !.device = device, !.tries = 0]
    <2>2. needed \in Nat /\ device \in BOOLEAN /\ 0 \in 0..Retries
      BY NeededNat, ConstantFacts
    <2>3. call' = [call EXCEPT ![t] = new]  BY <1>2 DEF Calls, Call
    <2> HIDE DEF needed, device
    <2>5. new \in Call /\ new.keys = call[t].keys  BY <2>2 DEF Calls, Call
    <2> HIDE DEF new
    <2>4. Calls' /\ \A u \in Threads \ {t} : call'[u] = call[u]
      BY <2>3, <2>5 DEF Calls
    <2> QED  BY <2>1, <2>4
  <1> QED  BY <1>1, <1>2 DEF Begin

LEMMA UploadTypes ==
    ASSUME TypeInv, NEW t \in Threads, Upload(t) \/ UploadFails(t)
    PROVE  TypeInv'
  <1>0. /\ GoodAccount(acct) /\ GoodAccount(disk) /\ server \in Server /\ server.fb \in Nat
        /\ acct \in Account /\ acct.shared \in BOOLEAN /\ acct.count \in Nat /\ run \in Nat
        /\ call[t] \in Call /\ GoodBody(call[t].keys)
        /\ Calls /\ Points /\ Counters
    BY DEF TypeInv, Holdings, GoodAccount, Account, Server, Calls, Counters
  <1>c. UNCHANGED <<engine, run, causes, left>> => Counters'
    BY <1>0 DEF engine, Counters
  <1>1. CASE Discard(t)
    <2>1. acct' = Marked(acct) /\ GoodAccount(Marked(acct))
      BY <1>0, <1>1, MarkedGood DEF Discard
    <2>2. Holdings'  BY <1>0, <1>1, <2>1 DEF Discard, Holdings
    <2>3. Points'  BY <1>0, <1>1, GotoGood DEF Discard, Places
    <2>4. Calls' /\ Counters'  BY <1>0, <1>1, <1>c DEF Discard, Calls
    <2> QED  BY <2>2, <2>3, <2>4 DEF TypeInv
  <1>2. CASE Build(t)
    <2>0. PICK more : more = WithKeys(acct, call[t].needed)  OBVIOUS
    <2>1. call[t].needed \in Nat  BY <1>0 DEF Call
    <2>2. GoodAccount(more)  BY <1>0, <2>0, <2>1, WithKeysGood
    <2>3. acct' = more \/ acct' = WithFallback(more)  BY <1>2, <2>0 DEF Build
    <2>4. GoodAccount(acct')  BY <1>0, <2>2, <2>3, FallbackGood
    <2>5. Holdings'  BY <1>0, <1>2, <2>4 DEF Build, Holdings
    <2>6. Points'  BY <1>0, <1>2, GotoGood DEF Build, Places
    <2>7. GoodBody(acct'.fresh) /\ acct'.fb \in Nat /\ acct'.fresh \in SUBSET Key
      BY <2>4, FreshBody, AccountParts DEF GoodAccount
    <2>8. PICK fb \in Nat : call' = [call EXCEPT ![t].keys = acct'.fresh, ![t].fb = fb]
      BY <1>2, <2>7 DEF Build
    <2>9. PICK body : body = acct'.fresh  OBVIOUS
    <2>10. Calls'
      <3> DEFINE new == [call[t] EXCEPT !.keys = body, !.fb = fb]
      <3>1. new \in Call /\ new.keys = body  BY <1>0, <2>7, <2>9 DEF Call
      <3>2. call' = [call EXCEPT ![t] = new]  BY <1>0, <2>8, <2>9 DEF Calls, Call
      <3> HIDE DEF new
      <3> QED  BY <1>0, <2>7, <2>9, <3>1, <3>2 DEF Calls
    <2> QED  BY <1>2, <1>c, <2>5, <2>6, <2>10 DEF Build, TypeInv
  <1>3. CASE UploadAccepted(t)
    <2>1. server' \in Server  BY <1>0, <1>3, StoredGood DEF UploadAccepted
    <2>2. GoodAccount(acct')
      <3>1. PICK a : a = Marked(acct)  OBVIOUS
      <3>2. GoodAccount(a) /\ a \in Account  BY <1>0, <3>1, MarkedGood DEF GoodAccount
      <3> DEFINE flag == a.shared \/ call[t].device
                 n == IF call[t].needed > 0 THEN call[t].known + call[t].needed ELSE a.count
      <3>3. flag \in BOOLEAN /\ n \in Nat
        <4>1. a.count \in Nat /\ call[t].known + call[t].needed \in Nat
          BY <1>0, <3>2, AccountParts DEF Call
        <4> QED  BY <4>1
      <3>4. acct' = [a EXCEPT !.shared = flag, !.count = n]
        BY <1>3, <3>1, <3>2 DEF UploadAccepted, Account
      <3> HIDE DEF flag, n
      <3>5. /\ acct' \in Account /\ acct'.keys = a.keys /\ acct'.next = a.next
            /\ acct'.fresh = a.fresh
        BY <3>2, <3>3, <3>4 DEF Account
      <3> QED  BY <3>2, <3>5, SameKeysGood
    <2>3. Holdings'  BY <1>0, <1>3, <2>1, <2>2 DEF UploadAccepted, Holdings
    <2>4. Points'  BY <1>0, <1>3, GotoGood DEF UploadAccepted, Places
    <2> QED  BY <1>0, <1>3, <1>c, <2>3, <2>4 DEF UploadAccepted, Calls, TypeInv
  <1>4. CASE UploadRefused(t)
    <2>1. Holdings' /\ Counters'  BY <1>0, <1>4, <1>c DEF UploadRefused, Holdings
    <2>2. Points'  BY <1>0, <1>4, GotoGood DEF UploadRefused, Places
    <2>3. Calls'
      <3>1. CASE call' = [call EXCEPT ![t].tries = @ + 1] /\ call[t].tries < Retries
        <4> DEFINE new == [call[t] EXCEPT !.tries = @ + 1]
        <4>1. call[t].tries + 1 \in 0..Retries  BY <1>0, <3>1, ConstantFacts DEF Call
        <4>2. new \in Call /\ new.keys = call[t].keys  BY <1>0, <4>1 DEF Call
        <4>3. call' = [call EXCEPT ![t] = new]  BY <1>0, <3>1 DEF Calls, Call
        <4> HIDE DEF new
        <4> QED  BY <1>0, <4>2, <4>3 DEF Calls
      <3> QED  BY <1>0, <1>4, <3>1 DEF UploadRefused, Calls
    <2> QED  BY <2>1, <2>2, <2>3 DEF TypeInv
  <1>5. CASE Save(t)
    <2>1. Holdings' /\ Counters'  BY <1>0, <1>5, <1>c DEF Save, Holdings
    <2>2. Points'
      BY <1>0, <1>5, GotoGood DEF Save, After, Places
    <2>3. Calls'
      <3> DEFINE new == [NoCall EXCEPT !.acked = call[t].acked]
      <3>1. new \in Call /\ new.keys = {}
        <4>1. call[t].acked \in BOOLEAN  BY <1>0 DEF Call
        <4>2. NoCall \in Call /\ NoCall.keys = {}  BY NoCallGood DEF NoCall
        <4> QED  BY <4>1, <4>2 DEF Call
      <3>2. GoodBody({})  BY NoCallGood DEF NoCall
      <3>3. call' = [call EXCEPT ![t] = new]  BY <1>5 DEF Save
      <3> HIDE DEF new
      <3> QED  BY <1>0, <3>1, <3>2, <3>3 DEF Calls
    <2> QED  BY <2>1, <2>2, <2>3 DEF TypeInv
  <1>6. CASE UploadFails(t)
    <2>1. server' \in Server  BY <1>0, <1>6, StoredGood DEF UploadFails
    <2>2. Holdings'  BY <1>0, <1>6, <2>1 DEF UploadFails, Holdings
    <2>3. Points'
      <3>1. t = "login" => pc[t] = "upload"  BY <1>0, <1>6 DEF UploadFails, Points
      <3>2. PICK place \in {"save", "idle"} : Goto(t, place) /\ (t = "login" => place = "save")
        BY <1>6, <3>1 DEF UploadFails
      <3> QED  BY <1>0, <3>2, GotoGood DEF Places
    <2>4. Calls'
      <3>1. call' = call \/ call' = [call EXCEPT ![t] = NoCall]  BY <1>6 DEF UploadFails
      <3> QED  BY <1>0, <3>1, NoCallGood DEF Calls
    <2>5. Counters'
      <3>1. left' \in [Happenings -> Nat]
        BY <1>0, <1>6, SpendGood DEF UploadFails, Happenings
      <3> QED  BY <1>0, <1>6, <3>1 DEF UploadFails, engine, Counters
    <2> QED  BY <2>2, <2>3, <2>4, <2>5 DEF TypeInv
  <1> QED  BY <1>1, <1>2, <1>3, <1>4, <1>5, <1>6 DEF Upload

LEMMA SetCall ==
    ASSUME Calls, NEW t \in Threads, NEW c \in Call, GoodBody(c.keys), call' = [call EXCEPT ![t] = c]
    PROVE  Calls' /\ call'[t] = c /\ \A u \in Threads \ {t} : call'[u] = call[u]
  BY DEF Calls

LEMMA LoopTypes ==
    ASSUME TypeInv, Loop
    PROVE  TypeInv'
  <1>0. /\ GoodAccount(acct) /\ GoodAccount(disk) /\ server \in Server /\ server.fb \in Nat
        /\ server.pool \in Seq(Key) /\ Len(server.pool) \in Nat
        /\ acct \in Account /\ acct.shared \in BOOLEAN /\ acct.count \in Nat /\ acct.fb \in Nat
        /\ call["sync"] \in Call /\ GoodBody(call["sync"].keys) /\ "sync" \in Threads
        /\ Calls /\ Points /\ Counters
    <2>1. server.pool \in Seq(Key)  BY DEF TypeInv, Holdings, Server
    <2>2. Len(server.pool) \in Nat  BY <2>1, LenProperties
    <2>3. "sync" \in Threads  BY DEF Threads
    <2> QED  BY <2>1, <2>2, <2>3 DEF TypeInv, Holdings, GoodAccount, Account, Server, Calls
  <1>1. CASE Tick
    <2> DEFINE size == Len(server.pool)
               ack == Acknowledged
               new == [NoCall EXCEPT !.known = size, !.acked = ack]
    <2>1. size \in Nat /\ ack \in BOOLEAN  BY <1>0 DEF Acknowledged
    <2>2. call' = [call EXCEPT !["sync"] = new]  BY <1>1 DEF Tick
    <2> HIDE DEF size, ack
    <2>3. NoCall \in Call /\ GoodBody(NoCall.keys)  BY NoCallGood
    <2>4. new \in Call /\ new.keys = NoCall.keys  BY <2>1, <2>3 DEF Call
    <2> HIDE DEF new
    <2>5. Calls'  BY <1>0, <2>2, <2>3, <2>4, SetCall
    <2>6. Points'  BY <1>0, <1>1, GotoGood DEF Tick, Places
    <2>7. Holdings' /\ Counters'  BY <1>0, <1>1 DEF Tick, Holdings, Counters, engine
    <2> QED  BY <2>5, <2>6, <2>7 DEF TypeInv
  <1>2. CASE CheckCount
    <2>1. PICK count : count = Reported(call["sync"])  OBVIOUS
    <2>2. count \in Nat  BY <1>0, <2>1 DEF Reported, Call
    <2>3. GoodAccount(acct')
      <3>1. acct' = acct \/ acct' = [acct EXCEPT !.count = count]  BY <1>2, <2>1 DEF CheckCount
      <3>2. ASSUME acct' = [acct EXCEPT !.count = count]  PROVE GoodAccount(acct')
        <4>1. /\ acct' \in Account /\ acct'.keys = acct.keys /\ acct'.next = acct.next
              /\ acct'.fresh = acct.fresh
          BY <1>0, <2>2, <3>2 DEF Account
        <4> QED  BY <1>0, <4>1, SameKeysGood
      <3> QED  BY <1>0, <3>1, <3>2
    <2>4. Points' /\ Calls'
      <3>1. ASSUME Begin("sync", count, TRUE)  PROVE Points' /\ Calls'
        BY <1>0, <2>2, <3>1, BeginGood
      <3>2. ASSUME Goto("sync", "fallback") /\ UNCHANGED call  PROVE Points' /\ Calls'
        BY <1>0, <3>2, GotoGood DEF Places, Calls
      <3> QED  BY <1>2, <2>1, <3>1, <3>2 DEF CheckCount
    <2>5. Holdings'  BY <1>0, <1>2, <2>3 DEF CheckCount, Holdings
    <2>6. Counters'  BY <1>0, <1>2, <2>2 DEF CheckCount, Counters
    <2> QED  BY <2>4, <2>5, <2>6 DEF TypeInv
  <1>3. CASE CheckWithoutCount
    <2>1. Points' /\ Calls'
      <3>1. ASSUME Begin("sync", acct.count, TRUE)  PROVE Points' /\ Calls'
        BY <1>0, <3>1, BeginGood
      <3>2. ASSUME Goto("sync", "fallback") /\ UNCHANGED call  PROVE Points' /\ Calls'
        BY <1>0, <3>2, GotoGood DEF Places, Calls
      <3> QED  BY <1>3, <3>1, <3>2 DEF CheckWithoutCount
    <2>2. left' \in [Happenings -> Nat]
      <3>1. ASSUME Spend("trouble")  PROVE left' \in [Happenings -> Nat]
        BY <1>0, <3>1, SpendGood DEF Happenings
      <3> QED  BY <1>0, <1>3, <3>1 DEF CheckWithoutCount, Counters
    <2>3. Holdings' /\ Counters'
      BY <1>0, <1>3, <2>2 DEF CheckWithoutCount, Holdings, Counters, engine
    <2> QED  BY <2>1, <2>3 DEF TypeInv
  <1>4. CASE FallbackRests
    <2>1. Points'  BY <1>0, <1>4, GotoGood DEF FallbackRests, Places
    <2>2. Calls'  BY <1>0, <1>4, NoCallGood, SetCall DEF FallbackRests
    <2>3. Holdings'  BY <1>0, <1>4 DEF FallbackRests, Holdings
    <2>4. Counters'
      <3>1. 0 \in 0..Levels  BY ConstantFacts
      <3> QED  BY <1>0, <1>4, <3>1 DEF FallbackRests, Counters
    <2> QED  BY <2>1, <2>2, <2>3, <2>4 DEF TypeInv
  <1>5. CASE FallbackDue
    <2>1. acct' = acct \/ acct' = WithFallback(acct)  BY <1>5 DEF FallbackDue
    <2>2. GoodAccount(acct')  BY <1>0, <2>1, FallbackGood
    <2>3. PICK fb : fb = acct'.fb  OBVIOUS
    <2>4. fb \in Nat  BY <2>2, <2>3, AccountParts DEF GoodAccount
    <2> DEFINE new == [NoCall EXCEPT !.fb = fb]
    <2>5. NoCall \in Call /\ GoodBody(NoCall.keys)  BY NoCallGood
    <2>6. new \in Call /\ new.keys = NoCall.keys  BY <2>4, <2>5 DEF Call
    <2>7. call' = [call EXCEPT !["sync"] = new]  BY <1>5, <2>3 DEF FallbackDue
    <2> HIDE DEF new
    <2>8. Calls'  BY <1>0, <2>5, <2>6, <2>7, SetCall
    <2>9. Points'  BY <1>0, <1>5, GotoGood DEF FallbackDue, Places
    <2>10. Counters'
      <3>1. level + 1 \in 0..Levels
        BY <1>0, <1>5, ConstantFacts DEF FallbackDue, Waiting, Counters
      <3> QED  BY <1>0, <1>5, <3>1 DEF FallbackDue, Counters
    <2>11. Holdings'  BY <1>0, <1>5, <2>2 DEF FallbackDue, Holdings
    <2> QED  BY <2>8, <2>9, <2>10, <2>11 DEF TypeInv
  <1>6. CASE FallbackAccepted
    <2>1. server' \in Server  BY <1>0, <1>6, StoredGood DEF FallbackAccepted
    <2>2. GoodAccount(acct')  BY <1>0, <1>6, MarkedGood DEF FallbackAccepted
    <2>3. Calls'  BY <1>0, <1>6, NoCallGood, SetCall DEF FallbackAccepted
    <2>4. Points'  BY <1>0, <1>6, GotoGood DEF FallbackAccepted, Places
    <2>5. Holdings' /\ Counters'
      BY <1>0, <1>6, <2>1, <2>2 DEF FallbackAccepted, Holdings, Counters
    <2> QED  BY <2>3, <2>4, <2>5 DEF TypeInv
  <1>7. CASE FallbackSave
    <2>1. Points'  BY <1>0, <1>7, GotoGood DEF FallbackSave, Places
    <2>2. Holdings' /\ Counters' /\ Calls'
      BY <1>0, <1>7 DEF FallbackSave, Holdings, Counters, Calls, engine
    <2> QED  BY <2>1, <2>2 DEF TypeInv
  <1>8. CASE Forget
    <2>1. /\ acct' \in Account /\ acct'.keys = acct.keys /\ acct'.next = acct.next
          /\ acct'.fresh = acct.fresh
      BY <1>0, <1>8 DEF Forget, Account
    <2>2. GoodAccount(acct')  BY <1>0, <2>1, SameKeysGood
    <2>3. Holdings' /\ Counters' /\ Calls' /\ Points'
      BY <1>0, <1>8, <2>2 DEF Forget, Holdings, Counters, Calls, Points
    <2> QED  BY <2>3 DEF TypeInv
  <1> QED  BY <1>1, <1>2, <1>3, <1>4, <1>5, <1>6, <1>7, <1>8 DEF Loop

\* Claims leave the newest key of the pool, or none.
LEMMA Claimed ==
    ASSUME NEW p \in Seq(Key), NEW rest \in {0, 1}, rest < Len(p),
           NEW q, q = SubSeq(p, Len(p) - rest + 1, Len(p))
    PROVE  /\ q \in Seq(Key) /\ Len(q) = rest
           /\ rest = 1 => q[1] = p[Len(p)]
           /\ Elements(q) \subseteq Elements(p)
  <1>1. PICK l \in Nat : l = Len(p)  BY LenProperties
  <1>2. DOMAIN p = 1..l /\ \A i \in 1..l : p[i] \in Key  BY <1>1
  <1>3. PICK m \in Int : m = l - rest + 1
    <2>1. l - rest + 1 \in Int  OBVIOUS
    <2> QED  BY ONLY <2>1
  <1>4. l \in Int /\ q = SubSeq(p, m, l) /\ \A i \in m..l : p[i] \in Key  BY <1>1, <1>2, <1>3
  <1>5. /\ q \in Seq(Key)
        /\ Len(q) = IF m <= l THEN l - m + 1 ELSE 0
        /\ \A i \in 1..(l - m + 1) : q[i] = p[m + i - 1]
    BY <1>4, SubSeqProperties
  <1>6. Len(q) = rest  BY <1>3, <1>5
  <1>7. rest = 1 => q[1] = p[l]
    <2>1. rest = 1 => m = l /\ 1 \in 1..(l - m + 1) /\ m + 1 - 1 = l  BY <1>3
    <2> QED  BY <1>5, <2>1
  <1>8. DOMAIN q = 1..rest  BY <1>5, <1>6, LenProperties
  <1>9. Elements(q) \subseteq Elements(p)  BY <1>1, <1>2, <1>7, <1>8 DEF Elements
  <1> QED  BY <1>1, <1>5, <1>6, <1>7, <1>9

LEMMA PeersTypes ==
    ASSUME TypeInv, Claim \/ Crash \/ Switch \/ Login
    PROVE  TypeInv'
  <1>0. /\ GoodAccount(acct) /\ GoodAccount(disk) /\ server \in Server /\ server.pool \in Seq(Key)
        /\ acct \in Account /\ acct.shared \in BOOLEAN /\ acct.count \in Nat
        /\ Calls /\ Points /\ Counters
    BY DEF TypeInv, Holdings, GoodAccount, Account, Server
  <1>1. CASE Claim
    <2>1. PICK p \in Seq(Key) : \/ server' = [server EXCEPT !.pool = p]
                                \/ server' = [server EXCEPT !.used = TRUE]
      <3>1. ASSUME NEW rest \in {0, 1}, rest < Len(server.pool)
            PROVE  SubSeq(server.pool, Len(server.pool) - rest + 1, Len(server.pool)) \in Seq(Key)
        BY <1>0, <3>1, Claimed
      <3> QED  BY <1>0, <1>1, <3>1 DEF Claim
    <2>2. server' \in Server  BY <1>0, <2>1 DEF Server
    <2>3. left' \in [Happenings -> Nat]  BY <1>0, <1>1, SpendGood DEF Claim, Happenings
    <2> QED
      BY <1>0, <1>1, <2>2, <2>3 DEF Claim, TypeInv, Holdings, Calls, Points, Counters, engine
  <1>2. ASSUME NewProcess, Spend("trouble"), causes' \subseteq {"crash", "failed", "overlap", "switch"}
        PROVE  Calls' /\ Points' /\ Counters'
    <2>1. Calls'  BY <1>2, NoCallGood DEF NewProcess, Calls
    <2>2. Points'  BY <1>2 DEF NewProcess, Points, Places, Threads
    <2>3. left' \in [Happenings -> Nat]  BY <1>0, <1>2, SpendGood DEF Happenings
    <2>4. Counters'
      <3>1. 0 \in 0..Levels /\ (run \in Nat => run + 1 \in Nat)  BY ConstantFacts
      <3> QED  BY <1>0, <1>2, <2>3, <3>1 DEF NewProcess, Counters
    <2> QED  BY <2>1, <2>2, <2>4
  <1>3. CASE Crash
    <2>1. causes' \subseteq {"crash", "failed", "overlap", "switch"}
      BY <1>0, <1>3 DEF Crash, Counters
    <2>2. Holdings'  BY <1>0, <1>3 DEF Crash, Holdings
    <2> QED  BY <1>2, <1>3, <2>1, <2>2 DEF Crash, TypeInv
  <1>4. CASE Switch
    <2>1. causes' \subseteq {"crash", "failed", "overlap", "switch"}  BY <1>4 DEF Switch
    <2>2. Holdings'  BY <1>0, <1>4, FreshGood, NewDeviceGood DEF Switch, Holdings
    <2> QED  BY <1>2, <1>4, <2>1, <2>2 DEF Switch, TypeInv
  <1>5. CASE Login
    <2>1. "login" \in Threads  BY DEF Threads
    <2>2. Points' /\ Calls'  BY <1>0, <1>5, <2>1, BeginGood DEF Login
    <2>3. Holdings' /\ Counters'  BY <1>0, <1>5 DEF Login, Holdings, Counters, engine
    <2> QED  BY <2>2, <2>3 DEF TypeInv
  <1> QED  BY <1>1, <1>3, <1>4, <1>5

LEMMA NextTypes == ASSUME TypeInv, [Next]_vars PROVE TypeInv'
  <1>1. ASSUME NEW t \in Threads, Upload(t) \/ UploadFails(t)  PROVE TypeInv'
    BY <1>1, UploadTypes
  <1>2. CASE Loop  BY <1>2, LoopTypes
  <1>3. CASE Claim \/ Crash \/ Switch \/ Login  BY <1>3, PeersTypes
  <1>4. CASE UNCHANGED vars
    BY <1>4 DEF vars, engine, TypeInv, Holdings, Calls, Points, Counters
  <1> QED  BY <1>1, <1>2, <1>3, <1>4 DEF Next

\* The account and what is saved of it never hold more keys than libolm's list,
\* mark only keys that are in it as unpublished, and every upload, retry, lost
\* answer and restart leaves both records, the server's pool and the threads'
\* local variables of their types (sync_engine.cpp:681-830, 1373-1415).
THEOREM TypeCorrect == Spec => []TypeOK
  <1>1. TypeInv /\ [Next]_vars => TypeInv'  BY NextTypes
  <1>2. TypeInv => TypeOK  BY TypeInvImplies
  <1> QED  BY InitTypeInv, <1>1, <1>2, PTL DEF Spec
-----------------------------------------------------------------------------
(* What the server hands out while nothing has gone wrong.                 *)

\* An account backs a pool: it holds the keys of it; the newest of its list
\* are the pool and, newer, what is not uploaded yet; and the count it stores
\* is not below the size of the pool.
Backed(a, p) ==
    /\ Elements(p) \subseteq Elements(a.keys)
    /\ \A i, j \in DOMAIN a.keys :
          i < j /\ a.keys[j] \in Elements(p) \cup a.fresh
             => a.keys[i] \in Elements(p) \cup a.fresh
    /\ \A k \in a.fresh, h \in Elements(p) : h.id < k.id
    /\ Len(p) <= a.count

\* The fallback key of the server is the account's current one.
FallbackBacked(a, fb) == fb = 0 \/ (fb = a.fb /\ a.shared)

Rising(s) == \A i, j \in DOMAIN s : i < j => s[i].id < s[j].id

Saving == \E t \in Threads : pc[t] \in {"save", "fbSave"}

\* One thread uploads at a time.
Alone == ~(Busy("login") /\ Busy("sync"))

Memory == Rising(server.pool) /\ Backed(acct, server.pool)

Unsent == acct.fresh # {} => \E t \in Threads : pc[t] = "upload"

FallbackKept ==
    /\ pc["sync"] # "fbUpload" => FallbackBacked(acct, server.fb)
    /\ pc["sync"] = "fbUpload" =>
          /\ acct.shared /\ call["sync"].keys = {} /\ call["sync"].fb = acct.fb
          /\ acct.fb # 0 \/ server.fb = 0
          /\ server.fb \in {0, acct.fb, acct.prev}

\* What a thread on its way through uploadDeviceKeys knows.
Underway(t) ==
    /\ pc[t] \in {"check", "discard", "build", "upload"} => Len(server.pool) <= call[t].known
    /\ pc[t] \in {"discard", "build", "upload"} =>
          call[t].needed = Needed(call[t].known) /\ (call[t].device \/ acct.shared)
    /\ pc[t] = "upload" =>
          /\ acct.fresh = call[t].keys
          /\ Cardinality(acct.fresh) <= call[t].needed
          /\ call[t].fb \in {0, acct.fb}

\* Between an upload and its save the saved account may lag behind.
Saved ==
    ~Saving => Backed(disk, server.pool) /\ disk.fresh = {} /\ FallbackBacked(disk, server.fb)

Calm == Alone /\ Memory /\ Unsent /\ FallbackKept /\ (\A t \in Threads : Underway(t)) /\ Saved

CalmInv == causes = {} => Calm

\* Lists of keys that back a pool.
LEMMA BackedSame ==
    ASSUME NEW a \in Account, NEW p \in Seq(Key), Backed(a, p), NEW b \in Account,
           b.keys = a.keys, b.fresh = a.fresh, Len(p) <= b.count
    PROVE  Backed(b, p)
  BY DEF Backed

\* A key of the pool is not further down the list than the pool is long.
LEMMA PoolComesFirst ==
    ASSUME NEW a, GoodAccount(a), a.fresh = {}, NEW p \in Seq(Key), Backed(a, p),
           NEW i \in DOMAIN a.keys, a.keys[i] \in Elements(p)
    PROVE  i <= Len(p)
  <1>1. /\ Falling(a) /\ Len(a.keys) \in Nat /\ DOMAIN a.keys = 1..Len(a.keys)
        /\ \A j \in DOMAIN a.keys : a.keys[j] \in Key
    BY AccountParts DEF GoodAccount
  <1>2. i \in Nat /\ \A j \in 1..i : j \in DOMAIN a.keys  BY <1>1
  <1>3. \A j \in 1..i : a.keys[j] \in Elements(p)
    BY <1>2 DEF Backed
  <1> DEFINE f == [j \in 1..i |-> a.keys[j]]
  <1>4. ASSUME NEW j \in 1..i, NEW k \in 1..i, f[j] = f[k]  PROVE j = k
    <2>1. a.keys[j] = a.keys[k] /\ j \in DOMAIN a.keys /\ k \in DOMAIN a.keys  BY <1>2, <1>4
    <2>2. a.keys[j].id \in Int  BY <1>1, <2>1 DEF Key
    <2>3. /\ j < k => a.keys[k].id < a.keys[j].id
          /\ k < j => a.keys[j].id < a.keys[k].id
      BY <1>1, <2>1 DEF Falling
    <2>4. ~(j < k) /\ ~(k < j)  BY <2>1, <2>2, <2>3
    <2> QED  BY <1>2, <2>4
  <1>5. f \in Injection(1..i, Elements(p))
    <2>1. f \in [1..i -> Elements(p)]  BY <1>3
    <2> QED  BY <1>4, <2>1 DEF Injection, IsInjective
  <1> HIDE DEF f
  <1>6. IsFiniteSet(Elements(p)) /\ Cardinality(Elements(p)) <= Len(p)  BY ElementsFinite
  <1>7. Cardinality(1..i) <= Cardinality(Elements(p))  BY <1>5, <1>6, FS_Injection
  <1>8. Cardinality(1..i) = i  BY <1>2, Numbers
  <1>9. Cardinality(Elements(p)) \in Nat /\ Len(p) \in Nat
    BY <1>6, FS_CardinalityType, LenProperties
  <1> QED  BY <1>2, <1>6, <1>7, <1>8, <1>9

LEMMA Shift ==
    ASSUME NEW n \in Nat, NEW l \in Nat, NEW m \in Nat, m <= n + l,
           NEW i \in Int, NEW j \in Int, n < i, i < j, j <= m
    PROVE  i - n \in 1..l /\ j - n \in 1..l /\ i - n < j - n
  OBVIOUS

LEMMA Further ==
    ASSUME NEW n \in Nat, NEW i \in Nat, i >= 1, NEW m, m = n + i
    PROVE  m \in Nat /\ m >= 1 /\ ~(m <= n) /\ m - n = i
  OBVIOUS

\* New keys for a count that is not below the size of the pool push no key of
\* the pool out of the list, and are newer than all of it.
LEMMA BuildBacks ==
    ASSUME NEW a, GoodAccount(a), a.fresh = {}, NEW p \in Seq(Key), Backed(a, p),
           NEW known \in Nat, Len(p) <= known, NEW n, n = Needed(known), run \in Nat,
           NEW b, b = WithKeys(a, n)
    PROVE  Backed(b, p) /\ Cardinality(b.fresh) <= n
  <1> DEFINE news == {NewKey(a, n, i) : i \in 1..n}
  <1>0. a \in Account /\ n \in Nat /\ Len(p) \in Nat  BY NeededNat, LenProperties DEF GoodAccount
  <1>1. /\ Falling(a) /\ Len(a.keys) \in Nat /\ DOMAIN a.keys = 1..Len(a.keys)
        /\ \A j \in DOMAIN a.keys : a.keys[j] \in Key
        /\ a.next \in Nat /\ a.count \in Nat
    BY AccountParts DEF GoodAccount
  <1>2. /\ b.keys \in Seq(Key)
        /\ Len(b.keys) = IF n + Len(a.keys) < MaxKeys THEN n + Len(a.keys) ELSE MaxKeys
        /\ \A i \in 1..Len(b.keys) :
              b.keys[i] = IF i <= n THEN NewKey(a, n, i) ELSE a.keys[i - n]
        /\ b.fresh = ({} \cup news) \cap Elements(b.keys)
        /\ b.count = a.count
    BY <1>0, Generated
  <1>3. Len(b.keys) \in Nat /\ DOMAIN b.keys = 1..Len(b.keys)  BY <1>2, LenProperties
  <1>4. \A i \in 1..Len(a.keys) : a.keys[i].id \in Nat /\ a.keys[i].id < a.next
    BY <1>1 DEF Falling, Key
  <1>5. \A k \in news : k.id >= a.next /\ k.id \in Nat
    <2>1. ASSUME NEW i \in 1..n  PROVE NewKey(a, n, i).id = a.next + n - i  BY DEF NewKey
    <2>2. ASSUME NEW i \in 1..n  PROVE a.next + n - i >= a.next /\ a.next + n - i \in Nat
      BY <1>0, <1>1
    <2> QED  BY <2>1, <2>2
  <1>6. \A h \in Elements(p) : \E i \in 1..Len(a.keys) : h = a.keys[i] /\ i <= Len(p)
    <2>1. ASSUME NEW h \in Elements(p)
          PROVE  \E i \in 1..Len(a.keys) : h = a.keys[i] /\ i <= Len(p)
      <3>1. PICK i \in DOMAIN a.keys : h = a.keys[i]  BY DEF Backed, Elements
      <3>2. i <= Len(p)  BY <3>1, PoolComesFirst
      <3> QED  BY <1>1, <3>1, <3>2
    <2> QED  BY <2>1
  <1>7. \A k \in b.fresh, h \in Elements(p) : h.id < k.id
    <2>1. ASSUME NEW k \in b.fresh, NEW h \in Elements(p)  PROVE h.id < k.id
      <3>1. k \in news  BY <1>2
      <3>2. h.id \in Nat /\ h.id < a.next  BY <1>4, <1>6
      <3> QED  BY <1>1, <1>5, <3>1, <3>2
    <2> QED  BY <2>1
  <1>8. Elements(p) \subseteq Elements(b.keys)
    <2>1. ASSUME NEW h \in Elements(p)  PROVE h \in Elements(b.keys)
      <3>1. PICK i \in 1..Len(a.keys) : h = a.keys[i] /\ i <= Len(p)  BY <1>6
      <3>2. i \in Nat /\ i >= 1 /\ i <= Len(a.keys) /\ i <= known  BY <1>0, <1>1, <3>1
      <3>3. n + i <= MaxKeys \/ n = 0  BY <3>2, ConstantFacts DEF Needed
      <3>4. Len(a.keys) <= MaxKeys  BY DEF GoodAccount
      <3>5. n + i <= Len(b.keys)
        <4>1. n + i <= MaxKeys  BY <1>0, <1>1, <3>2, <3>3, <3>4, ConstantFacts
        <4>2. n + i <= n + Len(a.keys)  BY <1>0, <1>1, <3>2
        <4> QED  BY <1>2, <4>1, <4>2
      <3>6. \A m \in 1..Len(b.keys) : ~(m <= n) => b.keys[m] = a.keys[m - n]  BY <1>2
      <3>7. PICK m : m = n + i  OBVIOUS
      <3>8. m \in Nat /\ m >= 1 /\ ~(m <= n) /\ m - n = i  BY <1>0, <3>2, <3>7, Further
      <3>9. m \in 1..Len(b.keys)  BY <1>3, <3>5, <3>7, <3>8
      <3>10. b.keys[m] = a.keys[m - n]  BY <3>6, <3>8, <3>9, Zenon
      <3>11. b.keys[m] = h  BY <3>1, <3>8, <3>10, Zenon
      <3> QED  BY <1>3, <3>9, <3>11 DEF Elements
    <2> QED  BY <2>1
  <1>9. ASSUME NEW i \in DOMAIN b.keys, NEW j \in DOMAIN b.keys, i < j,
               b.keys[j] \in Elements(p) \cup b.fresh
        PROVE  b.keys[i] \in Elements(p) \cup b.fresh
    <2>0. i \in 1..Len(b.keys) /\ j \in 1..Len(b.keys) /\ i \in Nat /\ j \in Nat /\ i >= 1
      BY <1>3
    <2>1. CASE i <= n
      <3>1. b.keys[i] = NewKey(a, n, i) /\ i \in 1..n  BY <1>2, <2>0, <2>1
      <3>2. b.keys[i] \in Elements(b.keys)  BY DEF Elements
      <3> QED  BY <1>2, <3>1, <3>2
    <2>2. CASE i > n
      <3>1. i - n \in 1..Len(a.keys) /\ j - n \in 1..Len(a.keys) /\ i - n < j - n
        <4>1. Len(b.keys) <= n + Len(a.keys)  BY <1>0, <1>1, <1>2, ConstantFacts
        <4>2. i \in Int /\ j \in Int /\ n < i /\ j <= Len(b.keys)  BY <1>0, <1>3, <2>0, <2>2
        <4> QED  BY <1>0, <1>1, <1>3, <1>9, <4>1, <4>2, Shift
      <3>2. ~(i <= n) /\ ~(j <= n)  BY <1>0, <1>9, <2>0, <2>2
      <3>3. b.keys[i] = a.keys[i - n] /\ b.keys[j] = a.keys[j - n]  BY <1>2, <2>0, <3>2
      <3>4. b.keys[j] \notin news
        <4>1. a.keys[j - n].id < a.next /\ a.keys[j - n].id \in Nat  BY <1>4, <3>1
        <4> QED  BY <1>1, <1>5, <3>3, <4>1
      <3>5. a.keys[j - n] \in Elements(p)  BY <1>2, <1>9, <3>3, <3>4
      <3>6. a.keys[i - n] \in Elements(p)  BY <1>1, <3>1, <3>5 DEF Backed
      <3> QED  BY <3>3, <3>6
    <2> QED  BY <1>0, <2>0, <2>1, <2>2
  <1>10. Len(p) <= b.count  BY <1>2 DEF Backed
  <1>11. Cardinality(b.fresh) <= n
    <2> DEFINE f == [i \in 1..n |-> NewKey(a, n, i)]
    <2>1. f \in Surjection(1..n, news)  BY DEF Surjection
    <2>2. IsFiniteSet(1..n) /\ Cardinality(1..n) = n  BY <1>0, Numbers
    <2> HIDE DEF f
    <2>3. IsFiniteSet(news) /\ Cardinality(news) <= n  BY <2>1, <2>2, FS_Surjection
    <2>4. b.fresh \in SUBSET news  BY <1>2
    <2> HIDE DEF news
    <2>5. Cardinality(b.fresh) <= Cardinality(news) /\ IsFiniteSet(b.fresh)
      BY <2>3, <2>4, FS_Subset
    <2>6. Cardinality(news) \in Nat /\ Cardinality(b.fresh) \in Nat
      BY <2>3, <2>5, FS_CardinalityType
    <2> QED  BY <1>0, <2>3, <2>5, <2>6
  <1> QED  BY <1>7, <1>8, <1>9, <1>10, <1>11 DEF Backed

\* What arrived is as new as it was before, and joins the end of the pool.
LEMMA AcceptBacks ==
    ASSUME NEW a, GoodAccount(a), NEW p \in Seq(Key), Backed(a, p), Rising(p),
           NEW known \in Nat, NEW needed \in Nat, Len(p) <= known,
           Cardinality(a.fresh) <= needed,
           NEW more \in Seq(Key), Elements(more) = a.fresh \ Elements(p), Rising(more),
           Len(more) = Cardinality(a.fresh \ Elements(p)),
           NEW b, b.keys = a.keys, b.fresh = {},
           b.count = IF needed > 0 THEN known + needed ELSE a.count,
           NEW q, q = p \o more
    PROVE  Backed(b, q) /\ Rising(q) /\ q \in Seq(Key)
  <1>1. /\ a.count \in Nat /\ Len(a.keys) \in Nat /\ DOMAIN a.keys = 1..Len(a.keys)
        /\ a.fresh \subseteq Elements(a.keys)
    BY AccountParts DEF GoodAccount
  <1>2. /\ Len(p) \in Nat /\ Len(more) \in Nat
        /\ DOMAIN p = 1..Len(p) /\ DOMAIN more = 1..Len(more)
    BY LenProperties
  <1>3. /\ q \in Seq(Key) /\ Len(q) = Len(p) + Len(more)
        /\ \A i \in 1..(Len(p) + Len(more)) :
              q[i] = IF i <= Len(p) THEN p[i] ELSE more[i - Len(p)]
    BY ConcatProperties
  <1>4. DOMAIN q = 1..(Len(p) + Len(more))  BY <1>3, LenProperties
  <1>5. ASSUME NEW i \in DOMAIN q
        PROVE  \/ i \in DOMAIN p /\ q[i] = p[i] /\ i <= Len(p)
               \/ i > Len(p) /\ i - Len(p) \in DOMAIN more /\ q[i] = more[i - Len(p)]
    <2>1. i \in Int /\ 1 <= i /\ i <= Len(p) + Len(more)  BY <1>2, <1>4
    <2>2. CASE i <= Len(p)
      BY <1>2, <1>3, <1>4, <2>1, <2>2
    <2>3. CASE ~(i <= Len(p))
      <3>1. i > Len(p) /\ i - Len(p) \in 1..Len(more)  BY <1>2, <2>1, <2>3
      <3> QED  BY <1>2, <1>3, <1>4, <2>3, <3>1
    <2> QED  BY <2>2, <2>3
  <1>6. Elements(q) = Elements(p) \cup Elements(more)
    <2>1. Elements(q) \subseteq Elements(p) \cup Elements(more)
      <3>1. ASSUME NEW h \in Elements(q)  PROVE h \in Elements(p) \cup Elements(more)
        <4>1. PICK i \in DOMAIN q : h = q[i]  BY DEF Elements
        <4>2. CASE i \in DOMAIN p /\ q[i] = p[i]  BY <4>1, <4>2 DEF Elements
        <4>3. CASE i - Len(p) \in DOMAIN more /\ q[i] = more[i - Len(p)]
          <5>1. PICK m \in DOMAIN more : m = i - Len(p)  BY <4>3
          <5> QED  BY <4>1, <4>3, <5>1 DEF Elements
        <4> QED  BY <1>5, <4>2, <4>3
      <3> QED  BY <3>1
    <2>2. Elements(p) \subseteq Elements(q)
      <3>1. ASSUME NEW i \in DOMAIN p  PROVE i \in DOMAIN q /\ q[i] = p[i]
        <4>1. i \in 1..(Len(p) + Len(more)) /\ i <= Len(p)  BY <1>2
        <4> QED  BY <1>3, <1>4, <4>1
      <3> QED  BY <3>1 DEF Elements
    <2>3. Elements(more) \subseteq Elements(q)
      <3>1. ASSUME NEW i \in DOMAIN more  PROVE \E m \in DOMAIN q : q[m] = more[i]
        <4>1. PICK m : m = Len(p) + i  OBVIOUS
        <4>2. i \in Nat /\ i >= 1 /\ i <= Len(more)  BY <1>2
        <4>3. m \in Nat /\ m >= 1 /\ ~(m <= Len(p)) /\ m - Len(p) = i
          BY <1>2, <4>1, <4>2, Further
        <4>4. m \in 1..(Len(p) + Len(more))  BY <1>2, <4>1, <4>2, <4>3
        <4>5. q[m] = more[m - Len(p)]  BY <1>3, <4>3, <4>4
        <4> QED  BY <1>4, <4>3, <4>4, <4>5
      <3>2. ASSUME NEW h \in Elements(more)  PROVE h \in Elements(q)
        <4>1. PICK i \in DOMAIN more : h = more[i]  BY DEF Elements
        <4>2. PICK m \in DOMAIN q : q[m] = more[i]  BY <3>1
        <4> QED  BY <4>1, <4>2 DEF Elements
      <3> QED  BY <3>2
    <2> QED  BY <2>1, <2>2, <2>3
  <1>7. Elements(q) = Elements(p) \cup a.fresh  BY <1>6
  <1>8. \A h \in Elements(p), k \in Elements(more) : h.id < k.id  BY DEF Backed
  <1>9. Rising(q)
    <2>1. ASSUME NEW i \in DOMAIN q, NEW j \in DOMAIN q, i < j  PROVE q[i].id < q[j].id
      <3>0. i \in Int /\ j \in Int /\ Len(p) \in Int  BY <1>2, <1>4
      <3>1. CASE j \in DOMAIN p /\ q[j] = p[j] /\ j <= Len(p)
        <4>1. i \in DOMAIN p /\ q[i] = p[i]  BY <1>5, <2>1, <3>0, <3>1
        <4> QED  BY <2>1, <3>1, <4>1 DEF Rising
      <3>2. CASE j > Len(p) /\ j - Len(p) \in DOMAIN more /\ q[j] = more[j - Len(p)]
        <4>1. CASE i \in DOMAIN p /\ q[i] = p[i]
          BY <1>8, <3>2, <4>1 DEF Elements
        <4>2. CASE i > Len(p) /\ i - Len(p) \in DOMAIN more /\ q[i] = more[i - Len(p)]
          <5>1. i - Len(p) < j - Len(p)  BY <2>1, <3>0
          <5> QED  BY <3>2, <4>2, <5>1 DEF Rising
        <4> QED  BY <1>5, <4>1, <4>2
      <3> QED  BY <1>5, <3>1, <3>2
    <2> QED  BY <2>1 DEF Rising
  <1>10. Len(q) <= b.count
    <2>1. IsFiniteSet(a.fresh) /\ (a.fresh \ Elements(p)) \in SUBSET a.fresh
      BY FreshBody DEF GoodBody
    <2>2. Len(more) <= Cardinality(a.fresh) /\ Cardinality(a.fresh) \in Nat
      BY <2>1, FS_Subset, FS_CardinalityType
    <2>3. Len(more) <= needed  BY <1>2, <2>2
    <2>4. Len(p) <= a.count  BY DEF Backed
    <2> QED  BY <1>1, <1>2, <1>3, <2>3, <2>4
  <1>11. Backed(b, q)
    <2>1. Elements(q) \subseteq Elements(b.keys)  BY <1>1, <1>7 DEF Backed
    <2>2. ASSUME NEW i \in DOMAIN b.keys, NEW j \in DOMAIN b.keys, i < j,
                 b.keys[j] \in Elements(q) \cup b.fresh
          PROVE  b.keys[i] \in Elements(q) \cup b.fresh
      BY <1>7, <2>2 DEF Backed
    <2> QED  BY <1>10, <2>1, <2>2 DEF Backed
  <1> QED  BY <1>3, <1>9, <1>11

\* A claim takes the oldest keys of the pool; what is left is the newest part.
LEMMA ClaimBacks ==
    ASSUME NEW a, GoodAccount(a), NEW p \in Seq(Key), Backed(a, p), Rising(p),
           NEW q \in Seq(Key), Len(q) \in {0, 1}, Len(q) < Len(p),
           Len(q) = 1 => q[1] = p[Len(p)]
    PROVE  Backed(a, q) /\ Rising(q)
  <1>1. /\ Len(a.keys) \in Nat /\ DOMAIN a.keys = 1..Len(a.keys) /\ Falling(a) /\ a.count \in Nat
        /\ \A i \in DOMAIN a.keys : a.keys[i] \in Key
    BY AccountParts DEF GoodAccount
  <1>2. /\ Len(p) \in Nat /\ DOMAIN p = 1..Len(p) /\ DOMAIN q = 1..Len(q)
        /\ \A i \in 1..Len(p) : p[i] \in Key
    BY LenProperties
  <1>3. Rising(q)
    <2>1. \A i, j \in DOMAIN q : i = 1 /\ j = 1  BY <1>2
    <2> QED  BY <2>1 DEF Rising
  <1>4. Elements(q) \subseteq Elements(p)
    <2>1. Len(q) = 1 => Len(p) \in DOMAIN p  BY <1>2
    <2>2. \A i \in DOMAIN q : i = 1 /\ Len(q) = 1  BY <1>2
    <2> QED  BY <2>1, <2>2 DEF Elements
  <1>5. \A h \in Elements(q), g \in Elements(p) : ~(h.id < g.id)
    <2>1. ASSUME NEW h \in Elements(q), NEW g \in Elements(p)  PROVE ~(h.id < g.id)
      <3>1. PICK i \in DOMAIN q : h = q[i]  BY DEF Elements
      <3>2. i = 1 /\ Len(q) = 1  BY <1>2
      <3>3. h = p[Len(p)]  BY <3>1, <3>2
      <3>4. PICK j \in 1..Len(p) : g = p[j]  BY <1>2 DEF Elements
      <3>5. Len(p) \in 1..Len(p)  BY <1>2, <3>2
      <3>6. h.id \in Nat /\ g.id \in Nat  BY <1>2, <3>3, <3>4, <3>5 DEF Key
      <3>7. CASE j = Len(p)  BY <3>3, <3>4, <3>6, <3>7
      <3>8. CASE j < Len(p)
        <4>1. p[j].id < p[Len(p)].id  BY <1>2, <3>5, <3>8 DEF Rising
        <4> QED  BY <3>3, <3>4, <3>6, <4>1
      <3>9. j < Len(p) \/ j = Len(p)
        <4>1. j \in Int /\ j <= Len(p) /\ Len(p) \in Int  BY <1>2
        <4> QED  BY <4>1
      <3> QED  BY <3>7, <3>8, <3>9
    <2> QED  BY <2>1
  <1>6. ASSUME NEW i \in DOMAIN a.keys, NEW j \in DOMAIN a.keys, i < j,
               a.keys[j] \in Elements(q) \cup a.fresh
        PROVE  a.keys[i] \in Elements(q) \cup a.fresh
    <2>1. a.keys[j] \in Elements(p) \cup a.fresh  BY <1>4, <1>6
    <2>2. a.keys[i] \in Elements(p) \cup a.fresh  BY <1>6, <2>1 DEF Backed
    <2>3. a.keys[j].id < a.keys[i].id /\ a.keys[j].id \in Nat /\ a.keys[i].id \in Nat
      BY <1>1, <1>6 DEF Falling, Key
    <2>4. CASE a.keys[i] \in Elements(p)
      <3>1. a.keys[j] \notin Elements(q)  BY <1>5, <2>3, <2>4
      <3>2. a.keys[i].id < a.keys[j].id  BY <1>6, <2>4, <3>1 DEF Backed
      <3> QED  BY <2>3, <3>2
    <2> QED  BY <2>2, <2>4
  <1>7. \A k \in a.fresh, h \in Elements(q) : h.id < k.id  BY <1>4 DEF Backed
  <1>8. Len(q) <= a.count
    <2>1. Len(p) <= a.count  BY DEF Backed
    <2> QED  BY <1>1, <1>2, <2>1
  <1>9. Elements(q) \subseteq Elements(a.keys)  BY <1>4 DEF Backed
  <1> QED  BY <1>3, <1>6, <1>7, <1>8, <1>9 DEF Backed

\* A thread in uploadDeviceKeys: the other one rests, and nothing but what it
\* is about to upload is unpublished.
LEMMA UploadContext ==
    ASSUME TypeInv, Calm, NEW t \in Threads, pc[t] \in {"discard", "build", "upload", "save"}
    PROVE  /\ \A u \in Threads \ {t} : pc[u] \in {"start", "done", "idle"}
           /\ pc["sync"] # "fbUpload" /\ FallbackBacked(acct, server.fb)
           /\ pc[t] # "upload" => acct.fresh = {}
           /\ pc[t] # "save" => ~Saving
           /\ Rising(server.pool) /\ Backed(acct, server.pool) /\ Underway(t)
           /\ GoodAccount(acct) /\ GoodAccount(disk) /\ acct \in Account /\ disk \in Account
           /\ server.pool \in Seq(Key) /\ server \in Server /\ server.fb \in Nat
           /\ call[t] \in Call /\ GoodBody(call[t].keys) /\ run \in Nat
  <1>1. \A u \in Threads \ {t} : pc[u] \in {"start", "done", "idle"}
    BY DEF Calm, Alone, Busy, Threads
  <1>2. pc["sync"] # "fbUpload"  BY <1>1 DEF Threads
  <1>3. FallbackBacked(acct, server.fb)  BY <1>2 DEF Calm, FallbackKept
  <1>4. pc[t] # "upload" => acct.fresh = {}  BY <1>1 DEF Calm, Unsent
  <1>5. pc[t] # "save" => ~Saving  BY <1>1 DEF Saving
  <1>6. /\ GoodAccount(acct) /\ GoodAccount(disk) /\ acct \in Account /\ disk \in Account
        /\ server.pool \in Seq(Key) /\ server \in Server /\ server.fb \in Nat
        /\ call[t] \in Call /\ GoodBody(call[t].keys) /\ run \in Nat
    BY DEF TypeInv, Holdings, GoodAccount, Server, Calls, Counters
  <1> QED  BY <1>1, <1>2, <1>3, <1>4, <1>5, <1>6 DEF Calm, Memory

LEMMA UploadClosing ==
    ASSUME TypeInv, NEW t \in Threads,
           \A u \in Threads \ {t} : pc[u] \in {"start", "done", "idle"} /\ pc'[u] = pc[u],
           pc'[t] # "fbUpload",
           Rising(server'.pool), Backed(acct', server'.pool),
           acct'.fresh = {} \/ pc'[t] = "upload",
           FallbackBacked(acct', server'.fb), Underway(t)',
           pc'[t] # "save" => Backed(disk', server'.pool) /\ disk'.fresh = {}
                                 /\ FallbackBacked(disk', server'.fb)
    PROVE  Calm'
  <1>1. Alone'  BY DEF Alone, Busy, Threads
  <1>2. Memory'  BY DEF Memory
  <1>3. Unsent'  BY DEF Unsent
  <1>4. FallbackKept'
    <2>1. pc'["sync"] # "fbUpload"  BY DEF Threads
    <2> QED  BY <2>1 DEF FallbackKept
  <1>5. \A u \in Threads : Underway(u)'
    <2>1. ASSUME NEW u \in Threads \ {t}  PROVE Underway(u)'
      <3>1. pc'[u] \in {"start", "done", "idle"}  OBVIOUS
      <3> QED  BY <3>1 DEF Underway
    <2> QED  BY <2>1
  <1>6. Saved'
    <2>1. ~Saving' => pc'[t] # "save"  BY DEF Saving
    <2> QED  BY <2>1 DEF Saved
  <1> QED  BY <1>1, <1>2, <1>3, <1>4, <1>5, <1>6 DEF Calm

LEMMA DiscardCalm ==
    ASSUME TypeInv, Calm, NEW t \in Threads, Discard(t)
    PROVE  Calm'
  <1>0. /\ \A u \in Threads \ {t} : pc[u] \in {"start", "done", "idle"}
        /\ FallbackBacked(acct, server.fb) /\ acct.fresh = {} /\ ~Saving
        /\ Rising(server.pool) /\ Backed(acct, server.pool) /\ Underway(t)
        /\ GoodAccount(acct) /\ acct \in Account /\ server.pool \in Seq(Key)
        /\ pc[t] = "discard"
    BY UploadContext DEF Discard
  <1>1. pc'[t] = "build" /\ \A u \in Threads \ {t} : pc'[u] = pc[u]
    BY GotoGood DEF Discard, TypeInv, Places
  <1>2. UNCHANGED <<disk, server, call>> /\ acct' = Marked(acct)  BY DEF Discard
  <1>3. /\ acct'.keys = acct.keys /\ acct'.fresh = acct.fresh /\ acct'.fb = acct.fb
        /\ acct'.shared = acct.shared /\ acct'.count = acct.count /\ acct' \in Account
    BY <1>0, <1>2, MarkedGood DEF GoodAccount
  <1>4. Backed(acct', server.pool)
    <2>1. Len(server.pool) <= acct'.count  BY <1>0, <1>3 DEF Backed
    <2> QED  BY <1>0, <1>3, <2>1, BackedSame
  <1>5. FallbackBacked(acct', server.fb)  BY <1>0, <1>3 DEF FallbackBacked
  <1>6. Underway(t)'  BY <1>0, <1>1, <1>2, <1>3 DEF Underway
  <1>7. Backed(disk, server.pool) /\ disk.fresh = {} /\ FallbackBacked(disk, server.fb)
    BY <1>0 DEF Calm, Saved
  <1> QED  BY <1>0, <1>1, <1>2, <1>3, <1>4, <1>5, <1>6, <1>7, UploadClosing

LEMMA BuildCalm ==
    ASSUME TypeInv, Calm, NEW t \in Threads, Build(t)
    PROVE  Calm'
  <1>0. /\ \A u \in Threads \ {t} : pc[u] \in {"start", "done", "idle"}
        /\ FallbackBacked(acct, server.fb) /\ acct.fresh = {} /\ ~Saving
        /\ Rising(server.pool) /\ Backed(acct, server.pool) /\ Underway(t)
        /\ GoodAccount(acct) /\ acct \in Account /\ server.pool \in Seq(Key)
        /\ call[t] \in Call /\ run \in Nat /\ server.fb \in Nat
        /\ pc[t] = "build"
    BY UploadContext DEF Build
  <1>1. pc'[t] = "upload" /\ \A u \in Threads \ {t} : pc'[u] = pc[u]
    BY GotoGood DEF Build, TypeInv, Places
  <1>2. PICK more : more = WithKeys(acct, call[t].needed)  OBVIOUS
  <1>3. /\ UNCHANGED <<disk, server>>
        /\ acct' = IF acct.shared \/ more.fbFresh THEN more ELSE WithFallback(more)
        /\ call' = [call EXCEPT ![t].keys = acct'.fresh, ![t].fb = IF acct.shared THEN 0 ELSE acct'.fb]
    BY <1>2 DEF Build
  <1>4. /\ Len(server.pool) <= call[t].known /\ call[t].needed = Needed(call[t].known)
        /\ call[t].device \/ acct.shared
        /\ call[t].known \in Nat /\ call[t].needed \in Nat
    BY <1>0 DEF Underway, Call
  <1>5. Backed(more, server.pool) /\ Cardinality(more.fresh) <= call[t].needed
    BY <1>0, <1>2, <1>4, BuildBacks
  <1>6. /\ GoodAccount(more) /\ more \in Account
        /\ more.shared = acct.shared /\ more.fb = acct.fb /\ more.count = acct.count
    <2>1. GoodAccount(more) /\ more \in Account
      BY <1>0, <1>2, <1>4, WithKeysGood DEF GoodAccount
    <2>2. more.shared = acct.shared /\ more.fb = acct.fb /\ more.count = acct.count
      BY <1>0, <1>2, <1>4, Generated
    <2> QED  BY <2>1, <2>2
  <1>7. /\ acct' \in Account /\ acct'.keys = more.keys /\ acct'.fresh = more.fresh
        /\ acct'.count = more.count /\ acct'.shared = acct.shared
        /\ acct.shared => acct'.fb = acct.fb
    BY <1>0, <1>3, <1>6, FallbackGood DEF GoodAccount
  <1>8. Backed(acct', server.pool)
    <2>1. Len(server.pool) <= acct'.count  BY <1>5, <1>7 DEF Backed
    <2> QED  BY <1>0, <1>5, <1>6, <1>7, <2>1, BackedSame
  <1>9. FallbackBacked(acct', server.fb)  BY <1>0, <1>7 DEF FallbackBacked
  <1>10. /\ call'[t].known = call[t].known /\ call'[t].needed = call[t].needed
         /\ call'[t].device = call[t].device
         /\ call'[t].keys = acct'.fresh /\ call'[t].fb \in {0, acct'.fb}
    <2>1. PICK body : body = acct'.fresh  OBVIOUS
    <2>2. PICK fb : fb = IF acct.shared THEN 0 ELSE acct'.fb  OBVIOUS
    <2>3. call' = [call EXCEPT ![t].keys = body, ![t].fb = fb]  BY <1>3, <2>1, <2>2
    <2>4. call \in [Threads -> Call]  BY DEF TypeInv, Calls
    <2>5. /\ call'[t].known = call[t].known /\ call'[t].needed = call[t].needed
          /\ call'[t].device = call[t].device /\ call'[t].keys = body /\ call'[t].fb = fb
      BY <2>3, <2>4 DEF Call
    <2> QED  BY <2>1, <2>2, <2>5
  <1>11. Underway(t)'
    <2>1. Len(server'.pool) <= call'[t].known  BY <1>3, <1>4, <1>10
    <2>2. call'[t].needed = Needed(call'[t].known) /\ (call'[t].device \/ acct'.shared)
      BY <1>4, <1>7, <1>10
    <2>3. acct'.fresh = call'[t].keys /\ Cardinality(acct'.fresh) <= call'[t].needed
      BY <1>5, <1>7, <1>10
    <2> QED  BY <1>10, <2>1, <2>2, <2>3 DEF Underway
  <1>12. Backed(disk, server.pool) /\ disk.fresh = {} /\ FallbackBacked(disk, server.fb)
    BY <1>0 DEF Calm, Saved
  <1> QED  BY <1>0, <1>1, <1>3, <1>8, <1>9, <1>11, <1>12, UploadClosing

LEMMA AcceptedCalm ==
    ASSUME TypeInv, Calm, NEW t \in Threads, UploadAccepted(t)
    PROVE  Calm'
  <1>0. /\ \A u \in Threads \ {t} : pc[u] \in {"start", "done", "idle"}
        /\ FallbackBacked(acct, server.fb) /\ ~Saving
        /\ Rising(server.pool) /\ Backed(acct, server.pool) /\ Underway(t)
        /\ GoodAccount(acct) /\ acct \in Account /\ server.pool \in Seq(Key) /\ server \in Server
        /\ call[t] \in Call /\ GoodBody(call[t].keys) /\ server.fb \in Nat
        /\ pc[t] = "upload"
    BY UploadContext DEF UploadAccepted
  <1>1. pc'[t] = "save" /\ \A u \in Threads \ {t} : pc'[u] = pc[u]
    BY GotoGood DEF UploadAccepted, TypeInv, Places
  <1>2. UNCHANGED <<disk, call>> /\ server' = Stored(call[t])  BY DEF UploadAccepted
  <1>3. /\ Len(server.pool) <= call[t].known
        /\ call[t].device \/ acct.shared
        /\ acct.fresh = call[t].keys /\ Cardinality(acct.fresh) <= call[t].needed
        /\ call[t].fb \in {0, acct.fb}
        /\ call[t].known \in Nat /\ call[t].needed \in Nat
    BY <1>0 DEF Underway, Call
  <1>4. /\ server'.fb = (IF call[t].fb = 0 THEN server.fb ELSE call[t].fb)
        /\ \E more \in Seq(Key) :
              /\ server'.pool = server.pool \o more
              /\ Len(more) = Cardinality(call[t].keys \ Pool)
              /\ Elements(more) = call[t].keys \ Pool
              /\ \A i, j \in DOMAIN more : i < j => more[i].id < more[j].id
    BY <1>0, <1>2, StoredGood
  <1>5. PICK more \in Seq(Key) :
              /\ server'.pool = server.pool \o more
              /\ Len(more) = Cardinality(acct.fresh \ Elements(server.pool))
              /\ Elements(more) = acct.fresh \ Elements(server.pool)
              /\ Rising(more)
    BY <1>3, <1>4 DEF Rising, Pool
  <1>6. /\ acct'.keys = acct.keys /\ acct'.fresh = {} /\ acct'.fb = acct.fb
        /\ acct'.shared = TRUE
        /\ acct'.count = IF call[t].needed > 0 THEN call[t].known + call[t].needed ELSE acct.count
    <2>1. PICK a : a = Marked(acct)  OBVIOUS
    <2>2. /\ a \in Account /\ a.keys = acct.keys /\ a.fresh = {} /\ a.fb = acct.fb
          /\ a.shared = acct.shared /\ a.count = acct.count
      BY <1>0, <2>1, MarkedGood DEF GoodAccount
    <2> DEFINE flag == a.shared \/ call[t].device
               n == IF call[t].needed > 0 THEN call[t].known + call[t].needed ELSE a.count
    <2>3. acct' = [a EXCEPT !.shared = flag, !.count = n]
      BY <2>1, <2>2 DEF UploadAccepted, Account
    <2>4. flag = TRUE  BY <1>3, <2>2
    <2>5. n = IF call[t].needed > 0 THEN call[t].known + call[t].needed ELSE acct.count
      BY <2>2
    <2> HIDE DEF flag, n
    <2>6. /\ acct'.keys = a.keys /\ acct'.fresh = a.fresh /\ acct'.fb = a.fb
          /\ acct'.shared = flag /\ acct'.count = n
      BY <2>2, <2>3 DEF Account
    <2> QED  BY <2>2, <2>4, <2>5, <2>6
  <1>7. Backed(acct', server'.pool) /\ Rising(server'.pool)
    BY <1>0, <1>3, <1>5, <1>6, AcceptBacks
  <1>8. FallbackBacked(acct', server'.fb)
    BY <1>0, <1>3, <1>4, <1>6 DEF FallbackBacked
  <1>9. Underway(t)'  BY <1>1 DEF Underway
  <1> QED  BY <1>0, <1>1, <1>6, <1>7, <1>8, <1>9, UploadClosing

\* The ids of a body are new to the server, so it refuses nothing.
LEMMA NeverRefused ==
    ASSUME TypeInv, Calm, NEW t \in Threads
    PROVE  ~UploadRefused(t)
  <1> SUFFICES ASSUME UploadRefused(t) PROVE FALSE  OBVIOUS
  <1>0. /\ Backed(acct, server.pool) /\ Underway(t) /\ pc[t] = "upload"
        /\ GoodBody(call[t].keys) /\ server.pool \in Seq(Key)
    BY UploadContext DEF UploadRefused
  <1>1. acct.fresh = call[t].keys  BY <1>0 DEF Underway
  <1>2. PICK k \in call[t].keys, h \in Pool : k.id = h.id  BY DEF UploadRefused, Conflict
  <1>3. h.id < k.id  BY <1>0, <1>1, <1>2 DEF Backed, Pool
  <1>4. k.id \in Nat  BY <1>0, <1>2 DEF GoodBody, Key
  <1> QED  BY <1>2, <1>3, <1>4

LEMMA SaveCalm ==
    ASSUME TypeInv, Calm, NEW t \in Threads, Save(t)
    PROVE  Calm'
  <1>0. /\ \A u \in Threads \ {t} : pc[u] \in {"start", "done", "idle"}
        /\ FallbackBacked(acct, server.fb) /\ acct.fresh = {}
        /\ Rising(server.pool) /\ Backed(acct, server.pool)
        /\ pc[t] = "save"
    BY UploadContext DEF Save
  <1>1. pc'[t] = After(t) /\ \A u \in Threads \ {t} : pc'[u] = pc[u]
    BY GotoGood DEF Save, TypeInv, Places, After
  <1>2. UNCHANGED <<acct, server>> /\ disk' = acct  BY DEF Save
  <1>3. pc'[t] \in {"fallback", "done"}  BY <1>1 DEF After
  <1>4. Underway(t)'  BY <1>3 DEF Underway
  <1> QED  BY <1>0, <1>1, <1>2, <1>3, <1>4, UploadClosing

\* The same for the sync loop outside uploadDeviceKeys.
LEMMA LoopContext ==
    ASSUME TypeInv, Calm, pc["sync"] \in {"check", "fallback", "fbUpload", "fbSave"}
    PROVE  /\ pc["login"] \in {"start", "done"} /\ acct.fresh = {}
           /\ pc["sync"] # "fbSave" => ~Saving
           /\ Rising(server.pool) /\ Backed(acct, server.pool) /\ Underway("sync")
           /\ GoodAccount(acct) /\ acct \in Account /\ server \in Server
           /\ server.pool \in Seq(Key) /\ server.fb \in Nat /\ "sync" \in Threads
           /\ call["sync"] \in Call /\ GoodBody(call["sync"].keys) /\ Calls /\ Points
  <1>1. pc["login"] \in {"start", "done"}
    BY DEF Calm, Alone, Busy, TypeInv, Points
  <1>2. acct.fresh = {}  BY <1>1 DEF Calm, Unsent, Threads
  <1>3. pc["sync"] # "fbSave" => ~Saving  BY <1>1 DEF Saving, Threads
  <1>4. "sync" \in Threads  BY DEF Threads
  <1>5. /\ GoodAccount(acct) /\ acct \in Account /\ server \in Server
        /\ server.pool \in Seq(Key) /\ server.fb \in Nat
        /\ call["sync"] \in Call /\ GoodBody(call["sync"].keys) /\ Calls /\ Points
    BY <1>4 DEF TypeInv, Holdings, GoodAccount, Server, Calls
  <1> QED  BY <1>1, <1>2, <1>3, <1>4, <1>5 DEF Calm, Memory

LEMMA LoopClosing ==
    ASSUME pc["login"] \in {"start", "done"}, pc'["login"] = pc["login"],
           Rising(server'.pool), Backed(acct', server'.pool), acct'.fresh = {},
           FallbackKept', Underway("sync")',
           pc'["sync"] \notin {"save", "fbSave"} =>
              Backed(disk', server'.pool) /\ disk'.fresh = {} /\ FallbackBacked(disk', server'.fb)
    PROVE  Calm'
  <1>1. Alone'  BY DEF Alone, Busy
  <1>2. Memory'  BY DEF Memory
  <1>3. Unsent'  BY DEF Unsent
  <1>4. \A u \in Threads : Underway(u)'
    <2>1. Underway("login")'
      <3>1. pc'["login"] \in {"start", "done"}  OBVIOUS
      <3> QED  BY <3>1 DEF Underway
    <2> QED  BY <2>1 DEF Threads
  <1>5. Saved'
    <2>1. ~Saving' => pc'["sync"] \notin {"save", "fbSave"}  BY DEF Saving, Threads
    <2> QED  BY <2>1 DEF Saved
  <1> QED  BY <1>1, <1>2, <1>3, <1>4, <1>5 DEF Calm

\* What uploadDeviceKeys starts with.
LEMMA BeginSays ==
    ASSUME Points, Calls, NEW t \in Threads, NEW count, NEW force, Begin(t, count, force)
    PROVE  \/ pc'[t] = After(t) /\ call' = call /\ acct.shared
           \/ /\ pc'[t] = "discard" /\ (acct.shared => force)
              /\ call'[t].known = count /\ call'[t].needed = Needed(count)
              /\ call'[t].device = ~acct.shared
  <1>1. CASE /\ acct.shared /\ (~force \/ Needed(count) = 0)
             /\ Goto(t, After(t)) /\ UNCHANGED call
    BY <1>1 DEF Goto, Points
  <1>2. CASE /\ ~(acct.shared /\ (~force \/ Needed(count) = 0))
             /\ Goto(t, "discard")
             /\ call' = [call EXCEPT ![t].known = count, ![t].needed = Needed(count),
                                     ![t].device = ~acct.shared, ![t].tries = 0]
    <2>1. pc'[t] = "discard" /\ (acct.shared => force)  BY <1>2 DEF Goto, Points
    <2> DEFINE needed == Needed(count)
               device == ~acct.shared
    <2>2. call' = [call EXCEPT ![t].known = count, ![t].needed = needed,
                               ![t].device = device, ![t].tries = 0]
      BY <1>2
    <2> HIDE DEF needed, device
    <2>3. call'[t].known = count /\ call'[t].needed = needed /\ call'[t].device = device
      BY <2>2 DEF Calls, Call
    <2> QED  BY <2>1, <2>3 DEF needed, device
  <1> QED  BY <1>1, <1>2 DEF Begin

LEMMA CheckCalm ==
    ASSUME TypeInv, Calm, CheckCount \/ CheckWithoutCount
    PROVE  Calm'
  <1>0. /\ pc["login"] \in {"start", "done"} /\ acct.fresh = {} /\ ~Saving
        /\ Rising(server.pool) /\ Backed(acct, server.pool) /\ Underway("sync")
        /\ GoodAccount(acct) /\ acct \in Account
        /\ server.pool \in Seq(Key) /\ "sync" \in Threads
        /\ call["sync"] \in Call /\ Calls /\ Points /\ pc["sync"] = "check"
    BY LoopContext DEF CheckCount, CheckWithoutCount
  <1>1. UNCHANGED <<disk, server>>  BY DEF CheckCount, CheckWithoutCount
  <1>2. Len(server.pool) <= call["sync"].known /\ Len(server.pool) <= acct.count
    BY <1>0 DEF Underway, Backed
  <1>3. FallbackBacked(acct, server.fb)  BY <1>0 DEF Calm, FallbackKept
  <1>4. Backed(disk, server.pool) /\ disk.fresh = {} /\ FallbackBacked(disk, server.fb)
    BY <1>0 DEF Calm, Saved
  <1>5. /\ acct' \in Account /\ acct'.keys = acct.keys /\ acct'.fresh = acct.fresh
        /\ acct'.fb = acct.fb /\ acct'.shared = acct.shared
        /\ Len(server.pool) <= acct'.count
    <2>1. CASE acct' = acct  BY <1>0, <1>2, <2>1
    <2>2. CASE CheckCount
      <3>1. PICK count : count = call["sync"].known  OBVIOUS
      <3>2. count \in Nat  BY <1>0, <3>1 DEF Call
      <3>3. acct' = acct \/ acct' = [acct EXCEPT !.count = count]
        BY <2>2, <3>1 DEF CheckCount, Reported
      <3>4. ASSUME acct' = [acct EXCEPT !.count = count]
            PROVE  /\ acct' \in Account /\ acct'.keys = acct.keys /\ acct'.fresh = acct.fresh
                   /\ acct'.fb = acct.fb /\ acct'.shared = acct.shared /\ acct'.count = count
        BY <1>0, <3>2, <3>4 DEF Account
      <3> QED  BY <1>2, <2>1, <3>1, <3>3, <3>4
    <2> QED  BY <2>1, <2>2 DEF CheckWithoutCount
  <1>6. Backed(acct', server.pool)  BY <1>0, <1>5, BackedSame
  <1>7. FallbackBacked(acct', server.fb)  BY <1>3, <1>5 DEF FallbackBacked
  <1>8. ASSUME NEW count, Len(server.pool) <= count, Begin("sync", count, TRUE)
        PROVE  pc'["sync"] \in {"fallback", "discard"} /\ Underway("sync")'
    <2>1. CASE pc'["sync"] = After("sync")
      <3>1. pc'["sync"] = "fallback"  BY <2>1 DEF After
      <3> QED  BY <3>1 DEF Underway
    <2>2. CASE /\ pc'["sync"] = "discard"
               /\ call'["sync"].known = count /\ call'["sync"].needed = Needed(count)
               /\ call'["sync"].device = ~acct.shared
      <3>1. call'["sync"].device \/ acct'.shared  BY <1>5, <2>2
      <3> QED  BY <1>1, <1>8, <2>2, <3>1 DEF Underway
    <2> QED  BY <1>0, <1>8, <2>1, <2>2, BeginSays
  <1>9. pc'["sync"] \in {"fallback", "discard"} /\ Underway("sync")'
    <2>1. ASSUME Goto("sync", "fallback")  PROVE pc'["sync"] = "fallback" /\ Underway("sync")'
      <3>1. pc'["sync"] = "fallback"  BY <1>0, <2>1 DEF Goto, Points
      <3> QED  BY <3>1 DEF Underway
    <2>2. CASE CheckCount
      <3>1. \/ Begin("sync", call["sync"].known, TRUE)
            \/ Goto("sync", "fallback")
        BY <2>2 DEF CheckCount, Reported
      <3> QED  BY <1>2, <1>8, <2>1, <3>1
    <2>3. CASE CheckWithoutCount
      <3>1. Begin("sync", acct.count, TRUE) \/ Goto("sync", "fallback")
        BY <2>3 DEF CheckWithoutCount
      <3> QED  BY <1>2, <1>8, <2>1, <3>1
    <2> QED  BY <2>2, <2>3
  <1>10. pc'["login"] = pc["login"]
    <2>1. PICK place : Goto("sync", place)  BY DEF CheckCount, CheckWithoutCount, Begin
    <2> QED  BY <1>0, <2>1 DEF Goto, Points, Threads
  <1>11. FallbackKept'  BY <1>1, <1>7, <1>9 DEF FallbackKept
  <1> QED  BY <1>0, <1>1, <1>4, <1>5, <1>6, <1>9, <1>10, <1>11, LoopClosing

LEMMA TickCalm ==
    ASSUME TypeInv, Calm, Tick, causes' = {}
    PROVE  Calm'
  <1>1. /\ pc["sync"] = "idle" /\ ~Busy("login") /\ UNCHANGED <<acct, disk, server>>
    BY DEF Tick
  <1>2. pc["login"] \in {"start", "done"}  BY <1>1 DEF Busy, TypeInv, Points
  <1>3. ~Saving /\ acct.fresh = {}
    BY <1>1, <1>2 DEF Saving, Calm, Unsent, Threads
  <1>4. pc'["sync"] = "check" /\ pc'["login"] = pc["login"]
    BY <1>1 DEF Tick, Goto, TypeInv, Points, Threads
  <1>5. call'["sync"].known = Len(server.pool)
    <2> DEFINE size == Len(server.pool)
               new == [NoCall EXCEPT !.known = size, !.acked = Acknowledged]
    <2>1. call' = [call EXCEPT !["sync"] = new]  BY DEF Tick
    <2>2. new.known = size  BY DEF NoCall
    <2> HIDE DEF new
    <2>3. call'["sync"] = new  BY <2>1 DEF TypeInv, Calls, Threads
    <2> QED  BY <2>2, <2>3
  <1>6. Underway("sync")'
    <2>1. Len(server.pool) \in Nat
      <3>1. server.pool \in Seq(Key)  BY DEF TypeInv, Holdings, Server
      <3> QED  BY <3>1, LenProperties
    <2>2. Len(server'.pool) <= call'["sync"].known  BY <1>1, <1>5, <2>1
    <2> QED  BY <1>4, <2>2 DEF Underway
  <1>7. FallbackKept'  BY <1>1, <1>4 DEF Calm, FallbackKept
  <1>8. Rising(server.pool) /\ Backed(acct, server.pool)  BY DEF Calm, Memory
  <1>9. Backed(disk, server.pool) /\ disk.fresh = {} /\ FallbackBacked(disk, server.fb)
    BY <1>3 DEF Calm, Saved
  <1> QED  BY <1>1, <1>2, <1>3, <1>4, <1>6, <1>7, <1>8, <1>9, LoopClosing

LEMMA FallbackCalm ==
    ASSUME TypeInv, Calm, FallbackRests \/ FallbackDue
    PROVE  Calm'
  <1>0. /\ pc["login"] \in {"start", "done"} /\ acct.fresh = {} /\ ~Saving
        /\ Rising(server.pool) /\ Backed(acct, server.pool)
        /\ GoodAccount(acct) /\ acct \in Account /\ server.fb \in Nat
        /\ server.pool \in Seq(Key) /\ "sync" \in Threads
        /\ Calls /\ Points /\ pc["sync"] = "fallback"
    BY LoopContext DEF FallbackRests, FallbackDue
  <1>1. FallbackBacked(acct, server.fb)  BY <1>0 DEF Calm, FallbackKept
  <1>2. Backed(disk, server.pool) /\ disk.fresh = {} /\ FallbackBacked(disk, server.fb)
    BY <1>0 DEF Calm, Saved
  <1>3. CASE FallbackRests
    <2>1. pc'["sync"] = "idle" /\ pc'["login"] = pc["login"] /\ UNCHANGED <<acct, disk, server>>
      BY <1>0, <1>3 DEF FallbackRests, Goto, Points, Threads
    <2>2. Underway("sync")'  BY <2>1 DEF Underway
    <2>3. FallbackKept'  BY <1>1, <2>1 DEF FallbackKept
    <2> QED  BY <1>0, <1>2, <2>1, <2>2, <2>3, LoopClosing
  <1>4. CASE FallbackDue
    <2>1. /\ pc'["sync"] = "fbUpload" /\ pc'["login"] = pc["login"] /\ UNCHANGED <<disk, server>>
          /\ acct.shared /\ (acct' = acct \/ acct' = WithFallback(acct))
      BY <1>0, <1>4 DEF FallbackDue, Goto, Points, Threads
    <2>2. /\ acct' \in Account /\ acct'.keys = acct.keys /\ acct'.fresh = acct.fresh
          /\ acct'.count = acct.count /\ acct'.shared = acct.shared
          /\ \/ acct'.fb = acct.fb
             \/ acct'.fb > server.fb /\ acct'.prev = acct.fb /\ acct'.fb \in Nat
      <3>1. CASE acct' = acct  BY <1>0, <3>1
      <3>2. CASE acct' = WithFallback(acct)
        <4>1. GoodAccount(acct')  BY <1>0, <3>2, FallbackGood
        <4>2. /\ acct'.keys = acct.keys /\ acct'.fresh = acct.fresh
              /\ acct'.count = acct.count /\ acct'.shared = acct.shared
              /\ acct'.fb > server.fb /\ acct'.prev = acct.fb /\ acct'.fb \in Nat
          BY <1>0, <3>2, FallbackGood
        <4> QED  BY <4>1, <4>2 DEF GoodAccount
      <3> QED  BY <2>1, <3>1, <3>2
    <2>3. Backed(acct', server.pool)
      <3>1. Len(server.pool) <= acct'.count  BY <1>0, <2>2 DEF Backed
      <3> QED  BY <1>0, <2>2, <3>1, BackedSame
    <2>4. call'["sync"].keys = {} /\ call'["sync"].fb = acct'.fb
      <3>1. PICK fb : fb = acct'.fb  OBVIOUS
      <3> DEFINE new == [NoCall EXCEPT !.fb = fb]
      <3>2. call' = [call EXCEPT !["sync"] = new]  BY <1>4, <3>1 DEF FallbackDue
      <3>3. new.keys = {} /\ new.fb = fb  BY DEF NoCall
      <3> HIDE DEF new
      <3>4. call'["sync"] = new  BY <1>0, <3>2 DEF Calls
      <3> QED  BY <3>1, <3>3, <3>4
    <2>5. FallbackKept'
      <3>1. server.fb = 0 \/ server.fb = acct.fb  BY <1>1 DEF FallbackBacked
      <3>2. acct'.fb # 0 \/ server.fb = 0  BY <1>0, <2>2, <3>1
      <3>3. server.fb \in {0, acct'.fb, acct'.prev}  BY <2>2, <3>1
      <3> QED  BY <2>1, <2>2, <2>4, <3>2, <3>3 DEF FallbackKept
    <2>6. Underway("sync")'  BY <2>1 DEF Underway
    <2> QED  BY <1>0, <1>2, <2>1, <2>2, <2>3, <2>5, <2>6, LoopClosing
  <1> QED  BY <1>3, <1>4

LEMMA FallbackAcceptedCalm ==
    ASSUME TypeInv, Calm, FallbackAccepted
    PROVE  Calm'
  <1>0. /\ pc["login"] \in {"start", "done"} /\ acct.fresh = {}
        /\ Rising(server.pool) /\ Backed(acct, server.pool)
        /\ GoodAccount(acct) /\ acct \in Account /\ server \in Server
        /\ server.pool \in Seq(Key) /\ "sync" \in Threads
        /\ call["sync"] \in Call /\ GoodBody(call["sync"].keys)
        /\ Calls /\ Points /\ pc["sync"] = "fbUpload"
    BY LoopContext DEF FallbackAccepted
  <1>1. /\ acct.shared /\ call["sync"].keys = {} /\ call["sync"].fb = acct.fb
        /\ acct.fb # 0 \/ server.fb = 0
    BY <1>0 DEF Calm, FallbackKept
  <1>2. /\ pc'["sync"] = "fbSave" /\ pc'["login"] = pc["login"]
        /\ server' = Stored(call["sync"]) /\ acct' = Marked(acct)
    BY <1>0 DEF FallbackAccepted, Goto, Points, Threads
  <1>3. /\ acct' \in Account /\ acct'.keys = acct.keys /\ acct'.fresh = {} /\ acct'.fb = acct.fb
        /\ acct'.shared = acct.shared /\ acct'.count = acct.count
    BY <1>0, <1>2, MarkedGood DEF GoodAccount
  <1>4. /\ server'.fb = (IF call["sync"].fb = 0 THEN server.fb ELSE call["sync"].fb)
        /\ \E more \in Seq(Key) :
              /\ server'.pool = server.pool \o more
              /\ Len(more) = Cardinality(call["sync"].keys \ Pool)
              /\ Elements(more) = call["sync"].keys \ Pool
              /\ \A i, j \in DOMAIN more : i < j => more[i].id < more[j].id
    BY <1>0, <1>2, StoredGood
  <1>5. server'.pool = server.pool
    <2>1. PICK more \in Seq(Key) :
              server'.pool = server.pool \o more /\ Len(more) = Cardinality({} \ Pool)
      BY <1>1, <1>4
    <2>2. {} \ Pool = {} /\ Cardinality({}) = 0  BY FS_EmptySet
    <2>3. Len(more) = 0  BY <2>1, <2>2
    <2>4. more = <<>>  BY <2>3, EmptySeq
    <2> QED  BY <1>0, <2>1, <2>4, ConcatEmptySeq
  <1>6. FallbackBacked(acct', server'.fb)  BY <1>1, <1>3, <1>4 DEF FallbackBacked
  <1>7. Backed(acct', server'.pool)
    <2>1. Len(server.pool) <= acct'.count  BY <1>0, <1>3 DEF Backed
    <2> QED  BY <1>0, <1>3, <1>5, <2>1, BackedSame
  <1>8. FallbackKept'  BY <1>2, <1>6 DEF FallbackKept
  <1>9. Underway("sync")'  BY <1>2 DEF Underway
  <1> QED  BY <1>0, <1>2, <1>3, <1>5, <1>7, <1>8, <1>9, LoopClosing

LEMMA FallbackSaveCalm ==
    ASSUME TypeInv, Calm, FallbackSave
    PROVE  Calm'
  <1>0. /\ pc["login"] \in {"start", "done"} /\ acct.fresh = {}
        /\ Rising(server.pool) /\ Backed(acct, server.pool) /\ Points /\ pc["sync"] = "fbSave"
    BY LoopContext DEF FallbackSave
  <1>1. /\ pc'["sync"] = "idle" /\ pc'["login"] = pc["login"]
        /\ UNCHANGED <<acct, server, call>> /\ disk' = acct
    BY <1>0 DEF FallbackSave, Goto, Points, Threads
  <1>2. FallbackBacked(acct, server.fb)  BY <1>0 DEF Calm, FallbackKept
  <1>3. FallbackKept'  BY <1>1, <1>2 DEF FallbackKept
  <1>4. Underway("sync")'  BY <1>1 DEF Underway
  <1> QED  BY <1>0, <1>1, <1>2, <1>3, <1>4, LoopClosing

LEMMA ForgetCalm ==
    ASSUME TypeInv, Calm, Forget
    PROVE  Calm'
  <1>1. /\ pc["sync"] = "idle" /\ UNCHANGED <<disk, server, pc, call>>
        /\ acct' = [acct EXCEPT !.prev = 0]
    BY DEF Forget
  <1>2. acct \in Account /\ server.pool \in Seq(Key)
    BY DEF TypeInv, Holdings, GoodAccount, Server
  <1>3. /\ acct' \in Account /\ acct'.keys = acct.keys /\ acct'.fresh = acct.fresh
        /\ acct'.fb = acct.fb /\ acct'.shared = acct.shared /\ acct'.count = acct.count
    BY <1>1, <1>2 DEF Account
  <1>4. Rising(server.pool) /\ Backed(acct, server.pool)  BY DEF Calm, Memory
  <1>5. Backed(acct', server.pool)
    <2>1. Len(server.pool) <= acct'.count  BY <1>3, <1>4 DEF Backed
    <2> QED  BY <1>2, <1>3, <1>4, <2>1, BackedSame
  <1>6. Memory'  BY <1>1, <1>4, <1>5 DEF Memory
  <1>7. FallbackKept'
    <2>1. FallbackBacked(acct, server.fb)  BY <1>1 DEF Calm, FallbackKept
    <2>2. FallbackBacked(acct', server'.fb)  BY <1>1, <1>3, <2>1 DEF FallbackBacked
    <2> QED  BY <1>1, <2>2 DEF FallbackKept
  <1>8. \A t \in Threads : Underway(t)'  BY <1>1, <1>3 DEF Calm, Underway
  <1>9. Alone' /\ Unsent' /\ Saved'
    BY <1>1, <1>3 DEF Calm, Alone, Busy, Unsent, Saved, Saving
  <1> QED  BY <1>6, <1>7, <1>8, <1>9 DEF Calm

LEMMA LoginCalm ==
    ASSUME TypeInv, Calm, Login, causes' = {}
    PROVE  Calm'
  <1>0. /\ UNCHANGED <<acct, disk, server>> /\ pc["login"] = "start"
        /\ Begin("login", acct.count, FALSE) /\ "login" \in Threads
        /\ ~Busy("sync") \/ acct.shared
        /\ Points /\ Calls /\ acct.shared \in BOOLEAN /\ acct.count \in Nat
    BY DEF Login, Threads, TypeInv, Holdings, GoodAccount, Account
  <1>1. pc'["sync"] = pc["sync"] /\ call'["sync"] = call["sync"]
    BY <1>0, BeginGood DEF Threads
  <1>2. Rising(server.pool) /\ Backed(acct, server.pool) /\ Underway("sync")
    BY DEF Calm, Memory, Threads
  <1>3. CASE pc'["login"] = After("login")
    <2>1. pc'["login"] = "done"  BY <1>3 DEF After
    <2>2. Alone'  BY <2>1 DEF Alone, Busy
    <2>3. Memory' /\ FallbackKept'  BY <1>0, <1>1 DEF Calm, Memory, FallbackKept
    <2>4. Unsent' /\ Saved'
      BY <1>0, <1>1, <2>1 DEF Calm, Unsent, Saved, Saving, Threads
    <2>5. Underway("login")'  BY <2>1 DEF Underway
    <2>6. Underway("sync")'  BY <1>0, <1>1, <1>2 DEF Underway
    <2> QED  BY <2>2, <2>3, <2>4, <2>5, <2>6 DEF Calm, Threads
  <1>4. CASE /\ pc'["login"] = "discard" /\ ~acct.shared
             /\ call'["login"].known = acct.count
             /\ call'["login"].needed = Needed(acct.count)
             /\ call'["login"].device = ~acct.shared
    <2>1. pc["sync"] = "idle"  BY <1>0, <1>4 DEF Busy, TypeInv, Points
    <2>2. acct.fresh = {} /\ ~Saving  BY <1>0, <2>1 DEF Calm, Unsent, Saving, Threads
    <2>3. FallbackBacked(acct, server.fb)  BY <2>1 DEF Calm, FallbackKept
    <2>4. Backed(disk, server.pool) /\ disk.fresh = {} /\ FallbackBacked(disk, server.fb)
      BY <2>2 DEF Calm, Saved
    <2>5. Underway("login")'
      <3>1. Len(server'.pool) <= call'["login"].known  BY <1>0, <1>2, <1>4 DEF Backed
      <3>2. call'["login"].needed = Needed(call'["login"].known) /\ call'["login"].device
        BY <1>4
      <3> QED  BY <1>4, <3>1, <3>2 DEF Underway
    <2>6. \A u \in Threads \ {"login"} : pc[u] \in {"start", "done", "idle"} /\ pc'[u] = pc[u]
      BY <1>1, <2>1 DEF Threads
    <2> QED  BY <1>0, <1>2, <1>4, <2>2, <2>3, <2>4, <2>5, <2>6, UploadClosing
  <1> QED  BY <1>0, <1>3, <1>4, BeginSays

LEMMA ClaimCalm ==
    ASSUME TypeInv, Calm, Claim
    PROVE  Calm'
  <1>0. /\ GoodAccount(acct) /\ GoodAccount(disk) /\ server \in Server /\ server.pool \in Seq(Key)
        /\ Rising(server.pool) /\ Backed(acct, server.pool) /\ Calls
    BY DEF TypeInv, Holdings, Server, Calm, Memory
  <1>1. UNCHANGED <<acct, disk, pc, call>>  BY DEF Claim
  <1>2. /\ server'.fb = server.fb /\ server'.pool \in Seq(Key)
        /\ Len(server'.pool) <= Len(server.pool)
        /\ Rising(server'.pool)
        /\ Backed(acct, server'.pool)
        /\ Backed(disk, server.pool) => Backed(disk, server'.pool)
    <2>1. CASE server' = [server EXCEPT !.used = TRUE]
      <3>1. server'.fb = server.fb /\ server'.pool = server.pool  BY <1>0, <2>1 DEF Server
      <3>2. Len(server.pool) \in Nat  BY <1>0, LenProperties
      <3> QED  BY <1>0, <3>1, <3>2
    <2>2. ASSUME NEW rest \in {0, 1}, rest < Len(server.pool), NEW q,
                 q = SubSeq(server.pool, Len(server.pool) - rest + 1, Len(server.pool)),
                 server' = [server EXCEPT !.pool = q]
          PROVE  /\ server'.fb = server.fb /\ server'.pool \in Seq(Key)
                 /\ Len(server'.pool) <= Len(server.pool)
                 /\ Rising(server'.pool)
                 /\ Backed(acct, server'.pool)
                 /\ Backed(disk, server.pool) => Backed(disk, server'.pool)
      <3>1. server'.fb = server.fb /\ server'.pool = q  BY <1>0, <2>2 DEF Server
      <3>2. /\ q \in Seq(Key) /\ Len(q) = rest
            /\ rest = 1 => q[1] = server.pool[Len(server.pool)]
        BY <1>0, <2>2, Claimed
      <3>3. Len(q) \in {0, 1} /\ Len(q) < Len(server.pool)  BY <2>2, <3>2
      <3>4. Backed(acct, q) /\ Rising(q)  BY <1>0, <3>2, <3>3, ClaimBacks
      <3>5. Backed(disk, server.pool) => Backed(disk, q)  BY <1>0, <3>2, <3>3, ClaimBacks
      <3>6. Len(q) <= Len(server.pool)
        <4>1. Len(server.pool) \in Nat /\ Len(q) \in Nat  BY <1>0, <3>2, LenProperties
        <4> QED  BY <3>3, <4>1
      <3> QED  BY <3>1, <3>2, <3>4, <3>5, <3>6
    <2>3. \/ server' = [server EXCEPT !.used = TRUE]
          \/ \E rest \in {0, 1} :
                /\ rest < Len(server.pool)
                /\ server' = [server EXCEPT !.pool = SubSeq(@, Len(@) - rest + 1, Len(@))]
      BY DEF Claim
    <2>4. ASSUME NEW rest \in {0, 1}
          PROVE  [server EXCEPT !.pool = SubSeq(@, Len(@) - rest + 1, Len(@))]
                    = [server EXCEPT !.pool = SubSeq(server.pool, Len(server.pool) - rest + 1,
                                                     Len(server.pool))]
      OBVIOUS
    <2> QED  BY <2>1, <2>2, <2>3, <2>4
  <1>3. Memory'  BY <1>1, <1>2 DEF Memory
  <1>4. Alone' /\ Unsent'  BY <1>1 DEF Calm, Alone, Busy, Unsent
  <1>5. FallbackKept'  BY <1>1, <1>2 DEF Calm, FallbackKept
  <1>6. Saved'  BY <1>1, <1>2 DEF Calm, Saved, Saving
  <1>7. ASSUME NEW t \in Threads  PROVE Underway(t)'
    <2>1. Underway(t) /\ call[t] \in Call  BY <1>0 DEF Calm, Calls
    <2>2. Len(server.pool) <= call[t].known => Len(server'.pool) <= call[t].known
      <3>1. Len(server.pool) \in Nat /\ Len(server'.pool) \in Nat /\ call[t].known \in Nat
        BY <1>0, <1>2, <2>1, LenProperties DEF Call
      <3> QED  BY <1>2, <3>1
    <2> QED  BY <1>1, <2>1, <2>2 DEF Underway
  <1> QED  BY <1>3, <1>4, <1>5, <1>6, <1>7 DEF Calm

\* A crash that is not between an upload and its save loses nothing.
LEMMA CrashCalm ==
    ASSUME TypeInv, Calm, Crash, causes' = {}
    PROVE  Calm'
  <1>1. /\ ~Saving /\ acct' = disk /\ UNCHANGED <<disk, server>>
        /\ pc' = [login |-> "start", sync |-> "idle"]
    BY DEF Crash, NewProcess, Saving
  <1>2. Backed(disk, server.pool) /\ disk.fresh = {} /\ FallbackBacked(disk, server.fb)
    BY <1>1 DEF Calm, Saved
  <1>3. pc'["login"] = "start" /\ pc'["sync"] = "idle"  BY <1>1
  <1>4. Rising(server.pool)  BY DEF Calm, Memory
  <1>5. Alone' /\ Memory' /\ Unsent' /\ FallbackKept' /\ Saved'
    BY <1>1, <1>2, <1>3, <1>4 DEF Alone, Busy, Memory, Unsent, FallbackKept, Saved
  <1>6. \A t \in Threads : Underway(t)'
    <2>1. \A t \in Threads : pc'[t] \in {"start", "idle"}  BY <1>3 DEF Threads
    <2> QED  BY <2>1 DEF Underway
  <1> QED  BY <1>5, <1>6 DEF Calm

LEMMA NewDeviceBacked ==
    ASSUME NEW b \in BOOLEAN
    PROVE  /\ Rising(NewDevice.pool) /\ Backed(Fresh(b), NewDevice.pool)
           /\ Fresh(b).fresh = {} /\ FallbackBacked(Fresh(b), NewDevice.fb)
  <1>1. /\ NewDevice.pool = <<>> /\ NewDevice.fb = 0
        /\ Fresh(b).keys = <<>> /\ Fresh(b).fresh = {} /\ Fresh(b).count = 0
    BY DEF NewDevice, Fresh
  <1>2. DOMAIN <<>> = {} /\ Len(<<>>) = 0  OBVIOUS
  <1>3. Elements(<<>>) = {}  BY <1>2 DEF Elements
  <1> QED  BY <1>1, <1>2, <1>3 DEF Rising, Backed, FallbackBacked

LEMMA ResetCalm ==
    ASSUME NEW b \in BOOLEAN, acct = Fresh(b), disk = Fresh(b), server = NewDevice,
           pc = [login |-> "start", sync |-> "idle"]
    PROVE  Calm
  <1>1. pc["login"] = "start" /\ pc["sync"] = "idle"  OBVIOUS
  <1>2. Alone /\ Memory /\ Unsent /\ FallbackKept /\ Saved
    BY <1>1, NewDeviceBacked DEF Alone, Busy, Memory, Unsent, FallbackKept, Saved
  <1>3. \A t \in Threads : Underway(t)
    <2>1. \A t \in Threads : pc[t] \in {"start", "idle"}  BY <1>1 DEF Threads
    <2> QED  BY <2>1 DEF Underway
  <1> QED  BY <1>2, <1>3 DEF Calm

LEMMA SwitchCalm ==
    ASSUME TypeInv, Switch
    PROVE  Calm'
  <1>1. PICK b \in BOOLEAN : b = acct.shared
    BY DEF TypeInv, Holdings, GoodAccount, Account
  <1>2. /\ acct' = Fresh(b) /\ disk' = Fresh(b) /\ server' = NewDevice
        /\ pc' = [login |-> "start", sync |-> "idle"]
    BY <1>1 DEF Switch, NewProcess
  <1>3. pc'["login"] = "start" /\ pc'["sync"] = "idle"  BY <1>2
  <1>4. Alone' /\ Memory' /\ Unsent' /\ FallbackKept' /\ Saved'
    BY <1>2, <1>3, NewDeviceBacked DEF Alone, Busy, Memory, Unsent, FallbackKept, Saved
  <1>5. \A t \in Threads : Underway(t)'
    <2>1. \A t \in Threads : pc'[t] \in {"start", "idle"}  BY <1>3 DEF Threads
    <2> QED  BY <2>1 DEF Underway
  <1> QED  BY <1>4, <1>5 DEF Calm

LEMMA StayCalm ==
    ASSUME TypeInv, CalmInv, [Next]_vars
    PROVE  CalmInv'
  <1> SUFFICES ASSUME causes' = {} PROVE Calm'  BY DEF CalmInv
  <1>1. CASE Switch  BY <1>1, SwitchCalm
  <1>2. CASE ~Switch
    <2>0. causes \subseteq causes'
      <3>1. ASSUME NEW t \in Threads, Upload(t) \/ UploadFails(t)  PROVE causes \subseteq causes'
        BY <3>1 DEF Upload, Discard, Build, UploadAccepted, UploadRefused, Save, UploadFails
      <3>2. ASSUME Loop  PROVE causes \subseteq causes'
        BY <3>2 DEF Loop, Tick, CheckCount, CheckWithoutCount, FallbackRests, FallbackDue,
                    FallbackAccepted, FallbackSave, Forget
      <3>3. ASSUME Login \/ Claim \/ Crash \/ UNCHANGED vars  PROVE causes \subseteq causes'
        BY <3>3 DEF Login, Claim, Crash, vars
      <3> QED  BY <1>2, <3>1, <3>2, <3>3 DEF Next
    <2>1. Calm  BY <2>0 DEF CalmInv
    <2>2. ASSUME NEW t \in Threads, Upload(t)  PROVE Calm'
      BY <2>1, <2>2, DiscardCalm, BuildCalm, AcceptedCalm, NeverRefused, SaveCalm DEF Upload
    <2>3. ASSUME NEW t \in Threads, UploadFails(t)  PROVE Calm'
      BY <2>3 DEF UploadFails
    <2>4. CASE Loop
      BY <2>1, <2>4, CheckCalm, TickCalm, FallbackCalm, FallbackAcceptedCalm, FallbackSaveCalm,
         ForgetCalm DEF Loop
    <2>5. CASE Claim  BY <2>1, <2>5, ClaimCalm
    <2>6. CASE Crash  BY <2>1, <2>6, CrashCalm
    <2>7. CASE Login  BY <2>1, <2>7, LoginCalm
    <2>8. CASE UNCHANGED vars
      BY <2>1, <2>8 DEF vars, Calm, Alone, Busy, Memory, Unsent, FallbackKept, Underway, Saved,
                        Saving
    <2> QED  BY <1>2, <2>2, <2>3, <2>4, <2>5, <2>6, <2>7, <2>8 DEF Next
  <1> QED  BY <1>1, <1>2

LEMMA InitCalm == Init => CalmInv
  BY ResetCalm DEF Init, CalmInv

LEMMA CalmSays ==
    ASSUME TypeInv, CalmInv
    PROVE  PoolUsable /\ FallbackUsable
  <1>1. CASE causes # {}  BY <1>1 DEF PoolUsable, FallbackUsable
  <1>2. CASE Calm
    <2>1. Pool \subseteq Held  BY <1>2 DEF Calm, Memory, Backed, Pool, Held
    <2>2. server.fb \in {0, acct.fb, acct.prev}
      BY <1>2 DEF Calm, FallbackKept, FallbackBacked
    <2> QED  BY <2>1, <2>2 DEF PoolUsable, FallbackUsable
  <1> QED  BY <1>1, <1>2 DEF CalmInv

UsableInv == TypeInv /\ CalmInv

LEMMA SpecUsable == Spec => []UsableInv
  <1>1. Init => UsableInv  BY InitTypeInv, InitCalm DEF UsableInv
  <1>2. UsableInv /\ [Next]_vars => UsableInv'  BY NextTypes, StayCalm DEF UsableInv
  <1> QED  BY <1>1, <1>2, PTL DEF Spec

\* Every one-time key the server can still hand out has its private half here,
\* whatever the order of claims, refills, restarts and switches, as long as no
\* crash fell between an upload and its save, no upload failed and the two
\* threads did not upload at once (sync_engine.cpp:725-760, 816-829).
THEOREM PoolStaysUsable == Spec => []PoolUsable
  <1>1. UsableInv => PoolUsable  BY CalmSays DEF UsableInv
  <1> QED  BY <1>1, SpecUsable, PTL

\* Under the same proviso the fallback key the server can hand out is the
\* current or the previous one of the account, over rotations, retries and
\* the dropping of old keys (sync_engine.cpp:735-740, 1373-1390, 1404-1409).
THEOREM FallbackStaysUsable == Spec => []FallbackUsable
  <1>1. UsableInv => FallbackUsable  BY CalmSays DEF UsableInv
  <1> QED  BY <1>1, SpecUsable, PTL
=============================================================================
