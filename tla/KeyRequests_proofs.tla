-------------------------- MODULE KeyRequests_proofs --------------------------
(***************************************************************************)
(* Proofs about KeyRequests, for every number of sessions, events and      *)
(* threads, every back-off schedule, every cap and any budgets.            *)
(***************************************************************************)
EXTENDS KeyRequests, FiniteSetTheorems, TLAPS

\* The updates the actions make to an entry keep its type.
LEMMA EntryTypes ==
    /\ NoEntry \in EntryType
    /\ Fresh \in EntryType
    /\ \A e \in EntryType :
          /\ \A a \in RebootAge..MaxAge : Aged(e, a) \in EntryType
          /\ Resent(e) \in EntryType
          /\ Rearmed(e) \in EntryType
          /\ [e EXCEPT !.notified = TRUE] \in EntryType
          /\ [e EXCEPT !.notified = FALSE] \in EntryType
  <1> USE ScheduleAssumption DEF EntryType
  <1>1. NoEntry \in EntryType /\ Fresh \in EntryType
    BY DEF NoEntry, Fresh
  <1>2. ASSUME NEW e \in EntryType, NEW a \in RebootAge..MaxAge
        PROVE  Aged(e, a) \in EntryType
    BY DEF Aged
  <1>3. ASSUME NEW e \in EntryType
        PROVE  /\ Resent(e) \in EntryType
               /\ Rearmed(e) \in EntryType
               /\ [e EXCEPT !.notified = TRUE] \in EntryType
               /\ [e EXCEPT !.notified = FALSE] \in EntryType
    <2>1. e.attempts + 1 \in Nat /\ e.notified \in BOOLEAN /\ 0 \in RebootAge..MaxAge
      OBVIOUS
    <2>2. RearmAge \in RebootAge..MaxAge
      OBVIOUS
    <2> QED
      BY <2>1, <2>2 DEF Resent, Rearmed
  <1> QED
    BY <1>1, <1>2, <1>3 DEF EntryType

LEMMA SpendType ==
    ASSUME NEW what \in EnvEvents, used \in [EnvEvents -> Nat], Spend(what)
    PROVE  /\ used' \in [EnvEvents -> Nat]
           /\ used'[what] = used[what] + 1
           /\ \A other \in EnvEvents \ {what} : used'[other] = used[other]
  <1>1. used[what] \in Nat /\ used[what] + 1 \in Nat
    OBVIOUS
  <1> QED
    BY <1>1 DEF Spend

\* The actions of the decrypting threads and of the user keep the types.
LEMMA CallerType ==
    ASSUME TypeOK,
           \/ \E t \in Threads : ThreadStep(t)
           \/ \E k \in Keys : ReRequestKey(k)
    PROVE  TypeOK'
  <1> USE KeysAssumption DEF TypeOK
  <1>1. ASSUME NEW t \in Threads, NEW e \in Events, Check(t, e)
        PROVE  TypeOK'
    <2>0. used' \in [EnvEvents -> Nat]
      BY <1>1, SpendType DEF Check, EnvEvents
    <2>1. CASE KeyOf[e] \in sess
      BY <1>1, <2>0, <2>1 DEF Check, caller, worker
    <2>2. CASE KeyOf[e] \notin sess
      <3>1. /\ ev' = [ev EXCEPT ![e] = "checked"]
            /\ pc' = [pc EXCEPT ![t] = "missed"]
            /\ at' = [at EXCEPT ![t] = e]
        BY <1>1, <2>2 DEF Check
      <3> QED
        BY <1>1, <2>0, <3>1 DEF Check, worker
    <2> QED
      BY <2>1, <2>2
  <1>2. ASSUME NEW t \in Threads, AddPending(t)
        PROVE  TypeOK'
    BY <1>2 DEF AddPending, worker
  <1>3. ASSUME NEW t \in Threads, InsertRequest(t)
        PROVE  TypeOK'
    <2> DEFINE k == KeyOf[at[t]]
               added == [entry EXCEPT ![k] = Fresh]
    <2>1. added \in [Keys -> EntryType]
      BY EntryTypes
    <2>2. \A old \in Keys : [added EXCEPT ![old] = NoEntry] \in [Keys -> EntryType]
      BY <2>1, EntryTypes
    <2>3. Oldest(added) \subseteq Keys
      BY DEF Oldest
    <2>4. k \in Keys
      OBVIOUS
    <2> HIDE DEF added
    <2>5. entry' \in [Keys -> EntryType] /\ forgotten' \subseteq Keys
      <3>1. CASE UNCHANGED <<entry, forgotten>>
        BY <3>1
      <3>2. CASE entry' = added /\ forgotten' = forgotten \ {k}
        BY <3>2, <2>1
      <3>3. CASE \E old \in Oldest(added) :
                    /\ entry' = [added EXCEPT ![old] = NoEntry]
                    /\ forgotten' = (forgotten \ {k}) \cup {old}
        BY <3>3, <2>2, <2>3
      <3> QED
        BY <1>3, <3>1, <3>2, <3>3 DEF InsertRequest, added
    <2>6. pc' \in [Threads -> {"idle", "missed", "saved", "inserted"}]
      BY <1>3 DEF InsertRequest
    <2>7. UNCHANGED <<sess, params, ev, gaveUp, gate, forced, at, spc, skey, todo, notices, disk, used>>
      BY <1>3 DEF InsertRequest, worker
    <2> QED
      BY <2>5, <2>6, <2>7
  <1>4. ASSUME NEW t \in Threads, PassGate(t)
        PROVE  TypeOK'
    <2> DEFINE k == KeyOf[at[t]]
    <2>1. entry' \in [Keys -> EntryType]
      <3>1. DeferAge \in RebootAge..MaxAge
        BY ScheduleAssumption
      <3>2. k \in Keys /\ Aged(entry[k], DeferAge) \in EntryType
        BY <3>1, EntryTypes
      <3>3. entry' = entry \/ entry' = [entry EXCEPT ![k] = Aged(entry[k], DeferAge)]
        BY <1>4 DEF PassGate
      <3> QED
        BY <3>2, <3>3
    <2>2. gate' \in 0..GateMax
      BY <1>4, BoundsAssumption DEF PassGate, GateOpen
    <2>3. pc' \in [Threads -> {"idle", "missed", "saved", "inserted"}]
      BY <1>4 DEF PassGate
    <2>4. UNCHANGED <<sess, params, ev, gaveUp, forced, at, spc, skey, todo, notices, forgotten, disk, used>>
      BY <1>4 DEF PassGate, worker
    <2> QED
      BY <2>1, <2>2, <2>3, <2>4
  <1>5. ASSUME NEW k \in Keys, ReRequestKey(k)
        PROVE  TypeOK'
    <2>1. entry' \in [Keys -> EntryType]
      <3>1. 0 \in RebootAge..MaxAge
        BY ScheduleAssumption
      <3>2. Fresh \in EntryType /\ Aged(entry[k], 0) \in EntryType
        BY <3>1, EntryTypes
      <3>3. \/ entry' = [entry EXCEPT ![k] = Fresh]
            \/ entry' = [entry EXCEPT ![k] = Aged(entry[k], 0)]
        BY <1>5 DEF ReRequestKey
      <3> QED
        BY <3>2, <3>3
    <2>2. used' \in [EnvEvents -> Nat]
      BY <1>5, SpendType DEF ReRequestKey, EnvEvents
    <2>3. forgotten' \subseteq Keys
      BY <1>5 DEF ReRequestKey
    <2>4. UNCHANGED <<sess, params, ev, gaveUp, gate, forced, pc, at, spc, skey, todo, notices, disk>>
      BY <1>5 DEF ReRequestKey, caller, worker
    <2> QED
      BY <2>1, <2>2, <2>3, <2>4
  <1> QED
    BY <1>1, <1>2, <1>3, <1>4, <1>5 DEF ThreadStep

\* So do the handlers of room keys.
LEMMA KeyType ==
    ASSUME TypeOK,
           \/ \E k \in Keys : EraseRequest(k) \/ ImportSession(k)
           \/ AddSession \/ RejectSession \/ ProcessPending \/ EraseSatisfied
    PROVE  TypeOK'
  <1> USE KeysAssumption DEF TypeOK
  <1>1. ASSUME NEW k \in Keys, EraseRequest(k)
        PROVE  TypeOK'
    <2>1. entry' \in [Keys -> EntryType]
      BY <1>1, EntryTypes DEF EraseRequest
    <2>2. used' \in [EnvEvents -> Nat]
      BY <1>1, SpendType DEF EraseRequest, EnvEvents
    <2> QED
      BY <1>1, <2>1, <2>2 DEF EraseRequest, caller
  <1>2. ASSUME NEW k \in Keys, ImportSession(k)
        PROVE  TypeOK'
    <2>1. used' \in [EnvEvents -> Nat]
      BY <1>2, SpendType DEF ImportSession, EnvEvents
    <2> QED
      BY <1>2, <2>1 DEF ImportSession, caller
  <1>3. CASE AddSession
    BY <1>3 DEF AddSession, caller
  <1>4. CASE RejectSession
    <2>1. used' \in [EnvEvents -> Nat]
      BY <1>4, SpendType DEF RejectSession, EnvEvents
    <2>2. forgotten' \subseteq Keys
      BY <1>4 DEF RejectSession
    <2> QED
      BY <1>4, <2>1, <2>2 DEF RejectSession, caller
  <1>5. CASE ProcessPending
    <2>1. ev' \in [Events -> {"new", "checked", "pending", "done"}]
      BY <1>5 DEF ProcessPending
    <2> QED
      BY <1>5, <2>1 DEF ProcessPending, caller
  <1>6. CASE EraseSatisfied
    <2>1. entry' \in [Keys -> EntryType]
      BY <1>6, EntryTypes DEF EraseSatisfied
    <2>2. forgotten' \subseteq Keys
      BY <1>6 DEF EraseSatisfied, RequestedKeys
    <2> QED
      BY <1>6, <2>1, <2>2 DEF EraseSatisfied, caller
  <1> QED
    BY <1>1, <1>2, <1>3, <1>4, <1>5, <1>6

\* So do the retries, persistence, a restart and time.
LEMMA RetryType ==
    ASSUME TypeOK,
           \/ MaybeReRequestKeys
           \/ SnapshotRequests
           \/ \E k \in Keys : ResendOne(k)
           \/ \E s \in Senders : Rearm(s)
           \/ Persist
           \/ \E reboot \in BOOLEAN : Restart(reboot)
           \/ Tick
    PROVE  TypeOK'
  <1> USE KeysAssumption DEF TypeOK
  <1>1. CASE MaybeReRequestKeys
    <2>1. entry' \in [Keys -> EntryType]
      BY <1>1, EntryTypes DEF MaybeReRequestKeys
    <2>2. notices' \in [Keys -> Nat]
      BY <1>1 DEF MaybeReRequestKeys
    <2>3. gaveUp' \subseteq Keys /\ forgotten' \subseteq Keys
      BY <1>1 DEF MaybeReRequestKeys
    <2> QED
      BY <1>1, <2>1, <2>2, <2>3 DEF MaybeReRequestKeys, caller, worker
  <1>2. CASE SnapshotRequests
    <2>1. used' \in [EnvEvents -> Nat]
      BY <1>2, SpendType DEF SnapshotRequests, EnvEvents
    <2> QED
      BY <1>2, <2>1 DEF SnapshotRequests, RequestedKeys, caller
  <1>3. ASSUME NEW k \in Keys, ResendOne(k)
        PROVE  TypeOK'
    <2>1. entry' \in [Keys -> EntryType]
      BY <1>3, EntryTypes DEF ResendOne
    <2> QED
      BY <1>3, <2>1 DEF ResendOne, caller
  <1>4. ASSUME NEW s, Rearm(s)
        PROVE  TypeOK'
    <2>1. entry' \in [Keys -> EntryType]
      BY <1>4, EntryTypes DEF Rearm
    <2>2. forced' \in [Senders -> 0..RearmWindow]
      <3>1. 0 \in 0..RearmWindow
        BY ScheduleAssumption
      <3>2. forced' = [forced EXCEPT ![s] = 0] /\ forced \in [Senders -> 0..RearmWindow]
        BY <1>4 DEF Rearm
      <3> QED
        BY <3>1, <3>2
    <2> QED
      BY <1>4, <2>1, <2>2 DEF Rearm, caller, worker
  <1>5. CASE Persist
    <2>1. used' \in [EnvEvents -> Nat]
      BY <1>5, SpendType DEF Persist, EnvEvents
    <2> QED
      BY <1>5, <2>1 DEF Persist, caller, worker
  <1>6. ASSUME NEW reboot \in BOOLEAN, Restart(reboot)
        PROVE  TypeOK'
    <2>1. entry' \in [Keys -> EntryType]
      <3>1. ASSUME NEW k \in Keys
            PROVE  (IF reboot THEN RebootAge ELSE disk.entry[k].age) \in RebootAge..MaxAge
        BY ScheduleAssumption DEF EntryType
      <3> QED
        BY <1>6, <3>1, EntryTypes DEF Restart
    <2>2. used' \in [EnvEvents -> Nat]
      BY <1>6, SpendType DEF Restart, EnvEvents
    <2>3. gate' \in 0..GateMax
      BY <1>6, BoundsAssumption DEF Restart
    <2>4. forced' \in [Senders -> 0..RearmWindow]
      BY <1>6, ScheduleAssumption DEF Restart
    <2> QED
      BY <1>6, <2>1, <2>2, <2>3, <2>4 DEF Restart
  <1>7. CASE Tick
    <2>1. entry' \in [Keys -> EntryType]
      <3>1. ASSUME NEW k \in Keys, entry[k].age < MaxAge
            PROVE  entry[k].age + 1 \in RebootAge..MaxAge
        <4>1. entry[k].age \in RebootAge..MaxAge
          BY DEF EntryType
        <4> QED
          BY <3>1, <4>1, ScheduleAssumption
      <3> QED
        BY <1>7, <3>1, EntryTypes DEF Tick
    <2>2. gate' \in 0..GateMax
      BY <1>7, BoundsAssumption DEF Tick
    <2>3. forced' \in [Senders -> 0..RearmWindow]
      BY <1>7, ScheduleAssumption DEF Tick
    <2> QED
      BY <1>7, <2>1, <2>2, <2>3 DEF Tick, caller, worker
  <1> QED
    BY <1>1, <1>2, <1>3, <1>4, <1>5, <1>6, <1>7

LEMMA InitType == Init => TypeOK
  <1> SUFFICES ASSUME Init
               PROVE  TypeOK
    OBVIOUS
  <1>1. entry \in [Keys -> EntryType] /\ disk.entry \in [Keys -> EntryType]
    BY EntryTypes DEF Init
  <1>2. /\ gate \in 0..GateMax /\ used \in [EnvEvents -> Nat] /\ notices \in [Keys -> Nat]
        /\ forced \in [Senders -> 0..RearmWindow]
    BY BoundsAssumption, ScheduleAssumption DEF Init
  <1>3. at \in [Threads -> Events] /\ skey \in Keys
    BY KeysAssumption DEF Init
  <1>4. disk = [params |-> {}, entry |-> disk.entry]
    BY DEF Init
  <1> QED
    BY <1>1, <1>2, <1>3, <1>4 DEF Init, TypeOK

LEMMA NextType == TypeOK /\ [Next]_vars => TypeOK'
  <1>1. TypeOK /\ UNCHANGED vars => TypeOK'
    BY DEF TypeOK, vars
  <1> QED
    BY <1>1, CallerType, KeyType, RetryType DEF Next, WorkerContinues

\* Every variable keeps its type: in particular ages stay in the range the
\* schedule compares them with, and no entry has a negative attempt count.
THEOREM TypeCorrect == Spec => []TypeOK
  BY InitType, NextType, PTL DEF Spec
-----------------------------------------------------------------------------
\* The attempt counts of the entries the actions write.
LEMMA Attempts ==
    /\ NoEntry.attempts = 0
    /\ Fresh.attempts = 1
    /\ \A e \in EntryType :
          /\ e.attempts \in Nat
          /\ \A a : Aged(e, a).attempts = e.attempts
          /\ Resent(e).attempts = e.attempts + 1
          /\ Rearmed(e).attempts = 1
          /\ [e EXCEPT !.notified = TRUE].attempts = e.attempts
          /\ \A a : [Aged(e, a) EXCEPT !.notified = FALSE].attempts = e.attempts
  BY DEF NoEntry, Fresh, EntryType, Aged, Resent, Rearmed

\* KeepsAsking is inductive given the types.  The steps of the decrypting
\* threads and of the user: the event is parked before its request exists,
\* and BeingAsked covers the gap.
LEMMA CallerKeepsAsking ==
    ASSUME TypeOK, KeepsAsking,
           \/ \E t \in Threads : ThreadStep(t)
           \/ \E k \in Keys : ReRequestKey(k)
    PROVE  KeepsAsking'
  <1> SUFFICES ASSUME NEW j \in Keys, Waiting(j)'
               PROVE  BeingAsked(j)' \/ j \in gaveUp' \/ j \in forgotten'
    BY DEF KeepsAsking
  <1> USE KeysAssumption DEF TypeOK
  <1>1. ASSUME NEW t \in Threads, NEW e \in Events, Check(t, e)
        PROVE  BeingAsked(j)' \/ j \in gaveUp' \/ j \in forgotten'
    <2>1. Waiting(j)
      BY <1>1 DEF Waiting, Check
    <2>2. BeingAsked(j) => BeingAsked(j)'
      BY <1>1 DEF Check, BeingAsked, Requested, worker, caller
    <2> QED
      BY <1>1, <2>1, <2>2 DEF KeepsAsking, Check
  <1>2. ASSUME NEW t \in Threads, AddPending(t)
        PROVE  BeingAsked(j)' \/ j \in gaveUp' \/ j \in forgotten'
    <2>1. CASE j = KeyOf[at[t]]
      BY <1>2, <2>1 DEF AddPending, BeingAsked
    <2>2. CASE j # KeyOf[at[t]]
      <3>1. Waiting(j)
        BY <1>2, <2>2 DEF Waiting, AddPending
      <3>2. BeingAsked(j) => BeingAsked(j)'
        BY <1>2 DEF AddPending, BeingAsked, Requested, worker
      <3> QED
        BY <1>2, <3>1, <3>2 DEF KeepsAsking, AddPending
    <2> QED
      BY <2>1, <2>2
  <1>3. ASSUME NEW t \in Threads, InsertRequest(t)
        PROVE  BeingAsked(j)' \/ j \in gaveUp' \/ j \in forgotten'
    <2> DEFINE k == KeyOf[at[t]]
               added == [entry EXCEPT ![k] = Fresh]
    <2>1. Waiting(j)
      BY <1>3 DEF Waiting, InsertRequest
    <2>2. k \in Keys /\ Oldest(added) \subseteq Keys
      BY DEF Oldest
    <2>3. CASE ~MayInsert(k) /\ UNCHANGED <<entry, forgotten>>
      <3>1. j = k => Requested(j)' \/ j \in gaveUp'
        BY <1>3, <2>3 DEF InsertRequest, MayInsert, Requested
      <3>2. j # k /\ BeingAsked(j) => BeingAsked(j)'
        BY <1>3, <2>3 DEF InsertRequest, BeingAsked, Requested, worker
      <3> QED
        BY <1>3, <2>1, <2>3, <3>1, <3>2 DEF KeepsAsking, InsertRequest, BeingAsked
    <2>4. CASE entry' = added /\ forgotten' = forgotten \ {k}
      <3>1. j = k => Requested(j)'
        BY <2>2, <2>4, Attempts DEF Requested
      <3>2. j # k /\ BeingAsked(j) => BeingAsked(j)'
        BY <1>3, <2>4 DEF InsertRequest, BeingAsked, Requested, worker
      <3> QED
        BY <1>3, <2>1, <2>4, <3>1, <3>2 DEF KeepsAsking, InsertRequest, BeingAsked
    <2>5. ASSUME NEW old \in Oldest(added),
                 entry' = [added EXCEPT ![old] = NoEntry],
                 forgotten' = (forgotten \ {k}) \cup {old}
          PROVE  BeingAsked(j)' \/ j \in gaveUp' \/ j \in forgotten'
      <3>1. j = k /\ j # old => Requested(j)'
        BY <2>2, <2>5, Attempts DEF Requested
      <3>2. j # k /\ j # old /\ BeingAsked(j) => BeingAsked(j)'
        BY <1>3, <2>2, <2>5 DEF InsertRequest, BeingAsked, Requested, worker
      <3> QED
        BY <1>3, <2>1, <2>5, <3>1, <3>2 DEF KeepsAsking, InsertRequest, BeingAsked
    <2> QED
      BY <1>3, <2>3, <2>4, <2>5 DEF InsertRequest
  <1>4. ASSUME NEW t \in Threads, PassGate(t)
        PROVE  BeingAsked(j)' \/ j \in gaveUp' \/ j \in forgotten'
    <2>1. Waiting(j)
      BY <1>4 DEF Waiting, PassGate
    <2>2. Requested(j) => Requested(j)'
      <3> DEFINE k == KeyOf[at[t]]
      <3>1. entry' = entry \/ entry' = [entry EXCEPT ![k] = Aged(entry[k], DeferAge)]
        BY <1>4 DEF PassGate
      <3>2. k \in Keys /\ Aged(entry[k], DeferAge).attempts = entry[k].attempts
        BY Attempts
      <3>3. entry'[j].attempts = entry[j].attempts
        BY <3>1, <3>2
      <3> QED
        BY <3>3 DEF Requested
    <2>3. BeingAsked(j) => BeingAsked(j)'
      BY <1>4, <2>2 DEF PassGate, BeingAsked, worker
    <2> QED
      BY <1>4, <2>1, <2>3 DEF KeepsAsking, PassGate
  <1>5. ASSUME NEW k \in Keys, ReRequestKey(k)
        PROVE  BeingAsked(j)' \/ j \in gaveUp' \/ j \in forgotten'
    <2>1. Waiting(j)
      BY <1>5 DEF Waiting, ReRequestKey
    <2>2. Requested(j) \/ j = k => Requested(j)'
      BY <1>5, Attempts DEF ReRequestKey, Requested
    <2>3. BeingAsked(j) => BeingAsked(j)'
      BY <1>5, <2>2 DEF ReRequestKey, BeingAsked, worker, caller
    <2> QED
      BY <1>5, <2>1, <2>2, <2>3 DEF KeepsAsking, ReRequestKey, BeingAsked
  <1> QED
    BY <1>1, <1>2, <1>3, <1>4, <1>5 DEF ThreadStep

\* The handlers of room keys: a request is dropped before its key is
\* checked, and every request dropped without its key is in `forgotten`.
LEMMA KeyKeepsAsking ==
    ASSUME TypeOK, KeepsAsking,
           \/ \E k \in Keys : EraseRequest(k) \/ ImportSession(k)
           \/ AddSession \/ RejectSession \/ ProcessPending \/ EraseSatisfied
    PROVE  KeepsAsking'
  <1> SUFFICES ASSUME NEW j \in Keys, Waiting(j)'
               PROVE  BeingAsked(j)' \/ j \in gaveUp' \/ j \in forgotten'
    BY DEF KeepsAsking
  <1> USE KeysAssumption DEF TypeOK
  <1>1. ASSUME NEW k \in Keys, EraseRequest(k)
        PROVE  BeingAsked(j)' \/ j \in gaveUp' \/ j \in forgotten'
    <2>1. Waiting(j)
      BY <1>1 DEF Waiting, EraseRequest
    <2>2. BeingAsked(j) => BeingAsked(j)'
      BY <1>1 DEF EraseRequest, BeingAsked, Requested, caller
    <2> QED
      BY <1>1, <2>1, <2>2 DEF KeepsAsking, EraseRequest
  <1>2. ASSUME NEW k \in Keys, ImportSession(k)
        PROVE  BeingAsked(j)' \/ j \in gaveUp' \/ j \in forgotten'
    <2>1. Waiting(j)
      BY <1>2 DEF Waiting, ImportSession
    <2>2. BeingAsked(j) => BeingAsked(j)'
      BY <1>2 DEF ImportSession, BeingAsked, Requested, caller
    <2> QED
      BY <1>2, <2>1, <2>2 DEF KeepsAsking, ImportSession
  <1>3. CASE AddSession
    <2>1. Waiting(j) /\ j # skey
      BY <1>3 DEF Waiting, AddSession
    <2>2. BeingAsked(j) => BeingAsked(j)'
      BY <1>3, <2>1 DEF AddSession, BeingAsked, Requested, caller
    <2> QED
      BY <1>3, <2>1, <2>2 DEF KeepsAsking, AddSession
  <1>4. CASE RejectSession
    <2>1. Waiting(j)
      BY <1>4 DEF Waiting, RejectSession
    <2>2. j # skey /\ BeingAsked(j) => BeingAsked(j)'
      BY <1>4 DEF RejectSession, BeingAsked, Requested, caller
    <2>3. j = skey => Requested(j)' \/ j \in forgotten'
      BY <1>4 DEF RejectSession, Requested
    <2> QED
      BY <1>4, <2>1, <2>2, <2>3 DEF KeepsAsking, RejectSession, BeingAsked
  <1>5. CASE ProcessPending
    <2>1. Waiting(j)
      BY <1>5 DEF Waiting, ProcessPending
    <2>2. BeingAsked(j) => BeingAsked(j)'
      BY <1>5 DEF ProcessPending, BeingAsked, Requested, caller
    <2> QED
      BY <1>5, <2>1, <2>2 DEF KeepsAsking, ProcessPending
  <1>6. CASE EraseSatisfied
    <2>1. Waiting(j) /\ j \notin sess
      BY <1>6 DEF Waiting, EraseSatisfied
    <2>2. BeingAsked(j) => BeingAsked(j)' \/ j \in forgotten'
      BY <1>6, <2>1 DEF EraseSatisfied, BeingAsked, Requested, RequestedKeys, caller
    <2> QED
      BY <1>6, <2>1, <2>2 DEF KeepsAsking, EraseSatisfied
  <1> QED
    BY <1>1, <1>2, <1>3, <1>4, <1>5, <1>6

\* Retries, persistence, a restart and time keep every request, except that
\* clearing a full give-up set forgets the keys that were in it.
LEMMA RetryKeepsAsking ==
    ASSUME TypeOK, KeepsAsking,
           \/ MaybeReRequestKeys
           \/ SnapshotRequests
           \/ \E k \in Keys : ResendOne(k)
           \/ \E s \in Senders : Rearm(s)
           \/ Persist
           \/ \E reboot \in BOOLEAN : Restart(reboot)
           \/ Tick
    PROVE  KeepsAsking'
  <1> SUFFICES ASSUME NEW j \in Keys, Waiting(j)'
               PROVE  BeingAsked(j)' \/ j \in gaveUp' \/ j \in forgotten'
    BY DEF KeepsAsking
  <1> USE KeysAssumption DEF TypeOK
  <1>1. CASE MaybeReRequestKeys
    <2>1. Waiting(j)
      BY <1>1 DEF Waiting, MaybeReRequestKeys
    <2>2. Requested(j) => Requested(j)'
      BY <1>1, Attempts DEF MaybeReRequestKeys, Requested
    <2>3. BeingAsked(j) => BeingAsked(j)'
      BY <1>1, <2>2 DEF MaybeReRequestKeys, BeingAsked, worker, caller
    <2>4. j \in gaveUp => j \in gaveUp' \/ Requested(j) \/ j \in forgotten'
      BY <1>1, <2>1 DEF MaybeReRequestKeys, RequestedKeys, Waiting
    <2>5. forgotten \subseteq forgotten'
      BY <1>1 DEF MaybeReRequestKeys
    <2> QED
      BY <2>1, <2>2, <2>3, <2>4, <2>5 DEF KeepsAsking, BeingAsked
  <1>2. CASE SnapshotRequests
    <2>1. Waiting(j)
      BY <1>2 DEF Waiting, SnapshotRequests
    <2>2. BeingAsked(j) => BeingAsked(j)'
      BY <1>2 DEF SnapshotRequests, BeingAsked, Requested, caller
    <2> QED
      BY <1>2, <2>1, <2>2 DEF KeepsAsking, SnapshotRequests
  <1>3. ASSUME NEW k \in Keys, ResendOne(k)
        PROVE  BeingAsked(j)' \/ j \in gaveUp' \/ j \in forgotten'
    <2>1. Waiting(j)
      BY <1>3 DEF Waiting, ResendOne
    <2>2. Requested(j) => Requested(j)'
      BY <1>3, Attempts DEF ResendOne, Requested
    <2>3. BeingAsked(j) => BeingAsked(j)'
      BY <1>3, <2>2 DEF ResendOne, BeingAsked, caller
    <2> QED
      BY <1>3, <2>1, <2>3 DEF KeepsAsking, ResendOne
  <1>4. ASSUME NEW s, Rearm(s)
        PROVE  BeingAsked(j)' \/ j \in gaveUp' \/ j \in forgotten'
    <2>1. Waiting(j)
      BY <1>4 DEF Waiting, Rearm
    <2>2. Requested(j) => Requested(j)'
      BY <1>4, Attempts DEF Rearm, Requested
    <2>3. BeingAsked(j) => BeingAsked(j)'
      BY <1>4, <2>2 DEF Rearm, BeingAsked, caller, worker
    <2> QED
      BY <1>4, <2>1, <2>3 DEF KeepsAsking, Rearm
  <1>5. CASE Persist
    <2>1. Waiting(j)
      BY <1>5 DEF Waiting, Persist
    <2>2. BeingAsked(j) => BeingAsked(j)'
      BY <1>5 DEF Persist, BeingAsked, Requested, caller, worker
    <2> QED
      BY <1>5, <2>1, <2>2 DEF KeepsAsking, Persist
  <1>6. ASSUME NEW reboot \in BOOLEAN, Restart(reboot)
        PROVE  BeingAsked(j)' \/ j \in gaveUp' \/ j \in forgotten'
    BY <1>6 DEF Restart, Waiting
  <1>7. CASE Tick
    <2>1. Waiting(j)
      BY <1>7 DEF Waiting, Tick
    <2>2. Requested(j) => Requested(j)'
      BY <1>7, Attempts DEF Tick, Requested
    <2>3. BeingAsked(j) => BeingAsked(j)'
      BY <1>7, <2>2 DEF Tick, BeingAsked, caller, worker
    <2> QED
      BY <1>7, <2>1, <2>3 DEF KeepsAsking, Tick
  <1> QED
    BY <1>1, <1>2, <1>3, <1>4, <1>5, <1>6, <1>7

\* No event waits for a session that nobody will ask for again, except in
\* the cases the code accepts (KeepsAsking; decryptor.hpp:326), whatever the
\* interleaving of decrypting threads, room keys, retries and restarts.
THEOREM AlwaysAsking == Spec => []KeepsAsking
  <1>1. Init => KeepsAsking
    BY DEF Init, KeepsAsking, Waiting
  <1>2. TypeOK /\ KeepsAsking /\ [Next]_vars => KeepsAsking'
    <2>1. KeepsAsking /\ UNCHANGED vars => KeepsAsking'
      BY DEF KeepsAsking, Waiting, BeingAsked, Requested, vars, caller, worker
    <2> QED
      BY <2>1, CallerKeepsAsking, KeyKeepsAsking, RetryKeepsAsking DEF Next, WorkerContinues
  <1> QED
    BY <1>1, <1>2, TypeCorrect, PTL DEF Spec
-----------------------------------------------------------------------------
\* The bound on attempts, strengthened: it also holds of what is on disk, and
\* a resend sweep under way has one attempt in hand for each key it still
\* has to send.
Limit == MaxAttempts + 1 + used["resend"]

AttemptsInv ==
    /\ \A k \in Keys : entry[k].attempts <= Limit /\ disk.entry[k].attempts <= Limit
    /\ spc # "resending" => todo = {}
    /\ \A k \in todo : entry[k].attempts < Limit
    /\ todo # {} => used["resend"] > 0

\* The counts of the environment events never go down.
LEMMA OnlySpent ==
    ASSUME TypeOK, Next
    PROVE  \A x \in EnvEvents : used'[x] \in Nat /\ used[x] <= used'[x]
  <1> USE DEF TypeOK, EnvEvents
  <1>1. ASSUME NEW what \in EnvEvents, Spend(what)
        PROVE  \A x \in EnvEvents : used'[x] \in Nat /\ used[x] <= used'[x]
    BY <1>1, SpendType
  <1>2. ASSUME UNCHANGED used
        PROVE  \A x \in EnvEvents : used'[x] \in Nat /\ used[x] <= used'[x]
    BY <1>2
  <1>3. ASSUME NEW t \in Threads, ThreadStep(t)
        PROVE  UNCHANGED used \/ \E what \in EnvEvents : Spend(what)
    BY <1>3 DEF ThreadStep, Check, AddPending, InsertRequest, PassGate
  <1>4. ASSUME NEW k \in Keys, ReRequestKey(k) \/ EraseRequest(k) \/ ImportSession(k)
        PROVE  \E what \in EnvEvents : Spend(what)
    BY <1>4 DEF ReRequestKey, EraseRequest, ImportSession
  <1>5. ASSUME WorkerContinues
        PROVE  UNCHANGED used \/ \E what \in EnvEvents : Spend(what)
    BY <1>5 DEF WorkerContinues, AddSession, RejectSession, ProcessPending, EraseSatisfied, ResendOne
  <1>6. ASSUME MaybeReRequestKeys \/ Tick
        PROVE  UNCHANGED used
    BY <1>6 DEF MaybeReRequestKeys, Tick
  <1>7. ASSUME SnapshotRequests \/ Persist
        PROVE  \E what \in EnvEvents : Spend(what)
    BY <1>7 DEF SnapshotRequests, Persist
  <1>8. ASSUME NEW s, Rearm(s)
        PROVE  UNCHANGED used
    BY <1>8 DEF Rearm
  <1>9. ASSUME NEW reboot, Restart(reboot)
        PROVE  \E what \in EnvEvents : Spend(what)
    BY <1>9 DEF Restart
  <1> QED
    BY <1>1, <1>2, <1>3, <1>4, <1>5, <1>6, <1>7, <1>8, <1>9 DEF Next

\* The steps that neither count an attempt, nor save, nor load: no attempt
\* count grows, except that of a new entry.
QuietStep ==
    \/ \E t \in Threads : ThreadStep(t)
    \/ \E k \in Keys : ReRequestKey(k) \/ EraseRequest(k) \/ ImportSession(k)
    \/ AddSession \/ RejectSession \/ ProcessPending \/ EraseSatisfied
    \/ \E s \in Senders : Rearm(s)
    \/ Tick

Harmless == \A k \in Keys : entry'[k].attempts <= entry[k].attempts \/ entry'[k].attempts = 1

LEMMA QuietAttempts ==
    ASSUME TypeOK, QuietStep
    PROVE  /\ Harmless
           /\ disk' = disk /\ todo' = todo
           /\ spc = "resending" <=> spc' = "resending"
  <1> USE KeysAssumption DEF TypeOK, Harmless
  <1>0. \A k \in Keys : entry[k] \in EntryType /\ entry[k].attempts \in Nat
    BY Attempts
  <1>1. ASSUME NEW t \in Threads, ThreadStep(t)
        PROVE  Harmless
    <2>1. CASE entry' = entry
      BY <1>0, <2>1
    <2>2. CASE InsertRequest(t)
      <3> DEFINE k == KeyOf[at[t]]
                 added == [entry EXCEPT ![k] = Fresh]
      <3>1. k \in Keys /\ \A old \in Oldest(added) : old \in Keys
        BY DEF Oldest
      <3>2. \/ entry' = entry
            \/ entry' = added
            \/ \E old \in Oldest(added) : entry' = [added EXCEPT ![old] = NoEntry]
        BY <2>2 DEF InsertRequest
      <3>3. \A j \in Keys : added[j].attempts <= entry[j].attempts \/ added[j].attempts = 1
        BY <1>0, Attempts
      <3>4. \A old \in Keys, j \in Keys :
                [added EXCEPT ![old] = NoEntry][j] = added[j]
                  \/ [added EXCEPT ![old] = NoEntry][j] = NoEntry
        OBVIOUS
      <3>5. \A j \in Keys : NoEntry.attempts <= entry[j].attempts
        BY <1>0, Attempts
      <3> HIDE DEF added
      <3>6. CASE entry' = entry
        BY <1>0, <3>6
      <3>7. CASE entry' = added
        BY <3>3, <3>7
      <3>8. ASSUME NEW old \in Oldest(added), entry' = [added EXCEPT ![old] = NoEntry]
            PROVE  Harmless
        BY <3>1, <3>3, <3>4, <3>5, <3>8
      <3> QED
        BY <3>2, <3>6, <3>7, <3>8
    <2>3. CASE PassGate(t)
      <3> DEFINE k == KeyOf[at[t]]
      <3>1. k \in Keys /\ Aged(entry[k], DeferAge).attempts = entry[k].attempts
        BY Attempts
      <3>2. entry' = entry \/ entry' = [entry EXCEPT ![k] = Aged(entry[k], DeferAge)]
        BY <2>3 DEF PassGate
      <3> QED
        BY <1>0, <3>1, <3>2
    <2> QED
      BY <1>1, <2>1, <2>2, <2>3 DEF ThreadStep, Check, AddPending
  <1>2. ASSUME NEW k \in Keys, ReRequestKey(k) \/ EraseRequest(k) \/ ImportSession(k)
        PROVE  Harmless
    <2>1. \/ entry' = entry
          \/ entry' = [entry EXCEPT ![k] = Fresh]
          \/ entry' = [entry EXCEPT ![k] = Aged(entry[k], 0)]
          \/ entry' = [entry EXCEPT ![k] = NoEntry]
      BY <1>2 DEF ReRequestKey, EraseRequest, ImportSession
    <2>2. /\ Aged(entry[k], 0).attempts = entry[k].attempts
          /\ Fresh.attempts = 1 /\ NoEntry.attempts = 0
      BY Attempts
    <2>3. \A j \in Keys : \/ entry'[j] = entry[j]
                          \/ entry'[j].attempts = entry[j].attempts
                          \/ entry'[j].attempts \in {0, 1}
      BY <2>1, <2>2
    <2> QED
      BY <1>0, <2>3
  <1>3. ASSUME AddSession \/ RejectSession \/ ProcessPending
        PROVE  Harmless
    BY <1>0, <1>3 DEF AddSession, RejectSession, ProcessPending
  <1>4. ASSUME EraseSatisfied
        PROVE  Harmless
    BY <1>0, <1>4, Attempts DEF EraseSatisfied
  <1>5. ASSUME NEW s, Rearm(s)
        PROVE  Harmless
    BY <1>0, <1>5, Attempts DEF Rearm
  <1>6. ASSUME Tick
        PROVE  Harmless
    BY <1>0, <1>6, Attempts DEF Tick
  <1>7. disk' = disk /\ todo' = todo /\ (spc = "resending" <=> spc' = "resending")
    BY DEF QuietStep, ThreadStep, Check, AddPending, InsertRequest, PassGate, ReRequestKey,
           EraseRequest, ImportSession, AddSession, RejectSession, ProcessPending, EraseSatisfied,
           Rearm, Tick, worker
  <1> QED
    BY <1>1, <1>2, <1>3, <1>4, <1>5, <1>6, <1>7 DEF QuietStep

LEMMA AttemptsStep ==
    ASSUME TypeOK, AttemptsInv, Next
    PROVE  AttemptsInv'
  <1>0. /\ MaxAttempts \in Nat /\ MaxAttempts >= 1
        /\ used["resend"] \in Nat /\ used'["resend"] \in Nat
        /\ used["resend"] <= used'["resend"]
        /\ "resend" \in EnvEvents
    <2>1. "resend" \in EnvEvents
      BY DEF EnvEvents
    <2>2. MaxAttempts \in Nat /\ MaxAttempts >= 1
      BY ScheduleAssumption
    <2>3. \A x \in EnvEvents : used[x] \in Nat
      BY DEF TypeOK
    <2> QED
      BY <2>1, <2>2, <2>3, OnlySpent
  <1>1. /\ Limit \in Nat /\ Limit' \in Nat
        /\ Limit <= Limit' /\ MaxAttempts + 1 <= Limit
        /\ used["resend"] > 0 => MaxAttempts + 1 < Limit
    BY <1>0 DEF Limit
  <1>2. \A k \in Keys : /\ entry[k].attempts \in Nat /\ disk.entry[k].attempts \in Nat
                        /\ entry[k] \in EntryType /\ disk.entry[k] \in EntryType
    BY Attempts DEF TypeOK
  <1>2a. \A k \in Keys : entry'[k].attempts \in Nat
    BY NextType, Attempts DEF TypeOK
  <1>4. todo \subseteq Keys
    BY DEF TypeOK
  <1>5. CASE QuietStep
    <2>1. /\ Harmless
          /\ disk' = disk /\ todo' = todo
          /\ spc = "resending" <=> spc' = "resending"
      BY <1>5, QuietAttempts
    <2>2. \A k \in Keys : entry'[k].attempts <= Limit'
      BY <1>0, <1>1, <1>2, <1>2a, <2>1 DEF AttemptsInv, Harmless
    <2>3. \A k \in todo' : entry'[k].attempts < Limit'
      BY <1>0, <1>1, <1>2, <1>2a, <1>4, <2>1 DEF AttemptsInv, Harmless
    <2>4. todo' # {} => used'["resend"] > 0
      BY <1>0, <2>1 DEF AttemptsInv
    <2>5. \A k \in Keys : disk'.entry[k].attempts <= Limit'
      BY <1>1, <1>2, <2>1 DEF AttemptsInv
    <2>6. spc' # "resending" => todo' = {}
      BY <2>1 DEF AttemptsInv
    <2> QED
      BY <2>2, <2>3, <2>4, <2>5, <2>6 DEF AttemptsInv
  <1>6. CASE MaybeReRequestKeys
    <2>1. todo = {} /\ UNCHANGED <<spc, todo, disk, used>>
      BY <1>6 DEF MaybeReRequestKeys, AttemptsInv, worker
    <2>2. \A k \in Keys : \/ entry'[k].attempts = entry[k].attempts
                          \/ entry'[k].attempts <= MaxAttempts + 1
      BY <1>0, <1>2, <1>6, Attempts DEF MaybeReRequestKeys, ShouldReRequest, TypeOK
    <2>3. \A k \in Keys : entry'[k].attempts \in Nat
      BY <1>2, <1>6, Attempts DEF MaybeReRequestKeys
    <2>4. \A k \in Keys : entry'[k].attempts <= Limit'
      BY <1>0, <1>1, <1>2, <2>2, <2>3 DEF AttemptsInv
    <2>5. \A k \in Keys : disk'.entry[k].attempts <= Limit'
      BY <1>1, <1>2, <2>1 DEF AttemptsInv
    <2> QED
      BY <2>1, <2>4, <2>5 DEF AttemptsInv
  <1>7. CASE SnapshotRequests
    <2>1. used'["resend"] = used["resend"] + 1
      BY <1>0, <1>7, SpendType DEF SnapshotRequests, TypeOK
    <2>2. Limit' = Limit + 1 /\ used'["resend"] > 0
      BY <1>0, <2>1 DEF Limit
    <2>3. UNCHANGED <<entry, disk>> /\ spc' = "resending" /\ todo' \subseteq Keys
      BY <1>7 DEF SnapshotRequests, RequestedKeys
    <2> QED
      BY <1>1, <1>2, <2>2, <2>3 DEF AttemptsInv
  <1>8. ASSUME NEW k \in Keys, ResendOne(k)
        PROVE  AttemptsInv'
    <2>1. /\ todo' = todo \ {k} /\ UNCHANGED <<disk, used>>
          /\ spc' # "resending" => todo' = {}
      BY <1>8 DEF ResendOne
    <2>2. \A j \in Keys : j # k => entry'[j] = entry[j]
      BY <1>8 DEF ResendOne, TypeOK
    <2>3. entry'[k].attempts \in {entry[k].attempts, entry[k].attempts + 1}
      BY <1>2, <1>8, Attempts DEF ResendOne, TypeOK
    <2>4. entry[k].attempts < Limit /\ Limit' = Limit
      BY <1>8, <2>1 DEF ResendOne, AttemptsInv, Limit
    <2>5. \A j \in Keys : entry'[j].attempts <= Limit'
      BY <1>1, <1>2, <2>2, <2>3, <2>4 DEF AttemptsInv
    <2> QED
      BY <1>4, <2>1, <2>2, <2>4, <2>5 DEF AttemptsInv
  <1>9. CASE Persist
    <2>1. UNCHANGED <<entry, spc, todo>>
      BY <1>9 DEF Persist, worker
    <2>2. disk'.entry \in {entry, disk.entry}
      BY <1>9 DEF Persist
    <2>3. \A k \in Keys : disk'.entry[k].attempts <= Limit'
      BY <1>1, <1>2, <2>2 DEF AttemptsInv
    <2>4. \A k \in Keys : entry'[k].attempts <= Limit'
      BY <1>1, <1>2, <2>1 DEF AttemptsInv
    <2>5. \A k \in todo' : entry'[k].attempts < Limit'
      BY <1>1, <1>2, <1>4, <2>1 DEF AttemptsInv
    <2>6. todo' # {} => used'["resend"] > 0
      BY <1>0, <2>1 DEF AttemptsInv
    <2> QED
      BY <2>1, <2>3, <2>4, <2>5, <2>6 DEF AttemptsInv
  <1>10. ASSUME NEW reboot, Restart(reboot)
         PROVE  AttemptsInv'
    <2>1. todo' = {} /\ disk' = disk
      BY <1>10 DEF Restart
    <2>2. \A k \in Keys : entry'[k].attempts = disk.entry[k].attempts
      BY <1>2, <1>10, Attempts DEF Restart
    <2>3. \A k \in Keys : entry'[k].attempts <= Limit' /\ disk'.entry[k].attempts <= Limit'
      BY <1>1, <1>2, <2>1, <2>2 DEF AttemptsInv
    <2> QED
      BY <2>1, <2>3 DEF AttemptsInv
  <1> QED
    BY <1>5, <1>6, <1>7, <1>8, <1>9, <1>10 DEF Next, QuietStep, WorkerContinues

\* However retries, resend sweeps, re-arms, saves and restarts interleave, no
\* request is counted more than MaxAttempts + 1 times, plus once per sweep
\* (AttemptsBounded; decryptor.cpp:1774, 1906-1955).
THEOREM AttemptsNeverRunAway == Spec => []AttemptsBounded
  <1>1. Init => AttemptsInv
    <2> SUFFICES ASSUME Init
                 PROVE  AttemptsInv
      OBVIOUS
    <2>1. Limit \in Nat
      BY ScheduleAssumption DEF Init, Limit, EnvEvents
    <2>2. \A k \in Keys : entry[k].attempts = 0 /\ disk.entry[k].attempts = 0
      BY Attempts DEF Init
    <2> QED
      BY <2>1, <2>2 DEF Init, AttemptsInv
  <1>2. TypeOK /\ AttemptsInv /\ [Next]_vars => AttemptsInv'
    <2>1. AttemptsInv /\ UNCHANGED vars => AttemptsInv'
      BY DEF AttemptsInv, Limit, vars, worker
    <2> QED
      BY <2>1, AttemptsStep
  <1>3. AttemptsInv => AttemptsBounded
    BY DEF AttemptsInv, AttemptsBounded, Limit
  <1> QED
    BY <1>1, <1>2, <1>3, TypeCorrect, PTL DEF Spec
-----------------------------------------------------------------------------
\* The cap of the request map, strengthened with the map on disk, which a
\* restart loads without looking at the cap.
SavedKeys == {k \in Keys : disk.entry[k].attempts > 0}

MapInv ==
    /\ Cardinality(RequestedKeys) <= Cap + used["manual"]
    /\ Cardinality(SavedKeys) <= Cap + used["manual"]

\* Which requests there are after a step: only InsertRequest and ReRequestKey
\* add one, only Restart replaces them.
LEMMA RequestsAfter ==
    ASSUME TypeOK, Next,
           \A t \in Threads : ~InsertRequest(t),
           \A k \in Keys : ~ReRequestKey(k),
           \A reboot \in BOOLEAN : ~Restart(reboot)
    PROVE  /\ RequestedKeys' \subseteq RequestedKeys
           /\ disk'.entry \in {disk.entry, entry}
  <1> USE KeysAssumption DEF TypeOK
  <1>0. \A k \in Keys : entry[k] \in EntryType /\ entry[k].attempts \in Nat
    BY Attempts
  <1>1. ASSUME QuietStep
        PROVE  RequestedKeys' \subseteq RequestedKeys
    <2>1. ASSUME NEW t \in Threads, PassGate(t)
          PROVE  RequestedKeys' \subseteq RequestedKeys
      <3> DEFINE k == KeyOf[at[t]]
      <3>1. k \in Keys /\ Aged(entry[k], DeferAge).attempts = entry[k].attempts
        BY Attempts
      <3>2. entry' = entry \/ entry' = [entry EXCEPT ![k] = Aged(entry[k], DeferAge)]
        BY <2>1 DEF PassGate
      <3> QED
        BY <3>1, <3>2 DEF RequestedKeys, Requested
    <2>2. ASSUME NEW t \in Threads, ThreadStep(t), ~PassGate(t)
          PROVE  RequestedKeys' \subseteq RequestedKeys
      BY <2>2 DEF ThreadStep, Check, AddPending, RequestedKeys, Requested
    <2>3. ASSUME NEW k \in Keys, EraseRequest(k) \/ ImportSession(k)
          PROVE  RequestedKeys' \subseteq RequestedKeys
      <3>1. entry' = entry \/ entry' = [entry EXCEPT ![k] = NoEntry]
        BY <2>3 DEF EraseRequest, ImportSession
      <3>2. ~(NoEntry.attempts > 0)
        BY Attempts
      <3> QED
        BY <3>1, <3>2 DEF RequestedKeys, Requested
    <2>4. ASSUME AddSession \/ RejectSession \/ ProcessPending
          PROVE  RequestedKeys' \subseteq RequestedKeys
      BY <2>4 DEF AddSession, RejectSession, ProcessPending, RequestedKeys, Requested
    <2>5. ASSUME EraseSatisfied
          PROVE  RequestedKeys' \subseteq RequestedKeys
      BY <2>5, Attempts DEF EraseSatisfied, RequestedKeys, Requested
    <2>6. ASSUME NEW s, Rearm(s)
          PROVE  RequestedKeys' \subseteq RequestedKeys
      BY <2>6, Attempts DEF Rearm, RequestedKeys, Requested
    <2>7. ASSUME Tick
          PROVE  RequestedKeys' \subseteq RequestedKeys
      BY <2>7, Attempts DEF Tick, RequestedKeys, Requested
    <2> QED
      BY <1>1, <2>1, <2>2, <2>3, <2>4, <2>5, <2>6, <2>7 DEF QuietStep
  <1>2. ASSUME MaybeReRequestKeys
        PROVE  RequestedKeys' \subseteq RequestedKeys /\ disk' = disk
    <2>1. \A k \in Keys : entry[k].attempts = 0 => entry'[k].attempts = 0
      BY <1>2, ScheduleAssumption DEF MaybeReRequestKeys, ShouldReRequest, Exhausted
    <2>2. \A k \in Keys : entry'[k].attempts \in Nat
      BY <1>2, NextType, Attempts DEF Next
    <2> QED
      BY <1>0, <1>2, <2>1, <2>2 DEF RequestedKeys, Requested, MaybeReRequestKeys
  <1>3. ASSUME NEW k \in Keys, ResendOne(k)
        PROVE  RequestedKeys' \subseteq RequestedKeys /\ disk' = disk
    BY <1>0, <1>3, Attempts DEF ResendOne, RequestedKeys, Requested
  <1>4. ASSUME SnapshotRequests
        PROVE  RequestedKeys' \subseteq RequestedKeys /\ disk' = disk
    BY <1>4 DEF SnapshotRequests, RequestedKeys, Requested
  <1>5. ASSUME Persist
        PROVE  RequestedKeys' \subseteq RequestedKeys /\ disk'.entry \in {disk.entry, entry}
    BY <1>5 DEF Persist, RequestedKeys, Requested
  <1> QED
    BY <1>1, <1>2, <1>3, <1>4, <1>5, QuietAttempts DEF Next, QuietStep, WorkerContinues

LEMMA MapStep ==
    ASSUME TypeOK, MapInv, Next
    PROVE  MapInv'
  <1> DEFINE Bound == Cap + used["manual"]
  <1>1. /\ IsFiniteSet(Keys) /\ Cap \in Nat
        /\ "manual" \in EnvEvents
        /\ used["manual"] \in Nat /\ used'["manual"] \in Nat
        /\ used["manual"] <= used'["manual"]
    BY OnlySpent, KeysAssumption, BoundsAssumption DEF TypeOK, EnvEvents
  <1>2. Bound \in Nat /\ Bound' \in Nat /\ Bound <= Bound' /\ Cap <= Bound
    BY <1>1 DEF MapInv
  <1>3. IsFiniteSet(RequestedKeys) /\ IsFiniteSet(SavedKeys)
    BY <1>1, FS_Subset DEF RequestedKeys, SavedKeys
  <1>4. Cardinality(RequestedKeys) \in Nat /\ Cardinality(SavedKeys) \in Nat
    BY <1>3, FS_CardinalityType
  <1>5. ASSUME RequestedKeys' \subseteq RequestedKeys, disk'.entry \in {disk.entry, entry}
        PROVE  MapInv'
    <2>1. Cardinality(RequestedKeys') <= Cardinality(RequestedKeys)
             /\ Cardinality(RequestedKeys') \in Nat
      BY <1>3, <1>5, FS_Subset, FS_CardinalityType
    <2>2. SavedKeys' \in {SavedKeys, RequestedKeys}
      BY <1>5 DEF SavedKeys, RequestedKeys, Requested
    <2> QED
      BY <1>1, <1>2, <1>4, <2>1, <2>2 DEF MapInv
  <1>6. ASSUME NEW t \in Threads, InsertRequest(t)
        PROVE  MapInv'
    <2> DEFINE k == KeyOf[at[t]]
               added == [entry EXCEPT ![k] = Fresh]
               R == RequestedKeys
    <2>0. k \in Keys /\ SavedKeys' = SavedKeys
      BY <1>6, KeysAssumption DEF TypeOK, InsertRequest, SavedKeys
    <2>1. CASE entry' = entry
      BY <1>5, <1>6, <2>1 DEF RequestedKeys, Requested, InsertRequest
    <2>2. CASE MayInsert(k) /\ ~OverCap(k) /\ entry' = added
      <3>1. RequestedKeys' = R \cup {k}
        BY <2>0, <2>2, Attempts DEF TypeOK, RequestedKeys, Requested
      <3>2. Cardinality(RequestedKeys') \in Nat
        BY <1>3, <3>1, FS_AddElement, FS_CardinalityType
      <3>3. Cardinality(RequestedKeys') <= Cap
        BY <1>1, <2>2, <3>1, <3>2 DEF OverCap
      <3> QED
        BY <1>1, <1>2, <1>4, <2>0, <3>2, <3>3 DEF MapInv
    <2>3. ASSUME MayInsert(k), NEW old \in Oldest(added), entry' = [added EXCEPT ![old] = NoEntry]
          PROVE  MapInv'
      <3>1. old \in R \cup {k}
        BY <2>0, Attempts DEF TypeOK, Oldest, RequestedKeys, Requested
      <3>2. RequestedKeys' = (R \cup {k}) \ {old}
        BY <2>0, <2>3, <3>1, Attempts DEF TypeOK, RequestedKeys, Requested
      <3>3. k \notin R
        BY <2>3 DEF MayInsert, RequestedKeys
      <3>4. IsFiniteSet(R \cup {k}) /\ Cardinality(R \cup {k}) = Cardinality(R) + 1
        BY <1>3, <3>3, FS_AddElement
      <3>5. Cardinality(RequestedKeys') = Cardinality(R)
        BY <1>4, <3>1, <3>2, <3>4, FS_RemoveElement
      <3> QED
        BY <1>1, <1>2, <1>4, <2>0, <3>5 DEF MapInv
    <2> QED
      BY <1>6, <2>1, <2>2, <2>3 DEF InsertRequest
  <1>7. ASSUME NEW k \in Keys, ReRequestKey(k)
        PROVE  MapInv'
    <2>1. used'["manual"] = used["manual"] + 1
      BY <1>1, <1>7, SpendType DEF TypeOK, ReRequestKey
    <2>2. Bound' = Bound + 1
      BY <1>1, <2>1
    <2>3. RequestedKeys' \subseteq RequestedKeys \cup {k} /\ SavedKeys' = SavedKeys
      BY <1>7, Attempts DEF TypeOK, ReRequestKey, RequestedKeys, Requested, SavedKeys
    <2>4. /\ IsFiniteSet(RequestedKeys \cup {k})
          /\ Cardinality(RequestedKeys \cup {k}) <= Cardinality(RequestedKeys) + 1
          /\ Cardinality(RequestedKeys \cup {k}) \in Nat
      <3>1. IsFiniteSet(RequestedKeys \cup {k})
        BY <1>3, FS_AddElement
      <3>2. \/ Cardinality(RequestedKeys \cup {k}) = Cardinality(RequestedKeys)
            \/ Cardinality(RequestedKeys \cup {k}) = Cardinality(RequestedKeys) + 1
        BY <1>3, FS_AddElement
      <3> QED
        BY <1>4, <3>1, <3>2
    <2>5. Cardinality(RequestedKeys') <= Cardinality(RequestedKeys \cup {k})
             /\ Cardinality(RequestedKeys') \in Nat
      BY <2>3, <2>4, FS_Subset, FS_CardinalityType
    <2> QED
      BY <1>1, <1>2, <1>4, <2>2, <2>3, <2>4, <2>5 DEF MapInv
  <1>8. ASSUME NEW reboot, Restart(reboot)
        PROVE  MapInv'
    <2>1. SavedKeys' = SavedKeys
      BY <1>8 DEF Restart, SavedKeys
    <2>2. \A k \in Keys : entry'[k].attempts = disk.entry[k].attempts
      BY <1>8, Attempts DEF Restart, TypeOK
    <2>3. RequestedKeys' = SavedKeys
      BY <2>2 DEF RequestedKeys, Requested, SavedKeys
    <2> QED
      BY <1>1, <1>2, <1>4, <2>1, <2>3 DEF MapInv
  <1> QED
    BY <1>5, <1>6, <1>7, <1>8, RequestsAfter

\* The request map outgrows its cap only by what the user asks for by hand,
\* also across restarts (MapBounded; decryptor.cpp:1655-1668 against 1725).
THEOREM MapStaysBounded == Spec => []MapBounded
  <1>1. Init => MapInv
    <2> SUFFICES ASSUME Init
                 PROVE  MapInv
      OBVIOUS
    <2>1. RequestedKeys = {} /\ SavedKeys = {}
      BY Attempts DEF Init, RequestedKeys, Requested, SavedKeys
    <2>2. Cap + used["manual"] \in Nat
      BY BoundsAssumption DEF Init, EnvEvents
    <2> QED
      BY <2>1, <2>2, FS_EmptySet DEF MapInv
  <1>2. TypeOK /\ MapInv /\ [Next]_vars => MapInv'
    <2>1. MapInv /\ UNCHANGED vars => MapInv'
      BY DEF MapInv, RequestedKeys, Requested, SavedKeys, vars
    <2> QED
      BY <2>1, MapStep
  <1>3. MapInv => MapBounded
    BY DEF MapInv, MapBounded
  <1> QED
    BY <1>1, <1>2, <1>3, TypeCorrect, PTL DEF Spec
-----------------------------------------------------------------------------
\* GaveUpOnce, strengthened.  A session is Open while a retry pass may surface
\* its dead end, now or after another event asked for it: it is not in the
\* give-up set, or its request was not surfaced yet.  The requests of the user
\* and the restarts of the process pay for what was surfaced while it is Open.
\* That the give-up set and the surfaced requests are among the sessions with
\* a notice is what the clearing of a full set needs.
Paid == used["manual"] + used["restart"]
Noticed == {k \in Keys : notices[k] > 0}
Open(k) == k \notin gaveUp \/ (Requested(k) /\ ~entry[k].notified)

NoticeInv ==
    /\ gaveUp \subseteq Noticed
    /\ \A k \in Keys : entry[k].notified => k \in Noticed
    /\ Cardinality(Noticed) <= GaveUpCap =>
          \A k \in Keys : notices[k] <= 1 + Paid /\ (Open(k) => notices[k] <= Paid)


\* What the actions do to the mark of a surfaced request.
LEMMA Marks ==
    /\ ~NoEntry.notified
    /\ ~Fresh.notified
    /\ \A e \in EntryType :
          /\ e.notified \in BOOLEAN
          /\ \A a : Aged(e, a).notified = e.notified
          /\ Resent(e).notified = e.notified
          /\ Rearmed(e).notified = e.notified
          /\ [e EXCEPT !.notified = TRUE].notified
          /\ \A a : ~[Aged(e, a) EXCEPT !.notified = FALSE].notified
  BY DEF NoEntry, Fresh, EntryType, Aged, Resent, Rearmed

\* An entry that replaces another is marked only if that one was, and may
\* be surfaced only if that one might.
Follows(new, old) ==
    /\ new.notified => old.notified
    /\ new.attempts > 0 /\ ~new.notified => old.attempts > 0 /\ ~old.notified

LEMMA EntryFollows ==
    ASSUME NEW e \in EntryType
    PROVE  /\ Follows(e, e)
           /\ Follows(NoEntry, e)
           /\ \A a : Follows(Aged(e, a), e)
           /\ e.attempts > 0 => Follows(Resent(e), e) /\ Follows(Rearmed(e), e)
  BY Attempts, Marks DEF Follows

\* No other step than these surfaces a dead end, clears the give-up set, or
\* makes a session Open again.
LEMMA OthersStayShut ==
    ASSUME TypeOK, Next,
           ~MaybeReRequestKeys,
           \A k \in Keys : ~ReRequestKey(k),
           \A reboot \in BOOLEAN : ~Restart(reboot)
    PROVE  /\ UNCHANGED <<gaveUp, notices>>
           /\ \A j \in Keys : /\ entry'[j].notified => entry[j].notified
                              /\ Open(j)' => Open(j)
  <1> USE KeysAssumption DEF TypeOK
  <1> DEFINE AllFollow == \A j \in Keys : Follows(entry'[j], entry[j])
  <1>0. \A j \in Keys :
           /\ Follows(entry[j], entry[j])
           /\ Follows(NoEntry, entry[j])
           /\ \A a : Follows(Aged(entry[j], a), entry[j])
           /\ entry[j].attempts > 0 => Follows(Resent(entry[j]), entry[j])
                                          /\ Follows(Rearmed(entry[j]), entry[j])
    <2>1. \A j \in Keys : entry[j] \in EntryType
      OBVIOUS
    <2> QED
      BY <2>1, EntryFollows
  <1>1. UNCHANGED <<gaveUp, notices>>
    BY DEF Next, WorkerContinues, ThreadStep, Check, AddPending, InsertRequest, PassGate,
           EraseRequest, ImportSession, AddSession, RejectSession, ProcessPending,
           EraseSatisfied, ResendOne, SnapshotRequests, Rearm, Persist, Tick
  <1>2. ASSUME AllFollow
        PROVE  \A j \in Keys : (entry'[j].notified => entry[j].notified) /\ (Open(j)' => Open(j))
    BY <1>1, <1>2 DEF Follows, Open, Requested
  <1>3. entry' = entry => AllFollow
    BY <1>0
  <1>4. ASSUME NEW t \in Threads, PassGate(t)
        PROVE  AllFollow
    <2>1. entry' = entry \/ entry' = [entry EXCEPT ![KeyOf[at[t]]] = Aged(@, DeferAge)]
      BY <1>4 DEF PassGate
    <2>2. KeyOf[at[t]] \in Keys
      OBVIOUS
    <2> QED
      BY <1>0, <2>1, <2>2
  <1>5. ASSUME NEW k \in Keys, EraseRequest(k)
        PROVE  AllFollow
    BY <1>0, <1>5 DEF EraseRequest
  <1>6. ASSUME NEW k \in Keys, ResendOne(k)
        PROVE  AllFollow
    <2>1. entry' = entry \/ (entry[k].attempts > 0 /\ entry' = [entry EXCEPT ![k] = Resent(@)])
      BY <1>6 DEF ResendOne, Requested
    <2> QED
      BY <1>0, <2>1
  <1>7. ASSUME EraseSatisfied
        PROVE  AllFollow
    <2>1. \A j \in Keys : entry'[j] = entry[j] \/ entry'[j] = NoEntry
      BY <1>7 DEF EraseSatisfied
    <2> QED
      BY <1>0, <2>1
  <1>8. ASSUME NEW s, Rearm(s)
        PROVE  AllFollow
    <2>1. \A j \in Keys : \/ entry'[j] = entry[j]
                           \/ /\ entry[j].attempts > 0
                              /\ entry'[j] = Rearmed(entry[j])
      BY <1>8 DEF Rearm, Requested
    <2> QED
      BY <1>0, <2>1
  <1>9. ASSUME Tick
        PROVE  AllFollow
    <2>1. \A j \in Keys : \/ entry'[j] = entry[j]
                           \/ entry'[j] = Aged(entry[j], entry[j].age + 1)
      BY <1>9 DEF Tick
    <2> QED
      BY <1>0, <2>1
  <1>10. ASSUME NEW t \in Threads, InsertRequest(t)
         PROVE  \A j \in Keys : (entry'[j].notified => entry[j].notified) /\ (Open(j)' => Open(j))
    <2> DEFINE k == KeyOf[at[t]]
               added == [entry EXCEPT ![k] = Fresh]
    <2>1. \/ entry' = entry
          \/ /\ k \notin gaveUp
             /\ \/ entry' = added
                \/ \E old \in Keys : entry' = [added EXCEPT ![old] = NoEntry]
      BY <1>10 DEF InsertRequest, MayInsert, Oldest
    <2>2. CASE entry' = entry
      BY <1>2, <1>3, <2>2
    <2>3. CASE k \notin gaveUp /\ entry' # entry
      <3>1. k \in Keys
        OBVIOUS
      <3>2. \A j \in Keys : j # k => Follows(entry'[j], entry[j])
        BY <1>0, <2>1, <2>3, <3>1
      <3>3. entry'[k] \in {Fresh, NoEntry}
        BY <2>1, <2>3, <3>1
      <3>4. ~entry'[k].notified
        BY <3>3, Marks
      <3> QED
        BY <1>1, <2>3, <3>2, <3>4 DEF Follows, Open, Requested
    <2> QED
      BY <2>1, <2>2, <2>3
  <1>11. \/ \E t \in Threads : PassGate(t) \/ InsertRequest(t)
         \/ \E k \in Keys : EraseRequest(k) \/ ResendOne(k)
         \/ EraseSatisfied \/ (\E s \in Senders : Rearm(s)) \/ Tick
         \/ entry' = entry
    BY DEF Next, WorkerContinues, ThreadStep, Check, AddPending, ImportSession, AddSession,
           RejectSession, ProcessPending, SnapshotRequests, Persist
  <1> HIDE DEF AllFollow
  <1> QED
    BY <1>1, <1>2, <1>3, <1>4, <1>5, <1>6, <1>7, <1>8, <1>9, <1>10, <1>11

LEMMA NoticeStep ==
    ASSUME TypeOK, NoticeInv, Next
    PROVE  NoticeInv'
  <1>1. /\ Paid \in Int /\ Paid' \in Int /\ Paid <= Paid'
        /\ \A k \in Keys : notices[k] \in Nat /\ notices'[k] \in Nat /\ entry[k] \in EntryType
        /\ GaveUpCap \in Nat
    <2>1. \A x \in EnvEvents : used[x] \in Nat /\ used'[x] \in Nat /\ used[x] <= used'[x]
      BY OnlySpent DEF TypeOK
    <2>2. "manual" \in EnvEvents /\ "restart" \in EnvEvents
      BY DEF EnvEvents
    <2>3. Paid \in Int /\ Paid' \in Int /\ Paid <= Paid'
      BY <2>1, <2>2 DEF Paid
    <2>4. TypeOK'
      BY NextType
    <2> QED
      BY <2>3, <2>4, BoundsAssumption DEF TypeOK
  <1>2. IsFiniteSet(Noticed) /\ IsFiniteSet(Noticed')
    BY KeysAssumption, FS_Subset DEF Noticed
  <1>3. Noticed \subseteq Noticed' => Cardinality(Noticed) \in Nat /\ Cardinality(Noticed') \in Nat
                                        /\ Cardinality(Noticed) <= Cardinality(Noticed')
    BY <1>2, FS_Subset, FS_CardinalityType
  <1>4. ASSUME ~MaybeReRequestKeys,
               \A k \in Keys : ~ReRequestKey(k),
               \A reboot \in BOOLEAN : ~Restart(reboot)
        PROVE  NoticeInv'
    <2>1. /\ gaveUp' = gaveUp /\ notices' = notices /\ Noticed' = Noticed
          /\ \A j \in Keys : (entry'[j].notified => entry[j].notified) /\ (Open(j)' => Open(j))
      BY <1>4, OthersStayShut DEF Noticed
    <2> QED
      BY <1>1, <2>1 DEF NoticeInv
  <1>5. ASSUME NEW k \in Keys, ReRequestKey(k)
        PROVE  NoticeInv'
    <2>1. /\ gaveUp' = gaveUp /\ notices' = notices /\ Noticed' = Noticed
          /\ entry' \in {[entry EXCEPT ![k] = Aged(@, 0)], [entry EXCEPT ![k] = Fresh]}
      BY <1>5 DEF ReRequestKey, Noticed
    <2>2. \A j \in Keys : entry'[j].notified => entry[j].notified
      <3>1. ~Fresh.notified /\ Aged(entry[k], 0).notified = entry[k].notified
        BY <1>1, Marks
      <3>2. entry \in [Keys -> EntryType]
        BY DEF TypeOK
      <3> QED
        BY <2>1, <3>1, <3>2
    <2>3. Paid' = Paid + 1
      <3>1. used'["manual"] = used["manual"] + 1 /\ used'["restart"] = used["restart"]
        BY <1>5, SpendType DEF TypeOK, EnvEvents, ReRequestKey
      <3>2. used["manual"] \in Nat /\ used["restart"] \in Nat
        BY DEF TypeOK, EnvEvents
      <3> QED
        BY <3>1, <3>2 DEF Paid
    <2> QED
      BY <1>1, <2>1, <2>2, <2>3 DEF NoticeInv
  <1>6. ASSUME NEW reboot, Restart(reboot)
        PROVE  NoticeInv'
    <2>1. gaveUp' = {} /\ notices' = notices /\ Noticed' = Noticed
      BY <1>6 DEF Restart, Noticed
    <2>2. \A j \in Keys : ~entry'[j].notified
      BY <1>6, Marks DEF Restart, TypeOK
    <2>3. Paid' = Paid + 1
      <3>1. used'["restart"] = used["restart"] + 1 /\ used'["manual"] = used["manual"]
        BY <1>6, SpendType DEF TypeOK, EnvEvents, Restart
      <3>2. used["manual"] \in Nat /\ used["restart"] \in Nat
        BY DEF TypeOK, EnvEvents
      <3> QED
        BY <3>1, <3>2 DEF Paid
    <2> QED
      BY <1>1, <2>1, <2>2, <2>3 DEF NoticeInv
  <1>7. CASE MaybeReRequestKeys
    <2> DEFINE dead == {k \in Keys : Exhausted(entry[k])}
               due == {k \in Keys : ShouldReRequest(entry[k])}
               full == Cardinality(gaveUp \cup dead) > GaveUpCap
    <2>1. /\ entry' = [k \in Keys |->
                 IF k \in due THEN Resent(entry[k])
                 ELSE IF k \in dead THEN [entry[k] EXCEPT !.notified = TRUE]
                 ELSE entry[k]]
          /\ notices' = [k \in Keys |->
                 IF k \in dead /\ ~entry[k].notified THEN notices[k] + 1 ELSE notices[k]]
          /\ Paid' = Paid
      BY <1>7 DEF MaybeReRequestKeys, Paid
    <2>2. (~full /\ gaveUp' = gaveUp \cup dead) \/ (full /\ gaveUp' \subseteq dead)
      BY <1>7 DEF MaybeReRequestKeys
    <2>3. \A k \in Keys : /\ entry[k].attempts \in Nat
                          /\ k \in due => k \notin dead /\ entry[k].attempts > 0
                          /\ k \in dead => entry[k].attempts > 0
      BY <1>1, Attempts, ScheduleAssumption DEF ShouldReRequest, Exhausted
    <2>4. \A k \in Keys : /\ k \in dead => entry'[k].notified
                          /\ k \notin dead => Follows(entry'[k], entry[k])
      BY <1>1, <2>1, <2>3, Marks, EntryFollows
    <2> HIDE DEF dead, due, full
    <2>5. dead \subseteq Noticed' /\ Noticed \subseteq Noticed'
      <3>1. dead \subseteq Keys
        BY DEF dead
      <3>2. \A k \in Keys : notices[k] <= notices'[k]
        BY <1>1, <2>1
      <3>3. \A k \in dead : notices'[k] > 0
        BY <1>1, <2>1, <3>1 DEF NoticeInv, Noticed
      <3> QED
        BY <1>1, <3>1, <3>2, <3>3 DEF Noticed
    <2>6. gaveUp' \subseteq Noticed'
      BY <2>2, <2>5 DEF NoticeInv
    <2>7. \A k \in Keys : entry'[k].notified => k \in Noticed'
      BY <2>4, <2>5 DEF NoticeInv, Follows
    <2>8. ASSUME Cardinality(Noticed') <= GaveUpCap, NEW k \in Keys
          PROVE  notices'[k] <= 1 + Paid' /\ (Open(k)' => notices'[k] <= Paid')
      <3>1. Cardinality(Noticed) <= GaveUpCap
        BY <1>1, <1>3, <2>5, <2>8
      <3>2. ~full
        <4>1. gaveUp \cup dead \subseteq Noticed'
          BY <2>5 DEF NoticeInv
        <4>2. /\ Cardinality(gaveUp \cup dead) <= Cardinality(Noticed')
              /\ Cardinality(gaveUp \cup dead) \in Nat /\ Cardinality(Noticed') \in Nat
          BY <1>2, <4>1, FS_Subset, FS_CardinalityType
        <4> QED
          BY <1>1, <2>8, <4>2 DEF full
      <3>3. notices[k] <= 1 + Paid /\ (Open(k) => notices[k] <= Paid)
        BY <3>1 DEF NoticeInv
      <3>4. CASE k \in dead
        <4>1. ~Open(k)'
          BY <2>2, <2>4, <3>2, <3>4 DEF Open
        <4>2. ~entry[k].notified => Open(k)
          BY <2>3, <3>4 DEF Open, Requested
        <4>3. notices'[k] = IF ~entry[k].notified THEN notices[k] + 1 ELSE notices[k]
          BY <2>1, <3>4
        <4> QED
          BY <1>1, <2>1, <3>3, <4>1, <4>2, <4>3
      <3>5. CASE k \notin dead
        <4>1. Open(k)' => Open(k)
          BY <2>2, <2>4, <3>2, <3>5 DEF Open, Requested, Follows
        <4>2. notices'[k] = notices[k]
          BY <2>1, <3>5
        <4> QED
          BY <1>1, <2>1, <3>3, <4>1, <4>2
      <3> QED
        BY <3>4, <3>5
    <2> QED
      BY <2>6, <2>7, <2>8 DEF NoticeInv
  <1> QED
    BY <1>4, <1>5, <1>6, <1>7

\* While the give-up set has room for every session surfaced, the dead end of
\* a session is surfaced once, however retries, re-arms, resends, evictions and
\* new events interleave: each further notice is paid for by a request of the
\* user or a restart (GaveUpOnce; decryptor.cpp:1641-1644, 1914-1930).
THEOREM DeadEndsSurfaceOnce == Spec => []GaveUpOnce
  <1>1. Init => NoticeInv
    <2> SUFFICES ASSUME Init
                 PROVE  NoticeInv
      OBVIOUS
    <2>1. \A k \in Keys : notices[k] = 0 /\ ~entry[k].notified
      BY Marks DEF Init
    <2>2. Paid = 0
      BY DEF Init, Paid, EnvEvents
    <2>3. gaveUp = {}
      BY DEF Init
    <2> QED
      BY <2>1, <2>2, <2>3 DEF NoticeInv
  <1>2. TypeOK /\ NoticeInv /\ [Next]_vars => NoticeInv'
    <2>1. NoticeInv /\ UNCHANGED vars => NoticeInv'
      BY DEF NoticeInv, Noticed, Open, Requested, Paid, vars
    <2> QED
      BY <2>1, NoticeStep
  <1>3. TypeOK /\ NoticeInv => GaveUpOnce
    <2> SUFFICES ASSUME TypeOK, NoticeInv
                 PROVE  GaveUpOnce
      OBVIOUS
    <2>1. Noticed = {k \in Keys : notices[k] > 0}
      BY DEF Noticed
    <2>2. 1 + used["manual"] + used["restart"] = 1 + Paid
      <3>1. "manual" \in EnvEvents /\ "restart" \in EnvEvents
        BY DEF EnvEvents
      <3>2. used["manual"] \in Int /\ used["restart"] \in Int
        BY <3>1 DEF TypeOK
      <3> QED
        BY <3>2 DEF Paid
    <2> QED
      BY <2>1, <2>2 DEF NoticeInv, GaveUpOnce
  <1> QED
    BY <1>1, <1>2, <1>3, TypeCorrect, PTL DEF Spec
===============================================================================
