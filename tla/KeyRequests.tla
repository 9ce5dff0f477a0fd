---------------------------- MODULE KeyRequests ----------------------------
(***************************************************************************)
(* The life of a missing Megolm session in the Decryptor: an event that    *)
(* cannot be decrypted is parked in the pending list, its session is       *)
(* requested from the sender's devices, the request is retried on a        *)
(* back-off schedule, and it ends when the session arrives or when the     *)
(* retries are exhausted ("gave up").                                      *)
(*                                                                         *)
(* Threads: the decrypting threads (the sync applier and the history       *)
(* loader, both calling decryptMegolmEvent) and the sync worker (to-device *)
(* handlers, maybeReRequestKeys, resendAllPendingRequests, persistCrypto). *)
(* A step is what runs under one acquisition of requestMtx_ or of the      *)
(* MegolmStore mutex.                                                      *)
(*                                                                         *)
(* A key of requestedKeys_ is "room|session|senderKey": here a member of   *)
(* Keys, with RoomOf and SenderOf.  lastMs is an age, counted in ticks; a  *)
(* tick is longer than the 5 s window of the request gate.  The HTTP calls *)
(* that only put a message on the wire have no state here.                 *)
(***************************************************************************)
EXTENDS Integers, FiniteSets

CONSTANTS
    Keys,         \* the Megolm sessions of other devices
    RoomOf,       \* room of a session
    SenderOf,     \* curve25519 key of the device that created a session
    Events,       \* encrypted timeline events
    KeyOf,        \* the session an event is encrypted with
    Threads,      \* the threads that decrypt timeline events
    MaxAttempts,  \* 5 in the code
    Delay,        \* kSchedule: ticks to wait after the i-th request
    MaxAge,       \* ages saturate here
    DeferAge,     \* age given to a request the gate deferred (25 s)
    RearmAge,     \* age given to a re-armed request (30 s)
    RearmWindow,  \* ticks between two re-arms of a sender (10 min)
    RebootAge,    \* age of a reloaded request when the steady clock restarted
    Cap,          \* 200: entries of requestedKeys_
    GaveUpCap,    \* 1024: entries of gaveUpKeys_
    GateMax,      \* 10: first requests per window
    Budgets       \* bound: how often the environment events may happen together

\* Re-arms are not among them: they may come again and again.
EnvEvents == {"event", "key", "bad", "forward", "manual", "resend", "persist", "restart"}

Senders == {SenderOf[k] : k \in Keys}

ASSUME KeysAssumption ==
    /\ IsFiniteSet(Keys) /\ Keys # {}
    /\ Events # {}
    /\ KeyOf \in [Events -> Keys]

ASSUME ScheduleAssumption ==
    /\ MaxAttempts \in Nat \ {0}
    /\ MaxAge \in Nat
    /\ Delay \in [1..MaxAttempts -> 0..MaxAge]
    /\ DeferAge \in 0..MaxAge
    /\ RearmAge \in 0..MaxAge
    /\ RearmWindow \in Nat
    /\ RebootAge \in Int
    /\ RebootAge <= 0

ASSUME BoundsAssumption ==
    /\ Cap \in Nat \ {0}
    /\ GaveUpCap \in Nat
    /\ GateMax \in Nat
    /\ Budgets \subseteq [EnvEvents -> Nat]

VARIABLES
    sess,       \* sessions MegolmStore can decrypt with (mgr)
    params,     \* sessions MegolmStore will pickle (Impl::params)
    ev,         \* where each event is
    entry,      \* requestedKeys_
    gaveUp,     \* gaveUpKeys_
    gate,       \* requestGateCount_
    forced,     \* forcedOlm_: ticks since the requests of a sender were re-armed
    pc, at,     \* per decrypting thread: its step, and the event it works on
    spc, skey, todo, \* the sync worker: its step, its key, the resend snapshot
    notices,    \* GaveUp rows surfaced per session
    forgotten,  \* history: sessions whose request went away unanswered
    disk,       \* what persistCrypto saved last
    used        \* how often each environment event has happened

vars == <<sess, params, ev, entry, gaveUp, gate, forced, pc, at, spc, skey, todo,
          notices, forgotten, disk, used>>

worker == <<spc, skey, todo>>
caller == <<pc, at>>

\* An absent entry has no attempts; every entry in the map has at least one.
NoEntry == [attempts |-> 0, age |-> 0, notified |-> FALSE]
Fresh   == [attempts |-> 1, age |-> 0, notified |-> FALSE]
EntryType == [attempts : Nat, age : RebootAge..MaxAge, notified : BOOLEAN]

\* What happens to an entry: its clock is set, it is sent again, it is re-armed.
Aged(e, age) == [e EXCEPT !.age = age]
Resent(e)    == [e EXCEPT !.attempts = @ + 1, !.age = 0]
Rearmed(e)   == [e EXCEPT !.attempts = 1, !.age = RearmAge]

Requested(k) == entry[k].attempts > 0
RequestedKeys == {k \in Keys : Requested(k)}

ShouldReRequest_OneMore(e) ==
    /\ e.attempts \in 1..MaxAttempts + 1
    /\ e.attempts > MaxAttempts \/ e.age >= Delay[e.attempts]

\* inline shouldReRequestKey(attempts, elapsedMs)
ShouldReRequest(e) ==
    /\ e.attempts \in 1..MaxAttempts
    /\ e.age >= Delay[e.attempts]

Exhausted_Exactly(e) == e.attempts = MaxAttempts + 1
Exhausted(e) == e.attempts > MaxAttempts

Allowed(counts) == \E b \in Budgets : \A x \in EnvEvents : counts[x] <= b[x]

Spend(what) ==
    /\ used' = [used EXCEPT ![what] = @ + 1]
    /\ Allowed(used')

TypeOK ==
    /\ sess \subseteq Keys
    /\ params \subseteq Keys
    /\ ev \in [Events -> {"new", "checked", "pending", "done"}]
    /\ entry \in [Keys -> EntryType]
    /\ gaveUp \subseteq Keys
    /\ gate \in 0..GateMax
    /\ forced \in [Senders -> 0..RearmWindow]
    /\ pc \in [Threads -> {"idle", "missed", "saved", "inserted"}]
    /\ at \in [Threads -> Events]
    /\ spc \in {"idle", "erased", "added", "imported", "drained", "resending"}
    /\ skey \in Keys
    /\ todo \subseteq Keys
    /\ notices \in [Keys -> Nat]
    /\ forgotten \subseteq Keys
    /\ disk \in [params : SUBSET Keys, entry : [Keys -> EntryType]]
    /\ used \in [EnvEvents -> Nat]

Init ==
    /\ sess = {} /\ params = {}
    /\ ev = [e \in Events |-> "new"]
    /\ entry = [k \in Keys |-> NoEntry]
    /\ gaveUp = {} /\ gate = 0
    /\ forced = [s \in Senders |-> RearmWindow]
    /\ pc = [t \in Threads |-> "idle"]
    /\ at \in [Threads -> {CHOOSE e \in Events : TRUE}]
    /\ spc = "idle" /\ skey = (CHOOSE k \in Keys : TRUE) /\ todo = {}
    /\ notices = [k \in Keys |-> 0]
    /\ forgotten = {}
    /\ disk = [params |-> {}, entry |-> [k \in Keys |-> NoEntry]]
    /\ used = [x \in EnvEvents |-> 0]
-----------------------------------------------------------------------------
(* The decrypting threads: decryptMegolmEvent and requestRoomKey. *)

\* hasSession, then decrypt: the event is shown, or the session is missing.
Check(t, e) ==
    /\ pc[t] = "idle" /\ ev[e] = "new" /\ Spend("event")
    /\ \/ /\ KeyOf[e] \in sess
          /\ ev' = [ev EXCEPT ![e] = "done"]
          /\ UNCHANGED caller
       \/ /\ KeyOf[e] \notin sess
          /\ ev' = [ev EXCEPT ![e] = "checked"]
          /\ pc' = [pc EXCEPT ![t] = "missed"]
          /\ at' = [at EXCEPT ![t] = e]
    /\ UNCHANGED <<sess, params, entry, gaveUp, gate, forced, worker, notices, forgotten, disk>>

\* addPending, under the MegolmStore mutex; hasSession is not asked again.
AddPending(t) ==
    /\ pc[t] = "missed"
    /\ ev' = [ev EXCEPT ![at[t]] = "pending"]
    /\ pc' = [pc EXCEPT ![t] = "saved"]
    /\ UNCHANGED <<sess, params, entry, gaveUp, gate, forced, at, worker, notices, forgotten, disk, used>>

\* requestRoomKey's early returns: the sticky give-up, then the duplicate.
MayInsert_NotSticky(k) == ~Requested(k)
MayInsert_RefuseAtCap(k) ==
    k \notin gaveUp /\ ~Requested(k) /\ Cardinality(RequestedKeys) < Cap
MayInsert(k) == k \notin gaveUp /\ ~Requested(k)

OverCap(k) == Cardinality(RequestedKeys \cup {k}) > Cap

\* A new entry past the cap evicts one with the smallest lastMs.
Oldest(f) ==
    LET live == {k \in Keys : f[k].attempts > 0}
    IN  {k \in live : \A j \in live : f[j].age <= f[k].age}

InsertRequest(t) ==
    LET k == KeyOf[at[t]]
        added == [entry EXCEPT ![k] = Fresh]
    IN  /\ pc[t] = "saved"
        /\ \/ /\ ~MayInsert(k)
              /\ pc' = [pc EXCEPT ![t] = "idle"]
              /\ UNCHANGED <<entry, forgotten>>
           \/ /\ MayInsert(k)
              /\ pc' = [pc EXCEPT ![t] = "inserted"]
              /\ \/ /\ ~OverCap(k)
                    /\ entry' = added
                    /\ forgotten' = forgotten \ {k}
                 \/ /\ OverCap(k)
                    /\ \E old \in Oldest(added) :
                          /\ entry' = [added EXCEPT ![old] = NoEntry]
                          /\ forgotten' = (forgotten \ {k}) \cup {old}
        /\ UNCHANGED <<sess, params, ev, gaveUp, gate, forced, at, worker, notices, disk, used>>

GateOpen_OffByOne == gate <= GateMax
GateOpen == gate < GateMax

\* After the recipients were resolved (HTTP): the gate lets the request out,
\* or leaves it in the map looking old so that the schedule sends it.
PassGate(t) ==
    LET k == KeyOf[at[t]]
    IN  /\ pc[t] = "inserted"
        /\ \/ GateOpen /\ gate' = gate + 1 /\ UNCHANGED entry
           \/ /\ ~GateOpen
              /\ entry' = IF Requested(k) THEN [entry EXCEPT ![k] = Aged(@, DeferAge)] ELSE entry
              /\ UNCHANGED gate
        /\ pc' = [pc EXCEPT ![t] = "idle"]
        /\ UNCHANGED <<sess, params, ev, gaveUp, forced, at, worker, notices, forgotten, disk, used>>

\* reRequestKey: the user asks again; no give-up check and no cap.
ReRequestKey(k) ==
    /\ Spend("manual")
    /\ entry' = IF Requested(k) THEN [entry EXCEPT ![k] = Aged(@, 0)]
                                ELSE [entry EXCEPT ![k] = Fresh]
    /\ forgotten' = forgotten \ {k}
    /\ UNCHANGED <<sess, params, ev, gaveUp, gate, forced, caller, worker, notices, disk>>
-----------------------------------------------------------------------------
(* The sync worker: m.room_key and m.forwarded_room_key. *)

\* handleRoomKey first drops the request (and cancels it at the peers) ...
EraseRequest(k) ==
    /\ spc = "idle" /\ Spend("key")
    /\ entry' = [entry EXCEPT ![k] = NoEntry]
    /\ spc' = "erased" /\ skey' = k
    /\ UNCHANGED <<sess, params, ev, gaveUp, gate, forced, caller, todo, notices, forgotten, disk>>

\* ... then adds the session, or fails on a key that does not parse.
AddSession ==
    /\ spc = "erased"
    /\ sess' = sess \cup {skey}
    /\ params' = params \cup {skey}
    /\ spc' = "added"
    /\ UNCHANGED <<ev, entry, gaveUp, gate, forced, caller, skey, todo, notices, forgotten, disk, used>>

RejectSession ==
    /\ spc = "erased" /\ Spend("bad")
    /\ spc' = "idle"
    /\ forgotten' = IF Requested(skey) THEN forgotten ELSE forgotten \cup {skey}
    /\ UNCHANGED <<sess, params, ev, entry, gaveUp, gate, forced, caller, skey, todo, notices, disk>>

\* handleForwardedRoomKey imports first; imported sessions are not in params.
ImportSession(k) ==
    /\ spc = "idle" /\ Spend("forward")
    /\ sess' = sess \cup {k}
    /\ spc' = "imported" /\ skey' = k
    /\ UNCHANGED <<params, ev, entry, gaveUp, gate, forced, caller, todo, notices, forgotten, disk>>

\* processPending: every parked event of the session leaves the pending list.
ProcessPending ==
    /\ spc \in {"added", "imported"}
    /\ ev' = [e \in Events |-> IF ev[e] = "pending" /\ KeyOf[e] = skey THEN "done" ELSE ev[e]]
    /\ spc' = IF spc = "added" THEN "idle" ELSE "drained"
    /\ UNCHANGED <<sess, params, entry, gaveUp, gate, forced, caller, skey, todo, notices, forgotten,
                   disk, used>>

\* The forwarded key "satisfies" every request of the same room and sender.
EraseSatisfied ==
    LET match == {k \in RequestedKeys : RoomOf[k] = RoomOf[skey] /\ SenderOf[k] = SenderOf[skey]}
    IN  /\ spc = "drained"
        /\ entry' = [k \in Keys |-> IF k \in match THEN NoEntry ELSE entry[k]]
        /\ forgotten' = forgotten \cup (match \ sess)
        /\ spc' = "idle"
        /\ UNCHANGED <<sess, params, ev, gaveUp, gate, forced, caller, skey, todo, notices, disk, used>>
-----------------------------------------------------------------------------
(* The sync worker: retries. *)

\* maybeReRequestKeys holds requestMtx_ for the whole pass.  Past GaveUpCap
\* the set is cleared in the middle of the pass, so any part of the keys
\* exhausted in this pass may be left in it.
MaybeReRequestKeys ==
    LET due  == {k \in Keys : ShouldReRequest(entry[k])}
        dead == {k \in Keys : Exhausted(entry[k])}
        full == Cardinality(gaveUp \cup dead) > GaveUpCap
    IN  /\ spc = "idle"
        /\ entry' = [k \in Keys |->
              IF k \in due THEN Resent(entry[k])
              ELSE IF k \in dead THEN [entry[k] EXCEPT !.notified = TRUE]
              ELSE entry[k]]
        /\ notices' = [k \in Keys |->
              IF k \in dead /\ ~entry[k].notified THEN notices[k] + 1 ELSE notices[k]]
        /\ \/ ~full /\ gaveUp' = gaveUp \cup dead /\ UNCHANGED forgotten
           \/ /\ full
              /\ gaveUp' \in SUBSET dead
              /\ forgotten' = forgotten \cup ((gaveUp \ gaveUp') \ (RequestedKeys \cup sess))
        /\ UNCHANGED <<sess, params, ev, gate, forced, caller, worker, disk, used>>

\* resendAllPendingRequests copies the map, then sends without the lock and
\* counts one more attempt for each entry that is still there.
SnapshotRequests ==
    /\ spc = "idle" /\ RequestedKeys # {} /\ Spend("resend")
    /\ spc' = "resending" /\ todo' = RequestedKeys
    /\ UNCHANGED <<sess, params, ev, entry, gaveUp, gate, forced, caller, skey, notices, forgotten, disk>>

ResendOne(k) ==
    /\ spc = "resending" /\ k \in todo
    /\ entry' = IF Requested(k) THEN [entry EXCEPT ![k] = Resent(@)] ELSE entry
    /\ todo' = todo \ {k}
    /\ spc' = IF todo' = {} THEN "idle" ELSE spc
    /\ UNCHANGED <<sess, params, ev, gaveUp, gate, forced, caller, skey, notices, forgotten, disk, used>>

\* forceNewOlmSession: every RearmWindow at most, the requests of a sender whose
\* channel broke start again, those that gave up as well.
Rearm(s) ==
    /\ spc = "idle" /\ forced[s] = RearmWindow
    /\ forced' = [forced EXCEPT ![s] = 0]
    /\ entry' = [k \in Keys |-> IF Requested(k) /\ SenderOf[k] = s
                                THEN Rearmed(entry[k])
                                ELSE entry[k]]
    /\ UNCHANGED <<sess, params, ev, gaveUp, gate, caller, worker, notices, forgotten, disk, used>>
-----------------------------------------------------------------------------
(* Persistence and time. *)

\* persistCrypto on the sync worker: an empty request map is not written.
\* Bound: only saves that change something, while a restart may still come.
Persist ==
    /\ spc = "idle" /\ Spend("persist")
    /\ disk' = [params |-> params,
                entry  |-> IF RequestedKeys = {} THEN disk.entry ELSE entry]
    /\ disk' # disk /\ Allowed([used EXCEPT !["restart"] = @ + 1])
    /\ UNCHANGED <<sess, params, ev, entry, gaveUp, gate, forced, caller, worker, notices, forgotten>>

\* The process ends and starts again: memory is what unpickleAll and
\* unpicklePendingKeyRequests read back; the timeline is loaded again.  The
\* saved lastMs is a steady_clock value, which restarts with the machine.
Restart(reboot) ==
    /\ Spend("restart")
    /\ sess' = disk.params /\ params' = disk.params
    /\ entry' = [k \in Keys |->
          IF disk.entry[k].attempts = 0 THEN NoEntry
          ELSE [Aged(disk.entry[k], IF reboot THEN RebootAge ELSE disk.entry[k].age)
                  EXCEPT !.notified = FALSE]]
    /\ ev' = [e \in Events |-> "new"]
    /\ gaveUp' = {} /\ gate' = 0
    /\ forced' = [s \in Senders |-> RearmWindow]
    /\ pc' = [t \in Threads |-> "idle"]
    /\ spc' = "idle" /\ todo' = {}
    /\ forgotten' = {}
    /\ UNCHANGED <<at, skey, notices, disk>>

Tick ==
    /\ entry' = [k \in Keys |-> IF Requested(k) /\ entry[k].age < MaxAge
                                THEN Aged(entry[k], entry[k].age + 1) ELSE entry[k]]
    /\ gate' = 0
    /\ forced' = [s \in Senders |-> IF forced[s] < RearmWindow THEN forced[s] + 1 ELSE forced[s]]
    /\ UNCHANGED <<sess, params, ev, gaveUp, caller, worker, notices, forgotten, disk, used>>
-----------------------------------------------------------------------------
ThreadStep(t) ==
    \/ \E e \in Events : Check(t, e)
    \/ AddPending(t)
    \/ InsertRequest(t)
    \/ PassGate(t)

WorkerContinues ==
    \/ AddSession \/ RejectSession \/ ProcessPending \/ EraseSatisfied
    \/ \E k \in Keys : ResendOne(k)

Next ==
    \/ \E t \in Threads : ThreadStep(t)
    \/ \E k \in Keys : ReRequestKey(k) \/ EraseRequest(k) \/ ImportSession(k)
    \/ WorkerContinues
    \/ MaybeReRequestKeys
    \/ SnapshotRequests
    \/ \E s \in Senders : Rearm(s)
    \/ Persist
    \/ \E reboot \in BOOLEAN : Restart(reboot)
    \/ Tick

Spec == Init /\ [][Next]_vars

\* The sync loop calls maybeReRequestKeys once per successful sync and each
\* handler runs to its end; time passes; a started decryption finishes.
Fairness ==
    /\ WF_vars(MaybeReRequestKeys)
    /\ WF_vars(WorkerContinues)
    /\ WF_vars(Tick)
    /\ \A t \in Threads : WF_vars(AddPending(t) \/ InsertRequest(t) \/ PassGate(t))

FairSpec == Spec /\ Fairness
-----------------------------------------------------------------------------
Waiting(k) == k \notin sess /\ \E e \in Events : ev[e] = "pending" /\ KeyOf[e] = k

BeingAsked(k) ==
    \/ Requested(k)
    \/ \E t \in Threads : pc[t] = "saved" /\ KeyOf[at[t]] = k
    \/ spc = "erased" /\ skey = k

\* An event parked for a missing session always has a request that will be
\* retried, or a session that gave up, unless its request was taken away by
\* one of three causes kept in `forgotten`: cap eviction, a room key that did
\* not parse, a forwarded key for another session (decryptor.hpp:326).
KeepsAsking ==
    \A k \in Keys : Waiting(k) => BeingAsked(k) \/ k \in gaveUp \/ k \in forgotten

\* A retry pass never asks more than MaxAttempts + 1 times; only the resend
\* sweeps, which do not look at the count, add to it, one each
\* (decryptor.cpp:1774 against shouldReRequestKey).
AttemptsBounded ==
    \A k \in Keys : entry[k].attempts <= MaxAttempts + 1 + used["resend"]

\* Only manual requests, which skip the eviction, push the request map past
\* its cap (decryptor.cpp:1655 against 1725).
MapBounded == Cardinality(RequestedKeys) <= Cap + used["manual"]

\* While no more sessions gave up than the set holds, the dead end of a session is
\* surfaced once: neither cap eviction nor a new event for the session
\* restarts the schedule.  Only a manual request or a restart of the process
\* allows another notice (decryptor.cpp:1641-1644 and 1914-1930).
GaveUpOnce ==
    Cardinality({k \in Keys : notices[k] > 0}) <= GaveUpCap =>
        \A k \in Keys : notices[k] <= 1 + used["manual"] + used["restart"]

\* Every request comes to an end: it is answered, dropped, or surfaced as
\* given up.  Deferrals, resends, saves and restarts on a rebooted machine only
\* delay that; the one thing that can put it off for ever is that its sender is
\* re-armed again and again, for which the code has no limit
\* (decryptor.cpp:1906-1955, 2427-2438).
EveryRequestSettles ==
    \A k \in Keys : Requested(k) ~> \/ ~Requested(k) \/ entry[k].notified
                                    \/ forced[SenderOf[k]] = 0
=============================================================================
