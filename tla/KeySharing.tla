----------------------------- MODULE KeySharing -----------------------------
(***************************************************************************)
(* The outbound Megolm session of one encrypted room and the sharing of    *)
(* its key: SyncEngine::sendMessage on the UI threads, the share-on-join   *)
(* and device-list jobs of doRoomKeyShares on the thread pool, and the     *)
(* one-time-key policy of shareRoomKey and sendOlmToDevice.                *)
(*                                                                         *)
(* outboundMtx_ is taken and released by every small accessor, so each     *)
(* accessor and each HTTP call is a step; several threads interleave.      *)
(* A session id and its key are the same number; a share that read them    *)
(* around a rotation holds two different ones.                             *)
(***************************************************************************)
EXTENDS Integers, FiniteSets

CONSTANTS
    Members,      \* joined members, one device each (the sender excluded)
    Threads,      \* UI threads and pool workers
    Ops,          \* the operations that each thread runs in this instance
    Failures,     \* the HTTP calls that may fail in this instance
    RotateAfter,  \* rotation_period_msgs of the room
    Drain,        \* otkDrainBudget_
    MaxSession,   \* bound: outbound sessions created
    Otks,         \* bound: one-time keys each device has on the server,
    Stale         \* of which so many, handed out first, are of an old identity

AllOps == {"send", "join", "devices", "olm", "fresh"}
Calls  == {"members", "query", "claim", "put"}

ASSUME KeySharingAssumption ==
    /\ Ops \in [Threads -> SUBSET AllOps]
    /\ Failures \subseteq Calls
    /\ RotateAfter \in Nat \ {0}
    /\ MaxSession \in Nat \ {0}
    /\ Drain \in Nat
    /\ Otks \in [Members -> Nat] /\ Stale \in [Members -> Nat]
    /\ IsFiniteSet(Threads)

VARIABLES
    cur,       \* outboundSessions_[room].sessionId, 0 when there is none
    created,   \* sessions created so far
    count,     \* messageCount of the current session
    flag,      \* roomKeysShared_[room]
    covered,   \* history: who was sent the current session's key
    missed,    \* history: who a successful share of it was for, but for a reason not sent to
    used,      \* history: messages sent under each session
    otk,       \* one-time keys left on the server per device
    window,    \* devices claimed within otkClaimRateLimitMs_
    cached,    \* devices with an entry in outboundOlmSessions_
    taken,     \* history: keys each thread's shares claimed of a device in its window
    pc, job    \* per thread: its step and its local variables

vars == <<cur, created, count, flag, covered, missed, used, otk, window, cached, taken, pc, job>>
room == <<cur, created, count, flag, used>>
sent == <<covered, missed>>
olm  == <<otk, window, cached, taken>>

Ids == 0..MaxSession   \* 0: the empty id
NoJob == [op |-> "send", id |-> 0, key |-> 0, to |-> {}, out |-> {}, claims |-> {},
          todo |-> {}, stale |-> {}, at |-> {}, tries |-> 0]
Steps == {"idle", "decide", "share", "readId", "readKey", "query", "claim", "note", "drain", "put",
          "mark", "encrypt", "olmClaim", "olmPut", "olmNew"}

TypeOK ==
    /\ cur \in Ids /\ created \in Ids
    /\ count \in Nat /\ flag \in BOOLEAN
    /\ covered \subseteq Members /\ missed \subseteq Members
    /\ used \in [Ids -> Nat]
    /\ otk \in [Members -> Nat] /\ \A m \in Members : otk[m] <= Otks[m]
    /\ window \subseteq Members /\ cached \subseteq Members
    /\ taken \in [Threads -> [Members -> Nat]]
    /\ pc \in [Threads -> Steps]
    /\ job \in [Threads ->
          [op : AllOps, id : Ids, key : Ids,    \* what is sent, and with which session
           to : SUBSET Members,                 \* recipients, as far as the query knows them
           out : SUBSET Members,                \* recipients that get nothing, or only by reuse
           claims : SUBSET Members,             \* claimed, or to be claimed, for
           todo : SUBSET Members,               \* claimed keys not looked at yet
           stale : SUBSET Members,              \* claimed keys that did not verify
           at : SUBSET Members, tries : Nat]]   \* the device being drained

Init ==
    /\ cur = 0 /\ created = 0 /\ count = 0 /\ flag = FALSE
    /\ covered = {} /\ missed = {}
    /\ used = [s \in Ids |-> 0]
    /\ otk = Otks
    /\ window = {} /\ cached = {}
    /\ taken = [t \in Threads |-> [m \in Members |-> 0]]
    /\ pc = [t \in Threads |-> "idle"]
    /\ job = [t \in Threads |-> NoJob]

Goto(t, step) == pc' = [pc EXCEPT ![t] = step]
Finish(t) == pc' = [pc EXCEPT ![t] = "idle"] /\ job' = [job EXCEPT ![t] = NoJob]

\* What a share that returns leads to: sendMessage encrypts either way.
AfterShare(t) ==
    /\ Goto(t, IF job[t].op = "send" THEN "encrypt" ELSE "idle")
    /\ job' = [job EXCEPT ![t] = NoJob]
-----------------------------------------------------------------------------
(* sendMessage *)

\* The session is replaced when its message count reaches the room's period
\* (its age, or a new identity, may ask for it at any time).
RotationDue_OffByOne == count > RotateAfter
RotationDue == count >= RotateAfter

NewSession_KeepsFlag ==
    /\ created < MaxSession
    /\ created' = created + 1 /\ cur' = created + 1
    /\ count' = 0 /\ covered' = {} /\ missed' = {} /\ UNCHANGED flag

NewSession ==
    /\ created < MaxSession
    /\ created' = created + 1 /\ cur' = created + 1
    /\ count' = 0 /\ covered' = {} /\ missed' = {} /\ flag' = FALSE

\* getOrCreateOutboundSession
GetOrCreate(t) ==
    /\ pc[t] = "idle" /\ "send" \in Ops[t]
    /\ \/ cur # 0 /\ ~RotationDue /\ UNCHANGED <<cur, created, count, flag, sent>>
       \/ NewSession
    /\ Goto(t, "decide")
    /\ job' = [job EXCEPT ![t] = [NoJob EXCEPT !.to = Members]]
    /\ UNCHANGED <<used, olm>>

\* roomKeyShared, then the member list (HTTP, may fail: the share is skipped).
Decide(t) ==
    /\ pc[t] = "decide"
    /\ \/ flag /\ AfterShare(t)
       \/ ~flag /\ Goto(t, "share") /\ UNCHANGED job
       \/ ~flag /\ "members" \in Failures /\ AfterShare(t)
    /\ UNCHANGED <<room, sent, olm>>

\* encryptMessage uses whatever session the room has by now.
Encrypt(t) ==
    /\ pc[t] = "encrypt"
    /\ IF cur = 0 THEN UNCHANGED <<count, used>>
       ELSE count' = count + 1 /\ used' = [used EXCEPT ![cur] = @ + 1]
    /\ Finish(t)
    /\ UNCHANGED <<cur, created, flag, sent, olm>>

\* dropOutboundSession: the room was left.
Drop ==
    /\ cur # 0
    /\ cur' = 0 /\ count' = 0 /\ covered' = {} /\ missed' = {} /\ flag' = FALSE
    /\ UNCHANGED <<created, used, olm, pc, job>>
-----------------------------------------------------------------------------
(* doRoomKeyShares: jobs of the thread pool *)

\* A join event shares with the joiner.  Our own join shares with every member
\* and a device-list change with the members named by the state events of that
\* sync response, whoever they are; both set the flag and are called "devices".
StartShare(t, what, to) ==
    /\ pc[t] = "idle" /\ what \in Ops[t] \cap {"join", "devices"}
    /\ what = "join" => Cardinality(to) = 1
    /\ to # {}
    /\ Goto(t, "share")
    /\ job' = [job EXCEPT ![t] = [NoJob EXCEPT !.op = what, !.to = to]]
    /\ UNCHANGED <<room, sent, olm>>
-----------------------------------------------------------------------------
(* shareRoomKey *)

\* hasOutboundSession, getOutboundSessionId and getOutboundSessionKey: three
\* acquisitions of outboundMtx_.
HasSession(t) ==
    /\ pc[t] = "share"
    /\ IF cur = 0 THEN AfterShare(t) ELSE Goto(t, "readId") /\ UNCHANGED job
    /\ UNCHANGED <<room, sent, olm>>

ReadId(t) ==
    /\ pc[t] = "readId"
    /\ Goto(t, "readKey")
    /\ job' = [job EXCEPT ![t].id = cur]
    /\ UNCHANGED <<room, sent, olm>>

ReadKey(t) ==
    /\ pc[t] = "readKey"
    /\ \/ cur = 0 /\ AfterShare(t)
       \/ /\ cur # 0
          /\ Goto(t, "query")
          /\ job' = [job EXCEPT ![t].key = cur]
    /\ UNCHANGED <<room, sent, olm>>

ToClaim_IgnoreWindow(to) == to \ cached
ToClaim(to) == to \ (cached \cup window)

\* The devices to claim for are chosen among the recipients the server knows;
\* one inside its window has no session, or will be reused.
Choose(j, seen) ==
    [j EXCEPT !.to = seen, !.out = (j.to \ seen) \cup ((seen \cap window) \ cached),
              !.claims = ToClaim(seen)]

Query_ReadsIdAgain(t) ==
    /\ pc[t] = "query"
    /\ Goto(t, "claim")
    /\ job' = [job EXCEPT ![t] = [Choose(@, @.to) EXCEPT !.id = cur]]
    /\ UNCHANGED <<room, sent, olm>>

\* keys/query, which may fail, or leave out the users of a server that is down.
Query(t) ==
    /\ pc[t] = "query"
    /\ \/ "query" \in Failures /\ AfterShare(t)
       \/ \E seen \in SUBSET job[t].to :
             /\ seen # {}
             /\ seen = job[t].to \/ "query" \in Failures
             /\ Goto(t, "claim")
             /\ job' = [job EXCEPT ![t] = Choose(@, seen)]
    /\ UNCHANGED <<room, sent, olm>>

\* The next key that the server has for m is one of the old identity.
NextIsStale(m) == otk[m] > Otks[m] - Stale[m]

Take(got)      == otk' = [m \in Members |-> IF m \in got THEN otk[m] - 1 ELSE otk[m]]
Counted(t, S)  == taken' = [taken EXCEPT ![t] = [m \in Members |-> IF m \in S THEN @[m] + 1 ELSE @[m]]]

Claimable_Any(t) == job[t].claims
Claimable(t) == {m \in job[t].claims : otk[m] > 0}

\* keys/claim: devices with keys on the server yield one each; none at all
\* ends the share.
Claim(t) ==
    LET got == Claimable(t)
    IN  /\ pc[t] = "claim"
        /\ \/ "claim" \in Failures /\ AfterShare(t) /\ UNCHANGED olm
           \/ /\ Take(got) /\ Counted(t, got)
              /\ UNCHANGED <<window, cached>>
              /\ IF got = {} THEN AfterShare(t)
                 ELSE /\ Goto(t, "note")
                      /\ job' = [job EXCEPT ![t].out = @ \cup (job[t].claims \ got),
                                            ![t].claims = got, ![t].todo = got,
                                            ![t].stale = {m \in got : NextIsStale(m)}]
        /\ UNCHANGED <<room, sent>>

\* After the claimed keys, or the draining of one of them.
Looked(t, todo, stale, at, tries) ==
    /\ Goto(t, IF at # {} THEN "drain" ELSE IF todo # {} THEN "note" ELSE "put")
    /\ job' = [job EXCEPT ![t].todo = todo, ![t].stale = stale, ![t].at = at, ![t].tries = tries]

\* noteClaimed; a key that does not verify makes the share claim others.
Note(t, m) ==
    LET j == job[t]
    IN  /\ pc[t] = "note" /\ m \in j.todo
        /\ window' = window \cup {m}
        /\ Looked(t, j.todo \ {m}, j.stale, IF m \in j.stale /\ Drain > 0 THEN {m} ELSE {}, 0)
        /\ UNCHANGED <<room, sent, otk, cached, taken>>

\* One more keys/claim for the device m, until a key verifies, none is left or
\* the budget is spent: the share goes on with the key it has.
DrainStep(t, m) ==
    LET j == job[t]
        stop == Looked(t, j.todo, j.stale, {}, 0)
    IN  /\ pc[t] = "drain" /\ m \in j.at
        /\ \/ /\ "claim" \in Failures \/ otk[m] = 0
              /\ stop /\ UNCHANGED <<otk, taken>>
           \/ /\ otk[m] > 0
              /\ Take({m}) /\ Counted(t, {m} \cap window)
              /\ IF NextIsStale(m)
                 THEN IF j.tries + 1 < Drain THEN Looked(t, j.todo, j.stale, {m}, j.tries + 1) ELSE stop
                 ELSE Looked(t, j.todo, j.stale \ {m}, {}, 0)
        /\ UNCHANGED <<room, sent, window, cached>>

\* Whom a share of the current session reached with a key that verified; its
\* other recipients had no key or session, one that failed or that another
\* thread dropped meanwhile, or were sent it on a key that did not verify.
Delivered(j, fresh, reused, failed) ==
    IF j.id # cur \/ j.key # cur THEN UNCHANGED sent
    ELSE /\ covered' = covered \cup (fresh \ j.stale) \cup reused
         /\ missed' = LET dropped == (j.to \ (j.out \cup j.claims)) \ cached
                      IN  (missed \cup j.out \cup failed \cup dropped \cup j.stale) \ covered'

ToMark(j) == [NoJob EXCEPT !.op = j.op, !.id = j.id, !.to = j.to \cup j.out]

\* New sessions for the claimed devices, the cached ones for the rest of the
\* recipients; one that fails is left out, a cached one also erased.  One PUT,
\* unless there is nobody to send to.
Put(t) ==
    /\ pc[t] = "put"
    /\ \E bad \in SUBSET job[t].claims, dead \in SUBSET (job[t].to \cap cached) :
          LET fresh  == job[t].claims \ bad
              reused == (job[t].to \cap cached) \ (fresh \cup dead)
          IN  /\ dead \cap fresh = {}
              /\ cached' = cached \ dead
              /\ \/ AfterShare(t) /\ UNCHANGED sent
                    /\ ("put" \in Failures \/ fresh \cup reused = {})
                 \/ /\ fresh \cup reused # {}
                    /\ Delivered(job[t], fresh, reused, bad \cup dead)
                    /\ IF job[t].op = "join" THEN Finish(t)
                       ELSE /\ Goto(t, "mark")
                            /\ job' = [job EXCEPT ![t] = ToMark(@)]
    /\ UNCHANGED <<room, otk, window, taken>>

\* markRoomKeyShared, whatever the current session is by now.
Mark(t) ==
    /\ pc[t] = "mark"
    /\ flag' = TRUE
    /\ AfterShare(t)
    /\ UNCHANGED <<cur, created, count, used, sent, olm>>
-----------------------------------------------------------------------------
(* sendOlmToDevice (key answers, cancellations, verification) *)

\* After its keys/query, which changes nothing: up to 1 + Drain attempts for a
\* key that verifies (at most 11 for an answer), noted each; without one,
\* nothing is sent.
Attempts(what) == 1 + (IF what = "fresh" /\ Drain > 10 THEN 10 ELSE Drain)

OlmAttempt(t, j, m) ==
    /\ window' = window \cup {m}
    /\ \/ /\ "claim" \in Failures \/ otk[m] = 0
          /\ Finish(t) /\ UNCHANGED otk
       \/ /\ otk[m] > 0 /\ Take({m})
          /\ IF ~NextIsStale(m) THEN Goto(t, "olmPut") /\ job' = [job EXCEPT ![t] = [j EXCEPT !.tries = 0]]
             ELSE IF j.tries + 1 < Attempts(j.op)
             THEN Goto(t, "olmClaim") /\ job' = [job EXCEPT ![t] = [j EXCEPT !.tries = @ + 1]]
             ELSE Finish(t)
    /\ UNCHANGED <<room, sent, cached, taken>>

OlmClaim(t, what, m) ==
    /\ pc[t] = "idle" /\ what \in Ops[t] \cap {"olm", "fresh"}
    /\ OlmAttempt(t, [NoJob EXCEPT !.op = what, !.to = {m}], m)

OlmClaimAgain(t, m) ==
    /\ pc[t] = "olmClaim" /\ m \in job[t].to
    /\ OlmAttempt(t, job[t], m)

\* The cached session is tried first, unless forceFresh; one that fails is
\* dropped.  The lock is held over its PUT.
Reuses(t) == job[t].op = "olm" /\ job[t].to \subseteq cached

OlmReuse(t) ==
    /\ pc[t] = "olmPut" /\ Reuses(t)
    /\ \/ Finish(t) /\ UNCHANGED cached
       \/ Goto(t, "olmNew") /\ UNCHANGED job /\ cached' = cached \ job[t].to
    /\ UNCHANGED <<room, sent, otk, window, taken>>

\* A new session, stored after its PUT succeeded.
OlmNew(t) ==
    /\ pc[t] = "olmNew" \/ (pc[t] = "olmPut" /\ ~Reuses(t))
    /\ cached' = cached \cup job[t].to \/ ("put" \in Failures /\ UNCHANGED cached)
    /\ Finish(t)
    /\ UNCHANGED <<room, sent, otk, window, taken>>

\* otkClaimRateLimitMs_ has passed since the last claim for the device (or
\* the map of the last claims was cleared, having grown too large).
WindowEnds(m) ==
    /\ m \in window
    /\ window' = window \ {m}
    /\ taken' = [t \in Threads |-> [taken[t] EXCEPT ![m] = 0]]
    /\ UNCHANGED <<room, sent, otk, cached, pc, job>>
-----------------------------------------------------------------------------
ShareStep(t) ==
    \/ HasSession(t) \/ ReadId(t) \/ ReadKey(t) \/ Query(t) \/ Claim(t)
    \/ \E m \in Members : Note(t, m) \/ DrainStep(t, m)
    \/ Put(t) \/ Mark(t)

OlmStep(t) ==
    \/ \E what \in {"olm", "fresh"}, m \in Members : OlmClaim(t, what, m)
    \/ \E m \in Members : OlmClaimAgain(t, m)
    \/ OlmReuse(t) \/ OlmNew(t)

Next ==
    \/ \E t \in Threads :
          \/ GetOrCreate(t) \/ Decide(t) \/ Encrypt(t)
          \/ \E what \in {"join", "devices"}, to \in SUBSET Members : StartShare(t, what, to)
          \/ ShareStep(t)
          \/ OlmStep(t)
    \/ Drop
    \/ \E m \in Members : WindowEnds(m)

Spec == Init /\ [][Next]_vars
-----------------------------------------------------------------------------
\* A session never encrypts more than its rotation period plus one message
\* for every other thread that had passed the check when it ran out
\* (decryptor.cpp:877 and 946 take the lock separately).
RotationBound ==
    \A s \in Ids : used[s] <= RotateAfter + Cardinality(Threads) - 1

\* decryptor.hpp:197 "Check if room key was already shared for current
\* outbound session": whenever the flag comes to stand for a session, every
\* member was sent that very session's key, or left out of a successful share
\* of it for a reason of its own (no usable one-time key, its claim window, a
\* session that failed or was dropped); else it was set by a share that a
\* rotation has overtaken, or that was for some of the members only
\* (sync_engine.cpp:530).
FlagSetHonestly ==
    [][flag' /\ cur' # 0 /\ <<flag', cur'>> # <<flag, cur>>
          => \/ covered' \cup missed' = Members
             \/ \E t \in Threads : /\ pc[t] = "mark" /\ pc'[t] # "mark"
                                   /\ job[t].id # cur \/ job[t].to # Members]_vars

\* decryptor.cpp:1048: a share that read the id of one session and the key of
\* another gives devices a wrong key, but under an id that nothing will be
\* encrypted with any more.
TornIsRetired ==
    \A t \in Threads :
        pc[t] \in {"query", "claim", "note", "drain", "put"} /\ job[t].id \notin {0, job[t].key} => job[t].id # cur

\* decryptor.hpp:205 "fresh one-time-key claims per (user, device) are
\* rate-limited": between two ends of the window of a device, the shares of a
\* thread take one of its keys and, when keys of an old identity come first,
\* as many more as the drain budget allows (decryptor.cpp:1190, 1299), though
\* the window is read long before the claim and noted after it.
ClaimsPerWindow ==
    \A t \in Threads, m \in Members :
        taken[t][m] <= 1 + (IF Stale[m] = 0 THEN 0 ELSE Drain)
=============================================================================
