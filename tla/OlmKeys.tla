------------------------------- MODULE OlmKeys -------------------------------
(***************************************************************************)
(* The published keys of the own device: uploadDeviceKeys (device keys,    *)
(* one-time keys and the first fallback key) and uploadFallbackKey, run by *)
(* the thread of the login and by the sync loop, against a homeserver that *)
(* hands the keys out to peers.  What matters is that the private half of  *)
(* a key the server hands out is still here when a peer has used it.       *)
(*                                                                         *)
(* libolm is external: an account keeps the MaxKeys newest one-time keys   *)
(* (used ones are never removed by this code), numbers them in sequence    *)
(* and keeps the current and the previous fallback key.  Each call of it   *)
(* is one step.  The server gives one-time keys out oldest first, and      *)
(* refuses a key whose id it still holds with another value.               *)
(***************************************************************************)
EXTENDS Integers, Sequences, FiniteSets

CONSTANTS
    MaxKeys,        \* 100: maxKeys, and the size of libolm's list
    Low,            \* 50: a smaller pool is filled up
    Retries,        \* 3: new attempts after "already exists"
    Levels,         \* 5: fallback uploads without acknowledgement, then stop
    CountReported,  \* the server's sync responses carry the key count
    Budget          \* bound: how often peers claim keys, the process restarts, and
                    \* a request fails or a count is missing

Threads == {"login", "sync"}
Happenings == {"claim", "trouble"}

ASSUME OlmKeysAssumption ==
    /\ MaxKeys \in Nat \ {0} /\ Low \in 1..MaxKeys \div 2
    /\ Retries \in Nat /\ Levels \in Nat \ {0}
    /\ CountReported \in BOOLEAN
    /\ Budget \in [Happenings -> Nat]

VARIABLES
    acct,       \* the OlmAccountStore in memory
    disk,       \* the record of saveOlmAccount
    server,     \* what the homeserver holds for this device
    pc, call,   \* per thread: place in the upload, its local variables
    level,      \* fallbackBackoffSecs_; Levels is kBackoffStopped
    noted,      \* fallbackGeneratedAtMs_ is set in this process
    published,  \* lastFallbackPublishedAt_ is set
    seen,       \* otkCountSeen_
    run,        \* number of the process (history: tells equal key ids apart)
    causes,     \* history: what may have cost a published key its private half
    left        \* remaining budget

engine == <<level, noted, published, seen>>
vars == <<acct, disk, server, pc, call, engine, run, causes, left>>

Key == [id : Nat, run : Nat]
Account == [keys : Seq(Key),      \* newest first
            fresh : SUBSET Key,   \* not marked as published
            next : Nat,           \* id of the next key
            fb : Nat, prev : Nat, fbFresh : BOOLEAN,
            shared : BOOLEAN, count : Nat]
Call == [known : Nat, needed : Nat, device : BOOLEAN, tries : 0..Retries,
         keys : SUBSET Key, fb : Nat, acked : BOOLEAN]

Fresh(shared) == [keys |-> <<>>, fresh |-> {}, next |-> 1, fb |-> 0, prev |-> 0,
                  fbFresh |-> FALSE, shared |-> shared, count |-> 0]
NoCall == [known |-> 0, needed |-> 0, device |-> FALSE, tries |-> 0, keys |-> {}, fb |-> 0,
           acked |-> FALSE]
NewDevice == [pool |-> <<>>, device |-> FALSE, fb |-> 0, used |-> FALSE]

Elements(s) == {s[i] : i \in DOMAIN s}
Held == Elements(acct.keys)
Pool == Elements(server.pool)

TypeOK ==
    /\ acct \in Account /\ disk \in Account
    /\ Len(acct.keys) <= MaxKeys /\ acct.fresh \subseteq Held
    /\ server.pool \in Seq(Key) /\ server.device \in BOOLEAN /\ server.fb \in Nat
    /\ server.used \in BOOLEAN
    /\ pc["login"] \in {"start", "discard", "build", "upload", "save", "done"}
    /\ pc["sync"] \in {"idle", "check", "discard", "build", "upload", "save", "fallback", "fbUpload", "fbSave"}
    /\ call \in [Threads -> Call]
    /\ level \in 0..Levels /\ noted \in BOOLEAN /\ published \in BOOLEAN /\ seen \in BOOLEAN
    /\ run \in Nat /\ causes \subseteq {"crash", "failed", "overlap", "switch"}
    /\ left \in [Happenings -> Nat]

\* initializeE2EE of a new device: the account is created and saved.
Init ==
    /\ acct = Fresh(FALSE) /\ disk = acct
    /\ server = NewDevice
    /\ pc = [login |-> "start", sync |-> "idle"]
    /\ call = [t \in Threads |-> NoCall]
    /\ level = 0 /\ noted = FALSE /\ published = FALSE /\ seen = FALSE
    /\ run = 1 /\ causes = {}
    /\ left = Budget

Spend(what) == left[what] > 0 /\ left' = [left EXCEPT ![what] = @ - 1]
Goto(t, place) == pc' = [pc EXCEPT ![t] = place]
Busy(t) == pc[t] \notin {"start", "done", "idle"}
-----------------------------------------------------------------------------
(* The account (libolm, as the code uses it) *)

\* Generates n one-time keys; the list drops the oldest.
WithKeys(a, n) ==
    LET new == [i \in 1..n |-> [id |-> a.next + n - i, run |-> run]]
        all == new \o a.keys
        kept == SubSeq(all, 1, IF Len(all) < MaxKeys THEN Len(all) ELSE MaxKeys)
    IN  [a EXCEPT !.keys = kept, !.next = @ + n,
                  !.fresh = (@ \cup Elements(new)) \cap Elements(kept)]

\* Fallback keys are only told apart: a new one is larger than those in use.
NewFallback(a) == 1 + (IF a.fb > server.fb THEN a.fb ELSE server.fb)
WithFallback_Forgets(a) == [a EXCEPT !.prev = 0, !.fb = NewFallback(a), !.fbFresh = TRUE]
WithFallback(a) == [a EXCEPT !.prev = a.fb, !.fb = NewFallback(a), !.fbFresh = TRUE]

\* markOneTimeKeysPublished: of everything, uploaded or not.
Marked(a) == [a EXCEPT !.fresh = {}, !.fbFresh = FALSE]
-----------------------------------------------------------------------------
(* uploadDeviceKeys *)

Needed_OneMore(count) == IF count < MaxKeys THEN MaxKeys + 1 - count ELSE 0
Needed(count) == IF count < MaxKeys THEN MaxKeys - count ELSE 0

After(t) == IF t = "sync" THEN "fallback" ELSE "done"

\* The early returns, and the number of keys for the count that is believed.
Begin(t, count, force) ==
    IF acct.shared /\ (~force \/ Needed(count) = 0)
    THEN Goto(t, After(t)) /\ UNCHANGED call
    ELSE /\ Goto(t, "discard")
         /\ call' = [call EXCEPT ![t].known = count, ![t].needed = Needed(count),
                                 ![t].device = ~acct.shared, ![t].tries = 0]

Login ==
    /\ pc["login"] = "start"
    /\ Begin("login", acct.count, FALSE)
    /\ causes' = IF Busy("sync") /\ ~acct.shared THEN causes \cup {"overlap"} ELSE causes
    /\ UNCHANGED <<acct, disk, server, engine, run, left>>

Discard(t) ==
    /\ pc[t] = "discard"
    /\ acct' = Marked(acct)
    /\ Goto(t, "build")
    /\ UNCHANGED <<disk, server, call, engine, run, causes, left>>

\* buildKeysUploadBody: every key not marked is in the body, and, until the
\* account is shared, a fallback key.
Build(t) ==
    /\ pc[t] = "build"
    /\ LET more == WithKeys(acct, call[t].needed)
       IN  acct' = IF acct.shared \/ more.fbFresh THEN more ELSE WithFallback(more)
    /\ call' = [call EXCEPT ![t].keys = acct'.fresh, ![t].fb = IF acct.shared THEN 0 ELSE acct'.fb]
    /\ Goto(t, "upload")
    /\ UNCHANGED <<disk, server, engine, run, causes, left>>

Conflict(t) == \E k \in call[t].keys, h \in Pool : k.id = h.id /\ k # h

\* The keys of a body in the order of their ids.
Ordered(S) == CHOOSE s \in [1..Cardinality(S) -> S] :
                  \A i, j \in 1..Cardinality(S) : i < j => s[i].id < s[j].id

Stored(c) == [server EXCEPT !.pool = @ \o Ordered(c.keys \ Pool),
                            !.device = @ \/ c.device,
                            !.fb = IF c.fb = 0 THEN @ ELSE c.fb,
                            !.used = IF c.fb = 0 THEN @ ELSE FALSE]

\* The keys arrive, and with the answer everything is marked as published.
UploadAccepted(t) ==
    /\ pc[t] = "upload" /\ ~Conflict(t)
    /\ server' = Stored(call[t])
    /\ acct' = [Marked(acct) EXCEPT
                   !.shared = @ \/ call[t].device,
                   !.count = IF call[t].needed > 0 THEN call[t].known + call[t].needed ELSE @]
    /\ Goto(t, "save")
    /\ UNCHANGED <<disk, call, engine, run, causes, left>>

\* 400 "already exists": other keys, at most Retries times.
UploadRefused(t) ==
    /\ pc[t] = "upload" /\ Conflict(t)
    /\ IF call[t].tries < Retries
       THEN Goto(t, "discard") /\ call' = [call EXCEPT ![t].tries = @ + 1]
       ELSE Goto(t, "save") /\ UNCHANGED call
    /\ UNCHANGED <<acct, disk, server, engine, run, causes, left>>

UploadFails_MarksShared(t) ==
    /\ pc[t] = "upload" /\ Spend("trouble")
    /\ acct' = [acct EXCEPT !.shared = TRUE]
    /\ causes' = causes \cup {"failed"}
    /\ Goto(t, "save")
    /\ UNCHANGED <<disk, server, call, engine, run>>

\* The request or its answer is lost.
UploadFails(t) ==
    /\ pc[t] \in {"upload", "fbUpload"} /\ Spend("trouble")
    /\ server' \in {server} \cup (IF Conflict(t) THEN {} ELSE {Stored(call[t])})
    /\ causes' = causes \cup {"failed"}
    /\ Goto(t, IF pc[t] = "upload" THEN "save" ELSE "idle")
    /\ call' = IF pc[t] = "upload" THEN call ELSE [call EXCEPT ![t] = NoCall]
    /\ UNCHANGED <<acct, disk, engine, run>>

\* The account is saved whether or not the upload succeeded.
Save(t) ==
    /\ pc[t] = "save"
    /\ disk' = acct
    /\ Goto(t, After(t))
    /\ call' = [call EXCEPT ![t] = [NoCall EXCEPT !.acked = call[t].acked]]
    /\ UNCHANGED <<acct, server, engine, run, causes, left>>
-----------------------------------------------------------------------------
(* The sync loop *)

Acknowledged == server.fb # 0 /\ ~server.used

\* A sync response, with or without the count.
Tick ==
    /\ pc["sync"] = "idle"
    /\ call' = [call EXCEPT !["sync"] =
                   [NoCall EXCEPT !.known = Len(server.pool), !.acked = Acknowledged]]
    /\ Goto("sync", "check")
    /\ causes' = IF Busy("login") THEN causes \cup {"overlap"} ELSE causes
    /\ UNCHANGED <<acct, disk, server, engine, run, left>>

Reported_Local(c) == acct.count
Reported(c) == c.known

\* The response carries the count ...
CheckCount ==
    /\ pc["sync"] = "check" /\ CountReported
    /\ LET count == Reported(call["sync"])
       IN  /\ acct' = IF count > 0 THEN [acct EXCEPT !.count = count] ELSE acct
           /\ seen' = (seen \/ count > 0)
           /\ IF count < Low THEN Begin("sync", count, TRUE)
              ELSE Goto("sync", "fallback") /\ UNCHANGED call
    /\ UNCHANGED <<disk, server, level, noted, published, run, causes, left>>

\* ... or not: every so often the upload is tried with the count last stored.
CheckWithoutCount ==
    /\ pc["sync"] = "check"
    /\ IF CountReported THEN Spend("trouble") ELSE UNCHANGED left
    /\ IF seen THEN Goto("sync", "fallback") /\ UNCHANGED call
       ELSE Begin("sync", acct.count, TRUE)
    /\ UNCHANGED <<acct, disk, server, engine, run, causes>>

\* The server acknowledges the fallback key, or uploads of it are given up, or
\* the time for the next one has not come.
FallbackRests ==
    /\ pc["sync"] = "fallback"
    /\ level' = IF acct.shared /\ call["sync"].acked THEN 0 ELSE level
    /\ Goto("sync", "idle")
    /\ call' = [call EXCEPT !["sync"] = NoCall]
    /\ UNCHANGED <<acct, disk, server, noted, published, seen, run, causes, left>>

Waiting_Forever == TRUE
Waiting == level < Levels

\* uploadFallbackKey.  A key that was never uploaded is kept for the retry,
\* unless it is 7 days old, or of an earlier process: then a new one replaces
\* it, and the one before it, which the server may still give out, is gone.
FallbackDue ==
    /\ pc["sync"] = "fallback" /\ acct.shared /\ ~call["sync"].acked /\ Waiting
    /\ level' = level + 1
    /\ \/ acct' = WithFallback(acct)
       \/ acct.fbFresh /\ noted /\ UNCHANGED acct
    /\ noted' = TRUE
    /\ call' = [call EXCEPT !["sync"] = [NoCall EXCEPT !.fb = acct'.fb]]
    /\ Goto("sync", "fbUpload")
    /\ UNCHANGED <<disk, server, published, seen, run, causes, left>>

\* The key arrives; everything is marked as published, and then saved.
FallbackAccepted ==
    /\ pc["sync"] = "fbUpload"
    /\ server' = Stored(call["sync"])
    /\ acct' = Marked(acct)
    /\ published' = TRUE
    /\ Goto("sync", "fbSave")
    /\ call' = [call EXCEPT !["sync"] = NoCall]
    /\ UNCHANGED <<disk, level, noted, seen, run, causes, left>>

FallbackSave ==
    /\ pc["sync"] = "fbSave"
    /\ disk' = acct
    /\ Goto("sync", "idle")
    /\ UNCHANGED <<acct, server, call, engine, run, causes, left>>

\* Five minutes after a fallback key was published the one before is dropped.
Forget ==
    /\ pc["sync"] = "idle" /\ published
    /\ published' = FALSE
    /\ acct' = [acct EXCEPT !.prev = 0]
    /\ UNCHANGED <<disk, server, pc, call, level, noted, seen, run, causes, left>>
-----------------------------------------------------------------------------
(* The homeserver, and the life of the process *)

\* Peers open sessions, until one key is left or none, with the oldest one-time
\* keys, or, when there is none, with the fallback key.
Claim ==
    /\ Spend("claim")
    /\ \/ \E rest \in {0, 1} :
             /\ rest < Len(server.pool)
             /\ server' = [server EXCEPT !.pool = SubSeq(@, Len(@) - rest + 1, Len(@))]
       \/ server.pool = <<>> /\ server.fb # 0 /\ server' = [server EXCEPT !.used = TRUE]
    /\ UNCHANGED <<acct, disk, pc, call, engine, run, causes>>

NewProcess ==
    /\ run' = run + 1
    /\ pc' = [login |-> "start", sync |-> "idle"]
    /\ call' = [t \in Threads |-> NoCall]
    /\ level' = 0 /\ noted' = FALSE /\ published' = FALSE /\ seen' = FALSE

\* A crash and the next start: initializeE2EE loads what was saved.
Crash ==
    /\ Spend("trouble")
    /\ NewProcess
    /\ acct' = disk
    /\ causes' = IF \E t \in Threads : pc[t] \in {"save", "fbSave"}
                 THEN causes \cup {"crash"} ELSE causes
    /\ UNCHANGED <<disk, server>>

\* initializeE2EE for another account, on a device that has no saved record:
\* reset() and create() leave the shared flag of the previous account.
Switch ==
    /\ \A t \in Threads : ~Busy(t)
    /\ Spend("trouble")
    /\ NewProcess
    /\ acct' = Fresh(acct.shared) /\ disk' = acct'
    /\ server' = NewDevice
    /\ causes' = IF acct.shared THEN {"switch"} ELSE {}

Upload(t) ==
    \/ Discard(t) \/ Build(t) \/ UploadAccepted(t) \/ UploadRefused(t) \/ Save(t)

\* One iteration of the loop, whatever it decides.
Loop ==
    \/ Tick \/ CheckCount \/ CheckWithoutCount \/ FallbackRests \/ FallbackDue
    \/ FallbackAccepted \/ FallbackSave \/ Forget

Next ==
    \/ Login \/ Loop \/ Claim \/ Crash \/ Switch
    \/ \E t \in Threads : Upload(t) \/ UploadFails(t)

Spec == Init /\ [][Next]_vars

\* Both threads are scheduled.
FairSpec == Spec /\ WF_vars(Login \/ Upload("login")) /\ WF_vars(Loop \/ Upload("sync"))
-----------------------------------------------------------------------------
\* Every one-time key the server can hand out still has its private half here,
\* unless a crash fell between an upload and its save, an upload failed after
\* its keys were generated, or the login and the loop uploaded at the same
\* time: only then more keys are generated than the list holds beside the pool
\* (sync_engine.cpp:725-760, 816-829).
PoolUsable == Pool \subseteq Held \/ causes # {}

\* The same of the fallback key, the current or the previous one; keys that
\* were marked as published but never uploaded push it out only after such a
\* fault (sync_engine.cpp:735-740, 1373-1390, 1404-1409).
FallbackUsable == server.fb \in {0, acct.fb, acct.prev} \/ causes # {}

\* The shared flag, in memory or saved, says that the server has the device
\* keys of this account, but for a switch from a shared account to a new one,
\* which inherits the flag (olm_account.cpp:72-80, sync_engine.cpp:710, 795-797).
SharedIsHonest == acct.shared \/ disk.shared => server.device \/ "switch" \in causes

\* A drained pool is filled again (sync_engine.cpp:328-344).
Refilled == (Len(server.pool) < Low) ~> (Len(server.pool) >= Low)
=============================================================================
