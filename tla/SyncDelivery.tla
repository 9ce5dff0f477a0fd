---------------------------- MODULE SyncDelivery ----------------------------
(***************************************************************************)
(* The delivery of to-device messages (room keys above all) by the /sync   *)
(* loop: the homeserver's queue, the since-token in memory and on disk,    *)
(* the skipped replay of the first sync, the periodic save of the crypto   *)
(* state, and the end of the process by a close or by a crash.             *)
(*                                                                         *)
(* Messages are numbered in the order the homeserver queued them and a     *)
(* token is the number of the last message it covers.  Pausing and the     *)
(* authentication errors that stop the loop are in SyncControl.            *)
(***************************************************************************)
EXTENDS Integers, FiniteSets

CONSTANTS
    PersistEvery,  \* 20: successful syncs between two periodic saves
    Portion,       \* homeserver: messages per response (100 in Synapse)
    MaxMsgs,       \* bound: messages sent to this device
    Budget         \* how often each environment event may happen

EnvEvents == {"retry", "crash", "close"}

ASSUME SyncDeliveryAssumption ==
    /\ PersistEvery \in Nat \ {0}
    /\ Portion \in Nat \ {0}
    /\ MaxMsgs \in Nat
    /\ Budget \in [EnvEvents -> Nat]

Msgs == 1..MaxMsgs
NoToken == -1
Tokens == NoToken..MaxMsgs

VARIABLES
    sent,             \* homeserver: messages queued so far
    deleted,          \* homeserver: messages up to here are gone
    since,            \* sinceToken_
    firstRun, hadSaved, \* firstRun_, hadSavedSince_
    empty,            \* useEmptySince of this iteration
    batch,            \* messages of the response in hand
    running,          \* running_
    pc,               \* the worker's step; "off" when there is no process
    syncs,            \* stats_.syncs modulo PersistEvery
    gap,              \* syncs since the crypto state was last on disk
    held,             \* messages whose effect is in the crypto state in memory
    disk, token,      \* saved crypto state, saved since-token
    consumed,         \* history: messages handled by some run
    excused,          \* history: see NothingLost
    left              \* remaining budget

vars == <<sent, deleted, since, firstRun, hadSaved, empty, batch, running, pc, syncs, gap,
          held, disk, token, consumed, excused, left>>

position == <<since, firstRun, hadSaved>>
stored   == <<disk, token>>

TypeOK ==
    /\ sent \in 0..MaxMsgs /\ deleted \in 0..sent
    /\ since \in Tokens
    /\ firstRun \in BOOLEAN /\ hadSaved \in BOOLEAN /\ empty \in BOOLEAN
    /\ batch \subseteq Msgs
    /\ running \in BOOLEAN
    /\ pc \in {"off", "request", "process", "persist", "token", "ended"}
    /\ syncs \in 0..PersistEvery - 1 /\ gap \in Nat
    /\ held \subseteq Msgs /\ disk \subseteq Msgs
    /\ token \in Tokens
    /\ consumed \subseteq Msgs /\ excused \subseteq Msgs
    /\ left \in [EnvEvents -> Nat]

Init ==
    /\ sent = 0 /\ deleted = 0
    /\ since = NoToken /\ token = NoToken
    /\ firstRun = FALSE /\ hadSaved = FALSE /\ empty = FALSE
    /\ batch = {} /\ held = {} /\ disk = {} /\ consumed = {} /\ excused = {}
    /\ running = FALSE /\ pc = "off" /\ syncs = 0 /\ gap = 0
    /\ left = Budget

Spend(what) == left[what] > 0 /\ left' = [left EXCEPT ![what] = @ - 1]
-----------------------------------------------------------------------------
(* The homeserver: a request acknowledges, and so deletes, what its token   *)
(* covers, and is answered with the oldest messages that are left.          *)

Send ==
    /\ sent < MaxMsgs
    /\ sent' = sent + 1
    /\ UNCHANGED <<deleted, position, empty, batch, running, pc, syncs, gap, held, stored,
                   consumed, excused, left>>

Acknowledged_AnyToken == since
Acknowledged == IF firstRun THEN deleted ELSE since
NextBatch == IF sent < Acknowledged + Portion THEN sent ELSE Acknowledged + Portion
Response == (Acknowledged + 1)..NextBatch
-----------------------------------------------------------------------------
(* The process *)

Start_WithoutCrypto ==
    /\ pc = "off"
    /\ since' = token
    /\ hadSaved' = (token # NoToken)
    /\ firstRun' = TRUE
    /\ running' = TRUE
    /\ pc' = "request"
    /\ held' = {}
    /\ syncs' = 0 /\ gap' = 0
    /\ UNCHANGED <<sent, deleted, empty, batch, stored, consumed, excused, left>>

\* A new process reads the crypto state back (initializeE2EE) and starts the
\* loop (start): the saved token is loaded, the first sync uses none.
Start ==
    /\ pc = "off"
    /\ since' = token
    /\ hadSaved' = (token # NoToken)
    /\ firstRun' = TRUE
    /\ running' = TRUE
    /\ pc' = "request"
    /\ held' = disk
    /\ syncs' = 0 /\ gap' = 0
    /\ UNCHANGED <<sent, deleted, empty, batch, stored, consumed, excused, left>>

Request_SavesToken ==
    /\ pc = "request" /\ running
    /\ deleted' = Acknowledged
    /\ empty' = firstRun
    /\ batch' = Response
    /\ firstRun' = FALSE
    /\ since' = NextBatch /\ token' = NextBatch
    /\ excused' = IF firstRun /\ hadSaved THEN excused \cup Response ELSE excused
    /\ syncs' = (syncs + 1) % PersistEvery /\ gap' = gap + 1
    /\ pc' = "process"
    /\ UNCHANGED <<sent, hadSaved, running, held, disk, consumed, left>>

\* A successful sync, up to the update of the position.
Request ==
    /\ pc = "request" /\ running
    /\ deleted' = Acknowledged
    /\ empty' = firstRun
    /\ batch' = Response
    /\ firstRun' = FALSE
    /\ since' = NextBatch
    /\ excused' = IF firstRun /\ hadSaved THEN excused \cup Response ELSE excused
    /\ syncs' = (syncs + 1) % PersistEvery /\ gap' = gap + 1
    /\ pc' = "process"
    /\ UNCHANGED <<sent, hadSaved, running, held, stored, consumed, left>>

\* The request reached the server but its response did not arrive.
RequestFails ==
    /\ pc = "request" /\ running
    /\ deleted' = Acknowledged
    /\ UNCHANGED <<sent, position, empty, batch, running, pc, syncs, gap, held, stored,
                   consumed, excused, left>>

\* M_UNKNOWN_TOKEN, and the immediate retry succeeds: the token moves on and
\* the response goes to syncCb_ alone.
RetrySucceeds ==
    /\ pc = "request" /\ running /\ Spend("retry")
    /\ deleted' = Acknowledged
    /\ since' = NextBatch
    /\ excused' = IF firstRun THEN excused ELSE excused \cup Response
    /\ syncs' = (syncs + 1) % PersistEvery /\ gap' = gap + 1
    /\ UNCHANGED <<sent, firstRun, hadSaved, empty, batch, running, pc, held, stored, consumed>>

Skip_Never == FALSE
Skip_AnySync == hadSaved
Skip == empty /\ hadSaved

\* handleRoomKeyShares and processToDeviceEvents, unless this is the replay.
Process ==
    /\ pc = "process"
    /\ IF Skip THEN UNCHANGED <<held, consumed>>
       ELSE held' = held \cup batch /\ consumed' = consumed \cup batch
    /\ pc' = "persist"
    /\ UNCHANGED <<sent, deleted, position, empty, batch, running, syncs, gap, stored, excused, left>>

PersistDue_Never == FALSE
PersistDue == syncs = 0

\* The periodic persistCrypto, then the check of running_.
Persist ==
    /\ pc = "persist"
    /\ IF PersistDue THEN disk' = held /\ gap' = 0 ELSE UNCHANGED <<disk, gap>>
    /\ pc' = IF running THEN "token" ELSE "ended"
    /\ UNCHANGED <<sent, deleted, position, empty, batch, running, syncs, held, token, consumed,
                   excused, left>>

SaveToken ==
    /\ pc = "token"
    /\ token' = since
    /\ pc' = "request"
    /\ UNCHANGED <<sent, deleted, position, empty, batch, running, syncs, gap, held, disk, consumed,
                   excused, left>>

\* The close event: stop() asks the loop to end ...
Close ==
    /\ pc # "off" /\ running /\ Spend("close")
    /\ running' = FALSE
    /\ UNCHANGED <<sent, deleted, position, empty, batch, pc, syncs, gap, held, stored, consumed,
                   excused>>

LoopEnds ==
    /\ pc = "request" /\ ~running
    /\ pc' = "ended"
    /\ UNCHANGED <<sent, deleted, position, empty, batch, running, syncs, gap, held, stored,
                   consumed, excused, left>>

\* ... and the crypto state is saved before the process goes away.
ClosingSave ==
    /\ pc = "ended"
    /\ disk' = held /\ gap' = 0
    /\ pc' = "off"
    /\ UNCHANGED <<sent, deleted, position, empty, batch, running, syncs, held, token, consumed,
                   excused, left>>

Crash ==
    /\ pc # "off" /\ Spend("crash")
    /\ pc' = "off" /\ running' = FALSE
    /\ UNCHANGED <<sent, deleted, position, empty, batch, syncs, gap, held, stored, consumed,
                   excused>>
-----------------------------------------------------------------------------
Worker == Request \/ Process \/ Persist \/ SaveToken \/ LoopEnds \/ ClosingSave

Next == Send \/ Start \/ Worker \/ RequestFails \/ RetrySucceeds \/ Close \/ Crash

Spec == Init /\ [][Next]_vars

\* The OS schedules the worker, the application is opened again after it
\* ended, and a server is not unreachable for ever.
FairSpec ==
    /\ Spec
    /\ WF_vars(Worker) /\ WF_vars(Start)
    /\ SF_vars(Request)
-----------------------------------------------------------------------------
Used(what) == Budget[what] - left[what]

\* A message the homeserver has deleted was handled, except for two known
\* causes: it was in the skipped first response after a start with a saved
\* token, or in the response of a retry after M_UNKNOWN_TOKEN.  In
\* particular no crash, however placed, makes the server forget a message
\* the handlers have not seen (sync_engine.cpp:258-321).
NothingLost == 1..deleted \subseteq consumed \cup excused

\* The token on disk never runs ahead of the handlers: it is written after
\* they ran, so a crash of the very first run leads to a full replay and not
\* to a skipped one (sync_engine.cpp:297-321, 70-78).
TokenNotAhead == token # NoToken => 1..token \subseteq consumed \cup excused

\* A message is handled a second time only by the first sync of a run that
\* found no token, that is when the first run ended before its save: anything
\* else would answer old key requests again (sync_engine.cpp:290-296).
NoReprocessing ==
    pc = "process" /\ ~Skip /\ batch \cap consumed # {} => empty /\ ~hadSaved

\* What a crash can lose of the crypto state is bounded by the period of the
\* save; only retried syncs, which count but do not save, stretch it
\* (sync_engine.cpp:195 against 308).
UnsavedWindow == gap <= PersistEvery * (1 + Used("retry"))

\* The delivery implements a mailbox without tokens, runs and workers: the
\* queue is what the server has not deleted, and the excused responses are
\* the messages that were let go (sync_engine.cpp:70-78, 193-211, 288-321).
Mail == INSTANCE Mailbox WITH
    Messages <- Msgs,
    posted   <- 1..sent,
    queue    <- (deleted + 1)..sent,
    handled  <- consumed,
    dropped  <- excused,
    known    <- held,
    safe     <- disk

\* Only what was handled or let go is forgotten by the server, only what is
\* still there is handled, a restart knows what was saved and no more, and in
\* the end every message is handled or let go.
ImplementsMailbox == Mail!Spec

\* sync_engine.cpp:292 "every event is already consumed by the previous
\* session": so the skipped replay drops nothing that was not handled.
ReplayWasConsumed == pc = "process" /\ Skip => batch \subseteq consumed
=============================================================================
