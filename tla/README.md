# progressive-core in TLA+

progressive-core (`src/core`) is the C++ engine of a Matrix client: it keeps a
`/sync` loop, decrypts and encrypts messages with Olm and Megolm, asks for and
shares room keys, verifies devices and keeps accounts, tokens and keys in
SQLite. These modules model the parts of it in which threads, requests, crashes
and retries interact; TLC checks them on small instances and TLAPS proves the
most important properties for every value of the constants.

Paths are relative to the repository's root; `decryptor.cpp:1645` stands for
`src/core/crypto/decryptor.cpp`, line 1645.

## Inventory

| Part | State | Operations | Talks to | What is hard, and what makes it correct |
|---|---|---|---|---|
| Room-key request scheduler (`decryptor.cpp`, `megolm_store.cpp`) | `requestedKeys_`, `gaveUpKeys_`, `requestGateCount_` under `requestMtx_`; pending events and sessions under the store's mutex; a saved copy of the map | decryptMegolmEvent, requestRoomKey, reRequestKey, maybeReRequestKeys, resendAllPendingRequests, handleRoomKey, handleForwardedRoomKey, forceNewOlmSession, pickling | called by the sync worker and by the threads that decrypt timelines | Several locks per operation, a bounded map, a gate, a back-off schedule, restarts with another clock. A waiting event is always asked for, until the retries are exhausted, which is surfaced once. |
| Outbound Megolm session and sharing (`decryptor.cpp`, `sync_engine.cpp:402-536,1428-1491`) | `outboundSessions_`, `roomKeysShared_` under `outboundMtx_`, Olm sessions, the claim window of one-time keys | sendMessage, shareRoomKey, doRoomKeyShares, dropOutboundSession, sendOlmToDevice | UI threads, the thread pool, the homeserver | Small accessors lock one by one around long HTTP calls. The shared flag must speak of the current session, a session must rotate, one-time keys must not be wasted. |
| Sync engine, thread life cycle (`sync_engine.cpp:64-395`) | `running_`, `paused_`, `cv_`, `worker_`, the count of token failures | start, stop, pause, resume, run | the UI thread and the worker | stop() must return and leave no worker, pause must quiesce, an authentication error must be final. |
| Sync engine, delivery (`sync_engine.cpp:258-321,538-632,1191-1211`) | `sinceToken_`, the token and the pickles on disk, `firstRun_`, `hadSavedSince_` | one iteration of run(), persistCrypto, close, crash, restart | the homeserver, which deletes what a token acknowledges | Token and crypto state are saved at different times. Nothing may be lost or handled twice. |
| Interactive verification (`verification.cpp`, `verify_controller.cpp`, `sync_engine.cpp:635-689`) | one `VerificationTransaction` per verification: state, SAS, keys, start time | startUserVerification, acceptIncoming, confirmMatch, cancelVerification; handleEvent for seven event types; the sweep of old transactions | UI thread and sync worker of two devices | The UI writes the transaction without the lock, after blocking requests; messages get lost; transactions expire. A device is trusted only if both users confirmed. |
| Timeline (`engine/timeline_state.cpp`) | `events_`, `seenIds_`, `rowIndex_` of the open room | appendBack, appendBackBatch, appendFront, replaceEcho, replaceEvent, clear | the user interface, with what /sync, the answers to sends and history bring, in any order | Long sequences of legal calls around a cap. The index finds the rows, no event is swallowed, no echo stays beside its event. |
| Room list and sync applier (`engine/room_state.cpp`, `engine/sync_applier.cpp`) | `rooms_`, `index_`, `hiddenRoomIds_`; the updates on their way to the UI thread | prepareRoomSyncUpdate on the worker; upsertRoom, removeRoom, hideRoom, unhideRoom, clear on the UI thread | the homeserver, a list view that applies only what the calls return | Invitations, joins, kicks and hiding in any order; rows move. The list says what the responses said last. |
| Session store (`session_store.cpp`) | SQLite tables of accounts, tokens, pickles, trust | save, load, activate, clear | every other part | One recursive mutex; partial failure of multi-statement operations. |
| Matrix client, HTTP (`matrix_client.cpp`, `http_client.cpp`) | account, transaction counter | about eighty API calls | the homeserver | Read-modify-write of room state; failures that look like answers. |
| Key backup (`key_backup.cpp`, `sync_engine.cpp:903-960`) | backup info, dirty flag | create, upload, restore, delete | the homeserver | The dirty flag is cleared after an upload during which new keys can arrive. |
| Olm account, one-time keys (`sync_engine.cpp:323-395,693-829,1373-1410`, `olm_account.cpp`) | libolm's list of one-time keys, the fallback keys, the shared flag and the count, in memory and on disk; the backoff of the fallback upload | uploadDeviceKeys, the top-up of run(), uploadFallbackKey, saves, the switch of account | the login thread and the sync worker; the homeserver, which hands keys out to peers | Two uploading threads, crashes between upload and save, a bounded list. A key the server hands out must still have its private half here. |
| Cross-signing, SSSS, recovery key, media, JSON parser | none or write-once | straight-line functions | | Cryptography and parsing on one thread. |
| Thread pool (`thread_pool.cpp`) | a queue, a stop flag | submit, shutdown | KeySharing's jobs | Shutdown against submit. |
| `native/` | vendored code of the mobile application | | a few helpers are called | not the program's own core |

The hazards of this code, each at its line, with the properties aimed at it or
the reason why there is none yet, are in `PROJECT.json`.

## The modules

| Module | Models | Proofs |
|---|---|---|
| `KeyRequests` | the room-key request scheduler | `KeyRequests_proofs` |
| `KeySharing` | outbound session, sharing, one-time-key claims | `KeySharing_proofs` |
| `SyncControl` | threads of the sync engine | `SyncControl_proofs` |
| `SyncDelivery` | to-device delivery, tokens, crash recovery | `SyncDelivery_proofs` |
| `Mailbox` | what the delivery promises: abstract, implemented by `SyncDelivery` | in `SyncDelivery_proofs` |
| `Verification` | one SAS verification between two devices | `Verification_proofs` |
| `Timeline` | the rows of the open room | `Timeline_proofs` |
| `RoomList` | the room list, and the updates on their way to it | `RoomList_proofs` |
| `OlmKeys` | the own device's published keys | `OlmKeys_proofs` |

The `MC` modules give the constants of their module small values; `SyncControl`
is checked directly.

### KeyRequests

A key of `requestedKeys_` ("room|session|sender key") is a member of `Keys`
with functions `RoomOf` and `SenderOf`. `entry[k]` is the map's value: attempts
(0: no entry), the age of the last request in ticks, and `gaveUpNotified`. An
age instead of a time stamp keeps the state finite; ages saturate at `MaxAge`.

One step is what runs under one acquisition of `requestMtx_` or of the store's
mutex. A decrypting thread therefore takes four: `Check` (is the session
there?), `AddPending`, `InsertRequest` (with give-up test and eviction) and
`PassGate` (the ten-requests window). The sync worker's handlers are
`EraseRequest`/`AddSession`/`RejectSession`/`ProcessPending` for a room key,
`ImportSession`/`ProcessPending`/`EraseSatisfied` for a forwarded one,
`MaybeReRequestKeys` (one step: it holds the lock over its HTTP requests),
`SnapshotRequests`/`ResendOne` for a resend sweep (which does not hold it),
`Rearm`, `Persist`, and `Restart` with or without a reboot, which makes the
saved steady-clock values lie in the future. Variables marked "history"
(`notices`, `forgotten`) record what happened and guard nothing.

`Budgets` is a set of counts: a behaviour may use the environment events up to
one of them, and `used` says how often each has happened. Re-arms are not
counted, since `forceNewOlmSession` has no limit but its ten minutes: `forced`
is the time since the requests of a sender were re-armed last, and `Rearm` is
possible whenever it has reached `RearmWindow`.

### KeySharing

One encrypted room. `cur`, `count` and `flag` are its entries in
`outboundSessions_` and `roomKeysShared_`. Every accessor that locks
`outboundMtx_` and every HTTP call is a step of its thread, so `ReadId` and
`ReadKey` can see two sessions, and `Mark` can come after a rotation. Three
kinds of job run: `sendMessage`, the shares on join and on device-list changes,
and `sendOlmToDevice` (normal or `forceFresh`); `Ops` says which of them each
thread runs. Members, query, claim and put fail when `Failures` says so.

`otk`, `window` and `cached` are the server's one-time keys, the claim window
and the reusable Olm sessions of each device. A share chooses whom to claim for
(`Choose`), claims (`Claim`), notes each device in its window and looks at its
key (`Note`); a key of an old identity, which does not verify, makes it claim
further keys of that device (`DrainStep`) until one verifies, none is left or
`Drain` is used up. `Put` then sends to the devices that have a new session and
to those with a cached one, and succeeds when there is one of them. The first
`Stale` keys of a device are of an old identity. A published fallback key,
which the server hands out when the pool is empty, is a pool that does not run out.

Three variables are history. `covered` holds who was sent the current session's
key on a key that verified; `missed` who was among the recipients of a
successful share of it and got nothing usable: no key at the server, its claim window, a
key that did not verify, a session that failed or that another thread dropped.
`taken` counts the keys that the shares of each thread took of a device since
its window ended last.

### SyncControl

The atomics `running_` and `paused_`, the condition variable and both threads'
program counters. `Gate` tests the predicate under `mtx_`, `Block` is the wait
itself: the code notifies without the mutex, so a notification may fall between
them. The UI's start, stop, pause and resume each are two or three steps.
`Request` chooses among the outcomes of a sync (success, error, unknown token,
third failure), `Retry` and `Refresh` follow the recovery path to `AuthErr` and
`Die`.

### SyncDelivery and Mailbox

Messages are numbers in queue order; a token is the number of the last message
it covers. `Request` is a sync that succeeds (the server deletes what the
request's token acknowledges), `Skip` is `skipReplay`, then `Process`,
`Persist` and `SaveToken` are the code's order. `Crash` can come between any
two. `Close` is stop() and the closing persistCrypto of the owner.

`Mailbox` says what this is for, without tokens, runs or program counters: the
server forgets only what was handled or let go, only what it still holds is
handled, a restart knows exactly what was saved, and every message is handled
or let go in the end. `ImplementsMailbox` is that specification under the
refinement mapping `Mail` (the queue is what has not been deleted, the excused
responses are what was let go); `MCSyncDelivery_delivery` checks all of it and
`DeliveryIsAMailbox` proves its safety part.

### Verification

Two devices that both run this client, `Starter` and `Responder`; two threads
each. A UI call is cut at each of its HTTP requests, because
`VerificationController` holds a raw pointer across them (the `DEBT` note at
`verification.cpp:74`); a handler runs under the manager's lock and is one
step, except the mac handler, which decides by the state and then writes it
(`HandleMac`, `MacWrite`). `Record` is the test of the state after the lock was
released (`sync_engine.cpp:644`). A step that writes to a transaction which was
removed meanwhile is invisible: the memory is not reachable any more. What else
a use after free may do is not modelled. A message whose Olm wrapping fails goes
out in the clear (`verify_controller.cpp:82-95`) and is the same event to the
peer, so `Sent` is one send with two outcomes; that an answer is lost after the
server took the message, which would send it twice, is left out.

A mac also names the sender's master key when the sender has one and knows one
of the peer (`NamesMaster`); the receiver takes a master key that it was not told of, or
another than it was told of, for a mismatch (`MasterAgrees`,
`verification.cpp:361-399,450-465`). `master` is what each device holds and what
the server publishes for its user, and `theirs` what a device looked up when it
created its transaction. The instances start from the `Setups` of `MCVerification`:
no master keys, keys in use on both sides or on one, a device without the
secrets, an upload that waits for a password, and a reset on another device.
`MismatchHasCause` gives the last two as a cause of their own (`Unpublished`):
the code then cancels, which is what `test_e2ee_verify_protocol.cpp:250-261`
asks for. `sas.theirKeySet` is kept because
`acceptIncoming` creates its SAS after `.start` went out. `MaxTrouble` bounds
lost messages, failed device-key queries, cancels and expiries together.

### Timeline

Events are numbers in the server's order; an echo of event n has the temporary
id -n. The operators are the functions of `TimelineState`, each with everything
it does to `events_`, `seenIds_` and `rowIndex_`: the eviction at the cap with
the rebuild of the index, the removal or replacement of an echo, the reply
counts of threads. A page of history can be fetched twice, a key that comes
late replaces the row of an event, and the answer to a send and /sync bring the
same event in either order. Three history variables, which no step reads, say what
the properties excuse: `evicted` (events dropped at the cap), `lost` (how many replies
to an event were dropped there) and `doubled` (reply echoes removed because the event
was already shown). The user interface is outside the repository; it is modelled by
what it hands over. Edits, redactions and reactions change the
body of a row found through the index, nothing else, and are left out.

### RoomList

`Prepare` is `prepareRoomSyncUpdate` on the worker; it reads the room that is
open. Updates wait in `queue`; `Deliver` starts one, and each call of
`upsertRoom` or `removeRoom` is then a step of its own. `view` is the mirror a
list model keeps that learns of changes only from the returned results. A merge
leaves the row where it is, so the list need not be sorted when the next room
is inserted: `Place` allows every position a binary search can end at.

### OlmKeys

`acct` is the `OlmAccountStore` with libolm's list (newest first, `MaxKeys`
long, numbered in sequence), `disk` its saved record, `server` what the
homeserver holds. An upload is five steps of its thread: `Discard` (mark
everything as published), `Build` (generate, and a fallback key while the
account is not shared), `UploadAccepted`, `UploadRefused` ("already exists",
then other keys) or `UploadFails` (request or answer lost), `Save`. The loop
decides by the reported count (`CheckCount`) or, without one, by the count the
engine stored itself (`CheckWithoutCount`), and renews the fallback key with
its backoff. Keys carry the number of the process that made them, because a
crash before the save makes a new process use the same ids again. `causes` is
history: what may have cost a key its private half.

## The runs

Every passing run checks its module's type invariant together with the
properties below. "Violation" runs state what a comment or a test says and show
how the code differs.

| Run | Question | Bounds |
|---|---|---|
| `MCKeyRequests_settle` | `KeepsAsking`, `AttemptsBounded`, `GaveUpOnce` in any interleaving of a decrypting thread and the worker; `EveryRequestSettles`: a request ends, whatever deferrals, resends, saves and reboots come in between, unless its sender is re-armed again and again | 2 sessions of one sender; cap, give-up cap and gate of 1, so that each of them overflows; two scheduled retries; re-arms without limit, and with them the eight mixtures of `MCBudgets`: two saves around an answer, a resend and a restart; two events with a restart and a resend, three with a restart; an answer with a bad or a forwarded key, a resend with a forwarded key or a manual request, a manual request with a restart |
| `MCKeySharing_threads` | `RotationBound`, `TornIsRetired`, `FlagSetHonestly`, `ClaimsPerWindow` with every operation and every HTTP failure | a thread that sends and answers with Olm, one that sends, shares on join and on device lists and forces fresh sessions; 2 members, of which one has three one-time keys, the first of an old identity, and one has none; drain budget 1; 2 sessions, rotation after 1 message |
| `SyncControl_lifecycle` | no thread after stop() and no abort but after an authentication error, final authentication error, pause, stop() returns unless its notification is lost | 7 UI calls, failure limit 3 as in the code |
| `SyncControl_pausedstop` (violation) | "Stop the loop" (`sync_engine.hpp:167`) always returns | 3 UI calls |
| `MCSyncDelivery_delivery` | nothing lost but for two causes, nothing handled twice, token not ahead, bounded window; the delivery implements the mailbox, so everything is handled in the end | 3 messages, responses of 2, save every 2 syncs, one crash, close and retry each |
| `MCSyncDelivery_replay` (violation) | "every event is already consumed by the previous session" (`sync_engine.cpp:292`) | 2 messages, one crash, one close |
| `MCVerification_sas` | `VerifiedTogether`, `MismatchHasCause`, `BothFinish` | 2 devices, 2 troubles, 7 set-ups of master keys |
| `MCVerification_crossed` (violation) | a clean run reaches Done on both sides (`tests/test_e2ee_verify_protocol.cpp:3`) | the same, 1 trouble, set-ups without and with master keys on both sides |
| `MCTimeline_rows` | `IndexExact`, `SeenExact`, `NoGhost`, `NothingMissing`, `CountBounded` under every order of sends, answers, syncs, pages, late keys and clears | 6 events, 2 of them history, 2 own; cap 3, so that half of them are evicted; pages of 2; an own event gets a reply from here and a reaction, and one history event replies to the other; one key comes late; two dividers, one clear, one repeated page: enough for a reply echo to be removed while its root is shown, for a reaction to be counted, and for a reply to be dropped, fetched again and dropped again |
| `MCRoomList_list` | `IndexExact`, `ListIsCurrent`, `ViewFollows` while updates wait and the user hides, opens and logs out | 3 interchangeable rooms, 2 times, 1 waiting update, 4 changes, 2 UI calls |
| `MCOlmKeys_pool` | `PoolUsable`, `FallbackUsable`, `SharedIsHonest`; `Refilled`: a drained pool is filled again | list of 4, refill below 2, 3 retries as in the code, 2 backoff levels, 2 rounds of claims, 1 fault |
| `MCOlmKeys_uncounted` (violation) | "uploadDeviceKeys(true) checks the real count itself" (`sync_engine.cpp:335`), with a server that reports no count | the same without faults |

`MapBounded` is stated in `KeyRequests` and proved for all values; it has no run
of its own.

Why the bounds are enough: the counters of the code appear only in comparisons
(cap, gate, attempts, period), so a limit of one or two and one more step show
both sides of each; the properties relate at most two sessions, two messages or
two threads, or an event and its echo; and every kind of fault happens at least
once at every place. The kinds of fault of `KeyRequests` are not all combined: the
state space allows the mixtures named above, chosen so that each event that moves
a request's clock or attempts meets a save, a restart, or another of its kind
(both reset the same two fields), and the theorems on the safety properties hold for every set
of budgets. The runs have between 4,000 and 4.6 million states; the two largest
(`MCKeyRequests_settle`, `MCKeySharing_threads`) take under three minutes.
Runs set `CHECK_DEADLOCK FALSE` because budgets run out and a closed
application, a finished verification or an empty server are proper ends.

### Fairness

* `KeyRequests`: threads go on once they have started, the sync loop ticks
  (`maybeReRequestKeys` is called at every sync, `sync_engine.cpp:304`) and time
  passes. Nothing is assumed of answers.
* `SyncControl`: the OS schedules both threads; every request has a timeout.
* `SyncDelivery`: the worker goes on, the application is opened again after it
  ended, and the server answers if it is asked again and again (strong fairness
  of `Request` alone).
* `OlmKeys`: the login thread and the sync loop are scheduled; peers, faults and
  restarts are not assumed.
* `Verification`: a UI call that has begun goes on; both sync loops keep
  delivering. No user is assumed to confirm.

## What is proved

TLAPS checks the theorems for all values of the constants that satisfy the
named assumptions of the modules (finite nonempty sets, positive limits, no
bound on sizes).

`KeyRequests_proofs`, from `KeysAssumption`, `ScheduleAssumption` and `BoundsAssumption`:

* `TypeCorrect`. The type invariant is inductive; the proof has one step per
  action, and a lemma for each form of entry.
* `AlwaysAsking` (`KeepsAsking`). Not inductive alone: while a thread is between
  parking an event and inserting its request, and while the worker has erased a
  request and not yet added the session, the event is covered by what that
  thread will do. The invariant names these moments (`BeingAsked`) and where
  each thread's event is.
* `AttemptsNeverRunAway` (`AttemptsBounded`). Strengthened with the same bound
  for the saved map and with the sweeps under way: a sweep that has taken its
  snapshot may still count one attempt for each entry in it.
* `MapStaysBounded` (`MapBounded`). Strengthened with the bound on the saved
  map, since a restart loads it; needs the cardinality facts of the library.
* `DeadEndsSurfaceOnce` (`GaveUpOnce`). A session is `Open` while a retry pass may
  surface its dead end, now or after another event asked for it. The invariant
  counts notices: those of an `Open` session are all paid for by manual requests and
  restarts (`Paid`), those of another exceed that by one. That the give-up set and the
  surfaced requests are among the sessions with a notice is what the clearing of
  a full set needs: it happens only after the premise of the property is gone.

`SyncControl_proofs`, from `SyncControlAssumption`: `TypeCorrect`,
`NoWorkerIsLeft` (`NoWorkerAfterStop`), `AuthErrorOnce` (`AuthErrorIsFinal`) and
`PauseHolds` (`PauseQuiesces`), from one inductive invariant: a live worker is
joinable, the steps of the UI and the flags agree, an error that was reported
leaves the worker on its way out, the failures are below the limit wherever
they are about to be increased (the type's bound alone is not inductive), and
what was emitted since pause() depends on where the worker is.
`NoWorkerAfterStop` is about what stop() leaves: `stopped` is TRUE from the return of
stop() to the next start(), and then there is neither a live worker nor a
thread object that was not joined, also when the worker had ended by itself
before; and only a start() after an authentication error aborts the process.

`KeySharing_proofs`, from `KeySharingAssumption`: `TypeCorrect`, `SessionsRotate`
(`RotationBound`), `TornShareIsHarmless` (`TornIsRetired`), `FlagIsHonest`
(`FlagSetHonestly`) and `ClaimsAreLimited` (`ClaimsPerWindow`). The rotation bound alone is not inductive: a thread
that has passed the rotation check will still add its message. `Pending` counts
the threads on their way from the check to the encryption together with the
messages already there; a new session starts at zero, `Fresh` says that session
numbers are not reused, and every other step (`Quiet`) neither encrypts nor adds
a thread. For the shares, `AllSound` says what each job in flight knows: a share
names no session from the future, a torn one names no current session, and one
that is about to set the flag for the current session has its recipients in
`covered` or `missed`; `PutSound` goes through the recipients (left out before the claim,
claimed and good, stale or failed, cached and good or failed, dropped by another
thread) and finds each in one of the two. The flag is then honest because only
`Mark` sets it and a new session clears it. For the claims, `AllMetered` says per thread and
device where its keys can have been taken: outside the window only by a claim that is
about to be noted; nothing by a share that is about to claim the device; at most one before
its key is looked at; and while it is drained at most one more than the attempts so far, for
a device that has old keys. What other threads do only adds to the windows, and
the end of a window starts the count again.

`SyncDelivery_proofs`, from `SyncDeliveryAssumption`: `TypeCorrect`,
`NoMessageIsLost` (`NothingLost`), `TokenFollows` (`TokenNotAhead`),
`HandledOnce` (`NoReprocessing`) and `SavedInTime` (`UnsavedWindow`). The server
deletes what the *next* request acknowledges, so the invariant speaks of the
position in memory: what it covers is settled or in the response in hand
(`Covered`), it is at most one response ahead of what is deleted (`Positions`),
and nothing handled lies beyond it, nor beyond what the skipped first response
of the next run will reach (`Consumed`). The last theorem counts syncs: outside
a save that is due, the unsaved ones are at most the counter plus one period
for each retry that was used up. `DeliveryIsAMailbox` maps every step to a step
of `Mailbox` or to a stutter: a request is an exchange (that it forgets only what
was handled or let go is `Covered`), the handlers handle only what is still queued,
and a start is a restart.

`Verification_proofs`, from `VerificationAssumption`: `TypeCorrect`,
`NobodyTrustedAlone` (`VerifiedTogether`) and `MismatchIsExplained`
(`MismatchHasCause`). A confirmation travels from one
device to the other as a message, so the invariant (`Backed`) says what each
carrier of it stands for: a `.mac` in an inbox means that its sender's user
confirmed, a `.done`, the state Done and a mac handler that decided on Done
mean that both did, and MacSent means that the device's own user did. Lemmas about
the channels say that a step brings into an inbox only what it sends. The third
theorem is about the order in the inboxes while nothing goes wrong (`CalmInv`): no
`.start`, which creates the SAS anew, is behind a key, every mac has a key before
it or at the device already, and a device with a SAS has sent its own key. For
the master keys it needs that whoever has a transaction or had one looked up
what the server published (`LookedUp`), so that a master key named in a mac is the one that
its receiver was told of, unless the sender holds an unpublished one.

`Timeline_proofs`, from `TimelineAssumption`: `TypeCorrect`, `IndexIsExact`
(`IndexExact`), `SeenIsShown` (`SeenExact`), `EchoesGoAway` (`NoGhost`),
`NothingIsMissing` (`NothingMissing`) and `CountsStayBounded` (`CountBounded`). Every
operation either adds rows at an end, drops rows and rebuilds the index, or
replaces one row in place; the lemmas say for each what becomes of the set of
shown ids (`Changed`), and the invariant (exact index, seen ids equal to shown
events, echoes only of open requests) follows from that set alone; so does that
nothing is missing, since what leaves the set is dropped at the cap. The counts need
the rows: the replies of two parts of the list add up (`CountJoined`), so what an
operation adds to a count it adds to the replies shown, and what it takes from the
replies is in `lost` or `doubled`. `Known` says that an echo says what its event will
say, so a replacement changes no replies. An earlier form of `CountBounded` excused
each dropped reply once; it is false, since a reply that is fetched again is
counted again (`timeline_state.cpp:145-152`) and can be dropped again, hence the
variable `lost`, which counts how often.

`RoomList_proofs`, from `RoomListAssumption`: `TypeCorrect`, `IndexIsExact`
(`IndexExact`), `ViewShowsList` (`ViewFollows`) and `ListShowsLatest`
(`ListIsCurrent`). The first three are inductive together: that
the index is exact gives the row of a merge its name, so the merge keeps it exact.
Insertion and removal renumber the rows from one place on; two lemmas say that the
rows before keep their numbers. `ListIsCurrent` speaks only of rooms without a call
under way; its invariant says of the others what the calls will leave behind: of all
calls for a room the last one agrees with the last response (`Promise`), and a hidden
room has no row (`Current`).

`OlmKeys_proofs`: `SharedFlagIsHonest` (`SharedIsHonest`), from no assumption on the
constants. Every step but the switch of account is `Honest`: it sets a
flag only from another one or together with the device keys at the server, which
are never taken back. From `OlmKeysAssumption`, `TypeCorrect`, `PoolStaysUsable`
(`PoolUsable`) and `FallbackStaysUsable` (`FallbackUsable`). The types need that the
ids of the list fall (so that marking and dropping keep it in order) and that an
upload can be put in order, for which a lemma counts ranks. The other two are about
states without a recorded cause (`CalmInv`): one thread uploads at a time, what is not
marked as published is in that upload, and the newest keys of the list are the pool of
the server and, newer than it, what is about to be uploaded (`Backed`), so a refill, which
adds only as many keys as the list holds beyond the count, pushes no key of the pool out.
Between an upload and its save the saved account may lag behind (`Saved`): a
crash there is one of the causes.

Every invariant and action property of a passing run is proved. Model-checked only:
liveness (`EveryRequestSettles`, `StopReturnsUnlessLost`, the progress of
`ImplementsMailbox`, `BothFinish`, `Refilled`), which is outside this prover. No module
declares a RECURSIVE operator and nothing is proved by induction over data.

## Findings

The four violation runs are findings; `PROJECT.json` gives line and quotation.

Further divergences seen while modelling, without a run of their own:

Room keys

* `decryptor.cpp:221` says that a received session satisfies any pending
  request; a session that arrives between the look-up of `decryptMegolmEvent` and
  the insertion (`decryptor.cpp:1645`) leaves a request for a key that is there.
  It ends through its retries (`EveryRequestSettles`).
* `decryptor.hpp:77` says that a session whose retries are exhausted must never
  be re-requested; `resendAllPendingRequests` (`decryptor.cpp:1748-1785`) asks
  for every entry. `AttemptsBounded` allows one attempt per sweep for it.
* `decryptor.hpp:77-80` says the same of a session that gave up, but
  `forceNewOlmSession` (`decryptor.cpp:2427-2438`) resets the attempts of every
  entry of the sender, the exhausted ones too, and may do so every ten minutes without
  limit: the escape of `EveryRequestSettles`.
* `decryptor.cpp:2161` speaks of "this room+session"; the match at 2171 ignores
  the session, so the requests of other sessions go too. `KeepsAsking` excuses
  them through `forgotten`.
* `sync_engine.cpp:1209` does not save an empty request map, so answered
  requests return after a restart; `EveryRequestSettles` shows that they end.
* `decryptor.hpp:197` ties the flag to the current outbound session;
  `markRoomKeyShared` (`decryptor.cpp:1011`) may run after a rotation, and
  `sync_engine.cpp:531` sets it after a share with the members of one response
  only. These are the two excuses of `FlagSetHonestly`.
* `shareRoomKey` returns true as soon as one device was served
  (`decryptor.cpp:1545-1553`), and the flag then stops every further share of the session:
  a member in `missed` gets the key only by asking for it. A message
  to a device whose key did not verify is sent on that key when the drain budget
  is spent (`decryptor.cpp:1297-1331`); the model counts its receiver as missed.
* `shareRoomKey` reads the session's id and key under two locks
  (`decryptor.cpp:1048`) and can pair those of two sessions; `TornIsRetired`
  shows that the id is then no longer used.
* `shareRoomKey` returns when no key was claimed (`decryptor.cpp:1379`), before
  the pass that reuses cached sessions (1467): a share whose devices all
  have one claims nothing, reaches nobody and reports a failure.
* `sendOlmToDevice` claims a key (`decryptor.cpp:2302`) before it looks for a
  session to reuse, though `decryptor.hpp:309` promises one key per device.

Sync engine

* `resume()` has the same lost wake-up as `stop()`; `start()` after an
  authentication error without a `stop()` assigns over a joinable thread
  (`SyncControl` ends in "aborted"), and `start()` while the dying worker still
  has `running_` set is ignored.
* the retried sync (`sync_engine.cpp:190-197`) neither handles nor saves what it
  received.

Own keys

* `reset()` and `create()` keep the shared flag (`olm_account.cpp:72-80`), so an
  account that is created after a switch may never upload its device keys
  (the cause "switch" of `SharedIsHonest`).
* the login thread and the sync loop may upload at once, each by its own count
  (`sync_engine.cpp:710`), and a crash between an accepted upload and the save of the account loses the
  private halves (`sync_engine.cpp:816`): the causes of `PoolUsable`. The runs reach
  both; the code does not prevent them, so nothing is claimed of the pool after
  them but that it is refilled.
* `sync_engine.cpp:812` says that a failed upload is retried by the automatic
  refresh; with a pool that is full enough nothing retries the device keys.
* The fallback upload stops for ever after five without an acknowledgement
  (`sync_engine.cpp:361-379`).
* Marking keys as published before a refill also marks a fallback key that was
  never uploaded, and the other way round (`sync_engine.cpp:735-740,1404-1409`); after an upload that failed
  `FallbackUsable` therefore claims nothing.
* A refill to 100 (`sync_engine.cpp:727`) makes libolm drop the oldest keys, among
  them keys that a peer has claimed and whose first message is under way.

Timeline and room list

* `myReactionId` holds the event of whoever reacted last
  (`timeline_state.cpp:237,269`), not one's own (`engine_types.hpp:17`).
* Batches and pages count reactions as replies, which appendBack excludes
  (`timeline_state.cpp:68`); a removed reply echo leaves the count doubled, and a
  reply that is dropped at the cap and fetched again is counted again: the excuses
  of `CountBounded`; replaceEcho reports Appended when the row was
  refused as a duplicate.
* `upsertRoom` never merges `highlightCount`, `typingUsers`, `isDirect` and
  `parentId`, and takes `isEncrypted` and the fallback name of a response that
  carries no state (`room_state.cpp:10-52`, `sync_applier.cpp:177-182`).
* "sorted insert" (`room_state.hpp:21`): a merge does not move the row, so the list
  is sorted only until a row changes its time.
* An update is prepared with the room that is open when the response comes
  (`sync_applier.cpp:190`) and applied when another may be.

Elsewhere

* `session_store.cpp:231` runs the DELETE of `activateAccount` without its
  parameter; that the account becomes current rests on the re-insert.
* Pinning a message reads the state, changes it and writes it back
  (`matrix_client.cpp:688`): two clients lose each other's pin.
* A failed request is taken to mean that the room is not encrypted
  (`matrix_client.cpp:809`).

## Plan

Done: the modules above, in the order of what would hurt users most (lost keys,
lost messages, stuck threads, wrong trust, dead one-time keys, a timeline or a
list that shows the wrong thing). What is left, in this order:

1. Abstract specifications, with the step-by-step proof that they are implemented:
   "both or neither trust" for `Verification`; a pool of keys that are handed out once
   for `OlmKeys`.
2. `KeyBackup`: the dirty flag against sessions that arrive during an upload
   (`sync_engine.cpp:913`).
3. The share markers of joins (`sync_engine.cpp:452`), composed with `KeySharing`.
4. `ThreadPool`: submit against shutdown; the read-modify-write calls of the client.

## Not modelled

Cryptographic primitives and encodings (an Olm or Megolm session is a name, a
mac verifies if both sides know each other's keys), JSON, HTTP details beyond
success and failure, logging, several accounts at once, several verifications
at once, foreign clients as verification peers, cross-signing uploads, SQLite,
and the vendored code under `native/`.

The core (`src/core`) is about 10,700 lines of the repository's 136,000; the rest is
vendored under `native/` and serves other applications, or is tests. The models cover
the parts of the core that keep state between calls. `matrix_client.cpp`, the
largest file without a model, builds requests and parses answers; the parsers and
the cryptography compute values from their arguments.
