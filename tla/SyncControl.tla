----------------------------- MODULE SyncControl -----------------------------
(***************************************************************************)
(* The life cycle of the SyncEngine: start/stop/pause/resume on the UI     *)
(* thread, run() on the worker thread.  They share running_ and paused_    *)
(* (atomics) and the condition variable cv_; the UI notifies cv_ without   *)
(* holding mtx_.  One step per access to shared state, per HTTP request    *)
(* and per callback.                                                       *)
(***************************************************************************)
EXTENDS Naturals

CONSTANTS
    Ops,          \* UI calls enabled in this instance
    MaxFailures,  \* 3: M_UNKNOWN_TOKEN replies before the engine gives up
    MaxOps        \* bound: UI calls

AllOps == {"start", "stop", "pause", "resume"}

ASSUME SyncControlAssumption ==
    /\ Ops \subseteq AllOps
    /\ MaxFailures \in Nat \ {0}
    /\ MaxOps \in Nat

VARIABLES
    running, paused,  \* the atomics
    wpc,              \* the worker's step; "none" when there is no thread
    failures,         \* tokenFailures
    upc,              \* the UI thread's step
    joinable,         \* worker_.joinable()
    state,            \* last state given to stateCb_
    authErrs,         \* authErrCb_ calls of this worker thread
    emitted,          \* syncCb_ calls since pause() was called, while paused
    ops,              \* UI calls made
    stopped           \* history: stop() has returned and start() was not called since

vars == <<running, paused, wpc, failures, upc, joinable, state, authErrs, emitted, ops, stopped>>
ui   == <<upc, joinable, ops, stopped>>

WorkerSteps == {"none", "gate", "blocking", "waiting", "check", "request", "retry", "refresh",
                "authErr", "die", "backoff", "process", "save", "emit", "keys", "exit", "done"}

TypeOK ==
    /\ running \in BOOLEAN /\ paused \in BOOLEAN
    /\ wpc \in WorkerSteps
    /\ failures \in 0..MaxFailures
    /\ upc \in {"idle", "spawn", "stopNotify", "join", "pauseNotify", "resumeNotify", "aborted"}
    /\ joinable \in BOOLEAN
    /\ state \in {"Stopped", "Running", "Backoff"}
    /\ authErrs \in Nat /\ emitted \in Nat /\ ops \in 0..MaxOps
    /\ stopped \in BOOLEAN

Init ==
    /\ running = FALSE /\ paused = FALSE
    /\ wpc = "none" /\ failures = 0
    /\ upc = "idle" /\ joinable = FALSE
    /\ state = "Stopped" /\ authErrs = 0 /\ emitted = 0 /\ ops = 0
    /\ stopped = FALSE

Call(op) == /\ upc = "idle" /\ op \in Ops /\ ops < MaxOps
            /\ ops' = ops + 1

\* notify_all wakes the worker only if it already blocks in the wait.
Notify == wpc' = IF wpc = "waiting" THEN "gate" ELSE wpc
-----------------------------------------------------------------------------
(* The UI thread *)

Start ==
    /\ Call("start")
    /\ running' = TRUE                               \* running_.exchange(true)
    /\ upc' = IF running THEN "idle" ELSE "spawn"
    /\ stopped' = FALSE
    /\ UNCHANGED <<paused, wpc, failures, joinable, state, authErrs, emitted>>

\* worker_ = std::thread(...): over a joinable thread this is std::terminate,
\* which ends the process and both threads with it.
Spawn ==
    /\ upc = "spawn"
    /\ \/ /\ joinable
          /\ upc' = "aborted" /\ wpc' = "done"
          /\ UNCHANGED <<failures, joinable, state, authErrs>>
       \/ /\ ~joinable
          /\ upc' = "idle" /\ joinable' = TRUE
          /\ wpc' = "gate" /\ failures' = 0 /\ authErrs' = 0 /\ state' = "Running"
    /\ UNCHANGED <<running, paused, emitted, ops, stopped>>

Stop_EarlyReturn ==
    /\ Call("stop")
    /\ running' = FALSE                              \* running_.exchange(false)
    /\ upc' = IF running THEN "stopNotify" ELSE "idle"
    /\ stopped' = (stopped \/ ~running)
    /\ UNCHANGED <<paused, wpc, failures, joinable, state, authErrs, emitted>>

Stop ==
    /\ Call("stop")
    /\ running' = FALSE
    /\ upc' = "stopNotify"
    /\ UNCHANGED <<paused, wpc, failures, joinable, state, authErrs, emitted, stopped>>

\* Also when running_ was already FALSE: a worker that died of an
\* authentication error is still to be joined.
StopNotify ==
    /\ upc = "stopNotify"
    /\ Notify
    /\ \/ joinable /\ upc' = "join" /\ UNCHANGED stopped
       \/ ~joinable /\ upc' = "idle" /\ stopped' = TRUE
    /\ UNCHANGED <<running, paused, failures, joinable, state, authErrs, emitted, ops>>

\* join() returns when the thread has ended.
Join ==
    /\ upc = "join" /\ wpc = "done"
    /\ joinable' = FALSE
    /\ upc' = "idle" /\ stopped' = TRUE
    /\ UNCHANGED <<running, paused, wpc, failures, state, authErrs, emitted, ops>>

Pause ==
    /\ Call("pause")
    /\ paused' = TRUE
    /\ emitted' = 0
    /\ upc' = "pauseNotify"
    /\ UNCHANGED <<running, wpc, failures, joinable, state, authErrs, stopped>>

Resume ==
    /\ Call("resume")
    /\ paused' = FALSE
    /\ emitted' = 0
    /\ upc' = "resumeNotify"
    /\ UNCHANGED <<running, wpc, failures, joinable, state, authErrs, stopped>>

PauseResumeNotify ==
    /\ upc \in {"pauseNotify", "resumeNotify"}
    /\ Notify
    /\ upc' = "idle"
    /\ UNCHANGED <<running, paused, failures, joinable, state, authErrs, emitted, ops, stopped>>
-----------------------------------------------------------------------------
(* The worker thread *)

MayPass_IgnoresPause == TRUE
MayPass == ~paused \/ ~running

\* The predicate of cv_.wait; the thread blocks in a second step, so that a
\* notify between the two is lost.
Gate ==
    /\ wpc = "gate"
    /\ wpc' = IF MayPass THEN "check" ELSE "blocking"
    /\ UNCHANGED <<running, paused, failures, ui, state, authErrs, emitted>>

Block ==
    /\ wpc = "blocking"
    /\ wpc' = "waiting"
    /\ UNCHANGED <<running, paused, failures, ui, state, authErrs, emitted>>

\* Allowed by the standard, promised by nobody: no fairness.
SpuriousWakeup ==
    /\ wpc = "waiting"
    /\ wpc' = "gate"
    /\ UNCHANGED <<running, paused, failures, ui, state, authErrs, emitted>>

Check_Ignored ==
    /\ wpc = "check"
    /\ wpc' = "request"
    /\ UNCHANGED <<running, paused, failures, ui, state, authErrs, emitted>>

Check ==
    /\ wpc = "check"
    /\ wpc' = IF running THEN "request" ELSE "exit"
    /\ UNCHANGED <<running, paused, failures, ui, state, authErrs, emitted>>

LastFailure_Never == FALSE
LastFailure == failures + 1 >= MaxFailures

Request ==
    /\ wpc = "request"
    /\ \/ wpc' = "process" /\ failures' = 0 /\ UNCHANGED state
       \/ /\ failures' = failures + 1                \* M_UNKNOWN_TOKEN
          /\ IF LastFailure THEN wpc' = "authErr" /\ state' = "Stopped"
                            ELSE wpc' = "retry" /\ UNCHANGED state
       \/ wpc' = "backoff" /\ state' = "Backoff" /\ UNCHANGED failures
    /\ UNCHANGED <<running, paused, ui, authErrs, emitted>>

\* The transient check: a reply goes straight to syncCb_ and to the loop's top.
Retry ==
    /\ wpc = "retry"
    /\ \/ wpc' = "gate" /\ emitted' = IF paused THEN emitted + 1 ELSE emitted
       \/ wpc' = "refresh" /\ UNCHANGED emitted
    /\ UNCHANGED <<running, paused, failures, ui, state, authErrs>>

\* /refresh, when there is a refresh token.
Refresh ==
    /\ wpc = "refresh"
    /\ \/ wpc' = "gate" /\ UNCHANGED state
       \/ wpc' = "authErr" /\ state' = "Stopped"
    /\ UNCHANGED <<running, paused, failures, ui, authErrs, emitted>>

AuthErr_GoesOn ==
    /\ wpc = "authErr"
    /\ authErrs' = authErrs + 1
    /\ wpc' = "gate"
    /\ UNCHANGED <<running, paused, failures, ui, state, emitted>>

AuthErr ==
    /\ wpc = "authErr"
    /\ authErrs' = authErrs + 1
    /\ wpc' = "die"
    /\ UNCHANGED <<running, paused, failures, ui, state, emitted>>

Die ==
    /\ wpc = "die"
    /\ running' = FALSE
    /\ wpc' = "exit"
    /\ UNCHANGED <<paused, failures, ui, state, authErrs, emitted>>

\* wait_for times out by itself, so a lost notify only delays it.
Backoff ==
    /\ wpc = "backoff"
    /\ wpc' = "gate"
    /\ UNCHANGED <<running, paused, failures, ui, state, authErrs, emitted>>

\* Backup, key shares, to-device events, retries; then the running_ checks.
Process ==
    /\ wpc = "process"
    /\ wpc' = IF running THEN "save" ELSE "exit"
    /\ UNCHANGED <<running, paused, failures, ui, state, authErrs, emitted>>

Save ==
    /\ wpc = "save"
    /\ wpc' = IF running THEN "emit" ELSE "exit"
    /\ UNCHANGED <<running, paused, failures, ui, state, authErrs, emitted>>

Emit ==
    /\ wpc = "emit"
    /\ emitted' = IF paused THEN emitted + 1 ELSE emitted
    /\ wpc' = "keys"
    /\ UNCHANGED <<running, paused, failures, ui, state, authErrs>>

Keys ==
    /\ wpc = "keys"
    /\ \/ running /\ wpc' = "gate" /\ state' = "Running"
       \/ ~running /\ wpc' = "exit" /\ UNCHANGED state
    /\ UNCHANGED <<running, paused, failures, ui, authErrs, emitted>>

Exit ==
    /\ wpc = "exit"
    /\ state' = "Stopped"
    /\ wpc' = "done"
    /\ UNCHANGED <<running, paused, failures, ui, authErrs, emitted>>
-----------------------------------------------------------------------------
UICall == Start \/ Stop \/ Pause \/ Resume
UIStep == Spawn \/ StopNotify \/ Join \/ PauseResumeNotify

Worker ==
    \/ Gate \/ Block \/ Check \/ Request \/ Retry \/ Refresh \/ AuthErr \/ Die
    \/ Backoff \/ Process \/ Save \/ Emit \/ Keys \/ Exit

Next == UICall \/ UIStep \/ Worker \/ SpuriousWakeup

Spec == Init /\ [][Next]_vars

\* The OS schedules both threads; every request and wait has a timeout.
FairSpec == Spec /\ WF_vars(Worker) /\ WF_vars(UIStep)
-----------------------------------------------------------------------------
WorkerAlive == wpc \notin {"none", "done"}

\* Whatever the engine went through before, when stop() has returned and until
\* start() is called again there is no worker, so no callback reaches an owner
\* that is being destroyed, and no joinable thread object, whose destruction
\* would end the process (sync_engine.cpp:83-91).  A start() that does assign
\* over one follows an authentication error, never an earlier stop().
NoWorkerAfterStop ==
    /\ stopped => ~joinable /\ ~WorkerAlive
    /\ upc = "aborted" => authErrs = 1

\* A worker reports the authentication error once, and only as the last
\* thing it does: whoever was told of it sees no more syncs.
AuthErrorIsFinal ==
    /\ authErrs <= 1
    /\ authErrs = 1 => wpc \in {"die", "exit", "done"} /\ state = "Stopped"

\* pause() lets at most the iteration under way finish: one more syncCb_.
PauseQuiesces == paused /\ upc # "pauseNotify" => emitted <= 1

\* stop() returns, whatever the worker is doing, unless its notification fell
\* between the worker's test of the pause gate and its wait.
StopReturnsUnlessLost ==
    (upc = "join" /\ wpc \notin {"blocking", "waiting"}) ~> upc = "idle"

\* sync_engine.hpp:167 "Stop the loop (waits for the in-flight request to
\* finish)": stop() always returns.
StopReturns == upc = "join" ~> upc = "idle"
=============================================================================
