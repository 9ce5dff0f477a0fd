-------------------------- MODULE SyncControl_proofs --------------------------
(***************************************************************************)
(* Proofs of the safety invariants of SyncControl, for every number of UI  *)
(* calls and every limit of failures.                                      *)
(*                                                                         *)
(* PauseQuiesces is the one that needs strengthening: a second syncCb_     *)
(* call while paused is impossible because a worker that has made the      *)
(* first one cannot pass the pause gate again, and that in turn rests on   *)
(* where each thread can be while running_ is false (Control).             *)
(***************************************************************************)
EXTENDS SyncControl, TLAPS

\* Only stop() and a dying worker clear running_; nobody sets it again while
\* a worker is between the gate and its exit.
Control ==
    /\ ~running => upc \in {"stopNotify", "join"} \/ wpc \in {"none", "exit", "done"}
    /\ upc \in {"stopNotify", "join"} => ~running
    /\ upc = "spawn" => running /\ wpc \in {"none", "exit", "done"}

\* A thread object exists for as long as the worker is alive; the UI joins a
\* thread that exists, and stop() leaves none.  A thread object left behind
\* while nothing runs any more is one that died of an authentication error.
Joinable ==
    /\ ~joinable => ~WorkerAlive
    /\ stopped => ~joinable /\ upc # "spawn" /\ upc # "join"
    /\ upc \in {"idle", "spawn", "pauseNotify", "resumeNotify"} /\ joinable /\ ~running => authErrs = 1
    /\ upc = "spawn" /\ joinable => authErrs = 1
    /\ upc = "aborted" => authErrs = 1 /\ wpc = "done"
    /\ wpc = "die" => authErrs = 1

\* What a worker may do once it has emitted during a pause.
Spent ==
    paused => /\ emitted <= 1
              /\ emitted = 1 => \/ wpc \in {"keys", "gate", "blocking", "waiting",
                                            "exit", "done", "none"}
                                \/ wpc = "check" /\ ~running

Reported == wpc = "authErr" => state = "Stopped"

\* A worker that reached the limit of failures asks no more.
BelowLimit ==
    wpc \notin {"none", "authErr", "die", "exit", "done"} => failures < MaxFailures

IInv ==
    /\ TypeOK
    /\ Control
    /\ Joinable
    /\ Spent
    /\ Reported
    /\ BelowLimit
    /\ AuthErrorIsFinal
-----------------------------------------------------------------------------
LEMMA InitInv == Init => IInv
  <1> SUFFICES ASSUME Init
               PROVE  IInv
    OBVIOUS
  <1> USE DEF Init
  <1>1. TypeOK
    <2>1. failures \in 0..MaxFailures /\ ops \in 0..MaxOps /\ authErrs \in Nat /\ emitted \in Nat
      BY SyncControlAssumption
    <2>2. wpc \in WorkerSteps
      BY DEF WorkerSteps
    <2>3. running \in BOOLEAN /\ paused \in BOOLEAN /\ joinable \in BOOLEAN /\ stopped \in BOOLEAN
      OBVIOUS
    <2> QED
      BY <2>1, <2>2, <2>3 DEF TypeOK
  <1>2. Control
    BY DEF Control
  <1>3. Joinable
    BY DEF Joinable, WorkerAlive
  <1>4. Spent
    BY DEF Spent
  <1>5. Reported /\ BelowLimit /\ AuthErrorIsFinal
    BY DEF Reported, BelowLimit, AuthErrorIsFinal
  <1> QED
    BY <1>1, <1>2, <1>3, <1>4, <1>5 DEF IInv

\* The steps of the UI thread.
LEMMA UIInv == IInv /\ (UICall \/ UIStep) => IInv'
  <1> SUFFICES ASSUME IInv, UICall \/ UIStep
               PROVE  IInv'
    OBVIOUS
  <1> USE SyncControlAssumption
      DEF IInv, TypeOK, WorkerSteps, Control, Joinable, WorkerAlive, Spent, Reported,
          BelowLimit, AuthErrorIsFinal
  <1>1. CASE Start
    <2> USE <1>1 DEF Start, Call
    <2>1. running' \in BOOLEAN /\ paused' \in BOOLEAN /\ joinable' \in BOOLEAN /\ stopped' \in BOOLEAN
      OBVIOUS
    <2>2. failures' \in 0..MaxFailures /\ authErrs' \in Nat /\ emitted' \in Nat /\ ops' \in 0..MaxOps
      OBVIOUS
    <2>3. TypeOK'
      BY <2>1, <2>2
    <2>4. Control' /\ Spent' /\ Reported' /\ BelowLimit' /\ AuthErrorIsFinal'
      OBVIOUS
    <2>5. Joinable'
      OBVIOUS
    <2> QED
      BY <2>3, <2>4, <2>5
  <1>2. CASE Stop
    <2> USE <1>2 DEF Stop, Call
    <2>1. running' \in BOOLEAN /\ paused' \in BOOLEAN /\ joinable' \in BOOLEAN /\ stopped' \in BOOLEAN
      OBVIOUS
    <2>2. failures' \in 0..MaxFailures /\ authErrs' \in Nat /\ emitted' \in Nat /\ ops' \in 0..MaxOps
      OBVIOUS
    <2>3. TypeOK'
      BY <2>1, <2>2
    <2>4. Control' /\ Joinable' /\ Spent' /\ Reported' /\ BelowLimit' /\ AuthErrorIsFinal'
      OBVIOUS
    <2> QED
      BY <2>3, <2>4
  <1>3. CASE Pause
    BY <1>3 DEF Pause, Call
  <1>4. CASE Resume
    <2> USE <1>4 DEF Resume, Call
    <2>1. running' \in BOOLEAN /\ paused' \in BOOLEAN /\ joinable' \in BOOLEAN /\ stopped' \in BOOLEAN
      OBVIOUS
    <2>2. failures' \in 0..MaxFailures /\ authErrs' \in Nat /\ emitted' \in Nat /\ ops' \in 0..MaxOps
      OBVIOUS
    <2>3. TypeOK'
      BY <2>1, <2>2
    <2>4. Control' /\ Joinable' /\ Spent' /\ Reported' /\ BelowLimit' /\ AuthErrorIsFinal'
      OBVIOUS
    <2> QED
      BY <2>3, <2>4
  <1>5. CASE Spawn
    <2> USE <1>5 DEF Spawn
    <2>1. running' \in BOOLEAN /\ paused' \in BOOLEAN /\ joinable' \in BOOLEAN /\ stopped' \in BOOLEAN
      OBVIOUS
    <2>2. failures' \in 0..MaxFailures /\ authErrs' \in Nat /\ emitted' \in Nat /\ ops' \in 0..MaxOps
      OBVIOUS
    <2>3. TypeOK'
      BY <2>1, <2>2
    <2>4. Control' /\ Joinable' /\ Spent' /\ Reported' /\ BelowLimit' /\ AuthErrorIsFinal'
      OBVIOUS
    <2> QED
      BY <2>3, <2>4
  <1>6. CASE StopNotify
    <2> USE <1>6 DEF StopNotify, Notify
    <2>1. running' \in BOOLEAN /\ paused' \in BOOLEAN /\ joinable' \in BOOLEAN /\ stopped' \in BOOLEAN
      OBVIOUS
    <2>2. failures' \in 0..MaxFailures /\ authErrs' \in Nat /\ emitted' \in Nat /\ ops' \in 0..MaxOps
      OBVIOUS
    <2>3. TypeOK'
      BY <2>1, <2>2
    <2>4. Control' /\ Spent' /\ Reported' /\ BelowLimit' /\ AuthErrorIsFinal'
      OBVIOUS
    <2>5. Joinable'
      OBVIOUS
    <2> QED
      BY <2>3, <2>4, <2>5
  <1>7. CASE Join
    <2> USE <1>7 DEF Join
    <2>1. running' \in BOOLEAN /\ paused' \in BOOLEAN /\ joinable' \in BOOLEAN /\ stopped' \in BOOLEAN
      OBVIOUS
    <2>2. failures' \in 0..MaxFailures /\ authErrs' \in Nat /\ emitted' \in Nat /\ ops' \in 0..MaxOps
      OBVIOUS
    <2>3. TypeOK'
      BY <2>1, <2>2
    <2>4. Control' /\ Spent' /\ Reported' /\ BelowLimit' /\ AuthErrorIsFinal'
      OBVIOUS
    <2>5. Joinable'
      OBVIOUS
    <2> QED
      BY <2>3, <2>4, <2>5
  <1>8. CASE PauseResumeNotify
    BY <1>8 DEF PauseResumeNotify, Notify
  <1> QED
    BY <1>1, <1>2, <1>3, <1>4, <1>5, <1>6, <1>7, <1>8 DEF UICall, UIStep

\* The steps of the worker up to the response of a sync request.
LEMMA RequestInv ==
    IInv /\ (Gate \/ Block \/ SpuriousWakeup \/ Check \/ Request \/ Retry \/ Refresh \/ Backoff)
        => IInv'
  <1> SUFFICES ASSUME IInv,
                      Gate \/ Block \/ SpuriousWakeup \/ Check \/ Request \/ Retry
                        \/ Refresh \/ Backoff
               PROVE  IInv'
    OBVIOUS
  <1> USE SyncControlAssumption
      DEF IInv, TypeOK, WorkerSteps, Control, Joinable, WorkerAlive, Spent, Reported,
          BelowLimit, AuthErrorIsFinal, ui
  <1>1. CASE Gate
    BY <1>1 DEF Gate, MayPass
  <1>2. CASE Block
    BY <1>2 DEF Block
  <1>3. CASE SpuriousWakeup
    BY <1>3 DEF SpuriousWakeup
  <1>4. CASE Check
    BY <1>4 DEF Check
  <1>5. CASE Request
    <2> USE <1>5 DEF Request, LastFailure
    <2>1. running' \in BOOLEAN /\ paused' \in BOOLEAN /\ joinable' \in BOOLEAN /\ stopped' \in BOOLEAN
      OBVIOUS
    <2>2. failures' \in 0..MaxFailures /\ authErrs' \in Nat /\ emitted' \in Nat /\ ops' \in 0..MaxOps
      OBVIOUS
    <2>3. TypeOK'
      BY <2>1, <2>2
    <2>4. Control' /\ Joinable' /\ Spent' /\ Reported' /\ BelowLimit' /\ AuthErrorIsFinal'
      OBVIOUS
    <2> QED
      BY <2>3, <2>4
  <1>6. CASE Retry
    BY <1>6 DEF Retry
  <1>7. CASE Refresh
    BY <1>7 DEF Refresh
  <1>8. CASE Backoff
    BY <1>8 DEF Backoff
  <1> QED
    BY <1>1, <1>2, <1>3, <1>4, <1>5, <1>6, <1>7, <1>8

\* The steps of the worker after a response or an authentication error.
LEMMA ResponseInv ==
    IInv /\ (AuthErr \/ Die \/ Process \/ Save \/ Emit \/ Keys \/ Exit) => IInv'
  <1> SUFFICES ASSUME IInv, AuthErr \/ Die \/ Process \/ Save \/ Emit \/ Keys \/ Exit
               PROVE  IInv'
    OBVIOUS
  <1> USE SyncControlAssumption
      DEF IInv, TypeOK, WorkerSteps, Control, Joinable, WorkerAlive, Spent, Reported,
          BelowLimit, AuthErrorIsFinal, ui
  <1>1. CASE AuthErr
    BY <1>1 DEF AuthErr
  <1>2. CASE Die
    BY <1>2 DEF Die
  <1>3. CASE Process
    BY <1>3 DEF Process
  <1>4. CASE Save
    BY <1>4 DEF Save
  <1>5. CASE Emit
    BY <1>5 DEF Emit
  <1>6. CASE Keys
    BY <1>6 DEF Keys
  <1>7. CASE Exit
    BY <1>7 DEF Exit
  <1> QED
    BY <1>1, <1>2, <1>3, <1>4, <1>5, <1>6, <1>7

\* The strengthened invariant holds in every reachable state.
THEOREM Invariance == Spec => []IInv
  <1>1. IInv /\ UNCHANGED vars => IInv'
    BY DEF IInv, TypeOK, Control, Joinable, WorkerAlive, Spent, Reported, BelowLimit, AuthErrorIsFinal,
          vars
  <1>2. IInv /\ [Next]_vars => IInv'
    BY <1>1, UIInv, RequestInv, ResponseInv DEF Next, Worker
  <1> QED
    BY InitInv, <1>2, PTL DEF Spec

\* Every variable keeps its type (SyncEngine's atomics, counters and the two
\* program counters).
THEOREM TypeCorrect == Spec => []TypeOK
  BY Invariance, PTL DEF IInv

\* Whatever ended the loop, when stop() has returned and until the next start()
\* neither a live worker nor a thread that was not joined is left, and only a
\* start() after an authentication error assigns over one (sync_engine.cpp:83-91).
THEOREM NoWorkerIsLeft == Spec => []NoWorkerAfterStop
  <1>1. IInv => NoWorkerAfterStop
    BY DEF IInv, Joinable, NoWorkerAfterStop
  <1> QED
    BY Invariance, <1>1, PTL

\* authErrCb_ is called once per worker, as the last thing it does
\* (sync_engine.cpp:160-247).
THEOREM AuthErrorOnce == Spec => []AuthErrorIsFinal
  BY Invariance, PTL DEF IInv

\* While the engine is paused at most one more response reaches syncCb_
\* (sync_engine.cpp:93-96, 122-127).
THEOREM PauseHolds == Spec => []PauseQuiesces
  <1>1. IInv => PauseQuiesces
    BY DEF IInv, TypeOK, Spent, PauseQuiesces
  <1> QED
    BY Invariance, <1>1, PTL
===============================================================================
