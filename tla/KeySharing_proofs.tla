-------------------------- MODULE KeySharing_proofs --------------------------
(***************************************************************************)
(* Proofs about KeySharing, for any number of members, threads, sessions   *)
(* and one-time keys, and whatever operations and failures are enabled.    *)
(***************************************************************************)
EXTENDS KeySharing, FiniteSetTheorems, TLAPS

\* Threads that have been given a session and have not yet encrypted.
Sending == {t \in Threads : pc[t] # "idle" /\ job[t].op = "send"}

\* Only a send gets to the steps before and after a share.
SendSteps == \A t \in Threads : pc[t] \in {"decide", "encrypt"} => job[t].op = "send"

\* Session numbers are given out in order, and a new one is unused.
Fresh ==
    /\ cur <= created
    /\ \A s \in Ids : s > created => used[s] = 0
    /\ cur # 0 => used[cur] = count

\* Each thread on its way to encrypt has a message to add to the session.
Pending == cur # 0 => count + Cardinality(Sending) <= RotateAfter + Cardinality(Threads) - 1

IInv == TypeOK /\ SendSteps /\ Fresh /\ Pending /\ RotationBound
-----------------------------------------------------------------------------
(* Type correctness. *)

LEMMA ConstantFacts ==
    /\ MaxSession \in Nat \ {0} /\ RotateAfter \in Nat \ {0} /\ Drain \in Nat
    /\ Otks \in [Members -> Nat] /\ Stale \in [Members -> Nat] /\ IsFiniteSet(Threads)
    /\ 0 \in Ids /\ Ids \subseteq Nat
  BY KeySharingAssumption DEF Ids

JobType ==
    [op : AllOps, id : Ids, key : Ids, to : SUBSET Members, out : SUBSET Members,
     claims : SUBSET Members, todo : SUBSET Members, stale : SUBSET Members,
     at : SUBSET Members, tries : Nat]

LEMMA NoJobType == NoJob \in JobType /\ NoJob.op = "send"
  BY ConstantFacts DEF NoJob, JobType, AllOps

LEMMA JobTyped == TypeOK => job \in [Threads -> JobType] /\ pc \in [Threads -> Steps]
  BY DEF TypeOK, JobType

LEMMA InitType == Init => TypeOK
  <1> SUFFICES ASSUME Init PROVE TypeOK  OBVIOUS
  <1>1. NoJob \in JobType  BY NoJobType
  <1>2. pc \in [Threads -> Steps] /\ job \in [Threads -> JobType]
    BY <1>1 DEF Init, Steps
  <1>3. taken \in [Threads -> [Members -> Nat]]
    <2>1. [m \in Members |-> 0] \in [Members -> Nat]  OBVIOUS
    <2> QED  BY <2>1 DEF Init
  <1>4. otk \in [Members -> Nat] /\ \A m \in Members : otk[m] <= Otks[m]
    BY ConstantFacts DEF Init
  <1>5. /\ cur \in Ids /\ created \in Ids /\ count \in Nat /\ flag \in BOOLEAN
        /\ used \in [Ids -> Nat]
        /\ covered \subseteq Members /\ missed \subseteq Members
        /\ window \subseteq Members /\ cached \subseteq Members
    BY ConstantFacts DEF Init
  <1> QED  BY <1>2, <1>3, <1>4, <1>5 DEF TypeOK, JobType

\* Where a thread goes, and what it leaves to the others.
LEMMA GotoOthers ==
    ASSUME TypeOK, NEW t \in Threads, NEW step, Goto(t, step)
    PROVE  pc'[t] = step /\ \A u \in Threads \ {t} : pc'[u] = pc[u]
  BY DEF TypeOK, Goto

LEMMA EndOthers ==
    ASSUME TypeOK, NEW t \in Threads, AfterShare(t) \/ Finish(t)
    PROVE  /\ pc'[t] \in {"idle", "encrypt"} /\ job'[t] = NoJob
           /\ \A u \in Threads \ {t} : pc'[u] = pc[u] /\ job'[u] = job[u]
  BY DEF TypeOK, AfterShare, Finish, Goto

\* What the invariant asks of the threads after a step.
Threading ==
    /\ pc' \in [Threads -> Steps] /\ job' \in [Threads -> JobType]
    /\ Sending' \subseteq Sending
    /\ SendSteps'

LEMMA FinishType ==
    ASSUME TypeOK, SendSteps, NEW t \in Threads, Finish(t)
    PROVE  Threading /\ t \notin Sending'
  <1>1. /\ pc' = [pc EXCEPT ![t] = "idle"] /\ job' = [job EXCEPT ![t] = NoJob]
        /\ "idle" \in Steps
    BY DEF Finish, Steps
  <1>2. pc' \in [Threads -> Steps] /\ job' \in [Threads -> JobType]
    BY <1>1, NoJobType, JobTyped
  <1> QED  BY <1>1, <1>2, NoJobType, JobTyped DEF Threading, Sending, SendSteps

LEMMA AfterShareType ==
    ASSUME TypeOK, SendSteps, NEW t \in Threads, pc[t] # "idle", AfterShare(t)
    PROVE  Threading
  <1>1. /\ pc' = [pc EXCEPT ![t] = IF job[t].op = "send" THEN "encrypt" ELSE "idle"]
        /\ job' = [job EXCEPT ![t] = NoJob] /\ {"idle", "encrypt"} \subseteq Steps
    BY DEF AfterShare, Goto, Steps
  <1>2. pc' \in [Threads -> Steps] /\ job' \in [Threads -> JobType]
    BY <1>1, NoJobType, JobTyped
  <1> QED  BY <1>1, <1>2, NoJobType, JobTyped DEF Threading, Sending, SendSteps

\* A thread that moves on within its operation.
LEMMA MoveType ==
    ASSUME TypeOK, SendSteps, NEW t \in Threads, pc[t] # "idle",
           NEW step \in Steps \ {"decide", "encrypt"}, Goto(t, step),
           NEW j \in JobType, job' = [job EXCEPT ![t] = j], j.op = job[t].op
    PROVE  Threading
  <1>1. pc' = [pc EXCEPT ![t] = step]  BY DEF Goto
  <1>2. pc' \in [Threads -> Steps] /\ job' \in [Threads -> JobType]
    BY <1>1, JobTyped
  <1> QED  BY <1>1, <1>2, JobTyped DEF Threading, Sending, SendSteps

\* A thread that moves on with the same job.
LEMMA StepType ==
    ASSUME TypeOK, SendSteps, NEW t \in Threads, pc[t] # "idle",
           NEW step \in Steps \ {"decide", "encrypt"}, Goto(t, step), job' = job
    PROVE  Threading
  <1>1. job[t] \in JobType /\ job' = [job EXCEPT ![t] = job[t]]
    BY JobTyped
  <1> QED  BY <1>1, MoveType

\* A thread that starts something other than a message.
LEMMA StartType ==
    ASSUME TypeOK, SendSteps, NEW t \in Threads, pc[t] = "idle",
           NEW step \in Steps \ {"decide", "encrypt"}, Goto(t, step),
           NEW j \in JobType, j.op # "send", job' = [job EXCEPT ![t] = j]
    PROVE  Threading
  <1>1. pc' = [pc EXCEPT ![t] = step]  BY DEF Goto
  <1>2. pc' \in [Threads -> Steps] /\ job' \in [Threads -> JobType]
    BY <1>1, JobTyped
  <1> QED  BY <1>1, <1>2, JobTyped DEF Threading, Sending, SendSteps

\* What the steps between the session's creation and its use keep.
Quiet ==
    /\ UNCHANGED <<cur, created, count, used>>
    /\ Sending' \subseteq Sending
    /\ SendSteps'

\* The type of the one-time keys and of the history of the claims.
OlmType ==
    /\ otk \in [Members -> Nat] /\ \A m \in Members : otk[m] <= Otks[m]
    /\ window \subseteq Members /\ cached \subseteq Members
    /\ taken \in [Threads -> [Members -> Nat]]

LEMMA TakeType ==
    ASSUME OlmType, NEW S \in SUBSET Members, \A m \in S : otk[m] > 0, Take(S)
    PROVE  otk' \in [Members -> Nat] /\ \A m \in Members : otk'[m] <= Otks[m]
  <1>1. \A m \in Members : otk'[m] = IF m \in S THEN otk[m] - 1 ELSE otk[m]
    BY DEF Take
  <1>2. \A m \in Members : otk[m] \in Nat /\ otk[m] <= Otks[m] /\ Otks[m] \in Nat
    BY ConstantFacts DEF OlmType
  <1>3. \A m \in Members : otk'[m] \in Nat /\ otk'[m] <= Otks[m]
    BY <1>1, <1>2
  <1> QED  BY <1>3 DEF Take

LEMMA CountedType ==
    ASSUME OlmType, NEW t \in Threads, NEW S \in SUBSET Members, Counted(t, S)
    PROVE  /\ taken' \in [Threads -> [Members -> Nat]]
           /\ taken'[t] = [m \in Members |-> IF m \in S THEN taken[t][m] + 1 ELSE taken[t][m]]
           /\ \A u \in Threads \ {t} : taken'[u] = taken[u]
  <1> DEFINE n == [m \in Members |-> IF m \in S THEN taken[t][m] + 1 ELSE taken[t][m]]
  <1>1. taken' = [taken EXCEPT ![t] = n]  BY DEF Counted
  <1>2. n \in [Members -> Nat]
    <2>1. \A m \in Members : taken[t][m] \in Nat  BY DEF OlmType
    <2> QED  BY <2>1
  <1> HIDE DEF n
  <1>3. taken \in [Threads -> [Members -> Nat]]  BY DEF OlmType
  <1>4. /\ taken' \in [Threads -> [Members -> Nat]] /\ taken'[t] = n
        /\ \A u \in Threads \ {t} : taken'[u] = taken[u]
    BY <1>1, <1>2, <1>3
  <1> QED  BY <1>4 DEF n

\* The rest of the type, when the threads' part of it is known.
LEMMA RoomType ==
    ASSUME TypeOK, UNCHANGED room, UNCHANGED sent, OlmType', Threading
    PROVE  TypeOK' /\ Quiet
  BY DEF TypeOK, OlmType, room, sent, JobType, Threading, Quiet

LEMMA OlmTyped ==
    TypeOK => OlmType /\ (UNCHANGED olm => OlmType')
  BY DEF TypeOK, OlmType, olm

LEMMA DecideQuiet ==
    ASSUME TypeOK, SendSteps, NEW t \in Threads, Decide(t)
    PROVE  TypeOK' /\ Quiet
  <1>1. pc[t] = "decide" /\ (AfterShare(t) \/ (Goto(t, "share") /\ job' = job))  BY DEF Decide
  <1>2. Threading  BY <1>1, AfterShareType, StepType DEF Steps
  <1> QED  BY <1>2, OlmTyped, RoomType DEF Decide

LEMMA StartShareQuiet ==
    ASSUME TypeOK, SendSteps, NEW t \in Threads, NEW what \in {"join", "devices"}, NEW to \in SUBSET Members,
           StartShare(t, what, to)
    PROVE  TypeOK' /\ Quiet
  <1> DEFINE j == [NoJob EXCEPT !.op = what, !.to = to]
  <1>1. j \in JobType /\ j.op # "send"
    BY ConstantFacts DEF NoJob, JobType, AllOps
  <1>2. pc[t] = "idle" /\ Goto(t, "share") /\ job' = [job EXCEPT ![t] = j]
    BY DEF StartShare
  <1> HIDE DEF j
  <1>3. Threading  BY <1>1, <1>2, StartType DEF Steps
  <1> QED  BY <1>3, OlmTyped, RoomType DEF StartShare

\* The job that the query leaves to the claim.
LEMMA ChooseType ==
    ASSUME NEW j \in JobType, NEW seen \in SUBSET Members
    PROVE  /\ Choose(j, seen) \in JobType /\ Choose(j, seen).op = j.op
           /\ Choose(j, seen).id = j.id /\ Choose(j, seen).key = j.key
           /\ Choose(j, seen).claims = ToClaim(seen)
  <1>1. /\ (j.to \ seen) \cup ((seen \cap window) \ cached) \in SUBSET Members
        /\ ToClaim(seen) \in SUBSET Members
    BY DEF JobType, ToClaim
  <1> QED  BY <1>1 DEF Choose, JobType

LEMMA ReadQuiet ==
    ASSUME TypeOK, SendSteps, NEW t \in Threads, HasSession(t) \/ ReadId(t) \/ ReadKey(t) \/ Query(t)
    PROVE  TypeOK' /\ Quiet
  <1>0. job[t] \in JobType /\ cur \in Ids  BY JobTyped DEF TypeOK
  <1>1. pc[t] # "idle" /\ UNCHANGED room /\ UNCHANGED sent /\ UNCHANGED olm
    BY DEF HasSession, ReadId, ReadKey, Query
  <1>2. Threading
    <2>1. CASE AfterShare(t)  BY <1>1, <2>1, AfterShareType
    <2>2. CASE Goto(t, "readId") /\ job' = job  BY <1>1, <2>2, StepType DEF Steps
    <2>3. CASE Goto(t, "readKey") /\ job' = [job EXCEPT ![t].id = cur]
      <3> DEFINE j == [job[t] EXCEPT !.id = cur]
      <3>1. j \in JobType /\ j.op = job[t].op  BY <1>0 DEF JobType
      <3>2. job' = [job EXCEPT ![t] = j]  BY <2>3
      <3> HIDE DEF j
      <3> QED  BY <1>1, <2>3, <3>1, <3>2, MoveType DEF Steps
    <2>4. CASE Goto(t, "query") /\ job' = [job EXCEPT ![t].key = cur]
      <3> DEFINE j == [job[t] EXCEPT !.key = cur]
      <3>1. j \in JobType /\ j.op = job[t].op  BY <1>0 DEF JobType
      <3>2. job' = [job EXCEPT ![t] = j]  BY <2>4
      <3> HIDE DEF j
      <3> QED  BY <1>1, <2>4, <3>1, <3>2, MoveType DEF Steps
    <2>5. ASSUME NEW seen \in SUBSET job[t].to, Goto(t, "claim"),
                 job' = [job EXCEPT ![t] = Choose(@, seen)]
          PROVE  Threading
      <3>1. seen \in SUBSET Members  BY <1>0 DEF JobType
      <3>2. Choose(job[t], seen) \in JobType /\ Choose(job[t], seen).op = job[t].op
        BY <1>0, <3>1, ChooseType
      <3>3. job' = [job EXCEPT ![t] = Choose(job[t], seen)]  BY <2>5
      <3> QED  BY <1>1, <2>5, <3>2, <3>3, MoveType DEF Steps
    <2> QED  BY <2>1, <2>2, <2>3, <2>4, <2>5 DEF HasSession, ReadId, ReadKey, Query
  <1> QED  BY <1>1, <1>2, OlmTyped, RoomType

\* A share goes on to the next key, or to the sending.
LookedJob(t, todo, stale, at, tries) ==
    [job[t] EXCEPT !.todo = todo, !.stale = stale, !.at = at, !.tries = tries]

LEMMA LookedStep ==
    ASSUME TypeOK, NEW t \in Threads, NEW todo, NEW stale, NEW at, NEW tries,
           Looked(t, todo, stale, at, tries)
    PROVE  /\ job' = [job EXCEPT ![t] = LookedJob(t, todo, stale, at, tries)]
           /\ \/ at # {} /\ Goto(t, "drain")
              \/ at = {} /\ todo # {} /\ Goto(t, "note")
              \/ at = {} /\ todo = {} /\ Goto(t, "put")
  <1>1. job \in [Threads -> JobType]  BY JobTyped
  <1>2. job' = [job EXCEPT ![t].todo = todo, ![t].stale = stale, ![t].at = at, ![t].tries = tries]
    BY DEF Looked
  <1>3. job' = [job EXCEPT ![t] = LookedJob(t, todo, stale, at, tries)]
    BY <1>1, <1>2 DEF LookedJob
  <1>4. Goto(t, IF at # {} THEN "drain" ELSE IF todo # {} THEN "note" ELSE "put")
    BY DEF Looked
  <1>5. CASE at # {}  BY <1>3, <1>4, <1>5
  <1>6. CASE at = {} /\ todo # {}  BY <1>3, <1>4, <1>6
  <1>7. CASE at = {} /\ todo = {}  BY <1>3, <1>4, <1>7
  <1> QED  BY <1>5, <1>6, <1>7

LEMMA LookedJobType ==
    ASSUME TypeOK, NEW t \in Threads, NEW todo \in SUBSET Members, NEW stale \in SUBSET Members,
           NEW at \in SUBSET Members, NEW tries \in Nat
    PROVE  LET j == LookedJob(t, todo, stale, at, tries)
           IN  /\ j \in JobType /\ j.op = job[t].op /\ j.id = job[t].id /\ j.key = job[t].key
               /\ j.todo = todo /\ j.stale = stale /\ j.at = at /\ j.tries = tries
  <1>1. job[t] \in JobType  BY JobTyped
  <1> QED  BY <1>1 DEF LookedJob, JobType

LEMMA LookedType ==
    ASSUME TypeOK, SendSteps, NEW t \in Threads, pc[t] # "idle", NEW todo \in SUBSET Members,
           NEW stale \in SUBSET Members, NEW at \in SUBSET Members, NEW tries \in Nat,
           Looked(t, todo, stale, at, tries)
    PROVE  Threading
  <1> DEFINE j == LookedJob(t, todo, stale, at, tries)
  <1>1. /\ job' = [job EXCEPT ![t] = j]
        /\ Goto(t, "drain") \/ Goto(t, "note") \/ Goto(t, "put")
    BY LookedStep
  <1>2. j \in JobType /\ j.op = job[t].op  BY LookedJobType
  <1> HIDE DEF j
  <1> QED  BY <1>1, <1>2, MoveType DEF Steps

\* What a claim that yields the keys of got does to the job of its share.
ClaimJob(t, got) ==
    [job[t] EXCEPT !.out = @ \cup (job[t].claims \ got), !.claims = got, !.todo = got,
                   !.stale = {m \in got : NextIsStale(m)}]

LEMMA ClaimStep ==
    ASSUME TypeOK, NEW t \in Threads, Claim(t)
    PROVE  LET got == Claimable(t)
           IN  \/ AfterShare(t) /\ UNCHANGED olm
               \/ /\ Take(got) /\ Counted(t, got) /\ UNCHANGED <<window, cached>>
                  /\ \/ AfterShare(t) /\ got = {}
                     \/ Goto(t, "note") /\ job' = [job EXCEPT ![t] = ClaimJob(t, got)]
  <1>1. job \in [Threads -> JobType]  BY JobTyped
  <1> DEFINE got == Claimable(t)
             stale == {m \in got : NextIsStale(m)}
             out == job[t].out \cup (job[t].claims \ got)
  <1>2. CASE job' = [job EXCEPT ![t].out = @ \cup (job[t].claims \ got), ![t].claims = got,
                                ![t].todo = got, ![t].stale = stale]
    <2> HIDE DEF got, stale
    <2>1. job' = [job EXCEPT ![t] = [job[t] EXCEPT !.out = @ \cup (job[t].claims \ got),
                                     !.claims = got, !.todo = got, !.stale = stale]]
      BY <1>1, <1>2 DEF JobType
    <2>2. job' = [job EXCEPT ![t] = ClaimJob(t, got)]  BY <2>1 DEF ClaimJob, stale
    <2> QED  BY <2>2 DEF Claim, got
  <1> QED  BY <1>2 DEF Claim

LEMMA ClaimJobType ==
    ASSUME TypeOK, NEW t \in Threads
    PROVE  /\ Claimable(t) \in SUBSET Members /\ \A m \in Claimable(t) : otk[m] > 0
           /\ ClaimJob(t, Claimable(t)) \in JobType
           /\ ClaimJob(t, Claimable(t)).op = job[t].op
           /\ ClaimJob(t, Claimable(t)).id = job[t].id /\ ClaimJob(t, Claimable(t)).key = job[t].key
           /\ ClaimJob(t, Claimable(t)).claims = Claimable(t)
           /\ ClaimJob(t, Claimable(t)).todo = Claimable(t)
           /\ ClaimJob(t, Claimable(t)).stale = {m \in Claimable(t) : NextIsStale(m)}
  <1>1. job[t] \in JobType  BY JobTyped
  <1>2. Claimable(t) \in SUBSET Members /\ \A m \in Claimable(t) : otk[m] > 0
    BY <1>1 DEF JobType, Claimable
  <1> DEFINE got == Claimable(t)
             stale == {m \in got : NextIsStale(m)}
             out == job[t].out \cup (job[t].claims \ got)
  <1>3. stale \in SUBSET Members /\ out \in SUBSET Members  BY <1>1, <1>2 DEF JobType
  <1>4. ClaimJob(t, got) = [job[t] EXCEPT !.out = out, !.claims = got, !.todo = got, !.stale = stale]
    BY DEF ClaimJob
  <1>5. got \in SUBSET Members  BY <1>2
  <1> HIDE DEF got, stale, out
  <1>6. /\ ClaimJob(t, got) \in JobType /\ ClaimJob(t, got).op = job[t].op
        /\ ClaimJob(t, got).id = job[t].id /\ ClaimJob(t, got).key = job[t].key
        /\ ClaimJob(t, got).claims = got /\ ClaimJob(t, got).todo = got
        /\ ClaimJob(t, got).stale = stale
    BY <1>1, <1>3, <1>4, <1>5 DEF JobType
  <1> QED  BY <1>2, <1>6 DEF got, stale

LEMMA ClaimQuiet ==
    ASSUME TypeOK, SendSteps, NEW t \in Threads, Claim(t)
    PROVE  TypeOK' /\ Quiet
  <1>1. pc[t] = "claim" /\ UNCHANGED room /\ UNCHANGED sent  BY DEF Claim
  <1>2. Threading
    <2>1. CASE AfterShare(t)  BY <1>1, <2>1, AfterShareType
    <2>2. CASE Goto(t, "note") /\ job' = [job EXCEPT ![t] = ClaimJob(t, Claimable(t))]
      BY <1>1, <2>2, ClaimJobType, MoveType DEF Steps
    <2> QED  BY <2>1, <2>2, ClaimStep
  <1>3. OlmType'
    <2>1. CASE UNCHANGED olm  BY <2>1, OlmTyped
    <2>2. CASE Take(Claimable(t)) /\ Counted(t, Claimable(t)) /\ UNCHANGED <<window, cached>>
      BY <2>2, OlmTyped, ClaimJobType, TakeType, CountedType DEF OlmType
    <2> QED  BY <2>1, <2>2, ClaimStep
  <1> QED  BY <1>1, <1>2, <1>3, RoomType

LEMMA NoteQuiet ==
    ASSUME TypeOK, SendSteps, NEW t \in Threads, NEW m \in Members, Note(t, m)
    PROVE  TypeOK' /\ Quiet
  <1>1. /\ pc[t] = "note" /\ UNCHANGED <<room, sent, otk, cached, taken>>
        /\ window' = window \cup {m}
    BY DEF Note
  <1>2. \E at \in SUBSET Members : Looked(t, job[t].todo \ {m}, job[t].stale, at, 0)
    BY DEF Note
  <1>3. job[t].todo \ {m} \in SUBSET Members /\ job[t].stale \in SUBSET Members
    BY JobTyped DEF JobType
  <1>4. Threading  BY <1>1, <1>2, <1>3, LookedType
  <1>5. OlmType'  BY <1>1, OlmTyped DEF OlmType
  <1> QED  BY <1>1, <1>4, <1>5, RoomType

LEMMA DrainQuiet ==
    ASSUME TypeOK, SendSteps, NEW t \in Threads, NEW m \in Members, DrainStep(t, m)
    PROVE  TypeOK' /\ Quiet
  <1>1. pc[t] = "drain" /\ UNCHANGED <<room, sent, window, cached>>  BY DEF DrainStep
  <1>2. \E stale \in {job[t].stale, job[t].stale \ {m}}, at \in SUBSET {m}, tries \in {0, job[t].tries + 1} :
           Looked(t, job[t].todo, stale, at, tries)
    BY DEF DrainStep
  <1>3. /\ job[t].todo \in SUBSET Members /\ job[t].stale \in SUBSET Members
        /\ job[t].stale \ {m} \in SUBSET Members /\ job[t].tries + 1 \in Nat
    BY JobTyped DEF JobType
  <1>4. Threading
    <2>1. PICK stale \in SUBSET Members, at \in SUBSET Members, tries \in Nat :
             Looked(t, job[t].todo, stale, at, tries)
      BY <1>2, <1>3
    <2> QED  BY <1>1, <1>3, <2>1, LookedType
  <1>5. OlmType'
    <2>1. CASE UNCHANGED <<otk, taken>>  BY <1>1, <2>1, OlmTyped DEF OlmType
    <2>2. CASE otk[m] > 0 /\ Take({m}) /\ Counted(t, {m} \cap window)
      <3>1. {m} \in SUBSET Members /\ {m} \cap window \in SUBSET Members  OBVIOUS
      <3> QED  BY <1>1, <2>2, <3>1, OlmTyped, TakeType, CountedType DEF OlmType
    <2> QED  BY <2>1, <2>2 DEF DrainStep
  <1> QED  BY <1>1, <1>4, <1>5, RoomType

\* Whom a PUT reached and whom it missed, as Put states it.
LEMMA PutStep ==
    ASSUME TypeOK, NEW t \in Threads, Put(t)
    PROVE  /\ pc[t] = "put" /\ UNCHANGED <<room, otk, window, taken>>
           /\ cached' \subseteq cached
           /\ \/ AfterShare(t) /\ UNCHANGED sent
              \/ /\ \E bad \in SUBSET job[t].claims, dead \in SUBSET (job[t].to \cap cached) :
                       Delivered(job[t], job[t].claims \ bad,
                                 (job[t].to \cap cached) \ ((job[t].claims \ bad) \cup dead),
                                 bad \cup dead)
                 /\ \/ Finish(t)
                    \/ Goto(t, "mark") /\ job' = [job EXCEPT ![t] = ToMark(job[t])]
  BY DEF Put

LEMMA ToMarkType ==
    ASSUME NEW j \in JobType
    PROVE  /\ ToMark(j) \in JobType /\ ToMark(j).op = j.op
           /\ ToMark(j).id = j.id /\ ToMark(j).to = j.to \cup j.out /\ ToMark(j).key = 0
  BY ConstantFacts DEF ToMark, NoJob, JobType

LEMMA DeliveredType ==
    ASSUME TypeOK, NEW j \in JobType, NEW fresh \in SUBSET Members, NEW reused \in SUBSET Members,
           NEW failed \in SUBSET Members, Delivered(j, fresh, reused, failed)
    PROVE  /\ covered' \subseteq Members /\ missed' \subseteq Members
           /\ covered \cup missed \subseteq covered' \cup missed'
  <1>1. CASE j.id # cur \/ j.key # cur  BY <1>1 DEF Delivered, sent, TypeOK
  <1>2. CASE ~(j.id # cur \/ j.key # cur)
    <2> DEFINE dropped == (j.to \ (j.out \cup j.claims)) \ cached
    <2>1. /\ covered' = covered \cup (fresh \ j.stale) \cup reused
          /\ missed' = (missed \cup j.out \cup failed \cup dropped \cup j.stale) \ covered'
      BY <1>2 DEF Delivered
    <2>2. j.out \subseteq Members /\ j.stale \subseteq Members /\ dropped \subseteq Members
      BY DEF JobType
    <2> HIDE DEF dropped
    <2> QED  BY <2>1, <2>2 DEF TypeOK
  <1> QED  BY <1>1, <1>2

LEMMA PutSent ==
    ASSUME TypeOK, NEW t \in Threads, Put(t)
    PROVE  /\ covered' \subseteq Members /\ missed' \subseteq Members
           /\ covered \cup missed \subseteq covered' \cup missed'
  <1>1. CASE UNCHANGED sent  BY <1>1 DEF sent, TypeOK
  <1>2. ASSUME NEW bad \in SUBSET job[t].claims, NEW dead \in SUBSET (job[t].to \cap cached),
               Delivered(job[t], job[t].claims \ bad,
                         (job[t].to \cap cached) \ ((job[t].claims \ bad) \cup dead), bad \cup dead)
        PROVE  /\ covered' \subseteq Members /\ missed' \subseteq Members
               /\ covered \cup missed \subseteq covered' \cup missed'
    <2>1. job[t] \in JobType  BY JobTyped
    <2>2. /\ job[t].claims \ bad \in SUBSET Members /\ bad \cup dead \in SUBSET Members
          /\ (job[t].to \cap cached) \ ((job[t].claims \ bad) \cup dead) \in SUBSET Members
      BY <2>1 DEF JobType
    <2> QED  BY <1>2, <2>1, <2>2, DeliveredType
  <1> QED  BY <1>1, <1>2, PutStep

LEMMA PutQuiet ==
    ASSUME TypeOK, SendSteps, NEW t \in Threads, Put(t)
    PROVE  TypeOK' /\ Quiet
  <1>1. /\ pc[t] = "put" /\ UNCHANGED <<room, otk, window, taken>> /\ cached' \subseteq cached
        /\ \/ AfterShare(t) \/ Finish(t)
           \/ Goto(t, "mark") /\ job' = [job EXCEPT ![t] = ToMark(job[t])]
    BY PutStep
  <1>2. Threading
    <2>1. CASE AfterShare(t)  BY <1>1, <2>1, AfterShareType
    <2>2. CASE Finish(t)  BY <2>2, FinishType
    <2>3. CASE Goto(t, "mark") /\ job' = [job EXCEPT ![t] = ToMark(job[t])]
      BY <1>1, <2>3, JobTyped, ToMarkType, MoveType DEF Steps
    <2> QED  BY <1>1, <2>1, <2>2, <2>3
  <1>3. OlmType'  BY <1>1, OlmTyped DEF OlmType
  <1>4. covered' \subseteq Members /\ missed' \subseteq Members  BY PutSent
  <1> QED  BY <1>1, <1>2, <1>3, <1>4 DEF TypeOK, OlmType, room, JobType, Threading, Quiet

LEMMA MarkQuiet ==
    ASSUME TypeOK, SendSteps, NEW t \in Threads, Mark(t)
    PROVE  TypeOK' /\ Quiet
  <1>1. Threading /\ OlmType'  BY AfterShareType, OlmTyped DEF Mark
  <1> QED  BY <1>1 DEF Mark, TypeOK, OlmType, sent, JobType, Threading, Quiet

\* sendOlmToDevice leaves the room's session alone.
LEMMA AttemptStep ==
    ASSUME TypeOK, NEW t \in Threads, NEW j \in JobType, NEW m \in Members, OlmAttempt(t, j, m)
    PROVE  /\ UNCHANGED room /\ UNCHANGED sent /\ UNCHANGED taken
           /\ OlmType' /\ window \subseteq window'
           /\ \/ Finish(t)
              \/ \E step \in {"olmPut", "olmClaim"}, i \in JobType :
                    Goto(t, step) /\ job' = [job EXCEPT ![t] = i] /\ i.op = j.op /\ i.id = j.id
  <1>1. UNCHANGED <<room, sent, cached, taken>> /\ window' = window \cup {m}  BY DEF OlmAttempt
  <1>2. OlmType'
    <2>1. CASE UNCHANGED otk  BY <1>1, <2>1, OlmTyped DEF OlmType
    <2>2. CASE otk[m] > 0 /\ Take({m})
      BY <1>1, <2>2, OlmTyped, TakeType DEF OlmType
    <2> QED  BY <2>1, <2>2 DEF OlmAttempt
  <1>3. \/ Finish(t)
        \/ Goto(t, "olmPut") /\ job' = [job EXCEPT ![t] = [j EXCEPT !.tries = 0]]
        \/ Goto(t, "olmClaim") /\ job' = [job EXCEPT ![t] = [j EXCEPT !.tries = @ + 1]]
    BY DEF OlmAttempt
  <1>4. /\ [j EXCEPT !.tries = 0] \in JobType /\ [j EXCEPT !.tries = 0].op = j.op
        /\ [j EXCEPT !.tries = 0].id = j.id
    BY DEF JobType
  <1>5. /\ [j EXCEPT !.tries = @ + 1] \in JobType /\ [j EXCEPT !.tries = @ + 1].op = j.op
        /\ [j EXCEPT !.tries = @ + 1].id = j.id
    BY DEF JobType
  <1>6. \/ Finish(t)
        \/ \E step \in {"olmPut", "olmClaim"}, i \in JobType :
              Goto(t, step) /\ job' = [job EXCEPT ![t] = i] /\ i.op = j.op /\ i.id = j.id
    BY <1>3, <1>4, <1>5
  <1> QED  BY <1>1, <1>2, <1>6

LEMMA OlmClaimQuiet ==
    ASSUME TypeOK, SendSteps, NEW t \in Threads, NEW what \in {"olm", "fresh"}, NEW m \in Members,
           OlmClaim(t, what, m)
    PROVE  TypeOK' /\ Quiet
  <1> DEFINE j == [NoJob EXCEPT !.op = what, !.to = {m}]
  <1>1. j \in JobType /\ j.op # "send"
    BY ConstantFacts DEF NoJob, JobType, AllOps
  <1>2. pc[t] = "idle" /\ OlmAttempt(t, j, m)  BY DEF OlmClaim
  <1> HIDE DEF j
  <1>3. Threading
    BY <1>1, <1>2, AttemptStep, FinishType, StartType DEF Steps
  <1> QED  BY <1>1, <1>2, <1>3, AttemptStep, RoomType

LEMMA OlmClaimAgainQuiet ==
    ASSUME TypeOK, SendSteps, NEW t \in Threads, NEW m \in Members, OlmClaimAgain(t, m)
    PROVE  TypeOK' /\ Quiet
  <1>1. job[t] \in JobType  BY JobTyped
  <1>2. pc[t] = "olmClaim" /\ OlmAttempt(t, job[t], m)  BY DEF OlmClaimAgain
  <1>3. Threading
    BY <1>1, <1>2, AttemptStep, FinishType, MoveType DEF Steps
  <1> QED  BY <1>1, <1>2, <1>3, AttemptStep, RoomType

LEMMA OlmPutQuiet ==
    ASSUME TypeOK, SendSteps, NEW t \in Threads, OlmReuse(t) \/ OlmNew(t)
    PROVE  TypeOK' /\ Quiet
  <1>1. pc[t] # "idle" /\ UNCHANGED <<room, sent, otk, window, taken>>
    BY DEF OlmReuse, OlmNew
  <1>2. Threading
    BY <1>1, FinishType, StepType DEF OlmReuse, OlmNew, Steps
  <1>3. cached' \subseteq Members
    <2>1. job[t].to \subseteq Members  BY JobTyped DEF JobType
    <2> QED  BY <2>1 DEF OlmReuse, OlmNew, TypeOK
  <1>4. OlmType'  BY <1>1, <1>3, OlmTyped DEF OlmType
  <1> QED  BY <1>1, <1>2, <1>4, RoomType

LEMMA WindowEndsQuiet ==
    ASSUME TypeOK, SendSteps, NEW m \in Members, WindowEnds(m)
    PROVE  TypeOK' /\ Quiet
  <1>1. /\ UNCHANGED <<room, sent, otk, cached, pc, job>> /\ window' = window \ {m}
        /\ taken' = [t \in Threads |-> [taken[t] EXCEPT ![m] = 0]]
    BY DEF WindowEnds
  <1>2. taken' \in [Threads -> [Members -> Nat]]
    <2>1. \A t \in Threads : [taken[t] EXCEPT ![m] = 0] \in [Members -> Nat]
      BY DEF TypeOK
    <2> QED  BY <1>1, <2>1
  <1>3. OlmType'  BY <1>1, <1>2, OlmTyped DEF OlmType
  <1>4. Threading  BY <1>1, JobTyped DEF Threading, Sending, SendSteps
  <1> QED  BY <1>1, <1>3, <1>4, RoomType
-----------------------------------------------------------------------------
(* The rotation of the session. *)

\* Fewer threads on their way to encrypt are not more than before.
LEMMA SendingSize ==
    /\ IsFiniteSet(Sending) /\ Cardinality(Sending) \in Nat
    /\ Cardinality(Threads) \in Nat /\ Cardinality(Sending) <= Cardinality(Threads)
  <1>1. Sending \in SUBSET Threads  BY DEF Sending
  <1> QED  BY <1>1, ConstantFacts, FS_Subset, FS_CardinalityType

LEMMA SendingSizeNext ==
    /\ IsFiniteSet(Sending') /\ Cardinality(Sending') \in Nat
    /\ Cardinality(Sending') <= Cardinality(Threads)
  <1>1. Sending' \in SUBSET Threads  BY DEF Sending
  <1> QED  BY <1>1, ConstantFacts, FS_Subset, FS_CardinalityType

LEMMA InitIInv == Init => IInv
  <1> SUFFICES ASSUME Init PROVE IInv  OBVIOUS
  <1>1. TypeOK  BY InitType
  <1>2. SendSteps /\ Fresh /\ Pending  BY ConstantFacts DEF Init, SendSteps, Fresh, Pending
  <1>3. RotationBound
    BY SendingSize, ConstantFacts DEF Init, RotationBound
  <1> QED  BY <1>1, <1>2, <1>3 DEF IInv

\* A quiet step keeps the bound: nothing is encrypted, nobody is added.
LEMMA QuietIInv ==
    ASSUME IInv, TypeOK', Quiet
    PROVE  IInv'
  <1>1. SendSteps' /\ Fresh' /\ RotationBound'
    BY DEF IInv, Quiet, Fresh, RotationBound
  <1>2. Cardinality(Sending') <= Cardinality(Sending)
    BY SendingSize, FS_Subset DEF Quiet
  <1>3. count \in Nat  BY DEF IInv, TypeOK
  <1>4. Pending'
    BY <1>2, <1>3, SendingSize, SendingSizeNext, ConstantFacts DEF IInv, Quiet, Pending
  <1> QED  BY <1>1, <1>4 DEF IInv

\* A sender takes the session only below its period, or a new one.
LEMMA GetOrCreateIInv ==
    ASSUME IInv, NEW t \in Threads, GetOrCreate(t)
    PROVE  IInv'
  <1> DEFINE j == [NoJob EXCEPT !.to = Members]
  <1>0. j \in JobType /\ j.op = "send"
    BY ConstantFacts DEF NoJob, JobType, AllOps
  <1>1. pc' = [pc EXCEPT ![t] = "decide"] /\ job' = [job EXCEPT ![t] = j] /\ "decide" \in Steps
    BY DEF GetOrCreate, Goto, Steps
  <1> HIDE DEF j
  <1>t. TypeOK /\ job \in [Threads -> JobType] /\ pc \in [Threads -> Steps] /\ SendSteps
    BY JobTyped DEF IInv
  <1>2. pc' \in [Threads -> Steps] /\ job' \in [Threads -> JobType]
    BY <1>0, <1>1, <1>t
  <1>3. SendSteps'
    BY <1>0, <1>1, <1>2, <1>t DEF SendSteps
  <1>4. UNCHANGED <<used, otk, window, cached, taken>> /\ OlmType'
    BY <1>t, OlmTyped DEF GetOrCreate, olm
  <1>5. CASE cur # 0 /\ ~RotationDue /\ UNCHANGED <<cur, created, count, flag, sent>>
    <2>1. TypeOK'  BY <1>2, <1>4, <1>5, <1>t DEF TypeOK, OlmType, JobType, sent
    <2>2. Fresh' /\ RotationBound'
      BY <1>4, <1>5 DEF IInv, Fresh, RotationBound
    <2>3. count + 1 <= RotateAfter /\ count \in Nat
      BY <1>5, ConstantFacts DEF RotationDue, IInv, TypeOK
    <2>4. Pending'
      BY <1>5, <2>3, SendingSize, SendingSizeNext, ConstantFacts DEF Pending
    <2> QED  BY <1>3, <2>1, <2>2, <2>4 DEF IInv
  <1>6. CASE NewSession
    <2>1. /\ created < MaxSession /\ created' = created + 1 /\ cur' = created + 1
          /\ count' = 0 /\ covered' = {} /\ missed' = {} /\ flag' = FALSE
      BY <1>6 DEF NewSession
    <2>2. created \in Nat /\ created + 1 \in Ids
      BY <2>1, ConstantFacts DEF IInv, TypeOK, Ids
    <2>3. TypeOK'
      BY <1>2, <1>4, <1>t, <2>1, <2>2 DEF TypeOK, OlmType, JobType
    <2>4. Fresh'
      <3>1. \A s \in Ids : s > created => used[s] = 0  BY DEF IInv, Fresh
      <3>2. \A s \in Ids : s > created + 1 => s > created  BY <2>2, ConstantFacts
      <3>3. used[created + 1] = 0  BY <2>2, <3>1
      <3> QED  BY <1>4, <2>1, <2>2, <3>1, <3>2, <3>3 DEF Fresh
    <2>5. RotationBound'  BY <1>4 DEF IInv, RotationBound
    <2>6. Pending'
      BY <2>1, SendingSize, SendingSizeNext, ConstantFacts DEF Pending
    <2> QED  BY <1>3, <2>3, <2>4, <2>5, <2>6 DEF IInv
  <1> QED  BY <1>5, <1>6 DEF GetOrCreate

\* Each message encrypted takes one thread off the way.
LEMMA EncryptIInv ==
    ASSUME IInv, NEW t \in Threads, Encrypt(t)
    PROVE  IInv'
  <1>1. /\ pc[t] = "encrypt" /\ Finish(t) /\ job[t].op = "send"
        /\ UNCHANGED <<cur, created, flag, sent, olm>>
    BY DEF Encrypt, IInv, SendSteps
  <1>2. Threading /\ t \notin Sending' /\ OlmType'
    BY <1>1, FinishType, OlmTyped DEF IInv
  <1>3. Cardinality(Sending') <= Cardinality(Sending) - 1
    <2>1. t \in Sending  BY <1>1 DEF Sending
    <2>2. Sending' \in SUBSET (Sending \ {t})  BY <1>2 DEF Threading
    <2>3. IsFiniteSet(Sending \ {t}) /\ Cardinality(Sending \ {t}) = Cardinality(Sending) - 1
      BY <2>1, SendingSize, FS_RemoveElement
    <2>4. Cardinality(Sending') <= Cardinality(Sending \ {t})
      BY <2>2, <2>3, FS_Subset
    <2> QED  BY <2>3, <2>4
  <1>t. /\ count \in Nat /\ cur \in Ids /\ created \in Ids /\ used \in [Ids -> Nat] /\ TypeOK
    BY DEF IInv, TypeOK
  <1>4. CASE cur = 0
    <2>1. UNCHANGED <<count, used>>  BY <1>4 DEF Encrypt
    <2>2. TypeOK'  BY <1>1, <1>2, <1>t, <2>1 DEF TypeOK, OlmType, JobType, sent, Threading
    <2>3. Fresh' /\ RotationBound' /\ Pending'
      BY <1>1, <1>4, <2>1 DEF IInv, Fresh, RotationBound, Pending
    <2> QED  BY <1>2, <2>2, <2>3 DEF IInv, Threading
  <1>5. CASE cur # 0
    <2>1. count' = count + 1 /\ used' = [used EXCEPT ![cur] = @ + 1]  BY <1>5 DEF Encrypt
    <2>2. TypeOK'
      <3>1. used' \in [Ids -> Nat] /\ count' \in Nat  BY <1>t, <2>1
      <3> QED  BY <1>1, <1>2, <1>t, <3>1 DEF TypeOK, OlmType, JobType, sent, Threading
    <2>3. Fresh'
      <3>1. cur <= created /\ used[cur] = count /\ \A s \in Ids : s > created => used[s] = 0
        BY <1>5 DEF IInv, Fresh
      <3>2. used'[cur] = count + 1  BY <1>t, <2>1, <3>1
      <3>3. \A s \in Ids : s > created => used'[s] = 0
        <4> SUFFICES ASSUME NEW s \in Ids, s > created PROVE used'[s] = 0  OBVIOUS
        <4>1. s # cur  BY <1>t, <3>1, ConstantFacts
        <4> QED  BY <1>t, <2>1, <3>1, <4>1
      <3> QED  BY <1>1, <2>1, <3>1, <3>2, <3>3 DEF Fresh
    <2>4. count + Cardinality(Sending) <= RotateAfter + Cardinality(Threads) - 1
      BY <1>5 DEF IInv, Pending
    <2>5. Pending'
      BY <1>1, <1>3, <1>t, <2>1, <2>4, SendingSize, SendingSizeNext, ConstantFacts DEF Pending
    <2>6. RotationBound'
      <3>1. used[cur] = count  BY <1>5 DEF IInv, Fresh
      <3>2. count + 1 <= RotateAfter + Cardinality(Threads) - 1
        BY <1>3, <1>t, <2>4, SendingSize, SendingSizeNext, ConstantFacts
      <3>3. \A s \in Ids : used'[s] = IF s = cur THEN count + 1 ELSE used[s]
        BY <1>t, <2>1, <3>1
      <3> QED  BY <3>2, <3>3 DEF IInv, RotationBound
    <2> QED  BY <1>2, <2>2, <2>3, <2>5, <2>6 DEF IInv, Threading
  <1> QED  BY <1>4, <1>5

LEMMA DropIInv ==
    ASSUME IInv, Drop
    PROVE  IInv'
  <1>1. /\ cur' = 0 /\ count' = 0 /\ covered' = {} /\ missed' = {} /\ flag' = FALSE
        /\ UNCHANGED <<created, used, olm, pc, job>>
    BY DEF Drop
  <1>2. TypeOK'  BY <1>1, ConstantFacts DEF IInv, TypeOK, olm
  <1>3. 0 <= created  BY ConstantFacts DEF IInv, TypeOK
  <1>4. SendSteps' /\ Fresh' /\ RotationBound' /\ Pending'
    BY <1>1, <1>3 DEF IInv, SendSteps, Fresh, RotationBound, Pending
  <1> QED  BY <1>2, <1>4 DEF IInv

LEMMA NextIInv == IInv /\ [Next]_vars => IInv'
  <1> SUFFICES ASSUME IInv, [Next]_vars PROVE IInv'  OBVIOUS
  <1>t. TypeOK /\ SendSteps  BY DEF IInv
  <1>1. ASSUME NEW t \in Threads, GetOrCreate(t) PROVE IInv'
    BY <1>1, GetOrCreateIInv
  <1>2. ASSUME NEW t \in Threads, Encrypt(t) PROVE IInv'
    BY <1>2, EncryptIInv
  <1>3. ASSUME NEW t \in Threads, Decide(t) PROVE IInv'
    BY <1>t, <1>3, DecideQuiet, QuietIInv
  <1>4. ASSUME NEW t \in Threads, NEW what \in {"join", "devices"}, NEW to \in SUBSET Members,
               StartShare(t, what, to)
        PROVE IInv'
    BY <1>t, <1>4, StartShareQuiet, QuietIInv
  <1>5. ASSUME NEW t \in Threads, ShareStep(t) PROVE IInv'
    BY <1>t, <1>5, ReadQuiet, ClaimQuiet, NoteQuiet, DrainQuiet, PutQuiet, MarkQuiet, QuietIInv
    DEF ShareStep
  <1>6. ASSUME NEW t \in Threads, OlmStep(t) PROVE IInv'
    BY <1>t, <1>6, OlmClaimQuiet, OlmClaimAgainQuiet, OlmPutQuiet, QuietIInv DEF OlmStep
  <1>7. ASSUME NEW m \in Members, WindowEnds(m) PROVE IInv'
    BY <1>t, <1>7, WindowEndsQuiet, QuietIInv
  <1>8. CASE Drop  BY <1>8, DropIInv
  <1>9. CASE UNCHANGED vars
    <2>1. TypeOK' /\ Quiet
      BY <1>t, <1>9 DEF vars, TypeOK, Quiet, Sending, SendSteps
    <2> QED  BY <2>1, QuietIInv
  <1> QED  BY <1>1, <1>2, <1>3, <1>4, <1>5, <1>6, <1>7, <1>8, <1>9 DEF Next

\* Each variable of the sharing keeps its type (decryptor.cpp:868-960).
THEOREM TypeCorrect == Spec => []TypeOK
  <1>1. IInv => TypeOK  BY DEF IInv
  <1> QED  BY InitIInv, NextIInv, <1>1, PTL DEF Spec

\* A session encrypts at most its period and one message for each other
\* thread, however sends, shares and drops interleave (decryptor.cpp:877, 946).
THEOREM SessionsRotate == Spec => []RotationBound
  <1>1. IInv => RotationBound  BY DEF IInv
  <1> QED  BY InitIInv, NextIInv, <1>1, PTL DEF Spec
-----------------------------------------------------------------------------
(* The flag. *)

\* What each thread's share may claim: it names a session that exists; a torn
\* one names no current session; one that is about to set the flag has reached
\* whom it was for, or missed them for a reason, if its session is still the
\* current one.
Sound(t) ==
    /\ job[t].id <= created
    /\ pc[t] \in {"query", "claim", "note", "drain", "put"} /\ job[t].id \notin {0, job[t].key}
          => job[t].id # cur
    /\ pc[t] = "mark" /\ job[t].id = cur /\ cur # 0 => job[t].to \subseteq covered \cup missed

AllSound == \A t \in Threads : Sound(t)

\* A step of thread t alone, in the same session.
StepOf(t) ==
    /\ UNCHANGED <<cur, created>> /\ covered \cup missed \subseteq covered' \cup missed'
    /\ \A u \in Threads \ {t} : pc'[u] = pc[u] /\ job'[u] = job[u]

LEMMA OthersSound ==
    ASSUME AllSound, NEW t \in Threads, StepOf(t), Sound(t)'
    PROVE  AllSound'
  BY DEF AllSound, StepOf, Sound

\* A thread that is at no step of a share that the invariant speaks of.
LEMMA CalmSound ==
    ASSUME AllSound, NEW t \in Threads, StepOf(t),
           pc'[t] \notin {"query", "claim", "note", "drain", "put", "mark"}, job'[t].id <= created
    PROVE  AllSound'
  <1>1. Sound(t)'  BY DEF StepOf, Sound
  <1> QED  BY <1>1, OthersSound

LEMMA EndSound ==
    ASSUME TypeOK, AllSound, NEW t \in Threads, Finish(t) \/ AfterShare(t),
           UNCHANGED <<cur, created>>, covered \cup missed \subseteq covered' \cup missed'
    PROVE  AllSound'
  <1>1. StepOf(t) /\ pc'[t] \in {"idle", "encrypt"} /\ job'[t].id = 0
    BY EndOthers DEF StepOf, NoJob
  <1>2. 0 <= created  BY ConstantFacts DEF TypeOK
  <1> QED  BY <1>1, <1>2, CalmSound

\* A thread at another step, with its job replaced by j.
LEMMA JobStep ==
    ASSUME TypeOK, NEW t \in Threads, NEW step, Goto(t, step), NEW j, job' = [job EXCEPT ![t] = j],
           UNCHANGED <<cur, created>>, covered \cup missed \subseteq covered' \cup missed'
    PROVE  StepOf(t) /\ pc'[t] = step /\ job'[t] = j
  BY DEF TypeOK, StepOf, Goto

\* A thread that starts: its job names no session yet.
LEMMA StartSound ==
    ASSUME TypeOK, AllSound, NEW t \in Threads,
           NEW step \in {"share", "olmClaim", "olmPut"}, Goto(t, step),
           NEW j, job' = [job EXCEPT ![t] = j], j.id <= created,
           UNCHANGED <<cur, created, sent>>
    PROVE  AllSound'
  <1>1. StepOf(t) /\ job'[t] = j /\ pc'[t] = step
    BY JobStep DEF sent
  <1> QED  BY <1>1, CalmSound

\* Within the calls of a share, neither its id nor its key is read again.
LEMMA CallSound ==
    ASSUME TypeOK, AllSound, NEW t \in Threads, pc[t] \in {"query", "claim", "note", "drain"},
           NEW step \in {"claim", "note", "drain", "put"}, Goto(t, step),
           NEW j, job' = [job EXCEPT ![t] = j], j.id = job[t].id, j.key = job[t].key,
           UNCHANGED <<cur, created, sent>>
    PROVE  AllSound'
  <1>1. StepOf(t) /\ pc'[t] = step /\ job'[t] = j
    BY JobStep DEF sent
  <1>2. Sound(t)'  BY <1>1 DEF AllSound, Sound
  <1> QED  BY <1>1, <1>2, OthersSound

\* Reading the id and the key: the key is the newer of the two.
LEMMA ReadSound ==
    ASSUME TypeOK, Fresh, AllSound, NEW t \in Threads,
           Decide(t) \/ HasSession(t) \/ ReadId(t) \/ ReadKey(t)
    PROVE  AllSound'
  <1>1. UNCHANGED <<cur, created, covered, missed>>
    BY DEF Decide, HasSession, ReadId, ReadKey, room, sent
  <1>2. CASE AfterShare(t)  BY <1>1, <1>2, EndSound
  <1>3. CASE job' = job /\ \E step \in {"share", "readId"} : Goto(t, step)
    <2>1. StepOf(t) /\ pc'[t] \in {"share", "readId"}  BY <1>1, <1>3 DEF TypeOK, StepOf, Goto
    <2>2. job'[t].id <= created  BY <1>3 DEF AllSound, Sound
    <2> QED  BY <2>1, <2>2, CalmSound
  <1>4. CASE Goto(t, "readKey") /\ job' = [job EXCEPT ![t].id = cur]
    <2>1. StepOf(t) /\ pc'[t] = "readKey" /\ job'[t].id = cur
      BY <1>1, <1>4 DEF TypeOK, StepOf, Goto
    <2>2. cur <= created  BY DEF Fresh
    <2> QED  BY <2>1, <2>2, CalmSound
  <1>5. CASE Goto(t, "query") /\ job' = [job EXCEPT ![t].key = cur]
    <2>1. StepOf(t) /\ pc'[t] = "query" /\ job'[t].id = job[t].id /\ job'[t].key = cur
      BY <1>1, <1>5 DEF TypeOK, StepOf, Goto
    <2>2. Sound(t)'  BY <1>1, <2>1 DEF AllSound, Sound
    <2> QED  BY <2>1, <2>2, OthersSound
  <1> QED  BY <1>2, <1>3, <1>4, <1>5 DEF Decide, HasSession, ReadId, ReadKey

LEMMA QuerySound ==
    ASSUME TypeOK, AllSound, NEW t \in Threads, Query(t)
    PROVE  AllSound'
  <1>1. pc[t] = "query" /\ UNCHANGED <<cur, created, sent>>  BY DEF Query, room
  <1>2. CASE AfterShare(t)  BY <1>1, <1>2, EndSound DEF sent
  <1>3. ASSUME NEW seen \in SUBSET job[t].to, Goto(t, "claim"),
               job' = [job EXCEPT ![t] = Choose(@, seen)]
        PROVE  AllSound'
    <2>1. job[t] \in JobType  BY JobTyped
    <2>2. seen \in SUBSET Members  BY <2>1 DEF JobType
    <2>3. Choose(job[t], seen).id = job[t].id /\ Choose(job[t], seen).key = job[t].key
      BY <2>1, <2>2, ChooseType
    <2>4. job' = [job EXCEPT ![t] = Choose(job[t], seen)]  BY <1>3
    <2> QED  BY <1>1, <1>3, <2>3, <2>4, CallSound
  <1> QED  BY <1>2, <1>3 DEF Query

LEMMA ClaimSound ==
    ASSUME TypeOK, AllSound, NEW t \in Threads, Claim(t)
    PROVE  AllSound'
  <1>1. pc[t] = "claim" /\ UNCHANGED <<cur, created, sent>>  BY DEF Claim, room
  <1>2. CASE AfterShare(t)  BY <1>1, <1>2, EndSound DEF sent
  <1>3. CASE Goto(t, "note") /\ job' = [job EXCEPT ![t] = ClaimJob(t, Claimable(t))]
    BY <1>1, <1>3, ClaimJobType, CallSound
  <1> QED  BY <1>2, <1>3, ClaimStep

LEMMA LookedSound ==
    ASSUME TypeOK, AllSound, NEW t \in Threads, pc[t] \in {"note", "drain"},
           NEW todo \in SUBSET Members, NEW stale \in SUBSET Members, NEW at \in SUBSET Members,
           NEW tries \in Nat, Looked(t, todo, stale, at, tries), UNCHANGED <<cur, created, sent>>
    PROVE  AllSound'
  <1> DEFINE j == LookedJob(t, todo, stale, at, tries)
  <1>1. /\ job' = [job EXCEPT ![t] = j]
        /\ Goto(t, "drain") \/ Goto(t, "note") \/ Goto(t, "put")
    BY LookedStep
  <1>2. j.id = job[t].id /\ j.key = job[t].key  BY LookedJobType
  <1> HIDE DEF j
  <1> QED  BY <1>1, <1>2, CallSound

LEMMA NoteDrainSound ==
    ASSUME TypeOK, AllSound, NEW t \in Threads, NEW m \in Members, Note(t, m) \/ DrainStep(t, m)
    PROVE  AllSound'
  <1>1. pc[t] \in {"note", "drain"} /\ UNCHANGED <<cur, created, sent>>
    BY DEF Note, DrainStep, room
  <1>2. \E todo \in {job[t].todo, job[t].todo \ {m}}, stale \in {job[t].stale, job[t].stale \ {m}},
           at \in SUBSET {m}, tries \in {0, job[t].tries + 1} : Looked(t, todo, stale, at, tries)
    BY DEF Note, DrainStep
  <1>3. /\ job[t].todo \in SUBSET Members /\ job[t].todo \ {m} \in SUBSET Members
        /\ job[t].stale \in SUBSET Members /\ job[t].stale \ {m} \in SUBSET Members
        /\ job[t].tries + 1 \in Nat
    BY JobTyped DEF JobType
  <1>4. PICK todo \in SUBSET Members, stale \in SUBSET Members, at \in SUBSET Members, tries \in Nat :
           Looked(t, todo, stale, at, tries)
    BY <1>2, <1>3
  <1> QED  BY <1>1, <1>4, LookedSound

\* A PUT for the current session reaches everybody it was for, or counts them
\* as missed.
LEMMA PutSound ==
    ASSUME TypeOK, AllSound, NEW t \in Threads, Put(t)
    PROVE  AllSound'
  <1>1. /\ pc[t] = "put" /\ UNCHANGED <<cur, created>>
        /\ covered \cup missed \subseteq covered' \cup missed'
    BY PutStep, PutSent DEF room
  <1>2. CASE AfterShare(t) \/ Finish(t)  BY <1>1, <1>2, EndSound
  <1>3. ASSUME Goto(t, "mark"), job' = [job EXCEPT ![t] = ToMark(job[t])],
               NEW bad \in SUBSET job[t].claims, NEW dead \in SUBSET (job[t].to \cap cached),
               Delivered(job[t], job[t].claims \ bad,
                         (job[t].to \cap cached) \ ((job[t].claims \ bad) \cup dead), bad \cup dead)
        PROVE  AllSound'
    <2>1. job[t] \in JobType  BY JobTyped
    <2>2. /\ ToMark(job[t]).id = job[t].id
          /\ ToMark(job[t]).to = job[t].to \cup job[t].out
      BY <2>1, ToMarkType
    <2>3. StepOf(t) /\ pc'[t] = "mark" /\ job'[t] = ToMark(job[t])
      BY <1>1, <1>3, JobStep
    <2>4. ASSUME job[t].id = cur, cur # 0
          PROVE  job[t].to \cup job[t].out \subseteq covered' \cup missed'
      <3>1. job[t].key = cur  BY <1>1, <2>4 DEF AllSound, Sound
      <3> DEFINE dropped == (job[t].to \ (job[t].out \cup job[t].claims)) \ cached
                 fresh == job[t].claims \ bad
                 reused == (job[t].to \cap cached) \ (fresh \cup dead)
      <3>2. /\ covered' = covered \cup (fresh \ job[t].stale) \cup reused
            /\ missed' = (missed \cup job[t].out \cup (bad \cup dead) \cup dropped \cup job[t].stale) \ covered'
        BY <1>3, <2>4, <3>1 DEF Delivered
      <3> QED  BY <3>2
    <2>5. Sound(t)'
      <3>1. job'[t].id <= created  BY <2>2, <2>3 DEF AllSound, Sound
      <3> QED  BY <1>1, <2>2, <2>3, <2>4, <3>1 DEF Sound
    <2> QED  BY <2>3, <2>5, OthersSound
  <1> QED  BY <1>2, <1>3, PutStep

LEMMA OlmSound ==
    ASSUME TypeOK, AllSound, NEW t \in Threads, OlmStep(t)
    PROVE  AllSound'
  <1>0. 0 <= created  BY ConstantFacts DEF TypeOK
  <1>1. ASSUME NEW j \in JobType, j.id <= created, NEW m \in Members, OlmAttempt(t, j, m)
        PROVE  AllSound'
    <2>1. UNCHANGED <<cur, created, sent>>  BY <1>1, AttemptStep DEF room
    <2>2. CASE Finish(t)  BY <2>1, <2>2, EndSound DEF sent
    <2>3. CASE \E step \in {"olmPut", "olmClaim"}, i \in JobType :
                  Goto(t, step) /\ job' = [job EXCEPT ![t] = i] /\ i.op = j.op /\ i.id = j.id
      BY <1>1, <2>1, <2>3, StartSound
    <2> QED  BY <1>1, <2>2, <2>3, AttemptStep
  <1>2. ASSUME NEW what \in {"olm", "fresh"}, NEW m \in Members, OlmClaim(t, what, m)
        PROVE  AllSound'
    <2> DEFINE j == [NoJob EXCEPT !.op = what, !.to = {m}]
    <2>1. j \in JobType /\ j.id = 0
      BY ConstantFacts DEF NoJob, JobType, AllOps
    <2>2. OlmAttempt(t, j, m)  BY <1>2 DEF OlmClaim
    <2> HIDE DEF j
    <2> QED  BY <1>0, <1>1, <2>1, <2>2
  <1>3. ASSUME NEW m \in Members, OlmClaimAgain(t, m)
        PROVE  AllSound'
    <2>1. job[t] \in JobType /\ job[t].id <= created  BY JobTyped DEF AllSound, Sound
    <2> QED  BY <1>1, <1>3, <2>1 DEF OlmClaimAgain
  <1>4. CASE OlmReuse(t) \/ OlmNew(t)
    <2>1. UNCHANGED <<cur, created, covered, missed>>  BY <1>4 DEF OlmReuse, OlmNew, room, sent
    <2>2. CASE Finish(t)  BY <2>1, <2>2, EndSound
    <2>3. CASE Goto(t, "olmNew") /\ job' = job
      <3>1. StepOf(t) /\ pc'[t] = "olmNew"  BY <2>1, <2>3 DEF TypeOK, StepOf, Goto
      <3>2. job'[t].id <= created  BY <2>3 DEF AllSound, Sound
      <3> QED  BY <3>1, <3>2, CalmSound
    <2> QED  BY <1>4, <2>2, <2>3 DEF OlmReuse, OlmNew
  <1> QED  BY <1>2, <1>3, <1>4 DEF OlmStep

\* A new session has a number that no share has read, and 0 names none.
LEMMA GetOrCreateSound ==
    ASSUME TypeOK, AllSound, NEW t \in Threads, GetOrCreate(t)
    PROVE  AllSound'
  <1>1. /\ pc' = [pc EXCEPT ![t] = "decide"]
        /\ job' = [job EXCEPT ![t] = [NoJob EXCEPT !.to = Members]]
    BY DEF GetOrCreate, Goto
  <1>2. pc'[t] = "decide" /\ job'[t].id = 0
    BY <1>1 DEF TypeOK, NoJob
  <1>3. \A u \in Threads \ {t} : pc'[u] = pc[u] /\ job'[u] = job[u]
    BY <1>1 DEF TypeOK
  <1>4. created \in Nat /\ \A u \in Threads : job[u].id \in Nat
    BY ConstantFacts DEF TypeOK
  <1>5. CASE UNCHANGED <<cur, created, sent>>
    BY <1>2, <1>3, <1>4, <1>5, CalmSound DEF StepOf, sent
  <1>6. CASE NewSession
    <2>1. created' = created + 1 /\ cur' = created + 1  BY <1>6 DEF NewSession
    <2>2. ASSUME NEW u \in Threads PROVE Sound(u)'
      <3>1. job'[u].id \in Nat /\ job'[u].id <= created
        BY <1>2, <1>3, <1>4 DEF AllSound, Sound
      <3>2. pc'[u] = "mark" => job'[u].id # cur'
        BY <1>4, <2>1, <3>1
      <3> QED  BY <1>4, <2>1, <3>1, <3>2 DEF Sound
    <2> QED  BY <2>2 DEF AllSound
  <1> QED  BY <1>5, <1>6 DEF GetOrCreate

LEMMA NextSound ==
    ASSUME TypeOK, Fresh, AllSound, [Next]_vars
    PROVE  AllSound'
  <1>1. ASSUME NEW t \in Threads, GetOrCreate(t)  PROVE AllSound'
    BY <1>1, GetOrCreateSound
  <1>2. ASSUME NEW t \in Threads, Decide(t)  PROVE AllSound'
    BY <1>2, ReadSound
  <1>3. ASSUME NEW t \in Threads, Encrypt(t)  PROVE AllSound'
    BY <1>3, EndSound DEF Encrypt, sent
  <1>4. ASSUME NEW t \in Threads, ShareStep(t)  PROVE AllSound'
    <2>1. CASE Mark(t)  BY <2>1, EndSound DEF Mark, sent
    <2> QED
      BY <1>4, <2>1, ReadSound, QuerySound, ClaimSound, NoteDrainSound, PutSound DEF ShareStep
  <1>5. ASSUME NEW t \in Threads, NEW what \in {"join", "devices"}, NEW to \in SUBSET Members,
               StartShare(t, what, to)
        PROVE  AllSound'
    <2> DEFINE j == [NoJob EXCEPT !.op = what, !.to = to]
    <2>1. j.id = 0 /\ 0 <= created  BY ConstantFacts DEF NoJob, TypeOK
    <2>2. Goto(t, "share") /\ job' = [job EXCEPT ![t] = j] /\ UNCHANGED <<cur, created, sent>>
      BY <1>5 DEF StartShare, room
    <2> HIDE DEF j
    <2> QED  BY <2>1, <2>2, StartSound
  <1>6. ASSUME NEW t \in Threads, OlmStep(t)  PROVE AllSound'
    BY <1>6, OlmSound
  <1>7. CASE Drop
    <2>1. cur' = 0 /\ UNCHANGED <<created, pc, job>>  BY <1>7 DEF Drop
    <2> QED  BY <2>1 DEF AllSound, Sound
  <1>8. CASE (\E m \in Members : WindowEnds(m)) \/ UNCHANGED vars
    BY <1>8 DEF WindowEnds, vars, room, sent, AllSound, Sound
  <1> QED  BY <1>1, <1>2, <1>3, <1>4, <1>5, <1>6, <1>7, <1>8 DEF Next

LEMMA InitSound == Init => AllSound
  BY ConstantFacts DEF Init, AllSound, Sound, NoJob

\* The inductive invariant of the shares: what each of them knows about the
\* session it names (decryptor.cpp:1011-1556).
THEOREM SharesAreSound == Spec => [](IInv /\ AllSound)
  <1>1. IInv => TypeOK /\ Fresh  BY DEF IInv
  <1>2. IInv /\ AllSound /\ [Next]_vars => (IInv /\ AllSound)'
    BY <1>1, NextIInv, NextSound
  <1> QED  BY InitIInv, InitSound, <1>2, PTL DEF Spec

\* A share that took its id and its key from different sessions names one
\* that nothing will be encrypted with (decryptor.cpp:1048).
THEOREM TornShareIsHarmless == Spec => []TornIsRetired
  <1>1. AllSound => TornIsRetired  BY DEF AllSound, Sound, TornIsRetired
  <1> QED  BY SharesAreSound, <1>1, PTL

LEMMA MarkHonest ==
    ASSUME TypeOK, AllSound, NEW t \in Threads, Mark(t), cur # 0, job[t].id = cur, job[t].to = Members
    PROVE  covered' \cup missed' = Members
  <1>1. pc[t] = "mark" /\ UNCHANGED <<cur, covered, missed>>  BY DEF Mark, sent
  <1>2. covered \cup missed \subseteq Members  BY DEF TypeOK
  <1> QED  BY <1>1, <1>2 DEF AllSound, Sound

\* Only Mark sets the flag, and only a new session, with the flag cleared,
\* takes the place of another.
LEMMA OnlyMarkSets ==
    ASSUME [Next]_vars, flag', cur' # 0, <<flag', cur'>> # <<flag, cur>>
    PROVE  \E t \in Threads : Mark(t)
  <1> SUFFICES ASSUME ~ \E t \in Threads : Mark(t)  PROVE FALSE  OBVIOUS
  <1>1. CASE UNCHANGED <<cur, flag>>  BY <1>1
  <1>2. ASSUME NEW t \in Threads, ShareStep(t)  PROVE UNCHANGED <<cur, flag>>
    <2>1. CASE HasSession(t) \/ ReadId(t) \/ ReadKey(t) \/ Query(t)
      BY <2>1 DEF HasSession, ReadId, ReadKey, Query, room
    <2>2. CASE Claim(t) \/ Put(t)  BY <2>2 DEF Claim, Put, room
    <2>3. ASSUME NEW m \in Members, Note(t, m) \/ DrainStep(t, m)  PROVE UNCHANGED <<cur, flag>>
      BY <2>3 DEF Note, DrainStep, room
    <2> QED  BY <1>2, <2>1, <2>2, <2>3 DEF ShareStep
  <1>3. ASSUME NEW t \in Threads, OlmStep(t)  PROVE UNCHANGED <<cur, flag>>
    <2>1. ASSUME NEW what, NEW m, OlmClaim(t, what, m) \/ OlmClaimAgain(t, m)
          PROVE  UNCHANGED <<cur, flag>>
      BY <2>1 DEF OlmClaim, OlmClaimAgain, OlmAttempt, room
    <2>2. CASE OlmReuse(t) \/ OlmNew(t)  BY <2>2 DEF OlmReuse, OlmNew, room
    <2> QED  BY <1>3, <2>1, <2>2 DEF OlmStep
  <1>4. ASSUME NEW t \in Threads, GetOrCreate(t)  PROVE UNCHANGED <<cur, flag>> \/ ~flag'
    BY <1>4 DEF GetOrCreate, NewSession
  <1>5. ASSUME NEW t \in Threads, Decide(t) \/ Encrypt(t)  PROVE UNCHANGED <<cur, flag>>
    BY <1>5 DEF Decide, Encrypt, room
  <1>6. ASSUME NEW t \in Threads, NEW what, NEW to, StartShare(t, what, to)
        PROVE  UNCHANGED <<cur, flag>>
    BY <1>6 DEF StartShare, room
  <1>7. CASE Drop  BY <1>7 DEF Drop
  <1>8. CASE (\E m \in Members : WindowEnds(m)) \/ UNCHANGED vars
    BY <1>8 DEF WindowEnds, room, vars
  <1> QED  BY <1>1, <1>2, <1>3, <1>4, <1>5, <1>6, <1>7, <1>8 DEF Next

\* The flag never comes to stand for a session that somebody was neither sent
\* nor left out of for a reason, unless a rotation overtook the share that set
\* it, or the share was for some members only (decryptor.cpp:1011,
\* sync_engine.cpp:530).
THEOREM FlagIsHonest == Spec => FlagSetHonestly
  <1> DEFINE Honest ==
        flag' /\ cur' # 0 /\ <<flag', cur'>> # <<flag, cur>>
          => \/ covered' \cup missed' = Members
             \/ \E t \in Threads : /\ pc[t] = "mark" /\ pc'[t] # "mark"
                                   /\ job[t].id # cur \/ job[t].to # Members
  <1>1. IInv /\ AllSound /\ [Next]_vars => [Honest]_vars
    <2> SUFFICES ASSUME IInv, AllSound, [Next]_vars, flag', cur' # 0,
                        <<flag', cur'>> # <<flag, cur>>
                 PROVE  \/ covered' \cup missed' = Members
                        \/ \E t \in Threads : /\ pc[t] = "mark" /\ pc'[t] # "mark"
                                              /\ job[t].id # cur \/ job[t].to # Members
      OBVIOUS
    <2>1. PICK t \in Threads : Mark(t)  BY OnlyMarkSets
    <2>2. TypeOK /\ cur # 0 /\ pc[t] = "mark" /\ pc'[t] # "mark"
      <3>1. TypeOK /\ pc[t] = "mark" /\ UNCHANGED <<cur, created>> /\ AfterShare(t)
        BY <2>1 DEF Mark, IInv
      <3> QED  BY <3>1, EndOthers
    <2> QED  BY <2>1, <2>2, MarkHonest
  <1> QED  BY SharesAreSound, <1>1, PTL DEF Spec, FlagSetHonestly
-----------------------------------------------------------------------------
(* The one-time keys. *)

\* What a share of thread t takes of the device m before its window ends.
Limit(m) == 1 + (IF Stale[m] = 0 THEN 0 ELSE Drain)

\* A key taken outside the window is one whose claim is about to be noted; who
\* is to be claimed for has given none; who is being drained gives old keys.
MeteredAt(t, m) ==
    /\ taken[t][m] <= Limit(m)
    /\ m \notin window /\ taken[t][m] # 0 => pc[t] \in {"note", "drain"} /\ m \in job[t].todo
    /\ pc[t] = "claim" /\ m \in job[t].claims => taken[t][m] = 0
    /\ pc[t] \in {"note", "drain"} /\ m \in job[t].todo => taken[t][m] <= 1
    /\ pc[t] \in {"note", "drain"} /\ m \in job[t].stale => Stale[m] # 0
    /\ pc[t] = "drain" /\ m \in job[t].at
          => /\ m \notin job[t].todo /\ m \in job[t].stale
             /\ job[t].tries < Drain /\ taken[t][m] <= 1 + job[t].tries

Metered(t) == \A m \in Members : MeteredAt(t, m)

AllMetered == \A t \in Threads : Metered(t)

\* What the other threads do only adds to the windows.
LEMMA OthersMetered ==
    ASSUME AllMetered, NEW t \in Threads, Metered(t)', window \subseteq window',
           \A u \in Threads \ {t} : pc'[u] = pc[u] /\ job'[u] = job[u] /\ taken'[u] = taken[u]
    PROVE  AllMetered'
  <1> SUFFICES ASSUME NEW u \in Threads, u # t, NEW m \in Members
               PROVE  MeteredAt(u, m)'
    BY DEF AllMetered, Metered
  <1>1. MeteredAt(u, m)  BY DEF AllMetered, Metered
  <1>2. pc'[u] = pc[u] /\ job'[u] = job[u] /\ taken'[u] = taken[u]  OBVIOUS
  <1> QED  BY <1>1, <1>2 DEF MeteredAt

\* A step that claims nothing, away from the notes, and not to a claim.
LEMMA CalmMetered ==
    ASSUME AllMetered, NEW t \in Threads, UNCHANGED taken, window \subseteq window',
           pc[t] \notin {"note", "drain"}, pc'[t] \notin {"claim", "note", "drain"},
           \A u \in Threads \ {t} : pc'[u] = pc[u] /\ job'[u] = job[u]
    PROVE  AllMetered'
  <1>1. ASSUME NEW m \in Members PROVE MeteredAt(t, m)'
    <2>1. MeteredAt(t, m)  BY DEF AllMetered, Metered
    <2> QED  BY <2>1 DEF MeteredAt
  <1>2. Metered(t)'  BY <1>1 DEF Metered
  <1> QED  BY <1>2, OthersMetered

LEMMA EndMetered ==
    ASSUME TypeOK, AllMetered, NEW t \in Threads, AfterShare(t) \/ Finish(t),
           pc[t] \notin {"note", "drain"}, UNCHANGED taken, window \subseteq window'
    PROVE  AllMetered'
  BY EndOthers, CalmMetered

\* Neither does a thread that moves on elsewhere.
LEMMA MoveMetered ==
    ASSUME TypeOK, AllMetered, NEW t \in Threads, NEW step, Goto(t, step),
           step \notin {"claim", "note", "drain"}, pc[t] \notin {"note", "drain"},
           NEW j, job' = [job EXCEPT ![t] = j], UNCHANGED taken, window \subseteq window'
    PROVE  AllMetered'
  <1>1. pc'[t] = step /\ \A u \in Threads \ {t} : pc'[u] = pc[u]  BY GotoOthers
  <1>2. \A u \in Threads \ {t} : job'[u] = job[u]  BY DEF TypeOK
  <1> QED  BY <1>1, <1>2, CalmMetered

LEMMA StayMetered ==
    ASSUME TypeOK, AllMetered, NEW t \in Threads, NEW step, Goto(t, step),
           step \notin {"claim", "note", "drain"}, pc[t] \notin {"note", "drain"},
           job' = job, UNCHANGED taken, window \subseteq window'
    PROVE  AllMetered'
  <1>1. pc'[t] = step /\ \A u \in Threads \ {t} : pc'[u] = pc[u]  BY GotoOthers
  <1> QED  BY <1>1, CalmMetered

\* A device outside its window has given nothing to a share that asks now.
LEMMA QueryMetered ==
    ASSUME TypeOK, AllMetered, NEW t \in Threads, Query(t)
    PROVE  AllMetered'
  <1>1. pc[t] = "query" /\ UNCHANGED <<window, taken>>  BY DEF Query, olm
  <1>2. CASE AfterShare(t)  BY <1>1, <1>2, EndMetered
  <1>3. ASSUME NEW seen \in SUBSET job[t].to, Goto(t, "claim"),
               job' = [job EXCEPT ![t] = Choose(@, seen)]
        PROVE  AllMetered'
    <2>1. job[t] \in JobType  BY JobTyped
    <2>2. Choose(job[t], seen).claims = ToClaim(seen)
      <3>1. seen \in SUBSET Members  BY <2>1 DEF JobType
      <3> QED  BY <2>1, <3>1, ChooseType
    <2>3. /\ pc'[t] = "claim" /\ job'[t] = Choose(job[t], seen)
          /\ \A u \in Threads \ {t} : pc'[u] = pc[u] /\ job'[u] = job[u]
      BY <1>3, GotoOthers DEF TypeOK
    <2>4. ASSUME NEW m \in Members PROVE MeteredAt(t, m)'
      <3>1. MeteredAt(t, m)  BY DEF AllMetered, Metered
      <3>2. m \in ToClaim(seen) => m \notin window  BY DEF ToClaim
      <3> QED  BY <1>1, <2>2, <2>3, <3>1, <3>2 DEF MeteredAt
    <2>5. Metered(t)'  BY <2>4 DEF Metered
    <2> QED  BY <1>1, <2>3, <2>5, OthersMetered
  <1> QED  BY <1>2, <1>3 DEF Query

\* An old key is next only for a device that has old keys.
LEMMA NextIsStaleFact ==
    ASSUME OlmType, NEW m \in Members, NextIsStale(m)
    PROVE  Stale[m] # 0
  <1>1. otk[m] \in Nat /\ otk[m] <= Otks[m] /\ Otks[m] \in Nat /\ Stale[m] \in Nat
    BY ConstantFacts DEF OlmType
  <1> QED  BY <1>1 DEF NextIsStale

LEMMA LimitFact == \A m \in Members : Limit(m) \in Nat /\ Limit(m) >= 1
  BY ConstantFacts DEF Limit

\* Each of the devices claimed for gives its first key.
LEMMA ClaimMetered ==
    ASSUME TypeOK, AllMetered, NEW t \in Threads, Claim(t)
    PROVE  AllMetered'
  <1> DEFINE got == Claimable(t)
  <1>0. got \in SUBSET Members /\ got \subseteq job[t].claims /\ OlmType
    <2>1. got \subseteq job[t].claims  BY DEF Claimable
    <2> QED  BY <2>1, ClaimJobType, OlmTyped
  <1>1. pc[t] = "claim"  BY DEF Claim
  <1>2. CASE AfterShare(t) /\ UNCHANGED olm  BY <1>1, <1>2, EndMetered DEF olm
  <1>3. CASE Take(got) /\ Counted(t, got) /\ UNCHANGED <<window, cached>>
    <2>0. /\ taken'[t] = [m \in Members |-> IF m \in got THEN taken[t][m] + 1 ELSE taken[t][m]]
          /\ \A u \in Threads \ {t} : taken'[u] = taken[u]
          /\ taken' \in [Threads -> [Members -> Nat]] /\ taken \in [Threads -> [Members -> Nat]]
      <3> HIDE DEF got
      <3> QED  BY <1>0, <1>3, CountedType DEF OlmType
    <2>1. CASE AfterShare(t) /\ got = {}
      <3>1. taken'[t] = taken[t]  BY <2>0, <2>1
      <3>2. UNCHANGED taken  BY <2>0, <3>1
      <3> QED  BY <1>1, <1>3, <2>1, <3>2, EndMetered
    <2>2. CASE Goto(t, "note") /\ job' = [job EXCEPT ![t] = ClaimJob(t, got)]
      <3>1. /\ pc'[t] = "note" /\ job'[t] = ClaimJob(t, got)
            /\ \A u \in Threads \ {t} : pc'[u] = pc[u] /\ job'[u] = job[u]
        BY <2>2, GotoOthers DEF TypeOK
      <3>2. ClaimJob(t, got).todo = got /\ ClaimJob(t, got).stale = {m \in got : NextIsStale(m)}
        BY ClaimJobType
      <3>3. ASSUME NEW m \in Members PROVE MeteredAt(t, m)'
        <4>1. MeteredAt(t, m) /\ taken[t][m] \in Nat  BY <2>0 DEF AllMetered, Metered
        <4>2. m \in got => taken[t][m] = 0  BY <1>0, <1>1, <4>1 DEF MeteredAt
        <4>3. taken'[t][m] = IF m \in got THEN taken[t][m] + 1 ELSE taken[t][m]  BY <2>0
        <4>4. m \in {n \in got : NextIsStale(n)} => Stale[m] # 0  BY <1>0, NextIsStaleFact
        <4>5. Limit(m) \in Nat /\ Limit(m) >= 1  BY LimitFact
        <4> HIDE DEF got
        <4> QED  BY <1>1, <1>3, <3>1, <3>2, <4>1, <4>2, <4>3, <4>4, <4>5 DEF MeteredAt, Limit
      <3>4. Metered(t)'  BY <3>3 DEF Metered
      <3> QED  BY <1>3, <2>0, <3>1, <3>4, OthersMetered
    <2> QED  BY <1>2, <2>1, <2>2, ClaimStep
  <1> QED  BY <1>2, <1>3, ClaimStep

\* Noting a device ends what the others may take of it outside its window; a
\* key that did not verify makes it the one to drain.
LEMMA NoteMetered ==
    ASSUME TypeOK, AllMetered, NEW t \in Threads, NEW n \in Members, Note(t, n)
    PROVE  AllMetered'
  <1> DEFINE at == IF n \in job[t].stale /\ Drain > 0 THEN {n} ELSE {}
             todo == job[t].todo \ {n}
             j == LookedJob(t, todo, job[t].stale, at, 0)
  <1>1. /\ pc[t] = "note" /\ n \in job[t].todo /\ window' = window \cup {n} /\ UNCHANGED taken
        /\ Looked(t, todo, job[t].stale, at, 0)
    BY DEF Note
  <1>2. todo \in SUBSET Members /\ job[t].stale \in SUBSET Members /\ at \in SUBSET Members
    BY JobTyped DEF JobType
  <1>3. /\ j.todo = todo /\ j.stale = job[t].stale /\ j.at = at /\ j.tries = 0
    BY <1>2, LookedJobType
  <1>4. at = {} \/ (at = {n} /\ n \in job[t].stale /\ Drain > 0)  OBVIOUS
  <1> HIDE DEF at, j
  <1>5. /\ job' = [job EXCEPT ![t] = j]
        /\ \/ at # {} /\ Goto(t, "drain")
           \/ at = {} /\ todo # {} /\ Goto(t, "note")
           \/ at = {} /\ todo = {} /\ Goto(t, "put")
    BY <1>1, LookedStep DEF j
  <1>6. /\ job'[t] = j /\ \A u \in Threads \ {t} : pc'[u] = pc[u] /\ job'[u] = job[u]
        /\ \/ at # {} /\ pc'[t] = "drain"
           \/ at = {} /\ todo # {} /\ pc'[t] = "note"
           \/ at = {} /\ todo = {} /\ pc'[t] = "put"
    BY <1>5, GotoOthers DEF TypeOK
  <1>7. ASSUME NEW m \in Members PROVE MeteredAt(t, m)'
    <2>1. MeteredAt(t, m) /\ taken'[t][m] = taken[t][m]  BY <1>1 DEF AllMetered, Metered
    <2>2. m \in at => m = n /\ n \in job[t].stale /\ Drain > 0  BY <1>4
    <2>3. m \in todo <=> m \in job[t].todo /\ m # n  OBVIOUS
    <2>4. 0 < Drain <=> Drain > 0  BY ConstantFacts
    <2> HIDE DEF todo
    <2> QED  BY <1>1, <1>3, <1>6, <2>1, <2>2, <2>3, <2>4 DEF MeteredAt
  <1>8. Metered(t)'  BY <1>7 DEF Metered
  <1> QED  BY <1>1, <1>6, <1>8, OthersMetered

\* Every further key of the device being drained is one of the budget.
LEMMA DrainMetered ==
    ASSUME TypeOK, AllMetered, NEW t \in Threads, NEW n \in Members, DrainStep(t, n)
    PROVE  AllMetered'
  <1>1. pc[t] = "drain" /\ n \in job[t].at /\ UNCHANGED window  BY DEF DrainStep
  <1>2. \E S \in {{}, {n} \cap window}, stale \in {job[t].stale, job[t].stale \ {n}},
           at \in {{}, {n}}, tries \in {0, job[t].tries + 1} :
              /\ Looked(t, job[t].todo, stale, at, tries)
              /\ Counted(t, S) \/ (UNCHANGED taken /\ S = {})
              /\ at = {n} => stale = job[t].stale /\ tries = job[t].tries + 1 /\ tries < Drain
    BY DEF DrainStep
  <1>3. PICK S \in {{}, {n} \cap window}, stale \in {job[t].stale, job[t].stale \ {n}},
             at \in {{}, {n}}, tries \in {0, job[t].tries + 1} :
              /\ Looked(t, job[t].todo, stale, at, tries)
              /\ Counted(t, S) \/ (UNCHANGED taken /\ S = {})
              /\ at = {n} => stale = job[t].stale /\ tries = job[t].tries + 1 /\ tries < Drain
    BY <1>2
  <1>4. /\ job[t].todo \in SUBSET Members /\ stale \in SUBSET Members /\ at \in SUBSET Members
        /\ tries \in Nat /\ job[t].tries \in Nat /\ S \in SUBSET Members
    BY JobTyped DEF JobType
  <1> DEFINE j == LookedJob(t, job[t].todo, stale, at, tries)
  <1>5. /\ j.todo = job[t].todo /\ j.stale = stale /\ j.at = at /\ j.tries = tries
    BY <1>4, LookedJobType
  <1> HIDE DEF j
  <1>6. /\ job' = [job EXCEPT ![t] = j]
        /\ \/ at # {} /\ Goto(t, "drain")
           \/ at = {} /\ job[t].todo # {} /\ Goto(t, "note")
           \/ at = {} /\ job[t].todo = {} /\ Goto(t, "put")
    BY <1>3, LookedStep DEF j
  <1>7. /\ job'[t] = j /\ \A u \in Threads \ {t} : pc'[u] = pc[u] /\ job'[u] = job[u]
        /\ \/ at # {} /\ pc'[t] = "drain"
           \/ at = {} /\ job[t].todo # {} /\ pc'[t] = "note"
           \/ at = {} /\ job[t].todo = {} /\ pc'[t] = "put"
    BY <1>6, GotoOthers DEF TypeOK
  <1>8. /\ taken'[t] = [m \in Members |-> IF m \in S THEN taken[t][m] + 1 ELSE taken[t][m]]
        /\ \A u \in Threads \ {t} : taken'[u] = taken[u]
    <2>1. CASE Counted(t, S)  BY <1>4, <2>1, OlmTyped, CountedType
    <2>2. CASE UNCHANGED taken /\ S = {}
      <3>1. taken[t] \in [Members -> Nat]  BY DEF TypeOK
      <3> QED  BY <2>2, <3>1
    <2> QED  BY <1>3, <2>1, <2>2
  <1>9. ASSUME NEW m \in Members PROVE MeteredAt(t, m)'
    <2>1. MeteredAt(t, m) /\ taken[t][m] \in Nat  BY DEF AllMetered, Metered, TypeOK
    <2>2. taken'[t][m] = IF m \in S THEN taken[t][m] + 1 ELSE taken[t][m]  BY <1>8
    <2>3. CASE m # n
      <3>1. m \notin S /\ m \notin at /\ (m \in stale => m \in job[t].stale)  BY <1>3, <2>3
      <3> QED  BY <1>1, <1>5, <1>7, <2>1, <2>2, <3>1 DEF MeteredAt
    <2>4. CASE m = n
      <3>1. /\ m \notin job[t].todo /\ Stale[m] # 0 /\ job[t].tries < Drain
            /\ taken[t][m] <= 1 + job[t].tries
        BY <1>1, <2>1, <2>4 DEF MeteredAt
      <3>2. Limit(m) = 1 + Drain /\ Drain \in Nat  BY <3>1, ConstantFacts DEF Limit
      <3>3. taken'[t][m] <= Limit(m) /\ taken'[t][m] <= 2 + job[t].tries
        BY <1>4, <2>1, <2>2, <3>1, <3>2
      <3>4. m \notin window => taken'[t][m] = 0
        BY <1>1, <1>3, <2>1, <2>2, <2>4, <3>1 DEF MeteredAt
      <3>5. m \in at => m \in stale /\ tries < Drain /\ taken'[t][m] <= 1 + tries
        BY <1>1, <1>3, <1>4, <2>1, <2>4, <3>3 DEF MeteredAt
      <3> QED  BY <1>1, <1>5, <1>7, <3>1, <3>3, <3>4, <3>5 DEF MeteredAt
    <2> QED  BY <2>3, <2>4
  <1>10. Metered(t)'  BY <1>9 DEF Metered
  <1> QED  BY <1>1, <1>7, <1>8, <1>10, OthersMetered

LEMMA OlmMetered ==
    ASSUME TypeOK, AllMetered, NEW t \in Threads, OlmStep(t)
    PROVE  AllMetered'
  <1>1. ASSUME NEW j \in JobType, NEW m \in Members, OlmAttempt(t, j, m),
               pc[t] \notin {"note", "drain"}
        PROVE  AllMetered'
    <2>1. UNCHANGED taken /\ window \subseteq window'  BY <1>1, AttemptStep
    <2>2. CASE Finish(t)  BY <1>1, <2>1, <2>2, EndMetered
    <2>3. ASSUME NEW step \in {"olmPut", "olmClaim"}, NEW i \in JobType, Goto(t, step),
                 job' = [job EXCEPT ![t] = i]
          PROVE  AllMetered'
      BY <1>1, <2>1, <2>3, MoveMetered
    <2> QED  BY <1>1, <2>2, <2>3, AttemptStep
  <1>2. ASSUME NEW what \in {"olm", "fresh"}, NEW m \in Members, OlmClaim(t, what, m)
        PROVE  AllMetered'
    <2> DEFINE j == [NoJob EXCEPT !.op = what, !.to = {m}]
    <2>1. j \in JobType  BY ConstantFacts DEF NoJob, JobType, AllOps
    <2>2. OlmAttempt(t, j, m) /\ pc[t] = "idle"  BY <1>2 DEF OlmClaim
    <2> HIDE DEF j
    <2> QED  BY <1>1, <2>1, <2>2
  <1>3. ASSUME NEW m \in Members, OlmClaimAgain(t, m)
        PROVE  AllMetered'
    <2>1. job[t] \in JobType  BY JobTyped
    <2>2. OlmAttempt(t, job[t], m) /\ pc[t] = "olmClaim"  BY <1>3 DEF OlmClaimAgain
    <2> QED  BY <1>1, <2>1, <2>2
  <1>4. CASE OlmReuse(t) \/ OlmNew(t)
    <2>1. UNCHANGED <<window, taken>> /\ pc[t] \in {"olmPut", "olmNew"}
      BY <1>4 DEF OlmReuse, OlmNew
    <2>2. CASE Finish(t)  BY <2>1, <2>2, EndMetered
    <2>3. CASE Goto(t, "olmNew") /\ job' = job  BY <2>1, <2>3, StayMetered
    <2> QED  BY <1>4, <2>2, <2>3 DEF OlmReuse, OlmNew
  <1> QED  BY <1>2, <1>3, <1>4 DEF OlmStep

\* The end of a window starts the count of every thread again.
LEMMA WindowEndsMetered ==
    ASSUME TypeOK, AllMetered, NEW n \in Members, WindowEnds(n)
    PROVE  AllMetered'
  <1>1. /\ window' = window \ {n} /\ UNCHANGED <<pc, job>>
        /\ taken' = [t \in Threads |-> [taken[t] EXCEPT ![n] = 0]]
    BY DEF WindowEnds
  <1> SUFFICES ASSUME NEW t \in Threads, NEW m \in Members PROVE MeteredAt(t, m)'
    BY DEF AllMetered, Metered
  <1>2. MeteredAt(t, m) /\ taken[t] \in [Members -> Nat] /\ taken[t][m] \in Nat
    BY DEF AllMetered, Metered, TypeOK
  <1>3. taken'[t][m] = IF m = n THEN 0 ELSE taken[t][m]  BY <1>1, <1>2
  <1>4. Limit(m) \in Nat /\ Limit(m) >= 1  BY LimitFact
  <1>5. job[t].tries \in Nat  BY JobTyped DEF JobType
  <1>6. CASE m = n  BY <1>1, <1>2, <1>3, <1>4, <1>5, <1>6 DEF MeteredAt, Limit
  <1>7. CASE m # n  BY <1>1, <1>2, <1>3, <1>7 DEF MeteredAt, Limit
  <1> QED  BY <1>6, <1>7

LEMMA NextMetered ==
    ASSUME TypeOK, AllMetered, [Next]_vars
    PROVE  AllMetered'
  <1>1. ASSUME NEW t \in Threads, GetOrCreate(t)  PROVE AllMetered'
    <2>1. /\ pc[t] = "idle" /\ Goto(t, "decide") /\ UNCHANGED <<window, taken>>
          /\ job' = [job EXCEPT ![t] = [NoJob EXCEPT !.to = Members]]
      BY <1>1 DEF GetOrCreate, olm
    <2> QED  BY <2>1, MoveMetered
  <1>2. ASSUME NEW t \in Threads, Decide(t) \/ HasSession(t)  PROVE AllMetered'
    <2>1. UNCHANGED <<window, taken>> /\ pc[t] \in {"decide", "share"}
      BY <1>2 DEF Decide, HasSession, olm
    <2>2. CASE AfterShare(t)  BY <2>1, <2>2, EndMetered
    <2>3. CASE job' = job /\ (Goto(t, "share") \/ Goto(t, "readId"))  BY <2>1, <2>3, StayMetered
    <2> QED  BY <1>2, <2>2, <2>3 DEF Decide, HasSession
  <1>3. ASSUME NEW t \in Threads, ReadId(t) \/ ReadKey(t)  PROVE AllMetered'
    <2>1. UNCHANGED <<window, taken>> /\ pc[t] \in {"readId", "readKey"}
      BY <1>3 DEF ReadId, ReadKey, olm
    <2>2. CASE AfterShare(t)  BY <2>1, <2>2, EndMetered
    <2>3. CASE Goto(t, "readKey") /\ job' = [job EXCEPT ![t].id = cur]  BY <2>1, <2>3, MoveMetered
    <2>4. CASE Goto(t, "query") /\ job' = [job EXCEPT ![t].key = cur]  BY <2>1, <2>4, MoveMetered
    <2> QED  BY <1>3, <2>2, <2>3, <2>4 DEF ReadId, ReadKey
  <1>4. ASSUME NEW t \in Threads, Encrypt(t) \/ Mark(t)  PROVE AllMetered'
    <2>1. /\ UNCHANGED <<window, taken>> /\ pc[t] \in {"encrypt", "mark"}
          /\ AfterShare(t) \/ Finish(t)
      BY <1>4 DEF Encrypt, Mark, olm
    <2> QED  BY <2>1, EndMetered
  <1>5. ASSUME NEW t \in Threads, NEW what \in {"join", "devices"}, NEW to \in SUBSET Members,
               StartShare(t, what, to)
        PROVE  AllMetered'
    <2>1. /\ pc[t] = "idle" /\ Goto(t, "share") /\ UNCHANGED <<window, taken>>
          /\ job' = [job EXCEPT ![t] = [NoJob EXCEPT !.op = what, !.to = to]]
      BY <1>5 DEF StartShare, olm
    <2> QED  BY <2>1, MoveMetered
  <1>6. ASSUME NEW t \in Threads, Put(t)  PROVE AllMetered'
    <2>1. /\ UNCHANGED <<window, taken>> /\ pc[t] = "put"
          /\ \/ AfterShare(t) \/ Finish(t)
             \/ Goto(t, "mark") /\ job' = [job EXCEPT ![t] = ToMark(job[t])]
      BY <1>6, PutStep
    <2> QED  BY <2>1, EndMetered, MoveMetered
  <1>7. ASSUME NEW t \in Threads, ShareStep(t)  PROVE AllMetered'
    BY <1>2, <1>3, <1>4, <1>6, <1>7, QueryMetered, ClaimMetered, NoteMetered, DrainMetered DEF ShareStep
  <1>8. ASSUME NEW t \in Threads, OlmStep(t)  PROVE AllMetered'
    BY <1>8, OlmMetered
  <1>9. CASE Drop \/ UNCHANGED vars
    <2>1. UNCHANGED <<window, taken, pc, job>>  BY <1>9 DEF Drop, vars, olm
    <2> QED  BY <2>1 DEF AllMetered, Metered, MeteredAt
  <1>10. ASSUME NEW m \in Members, WindowEnds(m)  PROVE AllMetered'
    BY <1>10, WindowEndsMetered
  <1> QED  BY <1>1, <1>2, <1>4, <1>5, <1>7, <1>8, <1>9, <1>10 DEF Next

LEMMA InitMetered == Init => AllMetered
  <1> SUFFICES ASSUME Init, NEW t \in Threads, NEW m \in Members PROVE MeteredAt(t, m)
    BY DEF AllMetered, Metered
  <1>1. pc[t] = "idle" /\ taken[t][m] = 0  BY DEF Init
  <1> QED  BY <1>1, LimitFact DEF MeteredAt

\* Between two ends of a device's window, the shares of a thread take one key
\* of it and no more than the drain budget after an old one, though the
\* window is read before the claim and noted after it (decryptor.cpp:1190,
\* 1278, 1299).
THEOREM ClaimsAreLimited == Spec => []ClaimsPerWindow
  <1>1. IInv => TypeOK  BY DEF IInv
  <1>2. IInv /\ AllMetered /\ [Next]_vars => (IInv /\ AllMetered)'
    BY <1>1, NextIInv, NextMetered
  <1>3. AllMetered => ClaimsPerWindow
    BY DEF AllMetered, Metered, MeteredAt, Limit, ClaimsPerWindow
  <1> QED  BY InitIInv, InitMetered, <1>2, <1>3, PTL DEF Spec
=============================================================================
