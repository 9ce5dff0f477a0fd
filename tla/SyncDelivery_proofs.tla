------------------------- MODULE SyncDelivery_proofs -------------------------
(***************************************************************************)
(* Proofs about SyncDelivery, for any save period, any number of messages  *)
(* per response, any number of messages and any budget of crashes, closes  *)
(* and retried syncs.                                                      *)
(***************************************************************************)
EXTENDS SyncDelivery, TLAPS

\* Messages the server may forget.
Settled == consumed \cup excused

\* Messages of the response in hand that the handlers are about to see.
InHand == IF pc = "process" /\ ~Skip THEN batch ELSE {}

\* After the first response of a run the position in memory is the server's,
\* at most one response further on.
Positions ==
    /\ token <= sent /\ batch \subseteq 1..sent
    /\ pc \in {"process", "persist", "token"} => ~firstRun
    /\ ~firstRun /\ pc # "off" => since \in deleted..sent /\ since <= deleted + Portion

\* What that position covers is settled, or about to be.
Covered == ~firstRun /\ pc # "off" => 1..since \subseteq Settled \cup InHand

\* What was handled is never beyond the position, nor, after a restart,
\* beyond what the first response will skip to.
Consumed ==
    /\ \A m \in consumed : m <= sent /\ m <= deleted + Portion
    /\ ~firstRun /\ pc # "off" => consumed \cup InHand \subseteq 1..since
    /\ pc = "process" /\ ~empty => batch \cap consumed = {}

\* Syncs that a save may have missed because a retried sync counted one of
\* them at the period's end.
Missed == PersistEvery * Used("retry")

\* A save is due: the counter has come to the end of a period.
Due == syncs = 0 /\ pc \in {"process", "persist"}

Window ==
    /\ gap <= PersistEvery + Missed
    /\ ~(pc = "off" \/ Due) => gap <= syncs + Missed

IInv == TypeOK /\ NothingLost /\ TokenNotAhead /\ Positions /\ Covered /\ Consumed
-----------------------------------------------------------------------------
(* Type correctness. *)

\* The next batch lies between the acknowledged position and the last message.
LEMMA NextBatchBounds ==
    ASSUME sent \in Nat, Acknowledged \in 0..sent
    PROVE  /\ NextBatch \in Acknowledged..sent
           /\ NextBatch <= Acknowledged + Portion
           /\ sent <= Acknowledged + Portion => NextBatch = sent
           /\ sent > Acknowledged + Portion => NextBatch = Acknowledged + Portion
           /\ Response = (Acknowledged + 1)..NextBatch
  BY SyncDeliveryAssumption DEF NextBatch, Response

\* In a request the acknowledged position is one of the server's.
LEMMA AcknowledgedBounds ==
    ASSUME TypeOK, Positions, pc = "request"
    PROVE  /\ Acknowledged \in deleted..sent /\ Acknowledged \in 0..sent
           /\ firstRun => Acknowledged = deleted
           /\ ~firstRun => Acknowledged = since
           /\ sent \in 0..MaxMsgs /\ deleted \in 0..sent
  BY SyncDeliveryAssumption DEF TypeOK, Positions, Acknowledged

\* The counter of the syncs stays within its period.
LEMMA CounterStep ==
    ASSUME NEW s \in 0..PersistEvery - 1
    PROVE  /\ (s + 1) % PersistEvery \in 0..PersistEvery - 1
           /\ s + 1 < PersistEvery => (s + 1) % PersistEvery = s + 1
           /\ s + 1 = PersistEvery => (s + 1) % PersistEvery = 0
  <1>1. CASE s + 1 < PersistEvery
    BY <1>1, SyncDeliveryAssumption
  <1>2. CASE s + 1 = PersistEvery
    BY <1>2, SyncDeliveryAssumption
  <1> QED  BY <1>1, <1>2, SyncDeliveryAssumption

\* Spending keeps a budget a budget.
LEMMA SpendType ==
    ASSUME TypeOK, NEW what \in EnvEvents, Spend(what)
    PROVE  left' \in [EnvEvents -> Nat]
  BY DEF TypeOK, Spend

LEMMA InitType == Init => TypeOK
  <1> SUFFICES ASSUME Init PROVE TypeOK  OBVIOUS
  <1>1. /\ 0 \in 0..MaxMsgs /\ 0 \in 0..0 /\ NoToken \in Tokens
        /\ 0 \in 0..PersistEvery - 1 /\ Budget \in [EnvEvents -> Nat]
    BY SyncDeliveryAssumption DEF Tokens, NoToken
  <1> QED  BY <1>1 DEF Init, TypeOK

\* What a sync that succeeds leaves behind, first or later, handled or not.
LEMMA ResponseType ==
    ASSUME TypeOK, Positions, pc = "request"
    PROVE  /\ NextBatch \in Tokens /\ Response \subseteq Msgs /\ Response \subseteq 1..sent
           /\ Acknowledged \in 0..sent /\ (syncs + 1) % PersistEvery \in 0..PersistEvery - 1
           /\ gap + 1 \in Nat
  <1>1. /\ sent \in 0..MaxMsgs /\ Acknowledged \in 0..sent  BY AcknowledgedBounds
  <1>2. sent \in Nat  BY <1>1, SyncDeliveryAssumption
  <1>3. NextBatch \in Acknowledged..sent /\ Response = (Acknowledged + 1)..NextBatch
    BY <1>1, <1>2, NextBatchBounds
  <1>4. NextBatch \in Tokens
    BY <1>1, <1>3, SyncDeliveryAssumption DEF Tokens, NoToken
  <1>5. Response \subseteq 1..sent /\ Response \subseteq Msgs
    BY <1>1, <1>3, SyncDeliveryAssumption DEF Msgs
  <1>6. (syncs + 1) % PersistEvery \in 0..PersistEvery - 1  BY CounterStep DEF TypeOK
  <1> QED  BY <1>1, <1>4, <1>5, <1>6 DEF TypeOK

LEMMA NextType ==
    ASSUME TypeOK, Positions, [Next]_vars
    PROVE  TypeOK'
  <1>0. /\ PersistEvery \in Nat \ {0} /\ 0 \in 0..PersistEvery - 1
        /\ MaxMsgs \in Nat
    BY SyncDeliveryAssumption
  <1>1. CASE Send
    <2>1. sent' \in 0..MaxMsgs /\ deleted' \in 0..sent'
      BY <1>0, <1>1 DEF Send, TypeOK
    <2> QED  BY <1>1, <2>1 DEF Send, TypeOK, position, stored
  <1>2. CASE Start
    BY <1>0, <1>2 DEF Start, TypeOK, stored
  <1>3. CASE Request
    <2>1. pc = "request"  BY <1>3 DEF Request
    <2> QED  BY <1>3, <2>1, ResponseType DEF Request, TypeOK, stored
  <1>4. CASE RequestFails
    <2>1. pc = "request"  BY <1>4 DEF RequestFails
    <2> QED  BY <1>4, <2>1, ResponseType DEF RequestFails, TypeOK, position, stored
  <1>5. CASE RetrySucceeds
    <2>1. pc = "request"  BY <1>5 DEF RetrySucceeds
    <2>2. left' \in [EnvEvents -> Nat]  BY <1>5, SpendType DEF RetrySucceeds, EnvEvents
    <2> QED  BY <1>5, <2>1, <2>2, ResponseType DEF RetrySucceeds, TypeOK, stored
  <1>6. CASE Process
    BY <1>6 DEF Process, TypeOK, position, stored
  <1>7. CASE Persist
    BY <1>7 DEF Persist, TypeOK, position
  <1>8. CASE SaveToken
    BY <1>8 DEF SaveToken, TypeOK, position
  <1>9. CASE LoopEnds
    BY <1>9 DEF LoopEnds, TypeOK, position, stored
  <1>10. CASE ClosingSave
    BY <1>10 DEF ClosingSave, TypeOK, position
  <1>11. CASE Close
    <2>1. left' \in [EnvEvents -> Nat]  BY <1>11, SpendType DEF Close, EnvEvents
    <2> QED  BY <1>11, <2>1 DEF Close, TypeOK, position, stored
  <1>12. CASE Crash
    <2>1. left' \in [EnvEvents -> Nat]  BY <1>12, SpendType DEF Crash, EnvEvents
    <2> QED  BY <1>12, <2>1 DEF Crash, TypeOK, position, stored
  <1>13. CASE UNCHANGED vars
    BY <1>13 DEF vars, TypeOK, position, stored
  <1> QED  BY <1>1, <1>2, <1>3, <1>4, <1>5, <1>6, <1>7, <1>8, <1>9, <1>10, <1>11, <1>12, <1>13
           DEF Next, Worker
-----------------------------------------------------------------------------
(* Delivery. *)

LEMMA InitIInv == Init => IInv
  <1> SUFFICES ASSUME Init PROVE IInv  OBVIOUS
  <1>1. TypeOK  BY InitType
  <1>2. 1..0 = {} /\ NoToken <= 0
    BY DEF NoToken
  <1>3. NothingLost /\ TokenNotAhead  BY <1>2 DEF Init, NothingLost, TokenNotAhead
  <1>4. Positions /\ Covered /\ Consumed
    BY <1>2 DEF Init, Positions, Covered, Consumed, InHand
  <1> QED  BY <1>1, <1>3, <1>4 DEF IInv

\* A step of the server's queue alone.
LEMMA SendIInv ==
    ASSUME IInv, TypeOK', Send
    PROVE  IInv'
  <1>1. sent' = sent + 1 /\ sent \in Nat
    BY SyncDeliveryAssumption DEF Send, IInv, TypeOK
  <1>2. UNCHANGED <<deleted, since, firstRun, hadSaved, empty, batch, pc, token, consumed, excused>>
    BY DEF Send, position, stored
  <1>3. NothingLost' /\ TokenNotAhead' /\ Covered'
    BY <1>2 DEF IInv, NothingLost, TokenNotAhead, Covered, Settled, InHand, Skip
  <1>4. Positions'
    BY <1>1, <1>2 DEF IInv, TypeOK, Positions, Tokens, NoToken
  <1>5. Consumed'
    BY <1>1, <1>2, SyncDeliveryAssumption DEF IInv, TypeOK, Consumed, InHand, Skip, Msgs
  <1> QED  BY <1>3, <1>4, <1>5 DEF IInv

\* A sync that succeeds acknowledges what is settled; its response follows
\* the settled messages without a hole and is handled, or excused.
LEMMA RequestIInv ==
    ASSUME IInv, TypeOK', Request
    PROVE  IInv'
  <1> DEFINE a == Acknowledged
             n == NextBatch
  <1>t. TypeOK /\ Positions /\ pc = "request" /\ pc # "process" /\ pc # "off"
    BY DEF IInv, Request
  <1>0. /\ sent \in Nat /\ deleted \in Nat /\ Portion \in Nat /\ Portion > 0
        /\ sent \in 0..MaxMsgs /\ MaxMsgs \in Nat
    BY <1>t, SyncDeliveryAssumption DEF TypeOK
  <1>1. /\ a \in deleted..sent /\ a \in 0..sent
        /\ firstRun => a = deleted
        /\ ~firstRun => a = since
    BY <1>t, AcknowledgedBounds
  <1>2. /\ n \in a..sent /\ n <= a + Portion /\ Response = (a + 1)..n
        /\ sent <= a + Portion => n = sent
        /\ sent > a + Portion => n = a + Portion
    BY <1>0, <1>1, NextBatchBounds
  <1>3. /\ deleted' = a /\ empty' = firstRun /\ batch' = Response /\ since' = n
        /\ firstRun' = FALSE /\ pc' = "process"
        /\ excused' = IF firstRun /\ hadSaved THEN excused \cup Response ELSE excused
        /\ UNCHANGED <<sent, hadSaved, token, consumed>>
    BY DEF Request, stored
  <1> HIDE DEF a, n
  \* What the request's token covers is settled.
  <1>4. 1..a \subseteq Settled
    <2>1. CASE firstRun
      BY <1>1, <2>1 DEF IInv, NothingLost, Settled
    <2>2. CASE ~firstRun
      <3>1. InHand = {}  BY <1>t DEF InHand
      <3> QED  BY <1>t, <1>1, <2>2, <3>1 DEF IInv, Covered
    <2> QED  BY <2>1, <2>2
  <1>5. Settled \subseteq Settled'  BY <1>3 DEF Settled
  <1>6. Response \subseteq Settled' \cup InHand'
    <2>1. CASE firstRun /\ hadSaved
      BY <1>3, <2>1 DEF Settled
    <2>2. CASE ~(firstRun /\ hadSaved)
      BY <1>3, <2>2 DEF InHand, Skip
    <2> QED  BY <2>1, <2>2
  <1>7. 1..n \subseteq 1..a \cup Response
    BY <1>0, <1>1, <1>2
  <1>8. NothingLost'
    BY <1>3, <1>4, <1>5 DEF NothingLost, Settled
  <1>9. TokenNotAhead'
    BY <1>3, <1>5 DEF IInv, TokenNotAhead, Settled
  <1>10. Positions'
    <2>1. Response \subseteq 1..sent  BY <1>0, <1>1, <1>2
    <2>2. n \in a..sent /\ n <= a + Portion  BY <1>2
    <2> QED  BY <1>t, <1>3, <2>1, <2>2 DEF Positions
  <1>11. Covered'
    BY <1>3, <1>4, <1>5, <1>6, <1>7 DEF Covered
  <1>12. Consumed'
    <2>0. consumed \subseteq Nat /\ \A m \in consumed : m >= 1
      BY <1>0, <1>t DEF TypeOK, Msgs
    <2>1. \A m \in consumed : m <= sent /\ m <= a + Portion
      BY <1>0, <1>1, <2>0 DEF IInv, Consumed
    <2>2. \A m \in consumed : m \in 1..n
      BY <1>0, <1>1, <1>2, <2>0, <2>1
    <2>3. Response \subseteq 1..n  BY <1>0, <1>1, <1>2
    <2>4. InHand' \subseteq Response  BY <1>3 DEF InHand
    <2>5. ~firstRun => Response \cap consumed = {}
      <3> SUFFICES ASSUME ~firstRun PROVE Response \cap consumed = {}  OBVIOUS
      <3>1. consumed \subseteq 1..a  BY <1>t, <1>1 DEF IInv, Consumed
      <3> QED  BY <1>0, <1>1, <1>2, <3>1
    <2> QED  BY <1>3, <2>1, <2>2, <2>3, <2>4, <2>5 DEF Consumed
  <1> QED  BY <1>8, <1>9, <1>10, <1>11, <1>12 DEF IInv

\* A sync whose answer is lost, or goes to syncCb_ alone, acknowledges too.
LEMMA UnhandledIInv ==
    ASSUME IInv, TypeOK', RequestFails \/ RetrySucceeds
    PROVE  IInv'
  <1> DEFINE a == Acknowledged
             n == NextBatch
  <1>t. TypeOK /\ Positions /\ pc = "request" /\ pc # "process" /\ pc # "off"
        /\ InHand = {} /\ InHand' = {}
    BY DEF IInv, RequestFails, RetrySucceeds, InHand
  <1>0. /\ sent \in Nat /\ deleted \in Nat /\ Portion \in Nat /\ Portion > 0
        /\ MaxMsgs \in Nat
    BY <1>t, SyncDeliveryAssumption DEF TypeOK
  <1>1. /\ a \in deleted..sent /\ a \in 0..sent
        /\ firstRun => a = deleted
        /\ ~firstRun => a = since
    BY <1>t, AcknowledgedBounds
  <1>2. /\ n \in a..sent /\ n <= a + Portion /\ Response = (a + 1)..n
    BY <1>0, <1>1, NextBatchBounds
  <1>3. /\ deleted' = a
        /\ \/ since' = since /\ excused' = excused
           \/ /\ since' = n
              /\ excused' = IF firstRun THEN excused ELSE excused \cup Response
        /\ UNCHANGED <<sent, firstRun, hadSaved, empty, batch, pc, token, consumed>>
    BY DEF RequestFails, RetrySucceeds, position, stored
  <1> HIDE DEF a, n
  <1>4. 1..a \subseteq Settled
    <2>1. CASE firstRun
      BY <1>1, <2>1 DEF IInv, NothingLost, Settled
    <2>2. CASE ~firstRun
      BY <1>t, <1>1, <2>2 DEF IInv, Covered
    <2> QED  BY <2>1, <2>2
  <1>5. Settled \subseteq Settled'  BY <1>3 DEF Settled
  <1>6. NothingLost'
    BY <1>3, <1>4, <1>5 DEF NothingLost, Settled
  <1>7. TokenNotAhead'
    BY <1>3, <1>5 DEF IInv, TokenNotAhead, Settled
  <1>8. Positions'
    <2>1. ~firstRun => /\ since' \in a..sent /\ since' <= a + Portion
      BY <1>0, <1>1, <1>2, <1>3
    <2> QED  BY <1>t, <1>3, <2>1 DEF Positions
  <1>9. ~firstRun => 1..since' \subseteq Settled'
    <2> SUFFICES ASSUME ~firstRun PROVE 1..since' \subseteq Settled'  OBVIOUS
    <2>1. CASE since' = since
      BY <1>1, <1>4, <1>5, <2>1
    <2>2. CASE since' # since
      <3>1. since' = n /\ Response \subseteq Settled'  BY <1>3, <2>2 DEF Settled
      <3>2. 1..n \subseteq 1..a \cup Response  BY <1>0, <1>1, <1>2
      <3> QED  BY <1>4, <1>5, <3>1, <3>2
    <2> QED  BY <2>1, <2>2
  <1>10. Covered'
    BY <1>3, <1>9 DEF Covered
  <1>11. Consumed'
    <2>0. consumed \subseteq Nat /\ \A m \in consumed : m >= 1
      BY <1>0, <1>t DEF TypeOK, Msgs
    <2>1. \A m \in consumed : m <= sent /\ m <= a + Portion
      BY <1>0, <1>1, <2>0 DEF IInv, Consumed
    <2>2. ~firstRun => consumed \subseteq 1..since'
      <3> SUFFICES ASSUME ~firstRun PROVE consumed \subseteq 1..since'  OBVIOUS
      <3>1. consumed \subseteq 1..a  BY <1>t, <1>1 DEF IInv, Consumed
      <3> QED  BY <1>0, <1>1, <1>2, <1>3, <3>1
    <2> QED  BY <1>t, <1>3, <2>1, <2>2 DEF Consumed
  <1> QED  BY <1>6, <1>7, <1>8, <1>10, <1>11 DEF IInv

\* The handlers see what is in hand, and settle it.
LEMMA ProcessIInv ==
    ASSUME IInv, TypeOK', Process
    PROVE  IInv'
  <1>1. /\ pc = "process" /\ pc' = "persist" /\ InHand' = {}
        /\ consumed' = consumed \cup InHand
        /\ UNCHANGED <<sent, deleted, since, firstRun, hadSaved, empty, batch, token, excused>>
    BY DEF Process, InHand, position, stored
  <1>2. Settled' = Settled \cup InHand  BY <1>1 DEF Settled
  <1>3. NothingLost' /\ TokenNotAhead'
    BY <1>1 DEF IInv, NothingLost, TokenNotAhead
  <1>4. Positions'  BY <1>1 DEF IInv, Positions
  <1>5. Covered'  BY <1>1, <1>2 DEF IInv, Covered
  <1>6. Consumed'
    <2>1. ~firstRun  BY <1>1 DEF IInv, Positions
    <2>2. consumed' \subseteq 1..since  BY <1>1, <2>1 DEF IInv, Consumed
    <2>3. /\ since \in deleted..sent /\ since <= deleted + Portion
          /\ sent \in Nat /\ deleted \in Nat /\ Portion \in Nat
      BY <1>1, <2>1, SyncDeliveryAssumption DEF IInv, Positions, TypeOK
    <2>4. \A m \in consumed' : m <= sent /\ m <= deleted + Portion
      BY <2>2, <2>3
    <2> QED  BY <1>1, <2>2, <2>4 DEF Consumed
  <1> QED  BY <1>3, <1>4, <1>5, <1>6 DEF IInv

\* Saving the token: what it covers is settled.
LEMMA SaveTokenIInv ==
    ASSUME IInv, TypeOK', SaveToken
    PROVE  IInv'
  <1>1. /\ pc = "token" /\ pc' = "request" /\ token' = since /\ InHand = {} /\ InHand' = {}
        /\ UNCHANGED <<sent, deleted, since, firstRun, hadSaved, empty, batch, consumed, excused>>
    BY DEF SaveToken, InHand, position
  <1>2. ~firstRun  BY <1>1 DEF IInv, Positions
  <1>3. since \in deleted..sent /\ 1..since \subseteq Settled
    BY <1>1, <1>2 DEF IInv, Positions, Covered
  <1>4. since <= sent
    BY <1>3, SyncDeliveryAssumption DEF IInv, TypeOK
  <1>5. NothingLost' /\ TokenNotAhead'
    BY <1>1, <1>3 DEF IInv, NothingLost, TokenNotAhead, Settled
  <1>6. Positions' /\ Covered' /\ Consumed'
    BY <1>1, <1>2, <1>4 DEF IInv, Positions, Covered, Consumed, Settled
  <1> QED  BY <1>5, <1>6 DEF IInv

\* The steps that neither take, handle nor acknowledge a message.
LEMMA OtherIInv ==
    ASSUME IInv, TypeOK', Start \/ Persist \/ LoopEnds \/ ClosingSave \/ Close \/ Crash \/ UNCHANGED vars
    PROVE  IInv'
  <1>1. UNCHANGED <<sent, deleted, empty, batch, token, consumed, excused>>
    BY DEF Start, Persist, LoopEnds, ClosingSave, Close, Crash, vars, stored, position
  <1>2. NothingLost' /\ TokenNotAhead'
    BY <1>1 DEF IInv, NothingLost, TokenNotAhead
  <1>3. CASE Start
    <2>1. firstRun' /\ pc' = "request"  BY <1>3 DEF Start
    <2>2. Positions' /\ Covered' /\ Consumed'
      BY <1>1, <2>1 DEF IInv, Positions, Covered, Consumed
    <2> QED  BY <1>2, <2>2 DEF IInv
  <1>4. CASE Persist \/ LoopEnds
    <2>1. /\ pc \in {"persist", "request"} /\ pc' \in {"token", "ended"} /\ (pc' = "token" => pc = "persist")
          /\ UNCHANGED <<since, firstRun, hadSaved>> /\ InHand = {} /\ InHand' = {}
      BY <1>4 DEF Persist, LoopEnds, position, InHand
    <2>2. Positions' /\ Covered' /\ Consumed'
      BY <1>1, <2>1 DEF IInv, Positions, Covered, Consumed, Settled
    <2> QED  BY <1>2, <2>2 DEF IInv
  <1>5. CASE ClosingSave \/ Crash
    <2>1. pc' = "off" /\ UNCHANGED <<since, firstRun, hadSaved>> /\ InHand' = {}
      BY <1>5 DEF ClosingSave, Crash, position, InHand
    <2>2. Positions' /\ Covered' /\ Consumed'
      BY <1>1, <2>1 DEF IInv, Positions, Covered, Consumed
    <2> QED  BY <1>2, <2>2 DEF IInv
  <1>6. CASE Close \/ UNCHANGED vars
    <2>1. UNCHANGED <<pc, since, firstRun, hadSaved>> /\ InHand' = InHand
      BY <1>1, <1>6 DEF Close, vars, position, InHand, Skip
    <2>2. Positions' /\ Covered' /\ Consumed'
      BY <1>1, <2>1 DEF IInv, Positions, Covered, Consumed, Settled
    <2> QED  BY <1>2, <2>2 DEF IInv
  <1> QED  BY <1>3, <1>4, <1>5, <1>6

LEMMA NextIInv == IInv /\ [Next]_vars => IInv'
  <1> SUFFICES ASSUME IInv, [Next]_vars PROVE IInv'  OBVIOUS
  <1>0. TypeOK'  BY NextType DEF IInv
  <1> QED  BY <1>0, SendIInv, RequestIInv, UnhandledIInv, ProcessIInv, SaveTokenIInv, OtherIInv
           DEF Next, Worker

\* Each variable of the delivery keeps its type (sync_engine.cpp:258-321).
THEOREM TypeCorrect == Spec => []TypeOK
  <1>1. IInv => TypeOK  BY DEF IInv
  <1> QED  BY InitIInv, NextIInv, <1>1, PTL DEF Spec

\* Whatever the server has deleted was handled or is one of the two excused
\* cases, wherever crashes, closes and retries fall (sync_engine.cpp:258-321).
THEOREM NoMessageIsLost == Spec => []NothingLost
  <1>1. IInv => NothingLost  BY DEF IInv
  <1> QED  BY InitIInv, NextIInv, <1>1, PTL DEF Spec

\* The saved token covers only settled messages (sync_engine.cpp:297-321).
THEOREM TokenFollows == Spec => []TokenNotAhead
  <1>1. IInv => TokenNotAhead  BY DEF IInv
  <1> QED  BY InitIInv, NextIInv, <1>1, PTL DEF Spec

\* Only a first sync without a saved token handles a message again
\* (sync_engine.cpp:290-296).
THEOREM HandledOnce == Spec => []NoReprocessing
  <1>1. IInv => NoReprocessing
    BY DEF IInv, Consumed, NoReprocessing, Skip
  <1> QED  BY InitIInv, NextIInv, <1>1, PTL DEF Spec
-----------------------------------------------------------------------------
(* The window of unsaved syncs.  Products with the period are treated as    *)
(* numbers: only the two lemmas look into them.                             *)

LEMMA MissedType ==
    ASSUME Used("retry") \in Nat
    PROVE  Missed \in Nat
  BY SyncDeliveryAssumption DEF Missed

\* A retry that is used up adds one period.
LEMMA MissedByRetry ==
    ASSUME TypeOK, Used("retry") \in Nat, Spend("retry")
    PROVE  Used("retry")' \in Nat /\ Missed' = Missed + PersistEvery /\ Missed \in Nat
  <1>1. left["retry"] \in Nat /\ Budget["retry"] \in Nat /\ PersistEvery \in Nat
    BY SyncDeliveryAssumption DEF TypeOK, EnvEvents
  <1>2. left'["retry"] = left["retry"] - 1
    BY DEF Spend, TypeOK, EnvEvents
  <1>3. Used("retry")' = Used("retry") + 1
    BY <1>1, <1>2 DEF Used
  <1>4. \A p, u \in Nat : p * (u + 1) = p * u + p  BY SMT
  <1> QED  BY <1>1, <1>3, <1>4 DEF Missed

\* Other steps use up no retry.
LEMMA MissedElse ==
    ASSUME TypeOK, Used("retry") \in Nat,
           \/ UNCHANGED left
           \/ Spend("crash") \/ Spend("close")
    PROVE  Used("retry")' \in Nat /\ Missed' = Missed /\ Missed \in Nat
  <1>1. left'["retry"] = left["retry"]
    BY DEF Spend, TypeOK, EnvEvents
  <1> QED  BY <1>1, MissedType DEF Used, Missed

LEMMA InitWindow == Init => Window /\ Used("retry") \in Nat
  <1> SUFFICES ASSUME Init PROVE Window /\ Used("retry") \in Nat  OBVIOUS
  <1>1. Budget["retry"] \in Nat  BY SyncDeliveryAssumption DEF EnvEvents
  <1>2. Used("retry") = 0  BY <1>1 DEF Init, Used
  <1>3. Missed \in Nat /\ PersistEvery \in Nat  BY <1>2, MissedType, SyncDeliveryAssumption
  <1> QED  BY <1>2, <1>3 DEF Init, Window

LEMMA NextWindow ==
    ASSUME TypeOK, TypeOK', Window, Used("retry") \in Nat, [Next]_vars
    PROVE  Window' /\ Used("retry")' \in Nat
  <1>0. /\ PersistEvery \in Nat \ {0} /\ syncs \in 0..PersistEvery - 1 /\ gap \in Nat
        /\ Missed \in Nat
    BY SyncDeliveryAssumption, MissedType DEF TypeOK
  <1>c. /\ (syncs + 1) % PersistEvery \in 0..PersistEvery - 1
        /\ syncs + 1 < PersistEvery => (syncs + 1) % PersistEvery = syncs + 1
        /\ syncs + 1 = PersistEvery => (syncs + 1) % PersistEvery = 0
    BY <1>0, CounterStep
  <1>1. CASE Request
    <2>1. /\ pc = "request" /\ pc' = "process" /\ gap' = gap + 1 /\ UNCHANGED left
          /\ syncs' = (syncs + 1) % PersistEvery
      BY <1>1 DEF Request
    <2>2. Used("retry")' \in Nat /\ Missed' = Missed  BY <2>1, MissedElse
    <2>3. gap <= syncs + Missed  BY <2>1 DEF Window, Due
    <2>4. CASE syncs + 1 < PersistEvery
      <3>1. gap' <= syncs' + Missed /\ gap' <= PersistEvery + Missed
        BY <1>0, <1>c, <2>1, <2>3, <2>4
      <3> QED  BY <2>2, <3>1 DEF Window
    <2>5. CASE syncs + 1 = PersistEvery
      <3>1. gap' <= PersistEvery + Missed /\ Due'
        BY <1>0, <1>c, <2>1, <2>3, <2>5 DEF Due
      <3> QED  BY <2>2, <3>1 DEF Window
    <2> QED  BY <1>0, <2>4, <2>5, SMT
  <1>2. CASE RetrySucceeds
    <2>1. /\ pc = "request" /\ pc' = pc /\ gap' = gap + 1 /\ Spend("retry")
          /\ syncs' = (syncs + 1) % PersistEvery
      BY <1>2 DEF RetrySucceeds
    <2>2. Used("retry")' \in Nat /\ Missed' = Missed + PersistEvery  BY <2>1, MissedByRetry
    <2>3. gap <= syncs + Missed  BY <2>1 DEF Window, Due
    <2>4. gap' <= syncs' + Missed' /\ gap' <= PersistEvery + Missed'
      BY <1>0, <1>c, <2>1, <2>2, <2>3
    <2> QED  BY <2>2, <2>4 DEF Window
  <1>3. CASE Start \/ ClosingSave
    <2>1. /\ gap' = 0 /\ UNCHANGED left /\ syncs' \in Nat
      BY <1>0, <1>3 DEF Start, ClosingSave
    <2>2. Used("retry")' \in Nat /\ Missed' = Missed  BY <2>1, MissedElse
    <2>3. \A p, s, m \in Nat : 0 <= s + m /\ 0 <= p + m  OBVIOUS
    <2>4. gap' <= syncs' + Missed' /\ gap' <= PersistEvery + Missed'
      BY <1>0, <2>1, <2>2, <2>3
    <2> QED  BY <2>2, <2>4 DEF Window
  <1>4. CASE Persist
    <2>1. /\ pc = "persist" /\ pc' \in {"token", "ended"} /\ UNCHANGED <<left, syncs>>
          /\ IF syncs = 0 THEN gap' = 0 ELSE gap' = gap
      BY <1>4 DEF Persist, PersistDue
    <2>2. Used("retry")' \in Nat /\ Missed' = Missed  BY <2>1, MissedElse
    <2>3. CASE syncs = 0
      BY <1>0, <2>1, <2>2, <2>3 DEF Window
    <2>4. CASE syncs # 0
      BY <1>0, <2>1, <2>2, <2>4 DEF Window, Due
    <2> QED  BY <2>3, <2>4
  <1>5. CASE Send \/ RequestFails \/ Process \/ SaveToken \/ LoopEnds \/ Close \/ UNCHANGED vars
    <2>1. UNCHANGED <<gap, syncs>> /\ (UNCHANGED left \/ Spend("close"))
      BY <1>5 DEF Send, RequestFails, Process, SaveToken, LoopEnds, Close, vars
    <2>2. Used("retry")' \in Nat /\ Missed' = Missed  BY <2>1, MissedElse
    <2>3. Due /\ pc' # "off" => Due' \/ pc = "persist"
      BY <1>5 DEF Due, Send, RequestFails, Process, SaveToken, LoopEnds, Close, vars
    <2>4. pc = "persist" => pc' = "persist"
      BY <1>5 DEF Send, RequestFails, Process, SaveToken, LoopEnds, Close, vars
    <2>5. pc = "off" => pc' = "off"
      BY <1>5 DEF Send, RequestFails, Process, SaveToken, LoopEnds, Close, vars
    <2>6. Due => pc' = "off" \/ Due'
      BY <2>1, <2>3, <2>4 DEF Due
    <2> QED  BY <2>1, <2>2, <2>5, <2>6 DEF Window
  <1>6. CASE Crash
    <2>1. pc' = "off" /\ UNCHANGED gap /\ Spend("crash")  BY <1>6 DEF Crash
    <2>2. Used("retry")' \in Nat /\ Missed' = Missed  BY <2>1, MissedElse
    <2> QED  BY <2>1, <2>2 DEF Window
  <1> QED  BY <1>1, <1>2, <1>3, <1>4, <1>5, <1>6 DEF Next, Worker

\* What a crash can lose of the crypto state is bounded by the period of the
\* save and one more period for each retried sync (sync_engine.cpp:195, 308).
THEOREM SavedInTime == Spec => []UnsavedWindow
  <1>1. TypeOK /\ Window /\ Used("retry") \in Nat => UnsavedWindow
    <2> SUFFICES ASSUME TypeOK, Window, Used("retry") \in Nat PROVE UnsavedWindow  OBVIOUS
    <2>1. \A p, u \in Nat : p * (1 + u) = p + p * u  BY SMT
    <2>2. PersistEvery * (1 + Used("retry")) = PersistEvery + Missed
      BY <2>1, SyncDeliveryAssumption DEF Missed
    <2> QED  BY <2>2 DEF Window, UnsavedWindow
  <1>2. (TypeOK /\ Window /\ Used("retry") \in Nat) /\ TypeOK' /\ [Next]_vars
           => (Window /\ Used("retry") \in Nat)'
    BY NextWindow
  <1> QED  BY TypeCorrect, InitWindow, <1>1, <1>2, PTL DEF Spec
-----------------------------------------------------------------------------
(* The delivery implements the mailbox. *)

\* A step that leaves every abstract variable alone is a stutter.
LEMMA MailStutter ==
    ASSUME UNCHANGED <<sent, deleted, held, disk, consumed, excused>>
    PROVE  UNCHANGED Mail!mvars
  BY DEF Mail!mvars

LEMMA SendImplements ==
    ASSUME IInv, Send
    PROVE  Mail!Post
  <1>1. /\ sent \in 0..MaxMsgs /\ deleted \in 0..sent /\ sent < MaxMsgs /\ sent' = sent + 1
        /\ UNCHANGED <<deleted, held, disk, consumed, excused>>
    BY DEF IInv, TypeOK, Send, stored
  <1>2. /\ sent + 1 \in Msgs \ (1..sent)
        /\ 1..sent' = 1..sent \cup {sent + 1}
        /\ (deleted' + 1)..sent' = ((deleted + 1)..sent) \cup {sent + 1}
    BY <1>1, SyncDeliveryAssumption DEF Msgs
  <1> QED  BY <1>1, <1>2 DEF Mail!Post

\* A request, answered or not: the server forgets what the position covers,
\* which is settled, and at most the response is let go.
LEMMA ExchangeImplements ==
    ASSUME IInv, pc = "request",
           deleted' = Acknowledged, sent' = sent,
           excused' = excused \/ excused' = excused \cup Response,
           UNCHANGED <<held, disk, consumed>>
    PROVE  Mail!Exchange
  <1>0. /\ sent \in 0..MaxMsgs /\ deleted \in 0..sent /\ Acknowledged \in deleted..sent
        /\ firstRun => Acknowledged = deleted
        /\ ~firstRun => Acknowledged = since
    BY AcknowledgedBounds DEF IInv
  <1>1. /\ sent \in Nat /\ Acknowledged \in 0..sent  BY <1>0, SyncDeliveryAssumption
  <1>2. Response = (Acknowledged + 1)..NextBatch /\ NextBatch \in Acknowledged..sent
    BY <1>1, NextBatchBounds
  <1> DEFINE Gone == (deleted + 1)..Acknowledged
             Unseen == IF excused' = excused THEN {} ELSE Response
  <1>3. (deleted + 1)..Acknowledged \subseteq Settled
    <2>1. CASE firstRun
      <3>1. Acknowledged = deleted  BY <1>0, <2>1
      <3>2. (deleted + 1)..deleted = {}  BY <1>0, <1>1
      <3> QED  BY <3>1, <3>2
    <2>2. CASE ~firstRun
      <3>1. 1..since \subseteq Settled
        BY <2>2 DEF IInv, Covered, InHand
      <3>2. (deleted + 1)..Acknowledged \subseteq 1..Acknowledged  BY <1>0, <1>1
      <3> QED  BY <1>0, <2>2, <3>1, <3>2
    <2> QED  BY <2>1, <2>2
  <1>4. Gone \subseteq ((deleted + 1)..sent) /\ ((deleted' + 1)..sent') = ((deleted + 1)..sent) \ Gone
    BY <1>0, <1>1
  <1>5. Gone \in SUBSET (((deleted + 1)..sent) \cap (consumed \cup excused))
    BY <1>3, <1>4 DEF Settled
  <1>6. Unseen \in SUBSET ((deleted' + 1)..sent')  BY <1>1, <1>2
  <1>7. excused' = excused \cup Unseen  OBVIOUS
  <1>8. 1..sent' = 1..sent  OBVIOUS
  <1> HIDE DEF Gone, Unseen
  <1> QED  BY <1>4, <1>5, <1>6, <1>7, <1>8 DEF Mail!Exchange

\* The server still holds the messages that are about to be handled.
Fresh == pc = "process" => batch \subseteq (deleted + 1)..sent

LEMMA NextFresh ==
    ASSUME IInv, Fresh, [Next]_vars
    PROVE  Fresh'
  <1>1. CASE Request
    <2>1. pc = "request" /\ deleted' = Acknowledged /\ batch' = Response /\ sent' = sent
      BY <1>1 DEF Request
    <2>2. /\ sent \in 0..MaxMsgs /\ Acknowledged \in 0..sent
      BY <2>1, AcknowledgedBounds DEF IInv
    <2>3. sent \in Nat  BY <2>2, SyncDeliveryAssumption
    <2>4. Response = (Acknowledged + 1)..NextBatch /\ NextBatch \in Acknowledged..sent
      BY <2>2, <2>3, NextBatchBounds
    <2> QED  BY <2>1, <2>2, <2>3, <2>4 DEF Fresh
  <1>2. CASE Send
    <2>1. sent \in Nat  BY SyncDeliveryAssumption DEF IInv, TypeOK
    <2> QED  BY <1>2, <2>1 DEF Send, Fresh, IInv, TypeOK
  <1>3. CASE \/ Start \/ RequestFails \/ RetrySucceeds \/ Process \/ Persist \/ SaveToken
             \/ LoopEnds \/ ClosingSave
    BY <1>3 DEF Start, RequestFails, RetrySucceeds, Process, Persist, SaveToken, LoopEnds,
                ClosingSave, Fresh
  <1>4. CASE Close \/ Crash \/ UNCHANGED vars
    BY <1>4 DEF Close, Crash, vars, Fresh
  <1> QED  BY <1>1, <1>2, <1>3, <1>4 DEF Next, Worker

LEMMA ProcessImplements ==
    ASSUME Fresh, Process, ~Skip
    PROVE  Mail!Handle
  <1>1. /\ held' = held \cup batch /\ consumed' = consumed \cup batch
        /\ UNCHANGED <<sent, deleted, disk, excused>>
    BY DEF Process, stored
  <1>2. batch \subseteq (deleted + 1)..sent
    BY DEF Process, Fresh
  <1> QED  BY <1>1, <1>2 DEF Mail!Handle

LEMMA StepImplements ==
    ASSUME IInv, Fresh, [Next]_vars
    PROVE  [Mail!Next]_Mail!mvars
  <1>1. CASE Send
    BY <1>1, SendImplements DEF Mail!Next
  <1>2. CASE Request \/ RequestFails \/ RetrySucceeds
    <2>1. /\ pc = "request" /\ deleted' = Acknowledged /\ sent' = sent
          /\ excused' = excused \/ excused' = excused \cup Response
          /\ UNCHANGED <<held, disk, consumed>>
      BY <1>2 DEF Request, RequestFails, RetrySucceeds, stored
    <2> QED  BY <2>1, ExchangeImplements DEF Mail!Next
  <1>3. CASE Process
    <2>1. CASE Skip
      <3>1. UNCHANGED <<sent, deleted, held, disk, consumed, excused>>
        BY <1>3, <2>1 DEF Process, stored
      <3> QED  BY <3>1, MailStutter
    <2>2. CASE ~Skip
      BY <1>3, <2>2, ProcessImplements DEF Mail!Next
    <2> QED  BY <2>1, <2>2
  <1>4. CASE Persist
    <2>1. CASE PersistDue
      <3>1. disk' = held /\ UNCHANGED <<sent, deleted, held, consumed, excused>>
        BY <1>4, <2>1 DEF Persist
      <3> QED  BY <3>1 DEF Mail!Next, Mail!Save
    <2>2. CASE ~PersistDue
      <3>1. UNCHANGED <<sent, deleted, held, disk, consumed, excused>>
        BY <1>4, <2>2 DEF Persist
      <3> QED  BY <3>1, MailStutter
    <2> QED  BY <2>1, <2>2
  <1>5. CASE ClosingSave
    BY <1>5 DEF ClosingSave, Mail!Next, Mail!Save
  <1>6. CASE Start
    BY <1>6 DEF Start, stored, Mail!Next, Mail!Restart
  <1>7. CASE SaveToken \/ LoopEnds \/ Close \/ Crash \/ UNCHANGED vars
    <2>1. UNCHANGED <<sent, deleted, held, disk, consumed, excused>>
      BY <1>7 DEF SaveToken, LoopEnds, Close, Crash, stored, vars
    <2> QED  BY <2>1, MailStutter
  <1> QED  BY <1>1, <1>2, <1>3, <1>4, <1>5, <1>6, <1>7 DEF Next, Worker

\* Whatever the crashes, closes, lost answers and retries, the since-token
\* protocol behaves like a mailbox that forgets only what was handled or let
\* go, and whose knowledge is exactly what was saved after a restart.
THEOREM DeliveryIsAMailbox == Spec => Mail!Safety
  <1>1. Init => Mail!Init
    BY DEF Init, Mail!Init
  <1>2. IInv /\ Fresh /\ [Next]_vars => [Mail!Next]_Mail!mvars
    BY StepImplements
  <1>3. IInv /\ Fresh /\ [Next]_vars => IInv' /\ Fresh'
    BY NextIInv, NextFresh
  <1>4. Init => Fresh
    BY DEF Init, Fresh
  <1> QED  BY InitIInv, <1>1, <1>2, <1>3, <1>4, PTL DEF Spec, Mail!Safety
=============================================================================
