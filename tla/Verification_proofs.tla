------------------------- MODULE Verification_proofs -------------------------
(***************************************************************************)
(* Proofs about Verification: the type invariant; that no device is        *)
(* recorded as verified before both users confirmed, for any number of     *)
(* lost messages, failed queries, cancels and time-outs; and that honest   *)
(* devices do not see a key mismatch without one of these or a crossing.   *)
(***************************************************************************)
EXTENDS Verification, SequenceTheorems, TLAPS

\* The message m is somewhere in the sequence s.
In(m, s) == \E i \in DOMAIN s : s[i] = m

Inboxes == [Devices -> Seq(Messages)]
-----------------------------------------------------------------------------
(* Devices and channels. *)

\* Each device has the other one as its peer.
LEMMA OtherDevice ==
    ASSUME NEW d \in Devices
    PROVE  /\ Other(d) \in Devices /\ Other(d) # d
           /\ Devices = {d, Other(d)}
  BY VerificationAssumption DEF Other, Devices

\* Taking the first message of a channel brings nothing new into it.
LEMMA TailHasLess ==
    ASSUME NEW s \in Seq(Messages), s # <<>>
    PROVE  /\ Tail(s) \in Seq(Messages)
           /\ Head(s) \in Messages /\ In(Head(s), s)
           /\ \A m : In(m, Tail(s)) => In(m, s)
  <1>1. /\ Tail(s) \in Seq(Messages) /\ Head(s) = s[1] /\ 1 \in DOMAIN s /\ Head(s) \in Messages
        /\ Len(Tail(s)) = Len(s) - 1 /\ Len(s) \in Nat
        /\ \A i \in 1..Len(Tail(s)) : Tail(s)[i] = s[i + 1]
    BY SMT
  <1>2. \A i \in DOMAIN Tail(s) : i + 1 \in DOMAIN s /\ Tail(s)[i] = s[i + 1]
    BY <1>1, SMT
  <1> QED  BY <1>1, <1>2 DEF In

\* Appending to a channel brings in only what is appended.
LEMMA ConcatHasBoth ==
    ASSUME NEW s \in Seq(Messages), NEW u \in Seq(Messages)
    PROVE  /\ s \o u \in Seq(Messages)
           /\ \A m : In(m, s \o u) => In(m, s) \/ In(m, u)
  <1>1. \A i \in DOMAIN (s \o u) :
           \/ i \in DOMAIN s /\ (s \o u)[i] = s[i]
           \/ i - Len(s) \in DOMAIN u /\ (s \o u)[i] = u[i - Len(s)]
    BY SMT
  <1> QED  BY <1>1 DEF In

\* What sendToDevice may do to the channels, whether messages are lost or not.
LEMMA SentChannels ==
    ASSUME NEW d \in Devices, NEW boxes \in Inboxes, NEW msgs \in Seq(Messages),
           trouble \in 0..MaxTrouble, Sent(d, boxes, msgs)
    PROVE  /\ inbox' \in Inboxes
           /\ trouble' \in 0..MaxTrouble
           /\ \A e \in Devices : e # Other(d) => inbox'[e] = boxes[e]
           /\ \A m : In(m, inbox'[Other(d)]) => In(m, boxes[Other(d)]) \/ In(m, msgs)
  <1>0. Other(d) \in Devices  BY OtherDevice
  <1>1. CASE inbox' = [boxes EXCEPT ![Other(d)] = @ \o msgs] /\ UNCHANGED trouble
    <2>1. boxes[Other(d)] \in Seq(Messages)  BY <1>0 DEF Inboxes
    <2>2. boxes[Other(d)] \o msgs \in Seq(Messages)  BY <2>1, ConcatHasBoth
    <2>3. inbox'[Other(d)] = boxes[Other(d)] \o msgs  BY <1>0, <1>1 DEF Inboxes
    <2>4. inbox' \in Inboxes  BY <1>1, <2>2 DEF Inboxes
    <2>5. \A e \in Devices : e # Other(d) => inbox'[e] = boxes[e]  BY <1>1 DEF Inboxes
    <2> QED  BY <1>1, <2>1, <2>3, <2>4, <2>5, ConcatHasBoth
  <1>2. ASSUME NEW some \in {<<>>} \cup {<<msgs[i]>> : i \in DOMAIN msgs},
               inbox' = [boxes EXCEPT ![Other(d)] = @ \o some], Trouble
        PROVE  /\ inbox' \in Inboxes
               /\ trouble' \in 0..MaxTrouble
               /\ \A e \in Devices : e # Other(d) => inbox'[e] = boxes[e]
               /\ \A m : In(m, inbox'[Other(d)]) => In(m, boxes[Other(d)]) \/ In(m, msgs)
    <2>1. boxes[Other(d)] \in Seq(Messages)  BY <1>0 DEF Inboxes
    <2>2. some \in Seq(Messages) /\ \A m : In(m, some) => In(m, msgs)
      <3>1. CASE some = <<>>  BY <3>1, SMT DEF In
      <3>2. ASSUME NEW i \in DOMAIN msgs, some = <<msgs[i]>>
            PROVE  some \in Seq(Messages) /\ \A m : In(m, some) => In(m, msgs)
        <4>1. msgs[i] \in Messages  BY ElementOfSeq, SMT
        <4>2. DOMAIN some = {1} /\ some[1] = msgs[i]  BY <3>2, SMT
        <4>3. some \in Seq(Messages)  BY <3>2, <4>1, SMT
        <4> QED  BY <4>2, <4>3 DEF In
      <3> QED  BY <3>1, <3>2
    <2>3. boxes[Other(d)] \o some \in Seq(Messages)  BY <2>1, <2>2, ConcatHasBoth
    <2>4. inbox'[Other(d)] = boxes[Other(d)] \o some  BY <1>0, <1>2 DEF Inboxes
    <2>5. inbox' \in Inboxes  BY <1>2, <2>3 DEF Inboxes
    <2>6. \A e \in Devices : e # Other(d) => inbox'[e] = boxes[e]  BY <1>2 DEF Inboxes
    <2>7. trouble' \in 0..MaxTrouble  BY <1>2, VerificationAssumption DEF Trouble
    <2> QED  BY <2>1, <2>2, <2>4, <2>5, <2>6, <2>7, ConcatHasBoth
  <1> QED  BY <1>1, <1>2 DEF Sent

\* A one-message sequence.
LEMMA OneMessage ==
    ASSUME NEW x \in Messages
    PROVE  <<x>> \in Seq(Messages) /\ \A m : In(m, <<x>>) <=> m = x
  <1>1. DOMAIN <<x>> = {1} /\ <<x>>[1] = x  BY SMT
  <1>2. <<x>> \in Seq(Messages)  BY SMT
  <1> QED  BY <1>1, <1>2 DEF In

\* The two messages that answer a .start.
LEMMA AcceptAndKey ==
    /\ <<"accept", "key">> \in Seq(Messages)
    /\ \A m : In(m, <<"accept", "key">>) <=> m \in {"accept", "key"}
  <1>1. /\ DOMAIN <<"accept", "key">> = {1, 2}
        /\ <<"accept", "key">>[1] = "accept" /\ <<"accept", "key">>[2] = "key"
    BY SMT
  <1>2. <<"accept", "key">> \in Seq(Messages)  BY SMT DEF Messages
  <1> QED  BY <1>1, <1>2 DEF In

\* Sending one message from a typed state.
LEMMA SendChannels ==
    ASSUME TypeOK, NEW d \in Devices, NEW x \in Messages, Send(d, <<x>>)
    PROVE  /\ inbox' \in Inboxes
           /\ trouble' \in 0..MaxTrouble
           /\ \A e \in Devices : e # Other(d) => inbox'[e] = inbox[e]
           /\ \A m : In(m, inbox'[Other(d)]) => In(m, inbox[Other(d)]) \/ m = x
  <1>1. inbox \in Inboxes /\ trouble \in 0..MaxTrouble  BY DEF TypeOK, Inboxes
  <1>2. <<x>> \in Seq(Messages) /\ \A m : In(m, <<x>>) <=> m = x  BY OneMessage
  <1>3. Sent(d, inbox, <<x>>)  BY DEF Send
  <1>4. /\ inbox' \in Inboxes
        /\ trouble' \in 0..MaxTrouble
        /\ \A e \in Devices : e # Other(d) => inbox'[e] = inbox[e]
        /\ \A m : In(m, inbox'[Other(d)]) => In(m, inbox[Other(d)]) \/ In(m, <<x>>)
    BY <1>1, <1>2, <1>3, SentChannels
  <1> QED  BY <1>2, <1>4

\* Handling a message and answering it.
LEMMA ReplyChannels ==
    ASSUME TypeOK, NEW d \in Devices, inbox[d] # <<>>, NEW msgs \in Seq(Messages),
           ConsumeAndReply(d, msgs)
    PROVE  /\ inbox' \in Inboxes
           /\ trouble' \in 0..MaxTrouble
           /\ \A e \in Devices : \A m : In(m, inbox'[e]) => In(m, inbox[e]) \/ In(m, msgs)
  <1> DEFINE boxes == [inbox EXCEPT ![d] = Tail(@)]
  <1>1. inbox \in Inboxes /\ trouble \in 0..MaxTrouble  BY DEF TypeOK, Inboxes
  <1>2. /\ Tail(inbox[d]) \in Seq(Messages)
        /\ \A m : In(m, Tail(inbox[d])) => In(m, inbox[d])
    BY <1>1, TailHasLess DEF Inboxes
  <1>3. boxes \in Inboxes /\ boxes[d] = Tail(inbox[d])
        /\ \A e \in Devices : e # d => boxes[e] = inbox[e]
    BY <1>1, <1>2 DEF Inboxes
  <1>4. \A e \in Devices : \A m : In(m, boxes[e]) => In(m, inbox[e])
    BY <1>2, <1>3
  <1>5. Sent(d, boxes, msgs)  BY DEF ConsumeAndReply
  <1>6. /\ inbox' \in Inboxes
        /\ trouble' \in 0..MaxTrouble
        /\ \A e \in Devices : e # Other(d) => inbox'[e] = boxes[e]
        /\ \A m : In(m, inbox'[Other(d)]) => In(m, boxes[Other(d)]) \/ In(m, msgs)
    <2> HIDE DEF boxes
    <2> QED  BY <1>1, <1>3, <1>5, SentChannels
  <1>7. \A e \in Devices : \A m : In(m, inbox'[e]) => In(m, boxes[e]) \/ In(m, msgs)
    <2> HIDE DEF boxes
    <2> QED  BY <1>6
  <1> QED  BY <1>4, <1>6, <1>7

\* Handling a message without an answer.
LEMMA ConsumeChannels ==
    ASSUME TypeOK, NEW d \in Devices, inbox[d] # <<>>, Consume(d)
    PROVE  /\ inbox' \in Inboxes
           /\ \A e \in Devices : \A m : In(m, inbox'[e]) => In(m, inbox[e])
  <1>1. inbox \in Inboxes  BY DEF TypeOK, Inboxes
  <1>2. /\ Tail(inbox[d]) \in Seq(Messages)
        /\ \A m : In(m, Tail(inbox[d])) => In(m, inbox[d])
    BY <1>1, TailHasLess DEF Inboxes
  <1>3. inbox' \in Inboxes /\ inbox'[d] = Tail(inbox[d])
        /\ \A e \in Devices : e # d => inbox'[e] = inbox[e]
    BY <1>1, <1>2 DEF Inboxes, Consume
  <1> QED  BY <1>2, <1>3

\* The message a handler takes was in the channel.
LEMMA ReceivedIsIn ==
    ASSUME TypeOK, NEW d \in Devices, NEW m, Received(d, m)
    PROVE  inbox[d] # <<>> /\ In(m, inbox[d])
  <1>1. inbox[d] \in Seq(Messages)  BY DEF TypeOK
  <1> QED  BY <1>1, TailHasLess DEF Received
-----------------------------------------------------------------------------
(* Type correctness. *)

LEMMA InitType == Init => TypeOK
  <1> SUFFICES ASSUME Init PROVE TypeOK  OBVIOUS
  <1>1. <<>> \in Seq(Messages)  BY SMT
  <1>2. inbox \in [Devices -> Seq(Messages)]  BY <1>1 DEF Init
  <1>3. trouble \in 0..MaxTrouble  BY VerificationAssumption DEF Init
  <1> QED  BY <1>2, <1>3 DEF Init, TypeOK, NoSas, States, MasterKeys

\* An unexpected trouble is within its bound.
LEMMA TroubleType ==
    ASSUME TypeOK, Trouble
    PROVE  trouble' \in 0..MaxTrouble
  BY VerificationAssumption DEF TypeOK, Trouble

\* The master key that a transaction finds for the other user.
LEMMA LookUpType ==
    ASSUME TypeOK, NEW d \in Devices, LookUpMaster(d)
    PROVE  /\ theirs' \in [Devices -> MasterKeys]
           /\ trouble' \in 0..MaxTrouble
  <1>1. master[Other(d)].published \in MasterKeys
    <2>1. master \in [Devices -> Setup]  BY VerificationAssumption DEF TypeOK
    <2>2. master[Other(d)] \in Setup  BY <2>1, OtherDevice
    <2> QED  BY <2>2 DEF Setup
  <1>2. theirs' \in [Devices -> MasterKeys]
    BY <1>1 DEF LookUpMaster, TypeOK, MasterKeys
  <1>3. trouble' \in 0..MaxTrouble  BY TroubleType DEF LookUpMaster, TypeOK
  <1> QED  BY <1>2, <1>3

\* The UI's steps.
LEMMA UIType ==
    ASSUME TypeOK, UserDecides \/ UIContinues
    PROVE  TypeOK'
  <1>0. Starter \in Devices /\ Responder \in Devices  BY DEF Devices
  <1> USE DEF TypeOK, Inboxes, Calls, Enter, States, msk
  <1>1. CASE StartVerification
    <2>1. theirs' \in [Devices -> MasterKeys] /\ trouble' \in 0..MaxTrouble
      BY <1>0, <1>1, LookUpType DEF StartVerification
    <2> QED  BY <1>0, <1>1, <2>1 DEF StartVerification
  <1>10. CASE StartRequest
    <2>1. inbox' \in Inboxes /\ trouble' \in 0..MaxTrouble
      BY <1>0, <1>10, SendChannels DEF StartRequest, Messages
    <2> QED  BY <1>0, <1>10, <2>1 DEF StartRequest
  <1>2. CASE AcceptIncoming
    <2>1. inbox' \in Inboxes /\ trouble' \in 0..MaxTrouble
      BY <1>0, <1>2, SendChannels DEF AcceptIncoming, Messages
    <2> QED  BY <1>0, <1>2, <2>1 DEF AcceptIncoming
  <1>3. CASE AcceptStart
    <2>1. inbox' \in Inboxes /\ trouble' \in 0..MaxTrouble
      BY <1>0, <1>3, SendChannels DEF AcceptStart, Messages
    <2> QED  BY <1>0, <1>3, <2>1 DEF AcceptStart
  <1>4. CASE AcceptSas
    <2>1. [valid |-> TRUE, theirKeySet |-> FALSE] \in [valid : BOOLEAN, theirKeySet : BOOLEAN]
      OBVIOUS
    <2>2. /\ sas' \in [Devices -> [valid : BOOLEAN, theirKeySet : BOOLEAN]]
          /\ state' \in [Devices -> States]
      <3>1. CASE state[Responder] = "None"
        BY <1>4, <3>1 DEF AcceptSas
      <3>2. CASE state[Responder] # "None"
        <4>1. sas' = [sas EXCEPT ![Responder] = [valid |-> TRUE, theirKeySet |-> FALSE]]
          BY <1>4, <3>2 DEF AcceptSas
        <4>2. state' = [state EXCEPT ![Responder] = "KeySent"]
          BY <1>4, <3>2 DEF AcceptSas
        <4>3. sas' \in [Devices -> [valid : BOOLEAN, theirKeySet : BOOLEAN]]
          BY <1>0, <2>1, <4>1
        <4> QED  BY <1>0, <4>2, <4>3
      <3> QED  BY <3>1, <3>2
    <2> QED  BY <1>0, <1>4, <2>2 DEF AcceptSas
  <1>5. CASE AcceptKey
    <2>1. inbox' \in Inboxes /\ trouble' \in 0..MaxTrouble
      BY <1>0, <1>5, SendChannels DEF AcceptKey, Messages
    <2> QED  BY <1>0, <1>5, <2>1 DEF AcceptKey
  <1>6. ASSUME NEW d \in Devices, ConfirmMatch(d)
        PROVE  TypeOK'
    <2>1. inbox' \in Inboxes /\ trouble' \in 0..MaxTrouble
      BY <1>6, SendChannels DEF ConfirmMatch, Messages
    <2> QED  BY <1>6, <2>1 DEF ConfirmMatch
  <1>7. ASSUME NEW d \in Devices, ConfirmWrite(d)
        PROVE  TypeOK'
    BY <1>7 DEF ConfirmWrite
  <1>8. ASSUME NEW d \in Devices, CancelVerification(d)
        PROVE  TypeOK'
    <2>1. "cancel" \in Messages  BY DEF Messages
    <2>2. inbox' \in [Devices -> Seq(Messages)]
      BY <1>8, <2>1, OtherDevice, AppendProperties DEF CancelVerification
    <2>3. trouble' \in 0..MaxTrouble  BY <1>8, TroubleType DEF CancelVerification
    <2> QED  BY <1>8, <2>2, <2>3 DEF CancelVerification
  <1>9. ASSUME NEW d \in Devices, RemoveTransaction(d)
        PROVE  TypeOK'
    BY <1>9 DEF RemoveTransaction, NoSas
  <1> QED
    BY <1>1, <1>2, <1>3, <1>4, <1>5, <1>6, <1>7, <1>8, <1>9, <1>10 DEF UserDecides, UIContinues

\* The sync worker's steps.
LEMMA WorkerType ==
    ASSUME TypeOK, NEW d \in Devices, Worker(d)
    PROVE  TypeOK'
  <1>0. \A m : Received(d, m) => inbox[d] # <<>>  BY DEF Received
  <1> USE DEF TypeOK, Inboxes, Handled, Enter, Known, States, msk
  <1>1. CASE Sweep(d)
    <2>1. inbox' \in Inboxes /\ trouble' \in 0..MaxTrouble
      <3>1. CASE Consume(d) /\ UNCHANGED trouble
        BY <1>1, <3>1, ConsumeChannels DEF Sweep
      <3>2. CASE ConsumeAndReply(d, <<"cancel">>)
        <4>1. <<"cancel">> \in Seq(Messages)  BY OneMessage DEF Messages
        <4> QED  BY <1>1, <3>2, <4>1, ReplyChannels DEF Sweep
      <3> QED  BY <1>1, <3>1, <3>2 DEF Sweep
    <2> QED  BY <1>1, <2>1 DEF Sweep, NoSas
  <1>2. CASE Ignore(d)
    <2>1. inbox' \in Inboxes  BY <1>2, ConsumeChannels DEF Ignore
    <2> QED  BY <1>2, <2>1 DEF Ignore
  <1>3. CASE HandleRequest(d)
    <2>1. inbox' \in Inboxes  BY <1>0, <1>3, ConsumeChannels DEF HandleRequest
    <2>2. theirs' \in [Devices -> MasterKeys] /\ trouble' \in 0..MaxTrouble
      BY <1>3, LookUpType DEF HandleRequest
    <2> QED  BY <1>3, <2>1, <2>2 DEF HandleRequest
  <1>4. CASE HandleReady(d)
    <2>1. inbox' \in Inboxes  BY <1>0, <1>4, ConsumeChannels DEF HandleReady
    <2> QED  BY <1>4, <2>1 DEF HandleReady
  <1>5. CASE HandleStart(d)
    <2>1. inbox' \in Inboxes /\ trouble' \in 0..MaxTrouble
      BY <1>0, <1>5, AcceptAndKey, ReplyChannels DEF HandleStart
    <2>2. [valid |-> TRUE, theirKeySet |-> FALSE] \in [valid : BOOLEAN, theirKeySet : BOOLEAN]
      OBVIOUS
    <2>3. sas' \in [Devices -> [valid : BOOLEAN, theirKeySet : BOOLEAN]]
      BY <1>5, <2>2 DEF HandleStart
    <2> QED  BY <1>5, <2>1, <2>3 DEF HandleStart
  <1>6. CASE HandleAccept(d)
    <2>1. inbox' \in Inboxes  BY <1>0, <1>6, ConsumeChannels DEF HandleAccept
    <2> QED  BY <1>6, <2>1 DEF HandleAccept
  <1>7. CASE HandleKey(d)
    <2>1. inbox' \in Inboxes  BY <1>0, <1>7, ConsumeChannels DEF HandleKey
    <2>2. trouble' \in 0..MaxTrouble  BY <1>7, TroubleType DEF HandleKey
    <2>3. (sas[d].theirKeySet \/ sas[d].valid) \in BOOLEAN  OBVIOUS
    <2>4. sas' \in [Devices -> [valid : BOOLEAN, theirKeySet : BOOLEAN]]
      <3> DEFINE b == sas[d].theirKeySet \/ sas[d].valid
      <3>1. sas' = [sas EXCEPT ![d].theirKeySet = b] /\ b \in BOOLEAN  BY <1>7, <2>3 DEF HandleKey
      <3> HIDE DEF b
      <3> QED  BY <3>1
    <2>5. early' \in BOOLEAN  BY <1>7 DEF HandleKey
    <2>6. resolved' \subseteq Devices  BY <1>7 DEF HandleKey
    <2> QED  BY <1>7, <2>1, <2>2, <2>4, <2>5, <2>6 DEF HandleKey
  <1>8. CASE HandleMac(d)
    <2>1. inbox' \in Inboxes  BY <1>0, <1>8, ConsumeChannels DEF HandleMac
    <2> QED  BY <1>8, <2>1 DEF HandleMac, Decision
  <1>9. CASE MacWrite(d)
    <2>1. inbox' \in Inboxes /\ trouble' \in 0..MaxTrouble
      BY <1>9, SendChannels DEF MacWrite, Messages
    <2> QED  BY <1>9, <2>1 DEF MacWrite
  <1>10. CASE HandleDone(d)
    <2>1. inbox' \in Inboxes  BY <1>0, <1>10, ConsumeChannels DEF HandleDone
    <2> QED  BY <1>10, <2>1 DEF HandleDone
  <1>11. CASE HandleCancel(d)
    <2>1. inbox' \in Inboxes  BY <1>0, <1>11, ConsumeChannels DEF HandleCancel
    <2> QED  BY <1>11, <2>1 DEF HandleCancel
  <1>12. CASE Record(d)
    BY <1>12 DEF Record
  <1> QED  BY <1>1, <1>2, <1>3, <1>4, <1>5, <1>6, <1>7, <1>8, <1>9, <1>10, <1>11, <1>12 DEF Worker

LEMMA NextType == TypeOK /\ [Next]_vars => TypeOK'
  <1> SUFFICES ASSUME TypeOK, [Next]_vars PROVE TypeOK'  OBVIOUS
  <1>1. CASE UserDecides \/ UIContinues
    BY <1>1, UIType
  <1>2. ASSUME NEW d \in Devices, Worker(d)
        PROVE  TypeOK'
    BY <1>2, WorkerType
  <1>3. ASSUME NEW d \in Devices, Expire(d)
        PROVE  TypeOK'
    BY <1>3, TroubleType DEF Expire, TypeOK, msk
  <1>4. CASE UNCHANGED vars
    BY <1>4 DEF vars, TypeOK
  <1> QED  BY <1>1, <1>2, <1>3, <1>4 DEF Next

\* Every reachable state is well typed, for any pair of devices and any
\* number of troubles (verification.cpp, verify_controller.cpp).
THEOREM TypeCorrect == Spec => []TypeOK
  <1> QED  BY InitType, NextType, PTL DEF Spec
-----------------------------------------------------------------------------
(* Nobody is recorded before both users confirmed. *)

\* What a step of the protocol stands for: a mac is only sent by a device
\* whose user confirmed, a .done only when both did, and the states and the
\* handler's position that lead to Done carry the same confirmations.
Backed ==
    \A d \in Devices :
        /\ In("mac", inbox[d]) => Other(d) \in confirmed
        /\ In("done", inbox[d]) => confirmed = Devices
        /\ upc[d] = "mac" => d \in confirmed
        /\ state[d] = "MacSent" => d \in confirmed
        /\ state[d] = "Done" => confirmed = Devices
        /\ hpc[d] = "macDone" => confirmed = Devices

IInv == TypeOK /\ Backed /\ VerifiedTogether

\* A step may bring a device closer to Done only with the confirmations it
\* stands for.
LEMMA KeepsBacked ==
    ASSUME IInv, TypeOK', confirmed \subseteq confirmed',
           \A d \in Devices :
             /\ In("mac", inbox'[d]) => In("mac", inbox[d]) \/ Other(d) \in confirmed'
             /\ In("done", inbox'[d]) => In("done", inbox[d]) \/ confirmed' = Devices
             /\ upc'[d] = "mac" => upc[d] = "mac" \/ d \in confirmed'
             /\ state'[d] = "MacSent" => state[d] = "MacSent" \/ d \in confirmed'
             /\ state'[d] = "Done" => state[d] = "Done" \/ confirmed' = Devices
             /\ hpc'[d] = "macDone" => hpc[d] = "macDone" \/ confirmed' = Devices,
           recorded' # {} => recorded # {} \/ confirmed' = Devices
    PROVE  IInv'
  <1>1. confirmed = Devices => confirmed' = Devices  BY DEF TypeOK
  <1>2. Backed'  BY <1>1 DEF IInv, Backed
  <1>3. VerifiedTogether'  BY <1>1 DEF IInv, VerifiedTogether
  <1> QED  BY <1>2, <1>3 DEF IInv

LEMMA InitIInv == Init => IInv
  <1> SUFFICES ASSUME Init PROVE IInv  OBVIOUS
  <1>1. \A m : ~In(m, <<>>)  BY SMT DEF In
  <1>2. \A d \in Devices : inbox[d] = <<>>  BY DEF Init
  <1>3. Backed  BY <1>1, <1>2 DEF Backed, Init
  <1> QED  BY <1>3, InitType DEF IInv, VerifiedTogether, Init

\* The UI's steps: only confirmMatch sends a mac, for a user who confirmed.
LEMMA UIBacked ==
    ASSUME IInv, TypeOK', UserDecides \/ UIContinues
    PROVE  IInv'
  <1>0. Starter \in Devices /\ Responder \in Devices  BY DEF Devices
  <1>t. TypeOK  BY DEF IInv
  \* One message that is neither a mac nor a .done.
  <1>s. ASSUME NEW d \in Devices, NEW x \in Messages, x \notin {"mac", "done"}, Send(d, <<x>>)
        PROVE  \A e \in Devices : /\ In("mac", inbox'[e]) => In("mac", inbox[e])
                                  /\ In("done", inbox'[e]) => In("done", inbox[e])
    BY <1>t, <1>s, SendChannels, OtherDevice
  <1>1. CASE StartVerification
    BY <1>0, <1>t, <1>1, KeepsBacked DEF StartVerification, Enter, Calls, TypeOK
  <1>10. CASE StartRequest
    <2>1. \A e \in Devices : /\ In("mac", inbox'[e]) => In("mac", inbox[e])
                             /\ In("done", inbox'[e]) => In("done", inbox[e])
      BY <1>0, <1>10, <1>s DEF StartRequest, Messages
    <2> QED  BY <1>0, <1>t, <1>10, <2>1, KeepsBacked DEF StartRequest, Calls, TypeOK
  <1>2. CASE AcceptIncoming
    <2>1. \A e \in Devices : /\ In("mac", inbox'[e]) => In("mac", inbox[e])
                             /\ In("done", inbox'[e]) => In("done", inbox[e])
      BY <1>0, <1>2, <1>s DEF AcceptIncoming, Messages
    <2> QED  BY <1>0, <1>t, <1>2, <2>1, KeepsBacked DEF AcceptIncoming, Calls, TypeOK
  <1>3. CASE AcceptStart
    <2>1. \A e \in Devices : /\ In("mac", inbox'[e]) => In("mac", inbox[e])
                             /\ In("done", inbox'[e]) => In("done", inbox[e])
      BY <1>0, <1>3, <1>s DEF AcceptStart, Messages
    <2> QED  BY <1>0, <1>t, <1>3, <2>1, KeepsBacked DEF AcceptStart, Calls, TypeOK
  <1>4. CASE AcceptSas
    BY <1>0, <1>t, <1>4, KeepsBacked DEF AcceptSas, Calls, Enter, TypeOK
  <1>5. CASE AcceptKey
    <2>1. \A e \in Devices : /\ In("mac", inbox'[e]) => In("mac", inbox[e])
                             /\ In("done", inbox'[e]) => In("done", inbox[e])
      BY <1>0, <1>5, <1>s DEF AcceptKey, Messages
    <2> QED  BY <1>0, <1>t, <1>5, <2>1, KeepsBacked DEF AcceptKey, Calls, TypeOK
  <1>6. ASSUME NEW d \in Devices, ConfirmMatch(d)
        PROVE  IInv'
    <2>1. confirmed \subseteq confirmed' /\ d \in confirmed'  BY <1>6 DEF ConfirmMatch
    <2>2. \A e \in Devices :
             /\ In("mac", inbox'[e]) => In("mac", inbox[e]) \/ Other(e) \in confirmed'
             /\ In("done", inbox'[e]) => In("done", inbox[e])
      <3>1. Send(d, <<"mac">>) /\ "mac" \in Messages  BY <1>6 DEF ConfirmMatch, Messages
      <3>2. /\ \A e \in Devices : e # Other(d) => inbox'[e] = inbox[e]
            /\ \A m : In(m, inbox'[Other(d)]) => In(m, inbox[Other(d)]) \/ m = "mac"
        BY <1>t, <3>1, SendChannels
      <3>3. Other(Other(d)) = d
        <4>1. Other(d) \in Devices /\ Other(d) # d /\ Devices = {d, Other(d)}  BY OtherDevice
        <4>2. Other(Other(d)) \in Devices /\ Other(Other(d)) # Other(d)  BY <4>1, OtherDevice
        <4> QED  BY <4>1, <4>2
      <3> QED  BY <2>1, <3>2, <3>3
    <2> QED  BY <1>t, <1>6, <2>1, <2>2, KeepsBacked DEF ConfirmMatch, Calls, TypeOK
  <1>7. ASSUME NEW d \in Devices, ConfirmWrite(d)
        PROVE  IInv'
    <2>1. d \in confirmed  BY <1>7 DEF ConfirmWrite, IInv, Backed
    <2> QED  BY <1>t, <1>7, <2>1, KeepsBacked DEF ConfirmWrite, Calls, Enter, TypeOK
  <1>8. ASSUME NEW d \in Devices, CancelVerification(d)
        PROVE  IInv'
    <2>1. \A e \in Devices : /\ In("mac", inbox'[e]) => In("mac", inbox[e])
                             /\ In("done", inbox'[e]) => In("done", inbox[e])
      <3>1. "cancel" \in Messages /\ <<"cancel">> \in Seq(Messages)
            /\ \A m : In(m, <<"cancel">>) <=> m = "cancel"
        BY OneMessage DEF Messages
      <3>2. \A e \in Devices : inbox[e] \in Seq(Messages)  BY <1>t DEF TypeOK
      <3>3. \A e \in Devices : inbox'[e] = inbox[e] \/ inbox'[e] = inbox[e] \o <<"cancel">>
        <4>1. /\ inbox'[Other(d)] = Append(inbox[Other(d)], "cancel")
              /\ \A e \in Devices : e # Other(d) => inbox'[e] = inbox[e]
          BY <1>t, <1>8, OtherDevice DEF CancelVerification, TypeOK
        <4>2. Append(inbox[Other(d)], "cancel") = inbox[Other(d)] \o <<"cancel">>
          BY <3>1, <3>2, OtherDevice, AppendIsConcat
        <4> QED  BY <4>1, <4>2
      <3>4. ASSUME NEW e \in Devices, NEW m, In(m, inbox[e] \o <<"cancel">>)
            PROVE  In(m, inbox[e]) \/ m = "cancel"
        <4>1. inbox[e] \in Seq(Messages)  BY <3>2
        <4>2. In(m, inbox[e]) \/ In(m, <<"cancel">>)  BY <3>1, <3>4, <4>1, ConcatHasBoth
        <4> QED  BY <3>1, <4>2
      <3>5. ASSUME NEW e \in Devices, NEW m \in {"mac", "done"}, In(m, inbox'[e])
            PROVE  In(m, inbox[e])
        <4>1. CASE inbox'[e] = inbox[e]  BY <3>5, <4>1
        <4>2. CASE inbox'[e] = inbox[e] \o <<"cancel">>
          <5>1. In(m, inbox[e] \o <<"cancel">>)  BY <3>5, <4>2
          <5> QED  BY <3>4, <5>1
        <4> QED  BY <3>3, <4>1, <4>2
      <3> QED  BY <3>5
    <2> QED  BY <1>t, <1>8, <2>1, KeepsBacked DEF CancelVerification, Calls, TypeOK
  <1>9. ASSUME NEW d \in Devices, RemoveTransaction(d)
        PROVE  IInv'
    BY <1>t, <1>9, KeepsBacked DEF RemoveTransaction, Calls, Enter, TypeOK
  <1> QED
    BY <1>1, <1>2, <1>3, <1>4, <1>5, <1>6, <1>7, <1>8, <1>9, <1>10 DEF UserDecides, UIContinues

\* The worker's steps: Done is reached from MacSent by a mac that verifies,
\* or by a .done, and only a Done state is recorded.
LEMMA WorkerBacked ==
    ASSUME IInv, TypeOK', NEW d \in Devices, Worker(d)
    PROVE  IInv'
  <1>t. TypeOK  BY DEF IInv
  <1>0. \A m : Received(d, m) => inbox[d] # <<>> /\ In(m, inbox[d])  BY <1>t, ReceivedIsIn
  \* A step that takes a message, answers neither mac nor .done, confirms
  \* nothing and records nothing.
  <1>c. ASSUME Consume(d), inbox[d] # <<>>
        PROVE  \A e \in Devices : /\ In("mac", inbox'[e]) => In("mac", inbox[e])
                                  /\ In("done", inbox'[e]) => In("done", inbox[e])
    BY <1>t, <1>c, ConsumeChannels
  <1>1. CASE Sweep(d)
    <2>1. \A e \in Devices : /\ In("mac", inbox'[e]) => In("mac", inbox[e])
                             /\ In("done", inbox'[e]) => In("done", inbox[e])
      <3>1. CASE Consume(d)
        BY <1>1, <1>c, <3>1 DEF Sweep
      <3>2. CASE ConsumeAndReply(d, <<"cancel">>)
        <4>1. <<"cancel">> \in Seq(Messages) /\ \A m : In(m, <<"cancel">>) <=> m = "cancel"
          BY OneMessage DEF Messages
        <4>2. \A e \in Devices : \A m : In(m, inbox'[e]) => In(m, inbox[e]) \/ In(m, <<"cancel">>)
          BY <1>t, <1>1, <3>2, <4>1, ReplyChannels DEF Sweep
        <4> QED  BY <4>1, <4>2
      <3> QED  BY <1>1, <3>1, <3>2 DEF Sweep
    <2> QED  BY <1>t, <1>1, <2>1, KeepsBacked DEF Sweep, Enter, TypeOK
  <1>2. CASE Ignore(d)
    BY <1>2, <1>c, KeepsBacked DEF Ignore
  <1>3. CASE HandleRequest(d)
    BY <1>t, <1>0, <1>3, <1>c, KeepsBacked DEF HandleRequest, Enter, TypeOK
  <1>4. CASE HandleReady(d)
    BY <1>t, <1>0, <1>4, <1>c, KeepsBacked DEF HandleReady, Known, Enter, Handled, TypeOK
  <1>5. CASE HandleStart(d)
    <2>1. \A e \in Devices : \A m : In(m, inbox'[e]) => In(m, inbox[e]) \/ In(m, <<"accept", "key">>)
      BY <1>t, <1>0, <1>5, AcceptAndKey, ReplyChannels DEF HandleStart, Known
    <2>2. \A e \in Devices : /\ In("mac", inbox'[e]) => In("mac", inbox[e])
                             /\ In("done", inbox'[e]) => In("done", inbox[e])
      BY <2>1, AcceptAndKey
    <2> QED  BY <1>t, <1>5, <2>2, KeepsBacked DEF HandleStart, Enter, Handled, TypeOK
  <1>6. CASE HandleAccept(d)
    BY <1>t, <1>0, <1>6, <1>c, KeepsBacked DEF HandleAccept, Known, Enter, Handled, TypeOK
  <1>7. CASE HandleKey(d)
    BY <1>t, <1>0, <1>7, <1>c, KeepsBacked DEF HandleKey, Known, Enter, Handled, TypeOK
  <1>8. CASE HandleMac(d)
    <2>1. Other(d) \in confirmed
      BY <1>0, <1>8 DEF HandleMac, Known, IInv, Backed
    <2>2. Decision(d) = "macDone" => confirmed = Devices
      <3>1. Devices = {d, Other(d)}  BY OtherDevice
      <3>2. Decision(d) = "macDone" => state[d] = "MacSent"  BY DEF Decision
      <3>3. state[d] = "MacSent" => d \in confirmed  BY DEF IInv, Backed
      <3> QED  BY <1>t, <2>1, <3>1, <3>2, <3>3 DEF TypeOK
    <2> QED  BY <1>t, <1>0, <1>8, <1>c, <2>2, KeepsBacked DEF HandleMac, Known, Handled, TypeOK
  <1>9. CASE MacWrite(d)
    <2>1. CASE hpc[d] = "macDone" /\ Enter(d, "Done") /\ Send(d, <<"done">>)
      <3>1. confirmed = Devices  BY <2>1 DEF IInv, Backed
      <3>2. \A e \in Devices : In("mac", inbox'[e]) => In("mac", inbox[e])
        <4>1. "done" \in Messages  BY DEF Messages
        <4> QED  BY <1>t, <2>1, <4>1, SendChannels, OtherDevice
      <3> QED  BY <1>t, <1>9, <2>1, <3>1, <3>2, KeepsBacked DEF MacWrite, Enter, Handled, TypeOK
    <2>2. CASE hpc[d] = "macReceived" /\ Enter(d, "MacReceived") /\ UNCHANGED inbox
      BY <1>t, <1>9, <2>2, KeepsBacked DEF MacWrite, Enter, Handled, TypeOK
    <2>3. CASE hpc[d] = "macBad" /\ Enter(d, "Cancelled") /\ Send(d, <<"cancel">>)
      <3>1. \A e \in Devices : /\ In("mac", inbox'[e]) => In("mac", inbox[e])
                               /\ In("done", inbox'[e]) => In("done", inbox[e])
        <4>1. "cancel" \in Messages  BY DEF Messages
        <4> QED  BY <1>t, <2>3, <4>1, SendChannels, OtherDevice
      <3> QED  BY <1>t, <1>9, <2>3, <3>1, KeepsBacked DEF MacWrite, Enter, Handled, TypeOK
    <2> QED  BY <1>9, <2>1, <2>2, <2>3 DEF MacWrite
  <1>10. CASE HandleDone(d)
    <2>1. confirmed = Devices
      BY <1>0, <1>10 DEF HandleDone, Known, IInv, Backed
    <2> QED  BY <1>t, <1>0, <1>10, <1>c, <2>1, KeepsBacked DEF HandleDone, Known, Enter, Handled, TypeOK
  <1>11. CASE HandleCancel(d)
    BY <1>t, <1>0, <1>11, <1>c, KeepsBacked DEF HandleCancel, Known, Enter, Handled, TypeOK
  <1>12. CASE Record(d)
    <2>1. recorded' # {} => recorded # {} \/ confirmed = Devices
      BY <1>12 DEF Record, IInv, Backed
    <2> QED  BY <1>t, <1>12, <2>1, KeepsBacked DEF Record, Handled, TypeOK
  <1> QED  BY <1>1, <1>2, <1>3, <1>4, <1>5, <1>6, <1>7, <1>8, <1>9, <1>10, <1>11, <1>12 DEF Worker

LEMMA NextIInv == IInv /\ [Next]_vars => IInv'
  <1> SUFFICES ASSUME IInv, [Next]_vars PROVE IInv'  OBVIOUS
  <1>0. TypeOK'  BY NextType DEF IInv
  <1>1. CASE UserDecides \/ UIContinues
    BY <1>0, <1>1, UIBacked
  <1>2. ASSUME NEW d \in Devices, Worker(d)
        PROVE  IInv'
    BY <1>0, <1>2, WorkerBacked
  <1>3. ASSUME NEW d \in Devices, Expire(d)
        PROVE  IInv'
    BY <1>0, <1>3, KeepsBacked DEF Expire
  <1>4. CASE UNCHANGED vars
    BY <1>0, <1>4, KeepsBacked DEF vars
  <1> QED  BY <1>1, <1>2, <1>3, <1>4 DEF Next

\* A device is saved as verified only when both users said that the emojis
\* match, however messages are lost, calls interleave and transactions
\* expire (sync_engine.cpp:644, verification.cpp:260-292).
THEOREM NobodyTrustedAlone == Spec => []VerifiedTogether
  <1>1. IInv => VerifiedTogether  BY DEF IInv
  <1> QED  BY InitIInv, NextIInv, <1>1, PTL DEF Spec
-----------------------------------------------------------------------------
(* A mismatch has a cause. *)

\* As long as nothing was lost, cancelled or swept away, no key came before
\* its SAS, and every master key held is published, all runs in order.
Calm == ~early /\ trouble = 0 /\ ~Unpublished

\* Every mac in the channel s has a key before it.
MacLed(s) == \A i \in DOMAIN s : s[i] = "mac" => \E j \in DOMAIN s : j < i /\ s[j] = "key"

\* Every .start in the channel s is before every key.
StartsFirst(s) == \A i, j \in DOMAIN s : s[i] = "start" /\ s[j] = "key" => i < j

NothingWrong ==
    /\ old = {} /\ mismatch = {}
    /\ \A d \in Devices : hpc[d] # "macBad" /\ upc[d] # "remove"

\* A device that gets a mac has the keys to check it, or gets them first.
KeysFirst == \A d \in Devices : KeysKnown(d) \/ MacLed(inbox[d])

\* No .start, which creates the SAS anew, is handled after the key.
StartFirst ==
    /\ StartsFirst(inbox[Starter]) /\ ~In("start", inbox[Responder])
    /\ KeysKnown(Starter) => ~In("start", inbox[Starter])

\* The Responder has not sent its key yet.
Unsent ==
    \/ upc[Responder] \in {"start", "sas", "key"}
    \/ state[Responder] \in {"None", "RequestReceived"}

\* A device with a SAS has sent its key, the Responder one step later.
KeysSent ==
    /\ Unsent => ~In("key", inbox[Starter]) /\ ~KeysKnown(Starter)
    /\ sas[Starter].valid => KeysKnown(Responder) \/ In("key", inbox[Responder])
    /\ sas[Responder].valid /\ upc[Responder] # "key" =>
          KeysKnown(Starter) \/ In("key", inbox[Starter])
    /\ sas[Responder].valid =>
          state[Responder] \notin {"None", "RequestReceived"} /\ upc[Responder] \notin {"start", "sas"}
    /\ upc[Responder] = "key" => sas[Responder].valid

\* Before the request has arrived there is nothing else.
Begins ==
    /\ state[Starter] = "None" => state[Responder] = "None" /\ inbox[Responder] = <<>>
    /\ state[Responder] = "None" =>
          /\ inbox[Starter] = <<>> /\ upc[Responder] \notin {"start", "sas", "key"}
          /\ \A d \in Devices : ~sas[d].valid /\ hpc[d] = "idle"
          /\ \A i \in DOMAIN inbox[Responder] : inbox[Responder][i] = "request"
    /\ upc[Starter] = "request" => state[Starter] # "None"

InOrder == NothingWrong /\ KeysFirst /\ StartFirst /\ KeysSent /\ Begins

\* Each transaction found the master key that the other user publishes.
LookedUp == \A d \in Devices : state[d] # "None" => theirs[d] = master[Other(d)].published

CalmInv == Calm => InOrder /\ LookedUp

\* What taking the first message does to the order in a channel.
LEMMA TailOrder ==
    ASSUME NEW s \in Seq(Messages), s # <<>>
    PROVE  /\ \A m : In(m, s) /\ m # Head(s) => In(m, Tail(s))
           /\ StartsFirst(s) => StartsFirst(Tail(s))
           /\ StartsFirst(s) /\ Head(s) = "key" => ~In("start", s)
           /\ MacLed(s) /\ Head(s) # "key" => MacLed(Tail(s))
           /\ MacLed(s) => Head(s) # "mac"
  <1>1. /\ Head(s) = s[1] /\ 1 \in DOMAIN s /\ Len(s) \in Nat /\ DOMAIN s = 1..Len(s)
        /\ DOMAIN Tail(s) = 1..(Len(s) - 1)
        /\ \A i \in 1..(Len(s) - 1) : Tail(s)[i] = s[i + 1]
    BY SMT
  <1>2. \A i \in DOMAIN Tail(s) : i \in Nat /\ i + 1 \in DOMAIN s /\ Tail(s)[i] = s[i + 1]
    BY <1>1, SMT
  <1>3. \A i \in DOMAIN s : i # 1 => i \in Nat /\ i - 1 \in DOMAIN Tail(s) /\ Tail(s)[i - 1] = s[i]
    BY <1>1, SMT
  <1>4. \A m : In(m, s) /\ m # Head(s) => In(m, Tail(s))  BY <1>1, <1>3 DEF In
  <1>5. ASSUME StartsFirst(s) PROVE StartsFirst(Tail(s))
    BY <1>2, <1>5, SMT DEF StartsFirst
  <1>6. ASSUME StartsFirst(s), Head(s) = "key" PROVE ~In("start", s)
    BY <1>1, <1>6, SMT DEF StartsFirst, In
  <1>7. ASSUME MacLed(s), Head(s) # "key" PROVE MacLed(Tail(s))
    <2> SUFFICES ASSUME NEW i \in DOMAIN Tail(s), Tail(s)[i] = "mac"
                 PROVE  \E j \in DOMAIN Tail(s) : j < i /\ Tail(s)[j] = "key"
      BY DEF MacLed
    <2>1. i \in Nat /\ i + 1 \in DOMAIN s /\ s[i + 1] = "mac"  BY <1>2
    <2>2. PICK j \in DOMAIN s : j < i + 1 /\ s[j] = "key"  BY <1>7, <2>1 DEF MacLed
    <2>3. j \in Nat /\ j - 1 \in DOMAIN Tail(s) /\ Tail(s)[j - 1] = "key"
      BY <1>1, <1>3, <1>7, <2>2
    <2>4. j - 1 < i  BY <2>1, <2>2, <2>3, SMT
    <2> QED  BY <2>3, <2>4
  <1>8. ASSUME MacLed(s) PROVE Head(s) # "mac"
    BY <1>1, <1>8, SMT DEF MacLed
  <1> QED  BY <1>4, <1>5, <1>6, <1>7, <1>8

\* What a message at the end does to it.
LEMMA AppendOrder ==
    ASSUME NEW s \in Seq(Messages), NEW x \in Messages
    PROVE  LET u == s \o <<x>>
           IN  /\ u \in Seq(Messages) /\ u # <<>>
               /\ \A m : In(m, u) <=> In(m, s) \/ m = x
               /\ StartsFirst(s) /\ (x = "start" => ~In("key", s)) => StartsFirst(u)
               /\ MacLed(s) /\ (x = "mac" => In("key", s)) => MacLed(u)
               /\ \A i \in DOMAIN u : u[i] = x \/ (i \in DOMAIN s /\ u[i] = s[i])
  <1> DEFINE u == s \o <<x>>
  <1>1. /\ u \in Seq(Messages) /\ DOMAIN u = (DOMAIN s) \cup {Len(s) + 1}
        /\ \A i \in DOMAIN s : u[i] = s[i] /\ i \in Nat /\ i < Len(s) + 1
        /\ u[Len(s) + 1] = x /\ Len(s) \in Nat
    BY SMT
  <1>e. u # <<>>
    <2>1. DOMAIN <<>> = {}  BY SMT
    <2> QED  BY <1>1, <2>1
  <1> HIDE DEF u
  <1>2. \A m : In(m, u) <=> In(m, s) \/ m = x  BY <1>1 DEF In
  <1>3. ASSUME StartsFirst(s), x = "start" => ~In("key", s) PROVE StartsFirst(u)
    <2> SUFFICES ASSUME NEW i \in DOMAIN u, NEW j \in DOMAIN u, u[i] = "start", u[j] = "key"
                 PROVE  i < j
      BY DEF StartsFirst
    <2>1. CASE j \in DOMAIN s
      <3>1. In("key", s)  BY <1>1, <2>1 DEF In
      <3>2. i \in DOMAIN s  BY <1>1, <1>3, <3>1
      <3> QED  BY <1>1, <1>3, <2>1, <3>2 DEF StartsFirst
    <2>2. CASE j = Len(s) + 1
      <3>1. i \in DOMAIN s  BY <1>1, <2>2
      <3> QED  BY <1>1, <2>2, <3>1
    <2> QED  BY <1>1, <2>1, <2>2
  <1>4. ASSUME MacLed(s), x = "mac" => In("key", s) PROVE MacLed(u)
    <2> SUFFICES ASSUME NEW i \in DOMAIN u, u[i] = "mac"
                 PROVE  \E j \in DOMAIN u : j < i /\ u[j] = "key"
      BY DEF MacLed
    <2>1. CASE i \in DOMAIN s
      <3>1. PICK j \in DOMAIN s : j < i /\ s[j] = "key"  BY <1>1, <1>4, <2>1 DEF MacLed
      <3> QED  BY <1>1, <3>1
    <2>2. CASE i = Len(s) + 1
      <3>1. PICK j \in DOMAIN s : s[j] = "key"  BY <1>1, <1>4, <2>2 DEF In
      <3> QED  BY <1>1, <2>2, <3>1
    <2> QED  BY <1>1, <2>1, <2>2
  <1>5. \A i \in DOMAIN u : u[i] = x \/ (i \in DOMAIN s /\ u[i] = s[i])  BY <1>1
  <1> QED  BY <1>1, <1>e, <1>2, <1>3, <1>4, <1>5 DEF u

\* A step of the protocol while nothing goes wrong.
CalmStep == TypeOK /\ InOrder /\ TypeOK' /\ trouble = 0 /\ trouble' = 0 /\ ~early'

LEMMA TwoDevices ==
    /\ Devices = {Starter, Responder} /\ Starter # Responder
    /\ Other(Starter) = Responder /\ Other(Responder) = Starter
  BY VerificationAssumption DEF Devices, Other

\* Nothing that is sent is lost then.
LEMMA CalmSent ==
    ASSUME trouble = 0, trouble' = 0, NEW d \in Devices, NEW boxes \in Inboxes, NEW msgs,
           Sent(d, boxes, msgs)
    PROVE  /\ inbox'[Other(d)] = boxes[Other(d)] \o msgs
           /\ inbox'[d] = boxes[d]
  <1>1. ~Trouble  BY SMT DEF Trouble
  <1>2. inbox' = [boxes EXCEPT ![Other(d)] = @ \o msgs]  BY <1>1 DEF Sent
  <1> QED  BY <1>2, OtherDevice DEF Inboxes

LEMMA CalmSend ==
    ASSUME CalmStep, NEW d \in Devices, NEW x \in Messages, Send(d, <<x>>)
    PROVE  LET e == Other(d)
           IN  /\ inbox'[e] = inbox[e] \o <<x>> /\ inbox'[d] = inbox[d]
               /\ \A m : In(m, inbox'[e]) <=> In(m, inbox[e]) \/ m = x
               /\ StartsFirst(inbox[e]) /\ (x = "start" => ~In("key", inbox[e])) => StartsFirst(inbox'[e])
               /\ MacLed(inbox[e]) /\ (x = "mac" => In("key", inbox[e])) => MacLed(inbox'[e])
  <1>1. inbox \in Inboxes /\ trouble = 0 /\ trouble' = 0  BY DEF CalmStep, TypeOK, Inboxes
  <1>2. inbox'[Other(d)] = inbox[Other(d)] \o <<x>> /\ inbox'[d] = inbox[d]
    BY <1>1, CalmSent DEF Send
  <1>3. inbox[Other(d)] \in Seq(Messages)  BY <1>1, OtherDevice DEF Inboxes
  <1> QED  BY <1>2, <1>3, AppendOrder

\* Handling a message.
LEMMA CalmConsume ==
    ASSUME CalmStep, NEW d \in Devices, inbox[d] # <<>>, inbox'[d] = Tail(inbox[d])
    PROVE  /\ \A m : In(m, inbox'[d]) => In(m, inbox[d])
           /\ \A m : In(m, inbox[d]) /\ m # Head(inbox[d]) => In(m, inbox'[d])
           /\ StartsFirst(inbox[d]) => StartsFirst(inbox'[d])
           /\ StartsFirst(inbox[d]) /\ Head(inbox[d]) = "key" => ~In("start", inbox[d])
           /\ MacLed(inbox[d]) /\ Head(inbox[d]) # "key" => MacLed(inbox'[d])
           /\ MacLed(inbox[d]) => Head(inbox[d]) # "mac"
  <1>1. inbox[d] \in Seq(Messages)  BY DEF CalmStep, TypeOK
  <1> QED  BY <1>1, TailHasLess, TailOrder

\* Handling a message that is neither a .start nor a key, in a transaction
\* that exists.
LEMMA HandledOrder ==
    ASSUME CalmStep, NEW d \in Devices, state[d] # "None", inbox[d] # <<>>,
           Head(inbox[d]) \notin {"start", "key"}, Consume(d),
           UNCHANGED <<sas, resolved, old, upc, mismatch>>,
           \A e \in Devices : e # d => state'[e] = state[e] /\ hpc'[e] = hpc[e],
           state'[d] = state[d] \/ state'[d] \notin {"None", "RequestReceived"},
           hpc'[d] # "macBad"
    PROVE  InOrder'
  <1>1. inbox'[d] = Tail(inbox[d]) /\ \A e \in Devices : e # d => inbox'[e] = inbox[e]
    BY DEF Consume, CalmStep, TypeOK
  <1>2. /\ \A m : In(m, inbox'[d]) => In(m, inbox[d])
        /\ \A m : In(m, inbox[d]) /\ m # Head(inbox[d]) => In(m, inbox'[d])
        /\ StartsFirst(inbox[d]) => StartsFirst(inbox'[d])
        /\ MacLed(inbox[d]) => MacLed(inbox'[d])
    BY <1>1, CalmConsume
  <1>3. \A e \in Devices : KeysKnown(e)' <=> KeysKnown(e)  BY DEF KeysKnown
  <1>4. NothingWrong'  BY DEF CalmStep, InOrder, NothingWrong
  <1>5. KeysFirst'  BY <1>1, <1>2, <1>3 DEF CalmStep, InOrder, KeysFirst
  <1>6. StartFirst'  BY <1>1, <1>2, <1>3, TwoDevices DEF CalmStep, InOrder, StartFirst
  <1>7. Unsent' => Unsent  BY TwoDevices DEF Unsent
  <1>8. KeysSent'
    BY <1>1, <1>2, <1>3, <1>7, TwoDevices DEF CalmStep, InOrder, KeysSent
  <1>9. state[Starter] # "None" /\ state[Responder] # "None"
    BY TwoDevices DEF CalmStep, InOrder, Begins
  <1>10. Begins'  BY <1>9, TwoDevices DEF Begins
  <1> QED  BY <1>4, <1>5, <1>6, <1>8, <1>10 DEF InOrder

LEMMA StartVerificationOrder ==
    ASSUME CalmStep, StartVerification
    PROVE  InOrder'
  <1>0. Starter \in Devices /\ Responder \in Devices  BY DEF Devices
  <1>1. /\ state[Starter] = "None" /\ state' = [state EXCEPT ![Starter] = "RequestSent"]
        /\ upc' = [upc EXCEPT ![Starter] = "request"]
        /\ UNCHANGED <<sas, resolved, old, inbox, hpc, mismatch>>
    BY DEF StartVerification, Enter, Calls
  <1>2. \A e \in Devices : KeysKnown(e)' <=> KeysKnown(e)  BY <1>1 DEF KeysKnown
  <1>3. /\ state[Responder] = "None" /\ inbox[Responder] = <<>> /\ inbox[Starter] = <<>>
        /\ state'[Starter] = "RequestSent" /\ state'[Responder] = state[Responder]
        /\ upc'[Starter] = "request" /\ upc'[Responder] = upc[Responder]
    BY <1>0, <1>1, TwoDevices DEF CalmStep, TypeOK, InOrder, Begins
  <1>4. NothingWrong'  BY <1>1, <1>3, TwoDevices DEF CalmStep, InOrder, NothingWrong
  <1>5. KeysFirst'  BY <1>1, <1>2 DEF CalmStep, InOrder, KeysFirst
  <1>6. StartFirst'  BY <1>0, <1>1, <1>2 DEF CalmStep, InOrder, StartFirst
  <1>7. KeysSent'  BY <1>0, <1>1, <1>2, <1>3 DEF CalmStep, InOrder, KeysSent, Unsent
  <1>8. Begins'  BY <1>1, <1>3 DEF CalmStep, InOrder, Begins
  <1> QED  BY <1>4, <1>5, <1>6, <1>7, <1>8 DEF InOrder

\* The request itself goes out after the transaction exists.
LEMMA StartRequestOrder ==
    ASSUME CalmStep, StartRequest
    PROVE  InOrder'
  <1>0. Starter \in Devices /\ Responder \in Devices /\ "request" \in Messages
    BY DEF Devices, Messages
  <1>1. /\ upc[Starter] = "request" /\ upc' = [upc EXCEPT ![Starter] = "idle"]
        /\ UNCHANGED <<state, sas, resolved, old, hpc, mismatch>>
        /\ Send(Starter, <<"request">>)
    BY DEF StartRequest, Calls, msk
  <1>2. /\ inbox'[Starter] = inbox[Starter]
        /\ inbox'[Responder] = inbox[Responder] \o <<"request">>
        /\ \A m : In(m, inbox'[Responder]) <=> In(m, inbox[Responder]) \/ m = "request"
        /\ MacLed(inbox[Responder]) => MacLed(inbox'[Responder])
    BY <1>0, <1>1, CalmSend, TwoDevices
  <1>3. \A e \in Devices : KeysKnown(e)' <=> KeysKnown(e)  BY <1>1 DEF KeysKnown
  <1>4. /\ state[Starter] # "None" /\ upc'[Starter] = "idle" /\ upc'[Responder] = upc[Responder]
    BY <1>0, <1>1, TwoDevices DEF CalmStep, TypeOK, InOrder, Begins
  <1>5. NothingWrong'  BY <1>1, <1>4, TwoDevices DEF CalmStep, InOrder, NothingWrong
  <1>6. KeysFirst'  BY <1>2, <1>3, TwoDevices DEF CalmStep, InOrder, KeysFirst
  <1>7. StartFirst'  BY <1>0, <1>2, <1>3 DEF CalmStep, InOrder, StartFirst
  <1>8. KeysSent'  BY <1>0, <1>1, <1>2, <1>3, <1>4 DEF CalmStep, InOrder, KeysSent, Unsent
  <1>9. ASSUME state[Responder] = "None", NEW i \in DOMAIN inbox'[Responder]
        PROVE  inbox'[Responder][i] = "request"
    <2>1. inbox[Responder] \in Seq(Messages)  BY <1>0 DEF CalmStep, TypeOK
    <2>2. \/ inbox'[Responder][i] = "request"
          \/ i \in DOMAIN inbox[Responder] /\ inbox'[Responder][i] = inbox[Responder][i]
      BY <1>0, <1>2, <1>9, <2>1, AppendOrder
    <2> QED  BY <1>9, <2>2 DEF CalmStep, InOrder, Begins
  <1>10. Begins'  BY <1>1, <1>2, <1>4, <1>9 DEF CalmStep, InOrder, Begins
  <1> QED  BY <1>5, <1>6, <1>7, <1>8, <1>10 DEF InOrder

\* The Responder sends .ready, .start and, after its SAS, its key.
LEMMA AcceptOrder ==
    ASSUME CalmStep, NEW x \in {"ready", "start", "key"}, NEW step \in {"start", "sas", "idle"},
           Send(Responder, <<x>>), upc' = [upc EXCEPT ![Responder] = step],
           UNCHANGED <<state, sas, resolved, old, hpc, mismatch>>,
           \/ x = "ready" /\ step = "start" /\ upc[Responder] = "idle"
                          /\ state[Responder] = "RequestReceived"
           \/ x = "start" /\ step = "sas" /\ upc[Responder] = "start"
           \/ x = "key" /\ step = "idle" /\ upc[Responder] = "key"
    PROVE  InOrder'
  <1>0. Starter \in Devices /\ Responder \in Devices /\ x \in Messages
    BY DEF Devices, Messages
  <1>1. /\ inbox'[Responder] = inbox[Responder]
        /\ \A m : In(m, inbox'[Starter]) <=> In(m, inbox[Starter]) \/ m = x
        /\ StartsFirst(inbox[Starter]) /\ (x = "start" => ~In("key", inbox[Starter]))
              => StartsFirst(inbox'[Starter])
        /\ MacLed(inbox[Starter]) => MacLed(inbox'[Starter])
    BY <1>0, CalmSend, TwoDevices
  <1>2. \A e \in Devices : KeysKnown(e)' <=> KeysKnown(e)  BY DEF KeysKnown
  <1>3. upc'[Responder] = step /\ upc'[Starter] = upc[Starter]
    BY <1>0, TwoDevices DEF CalmStep, TypeOK
  <1>4. Unsent /\ state[Responder] # "None" /\ state[Starter] # "None"
    BY DEF CalmStep, InOrder, Begins, Unsent
  <1>5. NothingWrong'  BY <1>3, TwoDevices DEF CalmStep, InOrder, NothingWrong
  <1>6. KeysFirst'  BY <1>1, <1>2, TwoDevices DEF CalmStep, InOrder, KeysFirst
  <1>7. StartFirst'
    BY <1>0, <1>1, <1>2, <1>4 DEF CalmStep, InOrder, StartFirst, KeysSent
  <1>8. KeysSent'
    BY <1>0, <1>1, <1>2, <1>3, <1>4 DEF CalmStep, InOrder, KeysSent, Unsent
  <1>9. Begins'  BY <1>4 DEF Begins
  <1> QED  BY <1>5, <1>6, <1>7, <1>8, <1>9 DEF InOrder

\* The Responder's SAS: no key has come before it.
LEMMA AcceptSasOrder ==
    ASSUME CalmStep, AcceptSas
    PROVE  InOrder'
  <1>0. Starter \in Devices /\ Responder \in Devices
    BY DEF Devices
  <1>1. upc[Responder] = "sas" /\ state[Responder] # "None" /\ ~sas[Responder].valid
    BY DEF AcceptSas, CalmStep, InOrder, Begins, KeysSent
  <1>2. /\ sas' = [sas EXCEPT ![Responder] = [valid |-> TRUE, theirKeySet |-> FALSE]]
        /\ state' = [state EXCEPT ![Responder] = "KeySent"]
        /\ upc' = [upc EXCEPT ![Responder] = "key"]
        /\ UNCHANGED <<resolved, old, inbox, hpc, mismatch>>
    BY <1>1 DEF AcceptSas, Enter, Calls
  <1>3. /\ sas'[Responder] = [valid |-> TRUE, theirKeySet |-> FALSE] /\ sas'[Starter] = sas[Starter]
        /\ state'[Responder] = "KeySent" /\ state'[Starter] = state[Starter]
        /\ upc'[Responder] = "key" /\ upc'[Starter] = upc[Starter]
    BY <1>0, <1>2, TwoDevices DEF CalmStep, TypeOK
  <1>4. sas'[Responder].valid /\ ~sas'[Responder].theirKeySet  BY <1>3
  <1>5. /\ KeysKnown(Starter)' <=> KeysKnown(Starter)
        /\ ~KeysKnown(Responder) /\ ~KeysKnown(Responder)'
    BY <1>1, <1>2, <1>3, <1>4 DEF KeysKnown
  <1>6. Unsent /\ state[Starter] # "None"  BY <1>1 DEF CalmStep, InOrder, Begins, Unsent
  <1>7. NothingWrong'  BY <1>2, <1>3, TwoDevices DEF CalmStep, InOrder, NothingWrong
  <1>8. KeysFirst'  BY <1>2, <1>5, TwoDevices DEF CalmStep, InOrder, KeysFirst
  <1>9. StartFirst'  BY <1>2, <1>5 DEF CalmStep, InOrder, StartFirst
  <1>10. KeysSent'
    BY <1>2, <1>3, <1>4, <1>5, <1>6 DEF CalmStep, InOrder, KeysSent
  <1>11. Begins'  BY <1>3, <1>6 DEF Begins
  <1> QED  BY <1>7, <1>8, <1>9, <1>10, <1>11 DEF InOrder

\* A message that is neither a .start nor a key; a mac only from a device
\* that has sent its key.
LEMMA SentOrder ==
    ASSUME CalmStep, NEW d \in Devices, NEW x \in Messages \ {"start", "key"}, Send(d, <<x>>),
           x = "mac" => KeysKnown(Other(d)) \/ In("key", inbox[Other(d)]),
           state[Responder] # "None",
           UNCHANGED <<sas, resolved, old, mismatch>>,
           \A e \in Devices : e # d => upc'[e] = upc[e] /\ state'[e] = state[e] /\ hpc'[e] = hpc[e],
           upc'[d] = upc[d] \/ (upc[d] = "idle" /\ upc'[d] = "mac"),
           state'[d] = state[d] \/ state'[d] \notin {"None", "RequestReceived"},
           hpc'[d] # "macBad"
    PROVE  InOrder'
  <1>1. /\ inbox'[d] = inbox[d]
        /\ \A m : In(m, inbox'[Other(d)]) <=> In(m, inbox[Other(d)]) \/ m = x
        /\ StartsFirst(inbox[Other(d)]) => StartsFirst(inbox'[Other(d)])
        /\ MacLed(inbox[Other(d)]) /\ (x = "mac" => In("key", inbox[Other(d)]))
              => MacLed(inbox'[Other(d)])
    BY CalmSend
  <1>2. \A e \in Devices : KeysKnown(e)' <=> KeysKnown(e)  BY DEF KeysKnown
  <1>3. \A e \in Devices : /\ In("key", inbox'[e]) <=> In("key", inbox[e])
                           /\ In("start", inbox'[e]) <=> In("start", inbox[e])
                           /\ StartsFirst(inbox[e]) => StartsFirst(inbox'[e])
    BY <1>1, OtherDevice
  <1>4. Starter \in Devices /\ Responder \in Devices  BY DEF Devices
  <1>5. NothingWrong'  BY DEF CalmStep, InOrder, NothingWrong
  <1>6. KeysFirst'
    <2> SUFFICES ASSUME NEW e \in Devices PROVE KeysKnown(e)' \/ MacLed(inbox'[e])
      BY DEF KeysFirst
    <2>1. KeysKnown(e) \/ MacLed(inbox[e])  BY DEF CalmStep, InOrder, KeysFirst
    <2> QED  BY <1>1, <1>2, <2>1, OtherDevice
  <1>7. StartFirst'  BY <1>2, <1>3, <1>4 DEF CalmStep, InOrder, StartFirst
  <1>8. Unsent' => Unsent
    <2>1. upc'[Responder] = upc[Responder] \/ upc'[Responder] = "mac"  BY <1>4
    <2>2. state'[Responder] = state[Responder] \/ state'[Responder] \notin {"None", "RequestReceived"}
      BY <1>4
    <2> QED  BY <2>1, <2>2 DEF Unsent
  <1>9. KeysSent'
    <2>1. \/ upc'[Responder] = upc[Responder]
          \/ upc[Responder] = "idle" /\ upc'[Responder] = "mac"
      BY <1>4
    <2>2. state'[Responder] = state[Responder] \/ state'[Responder] \notin {"None", "RequestReceived"}
      BY <1>4
    <2> QED  BY <1>2, <1>3, <1>4, <1>8, <2>1, <2>2 DEF CalmStep, InOrder, KeysSent
  <1>10. Begins'
    <2>1. state[Starter] # "None"  BY DEF CalmStep, InOrder, Begins
    <2>2. \A e \in Devices : state[e] # "None" => state'[e] # "None"  OBVIOUS
    <2> QED  BY <1>4, <2>1, <2>2 DEF Begins
  <1> QED  BY <1>5, <1>6, <1>7, <1>9, <1>10 DEF InOrder

\* The .start comes before the key, and the answer to it ends in a key.
LEMMA HandleStartOrder ==
    ASSUME CalmStep, NEW d \in Devices, HandleStart(d)
    PROVE  InOrder'
  <1>0. Starter \in Devices /\ Responder \in Devices /\ {"accept", "key"} \subseteq Messages
    BY DEF Devices, Messages
  <1>1. /\ inbox[d] # <<>> /\ Head(inbox[d]) = "start" /\ state[d] # "None"
        /\ In("start", inbox[d])
        /\ sas' = [sas EXCEPT ![d] = [valid |-> TRUE, theirKeySet |-> FALSE]]
        /\ state' = [state EXCEPT ![d] = "KeySent"] /\ hpc' = [hpc EXCEPT ![d] = "check"]
        /\ UNCHANGED <<resolved, old, upc, mismatch>>
        /\ ConsumeAndReply(d, <<"accept", "key">>)
    BY ReceivedIsIn DEF HandleStart, Known, Received, Enter, Handled, CalmStep
  <1>2. d = Starter
    BY <1>1, TwoDevices DEF CalmStep, InOrder, StartFirst
  <1> DEFINE boxes == [inbox EXCEPT ![d] = Tail(@)]
  <1>3. inbox'[Starter] = Tail(inbox[Starter]) /\ inbox'[Responder] = inbox[Responder] \o <<"accept", "key">>
    <2>1. Tail(inbox[d]) \in Seq(Messages)
      BY <1>1, TailHasLess DEF CalmStep, TypeOK
    <2>2. inbox \in Inboxes  BY DEF CalmStep, TypeOK, Inboxes
    <2>3. boxes \in Inboxes /\ boxes[Starter] = Tail(inbox[Starter]) /\ boxes[Responder] = inbox[Responder]
      BY <1>0, <1>2, <2>1, <2>2, TwoDevices DEF Inboxes
    <2>4. Sent(d, boxes, <<"accept", "key">>)  BY <1>1 DEF ConsumeAndReply
    <2>5. trouble = 0 /\ trouble' = 0  BY DEF CalmStep
    <2> HIDE DEF boxes
    <2>6. /\ inbox'[Other(d)] = boxes[Other(d)] \o <<"accept", "key">>
          /\ inbox'[d] = boxes[d]
      BY <2>3, <2>4, <2>5, CalmSent
    <2>7. Other(d) = Responder  BY <1>2, TwoDevices
    <2> QED  BY <1>2, <2>3, <2>6, <2>7
  <1>4. /\ \A m : In(m, inbox'[Starter]) => In(m, inbox[Starter])
        /\ \A m : In(m, inbox[Starter]) /\ m # "start" => In(m, inbox'[Starter])
        /\ StartsFirst(inbox[Starter]) => StartsFirst(inbox'[Starter])
        /\ MacLed(inbox[Starter]) => MacLed(inbox'[Starter])
    BY <1>0, <1>1, <1>2, <1>3, CalmConsume
  <1>5. /\ In("key", inbox'[Responder]) /\ (In("start", inbox'[Responder]) => In("start", inbox[Responder]))
        /\ MacLed(inbox[Responder]) => MacLed(inbox'[Responder])
    <2> DEFINE s == inbox[Responder]
               u == s \o <<"accept">>
    <2>1. s \in Seq(Messages)  BY <1>0 DEF CalmStep, TypeOK
    <2>2. s \o <<"accept", "key">> = u \o <<"key">>  BY <2>1, SMT
    <2> HIDE DEF s
    <2>3. /\ u \in Seq(Messages) /\ (In("start", u) => In("start", s)) /\ (MacLed(s) => MacLed(u))
      BY <1>0, <2>1, AppendOrder
    <2> HIDE DEF u
    <2>4. /\ In("key", u \o <<"key">>) /\ (In("start", u \o <<"key">>) => In("start", u))
          /\ MacLed(u) => MacLed(u \o <<"key">>)
      BY <1>0, <2>3, AppendOrder
    <2> QED  BY <1>3, <2>2, <2>3, <2>4 DEF s
  <1>6. /\ sas'[Starter] = [valid |-> TRUE, theirKeySet |-> FALSE] /\ sas'[Responder] = sas[Responder]
        /\ state'[Starter] = "KeySent" /\ state'[Responder] = state[Responder]
        /\ hpc'[Starter] = "check" /\ hpc'[Responder] = hpc[Responder]
    BY <1>0, <1>1, <1>2, TwoDevices DEF CalmStep, TypeOK
  <1>7. sas'[Starter].valid /\ ~sas'[Starter].theirKeySet  BY <1>6
  <1>8. /\ KeysKnown(Responder)' <=> KeysKnown(Responder)
        /\ ~KeysKnown(Starter)'
    BY <1>1, <1>6, <1>7 DEF KeysKnown
  <1>9. ~KeysKnown(Starter)
    BY <1>1, <1>2 DEF CalmStep, InOrder, StartFirst
  <1>10. NothingWrong'  BY <1>1, <1>6, TwoDevices DEF CalmStep, InOrder, NothingWrong
  <1>11. KeysFirst'
    BY <1>0, <1>4, <1>5, <1>8, <1>9, TwoDevices DEF CalmStep, InOrder, KeysFirst
  <1>12. StartFirst'  BY <1>4, <1>5, <1>8 DEF CalmStep, InOrder, StartFirst
  <1>13. KeysSent'
    BY <1>1, <1>4, <1>5, <1>6, <1>8, <1>9 DEF CalmStep, InOrder, KeysSent, Unsent
  <1>14. state[Responder] # "None"
    BY <1>1, <1>2 DEF CalmStep, InOrder, Begins
  <1>15. Begins'  BY <1>6, <1>14 DEF Begins
  <1> QED  BY <1>10, <1>11, <1>12, <1>13, <1>15 DEF InOrder

\* After the key a device can check a mac.
LEMMA HandleKeyOrder ==
    ASSUME CalmStep, NEW d \in Devices, HandleKey(d)
    PROVE  InOrder'
  <1>0. Starter \in Devices /\ Responder \in Devices  BY DEF Devices
  <1>1. /\ inbox[d] # <<>> /\ Head(inbox[d]) = "key" /\ state[d] # "None"
        /\ In("key", inbox[d]) /\ sas[d].valid
        /\ sas' = [sas EXCEPT ![d].theirKeySet = @ \/ sas[d].valid]
        /\ state' = [state EXCEPT ![d] = "KeyReceived"] /\ hpc' = [hpc EXCEPT ![d] = "check"]
        /\ UNCHANGED <<old, upc, mismatch>>
        /\ Consume(d)
    BY ReceivedIsIn DEF HandleKey, Known, Received, Enter, Handled, CalmStep
  <1>2. resolved' = resolved \cup {d}
    <2>1. ~Trouble  BY SMT DEF CalmStep, Trouble
    <2> QED  BY <2>1 DEF HandleKey
  <1>3. inbox'[d] = Tail(inbox[d]) /\ \A e \in Devices : e # d => inbox'[e] = inbox[e]
    BY <1>1 DEF Consume, CalmStep, TypeOK
  <1>4. /\ \A m : In(m, inbox'[d]) => In(m, inbox[d])
        /\ StartsFirst(inbox[d]) => StartsFirst(inbox'[d])
        /\ StartsFirst(inbox[d]) => ~In("start", inbox[d])
    BY <1>1, <1>3, CalmConsume
  <1>5. /\ sas'[d].valid = sas[d].valid /\ sas'[d].theirKeySet = (sas[d].theirKeySet \/ sas[d].valid)
        /\ \A e \in Devices : e # d => sas'[e] = sas[e]
    <2> DEFINE b == sas[d].theirKeySet \/ sas[d].valid
    <2>1. sas' = [sas EXCEPT ![d].theirKeySet = b]  BY <1>1
    <2>2. sas \in [Devices -> [valid : BOOLEAN, theirKeySet : BOOLEAN]]  BY DEF CalmStep, TypeOK
    <2> HIDE DEF b
    <2>3. /\ sas'[d].valid = sas[d].valid /\ sas'[d].theirKeySet = b
          /\ \A e \in Devices : e # d => sas'[e] = sas[e]
      BY <2>1, <2>2
    <2> QED  BY <2>3 DEF b
  <1>6. KeysKnown(d)' /\ \A e \in Devices : e # d => (KeysKnown(e)' <=> KeysKnown(e))
    BY <1>1, <1>2, <1>5 DEF KeysKnown
  <1>7. /\ \A e \in Devices : e # d => state'[e] = state[e] /\ hpc'[e] = hpc[e]
        /\ state'[d] = "KeyReceived" /\ hpc'[d] = "check"
    BY <1>1 DEF CalmStep, TypeOK
  <1>8. NothingWrong'  BY <1>1, <1>7 DEF CalmStep, InOrder, NothingWrong
  <1>9. KeysFirst'
    BY <1>3, <1>6 DEF CalmStep, InOrder, KeysFirst
  <1>10. StartFirst'
    BY <1>0, <1>3, <1>4, <1>6, TwoDevices DEF CalmStep, InOrder, StartFirst
  <1>11. Unsent' => Unsent  BY <1>1, <1>7, TwoDevices DEF Unsent
  <1>12. d = Starter => ~Unsent  BY <1>1 DEF CalmStep, InOrder, KeysSent
  <1>13. KeysSent'
    <2>1. CASE d = Starter
      BY <1>0, <1>1, <1>3, <1>5, <1>6, <1>7, <1>11, <1>12, <2>1, TwoDevices
         DEF CalmStep, InOrder, KeysSent
    <2>2. CASE d = Responder
      BY <1>0, <1>1, <1>3, <1>5, <1>6, <1>7, <1>11, <2>2, TwoDevices
         DEF CalmStep, InOrder, KeysSent
    <2> QED  BY <2>1, <2>2, TwoDevices
  <1>14. state[Starter] # "None" /\ state[Responder] # "None"
    BY <1>1, TwoDevices DEF CalmStep, InOrder, Begins
  <1>15. Begins'  BY <1>7, <1>14, TwoDevices DEF Begins
  <1> QED  BY <1>8, <1>9, <1>10, <1>13, <1>15 DEF InOrder

LEMMA HandleRequestOrder ==
    ASSUME CalmStep, NEW d \in Devices, HandleRequest(d)
    PROVE  InOrder'
  <1>0. Starter \in Devices /\ Responder \in Devices  BY DEF Devices
  <1>1. /\ inbox[d] # <<>> /\ Head(inbox[d]) = "request" /\ state[d] = "None"
        /\ state' = [state EXCEPT ![d] = "RequestReceived"]
        /\ UNCHANGED <<sas, resolved, old, upc, hpc, mismatch>>
        /\ Consume(d)
    BY DEF HandleRequest, Received, Enter
  <1>2. d = Responder /\ state[Starter] # "None"
    BY <1>1, TwoDevices DEF CalmStep, InOrder, Begins
  <1>3. inbox'[d] = Tail(inbox[d]) /\ inbox'[Starter] = inbox[Starter]
    BY <1>0, <1>1, <1>2, TwoDevices DEF Consume, CalmStep, TypeOK
  <1>4. /\ \A m : In(m, inbox'[d]) => In(m, inbox[d])
        /\ MacLed(inbox[d]) => MacLed(inbox'[d])
    BY <1>1, <1>3, CalmConsume
  <1>5. \A e \in Devices : KeysKnown(e)' <=> KeysKnown(e)  BY <1>1 DEF KeysKnown
  <1>6. state'[Starter] = state[Starter] /\ state'[Responder] = "RequestReceived"
    BY <1>0, <1>1, <1>2, TwoDevices DEF CalmStep, TypeOK
  <1>7. ~sas[Starter].valid /\ ~sas[Responder].valid /\ Unsent
    BY <1>0, <1>1, <1>2 DEF CalmStep, InOrder, Begins, Unsent
  <1>8. NothingWrong'  BY <1>1 DEF CalmStep, InOrder, NothingWrong
  <1>9. KeysFirst'  BY <1>2, <1>3, <1>4, <1>5, TwoDevices DEF CalmStep, InOrder, KeysFirst
  <1>10. StartFirst'  BY <1>0, <1>2, <1>3, <1>4, <1>5 DEF CalmStep, InOrder, StartFirst
  <1>11. KeysSent'
    BY <1>0, <1>1, <1>3, <1>5, <1>6, <1>7 DEF CalmStep, InOrder, KeysSent
  <1>12. Begins'  BY <1>2, <1>6 DEF Begins
  <1> QED  BY <1>8, <1>9, <1>10, <1>11, <1>12 DEF InOrder

\* A master key that is looked up and published is the one a mac names.
LEMMA MasterKeyAgrees ==
    ASSUME LookedUp, ~Unpublished, NEW d \in Devices, state[d] # "None"
    PROVE  MasterAgrees(d)
  <1>1. master[Other(d)].held \in {"none", master[Other(d)].published}
    BY OtherDevice DEF Unpublished
  <1>2. theirs[d] = master[Other(d)].published  BY DEF LookedUp
  <1> QED  BY <1>1, <1>2 DEF MasterAgrees, NamesMaster

\* A transaction that begins looks the master key up; no other step makes one.
LEMMA NextLooked ==
    ASSUME CalmStep, LookedUp, [Next]_vars, master' = master
    PROVE  LookedUp'
  <1>0. Starter \in Devices /\ Responder \in Devices  BY DEF Devices
  <1>1. ~Trouble  BY SMT DEF CalmStep, Trouble
  <1>2. CASE theirs' = theirs /\ \A d \in Devices : state[d] = "None" => state'[d] = "None"
    BY <1>2 DEF LookedUp
  <1>3. ASSUME NEW d \in Devices, LookUpMaster(d),
               \A e \in Devices : e # d => state'[e] = state[e]
        PROVE  LookedUp'
    <2>1. theirs' = [theirs EXCEPT ![d] = master[Other(d)].published]
      BY <1>1, <1>3 DEF LookUpMaster
    <2> QED  BY <1>3, <2>1 DEF LookedUp, CalmStep, TypeOK
  <1>4. CASE StartVerification
    BY <1>0, <1>3, <1>4 DEF StartVerification, Enter, CalmStep, TypeOK
  <1>5. ASSUME NEW d \in Devices, HandleRequest(d) PROVE LookedUp'
    BY <1>3, <1>5 DEF HandleRequest, Enter, CalmStep, TypeOK
  <1>6. ASSUME NEW d \in Devices, MacWrite(d) PROVE LookedUp'
    <2>1. hpc[d] # "idle"  BY <1>6 DEF MacWrite
    <2>2. state[Responder] # "None" /\ state[Starter] # "None"
      BY <2>1 DEF CalmStep, InOrder, Begins
    <2> QED  BY <1>2, <1>6, <2>2, TwoDevices DEF MacWrite, msk
  <1>7. CASE StartRequest \/ AcceptIncoming \/ AcceptStart \/ AcceptSas \/ AcceptKey
    BY <1>0, <1>2, <1>7
       DEF StartRequest, AcceptIncoming, AcceptStart, AcceptSas, AcceptKey, Enter, msk, CalmStep, TypeOK
  <1>8. ASSUME NEW d \in Devices, \/ ConfirmMatch(d) \/ ConfirmWrite(d) \/ CancelVerification(d)
                                  \/ RemoveTransaction(d) \/ Expire(d)
        PROVE  LookedUp'
    BY <1>2, <1>8
       DEF ConfirmMatch, ConfirmWrite, CancelVerification, RemoveTransaction, Expire, Enter, msk,
           CalmStep, TypeOK
  <1>9. ASSUME NEW d \in Devices, \/ Sweep(d) \/ Ignore(d) \/ HandleReady(d) \/ HandleStart(d)
                                  \/ HandleAccept(d) \/ HandleKey(d) \/ HandleMac(d)
                                  \/ HandleDone(d) \/ HandleCancel(d) \/ Record(d)
        PROVE  LookedUp'
    BY <1>2, <1>9
       DEF Sweep, Ignore, HandleReady, HandleStart, HandleAccept, HandleKey, HandleMac, HandleDone,
           HandleCancel, Record, Known, Enter, msk, CalmStep, TypeOK
  <1>10. CASE UNCHANGED vars  BY <1>2, <1>10 DEF vars
  <1> QED
    BY <1>4, <1>5, <1>6, <1>7, <1>8, <1>9, <1>10 DEF Next, UserDecides, UIContinues, Worker

\* While nothing goes wrong every step keeps the order.
LEMMA NextOrder == TypeOK /\ CalmInv /\ [Next]_vars => CalmInv'
  <1> SUFFICES ASSUME TypeOK, CalmInv, [Next]_vars, ~early', trouble' = 0, ~Unpublished'
               PROVE  InOrder' /\ LookedUp'
    BY DEF CalmInv, Calm
  <1>1. early \in BOOLEAN /\ trouble \in Nat /\ TypeOK'
    BY NextType, SMT DEF TypeOK
  <1>2. early' = early \/ \E d \in Devices : early' = (early \/ ~sas[d].valid)
    BY DEF Next, UserDecides, UIContinues, Worker, StartVerification, StartRequest, AcceptIncoming, AcceptStart,
           AcceptSas, AcceptKey, ConfirmMatch, ConfirmWrite, CancelVerification, RemoveTransaction,
           Sweep, Ignore, HandleRequest, HandleReady, HandleStart, HandleAccept, HandleKey,
           HandleMac, MacWrite, HandleDone, HandleCancel, Record, Expire, vars
  <1>3. trouble' = trouble \/ trouble' = trouble + 1
    <2>1. CASE UserDecides \/ UIContinues
      BY <2>1
         DEF UserDecides, UIContinues, StartVerification, StartRequest, AcceptIncoming, AcceptStart,
             AcceptSas, AcceptKey, ConfirmMatch, ConfirmWrite, CancelVerification, RemoveTransaction,
             Trouble, Send, Sent, LookUpMaster
    <2>2. ASSUME NEW d \in Devices, Worker(d) \/ Expire(d)
          PROVE  trouble' = trouble \/ trouble' = trouble + 1
      BY <2>2
         DEF Worker, Sweep, Ignore, HandleRequest, HandleReady, HandleStart, HandleAccept, HandleKey,
             HandleMac, MacWrite, HandleDone, HandleCancel, Record, Expire, Trouble, Send, Sent,
             ConsumeAndReply, LookUpMaster
    <2> QED  BY <2>1, <2>2 DEF Next, vars
  <1>4. ~early  BY <1>1, <1>2, Zenon
  <1>5. trouble = 0 /\ ~Trouble  BY <1>1, <1>3, SMT DEF Trouble
  <1>m. master' = master
    BY DEF Next, UserDecides, UIContinues, Worker, StartVerification, StartRequest, AcceptIncoming, AcceptStart,
           AcceptSas, AcceptKey, ConfirmMatch, ConfirmWrite, CancelVerification, RemoveTransaction,
           Sweep, Ignore, HandleRequest, HandleReady, HandleStart, HandleAccept, HandleKey,
           HandleMac, MacWrite, HandleDone, HandleCancel, Record, Expire, vars, msk
  <1>u. ~Unpublished  BY <1>m DEF Unpublished
  <1>6. CalmStep /\ LookedUp  BY <1>1, <1>4, <1>5, <1>u DEF CalmInv, Calm, CalmStep
  <1>l. LookedUp'  BY <1>6, <1>m, NextLooked
  <1> SUFFICES InOrder'  BY <1>l
  <1>7. ASSUME NEW d \in Devices, Known(d, "start") \/ Known(d, "key")
        PROVE  state[d] # "None"
    BY <1>7 DEF Known
  <1>8. Starter \in Devices /\ Responder \in Devices  BY DEF Devices
  <1>9. CASE UserDecides \/ UIContinues
    <2>1. CASE StartVerification  BY <1>6, <2>1, StartVerificationOrder
    <2>9. CASE StartRequest  BY <1>6, <2>9, StartRequestOrder
    <2>2. CASE AcceptIncoming
      BY <1>6, <2>2, AcceptOrder DEF AcceptIncoming, Calls
    <2>3. CASE AcceptStart  BY <1>6, <2>3, AcceptOrder DEF AcceptStart, Calls
    <2>4. CASE AcceptSas  BY <1>6, <2>4, AcceptSasOrder
    <2>5. CASE AcceptKey  BY <1>6, <2>5, AcceptOrder DEF AcceptKey, Calls
    <2>6. ASSUME NEW d \in Devices, ConfirmMatch(d) PROVE InOrder'
      <3>1. /\ upc[d] = "idle" /\ Shown(d) /\ Send(d, <<"mac">>)
            /\ upc' = [upc EXCEPT ![d] = "mac"]
            /\ UNCHANGED <<state, sas, resolved, old, hpc, mismatch>>
        BY <2>6 DEF ConfirmMatch, Calls
      <3>2. KeysKnown(Other(d)) \/ In("key", inbox[Other(d)])
        BY <1>6, <3>1, TwoDevices DEF Shown, CalmStep, InOrder, KeysSent
      <3>3. state[Responder] # "None"
        BY <1>6, <3>1 DEF Shown, CalmStep, InOrder, Begins
      <3>4. upc'[d] = "mac" /\ \A e \in Devices : e # d => upc'[e] = upc[e]
        BY <3>1 DEF TypeOK
      <3>5. hpc[d] # "macBad"  BY <1>6 DEF CalmStep, InOrder, NothingWrong
      <3>6. "mac" \in Messages \ {"start", "key"}  BY DEF Messages
      <3> QED  BY <1>6, <3>1, <3>2, <3>3, <3>4, <3>5, <3>6, SentOrder
    <2>7. ASSUME NEW d \in Devices, ConfirmWrite(d) PROVE InOrder'
      <3>1. /\ upc[d] = "mac" /\ upc' = [upc EXCEPT ![d] = "idle"]
            /\ state' = state \/ (state[d] # "None" /\ state' = [state EXCEPT ![d] = "MacSent"])
            /\ UNCHANGED <<sas, resolved, old, inbox, hpc, mismatch>>
        BY <2>7 DEF ConfirmWrite, Calls, Enter
      <3>2. /\ \A e \in Devices : \/ upc'[e] = upc[e]
                                  \/ upc[e] = "mac" /\ upc'[e] = "idle"
            /\ \A e \in Devices : \/ state'[e] = state[e]
                                  \/ state[e] # "None" /\ state'[e] = "MacSent"
        BY <3>1 DEF TypeOK
      <3>3. \A e \in Devices : KeysKnown(e)' <=> KeysKnown(e)  BY <3>1 DEF KeysKnown
      <3>4. Unsent' => Unsent  BY <1>8, <3>2 DEF Unsent
      <3>5. NothingWrong' /\ KeysFirst' /\ StartFirst'
        BY <1>6, <1>8, <3>1, <3>2, <3>3 DEF CalmStep, InOrder, NothingWrong, KeysFirst, StartFirst
      <3>6. KeysSent'
        BY <1>6, <1>8, <3>1, <3>2, <3>3, <3>4 DEF CalmStep, InOrder, KeysSent
      <3>7. Begins'
        BY <1>6, <1>8, <3>1, <3>2 DEF CalmStep, InOrder, Begins
      <3> QED  BY <3>5, <3>6, <3>7 DEF InOrder
    <2>8. ASSUME NEW d \in Devices, CancelVerification(d) \/ RemoveTransaction(d) PROVE FALSE
      BY <1>5, <1>6, <2>8
         DEF CancelVerification, RemoveTransaction, CalmStep, InOrder, NothingWrong
    <2> QED
      BY <1>9, <2>1, <2>2, <2>3, <2>4, <2>5, <2>6, <2>7, <2>8, <2>9 DEF UserDecides, UIContinues
  <1>10. ASSUME NEW d \in Devices, Worker(d) PROVE InOrder'
    <2>1. CASE Sweep(d) \/ Ignore(d)
      <3>1. d \notin old  BY <1>6 DEF CalmStep, InOrder, NothingWrong
      <3>2. CASE Ignore(d)
        <4>1. inbox[d] # <<>> /\ state[d] = "None" /\ Head(inbox[d]) # "request"
          BY <3>2 DEF Ignore
        <4>2. inbox[d] \in Seq(Messages)  BY DEF TypeOK
        <4>3. 1 \in DOMAIN inbox[d] /\ Head(inbox[d]) = inbox[d][1]  BY <4>1, <4>2, SMT
        <4> QED  BY <1>6, <4>1, <4>3, TwoDevices DEF CalmStep, InOrder, Begins
      <3> QED  BY <2>1, <3>1, <3>2 DEF Sweep
    <2>2. CASE HandleRequest(d)  BY <1>6, <2>2, HandleRequestOrder
    <2>3. CASE HandleStart(d)  BY <1>6, <2>3, HandleStartOrder
    <2>4. CASE HandleKey(d)  BY <1>6, <2>4, HandleKeyOrder
    <2>5. CASE HandleReady(d) \/ HandleAccept(d) \/ HandleMac(d) \/ HandleDone(d) \/ HandleCancel(d)
      <3>1. /\ state[d] # "None" /\ inbox[d] # <<>> /\ Head(inbox[d]) \notin {"start", "key"}
            /\ Consume(d) /\ UNCHANGED <<sas, resolved, old, upc, mismatch>>
        BY <2>5 DEF HandleReady, HandleAccept, HandleMac, HandleDone, HandleCancel, Known, Received
      <3>2. /\ \A e \in Devices : e # d => state'[e] = state[e] /\ hpc'[e] = hpc[e]
            /\ state'[d] = state[d] \/ state'[d] \notin {"None", "RequestReceived"}
        BY <2>5 DEF HandleReady, HandleAccept, HandleMac, HandleDone, HandleCancel, Enter, Handled,
                    TypeOK
      <3>3. hpc'[d] # "macBad"
        <4>1. CASE HandleMac(d)
          <5>1. Head(inbox[d]) = "mac" /\ hpc'[d] = Decision(d)
            BY <4>1 DEF HandleMac, Known, Received, Handled, TypeOK
          <5>2. inbox[d] \in Seq(Messages)  BY DEF TypeOK
          <5>3. ~MacLed(inbox[d])  BY <3>1, <5>1, <5>2, TailOrder
          <5>4. MacVerifies(d)
            <6>1. KeysKnown(d)  BY <1>6, <5>3 DEF CalmStep, InOrder, KeysFirst
            <6> QED  BY <1>6, <1>u, <3>1, <6>1, MasterKeyAgrees DEF MacVerifies
          <5> QED  BY <5>1, <5>4 DEF Decision
        <4>2. CASE hpc' = [hpc EXCEPT ![d] = "check"]  BY <4>2 DEF TypeOK
        <4> QED
          BY <2>5, <4>1, <4>2 DEF HandleReady, HandleAccept, HandleDone, HandleCancel, Handled
      <3> QED  BY <1>6, <3>1, <3>2, <3>3, HandledOrder
    <2>6. CASE MacWrite(d)
      <3>1. /\ hpc[d] # "macBad" /\ hpc[d] # "idle" /\ hpc' = [hpc EXCEPT ![d] = "check"]
            /\ UNCHANGED <<sas, resolved, old, upc, mismatch>>
        BY <1>6, <2>6 DEF MacWrite, Handled, CalmStep, InOrder, NothingWrong
      <3>2. state[Responder] # "None"
        BY <1>6, <3>1 DEF CalmStep, InOrder, Begins
      <3>3. hpc'[d] = "check" /\ \A e \in Devices : e # d => hpc'[e] = hpc[e]
        BY <3>1 DEF TypeOK
      <3>4. CASE state' = [state EXCEPT ![d] = "Done"] /\ Send(d, <<"done">>)
        <4>1. state'[d] = "Done" /\ \A e \in Devices : e # d => state'[e] = state[e]
          BY <3>4 DEF TypeOK
        <4>2. "done" \in Messages \ {"start", "key"}  BY DEF Messages
        <4> QED  BY <1>6, <3>1, <3>2, <3>3, <3>4, <4>1, <4>2, SentOrder
      <3>5. CASE state' = [state EXCEPT ![d] = "MacReceived"] /\ UNCHANGED inbox
        <4>1. \A e \in Devices : state'[e] = state[e] \/ state'[e] = "MacReceived"
          BY <3>5 DEF TypeOK
        <4>2. \A e \in Devices : KeysKnown(e)' <=> KeysKnown(e)  BY <3>1 DEF KeysKnown
        <4>3. Unsent' => Unsent  BY <1>8, <3>1, <4>1 DEF Unsent
        <4>4. NothingWrong' /\ KeysFirst' /\ StartFirst'
          BY <1>6, <1>8, <3>1, <3>3, <3>5, <4>2
             DEF CalmStep, InOrder, NothingWrong, KeysFirst, StartFirst
        <4>5. KeysSent'
          BY <1>6, <1>8, <3>1, <3>5, <4>1, <4>2, <4>3 DEF CalmStep, InOrder, KeysSent
        <4>6. Begins'
          BY <1>6, <1>8, <3>2, <4>1 DEF CalmStep, InOrder, Begins
        <4> QED  BY <4>4, <4>5, <4>6 DEF InOrder
      <3> QED  BY <2>6, <3>1, <3>4, <3>5 DEF MacWrite, Enter
    <2>7. CASE Record(d)
      <3>1. /\ hpc[d] = "check" /\ hpc' = [hpc EXCEPT ![d] = "idle"]
            /\ UNCHANGED <<state, sas, resolved, old, inbox, upc, mismatch>>
        BY <2>7 DEF Record, Handled
      <3>2. \A e \in Devices : hpc'[e] = hpc[e] \/ hpc'[e] = "idle"  BY <3>1 DEF TypeOK
      <3>3. \A e \in Devices : KeysKnown(e)' <=> KeysKnown(e)  BY <3>1 DEF KeysKnown
      <3>4. NothingWrong' /\ KeysFirst' /\ StartFirst'
        BY <1>6, <1>8, <3>1, <3>2, <3>3
           DEF CalmStep, InOrder, NothingWrong, KeysFirst, StartFirst
      <3>5. KeysSent'
        BY <1>6, <1>8, <3>1, <3>3 DEF CalmStep, InOrder, KeysSent, Unsent
      <3>6. Begins'  BY <1>6, <1>8, <3>1, <3>2 DEF CalmStep, InOrder, Begins
      <3> QED  BY <3>4, <3>5, <3>6 DEF InOrder
    <2> QED  BY <1>10, <2>1, <2>2, <2>3, <2>4, <2>5, <2>6, <2>7 DEF Worker
  <1>11. ASSUME NEW d \in Devices, Expire(d) PROVE FALSE  BY <1>5, <1>11 DEF Expire
  <1>12. CASE UNCHANGED vars
    <2>1. UNCHANGED <<state, sas, resolved, old, inbox, upc, hpc, mismatch>>
      BY <1>12 DEF vars
    <2>2. \A e \in Devices : KeysKnown(e)' <=> KeysKnown(e)  BY <2>1 DEF KeysKnown
    <2>3. NothingWrong' /\ KeysFirst' /\ StartFirst' /\ KeysSent' /\ Begins'
      BY <1>6, <1>8, <2>1, <2>2
         DEF CalmStep, InOrder, NothingWrong, KeysFirst, StartFirst, KeysSent, Begins, Unsent
    <2> QED  BY <2>3 DEF InOrder
  <1> QED  BY <1>9, <1>10, <1>11, <1>12 DEF Next

LEMMA InitOrder == Init => CalmInv
  <1> SUFFICES ASSUME Init PROVE InOrder /\ LookedUp  BY DEF CalmInv
  <1>0. Starter \in Devices /\ Responder \in Devices  BY DEF Devices
  <1>1. /\ \A m : ~In(m, <<>>) /\ MacLed(<<>>) /\ StartsFirst(<<>>)
        /\ \A i \in DOMAIN <<>> : <<>>[i] = "request"
    BY SMT DEF In, MacLed, StartsFirst
  <1>2. \A d \in Devices : /\ inbox[d] = <<>> /\ ~sas[d].valid /\ hpc[d] = "idle" /\ upc[d] = "idle"
                           /\ state[d] = "None"
    BY DEF Init, NoSas
  <1>3. \A d \in Devices : ~KeysKnown(d)  BY <1>2 DEF KeysKnown
  <1>4. NothingWrong  BY <1>2 DEF Init, NothingWrong
  <1>5. KeysFirst /\ StartFirst /\ KeysSent
    BY <1>0, <1>1, <1>2, <1>3 DEF KeysFirst, StartFirst, KeysSent
  <1>6. Begins  BY <1>0, <1>1, <1>2 DEF Begins
  <1>7. LookedUp  BY <1>2 DEF LookedUp
  <1> QED  BY <1>4, <1>5, <1>6, <1>7 DEF InOrder

\* Two honest devices end in a key mismatch only if a message was lost, a
\* query failed, somebody cancelled, a transaction expired, a key was handled
\* before acceptIncoming had created the SAS, or a device holds a master key
\* that its user does not publish, whatever master keys each side holds and
\* finds (verification.cpp:260-292, 361-399, 429-481, verify_controller.cpp).
THEOREM MismatchIsExplained == Spec => []MismatchHasCause
  <1>1. TypeOK /\ CalmInv => MismatchHasCause
    <2>1. TypeOK => trouble \in Nat  BY SMT DEF TypeOK
    <2>2. ASSUME TypeOK, CalmInv, mismatch # {}, ~early, ~Unpublished PROVE trouble > 0
      <3>1. trouble # 0  BY <2>2 DEF CalmInv, Calm, InOrder, NothingWrong
      <3> QED  BY <2>1, <2>2, <3>1, SMT
    <2> QED  BY <2>2 DEF MismatchHasCause
  <1>2. TypeOK /\ CalmInv /\ [Next]_vars => TypeOK' /\ CalmInv'  BY NextType, NextOrder
  <1> QED  BY InitType, InitOrder, <1>1, <1>2, PTL DEF Spec
=============================================================================
