---------------------------- MODULE Verification ----------------------------
(***************************************************************************)
(* One interactive (m.sas.v1) verification between two devices that both   *)
(* run this client: Starter sends the request, Responder accepts it.       *)
(*                                                                         *)
(* Two threads per device share the transaction.  The sync worker runs     *)
(* handleEvent, under mtx_; the UI runs the VerificationController, which  *)
(* takes a raw pointer out of findTransaction and then reads and writes    *)
(* the transaction without the lock, between HTTP requests.  A step is a   *)
(* UI call up to its next request, or a handler; the mac handler is two,   *)
(* since it decides by the state and writes it.                            *)
(*                                                                         *)
(* Both ends are honest and use one SAS each, so a commitment always       *)
(* matches, and a mac verifies when the SAS knows the other's key, the     *)
(* other's device keys were resolved, and the master key that the mac      *)
(* names, if any, is the one that was looked up for the other's user.      *)
(***************************************************************************)
EXTENDS Naturals, Sequences, FiniteSets

CONSTANTS
    Starter, Responder,  \* the two devices
    Setups,              \* the cross-signing set-ups to start from
    MaxTrouble           \* bound: lost messages, failed queries, cancels, timeouts

\* Of each device: the master key it holds, and the one that the server
\* publishes for its user.  They differ on a new device of the user, before
\* an upload that waits for a password, and after a reset elsewhere.
MasterKeys == {"none", "current", "another"}
Setup == [held : MasterKeys, published : MasterKeys]

Devices == {Starter, Responder}
Other(d) == CHOOSE e \in Devices : e # d

ASSUME VerificationAssumption ==
    /\ Starter # Responder
    /\ Setups \subseteq [Devices -> Setup]
    /\ MaxTrouble \in Nat

Messages == {"request", "ready", "start", "accept", "key", "mac", "done", "cancel"}

VARIABLES
    state,      \* VerificationTransaction::state; "None" when there is none
    sas,        \* sas.valid and sas.theirKeySet
    master,     \* the set-up of each device (ourMasterKey, /keys/query)
    theirs,     \* theirMasterKey, of the last transaction of a device
    resolved,   \* theirEd25519 and theirCurve25519 are filled in
    old,        \* isExpired()
    inbox,      \* to-device messages on their way to a device
    upc,        \* the UI thread: the controller's next step
    hpc,        \* the sync worker: where it is in handling an event
    confirmed,  \* devices whose user said that the emojis match
    recorded,   \* devices that saved the other one as verified
    mismatch,   \* devices that cancelled with m.key_mismatch
    early,      \* a key was handled before acceptIncoming created the SAS
    trouble     \* lost messages, failed queries, cancels and timeouts so far

vars == <<state, sas, master, theirs, resolved, old, inbox, upc, hpc, confirmed,
          recorded, mismatch, early, trouble>>
msk  == <<master, theirs>>

States == {"None", "RequestSent", "RequestReceived", "Ready", "Accepted", "KeySent",
           "KeyReceived", "MacSent", "MacReceived", "Done", "Cancelled"}

TypeOK ==
    /\ state \in [Devices -> States]
    /\ sas \in [Devices -> [valid : BOOLEAN, theirKeySet : BOOLEAN]]
    /\ master \in Setups /\ theirs \in [Devices -> MasterKeys]
    /\ resolved \subseteq Devices /\ old \subseteq Devices
    /\ inbox \in [Devices -> Seq(Messages)]
    /\ upc \in [Devices -> {"idle", "request", "start", "sas", "key", "mac", "remove"}]
    /\ hpc \in [Devices -> {"idle", "macDone", "macReceived", "macBad", "check"}]
    /\ confirmed \subseteq Devices /\ recorded \subseteq Devices /\ mismatch \subseteq Devices
    /\ early \in BOOLEAN
    /\ trouble \in 0..MaxTrouble

NoSas == [valid |-> FALSE, theirKeySet |-> FALSE]

Init ==
    /\ state = [d \in Devices |-> "None"]
    /\ sas = [d \in Devices |-> NoSas]
    /\ master \in Setups /\ theirs = [d \in Devices |-> "none"]
    /\ resolved = {} /\ old = {}
    /\ inbox = [d \in Devices |-> <<>>]
    /\ upc = [d \in Devices |-> "idle"]
    /\ hpc = [d \in Devices |-> "idle"]
    /\ confirmed = {} /\ recorded = {} /\ mismatch = {}
    /\ early = FALSE
    /\ trouble = 0

Trouble == trouble < MaxTrouble /\ trouble' = trouble + 1

\* sendToDevice, one per message: wrapped with Olm, or in the clear when that
\* fails, which is the same event to the peer; the outcome is ignored.
Sent(d, boxes, msgs) ==
    \/ inbox' = [boxes EXCEPT ![Other(d)] = @ \o msgs] /\ UNCHANGED trouble
    \/ /\ \E some \in {<<>>} \cup {<<msgs[i]>> : i \in DOMAIN msgs} :
             some # msgs /\ inbox' = [boxes EXCEPT ![Other(d)] = @ \o some]
       /\ Trouble

Send(d, msgs) == Sent(d, inbox, msgs)

\* computeEmojis has something to show.
Shown(d) == state[d] # "None" /\ sas[d].valid /\ sas[d].theirKeySet

Calls(d, step) == upc' = [upc EXCEPT ![d] = step]
Enter(d, s)    == state' = [state EXCEPT ![d] = s]
-----------------------------------------------------------------------------
(* The UI thread: VerificationController. *)

\* initMasterKeys, when a transaction is created, under its lock.
LookUpMaster(d) ==
    \/ theirs' = [theirs EXCEPT ![d] = master[Other(d)].published] /\ UNCHANGED trouble
    \/ theirs' = [theirs EXCEPT ![d] = "none"] /\ Trouble

StartVerification ==
    /\ state[Starter] = "None" /\ upc[Starter] = "idle"
    /\ trouble = 0                                  \* the first one only
    /\ Enter(Starter, "RequestSent")
    /\ LookUpMaster(Starter)
    /\ Calls(Starter, "request")
    /\ UNCHANGED <<sas, master, resolved, old, inbox, hpc, confirmed, recorded, mismatch, early>>

StartRequest ==
    /\ upc[Starter] = "request"
    /\ Send(Starter, <<"request">>)
    /\ Calls(Starter, "idle")
    /\ UNCHANGED <<state, sas, msk, resolved, old, hpc, confirmed, recorded, mismatch, early>>

\* acceptIncoming: .ready, .start, and only then the SAS and the .key.
AcceptIncoming ==
    /\ upc[Responder] = "idle" /\ state[Responder] = "RequestReceived"
    /\ Send(Responder, <<"ready">>)
    /\ Calls(Responder, "start")
    /\ UNCHANGED <<state, sas, msk, resolved, old, hpc, confirmed, recorded, mismatch, early>>

AcceptStart ==
    /\ upc[Responder] = "start"
    /\ Send(Responder, <<"start">>)
    /\ Calls(Responder, "sas")
    /\ UNCHANGED <<state, sas, msk, resolved, old, hpc, confirmed, recorded, mismatch, early>>

\* A transaction swept away in the meantime is freed memory: nobody reads
\* what is written to it.
AcceptSas ==
    /\ upc[Responder] = "sas"
    /\ IF state[Responder] = "None"
       THEN UNCHANGED <<sas, state>>
       ELSE /\ sas' = [sas EXCEPT ![Responder] = [valid |-> TRUE, theirKeySet |-> FALSE]]
            /\ Enter(Responder, "KeySent")
    /\ Calls(Responder, "key")
    /\ UNCHANGED <<msk, resolved, old, inbox, hpc, confirmed, recorded, mismatch, early, trouble>>

AcceptKey ==
    /\ upc[Responder] = "key"
    /\ Send(Responder, <<"key">>)
    /\ Calls(Responder, "idle")
    /\ UNCHANGED <<state, sas, msk, resolved, old, hpc, confirmed, recorded, mismatch, early>>

\* confirmMatch: the .mac is sent before the state says so.
ConfirmMatch(d) ==
    /\ upc[d] = "idle" /\ Shown(d) /\ d \notin confirmed
    /\ confirmed' = confirmed \cup {d}
    /\ Send(d, <<"mac">>)
    /\ Calls(d, "mac")
    /\ UNCHANGED <<state, sas, msk, resolved, old, hpc, recorded, mismatch, early>>

ConfirmWrite(d) ==
    /\ upc[d] = "mac"
    /\ IF state[d] = "None" THEN UNCHANGED state ELSE Enter(d, "MacSent")
    /\ Calls(d, "idle")
    /\ UNCHANGED <<sas, msk, resolved, old, inbox, hpc, confirmed, recorded, mismatch, early, trouble>>

\* cancelVerification; removeTransaction waits for the handler's lock.
CancelVerification(d) ==
    /\ upc[d] = "idle" /\ state[d] # "None" /\ Trouble
    /\ inbox' = [inbox EXCEPT ![Other(d)] = Append(@, "cancel")]
    /\ Calls(d, "remove")
    /\ UNCHANGED <<state, sas, msk, resolved, old, hpc, confirmed, recorded, mismatch, early>>

RemoveTransaction(d) ==
    /\ upc[d] = "remove" /\ hpc[d] \in {"idle", "check"}
    /\ Enter(d, "None")
    /\ sas' = [sas EXCEPT ![d] = NoSas]
    /\ Calls(d, "idle")
    /\ UNCHANGED <<msk, resolved, old, inbox, hpc, confirmed, recorded, mismatch, early, trouble>>
-----------------------------------------------------------------------------
(* The sync worker: handleEvent and handleVerificationEvent. *)

Received(d, m) == hpc[d] = "idle" /\ inbox[d] # <<>> /\ Head(inbox[d]) = m
Known(d, m)    == Received(d, m) /\ state[d] # "None" /\ d \notin old
Consume(d)     == inbox' = [inbox EXCEPT ![d] = Tail(@)]
Handled(d, h)  == hpc' = [hpc EXCEPT ![d] = h]

ConsumeAndReply(d, msgs) == Sent(d, [inbox EXCEPT ![d] = Tail(@)], msgs)

\* Any event sweeps the expired transactions away and then finds none.
Sweep(d) ==
    /\ hpc[d] = "idle" /\ inbox[d] # <<>> /\ state[d] # "None" /\ d \in old
    /\ IF state[d] \in {"Done", "Cancelled"} THEN Consume(d) /\ UNCHANGED trouble
                                             ELSE ConsumeAndReply(d, <<"cancel">>)
    /\ Enter(d, "None")
    /\ sas' = [sas EXCEPT ![d] = NoSas]
    /\ UNCHANGED <<msk, resolved, old, upc, hpc, confirmed, recorded, mismatch, early>>

\* No transaction: everything but a request is dropped.
Ignore(d) ==
    /\ hpc[d] = "idle" /\ inbox[d] # <<>> /\ state[d] = "None"
    /\ Head(inbox[d]) # "request"
    /\ Consume(d)
    /\ UNCHANGED <<state, sas, msk, resolved, old, upc, hpc, confirmed, recorded, mismatch, early, trouble>>

HandleRequest(d) ==
    /\ Received(d, "request") /\ state[d] = "None"
    /\ Consume(d)
    /\ Enter(d, "RequestReceived")
    /\ LookUpMaster(d)
    /\ UNCHANGED <<sas, master, resolved, old, upc, hpc, confirmed, recorded, mismatch, early>>

HandleReady(d) ==
    /\ Known(d, "ready")
    /\ Consume(d)
    /\ Enter(d, "Ready")
    /\ Handled(d, "check")
    /\ UNCHANGED <<sas, msk, resolved, old, upc, confirmed, recorded, mismatch, early, trouble>>

\* The SAS exists before .accept and .key go out.
HandleStart(d) ==
    /\ Known(d, "start")
    /\ sas' = [sas EXCEPT ![d] = [valid |-> TRUE, theirKeySet |-> FALSE]]
    /\ ConsumeAndReply(d, <<"accept", "key">>)
    /\ Enter(d, "KeySent")
    /\ Handled(d, "check")
    /\ UNCHANGED <<msk, resolved, old, upc, confirmed, recorded, mismatch, early>>

HandleAccept_Started(d) ==
    /\ Known(d, "accept")
    /\ Consume(d)
    /\ Enter(d, "Started")
    /\ Handled(d, "check")
    /\ UNCHANGED <<sas, msk, resolved, old, upc, confirmed, recorded, mismatch, early, trouble>>

HandleAccept(d) ==
    /\ Known(d, "accept")
    /\ Consume(d)
    /\ Enter(d, "Accepted")
    /\ Handled(d, "check")
    /\ UNCHANGED <<sas, msk, resolved, old, upc, confirmed, recorded, mismatch, early, trouble>>

\* The key goes into a SAS that exists; the device keys are queried over HTTP.
HandleKey(d) ==
    /\ Known(d, "key")
    /\ Consume(d)
    /\ sas' = [sas EXCEPT ![d].theirKeySet = @ \/ sas[d].valid]
    /\ early' = (early \/ ~sas[d].valid)
    /\ \/ resolved' = resolved \cup {d} /\ UNCHANGED trouble
       \/ d \notin resolved /\ UNCHANGED resolved /\ Trouble
    /\ Enter(d, "KeyReceived")
    /\ Handled(d, "check")
    /\ UNCHANGED <<msk, old, upc, confirmed, recorded, mismatch>>

\* buildMacContent names the own master key when it knows one of each side.
NamesMaster(d) == master[d].held # "none" /\ theirs[d] # "none"

\* verifyTheirMac takes a master key it was not told of for a device key.
KeysKnown(d) == sas[d].valid /\ sas[d].theirKeySet /\ d \in resolved
MasterAgrees(d) == NamesMaster(Other(d)) => theirs[d] = master[Other(d)].held
MacVerifies_NeedsOwnKey(d) ==
    /\ KeysKnown(d) /\ MasterAgrees(d)
    /\ NamesMaster(Other(d)) => master[d].held # "none"
MacVerifies(d) == KeysKnown(d) /\ MasterAgrees(d)

Decision_NoState(d) == IF MacVerifies(d) THEN "macDone" ELSE "macBad"
Decision(d) ==
    IF ~MacVerifies(d) THEN "macBad"
    ELSE IF state[d] = "MacSent" THEN "macDone" ELSE "macReceived"

HandleMac(d) ==
    /\ Known(d, "mac")
    /\ Consume(d)
    /\ Handled(d, Decision(d))
    /\ UNCHANGED <<state, sas, msk, resolved, old, upc, confirmed, recorded, mismatch, early, trouble>>

MacWrite(d) ==
    /\ \/ hpc[d] = "macDone" /\ Enter(d, "Done") /\ Send(d, <<"done">>) /\ UNCHANGED mismatch
       \/ /\ hpc[d] = "macReceived" /\ Enter(d, "MacReceived")
          /\ UNCHANGED <<inbox, trouble, mismatch>>
       \/ /\ hpc[d] = "macBad" /\ Enter(d, "Cancelled") /\ Send(d, <<"cancel">>)
          /\ mismatch' = mismatch \cup {d}
    /\ Handled(d, "check")
    /\ UNCHANGED <<sas, msk, resolved, old, upc, confirmed, recorded, early>>

HandleDone_MacReceivedOnly(d) ==
    /\ Known(d, "done")
    /\ Consume(d)
    /\ IF state[d] = "MacReceived" THEN Enter(d, "Done") ELSE UNCHANGED state
    /\ Handled(d, "check")
    /\ UNCHANGED <<sas, msk, resolved, old, upc, confirmed, recorded, mismatch, early, trouble>>

HandleDone(d) ==
    /\ Known(d, "done")
    /\ Consume(d)
    /\ IF state[d] \in {"MacReceived", "MacSent"} THEN Enter(d, "Done") ELSE UNCHANGED state
    /\ Handled(d, "check")
    /\ UNCHANGED <<sas, msk, resolved, old, upc, confirmed, recorded, mismatch, early, trouble>>

HandleCancel(d) ==
    /\ Known(d, "cancel")
    /\ Consume(d)
    /\ Enter(d, "Cancelled")
    /\ Handled(d, "check")
    /\ UNCHANGED <<sas, msk, resolved, old, upc, confirmed, recorded, mismatch, early, trouble>>

\* handleVerificationEvent looks at the state after the lock was released.
Record(d) ==
    /\ hpc[d] = "check"
    /\ recorded' = IF state[d] = "Done" THEN recorded \cup {d} ELSE recorded
    /\ Handled(d, "idle")
    /\ UNCHANGED <<state, sas, msk, resolved, old, inbox, upc, confirmed, mismatch, early, trouble>>

\* Ten minutes have passed.
Expire(d) ==
    /\ d \notin old /\ state[d] # "None" /\ Trouble
    /\ old' = old \cup {d}
    /\ UNCHANGED <<state, sas, msk, resolved, inbox, upc, hpc, confirmed, recorded, mismatch, early>>
-----------------------------------------------------------------------------
UserDecides ==
    \/ StartVerification
    \/ AcceptIncoming
    \/ \E d \in Devices : ConfirmMatch(d) \/ CancelVerification(d)

UIContinues ==
    \/ StartRequest \/ AcceptStart \/ AcceptSas \/ AcceptKey
    \/ \E d \in Devices : ConfirmWrite(d) \/ RemoveTransaction(d)

Worker(d) ==
    \/ Sweep(d) \/ Ignore(d)
    \/ HandleRequest(d) \/ HandleReady(d) \/ HandleStart(d) \/ HandleAccept(d)
    \/ HandleKey(d) \/ HandleMac(d) \/ MacWrite(d) \/ HandleDone(d) \/ HandleCancel(d)
    \/ Record(d)

Next ==
    \/ UserDecides
    \/ UIContinues
    \/ \E d \in Devices : Worker(d) \/ Expire(d)

Spec == Init /\ [][Next]_vars

\* A started call of the UI runs on; both sync loops keep delivering.
FairSpec == Spec /\ WF_vars(UIContinues) /\ \A d \in Devices : WF_vars(Worker(d))
-----------------------------------------------------------------------------
\* A device is saved as verified only if both users said that the emojis
\* match, whatever is lost, cancelled or expires in between
\* (sync_engine.cpp:644, verification.cpp:260-292).
VerifiedTogether == recorded # {} => confirmed = Devices

\* A device holds a master key that its user does not publish (any more).
Unpublished == \E d \in Devices : master[d].held \notin {"none", master[d].published}

\* Two honest devices report a key mismatch only when something was lost or
\* a query failed, when the key overtook the creation of the SAS, or when one
\* holds an unpublished master key; that only one of them has a master key, or
\* sees the other's, is no cause (test_e2ee_verify_protocol.cpp:250-261).
MismatchHasCause == mismatch # {} => early \/ trouble > 0 \/ Unpublished

\* The sync worker handles an event between confirmMatch's request and its
\* write of the state.
Crossing == \E d \in Devices : upc[d] = "mac" /\ hpc[d] # "idle"

Undisturbed == trouble = 0 /\ ~Unpublished

\* When nothing goes wrong and no event crosses a confirmation, both devices
\* record the verification that both users confirmed.
BothFinish ==
    [](Undisturbed /\ ~Crossing)
        => (confirmed = Devices ~> recorded = Devices)

\* tests/test_e2ee_verify_protocol.cpp:3 "asserts both sides reach Done":
\* when nothing goes wrong, two confirmations complete the verification.
BothReachDone ==
    []Undisturbed => (confirmed = Devices ~> recorded = Devices)
=============================================================================
