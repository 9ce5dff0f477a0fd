---------------------------- MODULE MCVerification ----------------------------
(* Instances of Verification: who holds a master key, and whose is published. *)
EXTENDS Verification

User(held, published) == [held |-> held, published |-> published]
NoKeys   == User("none", "none")
InUse    == User("current", "current")
NewHere  == User("none", "current")      \* a device without the secrets
Waiting  == User("another", "none")      \* the upload waits for a password
Replaced == User("another", "current")   \* reset on another device

Between(s, r) == [d \in Devices |-> IF d = Starter THEN s ELSE r]

MCSetups ==
    {Between(NoKeys, NoKeys), Between(InUse, InUse), Between(NewHere, InUse),
     Between(InUse, NewHere), Between(InUse, NoKeys), Between(Waiting, InUse),
     Between(InUse, Replaced)}

MCPublished == {Between(NoKeys, NoKeys), Between(InUse, InUse)}
===============================================================================
