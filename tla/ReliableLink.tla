---------------------------- MODULE ReliableLink ----------------------------
(***************************************************************************)
(* What the pair of gateways promises to the two Modbus devices: the link  *)
(* between the gateways is a reliable FIFO channel in each direction.      *)
(* Encryption and rekeying are invisible.  SecureLink implements this.     *)
(*                                                                         *)
(* The devices take turns: a device may send while it is owed a turn, and  *)
(* a delivered payload gives its receiver one.  The Modbus master behind   *)
(* the client gateway starts with Window turns, the number of transactions *)
(* it keeps outstanding; the slave starts with none and only answers.      *)
(***************************************************************************)
EXTENDS Naturals, Sequences

CONSTANTS Client, Server,   \* the two gateways
          Payloads,         \* what a device sends
          Window            \* outstanding transactions of the Modbus master

VARIABLES owed,     \* owed[g]: messages the device behind g may still send
          queue     \* queue[g]: payloads on their way to the device behind g

vars == <<owed, queue>>

Gateways == {Client, Server}
Peer(g) == IF g = Client THEN Server ELSE Client

TypeOK == /\ owed \in [Gateways -> 0..Window]
          /\ queue \in [Gateways -> Seq(Payloads)]

Init == /\ owed = [g \in Gateways |-> IF g = Client THEN Window ELSE 0]
        /\ queue = [g \in Gateways |-> <<>>]

\* The device behind g sends.
Submit(g) == \E d \in Payloads :
    /\ owed[g] > 0
    /\ owed' = [owed EXCEPT ![g] = @ - 1]
    /\ queue' = [queue EXCEPT ![Peer(g)] = Append(@, d)]

\* The device behind g receives.
Deliver(g) ==
    /\ queue[g] # <<>>
    /\ queue' = [queue EXCEPT ![g] = Tail(@)]
    /\ owed' = [owed EXCEPT ![g] = @ + 1]

Next == \E g \in Gateways : Submit(g) \/ Deliver(g)

Fairness == \A g \in Gateways : WF_vars(Deliver(g))

SafetySpec == Init /\ [][Next]_vars
Spec == SafetySpec /\ Fairness

----------------------------------------------------------------------------
(* The weaker promise: a payload may be lost, and is then not answered; the *)
(* master may give it up and have its turn again.                           *)

Lose(g) ==
    /\ queue[g] # <<>>
    /\ queue' = [queue EXCEPT ![g] = Tail(@)]
    /\ UNCHANGED owed

Outstanding == owed[Client] + owed[Server] + Len(queue[Client]) + Len(queue[Server])

Retry ==
    /\ Outstanding < Window
    /\ owed' = [owed EXCEPT ![Client] = @ + 1]
    /\ UNCHANGED queue

LossySpec == Init /\ [][Next \/ Retry \/ \E g \in Gateways : Lose(g)]_vars

=============================================================================
