--------------------------- MODULE GatewaySession ---------------------------
(***************************************************************************)
(* The life of the two gateway programs: accept, connect, exchange keys,   *)
(* forward until something ends the session, close, and accept again.      *)
(* In a session each gateway has a main thread and the two forwarding      *)
(* threads, which share reset_flag and exit_flag; the gateways tell each   *)
(* other of the end by a reset message and by closing the connection.      *)
(*                                                                         *)
(* Atomicity.  A step is one blocking call with the assignments that       *)
(* follow it.                                                              *)
(*                                                                         *)
(* Data abstraction.  A connection between the gateways is its number.     *)
(* The client has one at a time, the server accepts them in order: an      *)
(* older one has been closed.  Payloads are left out (SecureLink); a reset *)
(* message that no longer opens is one the receiver drops.  The key        *)
(* exchange is its outcome (KeyExchange).                                  *)
(***************************************************************************)
EXTENDS Naturals

CONSTANTS Client, Server,   \* the two gateways
          MaxSessions,      \* bound on the connections the client makes
          MayDie            \* whether an exception may end a forwarding thread

ASSUME GatewayAssumption == Client # Server
ASSUME BoundAssumption == MaxSessions \in Nat /\ MayDie \in BOOLEAN

VARIABLES
    main,   \* main[g]: where the main thread of g is
    key,    \* key[g]: sym_key is not None
    enc,    \* enc[g]: the thread that encrypts what g's device sends
    dec,    \* dec[g]: the thread that decrypts what the peer sends
    reset,  \* reset[g]: reset_flag
    exit,   \* exit[g]: exit_flag
    conn,   \* conn[g]: the last connection between the gateways g had a part in
    open,   \* open[g]: g has not closed it
    mail,   \* mail[g]: a reset message is on its way to g
    dev,    \* dev[g]: g is connected with its device
    torn    \* torn[g]: g has read an empty message in its session (history)

vars == <<main, key, enc, dec, reset, exit, conn, open, mail, dev, torn>>

Gateways == {Client, Server}
Peer(g) == IF g = Client THEN Server ELSE Client

Places == {"accept", "connect", "exchange", "transfer", "closing", "exited"}

TypeOK ==
    /\ main  \in [Gateways -> Places]
    /\ key   \in [Gateways -> BOOLEAN]
    /\ enc   \in [Gateways -> {"loop", "tail", "ended", "dead"}]
    /\ dec   \in [Gateways -> {"loop", "tail", "ended", "dead"}]
    /\ dec[Server] # "tail"  \* only the client's thread has something to send
    /\ reset \in [Gateways -> BOOLEAN]
    /\ exit  \in [Gateways -> BOOLEAN]
    /\ conn  \in [Gateways -> Nat]
    /\ open  \in [Gateways -> BOOLEAN]
    /\ mail  \in [Gateways -> BOOLEAN]
    /\ dev   \in [Gateways -> BOOLEAN]
    /\ torn  \in [Gateways -> BOOLEAN]

Init ==
    /\ main  = [g \in Gateways |-> "accept"]
    /\ key   = [g \in Gateways |-> FALSE]
    /\ enc   = [g \in Gateways |-> "ended"]
    /\ dec   = [g \in Gateways |-> "ended"]
    /\ reset = [g \in Gateways |-> FALSE]
    /\ exit  = [g \in Gateways |-> FALSE]
    /\ conn  = [g \in Gateways |-> 0]
    /\ open  = [g \in Gateways |-> FALSE]
    /\ mail  = [g \in Gateways |-> FALSE]
    /\ dev   = [g \in Gateways |-> FALSE]
    /\ torn  = [g \in Gateways |-> FALSE]

\* The other end of g's connection is closed: by the peer, by the end of its
\* program, or with the backlog of a program that has ended.
PeerClosed(g) ==
    \/ conn[Peer(g)] > conn[g]
    \/ conn[Peer(g)] = conn[g] /\ ~open[Peer(g)]
    \/ conn[Peer(g)] < conn[g] /\ main[Peer(g)] = "exited"

\* Both gateways are on the same connection.
Joined == conn[Client] = conn[Server] /\ open[Client] /\ open[Server]

\* The program ends, and its sockets with it.
Exits(g) ==
    /\ main' = [main EXCEPT ![g] = "exited"]
    /\ open' = [open EXCEPT ![g] = FALSE]
    /\ mail' = [mail EXCEPT ![g] = FALSE]
    /\ dev'  = [dev EXCEPT ![g] = FALSE]
    /\ torn' = [torn EXCEPT ![g] = FALSE]

----------------------------------------------------------------------------
(* The main thread: setting the session up. *)

\* The Modbus master connects to the client gateway.
AcceptDevice ==
    /\ main[Client] = "accept" /\ conn[Client] < MaxSessions
    /\ main' = [main EXCEPT ![Client] = "connect"]
    /\ dev' = [dev EXCEPT ![Client] = TRUE]
    /\ UNCHANGED <<key, enc, dec, reset, exit, conn, open, mail, torn>>

\* The listening socket of the server takes the connection, accepted or not.
ConnectGateway ==
    /\ main[Client] = "connect" /\ main[Server] # "exited"
    /\ main' = [main EXCEPT ![Client] = "exchange"]
    /\ conn' = [conn EXCEPT ![Client] = @ + 1]
    /\ open' = [open EXCEPT ![Client] = TRUE]
    /\ UNCHANGED <<key, enc, dec, reset, exit, mail, dev, torn>>

AcceptGateway ==
    /\ main[Server] = "accept" /\ conn[Server] < conn[Client]
    /\ main' = [main EXCEPT ![Server] = "exchange"]
    /\ conn' = [conn EXCEPT ![Server] = @ + 1]
    /\ open' = [open EXCEPT ![Server] = TRUE]
    /\ UNCHANGED <<key, enc, dec, reset, exit, mail, dev, torn>>

\* The server gateway connects to the slave, also after a failed exchange.
ConnectDevice ==
    /\ main[Server] = "connect"
    /\ main' = [main EXCEPT ![Server] = IF key[Server] THEN "transfer" ELSE "closing"]
    /\ enc' = [enc EXCEPT ![Server] = IF key[Server] THEN "loop" ELSE @]
    /\ dec' = [dec EXCEPT ![Server] = IF key[Server] THEN "loop" ELSE @]
    /\ dev' = [dev EXCEPT ![Server] = TRUE]
    /\ UNCHANGED <<key, reset, exit, conn, open, mail, torn>>

\* ConnectionRefusedError: nothing catches it.
ConnectRefused(g) ==
    /\ main[g] = "connect"
    /\ g = Client => main[Server] = "exited"
    /\ Exits(g)
    /\ UNCHANGED <<key, enc, dec, reset, exit, conn>>

\* The exchange of g is over, one way or the other, once the peer has taken the
\* connection or is gone.
ExchangeEnds(g) == main[g] = "exchange" /\ (PeerClosed(g) \/ Joined)

\* g derives the session key from what a peer in the connection sends, or one that has
\* left with its key has sent; the peer's exchange may still fail, if its last message
\* is cut.  The client starts its threads.
ExchangeSucceeds(g) ==
    /\ ExchangeEnds(g)
    /\ Joined \/ (conn[g] <= conn[Peer(g)] /\ key[Peer(g)])
    /\ key' = [key EXCEPT ![g] = TRUE]
    /\ main' = [main EXCEPT ![g] = IF g = Client THEN "transfer" ELSE "connect"]
    /\ enc' = [enc EXCEPT ![g] = IF g = Client THEN "loop" ELSE @]
    /\ dec' = [dec EXCEPT ![g] = IF g = Client THEN "loop" ELSE @]
    /\ UNCHANGED <<reset, exit, conn, open, mail, dev, torn>>

\* g returns None: it does not trust the peer, or a message was cut.
ExchangeFails(g) ==
    /\ ExchangeEnds(g)
    /\ key' = [key EXCEPT ![g] = FALSE]
    /\ main' = [main EXCEPT ![g] = IF g = Server THEN "connect" ELSE "closing"]
    /\ UNCHANGED <<enc, dec, reset, exit, conn, open, mail, dev, torn>>

\* The program of g ends: the peer has given up, or g has no key of its own.
ExchangeRaises(g) ==
    /\ ExchangeEnds(g)
    /\ Exits(g)
    /\ UNCHANGED <<key, enc, dec, reset, exit, conn>>

----------------------------------------------------------------------------
(* The thread that encrypts. *)

\* BUG: the threads do not look at exit_flag.
BugToldNoExit(g) == reset[g]

\* BUG: the threads only look at exit_flag.
BugToldNoReset(g) == exit[g]

Told(g) == reset[g] \/ exit[g]

EncStops(g) ==
    /\ enc[g] = "loop" /\ Told(g)
    /\ enc' = [enc EXCEPT ![g] = "tail"]
    /\ UNCHANGED <<main, key, dec, reset, exit, conn, open, mail, dev, torn>>

\* BUG: the assignment makes a local variable.
BugEncEndsSession(g) ==
    /\ enc[g] = "loop"
    /\ enc' = [enc EXCEPT ![g] = "tail"]
    /\ UNCHANGED <<main, key, dec, reset, exit, conn, open, mail, dev, torn>>

\* The device has closed its socket, or a packet meets BrokenPipeError.
EncEndsSession(g) ==
    /\ enc[g] = "loop"
    /\ reset' = [reset EXCEPT ![g] = TRUE]
    /\ enc' = [enc EXCEPT ![g] = "tail"]
    /\ UNCHANGED <<main, key, dec, exit, conn, open, mail, dev, torn>>

EncDeviceGone(g) == ~dev[g] /\ EncEndsSession(g)
EncLinkBroken(g) == PeerClosed(g) /\ EncEndsSession(g)

\* What follows the loop: a reset message for the peer.
EncSendsReset(g) ==
    /\ enc[g] = "tail"
    /\ enc' = [enc EXCEPT ![g] = "ended"]
    /\ mail' = [mail EXCEPT ![Peer(g)] = @ \/ Joined]
    /\ UNCHANGED <<main, key, dec, reset, exit, conn, open, dev, torn>>

\* ValueError of the cipher, ConnectionResetError or TimeoutError of send:
\* no handler sets reset_flag.
EncDies(g) ==
    /\ MayDie /\ enc[g] = "loop"
    /\ enc' = [enc EXCEPT ![g] = "dead"]
    /\ UNCHANGED <<main, key, dec, reset, exit, conn, open, mail, dev, torn>>

----------------------------------------------------------------------------
(* The thread that decrypts. *)

\* BUG: the thread goes on to send a reset message of its own.
BugDecStops(g) ==
    /\ dec[g] = "loop" /\ Told(g)
    /\ dec' = [dec EXCEPT ![g] = "tail"]
    /\ UNCHANGED <<main, key, enc, reset, exit, conn, open, mail, dev, torn>>

DecStops(g) ==
    /\ dec[g] = "loop" /\ Told(g)
    /\ dec' = [dec EXCEPT ![g] = "ended"]
    /\ UNCHANGED <<main, key, enc, reset, exit, conn, open, mail, dev, torn>>

\* BUG: the assignment makes a local variable.
BugDecEndsSession(g, place) ==
    /\ dec[g] = "loop"
    /\ dec' = [dec EXCEPT ![g] = place]
    /\ UNCHANGED <<main, key, enc, reset, exit, conn, open, dev>>

DecEndsSession(g, place) ==
    /\ dec[g] = "loop"
    /\ reset' = [reset EXCEPT ![g] = TRUE]
    /\ dec' = [dec EXCEPT ![g] = place]
    /\ UNCHANGED <<main, key, enc, exit, conn, open, dev>>

\* receive raises ConnectionError or returns nothing: the client's thread sends a
\* reset message, the server's does not.
DecLosesLink(g) ==
    /\ DecEndsSession(g, IF g = Client THEN "tail" ELSE "ended")
    /\ UNCHANGED mail

\* The connection is closed at the other end ...
DecLinkGone(g) == PeerClosed(g) /\ DecLosesLink(g) /\ UNCHANGED torn

\* ... or open: after a torn message, the size of the next one is read as 0 (Channel).
DecReadsNothing(g) == DecLosesLink(g) /\ torn' = [torn EXCEPT ![g] = TRUE]

\* The message reaches a peer that has not closed; BrokenPipeError ends the thread as well.
DecSendsReset(g) ==
    /\ dec[g] = "tail"
    /\ dec' = [dec EXCEPT ![g] = "ended"]
    /\ mail' = [mail EXCEPT ![Peer(g)] = @ \/ Joined]
    /\ UNCHANGED <<main, key, enc, reset, exit, conn, open, dev, torn>>

DecReadsReset(g) ==
    /\ mail[g]
    /\ DecEndsSession(g, "ended")
    /\ mail' = [mail EXCEPT ![g] = FALSE]
    /\ UNCHANGED torn

\* The reset message does not open, or is too late: it is dropped.
DecDropsReset(g) ==
    /\ dec[g] = "loop" /\ mail[g]
    /\ mail' = [mail EXCEPT ![g] = FALSE]
    /\ UNCHANGED <<main, key, enc, dec, reset, exit, conn, open, dev, torn>>

\* BrokenPipeError of the device.
DecDeviceBroken(g) == ~dev[g] /\ DecEndsSession(g, "ended") /\ UNCHANGED <<mail, torn>>

\* TimeoutError or struct.error of the cipher, ConnectionResetError or
\* TimeoutError of the device.
DecDies(g) ==
    /\ MayDie /\ dec[g] = "loop"
    /\ dec' = [dec EXCEPT ![g] = "dead"]
    /\ UNCHANGED <<main, key, enc, reset, exit, conn, open, mail, dev, torn>>

----------------------------------------------------------------------------
(* The main thread: the end of a session. *)

\* handle_transfer returns when both threads have ended, however they did.
Join(g) ==
    /\ main[g] = "transfer"
    /\ enc[g] \in {"ended", "dead"} /\ dec[g] \in {"ended", "dead"}
    /\ main' = [main EXCEPT ![g] = "closing"]
    /\ UNCHANGED <<key, enc, dec, reset, exit, conn, open, mail, dev, torn>>

\* BUG: reset_flag keeps its value.
BugNextSession(g) == UNCHANGED reset

\* The head of the loop of main.
NextSession(g) == reset' = [reset EXCEPT ![g] = FALSE]

CloseSockets(g) ==
    /\ open' = [open EXCEPT ![g] = FALSE]
    /\ mail' = [mail EXCEPT ![g] = FALSE]
    /\ dev'  = [dev EXCEPT ![g] = FALSE]
    /\ torn' = [torn EXCEPT ![g] = FALSE]

Close(g) ==
    /\ main[g] = "closing" /\ ~exit[g]
    /\ main' = [main EXCEPT ![g] = "accept"]
    /\ NextSession(g)
    /\ CloseSockets(g)
    /\ UNCHANGED <<key, enc, dec, exit, conn>>

CloseAndExit(g) ==
    /\ main[g] = "closing" /\ exit[g]
    /\ Exits(g)
    /\ UNCHANGED <<key, enc, dec, reset, exit, conn>>

----------------------------------------------------------------------------
(* The environment. *)

\* Ctrl+C reaches the main thread in the wait of handle_transfer ...
InterruptTransfer(g) ==
    /\ main[g] = "transfer" /\ ~exit[g]
    /\ exit' = [exit EXCEPT ![g] = TRUE]
    /\ UNCHANGED <<main, key, enc, dec, reset, conn, open, mail, dev, torn>>

\* ... or anywhere else, where nothing catches it.
Interrupt(g) ==
    /\ main[g] \notin {"transfer", "exited"}
    /\ Exits(g)
    /\ UNCHANGED <<key, enc, dec, reset, exit, conn>>

\* The program is started again: connections nobody accepted are gone.
Restart(g) ==
    /\ main[g] = "exited"
    /\ main' = [main EXCEPT ![g] = "accept"]
    /\ exit' = [exit EXCEPT ![g] = FALSE]
    /\ NextSession(g)
    /\ key' = [key EXCEPT ![g] = FALSE]
    /\ conn' = [conn EXCEPT ![g] = conn[Client]]
    /\ UNCHANGED <<enc, dec, open, mail, dev, torn>>

DeviceLeaves(g) ==
    /\ main[g] = "transfer" /\ dev[g]
    /\ dev' = [dev EXCEPT ![g] = FALSE]
    /\ UNCHANGED <<main, key, enc, dec, reset, exit, conn, open, mail, torn>>

----------------------------------------------------------------------------

\* What the main thread does next once it can.
Main(g) ==
    \/ g = Client /\ ConnectGateway
    \/ g = Server /\ (AcceptGateway \/ ConnectDevice)
    \/ ConnectRefused(g) \/ ExchangeSucceeds(g) \/ ExchangeFails(g) \/ ExchangeRaises(g)
    \/ Join(g) \/ Close(g) \/ CloseAndExit(g)

\* What the threads do when they can, and what only traffic or an error makes
\* them do.
Encrypting(g) == EncStops(g) \/ EncDeviceGone(g) \/ EncSendsReset(g)
Decrypting(g) == DecStops(g) \/ DecLinkGone(g) \/ DecSendsReset(g) \/ DecReadsReset(g) \/ DecDropsReset(g)
Incident(g) ==
    \/ EncLinkBroken(g) \/ EncDies(g) \/ DecReadsNothing(g) \/ DecDeviceBroken(g) \/ DecDies(g)
    \/ InterruptTransfer(g) \/ Interrupt(g) \/ Restart(g) \/ DeviceLeaves(g)

Next ==
    \/ AcceptDevice
    \/ \E g \in Gateways : Main(g) \/ Encrypting(g) \/ Decrypting(g) \/ Incident(g)

SafetySpec == Init /\ [][Next]_vars

\* The operating system runs every thread; a key exchange ends, one way or the
\* other (KeyExchange).  Nothing is assumed of devices, Ctrl+C and traffic.
Fairness ==
    \A g \in Gateways : WF_vars(Main(g)) /\ WF_vars(Encrypting(g)) /\ WF_vars(Decrypting(g))

Spec == SafetySpec /\ Fairness

----------------------------------------------------------------------------

\* The session of g has a reason to end: its device, its user, a torn message or a
\* thread, the end of the connection, or the same at the other end of it.
Hurt(g) == \/ /\ main[g] = "transfer"
              /\ ~dev[g] \/ exit[g] \/ torn[g] \/ enc[g] = "dead" \/ dec[g] = "dead"
           \/ main[g] \in {"closing", "exited"}
Cause(g) == Hurt(g) \/ PeerClosed(g) \/ (conn[g] = conn[Peer(g)] /\ Hurt(Peer(g)))

\* A session is not ended by what is left of an earlier one: no flag is set, no
\* thread has stopped and no reset message has come without a cause in it.
NoSpuriousReset ==
    \A g \in Gateways : main[g] = "transfer" /\ ~Cause(g) =>
        ~reset[g] /\ ~mail[g] /\ enc[g] = "loop" /\ dec[g] = "loop"

\* A gateway whose device has gone ends the session, unless the thread that
\* reads the device has died.
DeviceLossEndsSession ==
    \A g \in Gateways :
        main[g] = "transfer" /\ ~dev[g] ~> main[g] # "transfer" \/ enc[g] = "dead"

\* What one gateway has ended the other ends, unless the thread that reads the
\* connection has died.
SessionsEndTogether ==
    \A g \in Gateways : open[g] /\ PeerClosed(g) ~> ~open[g] \/ dec[g] = "dead"

\* Ctrl+C ends the program, dead threads or not; and the peer's session, unless the
\* thread of the peer that reads the connection has died.
ExitIsHonoured ==
    \A g \in Gateways :
        /\ exit[g] ~> main[g] = "exited"
        /\ exit[g] /\ Joined ~> ~open[Peer(g)] \/ dec[Peer(g)] = "dead"

\* reset_flag brings the gateway back to where it accepts the next session.
ResetReturns == \A g \in Gateways : reset[g] ~> main[g] \in {"accept", "exited"}
=============================================================================
