------------------------ MODULE GatewaySessionProofs ------------------------
(***************************************************************************)
(* Theorems of GatewaySession for any number of sessions.                  *)
(***************************************************************************)
EXTENDS GatewaySession, TLAPS

\* The threads run only in a transfer; flags, messages and the open connection
\* belong to a session.
Tidy(g) ==
    /\ main[g] # "transfer" => enc[g] \in {"ended", "dead"} /\ dec[g] \in {"ended", "dead"}
    /\ main[g] \in {"accept", "connect", "exchange"} => ~reset[g]
    /\ mail[g] => open[g]
    /\ main[g] \in {"accept", "exited"} => ~open[g]
    /\ main[g] = "connect" => (open[g] <=> g = Server)
    /\ main[g] \in {"exchange", "transfer"} => open[g]

\* Whatever ends a session has a cause in it.
Caused(g) ==
    /\ main[g] = "transfer" /\ (reset[g] \/ enc[g] # "loop" \/ dec[g] # "loop") => Cause(g)
    /\ mail[g] => Cause(g)

SessionInv ==
    /\ TypeOK
    /\ conn[Server] <= conn[Client]
    /\ \A g \in Gateways : Tidy(g) /\ Caused(g)

LEMMA SessionInvInit == Init => SessionInv
BY GatewayAssumption
DEF Init, SessionInv, TypeOK, Places, Tidy, Caused, Gateways, Peer

LEMMA SessionInvNext == SessionInv /\ [Next]_vars => SessionInv'
<1> SUFFICES ASSUME SessionInv, [Next]_vars PROVE SessionInv'
  OBVIOUS
<1> USE GatewayAssumption
    DEF SessionInv, TypeOK, Places, Tidy, Caused, Cause, Hurt, PeerClosed, Joined, Gateways, Peer
<1>1. CASE UNCHANGED vars
  BY <1>1 DEF vars
<1>2. CASE AcceptDevice
  BY <1>2 DEF AcceptDevice
<1>3. CASE ConnectGateway
  BY <1>3 DEF ConnectGateway
<1>4. CASE AcceptGateway
  BY <1>4 DEF AcceptGateway
<1>5. CASE ConnectDevice
  BY <1>5 DEF ConnectDevice
<1>6. ASSUME NEW g \in Gateways, ExchangeSucceeds(g) PROVE SessionInv'
  BY <1>6 DEF ExchangeSucceeds, ExchangeEnds
<1>7. ASSUME NEW g \in Gateways, ConnectRefused(g) PROVE SessionInv'
  BY <1>7 DEF ConnectRefused, Exits
<1>8. ASSUME NEW g \in Gateways, ExchangeFails(g) PROVE SessionInv'
  BY <1>8 DEF ExchangeFails, ExchangeEnds
<1>9. ASSUME NEW g \in Gateways, ExchangeRaises(g) PROVE SessionInv'
  BY <1>9 DEF ExchangeRaises, ExchangeEnds, Exits
<1>10. ASSUME NEW g \in Gateways, Join(g) PROVE SessionInv'
  BY <1>10 DEF Join
<1>11. ASSUME NEW g \in Gateways, Close(g) PROVE SessionInv'
  BY <1>11 DEF Close, NextSession, CloseSockets
<1>12. ASSUME NEW g \in Gateways, CloseAndExit(g) PROVE SessionInv'
  BY <1>12 DEF CloseAndExit, Exits
<1>13. ASSUME NEW g \in Gateways, EncStops(g) PROVE SessionInv'
  BY <1>13 DEF EncStops, Told
<1>14. ASSUME NEW g \in Gateways, EncDeviceGone(g) PROVE SessionInv'
  BY <1>14 DEF EncDeviceGone, EncEndsSession
<1>15. ASSUME NEW g \in Gateways, EncLinkBroken(g) PROVE SessionInv'
  BY <1>15 DEF EncLinkBroken, EncEndsSession
<1>16. ASSUME NEW g \in Gateways, EncSendsReset(g) PROVE SessionInv'
  BY <1>16 DEF EncSendsReset
<1>17. ASSUME NEW g \in Gateways, EncDies(g) PROVE SessionInv'
  BY <1>17 DEF EncDies
<1>18. ASSUME NEW g \in Gateways, DecStops(g) PROVE SessionInv'
  BY <1>18 DEF DecStops, Told
<1>19. ASSUME NEW g \in Gateways, DecLinkGone(g) PROVE SessionInv'
  BY <1>19 DEF DecLinkGone, DecLosesLink, DecEndsSession
<1>20. ASSUME NEW g \in Gateways, DecReadsReset(g) PROVE SessionInv'
  BY <1>20 DEF DecReadsReset, DecEndsSession
<1>21. ASSUME NEW g \in Gateways, DecDropsReset(g) PROVE SessionInv'
  BY <1>21 DEF DecDropsReset
<1>22. ASSUME NEW g \in Gateways, DecDeviceBroken(g) PROVE SessionInv'
  BY <1>22 DEF DecDeviceBroken, DecEndsSession
<1>23. ASSUME NEW g \in Gateways, DecDies(g) PROVE SessionInv'
  BY <1>23 DEF DecDies
<1>24. ASSUME NEW g \in Gateways, InterruptTransfer(g) PROVE SessionInv'
  BY <1>24 DEF InterruptTransfer
<1>25. ASSUME NEW g \in Gateways, Interrupt(g) PROVE SessionInv'
  BY <1>25 DEF Interrupt, Exits
<1>26. ASSUME NEW g \in Gateways, Restart(g) PROVE SessionInv'
  BY <1>26 DEF Restart, NextSession
<1>27. ASSUME NEW g \in Gateways, DeviceLeaves(g) PROVE SessionInv'
  BY <1>27 DEF DeviceLeaves
<1>28. ASSUME NEW g \in Gateways, DecReadsNothing(g) PROVE SessionInv'
  BY <1>28 DEF DecReadsNothing, DecLosesLink, DecEndsSession
<1>29. ASSUME NEW g \in Gateways, DecSendsReset(g) PROVE SessionInv'
  BY <1>29 DEF DecSendsReset
<1> QED
  BY <1>1, <1>2, <1>3, <1>4, <1>5, <1>6, <1>7, <1>8, <1>9, <1>10, <1>11, <1>12, <1>13, <1>14, <1>15, <1>16, <1>17, <1>18, <1>19, <1>20, <1>21, <1>22, <1>23, <1>24, <1>25, <1>26, <1>27, <1>28, <1>29
  DEF Next, Main, Encrypting, Decrypting, Incident

LEMMA SessionInvariant == SafetySpec => []SessionInv
BY SessionInvInit, SessionInvNext, PTL DEF SafetySpec

\* Every variable keeps its type, for any number of sessions and restarts.
THEOREM SessionTypeCorrect == SafetySpec => []TypeOK
<1>1. SessionInv => TypeOK
  BY DEF SessionInv
<1> QED BY <1>1, SessionInvariant, PTL

\* No session, however many came before it and however they ended, is ended by
\* a flag, a thread or a reset message of another.
THEOREM NoSessionEndsForAnother == SafetySpec => []NoSpuriousReset
<1>1. SessionInv => NoSpuriousReset
  <2> SUFFICES ASSUME SessionInv, NEW g \in Gateways, main[g] = "transfer", ~Cause(g)
               PROVE  ~reset[g] /\ ~mail[g] /\ enc[g] = "loop" /\ dec[g] = "loop"
    BY DEF NoSpuriousReset
  <2>1. Caused(g) /\ reset[g] \in BOOLEAN
    BY DEF SessionInv, TypeOK
  <2> QED BY <2>1 DEF Caused
<1> QED BY <1>1, SessionInvariant, PTL

=============================================================================
