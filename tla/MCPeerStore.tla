---------------------------- MODULE MCPeerStore ----------------------------
(***************************************************************************)
(* PeerStore for TLC.  The peers are interchangeable.                      *)
(***************************************************************************)
EXTENDS PeerStore, TLC

PeerSymmetry == Permutations(PubKeys)
============================================================================
