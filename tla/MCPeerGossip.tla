----------------------------- MODULE MCPeerGossip ----------------------------
(***************************************************************************)
(* An instance of PeerGossip for TLC: a deployment of three processes, in  *)
(* which p is the only one that an upstream is configured at.              *)
(***************************************************************************)
EXTENDS PeerGossip, TLC

CONSTANTS p, q, r, u

MCPrio      == (u :> 1)
MCConfig    == (p :> {u}) @@ (q :> {}) @@ (r :> {})
=============================================================================
