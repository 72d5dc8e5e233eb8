-------------------------- MODULE MCTunnelRegistry --------------------------
(***************************************************************************)
(* TLC instances of TunnelRegistry: two clients behind one address, so     *)
(* that they share an affinity, and a cache too small for all their keys.  *)
(***************************************************************************)
EXTENDS TunnelRegistry, TLC

CONSTANTS c1, c2, t1, t2, i1, i2, ip, u1, u2, p1, p2

MCOwner == t1 :> c1 @@ t2 :> c2
MCIdOf == c1 :> i1 @@ c2 :> i2
MCIpOf == c1 :> ip @@ c2 :> ip
MCUrlSize == u1 :> 1 @@ u2 :> 2 @@ p1 :> 1 @@ p2 :> 1
=============================================================================
