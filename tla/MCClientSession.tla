--------------------------- MODULE MCClientSession ---------------------------
(***************************************************************************)
(* TLC instances of ClientSession: two connections, so that the second one *)
(* is a reconnection, which may overtake the first.                        *)
(***************************************************************************)
EXTENDS ClientSession, TLC

CONSTANTS c1, c2, i1, i2

MCFreshId == c1 :> i1 @@ c2 :> i2
MCAsked == [k \in Cfgs |-> Urls]

Symmetry == Permutations(Cfgs) \cup Permutations(Urls)
=============================================================================
