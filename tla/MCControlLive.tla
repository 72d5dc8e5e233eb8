--------------------------- MODULE MCControlLive ---------------------------
(***************************************************************************)
(* TLC instance of Control for its liveness properties, for which TLC      *)
(* cannot use symmetry.  It checks three instances, told apart by scene,   *)
(* which TLC chooses at the start, and lets the clients come in a fixed    *)
(* order, since nothing tells them apart:                                  *)
(*                                                                         *)
(*   visitors  one client with tunnels, proxies and visitors;              *)
(*   pair      one client with tunnels, and a second one that may replace  *)
(*             it and of which each may die at any time;                   *)
(*   chain     three clients, each of which may replace the one before,    *)
(*             and of which the last one may die.                          *)
(*                                                                         *)
(* In the last two heartbeats are lost of dead clients only.               *)
(***************************************************************************)
EXTENDS Control

VARIABLE scene
mcVars == <<vars, scene>>

\* The clients, numbered in the order they come in.
Number == CHOOSE f \in [Ctls -> 1..Cardinality(Ctls)] :
              \A c, d \in Ctls : c # d => f[c] # f[d]
Client(n) == {c \in Ctls : Number[c] = n}

\* The first n clients come, one after the other.
Comers(n) ==
    /\ \A c \in Ctls : Number[c] > n => nc'[c] = "auth"
    /\ \A c, d \in Ctls : nc'[c] # "auth" /\ Number[d] < Number[c] => nc'[d] # "auth"

OnlyTheDeadAreStale == \A c \in Ctls : stale'[c] => c \in gone

Visitors == Comers(1) /\ gone' \subseteq Client(1)

Pair ==
    /\ Comers(2) /\ gone' \subseteq Client(1) \cup Client(2)
    /\ OnlyTheDeadAreStale
    /\ \A c \in Client(2) : msgs'[c] = 0
    /\ UNCHANGED <<pxVars, pubVars>>

Chain ==
    /\ Comers(3) /\ gone' \subseteq Client(3)
    /\ OnlyTheDeadAreStale
    /\ UNCHANGED <<msgs, tunVars, pxVars, pubVars>>

MCInit == Init /\ scene \in {"visitors", "pair", "chain"}

MCNext ==
    /\ Next
    /\ CASE scene = "visitors" -> Visitors
         [] scene = "pair" -> Pair
         [] scene = "chain" -> Chain
    /\ UNCHANGED scene

MCSpec == MCInit /\ [][MCNext]_mcVars /\ Fairness
=============================================================================
