-------------------------- MODULE MCTunnelListener --------------------------
(***************************************************************************)
(* TLC instance of TunnelListener.  The registry's proofs are extended so  *)
(* that their assumptions and inductive invariant are at hand for TLC too. *)
(***************************************************************************)
EXTENDS TunnelListener, ControlRegistryProofs
=============================================================================
