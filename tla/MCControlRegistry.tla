------------------------- MODULE MCControlRegistry -------------------------
(***************************************************************************)
(* TLC instance of ControlRegistry.  The proofs module is extended so that *)
(* their inductive invariant is at hand for TLC too.                       *)
(***************************************************************************)
EXTENDS ControlRegistryProofs
=============================================================================
