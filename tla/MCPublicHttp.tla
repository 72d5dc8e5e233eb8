---------------------------- MODULE MCPublicHttp ----------------------------
(***************************************************************************)
(* TLC instance of PublicHttp.                                             *)
(***************************************************************************)
EXTENDS PublicHttp
=============================================================================
