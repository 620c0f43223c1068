---------------------------- MODULE MCMobileApp ----------------------------
(***************************************************************************)
(* Model checking of MobileApp.                                            *)
(***************************************************************************)
EXTENDS MobileApp, TLC
=============================================================================
