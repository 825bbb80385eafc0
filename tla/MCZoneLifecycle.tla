-------------------------- MODULE MCZoneLifecycle --------------------------
(***************************************************************************)
(* ZoneLifecycle as TLC checks it: the bounds and switches are plain       *)
(* values, set in the MCZL_*.cfg of each run.                              *)
(***************************************************************************)
EXTENDS ZoneLifecycle
=============================================================================
