----------------------------- MODULE MCPathLock -----------------------------
(***************************************************************************)
(* Instance of PathLock for TLC.                                           *)
(***************************************************************************)
EXTENDS PathLock
=============================================================================
