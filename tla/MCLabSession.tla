---------------------------- MODULE MCLabSession ----------------------------
(***************************************************************************)
(* LabSession for TLC; the .cfg files give the bounds.                     *)
(***************************************************************************)
EXTENDS LabSession
=============================================================================
