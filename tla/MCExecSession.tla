--------------------------- MODULE MCExecSession ----------------------------
(***************************************************************************)
(* ExecSession for TLC; the .cfg files give the bounds.                    *)
(***************************************************************************)
EXTENDS ExecSession
=============================================================================
