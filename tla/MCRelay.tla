------------------------------ MODULE MCRelay ------------------------------
(***************************************************************************)
(* RelayHandler for TLC.                                                   *)
(***************************************************************************)
EXTENDS RelayHandler, TLC

CONSTANTS c1, c2, c3, u1, u2

ThreeConns == {c1, c2, c3}
MCUsers    == {u1, u2}
=============================================================================
