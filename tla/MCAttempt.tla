----------------------------- MODULE MCAttempt -----------------------------
(***************************************************************************)
(* AttemptSystem for TLC. The .cfg files choose how many attempts, which   *)
(* faults, and how long the queues.                                        *)
(***************************************************************************)
EXTENDS AttemptSystem

CONSTANTS u1, a1, a2

MCUsers       == {u1}
OneAttempt    == {a1}
TwoAttempts   == {a1, a2}
NoAttempts    == {}
=============================================================================
