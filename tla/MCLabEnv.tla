------------------------------ MODULE MCLabEnv ------------------------------
(***************************************************************************)
(* LabEnvOperator for TLC: one or two assets, one of which may be bad, and *)
(* network policies, quota and limits whose copies may be out of date.     *)
(***************************************************************************)
EXTENDS LabEnvOperator

CONSTANTS web, db

OneAsset  == {web}
TwoAssets == {web, db}
NoAssets  == {}
OnePart   == {"policies"}
=============================================================================
