-------------------------------- MODULE MCAccounts --------------------------------
(***************************************************************************)
(* Instances of Accounts for TLC.                                           *)
(***************************************************************************)
EXTENDS Accounts, TLC

CONSTANTS r1, r2, q1, q2, k1, c1
=============================================================================
