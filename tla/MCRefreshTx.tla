----------------------------- MODULE MCRefreshTx ----------------------------
(***************************************************************************)
(* A small instance of RefreshTx for TLC.                                  *)
(***************************************************************************)
EXTENDS RefreshTx, TLC

CONSTANTS k1, k2

DifferentHashes == (k1 :> 1) @@ (k2 :> 2)
=============================================================================
