---------------------------- MODULE MCQuoteWorker ---------------------------
(***************************************************************************)
(* Small instances of QuoteWorker for TLC.                                 *)
(***************************************************************************)
EXTENDS QuoteWorker, TLC

(* Nothing distinguishes two rows, pairs, workers, tokens or rates.        *)
Symmetry == UNION {Permutations(S) : S \in {Ids, Pairs, Workers, Tokens, Rates}}

(* Application clocks that agree with the database, and some that do not.  *)
Synchronised == {0}
Drifting     == {-1, 0}
=============================================================================
