----------------------------- MODULE MCTicLoop -----------------------------
(* TicLoop with a ring of four commands and a clock that counts twice a     *)
(* tic, for seven tics: the ring is used more than once, and a stall is     *)
(* long enough for TryRunTics to give up.                                   *)
EXTENDS TicLoop
=============================================================================
