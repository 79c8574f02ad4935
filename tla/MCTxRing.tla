------------------------------ MODULE MCTxRing ------------------------------
(* Constants of the TxRing runs: a ring of four slots, one page of four     *)
(* bytes, requests of up to three notifications.                             *)
EXTENDS TxRing

MCLengths == {1, 4}
MCStarts == {N - 1}
=============================================================================
