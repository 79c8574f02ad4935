------------------------------ MODULE MCTxPath ------------------------------
(* Constants of the run of TxPath alone: requests of one and of two          *)
(* notifications.                                                            *)
EXTENDS TxPath

MCLengths == {2, 4}
MCStarts == {N - 1}
=============================================================================
