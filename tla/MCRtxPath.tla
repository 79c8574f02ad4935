------------------------------ MODULE MCRtxPath ------------------------------
(* Constants of the RtxPath runs: requests of one and of two notifications,  *)
(* pipe 0 an RxTxPipe or, in the second choice, a plain one.                 *)
EXTENDS RtxPath

MCLengths == {2, 4}
MCOneLength == {4}
MCStarts == {N - 1}
MCChoices == {{}, {0}}
MCOneChoice == {{0}}
=============================================================================
