------------------------------ MODULE MCRxPath ------------------------------
(* Constants of the RxPath runs.                                             *)
EXTENDS RxPath

MCRecv == {FALSE}
MCApis == {TRUE, FALSE}
=============================================================================
