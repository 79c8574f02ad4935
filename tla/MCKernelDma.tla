---------------------------- MODULE MCKernelDma -----------------------------
(* KernelDma under TLC.                                                      *)
EXTENDS KernelDma
=============================================================================
