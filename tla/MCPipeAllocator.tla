-------------------------- MODULE MCPipeAllocator ---------------------------
(* PipeAllocator under TLC.                                                  *)
EXTENDS PipeAllocator

CONSTANTS a, b

MCHandles == {a, b}
=============================================================================
