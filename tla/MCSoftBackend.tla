--------------------------- MODULE MCSoftBackend ----------------------------
(* SoftBackend under TLC: queues of two elements, two values.                *)
EXTENDS SoftBackend

MCQueues == {"to", "from"}
MCData == Messages
MCFiles == {1}
MCVals == {0, 1}
=============================================================================
