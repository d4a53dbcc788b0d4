--------------------------- MODULE MCPendingBuffer ---------------------------
(* Constants for checking PendingBuffer. *)
EXTENDS PendingBuffer

CONSTANTS a, b, c
=============================================================================
