--------------------------- MODULE MCBulkService ---------------------------
(* For checking BulkService by itself.                                     *)
EXTENDS BulkService
=============================================================================
