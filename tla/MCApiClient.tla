---------------------------- MODULE MCApiClient ----------------------------
(* Constants for checking ApiClient. *)
EXTENDS ApiClient
=============================================================================
