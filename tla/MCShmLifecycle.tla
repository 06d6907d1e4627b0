--------------------------- MODULE MCShmLifecycle ---------------------------
(* TLC instance of ShmLifecycle.  Three calls of create_client: one whose  *)
(* client dies, one that meets what it left, and one that comes after or   *)
(* in between; the server may attach any number of times.                  *)
EXTENDS ShmLifecycle
=============================================================================
