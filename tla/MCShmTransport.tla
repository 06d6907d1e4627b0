--------------------------- MODULE MCShmTransport ---------------------------
(* TLC instance of ShmTransport: three calls are enough for one to time    *)
(* out, one to overwrite its request, and one to read its late response.   *)
EXTENDS ShmTransport

MCCallerIds == {0, 7}
=============================================================================
