----------------------------- MODULE MCSafeload -----------------------------
(* Two tasks, the HTTP server and another one, change parameters at once.   *)
EXTENDS Safeload
CONSTANTS httpd, other
=============================================================================
