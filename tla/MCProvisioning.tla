--------------------------- MODULE MCProvisioning ---------------------------
(* A network that exists and one that does not.                              *)
EXTENDS Provisioning
CONSTANTS home, gone
=============================================================================
