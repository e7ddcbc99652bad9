---------------------------- MODULE MCLifecycle ----------------------------
(* An HTTP server, a service with a Shutdown, and one without.                *)
EXTENDS Lifecycle
=============================================================================
