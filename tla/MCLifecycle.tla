---------------------------- MODULE MCLifecycle -----------------------------
(* Lifecycle with two SIGINTs, so that a second one finds the main thread  *)
(* in the handler already.                                                 *)
EXTENDS Lifecycle

AllFaults == {"arguments", "open", "bind"}
=============================================================================
