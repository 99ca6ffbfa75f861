---------------------------- MODULE MCLifecycle ----------------------------
(* Lifecycle with two jobs and two messages. *)
EXTENDS Lifecycle

CONSTANTS j1, j2, m1, m2
=============================================================================
