-------------------------- MODULE MCCommandRunner --------------------------
(* CommandRunner with the processes that ignore SIGTERM. *)
EXTENDS CommandRunner

MCBoth == Process
MCNone == {}
=============================================================================
