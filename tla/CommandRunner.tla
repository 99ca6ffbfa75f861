---------------------------- MODULE CommandRunner ----------------------------
(***************************************************************************)
(* One call of AsyncCommandRunner.run: a command in a session of its own,  *)
(* two bounded readers of its pipes, a monitor of its download directory,  *)
(* a timeout, and the escalation from SIGTERM to SIGKILL.                  *)
(*                                                                         *)
(* The command (the leader of the process group) may start a child, as     *)
(* yt-dlp starts ffmpeg.  Both hold both pipes, so a reader finds the end  *)
(* of its pipe when neither lives.                                         *)
(***************************************************************************)
CONSTANTS
    Stubborn,   \* the processes that may ignore SIGTERM
    MayCancel   \* whether shutdown may cancel the call, once

Process == {"leader", "child"}
Reader == {"stdout", "stderr"}
Future == Reader \union {"monitor"}

ASSUME StubbornAssumption == Stubborn \subseteq Process
ASSUME MayCancelAssumption == MayCancel \in BOOLEAN

VARIABLES
    pc,         \* what run awaits: gather, the wait after a signal, the rest
    process,    \* a process lives as "running", or as "asked" by SIGTERM
    future,     \* the tasks that gather waits for, next to process.wait()
    cancelled   \* whether the call was cancelled

vars == <<pc, process, future, cancelled>>

TypeOK ==
    /\ pc \in {"idle", "gather", "term", "kill", "drain", "returned", "raised"}
    /\ process \in [Process -> {"none", "running", "asked", "exited"}]
    /\ future \in [Future -> {"open", "done", "failed", "cancelled"}]
    /\ cancelled \in BOOLEAN

Init ==
    /\ pc = "idle"
    /\ process = [p \in Process |-> "none"]
    /\ future = [f \in Future |-> "open"]
    /\ cancelled = FALSE

Live(p) == process[p] \in {"running", "asked"}

-----------------------------------------------------------------------------
(* The processes. *)

Starts ==
    /\ pc = "idle"
    /\ pc' = "gather"
    /\ process' = [process EXCEPT !["leader"] = "running"]
    /\ UNCHANGED <<future, cancelled>>

\* The command cannot be started, or the cancellation ends it at once.
StartFails ==
    /\ pc = "idle"
    /\ pc' = "raised"
    /\ UNCHANGED <<process, future, cancelled>>

Forks ==
    /\ Live("leader")
    /\ process["child"] = "none"
    /\ process' = [process EXCEPT !["child"] = "running"]
    /\ UNCHANGED <<pc, future, cancelled>>

Exits(p) ==
    /\ Live(p)
    /\ process' = [process EXCEPT ![p] = "exited"]
    /\ UNCHANGED <<pc, future, cancelled>>

Obeys(p) ==
    /\ process[p] = "asked"
    /\ p \notin Stubborn
    /\ Exits(p)

OrphanExits ==
    /\ process["leader"] = "exited"
    /\ Exits("child")

-----------------------------------------------------------------------------
(* The readers and the monitor. *)

Completes(f, how) ==
    /\ future[f] = "open"
    /\ future' = [future EXCEPT ![f] = how]
    /\ UNCHANGED <<pc, process, cancelled>>

\* Mutant: a reader that ends with the command.
EndOfLeader(f) ==
    /\ pc # "idle"
    /\ f \in Reader
    /\ ~ Live("leader")
    /\ Completes(f, "done")

EndOfPipe(f) ==
    /\ pc # "idle"
    /\ f \in Reader
    /\ \A p \in Process : ~ Live(p)
    /\ Completes(f, "done")

MonitorEnds ==
    /\ process["leader"] = "exited"
    /\ Completes("monitor", "done")

\* Too much output, a download that has grown too large, or a file that
\* vanished while its size was taken.
Fails(f) ==
    /\ pc # "idle"
    /\ f = "monitor" => Live("leader")
    /\ Completes(f, "failed")

-----------------------------------------------------------------------------
(* run. *)

CancelFutures ==
    future' = [f \in Future |-> IF future[f] = "open" THEN "cancelled" ELSE future[f]]

Signal(effect) ==
    process' = [p \in Process |-> IF Live(p) THEN effect ELSE process[p]]

\* Mutant: the grace second is not waited for.
TerminateAndGo ==
    /\ Signal("asked")
    /\ pc' = "drain"

\* _terminate_group: no signal is sent when the command itself has exited.
Terminate ==
    IF Live("leader")
    THEN Signal("asked") /\ pc' = "term"
    ELSE UNCHANGED process /\ pc' = "drain"

Returns ==
    /\ pc = "gather"
    /\ process["leader"] = "exited"
    /\ \A f \in Future : future[f] = "done"
    /\ pc' = "returned"
    /\ UNCHANGED <<process, future, cancelled>>

\* gather raises the first failure and leaves the other tasks running.
Aborts ==
    /\ pc = "gather"
    /\ \E f \in Future : future[f] = "failed"
    /\ Terminate
    /\ UNCHANGED <<future, cancelled>>

\* wait_for cancels what gather waits for.
Expires ==
    /\ pc = "gather"
    /\ CancelFutures
    /\ Terminate
    /\ UNCHANGED cancelled

\* Mutant: a second SIGTERM.
EscalatesPolitely ==
    /\ pc = "term"
    /\ Live("leader")
    /\ Signal("asked")
    /\ pc' = "kill"
    /\ UNCHANGED <<future, cancelled>>

\* The command still lives after the grace second.
Escalates ==
    /\ pc = "term"
    /\ Live("leader")
    /\ Signal("exited")
    /\ pc' = "kill"
    /\ UNCHANGED <<future, cancelled>>

Reaps ==
    /\ pc \in {"term", "kill"}
    /\ ~ Live("leader")
    /\ pc' = "drain"
    /\ UNCHANGED <<process, future, cancelled>>

\* The second gather: it waits for every task and raises what run caught.
Drains ==
    /\ pc = "drain"
    /\ \A f \in Future : future[f] # "open"
    /\ pc' = "raised"
    /\ UNCHANGED <<process, future, cancelled>>

\* A cancellation during gather is handled like a failure; one that arrives
\* in the except clause leaves it at the await it is in.
CancelArrives ==
    /\ MayCancel /\ ~ cancelled
    /\ cancelled' = TRUE
    /\ \/ pc = "gather" /\ CancelFutures /\ Terminate
       \/ pc \in {"term", "kill"} /\ pc' = "raised" /\ UNCHANGED <<process, future>>
       \/ pc = "drain" /\ pc' = "raised" /\ CancelFutures /\ UNCHANGED process

-----------------------------------------------------------------------------
Next ==
    \/ Starts \/ StartFails \/ Forks
    \/ \E p \in Process : Exits(p)
    \/ \E f \in Future : EndOfPipe(f) \/ Fails(f)
    \/ MonitorEnds
    \/ Returns \/ Aborts \/ Expires \/ Escalates \/ Reaps \/ Drains
    \/ CancelArrives

Spec == Init /\ [][Next]_vars

\* The timers fire, the loop runs what is ready, SIGTERM ends whoever heeds it,
\* and a child ends some time after the command that started it.
FairSpec ==
    /\ Spec
    /\ WF_vars(Returns) /\ WF_vars(Aborts) /\ WF_vars(Expires)
    /\ WF_vars(Escalates) /\ WF_vars(Reaps) /\ WF_vars(Drains)
    /\ WF_vars(MonitorEnds)
    /\ \A f \in Reader : WF_vars(EndOfPipe(f))
    /\ \A p \in Process : WF_vars(Obeys(p))
    /\ WF_vars(OrphanExits)

-----------------------------------------------------------------------------
\* A result is only returned when the output of the whole group was read: no
\* process is left that could still write to the directory of the download.
ReturnedIsOver == pc = "returned" => \A p \in Process : ~ Live(p)

\* Unless a cancellation falls into the grace second, the command itself is
\* dead when run has raised, whether it heeds SIGTERM or not.
OnlyCancelledLeaves == pc = "raised" /\ Live("leader") => cancelled

\* Whatever hangs, run ends.
RunEnds == pc = "gather" ~> pc \in {"returned", "raised"}

\* When run has raised, no process of the group goes on unasked.
GroupIsTerminated == pc = "raised" => \A p \in Process : process[p] # "running"

\* The inductive invariant: what the end of a pipe and the states of run say of
\* the processes.
IInv ==
    /\ TypeOK
    /\ pc = "idle" =>
        /\ \A p \in Process : process[p] = "none"
        /\ \A f \in Future : future[f] = "open"
    /\ pc \notin {"idle", "raised"} => process["leader"] # "none"
    /\ process["leader"] = "none" => process["child"] = "none"
    /\ (\E f \in Reader : future[f] = "done") => \A p \in Process : ~ Live(p)
    /\ pc = "returned" => \A f \in Future : future[f] = "done"
    /\ pc \in {"kill", "drain"} => ~ Live("leader")
    /\ OnlyCancelledLeaves
=============================================================================
