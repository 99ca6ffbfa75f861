------------------------------ MODULE JobHost ------------------------------
(***************************************************************************)
(* What the delivery service expects of the process it lives in, and the   *)
(* process of the jobs it runs: work begins only while the process is up,  *)
(* and the process goes down under work only by dying.                     *)
(***************************************************************************)
CONSTANT Job

VARIABLES
    phase,  \* "down", "up" or "stopping"
    busy    \* the jobs that are at work on the database and the bot

host == <<phase, busy>>

Init == phase = "down" /\ busy = {}

Boot ==
    /\ phase = "down"
    /\ phase' = "up"
    /\ UNCHANGED busy

Begin(j) ==
    /\ phase = "up"
    /\ busy' = busy \union {j}
    /\ UNCHANGED phase

Finish(j) ==
    /\ busy' = busy \ {j}
    /\ UNCHANGED phase

Shutdown ==
    /\ phase = "up"
    /\ phase' = "stopping"
    /\ UNCHANGED busy

Exit ==
    /\ phase = "stopping"
    /\ busy = {}
    /\ phase' = "down"
    /\ UNCHANGED busy

Die ==
    /\ phase' = "down"
    /\ busy' = {}

Next ==
    \/ \E j \in Job : Begin(j) \/ Finish(j)
    \/ Boot \/ Shutdown \/ Exit \/ Die

Spec == Init /\ [][Next]_host
=============================================================================
