------------------------ MODULE CommandRunnerProofs ------------------------
(* What a call of AsyncCommandRunner.run keeps, whoever ignores SIGTERM.   *)
EXTENDS CommandRunner, TLAPS

\* The processes that Terminate leaves: asked to end, or on their own.
LEMMA TerminateKeeps ==
    ASSUME TypeOK, Terminate
    PROVE  /\ process' \in [Process -> {"none", "running", "asked", "exited"}]
           /\ \A p \in Process : Live(p)' <=> Live(p)
           /\ \A p \in Process : process'[p] = "none" <=> process[p] = "none"
           /\ pc' \in {"term", "drain"}
           /\ pc' = "drain" => ~ Live("leader")
BY DEF TypeOK, Terminate, Signal, Live, Process

\* The tasks of gather that a timeout or a cancellation ends.
LEMMA CancelKeeps ==
    ASSUME TypeOK, CancelFutures
    PROVE  /\ future' \in [Future -> {"open", "done", "failed", "cancelled"}]
           /\ \A f \in Future : future'[f] = "done" => future[f] = "done"
BY DEF TypeOK, CancelFutures

\* The invariant is inductive.
THEOREM Invariant == Spec => []IInv
<1> USE DEF Process, Future, Reader
<1>1. Init => IInv
  BY DEF Init, IInv, TypeOK, Live, OnlyCancelledLeaves
<1>2. IInv /\ [Next]_vars => IInv'
  <2> SUFFICES ASSUME IInv, [Next]_vars PROVE IInv'
    OBVIOUS
  <2>1. TypeOK
    BY DEF IInv
  <2> USE DEF IInv, OnlyCancelledLeaves
  <2>2. CASE Starts \/ StartFails
    BY <2>2 DEF Starts, StartFails, TypeOK, Live
  <2>3. CASE Forks
    BY <2>3 DEF Forks, TypeOK, Live
  <2>4. ASSUME NEW p \in Process, Exits(p) PROVE IInv'
    BY <2>4 DEF Exits, TypeOK, Live
  <2>5. ASSUME NEW f \in Future, EndOfPipe(f) PROVE IInv'
    BY <2>5 DEF EndOfPipe, Completes, TypeOK, Live
  <2>6. ASSUME NEW f \in Future, Fails(f) PROVE IInv'
    BY <2>6 DEF Fails, Completes, TypeOK, Live
  <2>7. CASE MonitorEnds
    BY <2>7 DEF MonitorEnds, Completes, TypeOK, Live
  <2>8. CASE Returns
    BY <2>8 DEF Returns, TypeOK, Live
  <2>9. CASE Aborts
    BY <2>1, <2>9, TerminateKeeps DEF Aborts, TypeOK, Live
  <2>10. CASE Expires
    BY <2>1, <2>10, TerminateKeeps, CancelKeeps DEF Expires, TypeOK, Live
  <2>11. CASE Escalates
    BY <2>11 DEF Escalates, Signal, TypeOK, Live
  <2>12. CASE Reaps
    BY <2>12 DEF Reaps, TypeOK, Live
  <2>13. CASE Drains
    BY <2>13 DEF Drains, TypeOK, Live
  <2>14. CASE CancelArrives
    BY <2>1, <2>14, TerminateKeeps, CancelKeeps DEF CancelArrives, TypeOK, Live
  <2>15. CASE UNCHANGED vars
    BY <2>15 DEF vars, TypeOK, Live
  <2>16. QED
    BY <2>2, <2>3, <2>4, <2>5, <2>6, <2>7, <2>8, <2>9, <2>10, <2>11, <2>12,
       <2>13, <2>14, <2>15 DEF Next
<1>3. QED
  BY <1>1, <1>2, PTL DEF Spec

\* A result is only returned when no process of the group is left.
THEOREM ReturnsOver == Spec => []ReturnedIsOver
<1>1. IInv => ReturnedIsOver
  BY DEF IInv, ReturnedIsOver, Future, Reader
<1>2. QED
  BY <1>1, Invariant, PTL

\* Only a cancellation leaves the command itself alive.
THEOREM OnlyCancelled == Spec => []OnlyCancelledLeaves
<1>1. IInv => OnlyCancelledLeaves
  BY DEF IInv
<1>2. QED
  BY <1>1, Invariant, PTL
=============================================================================
