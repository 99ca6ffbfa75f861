-------------------------- MODULE LifecycleProofs --------------------------
(* What the process of the bridge keeps, for any jobs and any messages. *)
EXTENDS Lifecycle, TLAPS

-----------------------------------------------------------------------------
(* The moderation. *)

LEMMA FetchKeeps ==
    ASSUME ModerationInv, NEW batch, Fetches(batch)
    PROVE  ModerationInv'
<1> USE DEF ModerationInv, Fetches, Fetchable
<1>1. ModerationTypeOK'
  <2>1. \A m \in batch : fetches[m] + 1 \in 0..MaxFetches
    BY MaxFetchesAssumption DEF ModerationTypeOK
  <2>2. QED
    BY <2>1 DEF ModerationTypeOK
<1>2. \A m \in Message : copies[m] \in Nat /\ fetches[m] \in Nat /\ fetches[m] <= fetches'[m]
  BY MaxFetchesAssumption DEF ModerationTypeOK
<1>3. NothingIsLost' /\ RepeatsAreRedeliveries'
  BY <1>2, <1>1, MaxFetchesAssumption
  DEF NothingIsLost, RepeatsAreRedeliveries, ModerationTypeOK
<1>4. HandlersKnowMessages'
  <2> SUFFICES ASSUME NEW m \in Message
               PROVE  /\ handler'[m] = "forward" => copies'[m] < fetches'[m]
                      /\ handler'[m] = "delete" => copies'[m] > 0
    BY DEF HandlersKnowMessages
  <2>1. CASE m \in batch
    <3>1. fetches'[m] = fetches[m] + 1 /\ handler'[m] = "forward" /\ copies' = copies
      BY <2>1
    <3>2. QED
      BY <3>1, <1>2 DEF RepeatsAreRedeliveries
  <2>2. CASE m \notin batch
    BY <2>2 DEF HandlersKnowMessages
  <2>3. QED
    BY <2>1, <2>2
<1>5. QED
  BY <1>1, <1>3, <1>4

LEMMA HandlerKeeps ==
    ASSUME ModerationInv, NEW m \in Message, HandlerStep(m)
    PROVE  ModerationInv'
<1> USE DEF ModerationInv, ModerationTypeOK, NothingIsLost, RepeatsAreRedeliveries,
            HandlersKnowMessages
<1>1. \A n \in Message : copies[n] \in Nat /\ fetches[n] \in Nat /\ fetches[n] <= MaxFetches
  BY MaxFetchesAssumption
<1>2. ASSUME handler[m] = "forward"
      PROVE  copies[m] + 1 \in 0..MaxFetches /\ copies[m] + 1 <= fetches[m]
  BY <1>1, <1>2, MaxFetchesAssumption
<1>3. CASE ForwardConfirmed(m)
  BY <1>1, <1>2, <1>3 DEF ForwardConfirmed
<1>4. CASE ForwardUnanswered(m)
  BY <1>1, <1>2, <1>4 DEF ForwardUnanswered
<1>5. CASE ForwardFails(m)
  BY <1>5 DEF ForwardFails
<1>6. CASE DeleteEnds(m)
  BY <1>6 DEF DeleteEnds
<1>7. QED
  BY <1>3, <1>4, <1>5, <1>6 DEF HandlerStep

LEMMA CutOffKeeps ==
    ASSUME ModerationInv, CutOff
    PROVE  ModerationInv'
<1> USE DEF ModerationInv, ModerationTypeOK, NothingIsLost, RepeatsAreRedeliveries,
            HandlersKnowMessages
<1>1. \A n \in Message : copies[n] \in Nat /\ fetches[n] \in Nat /\ fetches[n] <= MaxFetches
  BY MaxFetchesAssumption
<1>2. PICK done \in SUBSET {m \in Message : handler[m] # "none" /\ m \notin deleted} :
        /\ copies' = [m \in Message |->
                        IF m \in done /\ handler[m] = "forward"
                        THEN copies[m] + 1 ELSE copies[m]]
        /\ deleted' = deleted \union {m \in done : handler[m] = "delete"}
  BY DEF CutOff
<1>3. \A m \in Message : /\ copies'[m] \in 0..MaxFetches
                         /\ copies[m] <= copies'[m]
                         /\ copies'[m] <= fetches[m]
  BY <1>1, <1>2, MaxFetchesAssumption
<1>4. \A m \in deleted' : m \in Message /\ copies[m] > 0
  BY <1>2
<1>5. /\ handler' = [m \in Message |-> "none"]
      /\ update' \in [Message -> {"waiting", "fetched", "confirmed"}]
      /\ fetches' = fetches
  BY DEF CutOff
<1>6. copies' \in [Message -> 0..MaxFetches]
  BY <1>2, <1>3
<1>7. \A m \in deleted' : copies'[m] > 0
  BY <1>1, <1>3, <1>4, MaxFetchesAssumption
<1>8. QED
  BY <1>3, <1>4, <1>5, <1>6, <1>7

-----------------------------------------------------------------------------
(* The process. *)

\* What the steps of the process keep.
ProcessInv ==
    /\ TypeOK
    /\ StartsInOrder
    /\ ClosesInOrder

LEMMA StartupKeeps ==
    ASSUME ProcessInv, ModerationTypeOK',
           Starts \/ SchemaCreated \/ Recovered \/ RunsOnce \/ InstallsHandlers \/ Serves
    PROVE  ProcessInv'
<1> USE NoJobAssumption
    DEF ProcessInv, TypeOK, StartsInOrder, ClosesInOrder, Idle, Working, Startup, Cleanup
<1>1. CASE Starts
  BY <1>1 DEF Starts, tasks
<1>2. CASE SchemaCreated
  BY <1>2 DEF SchemaCreated, tasks, resources
<1>3. CASE Recovered
  BY <1>3 DEF Recovered, tasks
<1>4. CASE RunsOnce
  BY <1>4 DEF RunsOnce, resources
<1>5. CASE InstallsHandlers
  BY <1>5 DEF InstallsHandlers, resources
<1>6. CASE Serves
  BY <1>6 DEF Serves, resources
<1>7. QED
  BY <1>1, <1>2, <1>3, <1>4, <1>5, <1>6

\* The service stops serving, whatever makes it.
LEMMA StopKeeps ==
    ASSUME ProcessInv, ModerationTypeOK',
           \/ StartupFails \/ OnceReturns \/ Leaves
           \/ OnceInterrupted \/ ShutdownRequested
    PROVE  ProcessInv'
<1> USE NoJobAssumption
    DEF ProcessInv, TypeOK, StartsInOrder, ClosesInOrder, Idle, Working, Startup, Cleanup
<1>1. CASE StartupFails \/ OnceReturns \/ Leaves
  <2>1. Closes /\ main \in Startup \union {"once", "interrupted", "serving"}
    BY <1>1 DEF StartupFails, OnceReturns, Leaves
  <2>2. QED
    BY <2>1 DEF Closes, tasks, resources
<1>2. CASE OnceInterrupted
  BY <1>2 DEF OnceInterrupted, resources
<1>3. CASE ShutdownRequested
  BY <1>3 DEF ShutdownRequested, tasks, resources
<1>4. QED
  BY <1>1, <1>2, <1>3

LEMMA CleanupKeeps ==
    ASSUME ProcessInv, ModerationTypeOK',
           RefresherGone \/ JobsGone \/ PollingGone \/ SessionCloses \/ DatabaseDisposed
    PROVE  ProcessInv'
<1> USE DEF ProcessInv, TypeOK, StartsInOrder, ClosesInOrder, Idle, Working, Startup, Cleanup
<1>1. CASE RefresherGone
  BY <1>1 DEF RefresherGone, resources
<1>2. CASE JobsGone
  BY <1>2 DEF JobsGone, tasks, resources
<1>3. CASE PollingGone
  BY <1>3 DEF PollingGone, tasks, resources
<1>4. CASE SessionCloses
  BY <1>4 DEF SessionCloses, tasks
<1>5. CASE DatabaseDisposed
  BY <1>5 DEF DatabaseDisposed, tasks
<1>6. QED
  BY <1>1, <1>2, <1>3, <1>4, <1>5

LEMMA EndKeeps ==
    ASSUME ProcessInv, ModerationTypeOK', Ends
    PROVE  ProcessInv'
BY DEF Ends, ProcessInv, TypeOK, StartsInOrder, ClosesInOrder, Idle, Working, Startup, Cleanup

LEMMA TaskKeeps ==
    ASSUME ProcessInv, ModerationTypeOK',
           \/ \E j \in Job : Fires(j) \/ Begins(j) \/ Dropped(j) \/ JobEnds(j)
           \/ RefresherEnds \/ PollingEnds
    PROVE  ProcessInv'
<1> USE DEF ProcessInv, TypeOK, StartsInOrder, ClosesInOrder, Idle, Working, Startup, Cleanup,
            process, resources
<1>1. ASSUME NEW j \in Job, Fires(j)
      PROVE  ProcessInv'
  BY <1>1 DEF Fires, SetsJob
<1>2. ASSUME NEW j \in Job, Begins(j)
      PROVE  ProcessInv'
  BY <1>2 DEF Begins, SetsJob
<1>3. ASSUME NEW j \in Job, Dropped(j) \/ JobEnds(j)
      PROVE  ProcessInv'
  BY <1>3 DEF Dropped, JobEnds, SetsJob
<1>4. CASE RefresherEnds
  BY <1>4 DEF RefresherEnds
<1>5. CASE PollingEnds
  BY <1>5 DEF PollingEnds
<1>6. QED
  BY <1>1, <1>2, <1>3, <1>4, <1>5

\* Every step leaves the moderation alone or is one of its steps.
LEMMA ModerationMoves ==
    ASSUME [Next]_vars
    PROVE  \/ UNCHANGED moderation
           \/ \E batch \in SUBSET Fetchable : Fetches(batch)
           \/ \E m \in Message : HandlerStep(m)
           \/ CutOff
BY DEF Next, MainStep, vars, Starts, SchemaCreated, Recovered, RunsOnce, InstallsHandlers,
       Serves, StartupFails, OnceReturns, Leaves, Closes, OnceInterrupted, ShutdownRequested,
       RefresherGone, JobsGone, PollingGone, SessionCloses, DatabaseDisposed, Exit, Crash,
       Ends, Fires, Begins, Dropped, JobEnds, SetsJob, RefresherEnds, PollingEnds, Polls,
       Handles

LEMMA ModerationKeeps ==
    ASSUME ModerationInv, [Next]_vars
    PROVE  ModerationInv'
<1>1. CASE UNCHANGED moderation
  BY <1>1 DEF moderation, ModerationInv, ModerationTypeOK, NothingIsLost,
              RepeatsAreRedeliveries, HandlersKnowMessages
<1>2. CASE \E batch \in SUBSET Fetchable : Fetches(batch)
  BY <1>2, FetchKeeps
<1>3. CASE \E m \in Message : HandlerStep(m)
  BY <1>3, HandlerKeeps
<1>4. CASE CutOff
  BY <1>4, CutOffKeeps
<1>5. QED
  BY <1>1, <1>2, <1>3, <1>4, ModerationMoves

LEMMA ProcessKeeps ==
    ASSUME ProcessInv, ModerationTypeOK', [Next]_vars
    PROVE  ProcessInv'
<1>1. CASE Starts \/ SchemaCreated \/ Recovered \/ RunsOnce \/ InstallsHandlers \/ Serves
  BY <1>1, StartupKeeps
<1>2. CASE StartupFails \/ OnceReturns \/ Leaves \/ OnceInterrupted \/ ShutdownRequested
  BY <1>2, StopKeeps
<1>3. CASE RefresherGone \/ JobsGone \/ PollingGone \/ SessionCloses \/ DatabaseDisposed
  BY <1>3, CleanupKeeps
<1>4. CASE Exit \/ Crash
  BY <1>4, EndKeeps DEF Exit, Crash
<1>5. CASE \/ \E j \in Job : Fires(j) \/ Begins(j) \/ Dropped(j) \/ JobEnds(j)
           \/ RefresherEnds \/ PollingEnds
  BY <1>5, TaskKeeps
<1>6. CASE UNCHANGED <<process, tasks, resources>>
  BY <1>6 DEF process, tasks, resources, ProcessInv, TypeOK, StartsInOrder, ClosesInOrder,
              Idle, Working
<1>7. QED
  BY <1>1, <1>2, <1>3, <1>4, <1>5, <1>6 DEF Next, MainStep, Polls, Handles, vars

\* Startup and cleanup go through their stages in order, and handlers know
\* their messages, whenever a process stops or dies.
THEOREM Invariant == Spec => []IInv
<1>1. Init => IInv
  <2> SUFFICES ASSUME Init PROVE IInv
    OBVIOUS
  <2>1. ModerationInv
    BY MaxFetchesAssumption
    DEF Init, ModerationInit, ModerationInv, ModerationTypeOK, NothingIsLost,
        RepeatsAreRedeliveries, HandlersKnowMessages
  <2>2. QED
    BY <2>1 DEF Init, IInv, TypeOK, ModerationInv, StartsInOrder, ClosesInOrder, Idle,
                Working, Startup, Cleanup
<1>2. IInv /\ [Next]_vars => IInv'
  <2> SUFFICES ASSUME IInv, [Next]_vars PROVE IInv'
    OBVIOUS
  <2>1. ModerationInv'
    BY ModerationKeeps DEF IInv
  <2>2. ProcessInv'
    BY <2>1, ProcessKeeps DEF IInv, ProcessInv, ModerationInv
  <2>3. QED
    BY <2>1, <2>2 DEF IInv, ProcessInv
<1>3. QED
  BY <1>1, <1>2, PTL DEF Spec

\* The session and the database are closed after everything that uses them.
THEOREM Closed == Spec => []ClosedAfterUse
<1>1. IInv => ClosedAfterUse
  BY DEF IInv, ClosesInOrder, ClosedAfterUse, Cleanup, Working
<1>2. QED
  BY <1>1, Invariant, PTL

\* Whatever stops, fails or dies, main is in a stage of the code, and so are the
\* jobs, the connections and the handlers of the messages.
THEOREM TypeCorrect == Spec => []TypeOK
<1>1. IInv => TypeOK
  BY DEF IInv
<1>2. QED
  BY <1>1, Invariant, PTL

\* A message is deleted from its topic only when the General topic has a copy.
THEOREM MessagesKept == Spec => []NothingIsLost
<1>1. IInv => NothingIsLost
  BY DEF IInv, ModerationInv
<1>2. QED
  BY <1>1, Invariant, PTL

\* A message has at most one copy for every time that it was delivered.
THEOREM CopiesAreRedeliveries == Spec => []RepeatsAreRedeliveries
<1>1. IInv => RepeatsAreRedeliveries
  BY DEF IInv, ModerationInv
<1>2. QED
  BY <1>1, Invariant, PTL

-----------------------------------------------------------------------------
(* The process is the host that the delivery service expects. *)

LEMMA HostStep ==
    ASSUME IInv, [Next]_vars
    PROVE  [Host!Next]_(Host!host)
<1> USE DEF Host!Next, Host!host, Cleanup, Startup
<1>0. ProcessInv /\ ProcessInv'
  BY ModerationKeeps, ProcessKeeps DEF IInv, ProcessInv, ModerationInv
<1>1. ASSUME job' = job
      PROVE  Busy' = Busy
  BY <1>1 DEF Busy, Working
<1>2. CASE Starts \/ SchemaCreated \/ InstallsHandlers \/ Serves
  <2>1. HostPhase' = HostPhase /\ job' = job
    BY <1>0, <1>2 DEF ProcessInv, TypeOK, StartsInOrder, ClosesInOrder, HostPhase, Starts, SchemaCreated,
       InstallsHandlers, Serves, tasks, resources
  <2>2. QED
    BY <1>1, <2>1
<1>3. CASE Recovered
  <2>1. HostPhase = "down" /\ HostPhase' = "up" /\ job' = job
    BY <1>0, <1>3 DEF ProcessInv, TypeOK, StartsInOrder, ClosesInOrder, HostPhase, Recovered, tasks
  <2>2. QED
    BY <1>1, <2>1 DEF Host!Boot
<1>4. CASE RunsOnce
  <2>1. HostPhase = "up" /\ HostPhase' = "up"
    BY <1>0, <1>4 DEF ProcessInv, TypeOK, StartsInOrder, ClosesInOrder, HostPhase, RunsOnce, resources
  <2>2. once \in Job /\ Busy' = Busy \union {once}
    BY <1>0, <1>4 DEF ProcessInv, TypeOK, RunsOnce, Busy, Working
  <2>3. QED
    BY <2>1, <2>2 DEF Host!Begin
<1>5. CASE StartupFails \/ OnceReturns \/ Leaves
  <2>1. /\ job' = job
        /\ \/ HostPhase' = HostPhase
           \/ HostPhase = "up" /\ HostPhase' = "stopping"
    BY <1>0, <1>5 DEF ProcessInv, TypeOK, StartsInOrder, ClosesInOrder, HostPhase, StartupFails, OnceReturns,
       Leaves, Closes, tasks, resources
  <2>2. QED
    BY <1>1, <2>1 DEF Host!Shutdown
<1>6. CASE OnceInterrupted
  <2>1. HostPhase = "up" /\ HostPhase' = "stopping"
    BY <1>0, <1>6 DEF ProcessInv, TypeOK, StartsInOrder, ClosesInOrder, HostPhase, OnceInterrupted, resources
  <2>2. Busy' = Busy
    BY <1>0, <1>6 DEF ProcessInv, TypeOK, StartsInOrder, OnceInterrupted, Busy, Working
  <2>3. QED
    BY <2>1, <2>2 DEF Host!Shutdown
<1>7. CASE ShutdownRequested \/ RefresherEnds \/ PollingEnds \/ Polls
           \/ \E m \in Message : Handles(m)
  <2>1. HostPhase' = HostPhase /\ job' = job
    BY <1>7 DEF HostPhase, ShutdownRequested, RefresherEnds, PollingEnds, Polls, Handles,
                process, tasks, resources
  <2>2. QED
    BY <1>1, <2>1
<1>8. CASE RefresherGone
  <2>1. HostPhase' = HostPhase
    BY <1>0, <1>8 DEF ProcessInv, TypeOK, StartsInOrder, ClosesInOrder, HostPhase, RefresherGone, resources
  <2>2. Busy' = Busy
    BY <1>0, <1>8 DEF ProcessInv, TypeOK, RefresherGone, Busy, Working
  <2>3. QED
    BY <2>1, <2>2
<1>9. CASE JobsGone \/ PollingGone \/ SessionCloses
  <2>1. HostPhase' = HostPhase /\ job' = job
    BY <1>0, <1>9 DEF ProcessInv, TypeOK, StartsInOrder, ClosesInOrder, HostPhase, JobsGone, PollingGone,
       SessionCloses, tasks, resources
  <2>2. QED
    BY <1>1, <2>1
<1>10. CASE DatabaseDisposed
  <2>1. HostPhase \in {"down", "stopping"} /\ HostPhase' = "down" /\ job' = job
    BY <1>0, <1>10 DEF ProcessInv, TypeOK, ClosesInOrder, HostPhase, DatabaseDisposed, tasks
  <2>2. Busy = {}
    BY <1>0, <1>10 DEF ProcessInv, ClosesInOrder, DatabaseDisposed, Busy, Working
  <2>3. QED
    BY <1>1, <2>1, <2>2 DEF Host!Exit
<1>11. CASE Exit \/ Crash
  <2>1. HostPhase' = "down" /\ Busy' = {}
    BY <1>11 DEF Exit, Crash, Ends, HostPhase, Busy, Working
  <2>2. QED
    BY <2>1 DEF Host!Die
<1>12. ASSUME NEW j \in Job, Fires(j) \/ Begins(j) \/ Dropped(j) \/ JobEnds(j)
       PROVE  [Host!Next]_(Host!host)
  <2>1. HostPhase' = HostPhase
    BY <1>12 DEF Fires, Begins, Dropped, JobEnds, SetsJob, HostPhase, process, resources
  <2>2. CASE Fires(j) \/ Dropped(j) \/ (Begins(j) /\ ~ accepting)
    <3>1. Busy' = Busy
      BY <1>0, <2>2 DEF ProcessInv, TypeOK, Fires, Begins, Dropped, SetsJob, Busy, Working
    <3>2. QED
      BY <2>1, <3>1
  <2>3. CASE Begins(j) /\ accepting
    <3>1. Busy' = Busy \union {j}
      BY <1>0, <2>3 DEF ProcessInv, TypeOK, Begins, SetsJob, Busy, Working
    <3>2. HostPhase = "up"
      BY <1>0, <2>3 DEF ProcessInv, TypeOK, StartsInOrder, ClosesInOrder, Idle, Begins, SetsJob, HostPhase
    <3>3. QED
      BY <2>1, <3>1, <3>2 DEF Host!Begin
  <2>4. CASE JobEnds(j)
    <3>1. Busy' = Busy \ {j}
      BY <1>0, <2>4 DEF ProcessInv, TypeOK, JobEnds, SetsJob, Busy, Working
    <3>2. QED
      BY <2>1, <3>1 DEF Host!Finish
  <2>5. QED
    BY <1>12, <2>2, <2>3, <2>4
<1>13. CASE UNCHANGED vars
  BY <1>13, <1>1 DEF vars, process, tasks, resources, HostPhase
<1>14. QED
  BY <1>2, <1>3, <1>4, <1>5, <1>6, <1>7, <1>8, <1>9, <1>10, <1>11, <1>12, <1>13
  DEF Next, MainStep

\* No job works before recovery or begins once the shutdown has, and the
\* process does not end under a job that works, unless it dies.
THEOREM Hosts == Spec => HostsJobs
<1>1. Init => Host!Init
  BY DEF Init, Host!Init, HostPhase, Busy, Working
<1>2. IInv /\ [Next]_vars => [Host!Next]_(Host!host)
  BY HostStep
<1>3. QED
  BY <1>1, <1>2, Invariant, PTL DEF Spec, HostsJobs, Host!Spec
=============================================================================
