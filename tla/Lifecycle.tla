------------------------------ MODULE Lifecycle ------------------------------
(***************************************************************************)
(* The process of main.py: its startup, the jobs of the scheduler under    *)
(* the registry, the catalog refresher, the polling of the moderation, and *)
(* the cleanup of _build_and_run, which closes them in order.              *)
(*                                                                         *)
(* main names the await that _build_and_run is suspended in; where a       *)
(* configuration leaves it nothing to await the step is taken all the      *)
(* same.  What a job does is BridgeService; what the refresher does is     *)
(* Catalog.                                                                *)
(***************************************************************************)
EXTENDS Moderation

CONSTANTS
    Job,    \* the scheduler's jobs
    NoJob   \* the process was started without --run-once

ASSUME NoJobAssumption == NoJob \notin Job

VARIABLES
    main,       \* the await of _build_and_run, "down" without a process
    once,       \* the topic of --run-once, or NoJob
    requested,  \* shutdown_event is set
    accepting,  \* ActiveJobRegistry._accepting
    scheduler,  \* the scheduler runs
    job,        \* the task of each job
    refresher,  \* catalog_task
    polling,    \* the task of PollingLifecycle
    session,    \* the bot and its session
    database    \* the engine

process == <<main, once, requested, accepting>>
tasks == <<scheduler, job, refresher, polling>>
resources == <<session, database>>
vars == <<process, tasks, resources, moderation>>

Startup == {"schema", "recover", "catalog", "moderation"}
Cleanup == {"refresher", "jobs", "polling", "session", "database", "over"}

TypeOK ==
    /\ main \in {"down", "once", "interrupted", "serving"} \union Startup \union Cleanup
    /\ once \in Job \union {NoJob}
    /\ requested \in BOOLEAN
    /\ accepting \in BOOLEAN
    /\ scheduler \in BOOLEAN
    /\ job \in [Job -> {"idle", "submitted", "running", "cancelled"}]
    /\ refresher \in {"none", "running"}
    /\ polling \in {"none", "running", "ended"}
    /\ session \in {"none", "open", "closed"}
    /\ database \in {"none", "open", "disposed"}
    /\ ModerationTypeOK

Init ==
    /\ main = "down"
    /\ once = NoJob
    /\ requested = FALSE
    /\ accepting = FALSE
    /\ scheduler = FALSE
    /\ job = [j \in Job |-> "idle"]
    /\ refresher = "none"
    /\ polling = "none"
    /\ session = "none"
    /\ database = "none"
    /\ ModerationInit

-----------------------------------------------------------------------------
(* Startup. *)

Starts ==
    /\ main = "down"
    /\ main' = "schema"
    /\ once' \in Job \union {NoJob}
    /\ accepting' = TRUE
    /\ database' = "open"
    /\ UNCHANGED <<requested, tasks, session, moderation>>

SchemaCreated ==
    /\ main = "schema"
    /\ main' = "recover"
    /\ UNCHANGED <<once, requested, accepting, tasks, resources, moderation>>

\* recover_nonterminal returned, and the bot is made.
Recovered ==
    /\ main = "recover"
    /\ main' = "catalog"
    /\ session' = "open"
    /\ UNCHANGED <<once, requested, accepting, tasks, database, moderation>>

\* With the catalog ready, --run-once calls the service in the main task.
RunsOnce ==
    /\ main = "catalog"
    /\ once # NoJob
    /\ main' = "once"
    /\ job' = [job EXCEPT ![once] = "running"]
    /\ UNCHANGED <<once, requested, accepting, scheduler, refresher, polling,
                   resources, moderation>>

\* Otherwise the signal handlers are installed, and there is a refresher if
\* there is a query to refresh.
InstallsHandlers ==
    /\ main = "catalog"
    /\ once = NoJob
    /\ main' = "moderation"
    /\ refresher' \in {"none", "running"}
    /\ UNCHANGED <<once, requested, accepting, scheduler, job, polling,
                   resources, moderation>>

\* start_moderation returned: polling if it is enabled, then the scheduler.
Serves ==
    /\ main = "moderation"
    /\ main' = "serving"
    /\ polling' \in {"none", "running"}
    /\ scheduler' = TRUE
    /\ UNCHANGED <<once, requested, accepting, job, refresher, resources, moderation>>

\* Mutant: the finally clause keeps the registry open.
ClosesAccepting ==
    /\ main' = "refresher"
    /\ UNCHANGED <<once, requested, accepting, tasks, resources, moderation>>

\* The finally clause up to its first await.
Closes ==
    /\ main' = "refresher"
    /\ accepting' = FALSE
    /\ UNCHANGED <<once, requested, tasks, resources, moderation>>

\* An await of the startup raises, or SIGINT cancels it.
StartupFails == main \in Startup /\ Closes

\* SIGINT cancels the main task while no handler is installed.
OnceInterrupted ==
    /\ main = "once"
    /\ job[once] = "running"
    /\ main' = "interrupted"
    /\ job' = [job EXCEPT ![once] = "cancelled"]
    /\ UNCHANGED <<once, requested, accepting, scheduler, refresher, polling,
                   resources, moderation>>

OnceReturns == main \in {"once", "interrupted"} /\ job[once] = "idle" /\ Closes

\* SIGTERM or SIGINT, once the handlers are installed.
ShutdownRequested ==
    /\ main \in {"moderation", "serving"}
    /\ requested' = TRUE
    /\ UNCHANGED <<main, once, accepting, tasks, resources, moderation>>

\* Mutant: only the end of polling is waited for.
LeavesAfterPolling == main = "serving" /\ polling = "ended" /\ Closes

\* wait_for_shutdown: polling that ends unasked ends the service.
Leaves == main = "serving" /\ (requested \/ polling = "ended") /\ Closes

-----------------------------------------------------------------------------
(* Cleanup.  A step that raises has its error kept, and the next is taken. *)

\* The scheduler stops, and cancel_and_wait cancels the jobs that run.
RefresherGone ==
    /\ main = "refresher"
    /\ refresher = "none"
    /\ main' = "jobs"
    /\ scheduler' = FALSE
    /\ job' = [j \in Job |-> IF job[j] = "running" THEN "cancelled" ELSE job[j]]
    /\ UNCHANGED <<once, requested, accepting, refresher, polling, resources, moderation>>

\* Mutant: the jobs are cancelled but not awaited.
JobsCancelled ==
    /\ main = "jobs"
    /\ main' = "polling"
    /\ UNCHANGED <<once, requested, accepting, tasks, resources, moderation>>

\* The jobs that were cancelled have ended.
JobsGone ==
    /\ main = "jobs"
    /\ \A j \in Job : job[j] # "cancelled"
    /\ main' = "polling"
    /\ UNCHANGED <<once, requested, accepting, tasks, resources, moderation>>

\* stop_polling was called, and the polling task awaited.
PollingGone ==
    /\ main = "polling"
    /\ polling # "running"
    /\ main' = "session"
    /\ UNCHANGED <<once, requested, accepting, tasks, resources, moderation>>

SessionCloses ==
    /\ main = "session"
    /\ main' = "database"
    /\ session' = IF session = "open" THEN "closed" ELSE session
    /\ UNCHANGED <<once, requested, accepting, tasks, database, moderation>>

DatabaseDisposed ==
    /\ main = "database"
    /\ main' = "over"
    /\ database' = "disposed"
    /\ UNCHANGED <<once, requested, accepting, tasks, session, moderation>>

\* Only the database, the catalog and what Telegram keeps outlive a process.
Ends ==
    /\ main' = "down"
    /\ once' = NoJob
    /\ requested' = FALSE
    /\ accepting' = FALSE
    /\ scheduler' = FALSE
    /\ job' = [j \in Job |-> "idle"]
    /\ refresher' = "none"
    /\ polling' = "none"
    /\ session' = "none"
    /\ database' = "none"
    /\ CutOff

\* _build_and_run returned or raised; asyncio.run cancels what still runs.
Exit == main = "over" /\ Ends

\* The process dies, as it does of SIGTERM while no handler is installed.
Crash == main \notin {"down", "over"} /\ Ends

-----------------------------------------------------------------------------
(* The tasks. *)

SetsJob(j, from, to) ==
    /\ job[j] \in from
    /\ job' = [job EXCEPT ![j] = to]
    /\ UNCHANGED <<process, scheduler, refresher, polling, resources, moderation>>

\* APScheduler submits a job that does not run.
Fires(j) == scheduler /\ SetsJob(j, {"idle"}, "submitted")

\* Mutant: the registry runs whatever is submitted.
BeginsAlways(j) == SetsJob(j, {"submitted"}, "running")

\* ActiveJobRegistry.run.
Begins(j) == SetsJob(j, {"submitted"}, IF accepting THEN "running" ELSE "idle")

\* The shutdown of the scheduler cancels the tasks that have not begun.
Dropped(j) == ~ scheduler /\ SetsJob(j, {"submitted"}, "idle")

\* BridgeService.run returned or raised.
JobEnds(j) == SetsJob(j, {"running", "cancelled"}, "idle")

\* run_periodic returns when shutdown is requested or it is cancelled.
RefresherEnds ==
    /\ refresher = "running"
    /\ requested \/ main \in Cleanup
    /\ refresher' = "none"
    /\ UNCHANGED <<process, scheduler, job, polling, resources, moderation>>

\* start_polling returns or raises, asked to or not.
PollingEnds ==
    /\ polling = "running"
    /\ polling' = "ended"
    /\ UNCHANGED <<process, scheduler, job, refresher, resources, moderation>>

Polls ==
    /\ polling = "running"
    /\ \E batch \in SUBSET Fetchable : Fetches(batch)
    /\ UNCHANGED <<process, tasks, resources>>

Handles(m) == HandlerStep(m) /\ UNCHANGED <<process, tasks, resources>>

-----------------------------------------------------------------------------
MainStep ==
    \/ SchemaCreated \/ Recovered \/ RunsOnce \/ InstallsHandlers \/ Serves
    \/ OnceReturns \/ Leaves
    \/ RefresherGone \/ JobsGone \/ PollingGone
    \/ SessionCloses \/ DatabaseDisposed \/ Exit

Next ==
    \/ Starts \/ MainStep \/ StartupFails
    \/ OnceInterrupted \/ ShutdownRequested \/ Crash
    \/ \E j \in Job : Fires(j) \/ Begins(j) \/ Dropped(j) \/ JobEnds(j)
    \/ RefresherEnds \/ PollingEnds \/ Polls
    \/ \E m \in Message : Handles(m)

Spec == Init /\ [][Next]_vars

\* Every await of the main task and of a job ends, a cancelled refresher ends,
\* and so does polling that is asked to stop.
FairSpec ==
    /\ Spec
    /\ WF_vars(MainStep)
    /\ \A j \in Job : WF_vars(JobEnds(j))
    /\ WF_vars(RefresherEnds)
    /\ WF_vars(main = "polling" /\ PollingEnds)

-----------------------------------------------------------------------------
Working(j) == job[j] \in {"running", "cancelled"}

\* Nothing that uses the bot's session or the database outlives it: at the
\* latest when the session closes no job works, no refresh runs and polling
\* has ended, however the process came to stop.
ClosedAfterUse ==
    (session = "closed" \/ database = "disposed") =>
        /\ \A j \in Job : ~ Working(j)
        /\ refresher = "none"
        /\ polling # "running"

\* The process keeps what the delivery service expects of it: no work before
\* recovery or after the shutdown began, and no end of the process under work.
HostPhase ==
    IF session = "none" \/ database = "disposed" THEN "down"
    ELSE IF main \in Cleanup \union {"interrupted"} THEN "stopping"
    ELSE "up"

Busy == {j \in Job : Working(j)}

Host == INSTANCE JobHost WITH phase <- HostPhase, busy <- Busy

HostsJobs == Host!Spec

-----------------------------------------------------------------------------
(* The inductive invariant behind ClosedAfterUse and HostsJobs. *)

Idle == \A j \in Job : job[j] = "idle"

\* What is there only from some await of the startup on.
StartsInOrder ==
    /\ main \in {"down", "schema", "recover"} => session = "none"
    /\ main \in {"catalog", "moderation", "once", "interrupted", "serving"}
        => session = "open"
    /\ session = "none" => Idle /\ ~ scheduler /\ polling = "none" /\ refresher = "none"
    /\ main \in {"catalog", "moderation"} => Idle
    /\ main \in {"catalog", "moderation", "once", "interrupted"}
        => ~ scheduler /\ polling = "none"
    /\ main \in {"catalog", "once", "interrupted"} => refresher = "none"
    /\ main \in {"once", "interrupted"} =>
        /\ once \in Job
        /\ \A j \in Job \ {once} : job[j] = "idle"
        /\ job[once] # "submitted"

\* What is gone from some await of the cleanup on.
ClosesInOrder ==
    /\ main \in Cleanup => ~ accepting
    /\ main \in Cleanup \ {"refresher"} =>
        /\ ~ scheduler
        /\ refresher = "none"
        /\ \A j \in Job : job[j] # "running"
    /\ main \in {"polling", "session", "database", "over"} =>
        \A j \in Job : ~ Working(j)
    /\ main \in {"session", "database", "over"} => polling # "running"
    /\ session = "closed" => main \in {"database", "over"}
    /\ database = "disposed" <=> main = "over"

\* Startup and cleanup go through their stages in order, and a handler never
\* deletes what it has not seen forwarded.
IInv ==
    /\ TypeOK
    /\ StartsInOrder
    /\ ClosesInOrder
    /\ ModerationInv

-----------------------------------------------------------------------------
\* A shutdown that was requested, or has begun, ends.
ShutdownEnds == requested \/ main \in Cleanup ~> main = "down"
=============================================================================
