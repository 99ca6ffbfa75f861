------------------------------- MODULE Catalog -------------------------------
(***************************************************************************)
(* The catalog of SoundCloud tracks: the cache file, the manager that      *)
(* refreshes it, at start and then in the background, and the requests of  *)
(* CatalogMusicSource, which walk a pool of candidates and reject those    *)
(* that turn out to be invalid.                                            *)
(*                                                                         *)
(* CatalogCache holds no state: every call reads the file, and there is no *)
(* await between a read and the write that follows it.  A step is the end  *)
(* of an await of the manager or of a request.  The ranks of candidates    *)
(* depend on counts that change with every refresh: any order may come.    *)
(***************************************************************************)
EXTENDS Naturals, Sequences, FiniteSets, Functions

CONSTANTS
    Task,       \* the jobs, each of which makes one request at a time
    Query, Url,
    Pool,       \* the catalog_queries of each job's topic
    Limit,      \* candidate_attempts
    NoTask,     \* the service, where a task is the topic of a run-once
    NoFile      \* the file is missing or not a catalog

Candidate == [query: Query, url: Url]

ASSUME PoolAssumption == Pool \in [Task -> (SUBSET Query) \ {{}}]
ASSUME LimitAssumption == Limit \in Nat \ {0}
ASSUME NoTaskAssumption == NoTask \notin Task

File == [candidates: SUBSET Candidate, rejected: SUBSET Url]

ASSUME NoFileAssumption == NoFile \notin File

VARIABLES
    file,       \* the catalog on disk
    mode,       \* "down", "starting", "checking" or "up"
    once,       \* the topic of --run-once, or NoTask
    trying,     \* the candidates each request has left, the one it tries first
    used        \* the URLs of the claimed tracks

vars == <<file, mode, once, trying, used>>

TypeOK ==
    /\ file \in File \union {NoFile}
    /\ mode \in {"down", "starting", "checking", "up"}
    /\ once \in Task \union {NoTask}
    /\ trying \in [Task -> {s \in Seq(Candidate) : Len(s) <= Limit}]
    /\ used \subseteq Url

Init ==
    /\ file = NoFile
    /\ mode = "down"
    /\ once = NoTask
    /\ trying = [t \in Task |-> <<>>]
    /\ used = {}

-----------------------------------------------------------------------------
(* CatalogCache. *)

\* The queries of the manager: those of every topic, or of the one that runs.
Queries == IF once = NoTask THEN UNION {Pool[t] : t \in Task} ELSE Pool[once]

Candidates == IF file = NoFile THEN {} ELSE file.candidates
Rejected == IF file = NoFile THEN {} ELSE file.rejected

Cached(q) == {c \in Candidates : c.query = q}

\* select_pool, before it is ranked and cut.
Selectable(queries, excluded) ==
    {c \in Candidates : /\ c.query \in queries
                        /\ c.url \notin Rejected
                        /\ c.url \notin excluded}

\* The selection, in any order of ranks: all of S, or the first places.
Selection(S, places) ==
    {s \in UNION {Injection(1..n, S) : n \in 0..places} :
        Len(s) < places => S = Range(s)}

\* Mutant: one place too many.
OneMoreRanked(S) == Selection(S, Limit + 1)

Ranked(S) == Selection(S, Limit)

\* require_capacity.
HasCapacity == \A q \in Queries : Selectable({q}, used) # {}

\* Mutant: the new catalog starts without rejections.
SaveForgetting(candidates) ==
    file' = [candidates |-> candidates, rejected |-> {}]

\* save: the rejections are those in the file now.
Save(candidates) ==
    file' = [candidates |-> candidates, rejected |-> Rejected]

Reject(url) ==
    /\ file # NoFile
    /\ file' = [file EXCEPT !.rejected = @ \union {url}]

-----------------------------------------------------------------------------
(* SoundCloudCatalogManager. *)

\* Mutant: what the collector did not find is dropped.
OnlyCollected(collected) == collected

\* A query that the collector found nothing for keeps what was cached.
Merged(collected) ==
    collected \union
        {c \in Candidates : /\ c.query \in Queries
                            /\ \A d \in collected : d.query # c.query}

\* refresh_or_load.  A collection that fails, times out or finds nothing, and a
\* file that cannot be written, fall back to the file as it is.
RefreshOrLoad ==
    \/ \E collected \in SUBSET {c \in Candidate : c.query \in Queries} :
        collected # {} /\ Save(Merged(collected))
    \/ file # NoFile /\ UNCHANGED file

\* The process begins as the service, or to run one topic.
Starts ==
    /\ mode = "down"
    /\ mode' = "starting"
    /\ once' \in Task \union {NoTask}
    /\ UNCHANGED <<file, trying, used>>

StartRefreshes ==
    /\ mode = "starting"
    /\ RefreshOrLoad
    /\ mode' = "checking"
    /\ UNCHANGED <<once, trying, used>>

StartChecks ==
    /\ mode = "checking"
    /\ mode' = IF HasCapacity THEN "up" ELSE "down"
    /\ UNCHANGED <<file, once, trying, used>>

\* run_periodic, which --run-once does not start.
Refreshes ==
    /\ mode = "up"
    /\ once = NoTask
    /\ RefreshOrLoad
    /\ UNCHANGED <<mode, once, trying, used>>

\* An error at start, the shutdown, the end of --run-once, or a crash.  A write
\* that is cut off leaves a temporary file and the catalog as it was.
Stops ==
    /\ mode # "down"
    /\ mode' = "down"
    /\ trying' = [t \in Task |-> <<>>]
    /\ UNCHANGED <<file, once, used>>

-----------------------------------------------------------------------------
(* CatalogMusicSource.request_track. *)

Tries(t, candidates) == trying' = [trying EXCEPT ![t] = candidates]

Trying(t) == mode = "up" /\ trying[t] # <<>>

\* The exclusions are the used tracks and those of the delivery's own conflicts.
\* A pool without candidates is exhausted at once.
Requests(t) ==
    /\ mode = "up"
    /\ once \in {t, NoTask}
    /\ trying[t] = <<>>
    /\ \E conflicts \in SUBSET Url :
        \E ranking \in Ranked(Selectable(Pool[t], used \union conflicts)) :
            Tries(t, ranking)
    /\ UNCHANGED <<file, mode, once, used>>

\* The candidate is prepared; its delivery may claim it.
Succeeds(t) ==
    /\ Trying(t)
    /\ Tries(t, <<>>)
    /\ \/ used' = used \union {Head(trying[t]).url}
       \/ UNCHANGED used
    /\ UNCHANGED <<file, mode, once>>

\* The candidate is not valid.
Rejects(t) ==
    /\ Trying(t)
    /\ Reject(Head(trying[t]).url)
    /\ Tries(t, Tail(trying[t]))
    /\ UNCHANGED <<mode, once, used>>

\* A failed command, or another task prepares it.
Skips(t) ==
    /\ Trying(t)
    /\ Tries(t, Tail(trying[t]))
    /\ UNCHANGED <<file, mode, once, used>>

\* A cancellation, or a rejection that cannot be written.
Fails(t) ==
    /\ Trying(t)
    /\ Tries(t, <<>>)
    /\ UNCHANGED <<file, mode, once, used>>

RequestStep(t) == Succeeds(t) \/ Rejects(t) \/ Skips(t) \/ Fails(t)

-----------------------------------------------------------------------------
Next ==
    \/ Starts \/ StartRefreshes \/ StartChecks \/ Refreshes \/ Stops
    \/ \E t \in Task : Requests(t) \/ RequestStep(t)

Spec == Init /\ [][Next]_vars

-----------------------------------------------------------------------------
\* While the process serves, every query it was started with has candidates in
\* the file: no refresh, complete or partial, and no failure takes away the last
\* of them.
QueriesStayCached == mode = "up" => \A q \in Queries : Cached(q) # {}

\* A rejection is for good: one made while a refresh collects is in the file
\* that the refresh writes, and no crash and no later start loses it.
RejectionsSurvive == [][file # NoFile => file' # NoFile /\ Rejected \subseteq Rejected']_vars

\* Within a request, the candidate that is tried after a rejection is one that
\* has not been rejected.
RejectedIsNotTried ==
    [][\A t \in Task :
        (trying'[t] # trying[t] /\ trying'[t] # <<>>)
            => Head(trying'[t]).url \notin Rejected']_vars
=============================================================================
