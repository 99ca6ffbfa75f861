---------------------------- MODULE BridgeService ----------------------------
(***************************************************************************)
(* BridgeService.run as executed by the scheduler's jobs in one process    *)
(* over one database, with Telegram at the other end.                      *)
(*                                                                         *)
(* asyncio switches tasks only at an await, so a step of a job is the      *)
(* completion of the await it is suspended in, together with the           *)
(* synchronous code up to the next one; pc names the await.  An await      *)
(* returns, or raises an error, or raises CancelledError while the process *)
(* stops.  A database call that raises may have committed before.          *)
(***************************************************************************)
EXTENDS Repository

CONSTANTS
    Catalog,    \* for each job, the media its queries can find
    DirectJob,  \* the jobs whose first query is a direct URL
    Attempts,   \* source_attempts
    MaxCancels, \* bound: how often shutdown cancels one job
    Faults,     \* what may fail: "db", "source", "telegram", "discard"
    NoSlot, NoMedia, NoHash

ASSUME CatalogAssumption == Catalog \in [Job -> SUBSET Media]
ASSUME DirectJobAssumption == DirectJob \subseteq Job
ASSUME AttemptsAssumption == Attempts \in Nat \ {0}
ASSUME MaxCancelsAssumption == MaxCancels \in Nat
ASSUME NullAssumption ==
    NoSlot \notin Slot /\ NoMedia \notin Media /\ NoHash \notin Hash

VARIABLES
    process,    \* "down", "up" or "stopping"
    job,        \* the locals of each job's call of BridgeService.run
    cancels,    \* how often this process has cancelled each job
    uploads,    \* Telegram: what became of the upload for each occurrence
    sends       \* Telegram: how many uploads were made for it

service == <<process, job, cancels>>
telegram == <<uploads, sends>>
vars == <<deliveries, tracks, process, job, cancels, uploads, sends>>

\* "publish" and "sent" are one await, before and after the request has left;
\* "fail" and "doubt" are mark_failed and mark_ambiguous in _record_failure.
DatabaseAwait == {"reserve", "exclude", "claim", "confirm", "duplicate",
                  "fail", "doubt"}
Await == DatabaseAwait \union {"request", "download", "publish", "sent"}

JobState == [pc: Await \union {"idle"},
             slot: Slot \union {NoSlot},
             excluded: SUBSET Media,
             attempt: 0..Attempts,
             media: Media \union {NoMedia},
             sha: Hash \union {NoHash},
             message: Message]

\* A job of whose locals only the delivery and the message id still matter.
Suspended(pc, slot, message) ==
    [pc |-> pc, slot |-> slot, excluded |-> {}, attempt |-> 0,
     media |-> NoMedia, sha |-> NoHash, message |-> message]

IdleJob == Suspended("idle", NoSlot, "null")

UploadState == {"none", "inflight", "posted", "lost"}

Upload == [state: UploadState, track: Track \union {NoTrack}]

TypeOK ==
    /\ RepositoryTypeOK
    /\ process \in {"down", "up", "stopping"}
    /\ job \in [Job -> JobState]
    /\ cancels \in [Job -> 0..MaxCancels]
    /\ uploads \in [Occurrence -> Upload]
    /\ sends \in [Occurrence -> Nat]

Init ==
    /\ RepositoryInit
    /\ process = "down"
    /\ job = [j \in Job |-> IdleJob]
    /\ cancels = [j \in Job |-> 0]
    /\ uploads = [o \in Occurrence |-> [state |-> "none", track |-> NoTrack]]
    /\ sends = [o \in Occurrence |-> 0]

-----------------------------------------------------------------------------
Occ(j) == <<j, job[j].slot>>
ClaimOf(j) == [media |-> job[j].media, sha |-> job[j].sha]

Becomes(j, locals) == job' = [job EXCEPT ![j] = locals]

\* The job suspends in its next await with its locals otherwise unchanged.
Goto(j, pc) == Becomes(j, [job[j] EXCEPT !.pc = pc])

\* run returned or raised to the scheduler's wrapper: the locals are gone.
Finish(j) == Becomes(j, IdleJob)

\* Mutant: the stage is "publishing" only once publish has returned.
RecorderIfPublished(pc) == IF pc = "confirm" THEN "doubt" ELSE "fail"

\* An except clause of run: by the stage the failure happened in, it calls
\* mark_ambiguous or mark_failed.
RecorderOf(pc) == IF pc \in {"publish", "sent", "confirm"} THEN "doubt" ELSE "fail"

\* Mutant: message_id is not handed to _record_failure.
RecordFailureWithoutId(j) ==
    Becomes(j, Suspended(RecorderOf(job[j].pc), job[j].slot, "null"))

RecordFailure(j) ==
    Becomes(j, Suspended(RecorderOf(job[j].pc), job[j].slot, job[j].message))

\* The scheduler starts a job that is not running (max_instances) while the
\* registry accepts; the slot is whatever instant the wrapper computes.
Fire(j, s) ==
    /\ process = "up"
    /\ job[j].pc = "idle"
    /\ Becomes(j, Suspended("reserve", s, "null"))
    /\ UNCHANGED <<repository, process, cancels, telegram>>

ReserveInserts(j) ==
    /\ job[j].pc = "reserve"
    /\ InsertDelivery(Occ(j))
    /\ Goto(j, "exclude")
    /\ UNCHANGED <<process, cancels, telegram>>

\* "already_reserved".
ReserveFindsRow(j) ==
    /\ job[j].pc = "reserve"
    /\ Reserved(Occ(j))
    /\ Finish(j)
    /\ UNCHANGED <<repository, process, cancels, telegram>>

ExcludeReads(j) ==
    /\ job[j].pc = "exclude"
    /\ Becomes(j, [job[j] EXCEPT !.pc = "request",
                                 !.excluded = UsedMedia,
                                 !.attempt = 1])
    /\ UNCHANGED <<repository, process, cancels, telegram>>

\* The source returns media that the request did not exclude.
Eligible(j) == Catalog[j] \ job[j].excluded

RequestReturns(j) ==
    /\ job[j].pc = "request"
    /\ \E m \in Eligible(j) :
        Becomes(j, [job[j] EXCEPT !.pc = "download", !.media = m])
    /\ UNCHANGED <<repository, process, cancels, telegram>>

\* The content of a file is only known once it is converted and streamed.
DownloadReturns(j) ==
    /\ job[j].pc = "download"
    /\ \E h \in Hash :
        Becomes(j, [job[j] EXCEPT !.pc = "claim", !.sha = h])
    /\ UNCHANGED <<repository, process, cancels, telegram>>

\* From here on run returns or raises: it reads neither the exclusions nor the
\* attempt again.
ClaimReturns(j) ==
    /\ job[j].pc = "claim"
    /\ ClaimTrack(Occ(j), ClaimOf(j))
    /\ Becomes(j, [job[j] EXCEPT !.pc = "publish",
                                 !.excluded = {},
                                 !.attempt = 0])
    /\ UNCHANGED <<process, cancels, telegram>>

\* Mutant: one attempt too many.
TryOnceMore(j) ==
    IF j \notin DirectJob /\ job[j].attempt <= Attempts
    THEN Becomes(j, [job[j] EXCEPT !.pc = "request",
                                   !.excluded = @ \union {job[j].media},
                                   !.attempt = @ + 1])
    ELSE Finish(j)

\* Mutant: a candidate that turns out to be a duplicate is not an attempt.
TryNextUncounted(j) ==
    IF j \notin DirectJob
    THEN Becomes(j, [job[j] EXCEPT !.pc = "request",
                                   !.excluded = @ \union {job[j].media},
                                   !.media = NoMedia,
                                   !.sha = NoHash])
    ELSE Becomes(j, Suspended("duplicate", job[j].slot, "null"))

\* The media or its content was claimed before: discard it, then try another
\* candidate, unless the URL was given or the attempts are used up.
TryNext(j) ==
    IF j \notin DirectJob /\ job[j].attempt < Attempts
    THEN Becomes(j, [job[j] EXCEPT !.pc = "request",
                                   !.excluded = @ \union {job[j].media},
                                   !.attempt = @ + 1,
                                   !.media = NoMedia,
                                   !.sha = NoHash])
    ELSE Becomes(j, Suspended("duplicate", job[j].slot, "null"))

ClaimConflicts(j) ==
    /\ job[j].pc = "claim"
    /\ ~ Claimable(ClaimOf(j))
    /\ \/ TryNext(j)
       \/ /\ "discard" \in Faults
          /\ RecordFailure(j)
    /\ UNCHANGED <<repository, process, cancels, telegram>>

\* The request with the file leaves the host.
PublishSends(j) ==
    /\ job[j].pc = "publish"
    /\ Goto(j, "sent")
    /\ uploads' = [uploads EXCEPT ![Occ(j)] =
                        [state |-> "inflight", track |-> ClaimOf(j)]]
    /\ sends' = [sends EXCEPT ![Occ(j)] = @ + 1]
    /\ UNCHANGED <<repository, process, cancels>>

PublishReturns(j) ==
    /\ job[j].pc = "sent"
    /\ uploads[Occ(j)].state = "posted"
    /\ Becomes(j, [job[j] EXCEPT !.pc = "confirm", !.message = "id"])
    /\ UNCHANGED <<repository, process, cancels, telegram>>

\* mark_success, then the discard of the finally clause.
ConfirmReturns(j) ==
    /\ job[j].pc = "confirm"
    /\ MarkSuccess(Occ(j), ClaimOf(j))
    /\ \/ Finish(j)
       \/ /\ "discard" \in Faults
          /\ RecordFailure(j)
    /\ UNCHANGED <<process, cancels, telegram>>

DuplicateReturns(j) ==
    /\ job[j].pc = "duplicate"
    /\ MarkDuplicate(Occ(j))
    /\ Finish(j)
    /\ UNCHANGED <<process, cancels, telegram>>

FailReturns(j) ==
    /\ job[j].pc = "fail"
    /\ MarkFailed(Occ(j))
    /\ Finish(j)
    /\ UNCHANGED <<process, cancels, telegram>>

DoubtReturns(j) ==
    /\ job[j].pc = "doubt"
    /\ MarkAmbiguous(Occ(j), job[j].message)
    /\ Finish(j)
    /\ UNCHANGED <<process, cancels, telegram>>

-----------------------------------------------------------------------------
(* An await that raises. *)

\* Mutant: the track is committed before the delivery is updated.
CommitsTrackFirst(j) ==
    /\ job[j].pc = "claim"
    /\ Claimable(ClaimOf(j))
    /\ tracks' = tracks \union {ClaimOf(j)}
    /\ UNCHANGED deliveries

\* What the database call of each await writes when it commits.
Commits(j) ==
    \/ job[j].pc = "reserve" /\ InsertDelivery(Occ(j))
    \/ job[j].pc = "claim" /\ ClaimTrack(Occ(j), ClaimOf(j))
    \/ job[j].pc = "confirm" /\ MarkSuccess(Occ(j), ClaimOf(j))
    \/ job[j].pc = "duplicate" /\ MarkDuplicate(Occ(j))
    \/ job[j].pc = "fail" /\ MarkFailed(Occ(j))
    \/ job[j].pc = "doubt" /\ MarkAmbiguous(Occ(j), job[j].message)

MayHaveCommitted(j) == UNCHANGED repository \/ Commits(j)

\* reserve_delivery is called before the try statement, and an error while
\* a failure is recorded is logged or leaves the except clause.
Unwind(j) ==
    IF job[j].pc \in {"reserve", "fail", "doubt"}
    THEN Finish(j)
    ELSE RecordFailure(j)

CanRaise(j) ==
    \/ job[j].pc \in DatabaseAwait /\ "db" \in Faults
    \/ job[j].pc \in {"request", "download"} /\ "source" \in Faults
    \/ job[j].pc = "request" /\ Eligible(j) = {}
    \/ job[j].pc \in {"publish", "sent"} /\ "telegram" \in Faults
    \/ job[j].pc = "sent" /\ uploads[Occ(j)].state = "lost"

Raises(j) ==
    /\ CanRaise(j)
    /\ MayHaveCommitted(j)
    /\ Unwind(j)
    /\ UNCHANGED <<process, cancels, telegram>>

\* cancel_and_wait cancels every active job.  The scheduler's own shutdown
\* cancels it in the same turn of the event loop, which adds nothing to it.
CancelArrives(j) ==
    /\ process = "stopping"
    /\ job[j].pc # "idle"
    /\ cancels[j] < MaxCancels
    /\ cancels' = [cancels EXCEPT ![j] = @ + 1]
    /\ MayHaveCommitted(j)
    /\ Unwind(j)
    /\ UNCHANGED <<process, telegram>>

-----------------------------------------------------------------------------
(* The process, started again by the container runtime, and Telegram. *)

\* Mutants: recovery while jobs run, and a start that does not recover.
BootTwice ==
    /\ process \in {"down", "up"}
    /\ process' = "up"
    /\ RecoverNonterminal
    /\ UNCHANGED <<job, cancels, telegram>>

BootWithoutRecovery ==
    /\ process = "down"
    /\ process' = "up"
    /\ UNCHANGED <<repository, job, cancels, telegram>>

\* Startup creates the schema and recovers before any job can fire.
Boot ==
    /\ process = "down"
    /\ process' = "up"
    /\ RecoverNonterminal
    /\ UNCHANGED <<job, cancels, telegram>>

Shutdown ==
    /\ process = "up"
    /\ process' = "stopping"
    /\ UNCHANGED <<repository, job, cancels, telegram>>

\* Mutant: the shutdown does not wait for the jobs it cancelled.
ExitWithoutWaiting ==
    /\ process = "stopping"
    /\ process' = "down"
    /\ UNCHANGED <<repository, job, cancels, telegram>>

\* cancel_and_wait returned: no job runs when the database is disposed.
Exit ==
    /\ process = "stopping"
    /\ \A j \in Job : job[j].pc = "idle"
    /\ process' = "down"
    /\ cancels' = [j \in Job |-> 0]
    /\ UNCHANGED <<repository, job, telegram>>

\* The process dies between two steps: only the database remains.
Crash ==
    /\ process # "down"
    /\ process' = "down"
    /\ job' = [j \in Job |-> IdleJob]
    /\ cancels' = [j \in Job |-> 0]
    /\ UNCHANGED <<repository, telegram>>

\* Telegram decides about an upload, perhaps long after its sender is gone.
Awaited(o) == job[o[1]].pc = "sent" /\ Occ(o[1]) = o

TelegramDecides(o) ==
    /\ uploads[o].state = "inflight"
    /\ \/ uploads' = [uploads EXCEPT ![o].state = "posted"]
       \/ /\ "telegram" \in Faults \/ ~ Awaited(o)
          /\ uploads' = [uploads EXCEPT ![o].state = "lost"]
    /\ UNCHANGED <<repository, process, job, cancels, sends>>

-----------------------------------------------------------------------------
Returns(j) ==
    \/ ReserveInserts(j)
    \/ ReserveFindsRow(j)
    \/ ExcludeReads(j)
    \/ RequestReturns(j)
    \/ DownloadReturns(j)
    \/ ClaimReturns(j)
    \/ ClaimConflicts(j)
    \/ PublishSends(j)
    \/ PublishReturns(j)
    \/ ConfirmReturns(j)
    \/ DuplicateReturns(j)
    \/ FailReturns(j)
    \/ DoubtReturns(j)

JobStep(j) == Returns(j) \/ Raises(j)

Next ==
    \/ \E j \in Job :
        \/ \E s \in Slot : Fire(j, s)
        \/ JobStep(j)
        \/ CancelArrives(j)
    \/ \E o \in Occurrence : TelegramDecides(o)
    \/ Boot \/ Shutdown \/ Exit \/ Crash

Spec == Init /\ [][Next]_vars

\* Every await ends (the commands and the Telegram client have timeouts), and
\* the container is restarted whenever it stops.
FairSpec ==
    /\ Spec
    /\ \A j \in Job : WF_vars(JobStep(j))
    /\ \A o \in Occurrence : WF_vars(TelegramDecides(o))
    /\ WF_vars(Boot)
    /\ WF_vars(Exit)

-----------------------------------------------------------------------------
Open(o) == deliveries[o].status \in {"queued", "publishing"}

\* run is idempotent per occurrence: repeated, retried, cancelled or cut off
\* by a crash, it never uploads twice for one.
AtMostOneUpload == \A o \in Occurrence : sends[o] <= 1

\* The content that is uploaded for an occurrence, and the media it came from,
\* are uploaded for no other, whoever claims first and whatever crashes.
NoContentTwice ==
    \A o, p \in Occurrence :
        (o # p /\ uploads[o].state # "none" /\ uploads[p].state # "none")
            => ~ Clash(uploads[o].track, uploads[p].track)

\* An upload is backed by the committed claim of its own row: the track was
\* persisted before it was published, and no later write of the row forgets
\* which track that was.
UploadIsClaimed ==
    \A o \in Occurrence :
        uploads[o].state # "none" =>
            /\ uploads[o].track = deliveries[o].track
            /\ deliveries[o].track \in tracks

\* A row never denies an upload: once the request has left, its status is
\* publishing, succeeded or ambiguous; and a row that says succeeded, or holds
\* a message id, was accepted by Telegram.
StatusIsTruthful ==
    \A o \in Occurrence :
        /\ uploads[o].state # "none" =>
            deliveries[o].status \in {"publishing", "succeeded", "ambiguous"}
        /\ (deliveries[o].status = "succeeded" \/ deliveries[o].message = "id")
            => uploads[o].state = "posted"

\* Every claimed track belongs to one row, so a track is burned for at most
\* one delivery.
OneOwnerPerTrack ==
    \A t \in tracks :
        \E o \in Occurrence :
            /\ deliveries[o].track = t
            /\ \A p \in Occurrence \ {o} : deliveries[p].track # t

\* Unless the database fails, a row is open in a running process only while
\* its own job is at work on it: what other ends left open was recovered.
OpenRowsAreWorkedOn ==
    \A o \in Occurrence :
        (process = "up" /\ Open(o)) =>
            job[o[1]].pc # "idle" /\ Occ(o[1]) = o

\* What a step may do to a row that has a terminal status: an error after
\* mark_success or mark_duplicate demotes it, and nothing else changes.  No
\* step forgets the id of a posted message or the track of a row.
TerminalRowsOnlyDemote ==
    \A o \in Occurrence :
        LET old == deliveries[o] new == deliveries'[o] IN
        /\ old.status \in Terminal /\ new.status # old.status =>
            <<old.status, new.status>> \in
                {<<"succeeded", "ambiguous">>,
                 <<"skipped_duplicate", "permanently_failed">>}
        /\ old.message = "id" => new.message = "id"
        /\ old.track # NoTrack => new.track = old.track

NoStepRewritesHistory == [][TerminalRowsOnlyDemote]_vars

\* A process that starts leaves no row open, and calls a row it found in
\* publishing ambiguous, never failed.
BootClosesRows ==
    process = "down" /\ process' = "up" =>
        \A o \in Occurrence :
            /\ deliveries'[o].status \notin {"queued", "publishing"}
            /\ deliveries[o].status = "publishing" =>
                deliveries'[o].status = "ambiguous"

RestartClosesRows == [][BootClosesRows]_vars

\* Every occurrence that is opened is eventually closed, by its job or by the
\* recovery of a later process.
EventuallyClosed == \A o \in Occurrence : Open(o) ~> ~ Open(o)

\* How many awaits the locals of a call leave it at most: three for each attempt
\* to come and five to publish and to record how it ended.
AwaitsLeft(locals) ==
    LET later == 5 + 3 * (Attempts - locals.attempt) IN
    CASE locals.pc = "idle" -> 0
      [] locals.pc \in {"fail", "doubt"} -> 1
      [] locals.pc = "duplicate" -> 2
      [] locals.pc = "confirm" -> 3
      [] locals.pc = "sent" -> 4
      [] locals.pc = "publish" -> 5
      [] locals.pc = "claim" -> later + 1
      [] locals.pc = "download" -> later + 2
      [] locals.pc = "request" -> later + 3
      [] locals.pc = "exclude" -> 3 * Attempts + 6
      [] locals.pc = "reserve" -> 3 * Attempts + 7

\* A delivery runs down: whatever its awaits return, raise or are cancelled with,
\* and however often candidates conflict, it ends within 3 * Attempts + 7 of them.
StepRunsDown ==
    \A j \in Job :
        job[j].pc # "idle" /\ job'[j] # job[j] =>
            AwaitsLeft(job'[j]) < AwaitsLeft(job[j])

\* So every step of every job takes its delivery nearer to its end.
DeliveriesRunDown == [][StepRunsDown]_vars

\* The bridge keeps what DeliveryLedger promises.
Verdict(status) ==
    CASE status = "absent" -> "none"
      [] status \in {"queued", "publishing"} -> "open"
      [] status = "succeeded" -> "sent"
      [] status = "ambiguous" -> "unknown"
      [] OTHER -> "notSent"

LedgerVerdict == [o \in Occurrence |-> Verdict(deliveries[o].status)]
LedgerUpload == [o \in Occurrence |-> uploads[o].state]
LedgerContent == [o \in Occurrence |->
                    IF uploads[o].state = "none" THEN {} ELSE {uploads[o].track.sha}]

Ledger == INSTANCE DeliveryLedger WITH
    Content <- Hash,
    verdict <- LedgerVerdict,
    upload <- LedgerUpload,
    content <- LedgerContent

KeepsLedger == Ledger!Spec

\* What the bridge assumes of its process; Lifecycle is such a process.
Busy == {j \in Job : job[j].pc # "idle"}

Host == INSTANCE JobHost WITH phase <- process, busy <- Busy

LivesInHost == Host!Spec

-----------------------------------------------------------------------------
(* The inductive invariant behind the safety properties. *)

RowsOwnTracks ==
    \A o \in Occurrence :
        deliveries[o].track # NoTrack =>
            /\ deliveries[o].track \in tracks
            /\ \A p \in Occurrence : deliveries[p].track = deliveries[o].track => p = o

TracksAreOwned == \A t \in tracks : \E o \in Occurrence : deliveries[o].track = t

TracksAreUnique == \A t, u \in tracks : Clash(t, u) => t = u

\* What a row says of its track and its upload, by its status.
TellsUpload(o) ==
    LET row == deliveries[o] up == uploads[o] IN
    /\ sends[o] = IF up.state = "none" THEN 0 ELSE 1
    /\ up.state # "none" =>
        /\ up.track = row.track
        /\ row.track # NoTrack
        /\ row.status \in {"publishing", "succeeded", "ambiguous"}
    /\ (row.status = "succeeded" \/ row.message = "id") => up.state = "posted"
    /\ row.status \in {"absent", "queued", "interrupted", "skipped_duplicate"}
        => row.track = NoTrack

RowsTellUploads == \A o \in Occurrence : TellsUpload(o)

\* What a job knows of its row, by the await it is suspended in.
KnowsRow(j) ==
    LET me == job[j] row == deliveries[Occ(j)] up == uploads[Occ(j)] IN
    /\ process # "down"
    /\ me.slot \in Slot
    /\ me.message = "id" => me.pc \in {"confirm", "doubt"}
    /\ me.pc \in {"download", "claim", "publish", "sent", "confirm"}
        => me.media \in Media
    /\ me.pc \in {"claim", "publish", "sent", "confirm"} => me.sha \in Hash
    /\ me.pc \in {"exclude", "request", "download", "claim", "duplicate"}
        => row.status = "queued"
    /\ me.pc \in {"publish", "sent", "confirm"} =>
        row.status = "publishing" /\ row.track = ClaimOf(j)
    /\ me.pc = "publish" => up.state = "none"
    /\ me.pc = "sent" => up.state # "none" /\ row.message = "null"
    /\ me.pc = "confirm" => up.state = "posted" /\ me.message = "id"
    /\ me.pc = "fail" =>
        /\ row.status \in {"queued", "publishing", "skipped_duplicate"}
        /\ up.state = "none"
    /\ me.pc = "doubt" =>
        /\ row.status \in {"publishing", "succeeded"}
        /\ me.message = "id" => up.state = "posted"
        /\ row.message = "id" => me.message = "id"

JobsKnowRows == \A j \in Job : job[j].pc # "idle" => KnowsRow(j)

\* Every step of the service preserves what its rows, tracks, uploads and
\* suspended jobs say of each other.
IInv ==
    /\ TypeOK
    /\ RowsOwnTracks
    /\ TracksAreOwned
    /\ TracksAreUnique
    /\ RowsTellUploads
    /\ JobsKnowRows

\* An open row of a running process belongs to a job that found it unreserved.
OpenRowsAreOwned ==
    process = "up" =>
        \A o \in Occurrence : Open(o) =>
            job[o[1]].pc \notin {"idle", "reserve"} /\ Occ(o[1]) = o

\* A direct URL that was delivered before is a duplicate, not a source error:
\* while nothing fails, repeating a delivered direct job does not fail.
RepeatIsADuplicate ==
    \A o, p \in Occurrence :
        (o[1] \in DirectJob /\ o[1] = p[1] /\ deliveries[p].status = "succeeded")
            => deliveries[o].status # "permanently_failed"
=============================================================================
