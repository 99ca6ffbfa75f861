------------------------- MODULE BridgeServiceProofs -------------------------
(***************************************************************************)
(* The safety of BridgeService for any number of jobs, slots, media,       *)
(* contents and attempts, and for every choice of faults.                  *)
(***************************************************************************)
EXTENDS BridgeService, TLAPS

\* A running job is at work on an occurrence of its own.
LEMMA RunningOccurrence ==
    ASSUME TypeOK, JobsKnowRows, NEW j \in Job, job[j].pc # "idle"
    PROVE  Occ(j) \in Occurrence
BY DEF JobsKnowRows, KnowsRow, Occ, Occurrence

\* A job that reached its claim has chosen a track.
LEMMA ClaimIsTrack ==
    ASSUME TypeOK, JobsKnowRows, NEW j \in Job,
           job[j].pc \in {"claim", "publish", "sent", "confirm"}
    PROVE  ClaimOf(j) \in Track /\ ClaimOf(j) # NoTrack
<1>1. KnowsRow(j)
  BY DEF JobsKnowRows
<1>2. job[j].media \in Media /\ job[j].sha \in Hash
  BY <1>1 DEF KnowsRow
<1> QED
  BY <1>2, NoTrackAssumption DEF ClaimOf, Track

\* A step that changes one row, and neither the tracks nor the row's track,
\* need only be checked on that row and on the job that owns it.
LEMMA OneRowStep ==
    ASSUME IInv, TypeOK', NEW j \in Job, NEW s, process' = process,
           \A i \in Job \ {j} : job'[i] = job[i],
           \A o \in Occurrence \ {<<j, s>>} :
                /\ deliveries'[o] = deliveries[o]
                /\ uploads'[o] = uploads[o]
                /\ sends'[o] = sends[o],
           tracks' = tracks,
           <<j, s>> \in Occurrence =>
                /\ deliveries'[<<j, s>>].track = deliveries[<<j, s>>].track
                /\ TellsUpload(<<j, s>>)',
           job'[j].pc # "idle" => KnowsRow(j)'
    PROVE  IInv'
<1>1. \A o \in Occurrence : deliveries'[o].track = deliveries[o].track
  OBVIOUS
<1>2. RowsOwnTracks' /\ TracksAreOwned' /\ TracksAreUnique'
  BY <1>1 DEF IInv, RowsOwnTracks, TracksAreOwned, TracksAreUnique, Clash
<1>3. RowsTellUploads'
  <2> SUFFICES ASSUME NEW o \in Occurrence, o # <<j, s>>
               PROVE  TellsUpload(o)'
    BY DEF RowsTellUploads
  <2> QED
    BY DEF IInv, RowsTellUploads, TellsUpload
<1>4. JobsKnowRows'
  <2> SUFFICES ASSUME NEW i \in Job \ {j}, job'[i].pc # "idle"
               PROVE  KnowsRow(i)'
    BY DEF JobsKnowRows
  <2>1. Occ(i)' = Occ(i) /\ ClaimOf(i)' = ClaimOf(i) /\ KnowsRow(i)
    BY DEF IInv, JobsKnowRows, Occ, ClaimOf
  <2>2. Occ(i) \in Occurrence \ {<<j, s>>}
    BY <2>1, RunningOccurrence DEF IInv, Occ
  <2> QED
    BY <2>1, <2>2 DEF KnowsRow
<1> QED
  BY <1>2, <1>3, <1>4 DEF IInv

\* A job whose step touches neither the store nor Telegram.
LEMMA LocalStep ==
    ASSUME IInv, TypeOK', NEW j \in Job,
           UNCHANGED <<repository, process, telegram>>,
           \A i \in Job \ {j} : job'[i] = job[i],
           job'[j].pc # "idle" => KnowsRow(j)'
    PROVE  IInv'
<1>1. \A o \in Occurrence : TellsUpload(o)'
  BY DEF IInv, RowsTellUploads, TellsUpload, repository, telegram
<1>2. /\ deliveries' = deliveries /\ tracks' = tracks /\ process' = process
      /\ uploads' = uploads /\ sends' = sends
  BY DEF repository, telegram
<1> QED
  BY <1>1, <1>2, OneRowStep

-----------------------------------------------------------------------------
(* Type correctness, one step per action. *)

\* The locals a job keeps across an await are locals of the right type.
LEMMA SuspendedType ==
    ASSUME NEW pc \in Await \union {"idle"}, NEW slot \in Slot \union {NoSlot},
           NEW message \in Message
    PROVE  Suspended(pc, slot, message) \in JobState
BY AttemptsAssumption DEF Suspended, JobState

\* A call of run that ends leaves the types intact.
LEMMA FinishType ==
    ASSUME TypeOK, NEW j \in Job, Finish(j)
    PROVE  job' \in [Job -> JobState]
<1>1. IdleJob \in JobState
  BY SuspendedType DEF IdleJob, Message
<1> QED
  BY <1>1 DEF TypeOK, Finish, Becomes

\* An except clause that suspends in its recorder leaves the types intact.
LEMMA RecordFailureType ==
    ASSUME TypeOK, NEW j \in Job, RecordFailure(j)
    PROVE  job' \in [Job -> JobState]
<1>1. job[j].slot \in Slot \union {NoSlot} /\ job[j].message \in Message
  BY DEF TypeOK, JobState
<1>2. RecorderOf(job[j].pc) \in Await \union {"idle"}
  BY DEF RecorderOf, Await, DatabaseAwait
<1>3. Suspended(RecorderOf(job[j].pc), job[j].slot, job[j].message) \in JobState
  BY <1>1, <1>2, SuspendedType
<1> QED
  BY <1>3 DEF TypeOK, RecordFailure, Becomes

\* An await that raises ends the call or records the failure.
LEMMA UnwindType ==
    ASSUME TypeOK, NEW j \in Job, Unwind(j)
    PROVE  job' \in [Job -> JobState]
BY FinishType, RecordFailureType DEF Unwind

\* Every transaction of run writes rows and tracks of the right type.
LEMMA CommitsType ==
    ASSUME TypeOK, JobsKnowRows, NEW j \in Job, MayHaveCommitted(j)
    PROVE  RepositoryTypeOK'
<1>1. CASE UNCHANGED repository
  BY <1>1 DEF TypeOK, RepositoryTypeOK, repository
<1>2. CASE job[j].pc = "reserve" /\ InsertDelivery(Occ(j))
  BY <1>2 DEF TypeOK, RepositoryTypeOK, InsertDelivery, Row, Status
<1>3. CASE job[j].pc = "claim" /\ ClaimTrack(Occ(j), ClaimOf(j))
  <2>1. ClaimOf(j) \in Track
    BY <1>3, ClaimIsTrack
  <2> QED
    BY <1>3, <2>1 DEF TypeOK, RepositoryTypeOK, ClaimTrack, Row, Status
<1>4. CASE job[j].pc = "confirm" /\ MarkSuccess(Occ(j), ClaimOf(j))
  <2>1. ClaimOf(j) \in Track
    BY <1>4, ClaimIsTrack
  <2> QED
    BY <1>4, <2>1 DEF TypeOK, RepositoryTypeOK, MarkSuccess, Row, Status, Terminal,
                      Message
<1>5. CASE job[j].pc = "duplicate" /\ MarkDuplicate(Occ(j))
  BY <1>5 DEF TypeOK, RepositoryTypeOK, MarkDuplicate, Row, Status, Terminal
<1>6. CASE job[j].pc = "fail" /\ MarkFailed(Occ(j))
  BY <1>6 DEF TypeOK, RepositoryTypeOK, MarkFailed, Row, Status, Terminal
<1>7. CASE job[j].pc = "doubt" /\ MarkAmbiguous(Occ(j), job[j].message)
  <2>1. job[j].message \in Message
    BY DEF TypeOK, JobState
  <2>2. \A o \in Occurrence :
            [deliveries[o] EXCEPT !.status = "ambiguous", !.message = job[j].message]
                \in Row
    BY <2>1 DEF TypeOK, RepositoryTypeOK, Row, Status, Terminal
  <2> QED
    BY <1>7, <2>2 DEF TypeOK, RepositoryTypeOK, MarkAmbiguous
<1> QED
  BY <1>1, <1>2, <1>3, <1>4, <1>5, <1>6, <1>7 DEF MayHaveCommitted, Commits

\* Every step of a job, and every cancellation of one, keeps the types.
LEMMA JobType ==
    ASSUME IInv, NEW j \in Job, Returns(j) \/ Raises(j) \/ CancelArrives(j)
    PROVE  job' \in [Job -> JobState]
<1> USE DEF IInv
<1>a. job[j] \in JobState
  BY DEF TypeOK
<1>b. ASSUME NEW r \in JobState, Becomes(j, r)
      PROVE  job' \in [Job -> JobState]
  BY <1>b DEF TypeOK, Becomes
<1>1. CASE ReserveInserts(j)
  <2>1. [job[j] EXCEPT !.pc = "exclude"] \in JobState
    BY <1>a DEF JobState, Await, DatabaseAwait
  <2> QED
    BY <1>1, <1>b, <2>1 DEF ReserveInserts, Goto
<1>2. CASE ReserveFindsRow(j)
  BY <1>2, FinishType DEF ReserveFindsRow
<1>3. CASE ExcludeReads(j)
  <2>1. UsedMedia \in SUBSET Media
    BY DEF TypeOK, RepositoryTypeOK, UsedMedia, Track
  <2>2. \A n \in 0..Attempts :
            [job[j] EXCEPT !.pc = "request", !.excluded = UsedMedia, !.attempt = n]
                \in JobState
    BY <1>a, <2>1 DEF JobState, Await
  <2>3. 1 \in 0..Attempts
    BY AttemptsAssumption
  <2> QED
    BY <1>3, <1>b, <2>2, <2>3 DEF ExcludeReads
<1>4. CASE RequestReturns(j)
  <2>1. PICK m \in Eligible(j) :
            Becomes(j, [job[j] EXCEPT !.pc = "download", !.media = m])
    BY <1>4 DEF RequestReturns
  <2>2. m \in Media
    BY CatalogAssumption DEF Eligible
  <2>3. [job[j] EXCEPT !.pc = "download", !.media = m] \in JobState
    BY <1>a, <2>2 DEF JobState, Await
  <2> QED
    BY <1>b, <2>1, <2>3
<1>5. CASE DownloadReturns(j)
  <2>1. PICK h \in Hash : Becomes(j, [job[j] EXCEPT !.pc = "claim", !.sha = h])
    BY <1>5 DEF DownloadReturns
  <2>2. [job[j] EXCEPT !.pc = "claim", !.sha = h] \in JobState
    BY <1>a DEF JobState, Await, DatabaseAwait
  <2> QED
    BY <1>b, <2>1, <2>2
<1>6. CASE ClaimReturns(j)
  <2>1. \A n \in 0..Attempts :
            [job[j] EXCEPT !.pc = "publish", !.excluded = {}, !.attempt = n]
                \in JobState
    BY <1>a DEF JobState, Await
  <2>2. 0 \in 0..Attempts
    BY AttemptsAssumption
  <2> QED
    BY <1>6, <1>b, <2>1, <2>2 DEF ClaimReturns
<1>7. CASE ClaimConflicts(j)
  <2>1. CASE RecordFailure(j)
    BY <2>1, RecordFailureType
  <2>2. CASE TryNext(j)
    <3>1. CASE j \notin DirectJob /\ job[j].attempt < Attempts
      <4>1. job[j].media \in Media
        BY <1>7 DEF JobsKnowRows, KnowsRow, ClaimConflicts
      <4>2. job[j].attempt \in 0..Attempts /\ job[j].excluded \in SUBSET Media
        BY DEF TypeOK, JobState
      <4>3. job[j].attempt + 1 \in 0..Attempts
        BY <3>1, <4>2, AttemptsAssumption
      <4>4. [job[j] EXCEPT !.pc = "request",
                           !.excluded = @ \union {job[j].media},
                           !.attempt = @ + 1,
                           !.media = NoMedia,
                           !.sha = NoHash] \in JobState
        BY <1>a, <4>1, <4>2, <4>3 DEF JobState, Await
      <4> QED
        BY <1>b, <2>2, <3>1, <4>4 DEF TryNext
    <3>2. CASE ~ (j \notin DirectJob /\ job[j].attempt < Attempts)
      <4>1. job[j].slot \in Slot \union {NoSlot}
        BY DEF TypeOK, JobState
      <4>2. Suspended("duplicate", job[j].slot, "null") \in JobState
        BY <4>1, SuspendedType DEF Await, DatabaseAwait, Message
      <4> QED
        BY <1>b, <2>2, <3>2, <4>2 DEF TryNext
    <3> QED
      BY <3>1, <3>2
  <2> QED
    BY <1>7, <2>1, <2>2 DEF ClaimConflicts
<1>8. CASE PublishSends(j)
  <2>1. [job[j] EXCEPT !.pc = "sent"] \in JobState
    BY <1>a DEF JobState, Await
  <2> QED
    BY <1>8, <1>b, <2>1 DEF PublishSends, Goto
<1>9. CASE PublishReturns(j)
  <2>1. [job[j] EXCEPT !.pc = "confirm", !.message = "id"] \in JobState
    BY <1>a DEF JobState, Await, DatabaseAwait, Message
  <2> QED
    BY <1>9, <1>b, <2>1 DEF PublishReturns
<1>10. CASE ConfirmReturns(j)
  BY <1>10, FinishType, RecordFailureType DEF ConfirmReturns
<1>11. CASE DuplicateReturns(j) \/ FailReturns(j) \/ DoubtReturns(j)
  BY <1>11, FinishType DEF DuplicateReturns, FailReturns, DoubtReturns
<1>12. CASE Raises(j) \/ CancelArrives(j)
  BY <1>12, UnwindType DEF Raises, CancelArrives
<1> QED
  BY <1>1, <1>2, <1>3, <1>4, <1>5, <1>6, <1>7, <1>8, <1>9, <1>10, <1>11, <1>12
     DEF Returns

\* The store changes by the transaction of the await the job is suspended in.
LEMMA StepCommits ==
    ASSUME NEW j \in Job, Returns(j) \/ Raises(j) \/ CancelArrives(j)
    PROVE  MayHaveCommitted(j) /\ process' = process
<1>1. CASE Raises(j) \/ CancelArrives(j)
  BY <1>1 DEF Raises, CancelArrives
<1>2. CASE Returns(j)
  BY <1>2
     DEF Returns, ReserveInserts, ReserveFindsRow, ExcludeReads, RequestReturns,
         DownloadReturns, ClaimReturns, ClaimConflicts, PublishSends,
         PublishReturns, ConfirmReturns, DuplicateReturns, FailReturns,
         DoubtReturns, MayHaveCommitted, Commits
<1> QED
  BY <1>1, <1>2

\* So does every other step: of the scheduler, of Telegram, of the process.
LEMMA StepType ==
    ASSUME IInv, NEW j \in Job, Returns(j) \/ Raises(j) \/ CancelArrives(j)
    PROVE  TypeOK'
<1> USE DEF IInv
<1>1. RepositoryTypeOK' /\ process' = process
  BY StepCommits, CommitsType
<1>2. job' \in [Job -> JobState]
  BY JobType
<1>3. cancels' \in [Job -> 0..MaxCancels]
  <2>1. CASE CancelArrives(j)
    <3>1. cancels[j] \in 0..MaxCancels /\ cancels[j] < MaxCancels
      BY <2>1 DEF TypeOK, CancelArrives
    <3>2. cancels[j] + 1 \in 0..MaxCancels
      BY <3>1, MaxCancelsAssumption
    <3> QED
      BY <2>1, <3>2 DEF TypeOK, CancelArrives
  <2>2. CASE Raises(j)
    BY <2>2 DEF TypeOK, Raises
  <2>3. CASE Returns(j)
    BY <2>3
       DEF TypeOK, Returns, ReserveInserts, ReserveFindsRow, ExcludeReads,
           RequestReturns, DownloadReturns, ClaimReturns, ClaimConflicts,
           PublishSends, PublishReturns, ConfirmReturns, DuplicateReturns,
           FailReturns, DoubtReturns
  <2> QED
    BY <2>1, <2>2, <2>3
<1>4. uploads' \in [Occurrence -> Upload] /\ sends' \in [Occurrence -> Nat]
  <2>1. CASE PublishSends(j)
    <3>1. [state |-> "inflight", track |-> ClaimOf(j)] \in Upload
      BY <2>1, ClaimIsTrack DEF PublishSends, Upload, UploadState
    <3>2. \A o \in Occurrence : sends[o] + 1 \in Nat
      BY DEF TypeOK
    <3> QED
      BY <2>1, <3>1, <3>2 DEF TypeOK, PublishSends
  <2>2. CASE UNCHANGED telegram
    BY <2>2 DEF TypeOK, telegram
  <2>3. PublishSends(j) \/ UNCHANGED telegram
    BY DEF Returns, Raises, CancelArrives, ReserveInserts, ReserveFindsRow,
           ExcludeReads, RequestReturns, DownloadReturns, ClaimReturns,
           ClaimConflicts, PublishReturns, ConfirmReturns, DuplicateReturns,
           FailReturns, DoubtReturns
  <2> QED
    BY <2>1, <2>2, <2>3
<1> QED
  BY <1>1, <1>2, <1>3, <1>4 DEF TypeOK

-----------------------------------------------------------------------------
(* The inductive invariant, one step per action. *)

\* Apart from the claim, a transaction keeps the tracks and stays true to the
\* upload of the row it writes.
LEMMA HonestCommit ==
    ASSUME IInv, NEW j \in Job, NEW o \in Occurrence, o = Occ(j),
           Commits(j), job[j].pc # "claim", UNCHANGED telegram
    PROVE  /\ tracks' = tracks
           /\ \A p \in Occurrence \ {o} : deliveries'[p] = deliveries[p]
           /\ deliveries'[o].track = deliveries[o].track
           /\ TellsUpload(o)'
<1>1. KnowsRow(j) /\ TellsUpload(o)
  BY DEF IInv, Commits, RowsTellUploads, JobsKnowRows
<1>2. deliveries \in [Occurrence -> Row]
  BY DEF IInv, TypeOK, RepositoryTypeOK
<1>3. CASE job[j].pc = "reserve" /\ InsertDelivery(o)
  BY <1>1, <1>2, <1>3 DEF InsertDelivery, Reserved, TellsUpload, telegram, Row
<1>4. CASE job[j].pc = "confirm" /\ MarkSuccess(o, ClaimOf(j))
  BY <1>1, <1>2, <1>4 DEF MarkSuccess, TellsUpload, KnowsRow, telegram, Row
<1>5. CASE job[j].pc = "duplicate" /\ MarkDuplicate(o)
  BY <1>1, <1>2, <1>5 DEF MarkDuplicate, TellsUpload, KnowsRow, telegram, Row
<1>6. CASE job[j].pc = "fail" /\ MarkFailed(o)
  BY <1>1, <1>2, <1>6 DEF MarkFailed, TellsUpload, KnowsRow, telegram, Row
<1>7. CASE job[j].pc = "doubt" /\ MarkAmbiguous(o, job[j].message)
  BY <1>1, <1>2, <1>7 DEF MarkAmbiguous, TellsUpload, KnowsRow, telegram, Row
<1> QED
  BY <1>3, <1>4, <1>5, <1>6, <1>7 DEF Commits

\* The claim of a free track gives its row a track no other row has.
LEMMA ClaimCommit ==
    ASSUME IInv, TypeOK', NEW j \in Job, job[j].pc = "claim", Commits(j),
           UNCHANGED telegram, process' = process,
           \A i \in Job \ {j} : job'[i] = job[i],
           job'[j].pc # "idle" => KnowsRow(j)'
    PROVE  IInv'
<1> USE DEF IInv
<1> DEFINE t == ClaimOf(j)
<1>1. PICK o \in Occurrence : o = Occ(j)
  BY RunningOccurrence
<1>2. KnowsRow(j) /\ TellsUpload(o)
  BY DEF RowsTellUploads, JobsKnowRows
<1>3. t \in Track /\ t # NoTrack
  BY ClaimIsTrack
<1>4. deliveries \in [Occurrence -> Row] /\ tracks \subseteq Track
  BY DEF TypeOK, RepositoryTypeOK
<1>5. Claimable(t) /\ t \notin tracks
  BY DEF Commits, ClaimTrack, Claimable, Clash
<1> HIDE DEF t
<1>6. /\ tracks' = tracks \union {t}
      /\ deliveries'[o].status = "publishing"
      /\ deliveries'[o].track = t
      /\ deliveries'[o].message = deliveries[o].message
      /\ \A p \in Occurrence \ {o} : deliveries'[p] = deliveries[p]
  BY <1>1, <1>4 DEF Commits, ClaimTrack, Row, t
<1>7. deliveries[o].status = "queued" /\ deliveries[o].track = NoTrack
  BY <1>1, <1>2 DEF KnowsRow, TellsUpload
<1>8. RowsOwnTracks'
  <2> SUFFICES ASSUME NEW p \in Occurrence, (deliveries[p].track # NoTrack)'
               PROVE  /\ (deliveries[p].track \in tracks)'
                      /\ \A q \in Occurrence :
                            deliveries'[q].track = deliveries'[p].track => q = p
    BY DEF RowsOwnTracks
  <2>1. \A q \in Occurrence \ {o} :
            deliveries'[q].track # NoTrack => deliveries'[q].track \in tracks
    BY <1>6 DEF RowsOwnTracks
  <2>2. CASE p = o
    BY <1>3, <1>5, <1>6, <2>1, <2>2
  <2>3. CASE p # o
    BY <1>3, <1>5, <1>6, <2>1, <2>3 DEF RowsOwnTracks
  <2> QED
    BY <2>2, <2>3
<1>9. TracksAreOwned'
  <2> SUFFICES ASSUME NEW u \in tracks'
               PROVE  \E p \in Occurrence : deliveries'[p].track = u
    BY DEF TracksAreOwned
  <2>1. CASE u = t
    BY <1>6, <2>1
  <2>2. CASE u \in tracks
    <3>1. PICK p \in Occurrence : deliveries[p].track = u
      BY <2>2 DEF TracksAreOwned
    <3>2. p # o
      BY <1>4, <1>7, <2>2, <3>1, NoTrackAssumption
    <3> QED
      BY <1>6, <3>1, <3>2
  <2> QED
    BY <1>6, <2>1, <2>2
<1>10. TracksAreUnique'
  BY <1>5, <1>6 DEF TracksAreUnique, Claimable, Clash
<1>11. RowsTellUploads'
  <2>1. TellsUpload(o)'
    BY <1>2, <1>6, <1>7 DEF TellsUpload, telegram
  <2>2. ASSUME NEW p \in Occurrence, p # o
        PROVE  TellsUpload(p)'
    BY <1>6, <2>2 DEF RowsTellUploads, TellsUpload, telegram
  <2> QED
    BY <2>1, <2>2 DEF RowsTellUploads
<1>12. JobsKnowRows'
  <2> SUFFICES ASSUME NEW i \in Job \ {j}, job'[i].pc # "idle"
               PROVE  KnowsRow(i)'
    BY DEF JobsKnowRows
  <2>1. Occ(i)' = Occ(i) /\ ClaimOf(i)' = ClaimOf(i) /\ KnowsRow(i)
    BY DEF JobsKnowRows, Occ, ClaimOf
  <2>2. Occ(i) \in Occurrence \ {o}
    BY <1>1, <2>1, RunningOccurrence DEF Occ
  <2> QED
    BY <1>6, <2>1, <2>2 DEF KnowsRow, telegram
<1> QED
  BY <1>8, <1>9, <1>10, <1>11, <1>12

\* Whatever its last call did to the row, the job that records a failure asks
\* for the right status.
LEMMA RecorderKnows ==
    ASSUME IInv, NEW j \in Job,
           job[j].pc \notin {"idle", "reserve", "fail", "doubt"},
           MayHaveCommitted(j), RecordFailure(j),
           process' = process, UNCHANGED telegram
    PROVE  KnowsRow(j)'
<1> USE DEF IInv
<1>1. PICK o \in Occurrence : o = Occ(j)
  BY RunningOccurrence
<1>2. KnowsRow(j) /\ TellsUpload(o)
  BY DEF RowsTellUploads, JobsKnowRows
<1>3. /\ job'[j].pc = RecorderOf(job[j].pc)
      /\ job'[j].slot = job[j].slot
      /\ job'[j].message = job[j].message
  BY DEF RecordFailure, Becomes, Suspended, TypeOK
<1>4. Occ(j)' = o
  BY <1>1, <1>3 DEF Occ
<1>5. uploads' = uploads
  BY DEF telegram
<1>6. deliveries \in [Occurrence -> Row]
  BY DEF TypeOK, RepositoryTypeOK
<1>7. CASE job[j].pc \in {"exclude", "request", "download"}
  <2>1. deliveries' = deliveries
    BY <1>7 DEF MayHaveCommitted, Commits, repository
  <2>2. deliveries[o].status = "queued" /\ job[j].message # "id"
    BY <1>1, <1>2, <1>7 DEF KnowsRow
  <2> QED
    BY <1>2, <1>3, <1>4, <1>5, <1>7, <2>1, <2>2 DEF KnowsRow, TellsUpload, RecorderOf
<1>8. CASE job[j].pc = "claim"
  <2>1. deliveries'[o].status \in {"queued", "publishing"}
    BY <1>1, <1>2, <1>6, <1>8
       DEF MayHaveCommitted, Commits, ClaimTrack, repository, KnowsRow, Row
  <2>2. deliveries[o].status = "queued" /\ job[j].message # "id"
    BY <1>1, <1>2, <1>8 DEF KnowsRow
  <2> QED
    BY <1>2, <1>3, <1>4, <1>5, <1>8, <2>1, <2>2 DEF KnowsRow, TellsUpload, RecorderOf
<1>9. CASE job[j].pc = "duplicate"
  <2>1. deliveries'[o].status \in {"queued", "skipped_duplicate"}
    BY <1>1, <1>2, <1>6, <1>9
       DEF MayHaveCommitted, Commits, MarkDuplicate, repository, KnowsRow, Row
  <2>2. deliveries[o].status = "queued" /\ job[j].message # "id"
    BY <1>1, <1>2, <1>9 DEF KnowsRow
  <2> QED
    BY <1>2, <1>3, <1>4, <1>5, <1>9, <2>1, <2>2 DEF KnowsRow, TellsUpload, RecorderOf
<1>10. CASE job[j].pc \in {"publish", "sent"}
  <2>1. deliveries' = deliveries
    BY <1>10 DEF MayHaveCommitted, Commits, repository
  <2>2. /\ deliveries[o].status = "publishing"
        /\ deliveries[o].message # "id" /\ job[j].message # "id"
    BY <1>1, <1>2, <1>10 DEF KnowsRow, TellsUpload
  <2> QED
    BY <1>2, <1>3, <1>4, <1>5, <1>10, <2>1, <2>2 DEF KnowsRow, RecorderOf
<1>11. CASE job[j].pc = "confirm"
  <2>1. deliveries'[o].status \in {"publishing", "succeeded"}
    BY <1>1, <1>2, <1>6, <1>11
       DEF MayHaveCommitted, Commits, MarkSuccess, repository, KnowsRow, Row
  <2>2. uploads[o].state = "posted" /\ job[j].message = "id"
    BY <1>1, <1>2, <1>11 DEF KnowsRow
  <2> QED
    BY <1>2, <1>3, <1>4, <1>5, <1>11, <2>1, <2>2 DEF KnowsRow, RecorderOf
<1> QED
  BY <1>7, <1>8, <1>9, <1>10, <1>11 DEF TypeOK, JobState, Await, DatabaseAwait

\* A step of a job that writes its row, and then stops or suspends again.
LEMMA CommitStep ==
    ASSUME IInv, TypeOK', NEW j \in Job, job[j].pc # "idle", MayHaveCommitted(j),
           UNCHANGED telegram, process' = process,
           \A i \in Job \ {j} : job'[i] = job[i],
           job'[j].pc # "idle" => KnowsRow(j)'
    PROVE  IInv'
<1>1. CASE UNCHANGED repository
  BY <1>1, LocalStep DEF telegram, repository
<1>2. CASE Commits(j) /\ job[j].pc = "claim"
  BY <1>2, ClaimCommit
<1>3. CASE Commits(j) /\ job[j].pc # "claim"
  <2>1. PICK s : <<j, s>> = Occ(j) /\ <<j, s>> \in Occurrence
    BY RunningOccurrence DEF IInv, Occ
  <2>2. /\ tracks' = tracks
        /\ \A p \in Occurrence \ {<<j, s>>} : deliveries'[p] = deliveries[p]
        /\ deliveries'[<<j, s>>].track = deliveries[<<j, s>>].track
        /\ TellsUpload(<<j, s>>)'
    BY <1>3, <2>1, HonestCommit
  <2>3. uploads' = uploads /\ sends' = sends
    BY DEF telegram
  <2> QED
    BY <2>1, <2>2, <2>3, OneRowStep
<1> QED
  BY <1>1, <1>2, <1>3 DEF MayHaveCommitted

\* A step of a job replaces the locals of that job alone.
LEMMA OneJobStep ==
    ASSUME IInv, NEW j \in Job, Returns(j) \/ Raises(j) \/ CancelArrives(j)
    PROVE  /\ job[j].pc # "idle"
           /\ \A i \in Job \ {j} : job'[i] = job[i]
<1>1. ASSUME NEW r, Becomes(j, r)
      PROVE  \A i \in Job \ {j} : job'[i] = job[i]
  BY <1>1 DEF IInv, TypeOK, Becomes
<1>2. ASSUME Finish(j) \/ RecordFailure(j) \/ Unwind(j) \/ TryNext(j)
      PROVE  \A i \in Job \ {j} : job'[i] = job[i]
  BY <1>1, <1>2 DEF Finish, RecordFailure, Unwind, TryNext
<1>3. CASE Returns(j)
  BY <1>1, <1>2, <1>3
     DEF Returns, Goto, ReserveInserts, ReserveFindsRow, ExcludeReads,
         RequestReturns, DownloadReturns, ClaimReturns, ClaimConflicts,
         PublishSends, PublishReturns, ConfirmReturns, DuplicateReturns,
         FailReturns, DoubtReturns
<1>4. CASE Raises(j) \/ CancelArrives(j)
  BY <1>2, <1>4 DEF Raises, CanRaise, CancelArrives, DatabaseAwait
<1> QED
  BY <1>3, <1>4

\* An await that raises, or is cancelled, keeps the invariant whether or not
\* its transaction committed first.
LEMMA RaiseKeeps ==
    ASSUME IInv, NEW j \in Job, Raises(j) \/ CancelArrives(j)
    PROVE  IInv'
<1>1. TypeOK' /\ MayHaveCommitted(j) /\ process' = process
  BY StepType, StepCommits
<1>2. job[j].pc # "idle" /\ \A i \in Job \ {j} : job'[i] = job[i]
  BY OneJobStep
<1>3. UNCHANGED telegram /\ Unwind(j)
  BY DEF Raises, CancelArrives
<1>4. job'[j].pc # "idle" => KnowsRow(j)'
  <2>1. CASE Finish(j)
    BY <2>1 DEF Finish, Becomes, IdleJob, Suspended, IInv, TypeOK
  <2>2. CASE RecordFailure(j) /\ job[j].pc \notin {"reserve", "fail", "doubt"}
    BY <1>1, <1>2, <1>3, <2>2, RecorderKnows
  <2> QED
    BY <1>3, <2>1, <2>2 DEF Unwind
<1> QED
  BY <1>1, <1>2, <1>3, <1>4, CommitStep

\* An await that returns: what the job knows of its row at the next one.
LEMMA ReturnKnows ==
    ASSUME IInv, NEW j \in Job, Returns(j), ~ PublishSends(j), job'[j].pc # "idle"
    PROVE  KnowsRow(j)'
<1> USE DEF IInv
<1>1. PICK o \in Occurrence : o = Occ(j)
  BY OneJobStep, RunningOccurrence
<1>2. KnowsRow(j) /\ TellsUpload(o)
  BY OneJobStep DEF RowsTellUploads, JobsKnowRows
<1>3. deliveries \in [Occurrence -> Row] /\ job \in [Job -> JobState]
  BY DEF TypeOK, RepositoryTypeOK
<1>4. \A r : Becomes(j, r) => job'[j] = r
  BY <1>3 DEF Becomes
<1>5. job'[j].pc = "idle" \/ ~ Finish(j)
  BY <1>4 DEF Finish, IdleJob, Suspended
<1>6. process' = process
  BY StepCommits
<1>7. CASE ReserveInserts(j)
  <2>1. deliveries'[o].status = "queued" /\ uploads' = uploads
    BY <1>1, <1>3, <1>7 DEF ReserveInserts, InsertDelivery, telegram, Row
  <2>2. job'[j] = [job[j] EXCEPT !.pc = "exclude"]
    BY <1>4, <1>7 DEF ReserveInserts, Goto
  <2>3. /\ job'[j].pc = "exclude" /\ job'[j].slot = job[j].slot
        /\ job'[j].message = job[j].message
    BY <1>3, <2>2 DEF JobState
  <2> QED
    BY <1>1, <1>2, <1>6, <1>7, <2>1, <2>3 DEF KnowsRow, Occ, ReserveInserts
<1>8. CASE ExcludeReads(j)
  <2>1. deliveries' = deliveries /\ uploads' = uploads
    BY <1>8 DEF ExcludeReads, telegram, repository
  <2>2. /\ job'[j].pc = "request" /\ job'[j].slot = job[j].slot
        /\ job'[j].message = job[j].message
    BY <1>3, <1>4, <1>8 DEF ExcludeReads, JobState
  <2> QED
    BY <1>1, <1>2, <1>6, <1>8, <2>1, <2>2 DEF KnowsRow, Occ, ExcludeReads
<1>9. CASE RequestReturns(j)
  <2>1. PICK m \in Eligible(j) :
            Becomes(j, [job[j] EXCEPT !.pc = "download", !.media = m])
    BY <1>9 DEF RequestReturns
  <2>2. m \in Media
    BY CatalogAssumption DEF Eligible
  <2>3. deliveries' = deliveries /\ uploads' = uploads
    BY <1>9 DEF RequestReturns, telegram, repository
  <2>4. /\ job'[j].pc = "download" /\ job'[j].slot = job[j].slot
        /\ job'[j].message = job[j].message /\ job'[j].media = m
    BY <1>3, <1>4, <2>1 DEF JobState
  <2> QED
    BY <1>1, <1>2, <1>6, <1>9, <2>2, <2>3, <2>4 DEF KnowsRow, Occ, RequestReturns
<1>10. CASE DownloadReturns(j)
  <2>1. PICK h \in Hash : Becomes(j, [job[j] EXCEPT !.pc = "claim", !.sha = h])
    BY <1>10 DEF DownloadReturns
  <2>2. deliveries' = deliveries /\ uploads' = uploads
    BY <1>10 DEF DownloadReturns, telegram, repository
  <2>3. /\ job'[j].pc = "claim" /\ job'[j].slot = job[j].slot
        /\ job'[j].message = job[j].message /\ job'[j].media = job[j].media
        /\ job'[j].sha = h
    BY <1>3, <1>4, <2>1 DEF JobState
  <2> QED
    BY <1>1, <1>2, <1>6, <1>10, <2>2, <2>3 DEF KnowsRow, Occ, DownloadReturns
<1>11. CASE ClaimReturns(j)
  <2>1. /\ deliveries'[o].status = "publishing"
        /\ deliveries'[o].track = ClaimOf(j)
        /\ uploads' = uploads
    BY <1>1, <1>3, <1>11 DEF ClaimReturns, ClaimTrack, telegram, Row
  <2>2. /\ job'[j].pc = "publish" /\ job'[j].slot = job[j].slot
        /\ job'[j].message = job[j].message /\ job'[j].media = job[j].media
        /\ job'[j].sha = job[j].sha
    BY <1>3, <1>4, <1>11 DEF ClaimReturns, JobState
  <2>3. Occ(j)' = o /\ ClaimOf(j)' = ClaimOf(j)
    BY <1>1, <2>2 DEF Occ, ClaimOf
  <2>4. deliveries[o].status = "queued"
    BY <1>1, <1>2, <1>11 DEF KnowsRow, ClaimReturns
  <2> QED
    BY <1>2, <1>6, <1>11, <2>1, <2>2, <2>3, <2>4 DEF KnowsRow, TellsUpload, ClaimReturns
<1>12. CASE ClaimConflicts(j) /\ TryNext(j)
  <2>1. deliveries' = deliveries /\ uploads' = uploads
    BY <1>12 DEF ClaimConflicts, telegram, repository
  <2>2. /\ job'[j].pc \in {"request", "duplicate"} /\ job'[j].slot = job[j].slot
        /\ job'[j].message \in {job[j].message, "null"}
    <3>1. CASE j \notin DirectJob /\ job[j].attempt < Attempts
      BY <1>3, <1>4, <1>12, <3>1 DEF TryNext, JobState
    <3>2. CASE ~ (j \notin DirectJob /\ job[j].attempt < Attempts)
      BY <1>4, <1>12, <3>2 DEF TryNext, Suspended
    <3> QED
      BY <3>1, <3>2
  <2> QED
    BY <1>1, <1>2, <1>6, <1>12, <2>1, <2>2 DEF KnowsRow, Occ, ClaimConflicts
<1>13. CASE (ClaimConflicts(j) \/ ConfirmReturns(j)) /\ RecordFailure(j)
  <2>1. job[j].pc \in {"claim", "confirm"} /\ UNCHANGED telegram
    BY <1>13 DEF ClaimConflicts, ConfirmReturns
  <2> QED
    BY <1>13, <2>1, StepCommits, RecorderKnows
<1>14. CASE PublishReturns(j)
  <2>1. deliveries' = deliveries /\ uploads' = uploads /\ uploads[o].state = "posted"
    BY <1>1, <1>14 DEF PublishReturns, telegram, repository
  <2>2. /\ job'[j].pc = "confirm" /\ job'[j].slot = job[j].slot
        /\ job'[j].message = "id" /\ job'[j].media = job[j].media
        /\ job'[j].sha = job[j].sha
    BY <1>3, <1>4, <1>14 DEF PublishReturns, JobState
  <2>3. Occ(j)' = o /\ ClaimOf(j)' = ClaimOf(j)
    BY <1>1, <2>2 DEF Occ, ClaimOf
  <2> QED
    BY <1>1, <1>2, <1>6, <1>14, <2>1, <2>2, <2>3 DEF KnowsRow, PublishReturns
<1> QED
  BY <1>5, <1>7, <1>8, <1>9, <1>10, <1>11, <1>12, <1>13, <1>14
     DEF Returns, ReserveFindsRow, ClaimConflicts, ConfirmReturns,
         DuplicateReturns, FailReturns, DoubtReturns

\* An await that returns keeps the invariant.
LEMMA ReturnKeeps ==
    ASSUME IInv, NEW j \in Job, Returns(j)
    PROVE  IInv'
<1>1. TypeOK' /\ MayHaveCommitted(j) /\ process' = process
  BY StepType, StepCommits
<1>2. job[j].pc # "idle" /\ \A i \in Job \ {j} : job'[i] = job[i]
  BY OneJobStep
<1>3. CASE ~ PublishSends(j)
  <2>1. UNCHANGED telegram
    BY <1>3
       DEF Returns, ReserveInserts, ReserveFindsRow, ExcludeReads, RequestReturns,
           DownloadReturns, ClaimReturns, ClaimConflicts, PublishReturns,
           ConfirmReturns, DuplicateReturns, FailReturns, DoubtReturns
  <2> QED
    BY <1>1, <1>2, <1>3, <2>1, ReturnKnows, CommitStep
<1>4. CASE PublishSends(j)
  <2> USE DEF IInv
  <2>1. PICK s : <<j, s>> = Occ(j) /\ <<j, s>> \in Occurrence
    BY <1>2, RunningOccurrence DEF Occ
  <2>2. KnowsRow(j) /\ TellsUpload(<<j, s>>)
    BY <1>2, <2>1 DEF RowsTellUploads, JobsKnowRows
  <2>3. job[j].pc = "publish" /\ deliveries' = deliveries /\ tracks' = tracks
    BY <1>4 DEF PublishSends, repository
  <2>4. /\ uploads'[<<j, s>>] = [state |-> "inflight", track |-> ClaimOf(j)]
        /\ sends'[<<j, s>>] = sends[<<j, s>>] + 1
        /\ \A o \in Occurrence \ {<<j, s>>} :
              uploads'[o] = uploads[o] /\ sends'[o] = sends[o]
    BY <1>4, <2>1 DEF PublishSends, TypeOK
  <2>5. /\ uploads[<<j, s>>].state = "none" /\ sends[<<j, s>>] = 0
        /\ deliveries[<<j, s>>].status = "publishing"
        /\ deliveries[<<j, s>>].track = ClaimOf(j)
        /\ deliveries[<<j, s>>].message # "id"
    BY <2>1, <2>2, <2>3 DEF KnowsRow, TellsUpload
  <2>6. ClaimOf(j) # NoTrack
    BY <2>3, ClaimIsTrack
  <2>7. uploads'[<<j, s>>].state = "inflight" /\ uploads'[<<j, s>>].track = ClaimOf(j)
    BY <2>4
  <2>8. sends'[<<j, s>>] = 1
    BY <2>4, <2>5
  <2>9. TellsUpload(<<j, s>>)'
    BY <2>3, <2>5, <2>6, <2>7, <2>8 DEF TellsUpload
  <2>10. /\ job'[j].pc = "sent" /\ job'[j].slot = job[j].slot
         /\ job'[j].message = job[j].message /\ job'[j].media = job[j].media
         /\ job'[j].sha = job[j].sha
    BY <1>4 DEF PublishSends, Goto, Becomes, TypeOK, JobState
  <2>11. Occ(j)' = <<j, s>> /\ ClaimOf(j)' = ClaimOf(j)
    BY <2>1, <2>10 DEF Occ, ClaimOf
  <2>12. deliveries[<<j, s>>].message = "null"
    BY <2>1, <2>5 DEF TypeOK, RepositoryTypeOK, Row, Message
  <2>13. KnowsRow(j)'
    BY <1>1, <2>1, <2>2, <2>3, <2>5, <2>7, <2>10, <2>11, <2>12 DEF KnowsRow
  <2> QED
    BY <1>1, <1>2, <2>3, <2>4, <2>9, <2>13, OneRowStep
<1> QED
  BY <1>3, <1>4

\* A job that the scheduler starts knows nothing of its row yet.
LEMMA FireKeeps ==
    ASSUME IInv, NEW j \in Job, NEW s \in Slot, Fire(j, s)
    PROVE  IInv'
<1> DEFINE r == Suspended("reserve", s, "null")
<1>1. job' = [job EXCEPT ![j] = r] /\ job \in [Job -> JobState]
  BY DEF Fire, Becomes, IInv, TypeOK
<1>2. r \in JobState
  BY SuspendedType DEF Await, DatabaseAwait, Message
<1>3. r.pc = "reserve" /\ r.slot = s /\ r.message = "null"
  BY DEF Suspended
<1> HIDE DEF r
<1>4. TypeOK'
  BY <1>1, <1>2
     DEF IInv, TypeOK, RepositoryTypeOK, Fire, repository, telegram
<1>5. UNCHANGED <<repository, process, telegram>> /\ process = "up"
  BY DEF Fire
<1>6. /\ job'[j] = r
      /\ \A i \in Job \ {j} : job'[i] = job[i]
  BY <1>1
<1>7. KnowsRow(j)'
  BY <1>3, <1>5, <1>6 DEF KnowsRow
<1> QED
  BY <1>4, <1>5, <1>6, <1>7, LocalStep

\* Telegram's decision changes neither rows nor jobs, and makes no upload unsent.
LEMMA TelegramKeeps ==
    ASSUME IInv, NEW o \in Occurrence, TelegramDecides(o)
    PROVE  IInv'
<1> USE DEF IInv
<1>1. /\ UNCHANGED <<deliveries, tracks, process, job, cancels, sends>>
      /\ uploads[o].state = "inflight"
  BY DEF TelegramDecides, repository
<1>2. /\ uploads' \in [Occurrence -> Upload]
      /\ uploads'[o].state \in {"posted", "lost"}
      /\ uploads'[o].track = uploads[o].track
      /\ \A p \in Occurrence \ {o} : uploads'[p] = uploads[p]
  BY DEF TelegramDecides, TypeOK, Upload, UploadState
<1>3. TypeOK'
  BY <1>1, <1>2 DEF TypeOK, RepositoryTypeOK
<1>4. RowsOwnTracks' /\ TracksAreOwned' /\ TracksAreUnique'
  BY <1>1 DEF RowsOwnTracks, TracksAreOwned, TracksAreUnique, Clash
<1>5. RowsTellUploads'
  BY <1>1, <1>2 DEF RowsTellUploads, TellsUpload
<1>6. JobsKnowRows'
  <2> SUFFICES ASSUME NEW j \in Job, job[j].pc # "idle"
               PROVE  KnowsRow(j)'
    BY <1>1 DEF JobsKnowRows
  <2>1. KnowsRow(j) /\ Occ(j) \in Occurrence
    BY RunningOccurrence DEF JobsKnowRows
  <2>2. Occ(j)' = Occ(j) /\ ClaimOf(j)' = ClaimOf(j)
    BY <1>1 DEF Occ, ClaimOf
  <2>3. CASE Occ(j) = o
    BY <1>1, <1>2, <2>1, <2>2, <2>3 DEF KnowsRow
  <2>4. CASE Occ(j) # o
    BY <1>1, <1>2, <2>1, <2>2, <2>4 DEF KnowsRow
  <2> QED
    BY <2>3, <2>4
<1> QED
  BY <1>3, <1>4, <1>5, <1>6

\* A start finds no job running, so recovery contradicts what no job knows.
LEMMA BootKeeps ==
    ASSUME IInv, Boot
    PROVE  IInv'
<1> USE DEF IInv
<1>1. /\ deliveries' = [o \in Occurrence |->
                            [deliveries[o] EXCEPT !.status = Recovered(@)]]
      /\ UNCHANGED <<tracks, job, cancels, uploads, sends>>
      /\ process = "down" /\ process' = "up"
  BY DEF Boot, RecoverNonterminal, telegram
<1>2. deliveries \in [Occurrence -> Row]
  BY DEF TypeOK, RepositoryTypeOK
<1>3. \A st \in Status \union {"absent"} : Recovered(st) \in Status \union {"absent"}
  BY DEF Recovered, Status, Terminal
<1>4. \A o \in Occurrence :
        /\ deliveries'[o] \in Row
        /\ deliveries'[o].status = Recovered(deliveries[o].status)
        /\ deliveries'[o].track = deliveries[o].track
        /\ deliveries'[o].message = deliveries[o].message
  BY <1>1, <1>2, <1>3 DEF Row
<1>5. TypeOK'
  BY <1>1, <1>4 DEF TypeOK, RepositoryTypeOK
<1>6. RowsOwnTracks' /\ TracksAreOwned' /\ TracksAreUnique'
  <2>1. tracks' = tracks /\ \A o \in Occurrence : deliveries'[o].track = deliveries[o].track
    BY <1>1, <1>4
  <2> QED
    BY <2>1 DEF RowsOwnTracks, TracksAreOwned, TracksAreUnique, Clash
<1>7. RowsTellUploads'
  <2> SUFFICES ASSUME NEW o \in Occurrence
               PROVE  TellsUpload(o)'
    BY DEF RowsTellUploads
  <2>1. TellsUpload(o)
    BY DEF RowsTellUploads
  <2> QED
    BY <1>1, <1>4, <2>1 DEF TellsUpload, Recovered
<1>8. JobsKnowRows'
  BY <1>1 DEF JobsKnowRows, KnowsRow
<1> QED
  BY <1>5, <1>6, <1>7, <1>8

\* A shutdown, an exit and a crash change no row; a process that is down runs
\* no job.
LEMMA ProcessKeeps ==
    ASSUME IInv, Shutdown \/ Exit \/ Crash
    PROVE  IInv'
<1> USE DEF IInv
<1>1. /\ UNCHANGED <<deliveries, tracks, uploads, sends>>
      /\ process' \in {"down", "stopping"}
  BY DEF Shutdown, Exit, Crash, repository, telegram
<1>2. job' \in [Job -> JobState]
  <2>1. IdleJob \in JobState
    BY SuspendedType DEF IdleJob, Message
  <2> QED
    BY <2>1 DEF Shutdown, Exit, Crash, TypeOK
<1>3. cancels' \in [Job -> 0..MaxCancels]
  <2>1. 0 \in 0..MaxCancels
    BY MaxCancelsAssumption
  <2> QED
    BY <2>1 DEF Shutdown, Exit, Crash, TypeOK
<1>4. TypeOK'
  BY <1>1, <1>2, <1>3 DEF TypeOK, RepositoryTypeOK
<1>5. /\ RowsOwnTracks' /\ TracksAreOwned' /\ TracksAreUnique'
      /\ RowsTellUploads'
  BY <1>1 DEF RowsOwnTracks, TracksAreOwned, TracksAreUnique, Clash,
              RowsTellUploads, TellsUpload
<1>6. JobsKnowRows'
  <2>1. CASE Shutdown
    <3> SUFFICES ASSUME NEW j \in Job, job[j].pc # "idle"
                 PROVE  KnowsRow(j)'
      BY <2>1 DEF JobsKnowRows, Shutdown
    <3>1. KnowsRow(j) /\ Occ(j)' = Occ(j) /\ ClaimOf(j)' = ClaimOf(j)
      BY <2>1 DEF JobsKnowRows, Shutdown, Occ, ClaimOf
    <3> QED
      BY <1>1, <2>1, <3>1 DEF KnowsRow, Shutdown
  <2>2. CASE Exit \/ Crash
    <3>1. \A j \in Job : job'[j].pc = "idle"
      BY <2>2 DEF Exit, Crash, IdleJob, Suspended
    <3> QED
      BY <3>1 DEF JobsKnowRows
  <2> QED
    BY <1>1, <2>1, <2>2
<1> QED
  BY <1>4, <1>5, <1>6

-----------------------------------------------------------------------------
\* The empty database of an idle bridge satisfies the invariant.
THEOREM InitInvariant == Init => IInv
<1> SUFFICES ASSUME Init
             PROVE  IInv
  OBVIOUS
<1>1. RepositoryTypeOK
  BY DEF Init, RepositoryInit, RepositoryTypeOK, NoRow, Row, Message
<1>2. IdleJob \in JobState
  BY SuspendedType DEF IdleJob, Message
<1>3. TypeOK
  BY <1>1, <1>2, MaxCancelsAssumption DEF Init, TypeOK, Upload, UploadState
<1>4. RowsOwnTracks /\ TracksAreOwned /\ TracksAreUnique
  BY DEF Init, RepositoryInit, NoRow, RowsOwnTracks, TracksAreOwned, TracksAreUnique
<1>5. RowsTellUploads
  BY DEF Init, RepositoryInit, NoRow, RowsTellUploads, TellsUpload
<1>6. JobsKnowRows
  BY DEF Init, IdleJob, Suspended, JobsKnowRows
<1> QED
  BY <1>3, <1>4, <1>5, <1>6 DEF IInv

\* The invariant is inductive.
THEOREM StepInvariant == IInv /\ [Next]_vars => IInv'
<1> SUFFICES ASSUME IInv, [Next]_vars
             PROVE  IInv'
  OBVIOUS
<1>1. CASE \E j \in Job : \E s \in Slot : Fire(j, s)
  BY <1>1, FireKeeps
<1>2. CASE \E j \in Job : JobStep(j)
  BY <1>2, ReturnKeeps, RaiseKeeps DEF JobStep
<1>3. CASE \E j \in Job : CancelArrives(j)
  BY <1>3, RaiseKeeps
<1>4. CASE \E o \in Occurrence : TelegramDecides(o)
  BY <1>4, TelegramKeeps
<1>5. CASE Boot
  BY <1>5, BootKeeps
<1>6. CASE Shutdown \/ Exit \/ Crash
  BY <1>6, ProcessKeeps
<1>7. CASE UNCHANGED vars
  BY <1>7
     DEF vars, IInv, TypeOK, RepositoryTypeOK, RowsOwnTracks, TracksAreOwned,
         TracksAreUnique, Clash, RowsTellUploads, TellsUpload, JobsKnowRows,
         KnowsRow, Occ, ClaimOf
<1> QED
  BY <1>1, <1>2, <1>3, <1>4, <1>5, <1>6, <1>7 DEF Next

\* The invariant that the safety theorems below rest on.
THEOREM Invariant == Spec => []IInv
BY InitInvariant, StepInvariant, PTL DEF Spec

\* The types of the service, for every value of the constants.
THEOREM TypeCorrect == Spec => []TypeOK
BY Invariant, PTL DEF IInv

\* At most one upload per occurrence, whatever fails, is cancelled or crashes.
THEOREM UploadsOnce == Spec => []AtMostOneUpload
<1>1. IInv => AtMostOneUpload
  BY DEF IInv, AtMostOneUpload, RowsTellUploads, TellsUpload
<1> QED
  BY <1>1, Invariant, PTL

\* A row never denies an upload, and never claims one that was not accepted.
THEOREM StatusTruthful == Spec => []StatusIsTruthful
<1>1. IInv => StatusIsTruthful
  BY DEF IInv, StatusIsTruthful, RowsTellUploads, TellsUpload
<1> QED
  BY <1>1, Invariant, PTL

\* An upload was claimed by its own row first.
THEOREM UploadsClaimed == Spec => []UploadIsClaimed
<1>1. IInv => UploadIsClaimed
  BY DEF IInv, UploadIsClaimed, RowsTellUploads, TellsUpload, RowsOwnTracks
<1> QED
  BY <1>1, Invariant, PTL

\* No content and no media is uploaded for two occurrences.
THEOREM ContentOnce == Spec => []NoContentTwice
<1>1. ASSUME IInv
      PROVE  NoContentTwice
  <2> USE <1>1 DEF IInv
  <2> SUFFICES ASSUME NEW o \in Occurrence, NEW p \in Occurrence, o # p,
                      uploads[o].state # "none", uploads[p].state # "none"
               PROVE  ~ Clash(uploads[o].track, uploads[p].track)
    BY DEF NoContentTwice
  <2>1. /\ uploads[o].track = deliveries[o].track /\ deliveries[o].track # NoTrack
        /\ uploads[p].track = deliveries[p].track /\ deliveries[p].track # NoTrack
    BY DEF RowsTellUploads, TellsUpload
  <2>2. uploads[o].track \in tracks /\ uploads[p].track \in tracks
    BY <2>1 DEF RowsOwnTracks
  <2>3. uploads[o].track # uploads[p].track
    BY <2>1 DEF RowsOwnTracks
  <2> QED
    BY <2>2, <2>3 DEF TracksAreUnique
<1> QED
  BY <1>1, Invariant, PTL

\* Every claimed track is the track of exactly one row.
THEOREM TracksOwnedOnce == Spec => []OneOwnerPerTrack
<1>1. ASSUME IInv
      PROVE  OneOwnerPerTrack
  <2> SUFFICES ASSUME NEW t \in tracks
               PROVE  \E o \in Occurrence :
                        /\ deliveries[o].track = t
                        /\ \A p \in Occurrence \ {o} : deliveries[p].track # t
    BY DEF OneOwnerPerTrack
  <2>1. PICK o \in Occurrence : deliveries[o].track = t
    BY <1>1 DEF IInv, TracksAreOwned
  <2>2. t # NoTrack
    BY <1>1, NoTrackAssumption DEF IInv, TypeOK, RepositoryTypeOK
  <2>3. \A p \in Occurrence \ {o} : deliveries[p].track # t
    BY <1>1, <2>1, <2>2 DEF IInv, RowsOwnTracks
  <2> QED
    BY <2>1, <2>3
<1> QED
  BY <1>1, Invariant, PTL

\* A starting process leaves no row open and fails none that may have posted.
THEOREM RestartCloses == Spec => RestartClosesRows
<1>1. IInv /\ [Next]_vars => [BootClosesRows]_vars
  <2> SUFFICES ASSUME IInv, [Next]_vars, process = "down", process' = "up"
               PROVE  BootClosesRows
    BY DEF BootClosesRows
  <2>1. Boot
    <3>1. \A j \in Job : JobStep(j) \/ CancelArrives(j) => process' = process
      BY StepCommits DEF JobStep
    <3> QED
      BY <3>1 DEF Next, Fire, TelegramDecides, Shutdown, Exit, Crash, vars
  <2>2. \A o \in Occurrence :
            deliveries'[o].status = Recovered(deliveries[o].status)
    BY <2>1 DEF Boot, RecoverNonterminal, IInv, TypeOK, RepositoryTypeOK, Row
  <2> QED
    BY <2>2 DEF BootClosesRows, Recovered
<1> QED
  BY <1>1, Invariant, PTL DEF Spec, RestartClosesRows

-----------------------------------------------------------------------------
(* What a step may do to the rows, and the refinement of DeliveryLedger. *)

\* What the transactions of one job do to the status of its row.
LEMMA CommitMoves ==
    ASSUME IInv, NEW j \in Job, NEW o \in Occurrence, o = Occ(j), Commits(j)
    PROVE  /\ \A p \in Occurrence \ {o} : deliveries'[p] = deliveries[p]
           /\ <<deliveries[o].status, deliveries'[o].status>> \in
                {<<"absent", "queued">>, <<"queued", "publishing">>,
                 <<"publishing", "succeeded">>, <<"queued", "skipped_duplicate">>,
                 <<"queued", "permanently_failed">>,
                 <<"publishing", "permanently_failed">>,
                 <<"skipped_duplicate", "permanently_failed">>,
                 <<"publishing", "ambiguous">>, <<"succeeded", "ambiguous">>}
           /\ deliveries'[o].status \in {"queued", "skipped_duplicate", "permanently_failed"}
                => uploads[o].state = "none"
           /\ deliveries'[o].status = "succeeded" => uploads[o].state = "posted"
           /\ deliveries[o].message = "id" => deliveries'[o].message = "id"
           /\ deliveries[o].track # NoTrack
                => deliveries'[o].track = deliveries[o].track
<1>1. KnowsRow(j) /\ TellsUpload(o)
  BY DEF IInv, Commits, RowsTellUploads, JobsKnowRows
<1>2. deliveries \in [Occurrence -> Row]
  BY DEF IInv, TypeOK, RepositoryTypeOK
<1>3. CASE job[j].pc = "reserve" /\ InsertDelivery(o)
  <2>1. deliveries[o].status = "absent"
    BY <1>3 DEF InsertDelivery, Reserved
  <2> QED
    BY <1>1, <1>2, <1>3, <2>1 DEF InsertDelivery, TellsUpload, Row
<1>4. CASE job[j].pc = "claim" /\ ClaimTrack(o, ClaimOf(j))
  <2>1. deliveries[o].status = "queued"
    BY <1>1, <1>4 DEF KnowsRow
  <2> QED
    BY <1>1, <1>2, <1>4, <2>1 DEF ClaimTrack, TellsUpload, Row
<1>5. CASE job[j].pc = "confirm" /\ MarkSuccess(o, ClaimOf(j))
  <2>1. /\ deliveries[o].status = "publishing" /\ deliveries[o].track = ClaimOf(j)
        /\ uploads[o].state = "posted"
    BY <1>1, <1>5 DEF KnowsRow
  <2> QED
    BY <1>2, <1>5, <2>1 DEF MarkSuccess, Row
<1>6. CASE job[j].pc = "duplicate" /\ MarkDuplicate(o)
  <2>1. deliveries[o].status = "queued"
    BY <1>1, <1>6 DEF KnowsRow
  <2> QED
    BY <1>1, <1>2, <1>6, <2>1 DEF MarkDuplicate, TellsUpload, Row
<1>7. CASE job[j].pc = "fail" /\ MarkFailed(o)
  <2>1. /\ deliveries[o].status \in {"queued", "publishing", "skipped_duplicate"}
        /\ uploads[o].state = "none"
    BY <1>1, <1>7 DEF KnowsRow
  <2> QED
    BY <1>2, <1>7, <2>1 DEF MarkFailed, Row
<1>8. CASE job[j].pc = "doubt" /\ MarkAmbiguous(o, job[j].message)
  <2>1. /\ deliveries[o].status \in {"publishing", "succeeded"}
        /\ deliveries[o].message = "id" => job[j].message = "id"
    BY <1>1, <1>8 DEF KnowsRow
  <2> QED
    BY <1>2, <1>8, <2>1 DEF MarkAmbiguous, Row
<1> QED
  BY <1>3, <1>4, <1>5, <1>6, <1>7, <1>8 DEF Commits

\* Terminal rows only demote, and no step forgets a message id or a track.
THEOREM HistoryKept == Spec => NoStepRewritesHistory
<1>1. IInv /\ [Next]_vars => [TerminalRowsOnlyDemote]_vars
  <2> SUFFICES ASSUME IInv, [Next]_vars
               PROVE  TerminalRowsOnlyDemote
    OBVIOUS
  <2>1. deliveries \in [Occurrence -> Row]
    BY DEF IInv, TypeOK, RepositoryTypeOK
  <2>2. CASE UNCHANGED deliveries
    BY <2>2 DEF TerminalRowsOnlyDemote
  <2>3. ASSUME NEW j \in Job, Commits(j)
        PROVE  TerminalRowsOnlyDemote
    <3>1. PICK o \in Occurrence : o = Occ(j)
      BY <2>3, RunningOccurrence DEF Commits, IInv
    <3> QED
      BY <2>3, <3>1, CommitMoves DEF TerminalRowsOnlyDemote, Terminal
  <2>4. CASE Boot
    <3>1. \A o \in Occurrence :
            /\ deliveries'[o].status = Recovered(deliveries[o].status)
            /\ deliveries'[o].track = deliveries[o].track
            /\ deliveries'[o].message = deliveries[o].message
      BY <2>1, <2>4 DEF Boot, RecoverNonterminal, Row
    <3> QED
      BY <3>1 DEF TerminalRowsOnlyDemote, Recovered, Terminal
  <2>5. \/ UNCHANGED deliveries \/ Boot \/ \E j \in Job : Commits(j)
    BY StepCommits
       DEF Next, JobStep, MayHaveCommitted, Fire, TelegramDecides, Shutdown, Exit,
           Crash, vars, repository
  <2> QED
    BY <2>2, <2>3, <2>4, <2>5
<1> QED
  BY <1>1, Invariant, PTL DEF Spec, NoStepRewritesHistory

\* A step that leaves Telegram and all rows but one alone moves one verdict.
LEMMA OneVerdict ==
    ASSUME IInv, NEW o \in Occurrence, UNCHANGED telegram,
           \A p \in Occurrence \ {o} : deliveries'[p] = deliveries[p]
    PROVE  /\ LedgerVerdict' =
                [LedgerVerdict EXCEPT ![o] = Verdict(deliveries'[o].status)]
           /\ UNCHANGED <<LedgerUpload, LedgerContent>>
BY DEF LedgerVerdict, LedgerUpload, LedgerContent, telegram

\* A transaction opens, closes or doubts its delivery, or is no concern of
\* the ledger.
LEMMA CommitRefines ==
    ASSUME IInv, NEW j \in Job, Commits(j), UNCHANGED telegram
    PROVE  [Ledger!Next]_Ledger!ledger
<1>1. PICK o \in Occurrence : o = Occ(j)
  BY RunningOccurrence DEF Commits, IInv
<1> DEFINE old == deliveries[o].status new == deliveries'[o].status
<1>2. /\ LedgerVerdict' = [LedgerVerdict EXCEPT ![o] = Verdict(new)]
      /\ UNCHANGED <<LedgerUpload, LedgerContent>>
  BY <1>1, CommitMoves, OneVerdict
<1>3. LedgerVerdict[o] = Verdict(old) /\ LedgerUpload[o] = uploads[o].state
  BY DEF LedgerVerdict, LedgerUpload
<1>4. /\ <<old, new>> \in
            {<<"absent", "queued">>, <<"queued", "publishing">>,
             <<"publishing", "succeeded">>, <<"queued", "skipped_duplicate">>,
             <<"queued", "permanently_failed">>,
             <<"publishing", "permanently_failed">>,
             <<"skipped_duplicate", "permanently_failed">>,
             <<"publishing", "ambiguous">>, <<"succeeded", "ambiguous">>}
      /\ new \in {"queued", "skipped_duplicate", "permanently_failed"}
            => uploads[o].state = "none"
      /\ new = "succeeded" => uploads[o].state = "posted"
  BY <1>1, CommitMoves
<1> HIDE DEF old, new
<1>5. CASE <<old, new>> = <<"absent", "queued">>
  BY <1>2, <1>3, <1>5 DEF Verdict, Ledger!Open, Ledger!Next
<1>6. CASE <<old, new>> \in {<<"queued", "publishing">>,
                            <<"skipped_duplicate", "permanently_failed">>}
  <2>1. Verdict(new) = LedgerVerdict[o]
    BY <1>3, <1>6 DEF Verdict
  <2>2. LedgerVerdict' = LedgerVerdict
    BY <1>2, <2>1 DEF LedgerVerdict
  <2> QED
    BY <1>2, <2>2 DEF Ledger!ledger
<1>7. CASE <<old, new>> = <<"succeeded", "ambiguous">>
  BY <1>2, <1>3, <1>7 DEF Verdict, Ledger!Doubt, Ledger!Next
<1>8. CASE <<old, new>> \in {<<"publishing", "succeeded">>,
                            <<"queued", "skipped_duplicate">>,
                            <<"queued", "permanently_failed">>,
                            <<"publishing", "permanently_failed">>,
                            <<"publishing", "ambiguous">>}
  <2>1. LedgerVerdict[o] = "open"
    BY <1>3, <1>8 DEF Verdict
  <2>2. /\ Verdict(new) \in {"notSent", "sent", "unknown"}
        /\ Ledger!Honest(o, Verdict(new))
    BY <1>3, <1>4, <1>8 DEF Verdict, Ledger!Honest
  <2>3. Ledger!Close(o)
    BY <1>2, <2>1, <2>2 DEF Ledger!Close
  <2> QED
    BY <2>3 DEF Ledger!Next
<1> QED
  BY <1>4, <1>5, <1>6, <1>7, <1>8

\* The request that leaves the host is the one upload of an open delivery.
LEMMA SendRefines ==
    ASSUME IInv, NEW j \in Job, PublishSends(j)
    PROVE  Ledger!Next
<1> USE DEF IInv
<1>1. PICK o \in Occurrence : o = Occ(j)
  BY RunningOccurrence DEF PublishSends
<1>2. KnowsRow(j) /\ job[j].pc = "publish"
  BY DEF JobsKnowRows, PublishSends
<1>3. /\ deliveries[o].status = "publishing" /\ uploads[o].state = "none"
      /\ deliveries[o].track = ClaimOf(j)
  BY <1>1, <1>2 DEF KnowsRow
<1>4. ClaimOf(j) \in Track /\ ClaimOf(j) # NoTrack /\ ClaimOf(j).sha \in Hash
  BY <1>2, ClaimIsTrack DEF Track
<1>5. /\ uploads' = [uploads EXCEPT ![o] = [state |-> "inflight", track |-> ClaimOf(j)]]
      /\ deliveries' = deliveries
  BY <1>1 DEF PublishSends, repository
<1>6. uploads \in [Occurrence -> Upload]
  BY DEF TypeOK
<1>7. \A p \in Occurrence : ClaimOf(j).sha \notin LedgerContent[p]
  <2> SUFFICES ASSUME NEW p \in Occurrence, uploads[p].state # "none"
               PROVE  uploads[p].track.sha # ClaimOf(j).sha
    BY DEF LedgerContent
  <2>1. uploads[p].track = deliveries[p].track /\ deliveries[p].track # NoTrack
    BY DEF RowsTellUploads, TellsUpload
  <2>2. deliveries[p].track \in tracks /\ ClaimOf(j) \in tracks
    BY <1>3, <1>4, <2>1 DEF RowsOwnTracks
  <2>3. deliveries[p].track # ClaimOf(j)
    BY <1>3, <1>4, <2>1 DEF RowsOwnTracks
  <2> QED
    BY <2>1, <2>2, <2>3 DEF TracksAreUnique, Clash
<1>8. LedgerVerdict' = LedgerVerdict /\ LedgerVerdict[o] = "open" /\ LedgerUpload[o] = "none"
  BY <1>3, <1>5 DEF LedgerVerdict, LedgerUpload, Verdict
<1>9. LedgerUpload' = [LedgerUpload EXCEPT ![o] = "inflight"]
  BY <1>5, <1>6 DEF LedgerUpload, Upload
<1>10. LedgerContent' = [LedgerContent EXCEPT ![o] = {ClaimOf(j).sha}]
  BY <1>5, <1>6 DEF LedgerContent, Upload
<1>11. Ledger!Send(o)
  BY <1>4, <1>7, <1>8, <1>9, <1>10 DEF Ledger!Send
<1> QED
  BY <1>11 DEF Ledger!Next

\* Telegram's decision about an upload is the ledger's.
LEMMA DecideRefines ==
    ASSUME IInv, NEW o \in Occurrence, TelegramDecides(o)
    PROVE  Ledger!Next
<1>1. uploads \in [Occurrence -> Upload] /\ uploads[o].state = "inflight"
  BY DEF IInv, TypeOK, TelegramDecides
<1>2. PICK u \in {"posted", "lost"} : uploads' = [uploads EXCEPT ![o].state = u]
  BY DEF TelegramDecides
<1>3. LedgerVerdict' = LedgerVerdict
  BY DEF LedgerVerdict, TelegramDecides, repository
<1>4. LedgerUpload[o] = "inflight" /\ LedgerUpload' = [LedgerUpload EXCEPT ![o] = u]
  BY <1>1, <1>2 DEF LedgerUpload, Upload
<1>5. LedgerContent' = LedgerContent
  BY <1>1, <1>2 DEF LedgerContent, Upload
<1>6. Ledger!Decide(o)
  BY <1>3, <1>4, <1>5 DEF Ledger!Decide
<1> QED
  BY <1>6 DEF Ledger!Next

\* The recovery of a starting process closes whatever was left open.
LEMMA BootRefines ==
    ASSUME IInv, Boot
    PROVE  Ledger!Next
<1>1. deliveries \in [Occurrence -> Row] /\ uploads' = uploads
  BY DEF IInv, TypeOK, RepositoryTypeOK, Boot, telegram
<1>2. \A o \in Occurrence :
        deliveries'[o].status = Recovered(deliveries[o].status)
  BY <1>1 DEF Boot, RecoverNonterminal, Row
<1>3. LedgerUpload' = LedgerUpload /\ LedgerContent' = LedgerContent
  BY <1>1 DEF LedgerUpload, LedgerContent
<1>4. LedgerVerdict' \in [Occurrence -> Ledger!Verdict]
  BY <1>2 DEF LedgerVerdict, Ledger!Verdict, Verdict
<1>5. ASSUME NEW o \in Occurrence
      PROVE  IF LedgerVerdict[o] = "open"
             THEN /\ LedgerVerdict'[o] \in {"notSent", "unknown"}
                  /\ Ledger!Honest(o, LedgerVerdict'[o])
             ELSE LedgerVerdict'[o] = LedgerVerdict[o]
  <2>1. /\ LedgerVerdict[o] = Verdict(deliveries[o].status)
        /\ LedgerVerdict'[o] = Verdict(Recovered(deliveries[o].status))
        /\ LedgerUpload[o] = uploads[o].state
    BY <1>2 DEF LedgerVerdict, LedgerUpload
  <2>2. deliveries[o].status = "queued" => uploads[o].state = "none"
    BY DEF IInv, RowsTellUploads, TellsUpload
  <2>3. CASE deliveries[o].status \in {"queued", "publishing"}
    BY <2>1, <2>2, <2>3 DEF Verdict, Recovered, Ledger!Honest
  <2>4. CASE deliveries[o].status \notin {"queued", "publishing"}
    BY <2>1, <2>4 DEF Verdict, Recovered
  <2> QED
    BY <2>3, <2>4
<1>6. Ledger!CloseAll
  BY <1>3, <1>4, <1>5 DEF Ledger!CloseAll
<1> QED
  BY <1>6 DEF Ledger!Next

\* The service implements the ledger: every step of a job, of Telegram or of
\* the process is a step of the ledger or none of its business.
THEOREM Refinement == Spec => KeepsLedger
<1>1. Init => Ledger!Init
  BY DEF Init, RepositoryInit, NoRow, Ledger!Init, LedgerVerdict, LedgerUpload,
         LedgerContent, Verdict
<1>2. ASSUME IInv, [Next]_vars
      PROVE  [Ledger!Next]_Ledger!ledger
  <2>1. CASE UNCHANGED <<deliveries, uploads>>
    BY <2>1 DEF Ledger!ledger, LedgerVerdict, LedgerUpload, LedgerContent
  <2>2. CASE \E j \in Job : PublishSends(j)
    BY <1>2, <2>2, SendRefines
  <2>3. CASE \E j \in Job : Commits(j) /\ UNCHANGED telegram
    BY <1>2, <2>3, CommitRefines
  <2>4. CASE \E o \in Occurrence : TelegramDecides(o)
    BY <1>2, <2>4, DecideRefines
  <2>5. CASE Boot
    BY <1>2, <2>5, BootRefines
  <2>6. ASSUME NEW j \in Job, Returns(j)
        PROVE  MayHaveCommitted(j) /\ (PublishSends(j) \/ UNCHANGED telegram)
    BY <2>6, StepCommits
       DEF Returns, ReserveInserts, ReserveFindsRow, ExcludeReads, RequestReturns,
           DownloadReturns, ClaimReturns, ClaimConflicts, PublishReturns,
           ConfirmReturns, DuplicateReturns, FailReturns, DoubtReturns
  <2>7. ASSUME NEW j \in Job, Raises(j) \/ CancelArrives(j)
        PROVE  MayHaveCommitted(j) /\ UNCHANGED telegram
    BY <2>7, StepCommits DEF Raises, CancelArrives
  <2>8. CASE \E j \in Job : JobStep(j) \/ CancelArrives(j)
    BY <2>1, <2>2, <2>3, <2>6, <2>7, <2>8
       DEF JobStep, MayHaveCommitted, telegram, repository
  <2>9. CASE ~ (\E j \in Job : JobStep(j) \/ CancelArrives(j))
             /\ ~ Boot /\ ~ (\E o \in Occurrence : TelegramDecides(o))
    BY <1>2, <2>1, <2>9
       DEF Next, Fire, Shutdown, Exit, Crash, vars, repository, telegram
  <2> QED
    BY <2>4, <2>5, <2>8, <2>9
<1> QED
  BY <1>1, <1>2, Invariant, PTL DEF Spec, KeepsLedger, Ledger!Spec

-----------------------------------------------------------------------------
(* The process and the jobs are those of JobHost. *)

\* A step of a running job writes the locals of no other job.
LEMMA OnlyItsJob ==
    ASSUME NEW j \in Job, JobStep(j) \/ CancelArrives(j)
    PROVE  /\ process' = process
           /\ job[j].pc # "idle"
           /\ \E locals : job' = [job EXCEPT ![j] = locals]
<1> USE DEF Becomes, Goto, Finish, RecordFailure, Unwind, TryNext
<1>1. CASE ReserveInserts(j) \/ ReserveFindsRow(j) \/ ExcludeReads(j) \/ RequestReturns(j)
           \/ DownloadReturns(j) \/ ClaimReturns(j) \/ PublishSends(j) \/ PublishReturns(j)
  BY <1>1 DEF ReserveInserts, ReserveFindsRow, ExcludeReads, RequestReturns,
              DownloadReturns, ClaimReturns, PublishSends, PublishReturns
<1>2. CASE ClaimConflicts(j) \/ ConfirmReturns(j) \/ DuplicateReturns(j) \/ FailReturns(j)
           \/ DoubtReturns(j)
  BY <1>2 DEF ClaimConflicts, ConfirmReturns, DuplicateReturns, FailReturns, DoubtReturns
<1>3. CASE Raises(j)
  BY <1>3 DEF Raises, CanRaise, DatabaseAwait
<1>4. CASE CancelArrives(j)
  BY <1>4 DEF CancelArrives
<1>5. QED
  BY <1>1, <1>2, <1>3, <1>4 DEF JobStep, Returns

\* The bridge asks of its process what Lifecycle's theorem Hosts provides: it
\* begins work in a process that is up, and counts on an orderly end to come
\* after its work.
THEOREM LivesInItsHost == Spec => LivesInHost
<1>1. Init => Host!Init
  BY DEF Init, Host!Init, Busy, IdleJob, Suspended
<1>2. ASSUME IInv, [Next]_vars
      PROVE  [Host!Next]_(Host!host)
  <2> USE DEF Host!Next, Host!host
  <2>1. job \in [Job -> JobState]
    BY <1>2 DEF IInv, TypeOK
  <2>2. ASSUME NEW j \in Job, NEW s \in Slot, Fire(j, s)
        PROVE  Host!Begin(j)
    <3>1. Busy' = Busy \union {j}
      BY <2>1, <2>2 DEF Fire, Becomes, Suspended, Busy
    <3>2. QED
      BY <2>2, <3>1 DEF Fire, Host!Begin
  <2>3. ASSUME NEW j \in Job, JobStep(j) \/ CancelArrives(j)
        PROVE  [Host!Next]_(Host!host)
    <3>1. Busy' = Busy \/ Busy' = Busy \ {j}
      <4>1. PICK locals : job' = [job EXCEPT ![j] = locals]
        BY <2>3, OnlyItsJob
      <4>2. QED
        BY <2>1, <2>3, <4>1, OnlyItsJob DEF Busy
    <3>2. QED
      BY <2>3, <3>1, OnlyItsJob DEF Host!Finish
  <2>4. ASSUME NEW o \in Occurrence, TelegramDecides(o)
        PROVE  UNCHANGED <<process, Busy>>
    BY <2>4 DEF TelegramDecides, Busy
  <2>5. CASE Boot
    BY <2>5 DEF Boot, Host!Boot, Busy
  <2>6. CASE Shutdown
    BY <2>6 DEF Shutdown, Host!Shutdown, Busy
  <2>7. CASE Exit
    BY <2>7 DEF Exit, Host!Exit, Busy
  <2>8. CASE Crash
    BY <2>8 DEF Crash, Host!Die, Busy, IdleJob, Suspended
  <2>9. CASE UNCHANGED vars
    BY <2>9 DEF vars, Busy
  <2>10. QED
    BY <1>2, <2>2, <2>3, <2>4, <2>5, <2>6, <2>7, <2>8, <2>9 DEF Next
<1>3. QED
  BY <1>1, <1>2, Invariant, PTL DEF Spec, LivesInHost, Host!Spec

-----------------------------------------------------------------------------
(* A delivery runs down. *)

\* The bound of a call that is still in its attempts, and of one that is not.
LEMMA AwaitsOfAttempt ==
    ASSUME NEW r \in JobState
    PROVE  LET later == 5 + 3 * (Attempts - r.attempt) IN
           /\ later \in Nat /\ later >= 5
           /\ r.pc = "claim" => AwaitsLeft(r) = later + 1
           /\ r.pc = "download" => AwaitsLeft(r) = later + 2
           /\ r.pc = "request" => AwaitsLeft(r) = later + 3
<1>1. r.attempt \in 0..Attempts /\ Attempts \in Nat
  BY AttemptsAssumption DEF JobState
<1>2. QED
  BY <1>1 DEF AwaitsLeft

LEMMA AwaitsOfStage ==
    ASSUME NEW r
    PROVE  /\ r.pc = "idle" => AwaitsLeft(r) = 0
           /\ r.pc \in {"fail", "doubt"} => AwaitsLeft(r) = 1
           /\ r.pc = "duplicate" => AwaitsLeft(r) = 2
           /\ r.pc = "confirm" => AwaitsLeft(r) = 3
           /\ r.pc = "sent" => AwaitsLeft(r) = 4
           /\ r.pc = "publish" => AwaitsLeft(r) = 5
           /\ r.pc = "exclude" => AwaitsLeft(r) = 3 * Attempts + 6
           /\ r.pc = "reserve" => AwaitsLeft(r) = 3 * Attempts + 7
BY DEF AwaitsLeft

\* A call that is suspended anywhere has an await left.
LEMMA AwaitsArePositive ==
    ASSUME NEW r \in JobState, r.pc # "idle"
    PROVE  /\ AwaitsLeft(r) \in Nat /\ AwaitsLeft(r) > 0
           /\ r.pc \notin {"fail", "doubt"} => AwaitsLeft(r) > 1
<1>1. r.pc \in Await /\ Attempts \in Nat
  BY AttemptsAssumption DEF JobState
<1>2. CASE r.pc \in {"claim", "download", "request"}
  BY <1>2, AwaitsOfAttempt
<1>3. CASE r.pc \notin {"claim", "download", "request"}
  BY <1>1, <1>3, AwaitsOfStage DEF Await, DatabaseAwait
<1>4. QED
  BY <1>2, <1>3

\* An await that raises leaves one at most, that of its recorder.
LEMMA UnwindRunsDown ==
    ASSUME IInv, NEW j \in Job, job[j].pc # "idle",
           Unwind(j) \/ Finish(j)
           \/ (RecordFailure(j) /\ job[j].pc \notin {"fail", "doubt"})
    PROVE  AwaitsLeft(job'[j]) < AwaitsLeft(job[j])
<1>1. job \in [Job -> JobState] /\ job[j] \in JobState
  BY DEF IInv, TypeOK
<1>2. AwaitsLeft(job[j]) \in Nat /\ AwaitsLeft(job[j]) > 0
      /\ (job[j].pc \notin {"fail", "doubt"} => AwaitsLeft(job[j]) > 1)
  BY <1>1, AwaitsArePositive
<1>3. CASE Finish(j)
  <2>1. job'[j].pc = "idle"
    BY <1>1, <1>3 DEF Finish, Becomes, IdleJob, Suspended
  <2>2. QED
    BY <1>2, <2>1, AwaitsOfStage
<1>4. CASE RecordFailure(j) /\ job[j].pc \notin {"fail", "doubt"}
  <2>1. job'[j].pc \in {"fail", "doubt"}
    BY <1>1, <1>4 DEF RecordFailure, RecorderOf, Becomes, Suspended
  <2>2. QED
    BY <1>2, <1>4, <2>1, AwaitsOfStage
<1>5. QED
  BY <1>3, <1>4 DEF Unwind

\* Another candidate has one attempt less; without one, the duplicate is recorded.
LEMMA TryNextRunsDown ==
    ASSUME IInv, NEW j \in Job, job[j].pc = "claim", TryNext(j), job'[j] \in JobState
    PROVE  AwaitsLeft(job'[j]) < AwaitsLeft(job[j])
<1>1. job \in [Job -> JobState] /\ job[j] \in JobState
  BY DEF IInv, TypeOK
<1>2. \/ job'[j].pc = "request" /\ job'[j].attempt = job[j].attempt + 1
      \/ job'[j].pc = "duplicate"
  <2>1. CASE j \notin DirectJob /\ job[j].attempt < Attempts
    <3> DEFINE r == [job[j] EXCEPT !.pc = "request",
                                   !.excluded = @ \union {job[j].media},
                                   !.attempt = @ + 1,
                                   !.media = NoMedia,
                                   !.sha = NoHash]
    <3>1. r.pc = "request" /\ r.attempt = job[j].attempt + 1
      BY <1>1 DEF JobState
    <3> HIDE DEF r
    <3>2. job'[j] = r
      BY <1>1, <2>1 DEF TryNext, Becomes, r
    <3>3. QED
      BY <3>1, <3>2
  <2>2. CASE ~ (j \notin DirectJob /\ job[j].attempt < Attempts)
    BY <1>1, <2>2 DEF TryNext, Becomes, Suspended
  <2>3. QED
    BY <2>1, <2>2
<1> DEFINE old == 5 + 3 * (Attempts - job[j].attempt)
           new == 5 + 3 * (Attempts - job'[j].attempt)
<1>3. AwaitsLeft(job[j]) = old + 1 /\ old \in Nat /\ old >= 5
  BY <1>1, AwaitsOfAttempt
<1>4. CASE job'[j].pc = "request" /\ job'[j].attempt = job[j].attempt + 1
  <2>1. AwaitsLeft(job'[j]) = new + 3
    BY <1>4, AwaitsOfAttempt
  <2>2. job[j].attempt \in Nat /\ Attempts \in Nat
    BY <1>1, AttemptsAssumption DEF JobState
  <2>3. new + 3 = old
    BY <1>4, <2>2
  <2>4. QED
    BY <1>3, <2>1, <2>3
<1>5. CASE job'[j].pc = "duplicate"
  BY <1>3, <1>5, AwaitsOfStage
<1>6. QED
  BY <1>2, <1>4, <1>5

\* Every await that ends, in whatever way, leaves the call one less.
LEMMA AwaitRunsDown ==
    ASSUME IInv, NEW j \in Job, JobStep(j) \/ CancelArrives(j)
    PROVE  AwaitsLeft(job'[j]) < AwaitsLeft(job[j])
<1>1. job \in [Job -> JobState] /\ job[j] \in JobState /\ job[j].pc # "idle"
  BY OnlyItsJob DEF IInv, TypeOK
<1>2. job'[j] \in JobState
  BY <1>1, JobType DEF JobStep
<1>3. Attempts \in Nat /\ Attempts > 0
  BY AttemptsAssumption
<1>4. ASSUME NEW r, Becomes(j, r)
      PROVE  job'[j] = r
  BY <1>1, <1>4 DEF Becomes
<1>5. CASE Raises(j) \/ CancelArrives(j)
  BY <1>1, <1>5, UnwindRunsDown DEF Raises, CancelArrives
<1>6. CASE ReserveFindsRow(j) \/ ConfirmReturns(j) \/ DuplicateReturns(j) \/ FailReturns(j)
           \/ DoubtReturns(j)
  BY <1>1, <1>6, UnwindRunsDown
  DEF ReserveFindsRow, ConfirmReturns, DuplicateReturns, FailReturns, DoubtReturns
<1>7. CASE ClaimConflicts(j)
  BY <1>1, <1>2, <1>7, UnwindRunsDown, TryNextRunsDown DEF ClaimConflicts
<1>8. CASE ReserveInserts(j)
  <2>1. job[j].pc = "reserve" /\ job'[j].pc = "exclude"
    BY <1>1, <1>4, <1>8 DEF ReserveInserts, Goto, JobState
  <2>2. QED
    BY <1>3, <2>1, AwaitsOfStage
<1>9. CASE ExcludeReads(j)
  <2>1. job[j].pc = "exclude" /\ job'[j].pc = "request" /\ job'[j].attempt = 1
    BY <1>1, <1>4, <1>9 DEF ExcludeReads, JobState
  <2>2. AwaitsLeft(job'[j]) = 5 + 3 * (Attempts - 1) + 3
    BY <1>2, <2>1, AwaitsOfAttempt
  <2>3. QED
    BY <1>3, <2>1, <2>2, AwaitsOfStage
<1>10. CASE RequestReturns(j) \/ DownloadReturns(j)
  <2>1. /\ job'[j].attempt = job[j].attempt
        /\ <<job[j].pc, job'[j].pc>> \in {<<"request", "download">>, <<"download", "claim">>}
    <3>1. CASE RequestReturns(j)
      <4>1. PICK m \in Eligible(j) :
                Becomes(j, [job[j] EXCEPT !.pc = "download", !.media = m])
        BY <3>1 DEF RequestReturns
      <4>2. QED
        BY <1>1, <1>4, <3>1, <4>1 DEF RequestReturns, JobState
    <3>2. CASE DownloadReturns(j)
      <4>1. PICK h \in Hash : Becomes(j, [job[j] EXCEPT !.pc = "claim", !.sha = h])
        BY <3>2 DEF DownloadReturns
      <4>2. QED
        BY <1>1, <1>4, <3>2, <4>1 DEF DownloadReturns, JobState
    <3>3. QED
      BY <1>10, <3>1, <3>2
  <2>2. QED
    BY <1>1, <1>2, <2>1, AwaitsOfAttempt
<1>11. CASE ClaimReturns(j)
  <2>1. job[j].pc = "claim" /\ job'[j].pc = "publish"
    BY <1>1, <1>4, <1>11 DEF ClaimReturns, JobState
  <2>2. QED
    BY <1>1, <2>1, AwaitsOfAttempt, AwaitsOfStage
<1>12. CASE PublishSends(j) \/ PublishReturns(j)
  <2>1. <<job[j].pc, job'[j].pc>> \in {<<"publish", "sent">>, <<"sent", "confirm">>}
    BY <1>1, <1>4, <1>12 DEF PublishSends, PublishReturns, Goto, JobState
  <2>2. QED
    BY <2>1, AwaitsOfStage
<1>13. QED
  BY <1>5, <1>6, <1>7, <1>8, <1>9, <1>10, <1>11, <1>12 DEF JobStep, Returns

\* Once it has begun, a delivery ends within 3 * Attempts + 7 awaits, whatever
\* conflicts, fails or is cancelled: nothing takes it back to an earlier one.
THEOREM RunsDown == Spec => DeliveriesRunDown
<1>1. ASSUME IInv, [Next]_vars
      PROVE  StepRunsDown
  <2> SUFFICES ASSUME NEW j \in Job, job[j].pc # "idle", job'[j] # job[j]
               PROVE  AwaitsLeft(job'[j]) < AwaitsLeft(job[j])
    BY DEF StepRunsDown
  <2>1. job \in [Job -> JobState] /\ job[j] \in JobState
    BY <1>1 DEF IInv, TypeOK
  <2>2. ASSUME NEW i \in Job, JobStep(i) \/ CancelArrives(i)
        PROVE  i = j
    BY <2>1, <2>2, OnlyItsJob
  <2>3. ASSUME NEW i \in Job, NEW s \in Slot, Fire(i, s)
        PROVE  FALSE
    BY <2>1, <2>3 DEF Fire, Becomes
  <2>4. CASE Crash
    <3>1. job'[j].pc = "idle"
      BY <2>4 DEF Crash, IdleJob, Suspended
    <3>2. QED
      BY <2>1, <3>1, AwaitsArePositive, AwaitsOfStage
  <2>5. CASE JobStep(j) \/ CancelArrives(j)
    BY <1>1, <2>5, AwaitRunsDown
  <2>6. ~ (Boot \/ Shutdown \/ Exit \/ UNCHANGED vars \/ \E o \in Occurrence : TelegramDecides(o))
    BY DEF Boot, Shutdown, Exit, vars, TelegramDecides
  <2>7. QED
    BY <1>1, <2>2, <2>3, <2>4, <2>5, <2>6 DEF Next
<1>2. IInv /\ [Next]_vars => [StepRunsDown]_vars
  BY <1>1
<1>3. QED
  BY <1>2, Invariant, PTL DEF Spec, DeliveriesRunDown

-----------------------------------------------------------------------------
(* Open rows, while the database does not fail. *)

\* A candidate that was delivered before is followed by another or a verdict.
LEMMA TryNextGoesOn ==
    ASSUME IInv, NEW j \in Job, TryNext(j)
    PROVE  job'[j].slot = job[j].slot /\ job'[j].pc \in {"request", "duplicate"}
<1>1. job \in [Job -> JobState] /\ job[j] \in JobState
  BY DEF IInv, TypeOK
<1>2. CASE j \notin DirectJob /\ job[j].attempt < Attempts
  <2> DEFINE next == [job[j] EXCEPT !.pc = "request",
                                   !.excluded = @ \union {job[j].media},
                                   !.attempt = @ + 1,
                                   !.media = NoMedia,
                                   !.sha = NoHash]
  <2>1. next.pc = "request" /\ next.slot = job[j].slot
    BY <1>1 DEF JobState
  <2>2. job' = [job EXCEPT ![j] = next]
    BY <1>2 DEF TryNext, Becomes
  <2> HIDE DEF next
  <2>3. QED
    BY <1>1, <2>1, <2>2
<1>3. CASE ~ (j \notin DirectJob /\ job[j].attempt < Attempts)
  BY <1>1, <1>3 DEF TryNext, Becomes, Suspended
<1>4. QED
  BY <1>2, <1>3

\* A step of a working job stays with its occurrence until it ends.
LEMMA SameSlot ==
    ASSUME IInv, NEW j \in Job, JobStep(j), job'[j].pc # "idle"
    PROVE  job'[j].slot = job[j].slot /\ job'[j].pc # "reserve"
<1>1. job \in [Job -> JobState] /\ job[j] \in JobState
  BY DEF IInv, TypeOK
<1>2. ASSUME NEW r, Becomes(j, r)
      PROVE  job'[j] = r
  BY <1>1, <1>2 DEF Becomes
<1>3. ~ Finish(j)
  BY <1>2 DEF Finish, IdleJob, Suspended
<1>4. ASSUME RecordFailure(j)
      PROVE  job'[j].slot = job[j].slot /\ job'[j].pc # "reserve"
  BY <1>2, <1>4 DEF RecordFailure, RecorderOf, Suspended
<1>5. CASE Raises(j)
  BY <1>3, <1>4, <1>5 DEF Raises, Unwind
<1>6. CASE ReserveInserts(j) \/ PublishSends(j)
  BY <1>1, <1>2, <1>6 DEF ReserveInserts, PublishSends, Goto, JobState
<1>7. CASE ExcludeReads(j) \/ ClaimReturns(j) \/ PublishReturns(j)
  BY <1>1, <1>2, <1>7 DEF ExcludeReads, ClaimReturns, PublishReturns, JobState
<1>8. CASE RequestReturns(j)
  <2>1. PICK m \in Eligible(j) :
            Becomes(j, [job[j] EXCEPT !.pc = "download", !.media = m])
    BY <1>8 DEF RequestReturns
  <2>2. QED
    BY <1>1, <1>2, <2>1 DEF JobState
<1>9. CASE DownloadReturns(j)
  <2>1. PICK h \in Hash : Becomes(j, [job[j] EXCEPT !.pc = "claim", !.sha = h])
    BY <1>9 DEF DownloadReturns
  <2>2. QED
    BY <1>1, <1>2, <2>1 DEF JobState
<1>10. CASE ClaimConflicts(j)
  <2>1. CASE TryNext(j)
    BY <2>1, TryNextGoesOn
  <2>2. QED
    BY <1>4, <1>10, <2>1 DEF ClaimConflicts
<1>11. CASE ReserveFindsRow(j) \/ ConfirmReturns(j) \/ DuplicateReturns(j) \/ FailReturns(j)
            \/ DoubtReturns(j)
  BY <1>3, <1>4, <1>11
  DEF ReserveFindsRow, ConfirmReturns, DuplicateReturns, FailReturns, DoubtReturns
<1>12. QED
  BY <1>5, <1>6, <1>7, <1>8, <1>9, <1>10, <1>11 DEF JobStep, Returns

\* A job that ends leaves its own row closed.
LEMMA EndClosesRow ==
    ASSUME "db" \notin Faults, IInv, OpenRowsAreOwned, process = "up",
           NEW j \in Job, JobStep(j), job'[j].pc = "idle",
           NEW o \in Occurrence, o = Occ(j)
    PROVE  ~ Open(o)'
<1> USE DEF Open
<1>1. job \in [Job -> JobState] /\ job[j] \in JobState /\ deliveries \in [Occurrence -> Row]
  BY DEF IInv, TypeOK, RepositoryTypeOK
<1>2. ASSUME NEW r, Becomes(j, r)
      PROVE  job'[j] = r
  BY <1>1, <1>2 DEF Becomes
<1>3. ~ RecordFailure(j)
  BY <1>2 DEF RecordFailure, RecorderOf, Suspended
<1>4. CASE ReserveFindsRow(j)
  <2>1. ~ Open(o)
    BY <1>4 DEF OpenRowsAreOwned, ReserveFindsRow, Occ
  <2>2. QED
    BY <1>4, <2>1 DEF ReserveFindsRow, repository
<1>5. CASE ConfirmReturns(j) \/ DuplicateReturns(j) \/ FailReturns(j) \/ DoubtReturns(j)
  BY <1>1, <1>5
  DEF ConfirmReturns, MarkSuccess, DuplicateReturns, MarkDuplicate, FailReturns,
      MarkFailed, DoubtReturns, MarkAmbiguous, Row
<1>6. ~ Raises(j)
  BY <1>3 DEF Raises, CanRaise, Unwind, DatabaseAwait
<1>7. ~ (ReserveInserts(j) \/ PublishSends(j))
  BY <1>1, <1>2 DEF ReserveInserts, PublishSends, Goto, JobState
<1>8. ~ (ExcludeReads(j) \/ ClaimReturns(j) \/ PublishReturns(j))
  BY <1>1, <1>2 DEF ExcludeReads, ClaimReturns, PublishReturns, JobState
<1>9. ~ RequestReturns(j)
  <2> SUFFICES ASSUME NEW m, Becomes(j, [job[j] EXCEPT !.pc = "download", !.media = m])
               PROVE  FALSE
    BY DEF RequestReturns
  <2> QED
    BY <1>1, <1>2 DEF JobState
<1>10. ~ DownloadReturns(j)
  <2> SUFFICES ASSUME NEW h, Becomes(j, [job[j] EXCEPT !.pc = "claim", !.sha = h])
               PROVE  FALSE
    BY DEF DownloadReturns
  <2> QED
    BY <1>1, <1>2 DEF JobState
<1>11. ~ ClaimConflicts(j)
  <2>1. ~ TryNext(j)
    BY TryNextGoesOn
  <2>2. QED
    BY <1>3, <2>1 DEF ClaimConflicts
<1>12. QED
  BY <1>4, <1>5, <1>6, <1>7, <1>8, <1>9, <1>10, <1>11 DEF JobStep, Returns

\* A step of a job leaves the rows of the others, and what they know, alone.
LEMMA OtherRowStep ==
    ASSUME IInv, NEW j \in Job, JobStep(j), NEW o \in Occurrence, o # Occ(j)
    PROVE  deliveries'[o] = deliveries[o]
<1>1. MayHaveCommitted(j)
  BY StepCommits DEF JobStep
<1>2. deliveries \in [Occurrence -> Row]
  BY DEF IInv, TypeOK, RepositoryTypeOK
<1>3. QED
  BY <1>1, <1>2 DEF MayHaveCommitted, Commits, repository, InsertDelivery, ClaimTrack,
     MarkSuccess, MarkDuplicate, MarkFailed, MarkAmbiguous

\* While the database answers, no row of a running process is left open: its
\* own job is at work on it.
THEOREM OpenRowsWorkedOn ==
    ASSUME "db" \notin Faults
    PROVE  Spec => []OpenRowsAreWorkedOn
<1>1. Init => OpenRowsAreOwned
  BY DEF Init, OpenRowsAreOwned
<1>2. ASSUME IInv, OpenRowsAreOwned, [Next]_vars
      PROVE  OpenRowsAreOwned'
  <2>1. job \in [Job -> JobState] /\ deliveries \in [Occurrence -> Row]
    BY <1>2 DEF IInv, TypeOK, RepositoryTypeOK
  <2>2. \A o \in Occurrence : o[1] \in Job
    BY DEF Occurrence
  <2>3. ASSUME NEW j \in Job, JobStep(j), process = "up",
               NEW o \in Occurrence, Open(o)'
        PROVE  (job[o[1]].pc \notin {"idle", "reserve"} /\ Occ(o[1]) = o)'
    <3>1. CASE o = Occ(j)
      <4>1. o[1] = j
        BY <3>1 DEF Occ
      <4>2. job'[j].pc # "idle"
        BY <1>2, <2>3, <3>1, EndClosesRow
      <4>3. QED
        BY <1>2, <2>3, <3>1, <4>1, <4>2, SameSlot DEF Occ
    <3>2. CASE o # Occ(j)
      <4>1. Open(o)
        BY <1>2, <2>3, <3>2, OtherRowStep DEF Open
      <4>2. job[o[1]].pc \notin {"idle", "reserve"} /\ Occ(o[1]) = o
        BY <1>2, <2>3, <4>1 DEF OpenRowsAreOwned
      <4>3. job'[o[1]] = job[o[1]]
        BY <2>1, <2>2, <2>3, <3>2, <4>2, OnlyItsJob
      <4>4. QED
        BY <4>2, <4>3 DEF Occ
    <3>3. QED
      BY <3>1, <3>2
  <2>4. ASSUME NEW j \in Job, JobStep(j)
        PROVE  OpenRowsAreOwned'
    BY <2>3, <2>4, OnlyItsJob DEF OpenRowsAreOwned
  <2>5. ASSUME NEW j \in Job, NEW s \in Slot, Fire(j, s)
        PROVE  OpenRowsAreOwned'
    <3>1. deliveries' = deliveries /\ process' = process /\ process = "up"
      BY <2>5 DEF Fire, repository
    <3>2. ASSUME NEW o \in Occurrence, Open(o)
          PROVE  job[o[1]].pc \notin {"idle", "reserve"} /\ Occ(o[1]) = o
      BY <1>2, <3>1, <3>2 DEF OpenRowsAreOwned
    <3>3. ASSUME NEW o \in Occurrence, Open(o)
          PROVE  job'[o[1]] = job[o[1]]
      BY <2>1, <2>2, <2>5, <3>2, <3>3 DEF Fire, Becomes
    <3>4. QED
      BY <3>1, <3>2, <3>3 DEF OpenRowsAreOwned, Open, Occ
  <2>6. ASSUME NEW j \in Job, CancelArrives(j)
        PROVE  OpenRowsAreOwned'
    BY <2>6 DEF CancelArrives, OpenRowsAreOwned
  <2>7. ASSUME NEW o \in Occurrence, TelegramDecides(o)
        PROVE  OpenRowsAreOwned'
    BY <1>2, <2>7 DEF TelegramDecides, OpenRowsAreOwned, Open, Occ, repository
  <2>8. CASE Boot
    BY <2>1, <2>8 DEF Boot, RecoverNonterminal, Recovered, Row, Status, Terminal,
                      OpenRowsAreOwned, Open
  <2>9. CASE Shutdown \/ Exit \/ Crash
    BY <2>9 DEF Shutdown, Exit, Crash, OpenRowsAreOwned
  <2>10. CASE UNCHANGED vars
    BY <1>2, <2>10 DEF vars, OpenRowsAreOwned, Open, Occ
  <2>11. QED
    BY <1>2, <2>4, <2>5, <2>6, <2>7, <2>8, <2>9, <2>10 DEF Next
<1>3. OpenRowsAreOwned => OpenRowsAreWorkedOn
  BY DEF OpenRowsAreOwned, OpenRowsAreWorkedOn
<1>4. QED
  BY <1>1, <1>2, <1>3, Invariant, PTL DEF Spec
=============================================================================
