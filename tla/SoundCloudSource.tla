-------------------------- MODULE SoundCloudSource --------------------------
(***************************************************************************)
(* SoundCloudMusicSource behind CatalogMusicSource, as the calls of        *)
(* BridgeService.run use it: request_track, one pass over iter_download,   *)
(* and discard.  A task is one such call; a step is the end of an await.   *)
(*                                                                         *)
(* The sections under _prepared_lock hold no await, so the lock is never   *)
(* waited for.  The entry that request_track leaves in _prepared is taken  *)
(* by the stream or by discard before the task suspends again: no state    *)
(* shows it, and only the reservations are left of the two tables.         *)
(***************************************************************************)
EXTENDS FiniteSets

CONSTANTS
    Task,       \* the calls that may run at the same time
    Media,      \* the source ids
    Dir,        \* bound: the names mkdtemp may return
    WritesFail, \* whether writing to the workspace may fail
    NoMedia, NoDir

ASSUME NullAssumption == NoMedia \notin Media /\ NoDir \notin Dir
ASSUME WritesFailAssumption == WritesFail \in BOOLEAN

VARIABLES
    task,       \* what each task awaits, its media and its download directory
    reserved,   \* _reserved_source_ids
    dirs,       \* the directories below download_root
    dropped,    \* suspended generators that nobody iterates any more
    claimed     \* the media of the tracks table

vars == <<task, reserved, dirs, dropped, claimed>>

\* "inspect" and "fetch" await commands; "stream" is the generator between two
\* chunks; the file was read when it is claimed, and is claimed in "publish".
TaskState ==
    [pc: {"idle", "inspect"}, excluded: SUBSET Media,
     media: {NoMedia}, dir: {NoDir}]
    \union
    [pc: {"fetch", "stream"}, excluded: SUBSET Media, media: Media, dir: Dir]
    \union
    [pc: {"claim", "publish"}, excluded: SUBSET Media, media: Media, dir: {NoDir}]

IdleTask == [pc |-> "idle", excluded |-> {}, media |-> NoMedia, dir |-> NoDir]

Generator == [media: Media, dir: Dir]

TypeOK ==
    /\ task \in [Task -> TaskState]
    /\ reserved \subseteq Media
    /\ dirs \subseteq Dir
    /\ dropped \subseteq Generator
    /\ claimed \subseteq Media

Init ==
    /\ task = [t \in Task |-> IdleTask]
    /\ reserved = {}
    /\ dirs = {}
    /\ dropped = {}
    /\ claimed = {}

-----------------------------------------------------------------------------
Becomes(t, state) == task' = [task EXCEPT ![t] = state]

Ends(t) == Becomes(t, IdleTask)

\* Another candidate, of the catalog after a failure and of the service after
\* a conflict.
Tries(t, excluded) ==
    Becomes(t, [IdleTask EXCEPT !.pc = "inspect", !.excluded = excluded])

\* Mutants: a clause that forgets the directory, and one that a cancellation
\* passes by (except Exception).
ReleaseReservation(t) ==
    /\ reserved' = reserved \ {task[t].media}
    /\ UNCHANGED dirs

ReleaseUnlessCancelled(t) ==
    \/ reserved' = reserved \ {task[t].media} /\ dirs' = dirs \ {task[t].dir}
    \/ UNCHANGED <<reserved, dirs>>

\* The except clause of request_track and the finally clause of _stream.
Release(t) ==
    /\ reserved' = reserved \ {task[t].media}
    /\ dirs' = dirs \ {task[t].dir}

Requests(t) ==
    /\ task[t].pc = "idle"
    /\ Tries(t, claimed)
    /\ UNCHANGED <<reserved, dirs, dropped, claimed>>

\* Mutant: a directory that may exist.
ReservesAnyDir(t) ==
    /\ task[t].pc = "inspect"
    /\ \E m \in Media \ (reserved \union task[t].excluded), d \in Dir :
        /\ Becomes(t, [task[t] EXCEPT !.pc = "fetch", !.media = m, !.dir = d])
        /\ reserved' = reserved \union {m}
        /\ dirs' = dirs \union {d}
    /\ UNCHANGED <<dropped, claimed>>

\* The candidate is reserved and gets a directory.
Reserves(t) ==
    /\ task[t].pc = "inspect"
    /\ \E m \in Media \ (reserved \union task[t].excluded), d \in Dir \ dirs :
        /\ Becomes(t, [task[t] EXCEPT !.pc = "fetch", !.media = m, !.dir = d])
        /\ reserved' = reserved \union {m}
        /\ dirs' = dirs \union {d}
    /\ UNCHANGED <<dropped, claimed>>

\* No candidate, a failed command, a cancellation, or media_already_prepared.
InspectFails(t) ==
    /\ task[t].pc = "inspect"
    /\ Ends(t) \/ Tries(t, task[t].excluded)
    /\ UNCHANGED <<reserved, dirs, dropped, claimed>>

\* The file is valid, and the first chunk is written to the workspace.
StreamStarts(t) ==
    /\ task[t].pc = "fetch"
    /\ Becomes(t, [task[t] EXCEPT !.pc = "stream"])
    /\ UNCHANGED <<reserved, dirs, dropped, claimed>>

\* The download, a validation or the probe raises; or the workspace cannot be
\* created and discard releases what was prepared.
FetchFails(t) ==
    /\ task[t].pc = "fetch"
    /\ Release(t)
    /\ Ends(t) \/ Tries(t, task[t].excluded)
    /\ UNCHANGED <<dropped, claimed>>

\* Mutant: the media is forgotten with its stream.
StreamEndsForgetting(t) ==
    /\ task[t].pc = "stream"
    /\ Release(t)
    /\ Becomes(t, [IdleTask EXCEPT !.pc = "claim"])
    /\ UNCHANGED <<dropped, claimed>>

\* The generator ends, or raises to its consumer.
StreamEnds(t) ==
    /\ task[t].pc = "stream"
    /\ Release(t)
    /\ \/ Becomes(t, [task[t] EXCEPT !.pc = "claim", !.dir = NoDir])
       \/ Ends(t)
    /\ UNCHANGED <<dropped, claimed>>

\* Writing a chunk fails: download_bounded leaves the generator suspended, with
\* its directory, and only discard runs.
StreamDropped(t) ==
    /\ WritesFail
    /\ task[t].pc \in {"fetch", "stream"}
    /\ Ends(t)
    /\ dropped' = dropped \union {[media |-> task[t].media, dir |-> task[t].dir]}
    /\ reserved' = reserved \ {task[t].media}
    /\ UNCHANGED <<dirs, claimed>>

\* The garbage collector has the event loop close a dropped generator.
Finalized(g) ==
    /\ g \in dropped
    /\ dropped' = dropped \ {g}
    /\ reserved' = reserved \ {g.media}
    /\ dirs' = dirs \ {g.dir}
    /\ UNCHANGED <<task, claimed>>

\* Mutant: the claim does not look whether the media was claimed before.
ClaimsUnchecked(t) ==
    /\ task[t].pc = "claim"
    /\ claimed' = claimed \union {task[t].media}
    /\ Becomes(t, [task[t] EXCEPT !.pc = "publish"])
    /\ UNCHANGED <<reserved, dirs, dropped>>

\* claim_track_for_publish.
Claims(t) ==
    /\ task[t].pc = "claim"
    /\ task[t].media \notin claimed
    /\ claimed' = claimed \union {task[t].media}
    /\ Becomes(t, [task[t] EXCEPT !.pc = "publish"])
    /\ UNCHANGED <<reserved, dirs, dropped>>

\* Whatever became of the file, run discards its media; after a conflict, it
\* goes on without it.
Discards(t) ==
    /\ \/ task[t].pc = "claim" /\ Tries(t, task[t].excluded \union {task[t].media})
       \/ task[t].pc \in {"claim", "publish"} /\ Ends(t)
    /\ reserved' = reserved \ {task[t].media}
    /\ UNCHANGED <<dirs, dropped, claimed>>

-----------------------------------------------------------------------------
TaskStep(t) ==
    \/ Reserves(t)
    \/ InspectFails(t)
    \/ StreamStarts(t)
    \/ FetchFails(t)
    \/ StreamEnds(t)
    \/ StreamDropped(t)
    \/ Claims(t)
    \/ Discards(t)

Next ==
    \/ \E t \in Task : Requests(t) \/ TaskStep(t)
    \/ \E g \in dropped : Finalized(g)

Spec == Init /\ [][Next]_vars

\* Every await ends, and what nobody refers to is collected.
FairSpec ==
    /\ Spec
    /\ \A t \in Task : WF_vars(TaskStep(t))
    /\ \A g \in Generator : WF_vars(Finalized(g))

-----------------------------------------------------------------------------
Preparing(t) == task[t].pc \in {"fetch", "stream"}

\* A media is reserved only while some task prepares it: no failure and no
\* cancellation leaves it blocked for the tasks that come after.
ReservationsAreHeld ==
    \A m \in reserved : \E t \in Task : Preparing(t) /\ task[t].media = m

\* Every directory has one owner, the task that fills or reads it or the
\* generator that will remove it, and none is removed before its owner ends.
DirectoriesAreOwned ==
    /\ \A d \in dirs :
        \/ \E t \in Task : Preparing(t) /\ task[t].dir = d
        \/ \E g \in dropped : g.dir = d
    /\ \A t \in Task : Preparing(t) =>
        /\ task[t].dir \in dirs
        /\ \A u \in Task : u # t /\ Preparing(u) => task[u].dir # task[t].dir
        /\ \A g \in dropped : g.dir # task[t].dir
    /\ \A g \in dropped : g.dir \in dirs
    /\ \A g, h \in dropped : g.dir = h.dir => g = h

\* Every directory is removed in the end, after success and after failure.
DirectoriesAreRemoved == \A d \in Dir : d \in dirs ~> d \notin dirs

\* Reservations are not exclusive (see OnePreparer), but what they fail to keep
\* apart the claim does: one task at a time publishes a media, whatever the
\* others have prepared, read and discarded meanwhile.
OnePublisher ==
    \A t, u \in Task :
        task[t].pc = "publish" /\ task[u].pc = "publish"
            /\ task[t].media = task[u].media => t = u

\* One task at a time prepares a media.
OnePreparer ==
    \A t, u \in Task :
        Preparing(t) /\ Preparing(u) /\ task[t].media = task[u].media => t = u
=============================================================================
