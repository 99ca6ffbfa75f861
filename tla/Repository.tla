----------------------------- MODULE Repository -----------------------------
(***************************************************************************)
(* The SQLite store of the bridge: the tables of models.py and the         *)
(* transactions of repositories.py.  An operator here is one COMMITTED     *)
(* transaction; whether a call commits, or commits and then raises to its  *)
(* caller, is decided by the module that calls it (BridgeService).         *)
(*                                                                         *)
(* A delivery row is identified by its occurrence: the pair                *)
(* (topic_name, scheduled_for) that uq_delivery_occurrence makes unique.   *)
(* Titles, sizes and file names of a track, and the error_detail of a row, *)
(* are left out: no decision reads them.                                   *)
(***************************************************************************)
EXTENDS Naturals, FiniteSets

CONSTANTS
    Job,        \* the scheduler jobs: one per topic, or the single rotation job
    Slot,       \* the scheduled instants
    Media,      \* the pairs (source_chat_id, source_message_id)
    Hash,       \* the SHA-256 values of converted files
    NoTrack     \* the NULL of track_id

Track == [media: Media, sha: Hash]

ASSUME NoTrackAssumption == NoTrack \notin Track

VARIABLES
    deliveries, \* the deliveries table: a row for every occurrence
    tracks      \* the tracks table: the claimed tracks

repository == <<deliveries, tracks>>

Occurrence == Job \X Slot

Terminal == {"succeeded", "skipped_duplicate", "permanently_failed",
             "ambiguous", "interrupted"}

Status == {"queued", "publishing"} \union Terminal

\* destination_message_id is NULL or the id of the occurrence's post.
Message == {"null", "id"}

\* "absent" stands for an occurrence that has no row.
Row == [status: Status \union {"absent"},
        track: Track \union {NoTrack},
        message: Message]

NoRow == [status |-> "absent", track |-> NoTrack, message |-> "null"]

RepositoryTypeOK ==
    /\ deliveries \in [Occurrence -> Row]
    /\ tracks \subseteq Track

RepositoryInit ==
    /\ deliveries = [o \in Occurrence |-> NoRow]
    /\ tracks = {}

-----------------------------------------------------------------------------
\* Mutant: a uniqueness check that only sees open rows.
ReservedWhileOpen(o) == deliveries[o].status \in {"queued", "publishing"}

\* reserve_delivery: the unique constraint lets one caller insert the row.
Reserved(o) == deliveries[o].status # "absent"

InsertDelivery(o) ==
    /\ ~ Reserved(o)
    /\ deliveries' = [deliveries EXCEPT ![o].status = "queued"]
    /\ UNCHANGED tracks

\* get_used_source_message_ids.
UsedMedia == {t.media : t \in tracks}

\* The two unique constraints of the tracks table, either of which makes
\* claim_track_for_publish roll back and return None.
Clash(t, u) == t.media = u.media \/ t.sha = u.sha

\* Mutant: tracks without the unique content hash.
ClaimableByMedia(t) == \A u \in tracks : t.media # u.media

Claimable(t) == \A u \in tracks : ~ Clash(t, u)

\* Mutant: the claim forgets track_id.
ClaimTrackWithoutLink(o, t) ==
    /\ Claimable(t)
    /\ tracks' = tracks \union {t}
    /\ deliveries' = [deliveries EXCEPT ![o].status = "publishing"]

\* claim_track_for_publish: the track and the status move together.
ClaimTrack(o, t) ==
    /\ Claimable(t)
    /\ tracks' = tracks \union {t}
    /\ deliveries' = [deliveries EXCEPT ![o].track = t,
                                        ![o].status = "publishing"]

MarkSuccess(o, t) ==
    /\ deliveries' = [deliveries EXCEPT ![o].status = "succeeded",
                                        ![o].track = t,
                                        ![o].message = "id"]
    /\ UNCHANGED tracks

MarkDuplicate(o) ==
    /\ deliveries' = [deliveries EXCEPT ![o].status = "skipped_duplicate"]
    /\ UNCHANGED tracks

MarkFailed(o) ==
    /\ deliveries' = [deliveries EXCEPT ![o].status = "permanently_failed"]
    /\ UNCHANGED tracks

\* mark_ambiguous overwrites destination_message_id, with NULL too.
MarkAmbiguous(o, message) ==
    /\ deliveries' = [deliveries EXCEPT ![o].status = "ambiguous",
                                        ![o].message = message]
    /\ UNCHANGED tracks

\* Mutants: recovery that trusts no upload was made, and recovery that leaves
\* the rows queued that never reached their claim.
RecoveredAsUnsent(status) ==
    IF status \in {"queued", "publishing"} THEN "interrupted" ELSE status

RecoveredIfPublishing(status) ==
    IF status = "publishing" THEN "ambiguous" ELSE status

\* recover_nonterminal: both updates commit together.
Recovered(status) ==
    CASE status = "queued" -> "interrupted"
      [] status = "publishing" -> "ambiguous"
      [] OTHER -> status

RecoverNonterminal ==
    /\ deliveries' = [o \in Occurrence |->
            [deliveries[o] EXCEPT !.status = Recovered(@)]]
    /\ UNCHANGED tracks
=============================================================================
