----------------------------- MODULE Moderation -----------------------------
(***************************************************************************)
(* ForumModerator.handle, which moves text from the specialist topics to   *)
(* the General topic: forward, then delete.  The messages are those its    *)
(* filter lets through.                                                    *)
(*                                                                         *)
(* Telegram keeps an update until the getUpdates after the one that        *)
(* returned it; aiogram runs a handler for every update it fetched, as a   *)
(* task of its own.  Lifecycle decides while what of the process these     *)
(* steps are taken.                                                        *)
(***************************************************************************)
EXTENDS Naturals, FiniteSets

CONSTANTS
    Message,    \* the messages to move
    MaxFetches  \* bound: how often an update is fetched

ASSUME MaxFetchesAssumption == MaxFetches \in Nat

VARIABLES
    update,     \* Telegram: "waiting", "fetched" or "confirmed"
    fetches,    \* how often the update was fetched
    handler,    \* the request its handler awaits: "none", "forward", "delete"
    copies,     \* Telegram: the copies in the General topic
    deleted     \* Telegram: the messages that are gone from their topic

moderation == <<update, fetches, handler, copies, deleted>>

ModerationTypeOK ==
    /\ update \in [Message -> {"waiting", "fetched", "confirmed"}]
    /\ fetches \in [Message -> 0..MaxFetches]
    /\ handler \in [Message -> {"none", "forward", "delete"}]
    /\ copies \in [Message -> 0..MaxFetches]
    /\ deleted \subseteq Message

ModerationInit ==
    /\ update = [m \in Message |-> "waiting"]
    /\ fetches = [m \in Message |-> 0]
    /\ handler = [m \in Message |-> "none"]
    /\ copies = [m \in Message |-> 0]
    /\ deleted = {}

-----------------------------------------------------------------------------
Fetchable == {m \in Message : update[m] = "waiting" /\ fetches[m] < MaxFetches}

\* One getUpdates: it confirms the updates of the one before, whether or not
\* its own answer, a batch that may be empty, arrives.
Fetches(batch) ==
    /\ batch \subseteq Fetchable
    /\ update' = [m \in Message |->
                    IF m \in batch THEN "fetched"
                    ELSE IF update[m] = "fetched" THEN "confirmed" ELSE update[m]]
    /\ fetches' = [m \in Message |-> IF m \in batch THEN fetches[m] + 1 ELSE fetches[m]]
    /\ handler' = [m \in Message |-> IF m \in batch THEN "forward" ELSE handler[m]]
    /\ UNCHANGED <<copies, deleted>>

\* forward_message returned a valid id.
ForwardConfirmed(m) ==
    /\ handler[m] = "forward"
    /\ m \notin deleted
    /\ copies' = [copies EXCEPT ![m] = @ + 1]
    /\ handler' = [handler EXCEPT ![m] = "delete"]
    /\ UNCHANGED <<update, fetches, deleted>>

\* Mutants: a forward is retried until it is confirmed, and any answer counts
\* as a confirmation.
ForwardRetried(m) ==
    /\ handler[m] = "forward"
    /\ m \notin deleted
    /\ copies' = [copies EXCEPT ![m] = @ + 1]
    /\ UNCHANGED <<update, fetches, handler, deleted>>

ForwardUnchecked(m) ==
    /\ handler[m] = "forward"
    /\ handler' = [handler EXCEPT ![m] = "delete"]
    /\ UNCHANGED <<update, fetches, copies, deleted>>

\* The message was forwarded, but the request raises or returns no valid id.
ForwardUnanswered(m) ==
    /\ handler[m] = "forward"
    /\ m \notin deleted
    /\ copies' = [copies EXCEPT ![m] = @ + 1]
    /\ handler' = [handler EXCEPT ![m] = "none"]
    /\ UNCHANGED <<update, fetches, deleted>>

\* Nothing was forwarded, for one because the message is gone.
ForwardFails(m) ==
    /\ handler[m] = "forward"
    /\ handler' = [handler EXCEPT ![m] = "none"]
    /\ UNCHANGED <<update, fetches, copies, deleted>>

\* delete_message: its error ends the handler like its answer does.
DeleteEnds(m) ==
    /\ handler[m] = "delete"
    /\ handler' = [handler EXCEPT ![m] = "none"]
    /\ deleted' \in {deleted, deleted \union {m}}
    /\ UNCHANGED <<update, fetches, copies>>

HandlerStep(m) ==
    \/ ForwardConfirmed(m)
    \/ ForwardUnanswered(m)
    \/ ForwardFails(m)
    \/ DeleteEnds(m)

\* The handlers end with their process, before or after Telegram did what they
\* asked for, and the updates that were not confirmed are fetched again.
CutOff ==
    /\ handler' = [m \in Message |-> "none"]
    /\ update' = [m \in Message |->
                    IF update[m] = "fetched" THEN "waiting" ELSE update[m]]
    /\ \E done \in SUBSET {m \in Message : handler[m] # "none" /\ m \notin deleted} :
        /\ copies' = [m \in Message |->
                        IF m \in done /\ handler[m] = "forward"
                        THEN copies[m] + 1 ELSE copies[m]]
        /\ deleted' = deleted \union {m \in done : handler[m] = "delete"}
    /\ UNCHANGED fetches

-----------------------------------------------------------------------------
\* A message disappears from its topic only when the General topic has it,
\* whatever Telegram answers, however often it is delivered, and wherever the
\* process ends.
NothingIsLost == \A m \in deleted : copies[m] > 0

\* A message is forwarded at most once for every time Telegram delivered it.
RepeatsAreRedeliveries == \A m \in Message : copies[m] <= fetches[m]

\* What a handler knows of its message.
HandlersKnowMessages ==
    \A m \in Message :
        /\ handler[m] = "forward" => copies[m] < fetches[m]
        /\ handler[m] = "delete" => copies[m] > 0

ModerationInv ==
    /\ ModerationTypeOK
    /\ NothingIsLost
    /\ RepeatsAreRedeliveries
    /\ HandlersKnowMessages
=============================================================================
