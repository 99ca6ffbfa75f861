--------------------------- MODULE DeliveryLedger ---------------------------
(***************************************************************************)
(* What the bridge promises about its deliveries, without jobs, processes, *)
(* awaits or crashes.  An occurrence is opened at most once, and while it  *)
(* is open at most one upload is made for it, of content no occurrence     *)
(* uploaded before.  Telegram decides about an upload in flight in its own *)
(* time.  An occurrence is then closed with a verdict that is never a lie: *)
(*   notSent   no upload was made                                          *)
(*   sent      the upload was accepted                                     *)
(*   unknown   the bridge does not commit itself                           *)
(* and from then on the only change of mind is from sent to unknown, the   *)
(* way an error after the success was stored degrades the row.             *)
(***************************************************************************)
CONSTANTS Occurrence, Content

VARIABLES
    verdict,    \* what the bridge says about each occurrence
    upload,     \* what became of its upload
    content     \* the set of contents uploaded for it

ledger == <<verdict, upload, content>>

Verdict == {"none", "open", "notSent", "sent", "unknown"}

Init ==
    /\ verdict = [o \in Occurrence |-> "none"]
    /\ upload = [o \in Occurrence |-> "none"]
    /\ content = [o \in Occurrence |-> {}]

Open(o) ==
    /\ verdict[o] = "none"
    /\ verdict' = [verdict EXCEPT ![o] = "open"]
    /\ UNCHANGED <<upload, content>>

Send(o) ==
    /\ verdict[o] = "open"
    /\ upload[o] = "none"
    /\ \E c \in Content :
        /\ \A p \in Occurrence : c \notin content[p]
        /\ content' = [content EXCEPT ![o] = {c}]
    /\ upload' = [upload EXCEPT ![o] = "inflight"]
    /\ UNCHANGED verdict

Decide(o) ==
    /\ upload[o] = "inflight"
    /\ \E u \in {"posted", "lost"} : upload' = [upload EXCEPT ![o] = u]
    /\ UNCHANGED <<verdict, content>>

Honest(o, v) ==
    CASE v = "notSent" -> upload[o] = "none"
      [] v = "sent" -> upload[o] = "posted"
      [] v = "unknown" -> TRUE

Close(o) ==
    /\ verdict[o] = "open"
    /\ \E v \in {"notSent", "sent", "unknown"} :
        /\ Honest(o, v)
        /\ verdict' = [verdict EXCEPT ![o] = v]
    /\ UNCHANGED <<upload, content>>

Doubt(o) ==
    /\ verdict[o] = "sent"
    /\ verdict' = [verdict EXCEPT ![o] = "unknown"]
    /\ UNCHANGED <<upload, content>>

\* A restart closes everything that was left open, in one step.
CloseAll ==
    /\ verdict' \in [Occurrence -> Verdict]
    /\ \A o \in Occurrence :
        IF verdict[o] = "open"
        THEN verdict'[o] \in {"notSent", "unknown"} /\ Honest(o, verdict'[o])
        ELSE verdict'[o] = verdict[o]
    /\ UNCHANGED <<upload, content>>

Next ==
    \/ \E o \in Occurrence :
        Open(o) \/ Send(o) \/ Decide(o) \/ Close(o) \/ Doubt(o)
    \/ CloseAll

Spec == Init /\ [][Next]_ledger
=============================================================================
