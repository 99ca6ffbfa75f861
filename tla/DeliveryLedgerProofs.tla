------------------------ MODULE DeliveryLedgerProofs ------------------------
(***************************************************************************)
(* What an implementation of DeliveryLedger inherits from it: the ledger   *)
(* allows nothing that its own description rules out.                      *)
(***************************************************************************)
EXTENDS DeliveryLedger, TLAPS

LedgerType ==
    /\ verdict \in [Occurrence -> Verdict]
    /\ upload \in [Occurrence -> {"none", "inflight", "posted", "lost"}]
    /\ content \in [Occurrence -> SUBSET Content]

\* An upload that was not made has no content, and one that was made has one.
UploadsHaveContent ==
    \A o \in Occurrence :
        /\ upload[o] = "none" <=> content[o] = {}
        /\ \A c, d \in content[o] : c = d

\* No verdict is a lie: what was not opened or is said not to be sent has no
\* upload, and what is said to be sent is in the thread.  An upload in flight
\* belongs to an occurrence that is open or of which nothing is known.
VerdictsAreHonest ==
    \A o \in Occurrence :
        /\ verdict[o] \in {"none", "notSent"} => upload[o] = "none"
        /\ verdict[o] = "sent" => upload[o] = "posted"

\* No content is uploaded for two occurrences.
ContentsAreApart ==
    \A o, p \in Occurrence : o # p => content[o] \cap content[p] = {}

Ledger ==
    /\ LedgerType
    /\ UploadsHaveContent
    /\ VerdictsAreHonest
    /\ ContentsAreApart

Closed == {"notSent", "sent", "unknown"}

\* What is closed stays closed and is never uploaded afterwards; the only
\* change of mind is from sent to unknown.
ClosedIsFinal ==
    \A o \in Occurrence :
        verdict[o] \in Closed =>
            /\ verdict'[o] = verdict[o] \/ (verdict[o] = "sent" /\ verdict'[o] = "unknown")
            /\ content'[o] = content[o]
            /\ upload[o] # "inflight" => upload'[o] = upload[o]

-----------------------------------------------------------------------------

LEMMA InitKeeps == Init => Ledger
  BY DEF Init, Ledger, LedgerType, UploadsHaveContent, VerdictsAreHonest,
     ContentsAreApart, Verdict

LEMMA OpenKeeps ==
    ASSUME Ledger, NEW o \in Occurrence, Open(o)
    PROVE  Ledger'
  BY DEF Open, Ledger, LedgerType, UploadsHaveContent, VerdictsAreHonest,
     ContentsAreApart, Verdict

\* A content that is nowhere yet keeps the contents apart.
LEMMA SendKeeps ==
    ASSUME Ledger, NEW o \in Occurrence, Send(o)
    PROVE  Ledger'
<1>1. PICK c \in Content :
        /\ \A p \in Occurrence : c \notin content[p]
        /\ content' = [content EXCEPT ![o] = {c}]
  BY DEF Send
<1>2. LedgerType'
  BY <1>1 DEF Send, Ledger, LedgerType
<1>3. UploadsHaveContent'
  BY <1>1 DEF Send, Ledger, LedgerType, UploadsHaveContent
<1>4. VerdictsAreHonest'
  BY DEF Send, Ledger, LedgerType, VerdictsAreHonest
<1>5. ContentsAreApart'
  BY <1>1 DEF Ledger, LedgerType, ContentsAreApart
<1> QED
  BY <1>2, <1>3, <1>4, <1>5 DEF Ledger

LEMMA DecideKeeps ==
    ASSUME Ledger, NEW o \in Occurrence, Decide(o)
    PROVE  Ledger'
  BY DEF Decide, Ledger, LedgerType, UploadsHaveContent, VerdictsAreHonest,
     ContentsAreApart

LEMMA CloseKeeps ==
    ASSUME Ledger, NEW o \in Occurrence, Close(o)
    PROVE  Ledger'
  BY DEF Close, Honest, Ledger, LedgerType, UploadsHaveContent,
     VerdictsAreHonest, ContentsAreApart, Verdict

LEMMA DoubtKeeps ==
    ASSUME Ledger, NEW o \in Occurrence, Doubt(o)
    PROVE  Ledger'
  BY DEF Doubt, Ledger, LedgerType, UploadsHaveContent, VerdictsAreHonest,
     ContentsAreApart, Verdict

LEMMA CloseAllKeeps ==
    ASSUME Ledger, CloseAll
    PROVE  Ledger'
  BY DEF CloseAll, Honest, Ledger, LedgerType, UploadsHaveContent,
     VerdictsAreHonest, ContentsAreApart

LEMMA NextKeeps == Ledger /\ [Next]_ledger => Ledger'
<1> SUFFICES ASSUME Ledger, [Next]_ledger
             PROVE  Ledger'
  OBVIOUS
<1>1. CASE Next
  BY <1>1, OpenKeeps, SendKeeps, DecideKeeps, CloseKeeps, DoubtKeeps,
     CloseAllKeeps DEF Next
<1>2. CASE UNCHANGED ledger
  BY <1>2 DEF ledger, Ledger, LedgerType, UploadsHaveContent,
     VerdictsAreHonest, ContentsAreApart
<1> QED
  BY <1>1, <1>2

\* The ledger itself keeps what BridgeService promises through it: verdicts
\* are honest, one upload has one content, and no two have the same
\* (service.py, run, with the unique constraints of models.py).
THEOREM LedgerIsHonest == Spec => []Ledger
<1> QED
  BY InitKeeps, NextKeeps, PTL DEF Spec

\* What the ledger has closed is neither opened, uploaded nor closed another
\* way again; a restart (recover_nonterminal) is no exception.
THEOREM ClosedForGood == Spec => [][ClosedIsFinal]_ledger
<1>1. ASSUME Ledger, [Next]_ledger
      PROVE  [ClosedIsFinal]_ledger
  <2>1. ASSUME NEW o \in Occurrence, verdict[o] \in Closed,
               NEW p \in Occurrence,
               Open(p) \/ Send(p) \/ Decide(p) \/ Close(p) \/ Doubt(p)
        PROVE  /\ verdict'[o] = verdict[o] \/ (verdict[o] = "sent" /\ verdict'[o] = "unknown")
               /\ content'[o] = content[o]
               /\ upload[o] # "inflight" => upload'[o] = upload[o]
    BY <1>1, <2>1 DEF Ledger, LedgerType, Closed, Open, Send, Decide, Close,
       Doubt
  <2>2. ASSUME NEW o \in Occurrence, verdict[o] \in Closed, CloseAll
        PROVE  verdict'[o] = verdict[o] /\ content'[o] = content[o]
                  /\ upload'[o] = upload[o]
    BY <2>2 DEF Closed, CloseAll
  <2> QED
    BY <1>1, <2>1, <2>2 DEF Next, ClosedIsFinal
<1> QED
  BY <1>1, LedgerIsHonest, PTL DEF Spec
=============================================================================
