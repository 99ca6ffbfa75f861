---------------------------- MODULE CatalogProofs ----------------------------
(* What is proved of Catalog, for every set of jobs, queries and URLs. *)
EXTENDS Catalog, TLAPS

\* A selection is a sequence of at most as many elements as it has places.
LEMMA SelectionType ==
    ASSUME NEW S, NEW T, S \subseteq T, NEW places \in Nat,
           NEW s \in Selection(S, places)
    PROVE  s \in Seq(T) /\ Len(s) <= places
<1>1. PICK n \in 0..places : s \in [1..n -> S]
  BY DEF Selection, Injection
<1>2. s \in Seq(T) /\ Len(s) = n
  BY <1>1
<1> QED BY <1>1, <1>2

\* What a request has left after its first candidate is a shorter list.
LEMMA TailType ==
    ASSUME NEW s, s \in {r \in Seq(Candidate) : Len(r) <= Limit}, s # <<>>
    PROVE  /\ Head(s) \in Candidate
           /\ Tail(s) \in {r \in Seq(Candidate) : Len(r) <= Limit}
<1>1. s \in Seq(Candidate) /\ Len(s) \in Nat /\ Len(s) <= Limit
  OBVIOUS
<1>2. Head(s) \in Candidate /\ Tail(s) \in Seq(Candidate)
  BY <1>1
<1>3. Len(Tail(s)) = Len(s) - 1
  BY <1>1
<1> QED BY <1>1, <1>2, <1>3, LimitAssumption

\* Every write of the manager is a catalog.
LEMMA RefreshType ==
    ASSUME TypeOK, RefreshOrLoad
    PROVE  file' \in File
<1>1. CASE file # NoFile /\ UNCHANGED file
  BY <1>1 DEF TypeOK
<1>2. ASSUME NEW collected \in SUBSET {c \in Candidate : c.query \in Queries},
             Save(Merged(collected))
      PROVE  file' \in File
  <2>1. Candidates \subseteq Candidate /\ Rejected \subseteq Url
    BY DEF TypeOK, File, Candidates, Rejected
  <2>2. Merged(collected) \subseteq Candidate
    BY <2>1 DEF Merged
  <2> QED BY <1>2, <2>1, <2>2 DEF Save, File
<1> QED BY <1>1, <1>2 DEF RefreshOrLoad

\* Every request step leaves a list of the right type.
LEMMA TriesType ==
    ASSUME TypeOK, NEW t \in Task,
           NEW s \in {r \in Seq(Candidate) : Len(r) <= Limit}, Tries(t, s)
    PROVE  trying' \in [Task -> {r \in Seq(Candidate) : Len(r) <= Limit}]
<1> DEFINE Lists == {r \in Seq(Candidate) : Len(r) <= Limit}
<1>1. trying \in [Task -> Lists] /\ s \in Lists
  BY DEF TypeOK
<1>2. trying' = [trying EXCEPT ![t] = s]
  BY DEF Tries
<1> HIDE DEF Lists
<1>3. trying' \in [Task -> Lists]
  BY <1>1, <1>2
<1> QED BY <1>3 DEF Lists

\* A request changes the file only to reject, which keeps its candidates.
LEMMA RequestStepKeeps ==
    ASSUME TypeOK, NEW t \in Task, RequestStep(t)
    PROVE  /\ file' \in File \union {NoFile}
           /\ UNCHANGED <<mode, once>>
           /\ used' \subseteq Url
           /\ trying' \in [Task -> {r \in Seq(Candidate) : Len(r) <= Limit}]
           /\ Candidates' = Candidates
           /\ Rejected \subseteq Rejected'
           /\ file # NoFile => file' # NoFile
<1> DEFINE Lists == {r \in Seq(Candidate) : Len(r) <= Limit}
<1>1. trying[t] # <<>> /\ trying[t] \in Lists
  BY DEF TypeOK, RequestStep, Succeeds, Rejects, Skips, Fails, Trying
<1>2. Head(trying[t]) \in Candidate /\ Tail(trying[t]) \in Lists
  BY <1>1, TailType
<1>3. Head(trying[t]).url \in Url
  BY <1>2 DEF Candidate
<1>4. <<>> \in Lists
  BY LimitAssumption
<1>5. trying' \in [Task -> Lists]
  <2>1. Tries(t, <<>>) \/ Tries(t, Tail(trying[t]))
    BY DEF RequestStep, Succeeds, Rejects, Skips, Fails
  <2> QED BY <2>1, <1>2, <1>4, TriesType
<1>6. CASE Rejects(t)
  <2> DEFINE url == Head(trying[t]).url
  <2>1. file # NoFile /\ file \in File
    BY <1>6 DEF Rejects, Reject, TypeOK
  <2>2. file' = [file EXCEPT !.rejected = @ \union {url}]
    BY <1>6 DEF Rejects, Reject
  <2>3. file' = [candidates |-> file.candidates, rejected |-> file.rejected \union {url}]
    BY <2>1, <2>2 DEF File
  <2>4. file' \in File
    BY <2>1, <2>3, <1>3 DEF File
  <2>5. file' # NoFile
    BY <2>4, NoFileAssumption
  <2>6. Candidates' = Candidates /\ Rejected \subseteq Rejected'
    BY <2>1, <2>3, <2>5 DEF Candidates, Rejected
  <2> QED BY <1>5, <1>6, <2>4, <2>5, <2>6 DEF Rejects, TypeOK
<1>7. CASE Succeeds(t) \/ Skips(t) \/ Fails(t)
  <2>1. UNCHANGED <<file, mode, once>>
    BY <1>7 DEF Succeeds, Skips, Fails
  <2>2. used' \subseteq Url
    BY <1>7, <1>3 DEF Succeeds, Skips, Fails, TypeOK
  <2> QED BY <1>5, <2>1, <2>2 DEF TypeOK, Candidates, Rejected
<1> QED BY <1>6, <1>7 DEF RequestStep

\* A request begins with a list of at most Limit candidates.
LEMMA RequestKeeps ==
    ASSUME TypeOK, NEW t \in Task, Requests(t)
    PROVE  /\ trying' \in [Task -> {r \in Seq(Candidate) : Len(r) <= Limit}]
           /\ UNCHANGED <<file, mode, once, used>>
<1>0. PICK conflicts \in SUBSET Url :
        \E ranking \in Ranked(Selectable(Pool[t], used \union conflicts)) :
            Tries(t, ranking)
  BY DEF Requests
<1>1. PICK ranking \in Ranked(Selectable(Pool[t], used \union conflicts)) :
        Tries(t, ranking)
  BY <1>0
<1>2. Selectable(Pool[t], used \union conflicts) \subseteq Candidate
  BY DEF Selectable, Candidates, TypeOK, File
<1>3. ranking \in Seq(Candidate) /\ Len(ranking) <= Limit
  BY <1>1, <1>2, SelectionType, LimitAssumption DEF Ranked
<1> QED BY <1>1, <1>3, TriesType DEF Requests

\* A refresh leaves candidates for every query that had some, forgets no
\* rejection and never takes the file away.
LEMMA RefreshKeeps ==
    ASSUME TypeOK, RefreshOrLoad, UNCHANGED once
    PROVE  /\ \A q \in Queries : Cached(q) # {} => Cached(q)' # {}
           /\ Rejected \subseteq Rejected'
           /\ file' # NoFile
<1>1. file' # NoFile
  BY RefreshType, NoFileAssumption
<1>2. CASE file # NoFile /\ UNCHANGED file
  BY <1>2 DEF Cached, Candidates, Rejected
<1>3. ASSUME NEW collected \in SUBSET {c \in Candidate : c.query \in Queries},
             Save(Merged(collected))
      PROVE  /\ \A q \in Queries : Cached(q) # {} => Cached(q)' # {}
             /\ Rejected \subseteq Rejected'
  <2>1. Candidates' = Merged(collected) /\ Rejected' = Rejected
    BY <1>1, <1>3 DEF Save, Candidates, Rejected
  <2>2. ASSUME NEW q \in Queries, NEW c \in Cached(q)
        PROVE  \E d \in Merged(collected) : d.query = q
    <3>1. CASE \E d \in collected : d.query = q
      BY <3>1 DEF Merged
    <3>2. CASE \A d \in collected : d.query # q
      <4>1. c \in Candidates /\ c.query = q
        BY <2>2 DEF Cached
      <4> QED BY <4>1, <3>2 DEF Merged
    <3> QED BY <3>1, <3>2
  <2> QED BY <2>1, <2>2 DEF Cached
<1> QED BY <1>1, <1>2, <1>3 DEF RefreshOrLoad

\* TypeOK and QueriesStayCached are inductive together.
IInv == TypeOK /\ QueriesStayCached

\* The initial states have no process and no file.
LEMMA InitIInv == Init => IInv
<1> SUFFICES ASSUME Init PROVE IInv
  OBVIOUS
<1>1. <<>> \in {r \in Seq(Candidate) : Len(r) <= Limit}
  BY LimitAssumption
<1>2. TypeOK
  BY <1>1 DEF Init, TypeOK
<1>3. QueriesStayCached
  BY DEF Init, QueriesStayCached
<1> QED BY <1>2, <1>3 DEF IInv

\* Every step keeps the types and the queries, and forgets no rejection.
LEMMA StepIInv ==
    ASSUME IInv, [Next]_vars
    PROVE  /\ IInv'
           /\ file # NoFile => file' # NoFile /\ Rejected \subseteq Rejected'
<1> USE DEF IInv
<1>1. CASE Starts
  BY <1>1 DEF Starts, TypeOK, QueriesStayCached, Rejected
<1>2. CASE StartRefreshes
  <2>1. UNCHANGED <<once, trying, used>> /\ mode' = "checking" /\ RefreshOrLoad
    BY <1>2 DEF StartRefreshes
  <2>2. file' \in File /\ Rejected \subseteq Rejected' /\ file' # NoFile
    BY <2>1, RefreshType, RefreshKeeps
  <2> QED BY <2>1, <2>2 DEF TypeOK, QueriesStayCached
<1>3. CASE StartChecks
  <2>1. UNCHANGED <<file, once, trying, used>> /\ mode' \in {"up", "down"}
    BY <1>3 DEF StartChecks
  <2>2. ASSUME mode' = "up", NEW q \in Queries PROVE Cached(q) # {}
    <3>1. PICK c : c \in Selectable({q}, used)
      BY <1>3, <2>2 DEF StartChecks, HasCapacity
    <3> QED BY <3>1 DEF Selectable, Cached
  <2> QED BY <2>1, <2>2 DEF TypeOK, QueriesStayCached, Queries, Cached, Candidates, Rejected
<1>4. CASE Refreshes
  <2>1. UNCHANGED <<mode, once, trying, used>> /\ mode = "up" /\ RefreshOrLoad
    BY <1>4 DEF Refreshes
  <2>2. /\ file' \in File /\ Rejected \subseteq Rejected' /\ file' # NoFile
        /\ \A q \in Queries : Cached(q) # {} => Cached(q)' # {}
    BY <2>1, RefreshType, RefreshKeeps
  <2>3. Queries' = Queries
    BY <2>1 DEF Queries
  <2>4. \A q \in Queries : Cached(q)' # {}
    BY <2>1, <2>2 DEF QueriesStayCached
  <2> QED BY <2>1, <2>2, <2>3, <2>4 DEF TypeOK, QueriesStayCached
<1>5. CASE Stops
  <2>1. <<>> \in {r \in Seq(Candidate) : Len(r) <= Limit}
    BY LimitAssumption
  <2> QED BY <1>5, <2>1 DEF Stops, TypeOK, QueriesStayCached, Rejected
<1>6. ASSUME NEW t \in Task, Requests(t)
      PROVE  /\ IInv'
             /\ file # NoFile => file' # NoFile /\ Rejected \subseteq Rejected'
  BY <1>6, RequestKeeps DEF TypeOK, QueriesStayCached, Queries, Cached, Candidates, Rejected
<1>7. ASSUME NEW t \in Task, RequestStep(t)
      PROVE  /\ IInv'
             /\ file # NoFile => file' # NoFile /\ Rejected \subseteq Rejected'
  BY <1>7, RequestStepKeeps DEF TypeOK, QueriesStayCached, Queries, Cached
<1>8. CASE UNCHANGED vars
  BY <1>8 DEF vars, TypeOK, QueriesStayCached, Queries, Cached, Candidates, Rejected
<1> QED BY <1>1, <1>2, <1>3, <1>4, <1>5, <1>6, <1>7, <1>8 DEF Next

\* Both hold in every reachable state.
THEOREM Invariant == Spec => []IInv
<1>1. IInv /\ [Next]_vars => IInv'
  BY StepIInv
<1> QED BY InitIInv, <1>1, PTL DEF Spec

\* While the process serves, every query has candidates in the file, whatever
\* the refreshes found and whatever failed.
THEOREM QueriesCached == Spec => []QueriesStayCached
<1>1. IInv => QueriesStayCached
  BY DEF IInv
<1> QED BY Invariant, <1>1, PTL

\* No request has more than Limit candidates left to try.
THEOREM TypeCorrect == Spec => []TypeOK
<1>1. IInv => TypeOK
  BY DEF IInv
<1> QED BY Invariant, <1>1, PTL

\* No step takes the catalog or one of its rejections away.
THEOREM RejectionsKept == Spec => RejectionsSurvive
<1>1. IInv /\ [Next]_vars =>
        [file # NoFile => file' # NoFile /\ Rejected \subseteq Rejected']_vars
  BY StepIInv
<1> QED BY Invariant, <1>1, PTL DEF Spec, RejectionsSurvive
=============================================================================
