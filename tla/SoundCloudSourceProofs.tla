----------------------- MODULE SoundCloudSourceProofs -----------------------
(* What SoundCloudSource keeps, for any number of tasks, media and names.  *)
EXTENDS SoundCloudSource, TLAPS

\* The next locals of a task, and nothing of any other task.
LEMMA OneTask ==
    ASSUME TypeOK, NEW t \in Task, NEW state \in TaskState, Becomes(t, state)
    PROVE  /\ task' \in [Task -> TaskState]
           /\ task'[t] = state
           /\ \A u \in Task \ {t} : task'[u] = task[u]
BY DEF TypeOK, Becomes

\* A task that prepares a media has the media and a directory.
LEMMA PreparingHas ==
    ASSUME TypeOK, NEW t \in Task, Preparing(t)
    PROVE  task[t].media \in Media /\ task[t].dir \in Dir
BY DEF TypeOK, TaskState, Preparing

\* The locals that an action gives a task have their type.
LEMMA LocalsType ==
    ASSUME TypeOK
    PROVE  /\ IdleTask \in TaskState
           /\ \A excluded \in SUBSET Media :
                [IdleTask EXCEPT !.pc = "inspect", !.excluded = excluded] \in TaskState
           /\ \A t \in Task :
                /\ task[t].excluded \in SUBSET Media
                /\ task[t].pc \in {"fetch", "stream"} =>
                    /\ [task[t] EXCEPT !.pc = "stream"] \in TaskState
                    /\ [task[t] EXCEPT !.pc = "claim", !.dir = NoDir] \in TaskState
                /\ task[t].pc = "claim" =>
                    [task[t] EXCEPT !.pc = "publish"] \in TaskState
                /\ task[t].pc = "inspect" => \A m \in Media, d \in Dir :
                    [task[t] EXCEPT !.pc = "fetch", !.media = m, !.dir = d] \in TaskState
<1>1. \A t \in Task : task[t] \in TaskState
  BY DEF TypeOK
<1>2. IdleTask \in TaskState
  BY DEF IdleTask, TaskState
<1>3. \A excluded \in SUBSET Media :
        [IdleTask EXCEPT !.pc = "inspect", !.excluded = excluded] \in TaskState
  BY DEF IdleTask, TaskState
<1>4. ASSUME NEW t \in Task
      PROVE  /\ task[t].excluded \in SUBSET Media
             /\ task[t].pc \in {"fetch", "stream"} =>
                 /\ [task[t] EXCEPT !.pc = "stream"] \in TaskState
                 /\ [task[t] EXCEPT !.pc = "claim", !.dir = NoDir] \in TaskState
             /\ task[t].pc = "claim" =>
                 [task[t] EXCEPT !.pc = "publish"] \in TaskState
             /\ task[t].pc = "inspect" => \A m \in Media, d \in Dir :
                 [task[t] EXCEPT !.pc = "fetch", !.media = m, !.dir = d] \in TaskState
  BY <1>1 DEF TaskState
<1>5. QED
  BY <1>2, <1>3, <1>4

IInv == TypeOK /\ ReservationsAreHeld /\ DirectoriesAreOwned

\* What a step does to the task that takes it, which then has the locals state:
\* it has no file, reserves one, goes on with it, releases it or drops it.
HasNoFile(t, state) ==
    /\ ~ Preparing(t)
    /\ state.pc \notin {"fetch", "stream"}
    /\ reserved' \subseteq reserved
    /\ UNCHANGED <<dirs, dropped>>
    /\ claimed' \subseteq Media

TakesFile(t, state) ==
    /\ ~ Preparing(t)
    /\ state.pc = "fetch"
    /\ state.media \in Media
    /\ state.dir \in Dir \ dirs
    /\ reserved' = reserved \union {state.media}
    /\ dirs' = dirs \union {state.dir}
    /\ UNCHANGED <<dropped, claimed>>

KeepsFile(t, state) ==
    /\ Preparing(t)
    /\ state.pc \in {"fetch", "stream"}
    /\ state.media = task[t].media
    /\ state.dir = task[t].dir
    /\ UNCHANGED <<reserved, dirs, dropped, claimed>>

FreesFile(t, state) ==
    /\ Preparing(t)
    /\ state.pc \notin {"fetch", "stream"}
    /\ reserved' = reserved \ {task[t].media}
    /\ dirs' = dirs \ {task[t].dir}
    /\ UNCHANGED <<dropped, claimed>>

DropsFile(t, state) ==
    /\ Preparing(t)
    /\ state.pc \notin {"fetch", "stream"}
    /\ reserved' = reserved \ {task[t].media}
    /\ dropped' = dropped \union {[media |-> task[t].media, dir |-> task[t].dir]}
    /\ UNCHANGED <<dirs, claimed>>

Handles(t, state) ==
    \/ HasNoFile(t, state)
    \/ TakesFile(t, state)
    \/ KeepsFile(t, state)
    \/ FreesFile(t, state)
    \/ DropsFile(t, state)

\* Every step of a task is of one of these kinds.
LEMMA StepKinds ==
    ASSUME TypeOK, NEW t \in Task, Requests(t) \/ TaskStep(t)
    PROVE  \E state \in TaskState : Becomes(t, state) /\ Handles(t, state)
<1> USE DEF Preparing, Handles, HasNoFile, TakesFile, KeepsFile, FreesFile, DropsFile
<1>1. task[t] \in TaskState /\ claimed \subseteq Media
  BY DEF TypeOK
<1>2. IdleTask \in TaskState /\ IdleTask.pc = "idle"
  BY LocalsType DEF IdleTask
<1>3. ASSUME NEW excluded \in SUBSET Media
      PROVE  LET state == [IdleTask EXCEPT !.pc = "inspect", !.excluded = excluded]
             IN  state \in TaskState /\ state.pc = "inspect"
  BY LocalsType DEF IdleTask
<1>4. task[t].excluded \in SUBSET Media
  BY LocalsType
<1>5. CASE Requests(t)
  BY <1>1, <1>3, <1>5 DEF Requests, Tries
<1>6. CASE Reserves(t)
  <2>1. PICK m \in Media \ (reserved \union task[t].excluded), d \in Dir \ dirs :
          /\ Becomes(t, [task[t] EXCEPT !.pc = "fetch", !.media = m, !.dir = d])
          /\ reserved' = reserved \union {m}
          /\ dirs' = dirs \union {d}
    BY <1>6 DEF Reserves
  <2> DEFINE state == [task[t] EXCEPT !.pc = "fetch", !.media = m, !.dir = d]
  <2>2. state \in TaskState
    BY <1>6, LocalsType DEF Reserves
  <2>3. state.pc = "fetch" /\ state.media = m /\ state.dir = d
    BY <1>1 DEF TaskState
  <2>4. ~ Preparing(t) /\ UNCHANGED <<dropped, claimed>>
    BY <1>6 DEF Reserves
  <2>5. QED
    BY <2>1, <2>2, <2>3, <2>4
<1>7. CASE InspectFails(t)
  BY <1>1, <1>2, <1>3, <1>4, <1>7 DEF InspectFails, Ends, Tries
<1>8. CASE StreamStarts(t)
  <2> DEFINE state == [task[t] EXCEPT !.pc = "stream"]
  <2>1. state \in TaskState
    BY <1>8, LocalsType DEF StreamStarts
  <2>2. state.pc = "stream" /\ state.media = task[t].media /\ state.dir = task[t].dir
    BY <1>1 DEF TaskState
  <2>3. QED
    BY <1>8, <2>1, <2>2 DEF StreamStarts
<1>9. CASE FetchFails(t)
  BY <1>2, <1>3, <1>4, <1>9 DEF FetchFails, Release, Ends, Tries
<1>10. CASE StreamEnds(t)
  <2> DEFINE state == [task[t] EXCEPT !.pc = "claim", !.dir = NoDir]
  <2>1. state \in TaskState
    BY <1>10, LocalsType DEF StreamEnds
  <2>2. state.pc = "claim"
    BY <1>1 DEF TaskState
  <2>3. QED
    BY <1>2, <1>10, <2>1, <2>2 DEF StreamEnds, Release, Ends
<1>11. CASE StreamDropped(t)
  BY <1>2, <1>11 DEF StreamDropped, Ends
<1>12. CASE Claims(t)
  <2> DEFINE state == [task[t] EXCEPT !.pc = "publish"]
  <2>1. state \in TaskState
    BY <1>12, LocalsType DEF Claims
  <2>2. state.pc = "publish"
    BY <1>1 DEF TaskState
  <2>3. claimed' \subseteq Media
    BY <1>1, <1>12 DEF Claims, TaskState
  <2>4. QED
    BY <1>12, <2>1, <2>2, <2>3 DEF Claims
<1>13. CASE Discards(t)
  <2>1. task[t].pc = "claim" => task[t].excluded \union {task[t].media} \in SUBSET Media
    BY <1>1 DEF TaskState
  <2>2. QED
    BY <1>1, <1>2, <1>3, <1>13, <2>1 DEF Discards, Ends, Tries
<1>14. QED
  BY <1>5, <1>6, <1>7, <1>8, <1>9, <1>10, <1>11, <1>12, <1>13 DEF TaskStep

\* Each kind of step keeps the types, the reservations and the directories.
LEMMA TaskKeeps ==
    ASSUME IInv, NEW t \in Task, Requests(t) \/ TaskStep(t)
    PROVE  IInv'
<1> USE DEF Preparing
<1>1. TypeOK /\ ReservationsAreHeld /\ DirectoriesAreOwned
  BY DEF IInv
<1>2. PICK state \in TaskState : Becomes(t, state) /\ Handles(t, state)
  BY <1>1, StepKinds
<1>3. /\ task' \in [Task -> TaskState]
      /\ task'[t] = state
      /\ \A u \in Task \ {t} : task'[u] = task[u]
  BY <1>1, <1>2, OneTask
<1>4. \A u \in Task \ {t} : Preparing(u)' <=> Preparing(u)
  BY <1>3
<1>5. \A u \in Task : Preparing(u) => task[u].media \in Media /\ task[u].dir \in Dir
  BY <1>1, PreparingHas
<1>6. CASE HasNoFile(t, state)
  BY <1>1, <1>3, <1>6 DEF HasNoFile, IInv, TypeOK, ReservationsAreHeld, DirectoriesAreOwned
<1>7. CASE TakesFile(t, state)
  BY <1>1, <1>3, <1>7 DEF TakesFile, IInv, TypeOK, ReservationsAreHeld, DirectoriesAreOwned
<1>8. CASE KeepsFile(t, state)
  BY <1>1, <1>3, <1>8 DEF KeepsFile, IInv, TypeOK, ReservationsAreHeld, DirectoriesAreOwned
<1>9. CASE FreesFile(t, state)
  BY <1>1, <1>3, <1>9 DEF FreesFile, IInv, TypeOK, ReservationsAreHeld, DirectoriesAreOwned
<1>10. CASE DropsFile(t, state)
  <2> DEFINE g == [media |-> task[t].media, dir |-> task[t].dir]
  <2>1. /\ g \in Generator
        /\ g.dir = task[t].dir
        /\ dropped' = dropped \union {g}
        /\ dirs' = dirs
    BY <1>5, <1>10 DEF DropsFile, Generator
  <2>2. TypeOK'
    BY <1>1, <1>3, <1>10, <2>1 DEF DropsFile, TypeOK
  <2>3. ReservationsAreHeld'
    BY <1>1, <1>3, <1>10 DEF DropsFile, ReservationsAreHeld
  <2>4. ~ Preparing(t)' /\ Preparing(t)
    BY <1>3, <1>10 DEF DropsFile
  <2> HIDE DEF g
  <2>5. DirectoriesAreOwned'
    BY <1>1, <1>3, <2>1, <2>4 DEF DirectoriesAreOwned
  <2>6. QED
    BY <2>2, <2>3, <2>5 DEF IInv
<1>11. QED
  BY <1>2, <1>6, <1>7, <1>8, <1>9, <1>10 DEF Handles

\* A generator that is closed takes its own directory with it, and perhaps the
\* reservation of another task.
LEMMA FinalizedKeeps ==
    ASSUME IInv, NEW g \in dropped, Finalized(g)
    PROVE  IInv'
BY DEF Finalized, IInv, TypeOK, ReservationsAreHeld, DirectoriesAreOwned, Preparing

\* The invariant is inductive.
THEOREM Invariant == Spec => []IInv
<1>1. Init => IInv
  <2>1. IdleTask \in TaskState /\ IdleTask.pc = "idle"
    BY DEF IdleTask, TaskState
  <2>2. QED
    BY <2>1 DEF Init, IInv, TypeOK, ReservationsAreHeld, DirectoriesAreOwned, Preparing
<1>2. IInv /\ [Next]_vars => IInv'
  <2> SUFFICES ASSUME IInv, [Next]_vars PROVE IInv'
    OBVIOUS
  <2>1. ASSUME NEW t \in Task, Requests(t) \/ TaskStep(t) PROVE IInv'
    BY <2>1, TaskKeeps
  <2>2. ASSUME NEW g \in dropped, Finalized(g) PROVE IInv'
    BY <2>2, FinalizedKeeps
  <2>3. CASE UNCHANGED vars
    BY <2>3 DEF vars, IInv, TypeOK, ReservationsAreHeld, DirectoriesAreOwned, Preparing
  <2>4. QED
    BY <2>1, <2>2, <2>3 DEF Next
<1>3. QED
  BY <1>1, <1>2, PTL DEF Spec

\* The types of the source, for every value of the constants.
THEOREM TypeCorrect == Spec => []TypeOK
<1>1. IInv => TypeOK
  BY DEF IInv
<1>2. QED
  BY <1>1, Invariant, PTL

\* No reservation outlives the preparation it stands for.
THEOREM ReservationsHeld == Spec => []ReservationsAreHeld
<1>1. IInv => ReservationsAreHeld
  BY DEF IInv
<1>2. QED
  BY <1>1, Invariant, PTL

\* Every directory has one owner, and none is removed before its owner ends.
THEOREM DirectoriesOwned == Spec => []DirectoriesAreOwned
<1>1. IInv => DirectoriesAreOwned
  BY DEF IInv
<1>2. QED
  BY <1>1, Invariant, PTL

-----------------------------------------------------------------------------
(* The claim. *)

\* What is published was claimed before.
PublishersClaimed == \A t \in Task : task[t].pc = "publish" => task[t].media \in claimed

\* No other step than a claim brings a task to its publish, or claims a media.
LEMMA OnlyClaimsPublish ==
    ASSUME TypeOK, NEW t \in Task, Requests(t) \/ TaskStep(t), ~ Claims(t)
    PROVE  /\ claimed' = claimed
           /\ task'[t].pc # "publish"
           /\ \A u \in Task \ {t} : task'[u] = task[u]
<1>1. task \in [Task -> TaskState] /\ task[t] \in TaskState
  BY DEF TypeOK
<1>2. ASSUME NEW state, Becomes(t, state)
      PROVE  task'[t] = state /\ \A u \in Task \ {t} : task'[u] = task[u]
  BY <1>1, <1>2 DEF Becomes
<1>3. IdleTask.pc = "idle"
      /\ \A excluded : [IdleTask EXCEPT !.pc = "inspect", !.excluded = excluded].pc = "inspect"
  BY DEF IdleTask
<1>4. CASE Requests(t) \/ InspectFails(t) \/ FetchFails(t) \/ StreamDropped(t) \/ Discards(t)
  BY <1>2, <1>3, <1>4
  DEF Requests, InspectFails, FetchFails, StreamDropped, Discards, Ends, Tries
<1>5. CASE Reserves(t)
  <2>1. PICK m \in Media, d \in Dir :
          Becomes(t, [task[t] EXCEPT !.pc = "fetch", !.media = m, !.dir = d])
    BY <1>5 DEF Reserves
  <2>2. [task[t] EXCEPT !.pc = "fetch", !.media = m, !.dir = d].pc = "fetch"
    BY <1>1 DEF TaskState
  <2>3. QED
    BY <1>2, <1>5, <2>1, <2>2 DEF Reserves
<1>6. CASE StreamStarts(t) \/ StreamEnds(t)
  <2>1. /\ [task[t] EXCEPT !.pc = "stream"].pc = "stream"
        /\ [task[t] EXCEPT !.pc = "claim", !.dir = NoDir].pc = "claim"
    BY <1>1 DEF TaskState
  <2>2. QED
    BY <1>2, <1>3, <1>6, <2>1 DEF StreamStarts, StreamEnds, Ends
<1>7. QED
  BY <1>4, <1>5, <1>6 DEF TaskStep

\* A media has one publisher at a time, though it may have two preparers.
THEOREM PublishedOnce == Spec => []OnePublisher
<1>1. Init => PublishersClaimed /\ OnePublisher
  BY DEF Init, IdleTask, PublishersClaimed, OnePublisher
<1>2. ASSUME TypeOK, PublishersClaimed, OnePublisher, [Next]_vars
      PROVE  PublishersClaimed' /\ OnePublisher'
  <2>1. ASSUME NEW t \in Task, Requests(t) \/ TaskStep(t), ~ Claims(t)
        PROVE  PublishersClaimed' /\ OnePublisher'
    BY <1>2, <2>1, OnlyClaimsPublish DEF PublishersClaimed, OnePublisher
  <2>2. ASSUME NEW t \in Task, Claims(t)
        PROVE  PublishersClaimed' /\ OnePublisher'
    <3>1. task[t].media \notin claimed /\ claimed' = claimed \union {task[t].media}
      BY <2>2 DEF Claims
    <3>2. /\ task'[t].media = task[t].media
          /\ \A u \in Task \ {t} : task'[u] = task[u]
      BY <1>2, <2>2 DEF Claims, Becomes, TypeOK, TaskState
    <3>3. QED
      BY <1>2, <3>1, <3>2 DEF PublishersClaimed, OnePublisher
  <2>3. ASSUME NEW g \in dropped, Finalized(g)
        PROVE  PublishersClaimed' /\ OnePublisher'
    BY <1>2, <2>3 DEF Finalized, PublishersClaimed, OnePublisher
  <2>4. CASE UNCHANGED vars
    BY <1>2, <2>4 DEF vars, PublishersClaimed, OnePublisher
  <2>5. QED
    BY <1>2, <2>1, <2>2, <2>3, <2>4 DEF Next
<1>3. QED
  BY <1>1, <1>2, TypeCorrect, PTL DEF Spec
=============================================================================
