------------------------------ MODULE Rotation ------------------------------
(***************************************************************************)
(* The instants that scheduler.py gives the deliveries: the daily          *)
(* occurrence of a topic, the hourly slots of the rotation and the topic   *)
(* of a slot; and the rotation job as APScheduler runs it.                 *)
(*                                                                         *)
(* Time is counted in minutes.  The zone has one change of its offset, at  *)
(* Transition; Before = After is a zone without one.  A local time is a    *)
(* wall time and the fold that tells its second pass from the first.       *)
(* About a change the occurrences are not regular (see RunsAreNotEarly):   *)
(* the properties say from when on they are regular again.                 *)
(***************************************************************************)
EXTENDS Integers, FiniteSets

CONSTANTS
    Minutes,                    \* schedule.minutes
    TopicCount,                 \* the number of enabled topics
    Hour, Minute,               \* the daily time of a topic
    Transition, Before, After,  \* the zone
    Start, Horizon              \* bound: the clock runs from Start to Horizon

Later(a, b) == IF a > b THEN a ELSE b
Earlier(a, b) == IF a < b THEN a ELSE b

\* By how much the clocks change.
Change == Later(Before - After, After - Before)

ASSUME MinutesAssumption == Minutes \subseteq 0..59 /\ Minutes # {}
ASSUME TopicCountAssumption == TopicCount \in Nat \ {0}
ASSUME DailyAssumption == Hour \in 0..23 /\ Minute \in 0..59
ASSUME ZoneAssumption ==
    Transition \in Int /\ Before \in -1439..1439 /\ After \in -1439..1439
ASSUME ClockAssumption ==
    /\ Start \in Nat /\ Horizon \in Nat /\ Start <= Horizon
    /\ Start >= 120 + Change

VARIABLES
    now,        \* the minute, in UTC
    due,        \* the rotation job is due and not started
    running,    \* it runs
    last,       \* the occurrence of its last run, or Never
    topic,      \* the topic of that run
    passed      \* history: the slots since its start that will have no run

vars == <<now, due, running, last, topic, passed>>

Never == -1

-----------------------------------------------------------------------------
(* datetime and zoneinfo. *)

Last(S) == CHOOSE m \in S : \A n \in S : n <= m

OffsetAt(utc) == IF utc < Transition THEN Before ELSE After

Wall(utc) == utc + OffsetAt(utc)

\* 1 in the second pass of the wall times that occur twice.
Fold(utc) ==
    IF Transition <= utc /\ utc < Transition + (Before - After) THEN 1 ELSE 0

\* A wall time that does not occur, or occurs twice, is told by its fold.
ToUtc(wall, fold) ==
    LET edge == Transition + (IF fold = 0 THEN Later(Before, After)
                                          ELSE Earlier(Before, After))
    IN  wall - (IF wall < edge THEN Before ELSE After)

HourOf(wall) == wall - (wall % 60)
DayOf(wall) == wall - (wall % 1440)

-----------------------------------------------------------------------------
(* scheduler.py. *)

\* Mutant: the time of day has not come when it is exactly now.
DailyBeforeNow(utc) ==
    LET wall == Wall(utc)
        today == DayOf(wall) + 60 * Hour + Minute
    IN  IF today >= wall THEN ToUtc(today - 1440, 0) ELSE ToUtc(today, Fold(utc))

\* canonical_occurrence: the comparison is one of wall times, and subtracting a
\* day resets the fold.
CanonicalOccurrence(utc) ==
    LET wall == Wall(utc)
        today == DayOf(wall) + 60 * Hour + Minute
    IN  IF today > wall THEN ToUtc(today - 1440, 0) ELSE ToUtc(today, Fold(utc))

\* Mutant: a slot counts from the minute after it.
SlotBeforeNow(utc) ==
    LET wall == Wall(utc)
        eligible == {m \in Minutes : m < wall % 60}
    IN  IF eligible # {}
        THEN ToUtc(HourOf(wall) + Last(eligible), Fold(utc))
        ELSE ToUtc(HourOf(wall - 60) + Last(Minutes), 0)

\* canonical_rotation_occurrence.
CanonicalRotationOccurrence(utc) ==
    LET wall == Wall(utc)
        eligible == {m \in Minutes : m <= wall % 60}
    IN  IF eligible # {}
        THEN ToUtc(HourOf(wall) + Last(eligible), Fold(utc))
        ELSE ToUtc(HourOf(wall - 60) + Last(Minutes), 0)

IsSlot(utc) == Wall(utc) % 60 \in Minutes

MinuteIndex(wall) == Cardinality({m \in Minutes : m < wall % 60})

\* Mutant: the slots are numbered within their day.
SlotOfDay(utc) ==
    ((Wall(utc) % 1440) \div 60) * Cardinality(Minutes) + MinuteIndex(Wall(utc))

AbsoluteSlot(utc) ==
    (Wall(utc) \div 60) * Cardinality(Minutes) + MinuteIndex(Wall(utc))

\* Mutant: an index past the last topic.
TopicOrNone(utc) == AbsoluteSlot(utc) % (TopicCount + 1)

\* rotation_topic_for_occurrence, as an index into the enabled topics.
TopicOf(utc) == AbsoluteSlot(utc) % TopicCount

-----------------------------------------------------------------------------
TypeOK ==
    /\ now \in Start..Horizon
    /\ due \in BOOLEAN
    /\ running \in BOOLEAN
    /\ last \in Nat \union {Never}
    /\ topic \in 0..(TopicCount - 1)
    /\ passed \in Nat

Init ==
    /\ now = Start
    /\ due = FALSE
    /\ running = FALSE
    /\ last = Never
    /\ topic = 0
    /\ passed = 0

\* The trigger fires at the minutes of the schedule; at wall times that are
\* passed a second time, some versions of APScheduler do and some do not.
Fires(utc) == IsSlot(utc) /\ Fold(utc) = 0

MayFire(utc) == IsSlot(utc) /\ Fold(utc) = 1

\* A fire that finds the job running is skipped, one that finds it waiting is
\* merged with it.
Ticks ==
    /\ now < Horizon
    /\ now' = now + 1
    /\ \E fires \in (IF MayFire(now') THEN BOOLEAN ELSE {Fires(now')}) :
        /\ due' = (due \/ (fires /\ ~ running))
        /\ passed' = IF fires /\ (running \/ due) THEN passed + 1 ELSE passed
    /\ UNCHANGED <<running, last, topic>>

\* run_rotation: the instant is read when the job starts, however late.
Starts ==
    /\ due
    /\ last' = CanonicalRotationOccurrence(now)
    /\ topic' = TopicOf(last')
    /\ due' = FALSE
    /\ running' = TRUE
    /\ passed' = 0
    /\ UNCHANGED now

Ends ==
    /\ running
    /\ running' = FALSE
    /\ UNCHANGED <<now, due, last, topic, passed>>

\* Bound: the clock stays at its horizon.
Stays == now = Horizon /\ UNCHANGED vars

Next == Ticks \/ Starts \/ Ends \/ Stays

Spec == Init /\ [][Next]_vars

-----------------------------------------------------------------------------
\* The clocks did not change in the last minutes before an instant, nor do the
\* wall times of these minutes occur twice.
Settled(utc, minutes) ==
    \/ Before = After
    \/ utc < Transition
    \/ utc >= Transition + minutes + Later(Before - After, 0)

\* Nor did they since the last run was given its occurrence.
SettledSinceRun ==
    \/ Before = After
    \/ now < Transition
    \/ last >= Transition + 120 + Change

\* Two hours after a change of the clocks and before it, the slot a run would be
\* given is a slot of the schedule, has come, and is the latest that has.
LatestSlot ==
    Settled(now, 120) =>
        LET slot == CanonicalRotationOccurrence(now) IN
        /\ IsSlot(slot)
        /\ slot <= now
        /\ \A utc \in (slot + 1)..now : ~ IsSlot(utc)

\* A day after it and before it, so is the daily occurrence of a topic.
LatestDay ==
    Settled(now, 1440) =>
        LET day == CanonicalOccurrence(now) IN
        /\ Wall(day) % 1440 = 60 * Hour + Minute
        /\ day <= now
        /\ now - day < 1440

\* From one slot to the next the rotation moves on by one topic, across hours
\* and days: no topic is passed over or has two slots in a row.
RotationMovesOn ==
    Settled(now, 240) =>
        LET slot == CanonicalRotationOccurrence(now)
            previous == CanonicalRotationOccurrence(slot - 1)
        IN  TopicOf(slot) = (TopicOf(previous) + 1) % TopicCount

\* However late the runs start and however long they take, each is given a
\* later occurrence than the one before, so none finds its slot reserved.
RunsMoveOn ==
    [][(last' # last \/ (running' /\ ~ running)) /\ SettledSinceRun => last' > last]_vars

\* The rotation passes a topic over only with a slot that got no run, because a
\* run was still going on or the process was late: a run that starts is for the
\* topic as many places on as slots have come.
TopicsArePassedWithSlots ==
    [][running' /\ ~ running /\ last # Never /\ SettledSinceRun =>
        topic' = (topic + 1 + passed) % TopicCount]_vars

\* The runs and the slots that were passed over account for every slot that has
\* come.
SlotsAreCounted ==
    last # Never /\ SettledSinceRun =>
        /\ last <= now
        /\ topic = TopicOf(last)
        /\ due => last < CanonicalRotationOccurrence(now)
        /\ AbsoluteSlot(CanonicalRotationOccurrence(now)) =
                AbsoluteSlot(last) + passed + (IF due THEN 1 ELSE 0)

\* A run is given an occurrence that is not later than its start.
RunsAreNotEarly == last <= now
=============================================================================
