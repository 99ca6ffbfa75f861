--------------------------- MODULE RotationProofs ---------------------------
(***************************************************************************)
(* The slots of the rotation for every schedule of minutes, every number   *)
(* of topics and every zone with one change of its offset at most.         *)
(***************************************************************************)
EXTENDS Rotation, TLAPS, FiniteSetTheorems, WellFoundedInduction

-----------------------------------------------------------------------------
(* The last of some minutes. *)

Less == {p \in Nat \X Nat : p[1] < p[2]}

LEMMA LessIsWellFounded == IsWellFoundedOn(Less, Nat)
BY NatLessThanWellFounded DEF OpToRel, Less

LEMMA LeastOf ==
    ASSUME NEW S, S \subseteq Nat, S # {}
    PROVE  \E x \in S : \A y \in S : x <= y
<1>1. PICK x \in S : \A y \in S : ~ (<<y, x>> \in Less)
  BY LessIsWellFounded, WFMin, Zenon
<1>2. ASSUME NEW y \in S
      PROVE  x <= y
  <2>1. x \in Nat /\ y \in Nat /\ <<y, x>> \in Nat \X Nat
    OBVIOUS
  <2>2. ~ (y < x)
    <3>1. SUFFICES ASSUME y < x
                   PROVE  <<y, x>> \in Less
      BY <1>1
    <3>2. <<y, x>>[1] < <<y, x>>[2]
      BY <3>1
    <3>3. QED
      BY <2>1, <3>2, Zenon DEF Less
  <2>3. QED
    BY <2>1, <2>2
<1>3. QED
  BY <1>2

\* Last is what its name says, of minutes of an hour.
LEMMA LastOf ==
    ASSUME NEW S, S \subseteq 0..59, S # {}
    PROVE  Last(S) \in S /\ \A n \in S : n <= Last(S)
<1> DEFINE Left == {t \in 0..59 : 59 - t \in S}
<1>1. Left \subseteq Nat
  OBVIOUS
<1>2. Left # {}
  <2>1. PICK m \in S : TRUE
    OBVIOUS
  <2>2. 59 - m \in 0..59 /\ 59 - (59 - m) = m
    BY <2>1
  <2>3. 59 - m \in Left
    BY <2>1, <2>2
  <2>4. QED
    BY <2>3
<1> HIDE DEF Left
<1>3. PICK t \in Left : \A u \in Left : t <= u
  BY <1>1, <1>2, LeastOf
<1> USE DEF Left
<1>4. 59 - t \in S /\ t \in 0..59
  OBVIOUS
<1>5. ASSUME NEW y \in S
      PROVE  y <= 59 - t
  <2>1. 59 - y \in 0..59 /\ 59 - (59 - y) = y
    OBVIOUS
  <2>2. t <= 59 - y
    BY <1>3, <2>1
  <2>3. QED
    BY <1>4, <2>1, <2>2
<1>6. \E m \in S : \A n \in S : n <= m
  BY <1>4, <1>5
<1>7. QED
  BY <1>6, Zenon DEF Last

-----------------------------------------------------------------------------
(* Counting slots. *)

\* The minutes of the schedule before, and up to, a minute of the hour.
MinutesBefore(k) == {m \in Minutes : m < k}
MinutesUpTo(k) == {m \in Minutes : m <= k}

\* The slots of the schedule up to a wall time.
Count(wall) ==
    (wall \div 60) * Cardinality(Minutes) + Cardinality(MinutesUpTo(wall % 60))

LEMMA MinutesAreFinite ==
    /\ Cardinality(Minutes) \in Nat
    /\ \A S \in SUBSET Minutes : IsFiniteSet(S) /\ Cardinality(S) \in Nat
<1>1. IsFiniteSet(0..59)
  <2>1. 0 \in Int /\ 59 \in Int
    OBVIOUS
  <2>2. QED
    BY ONLY <2>1, FS_Interval
<1>2. IsFiniteSet(Minutes)
  BY <1>1, FS_Subset, MinutesAssumption
<1>3. ASSUME NEW S \in SUBSET Minutes
      PROVE  IsFiniteSet(S) /\ Cardinality(S) \in Nat
  BY <1>2, FS_Subset, FS_CardinalityType
<1>4. QED
  BY <1>2, <1>3, FS_CardinalityType

\* How the sets of minutes grow from minute to minute, and from hour to hour.
LEMMA MinuteSets ==
    ASSUME NEW k \in 0..59
    PROVE  /\ MinutesBefore(k) \subseteq Minutes /\ MinutesUpTo(k) \subseteq Minutes
           /\ k \notin MinutesBefore(k)
           /\ k \in Minutes => MinutesUpTo(k) = MinutesBefore(k) \union {k}
           /\ k \notin Minutes => MinutesUpTo(k) = MinutesBefore(k)
           /\ k # 0 => MinutesUpTo(k - 1) = MinutesBefore(k)
           /\ k = 0 => MinutesBefore(k) = {}
           /\ k = 59 => MinutesUpTo(k) = Minutes
<1>1. \A m : m \in MinutesBefore(k) <=> m \in Minutes /\ m < k
  BY DEF MinutesBefore
<1>2. \A m, n : m \in MinutesUpTo(n) <=> m \in Minutes /\ m <= n
  BY DEF MinutesUpTo
<1>3. \A m \in Minutes : m \in 0..59
  BY MinutesAssumption
<1>4. MinutesBefore(k) \subseteq Minutes /\ MinutesUpTo(k) \subseteq Minutes /\ k \notin MinutesBefore(k)
  BY <1>1, <1>2
<1>5. ASSUME k \in Minutes
      PROVE  MinutesUpTo(k) = MinutesBefore(k) \union {k}
  <2>1. \A m \in MinutesUpTo(k) : m \in MinutesBefore(k) \/ m = k
    BY <1>1, <1>2, <1>3
  <2>2. k \in MinutesUpTo(k)
    BY <1>5 DEF MinutesUpTo
  <2>3. ASSUME NEW m \in MinutesBefore(k)
        PROVE  m \in MinutesUpTo(k)
    BY <1>3 DEF MinutesBefore, MinutesUpTo
  <2>4. QED
    BY <2>1, <2>2, <2>3
<1>6. ASSUME k \notin Minutes
      PROVE  MinutesUpTo(k) = MinutesBefore(k)
  <2>1. \A m : m \in MinutesUpTo(k) <=> m \in MinutesBefore(k)
    BY <1>1, <1>2, <1>3, <1>6
  <2>2. QED
    BY <2>1
<1>7. ASSUME k # 0
      PROVE  MinutesUpTo(k - 1) = MinutesBefore(k)
  <2>1. \A m : m \in MinutesUpTo(k - 1) <=> m \in MinutesBefore(k)
    BY <1>1, <1>2, <1>3, <1>7
  <2>2. QED
    BY <2>1
<1>8. ASSUME k = 0
      PROVE  MinutesBefore(k) = {}
  <2>1. \A m : m \notin MinutesBefore(k)
    BY <1>1, <1>3, <1>8
  <2>2. QED
    BY <2>1
<1>9. ASSUME k = 59
      PROVE  MinutesUpTo(k) = Minutes
  <2>1. \A m : m \in MinutesUpTo(k) <=> m \in Minutes
    BY <1>2, <1>3, <1>9
  <2>2. QED
    BY <2>1
<1>10. QED
  BY <1>4, <1>5, <1>6, <1>7, <1>8, <1>9

\* One more minute of the hour.
LEMMA OneMoreMinute ==
    ASSUME NEW k \in 0..59
    PROVE  /\ Cardinality(MinutesBefore(k)) \in Nat
           /\ Cardinality(MinutesUpTo(k)) =
                Cardinality(MinutesBefore(k)) + (IF k \in Minutes THEN 1 ELSE 0)
<1>1. IsFiniteSet(MinutesBefore(k)) /\ Cardinality(MinutesBefore(k)) \in Nat
  BY MinutesAreFinite, MinuteSets
<1>2. CASE k \in Minutes
  BY <1>1, <1>2, MinuteSets, FS_AddElement
<1>3. CASE k \notin Minutes
  BY <1>1, <1>3, MinuteSets
<1>4. QED
  BY <1>1, <1>2, <1>3

\* The count goes up by one at every slot.
LEMMA CountSteps ==
    ASSUME NEW wall \in Int
    PROVE  Count(wall) = Count(wall - 1) + (IF wall % 60 \in Minutes THEN 1 ELSE 0)
<1> DEFINE k == wall % 60
           q == wall \div 60
           N == Cardinality(Minutes)
<1>1. k \in 0..59 /\ q \in Int /\ N \in Nat
  BY MinutesAreFinite
<1>2. CASE k # 0
  <2>1. (wall - 1) % 60 = k - 1 /\ (wall - 1) \div 60 = q
    BY <1>2
  <2>2. Count(wall - 1) = q * N + Cardinality(MinutesBefore(k))
    BY <1>1, <1>2, <2>1, MinuteSets DEF Count
  <2>3. Count(wall) = q * N + Cardinality(MinutesUpTo(k)) /\ q * N \in Int
    BY <1>1 DEF Count
  <2> HIDE DEF k, q, N
  <2>4. QED
    BY <1>1, <2>2, <2>3, OneMoreMinute DEF k
<1>3. CASE k = 0
  <2>1. (wall - 1) % 60 = 59 /\ (wall - 1) \div 60 = q - 1
    BY <1>3
  <2>2. Count(wall - 1) = (q - 1) * N + N
    BY <2>1, MinuteSets DEF Count
  <2>3. Count(wall) = q * N + Cardinality(MinutesUpTo(k))
    BY DEF Count
  <2>4. Cardinality(MinutesBefore(k)) = 0
    BY <1>1, <1>3, MinuteSets, FS_EmptySet
  <2>5. (q - 1) * N + N = q * N /\ q * N \in Int
    BY <1>1
  <2> HIDE DEF k, q, N
  <2>6. QED
    BY <1>1, <2>2, <2>3, <2>4, <2>5, OneMoreMinute DEF k
<1>4. QED
  BY <1>2, <1>3

\* A time is an hour and a minute.
LEMMA HourAndMinute ==
    ASSUME NEW wall \in Int
    PROVE  wall % 60 \in 0..59 /\ wall \div 60 \in Int /\ wall - (wall % 60) \in Int
OBVIOUS

-----------------------------------------------------------------------------
(* The zone. *)

LEMMA ZoneType ==
    /\ Before \in Int /\ After \in Int /\ Transition \in Int
    /\ Later(Before - After, 0) \in Int /\ Later(Before - After, 0) >= 0
    /\ Change \in Int /\ Change >= 0
    /\ Change >= After - Before /\ Change >= Before - After
    /\ Change = Later(Before - After, 0) + Later(After - Before, 0)
    /\ \A utc \in Int : OffsetAt(utc) \in Int /\ Wall(utc) \in Int
BY ZoneAssumption DEF Later, Change, OffsetAt, Wall

\* In the last minutes before an instant, wall times and instants differ by the
\* offset at the instant, both ways.
Steady(utc, minutes) ==
    /\ Fold(utc) = 0
    /\ \A u \in Int : utc - minutes < u /\ u <= utc => OffsetAt(u) = OffsetAt(utc)
    /\ \A w \in Int : Wall(utc) - minutes < w /\ w <= Wall(utc) =>
            ToUtc(w, 0) = w - OffsetAt(utc)

\* A settled instant is steady.
LEMMA SettledIsSteady ==
    ASSUME NEW utc \in Int, NEW minutes \in Nat, Settled(utc, minutes)
    PROVE  Steady(utc, minutes)
<1>1. Before \in Int /\ After \in Int /\ Transition \in Int
  BY ZoneType
<1>2. CASE Before = After
  BY <1>1, <1>2 DEF Steady, Fold, OffsetAt, ToUtc
<1>3. CASE utc < Transition
  <2>1. OffsetAt(utc) = Before /\ Wall(utc) = utc + Before /\ Fold(utc) = 0
    BY <1>1, <1>3 DEF OffsetAt, Wall, Fold
  <2>2. \A u \in Int : u <= utc => OffsetAt(u) = Before
    BY <1>1, <1>3 DEF OffsetAt
  <2>3. \A w \in Int : w <= utc + Before => ToUtc(w, 0) = w - Before
    BY <1>1, <1>3 DEF ToUtc, Later
  <2>4. QED
    BY <2>1, <2>2, <2>3 DEF Steady
<1>4. CASE utc >= Transition + minutes + Later(Before - After, 0)
  <2>1. OffsetAt(utc) = After /\ Wall(utc) = utc + After /\ Fold(utc) = 0
    BY <1>1, <1>4 DEF OffsetAt, Wall, Fold, Later
  <2>2. \A u \in Int : utc - minutes < u => OffsetAt(u) = After
    BY <1>1, <1>4 DEF OffsetAt, Later
  <2>3. \A w \in Int : utc + After - minutes < w => ToUtc(w, 0) = w - After
    <3> SUFFICES ASSUME NEW w \in Int, (utc + After) - minutes < w
                 PROVE  ToUtc(w, 0) = w - After
      BY <1>1
    <3>1. w >= Transition + Later(Before, After)
      BY <1>1, <1>4 DEF Later
    <3>2. QED
      BY <1>1, <3>1 DEF ToUtc, Later
  <2>4. QED
    BY <1>1, <2>1, <2>2, <2>3 DEF Steady
<1>5. QED
  BY <1>2, <1>3, <1>4 DEF Settled

-----------------------------------------------------------------------------
(* The slot of an instant. *)

\* Its wall time, by whether the hour has had a slot.
LEMMA SlotWall ==
    ASSUME NEW utc \in Int, Steady(utc, 120)
    PROVE  LET wall == Wall(utc)
               eligible == MinutesUpTo(wall % 60)
           IN  /\ eligible # {} =>
                    CanonicalRotationOccurrence(utc) =
                        ((wall - (wall % 60)) + Last(eligible)) - OffsetAt(utc)
               /\ eligible = {} =>
                    CanonicalRotationOccurrence(utc) =
                        ((wall - (wall % 60) - 60) + Last(Minutes)) - OffsetAt(utc)
<1> DEFINE wall == Wall(utc)
           eligible == MinutesUpTo(wall % 60)
           hour == wall - (wall % 60)
<1>1. wall \in Int /\ wall % 60 \in 0..59 /\ hour \in Int
  BY ZoneType
<1>2. Fold(utc) = 0
  BY DEF Steady
<1>3. \A w \in Int : wall - 120 < w /\ w <= wall => ToUtc(w, 0) = w - OffsetAt(utc)
  BY DEF Steady
<1>4. HourOf(wall) = hour /\ HourOf(wall - 60) = hour - 60
  BY <1>1 DEF HourOf
<1>5. \A m : m \in eligible <=> m \in Minutes /\ m <= wall % 60
  BY DEF MinutesUpTo
<1>6. CanonicalRotationOccurrence(utc) =
        IF eligible # {} THEN ToUtc(hour + Last(eligible), 0)
                         ELSE ToUtc(hour - 60 + Last(Minutes), 0)
  <2>1. eligible = {m \in Minutes : m <= Wall(utc) % 60}
    BY DEF MinutesUpTo
  <2>2. HourOf(Wall(utc)) = hour /\ HourOf(Wall(utc) - 60) = hour - 60
    BY <1>4
  <2> HIDE DEF eligible, hour
  <2>3. QED
    BY <1>2, <2>1, <2>2, Zenon DEF CanonicalRotationOccurrence
<1>7. CASE eligible # {}
  <2>1. Last(eligible) \in 0..59 /\ Last(eligible) <= wall % 60
    BY <1>5, <1>7, LastOf, MinutesAssumption
  <2> DEFINE w == hour + Last(eligible)
  <2> HIDE DEF eligible, wall
  <2>2. w \in Int /\ wall - 120 < w /\ w <= wall
    BY <1>1, <2>1
  <2> HIDE DEF w
  <2>3. ToUtc(w, 0) = w - OffsetAt(utc)
    BY <1>3, <2>2
  <2>4. QED
    BY <1>6, <1>7, <2>3 DEF w, eligible, wall
<1>8. CASE eligible = {}
  <2>1. Last(Minutes) \in 0..59
    BY LastOf, MinutesAssumption
  <2> DEFINE w == hour - 60 + Last(Minutes)
  <2> HIDE DEF eligible, wall
  <2>2. w \in Int /\ wall - 120 < w /\ w <= wall
    BY <1>1, <2>1
  <2> HIDE DEF w
  <2>3. ToUtc(w, 0) = w - OffsetAt(utc)
    BY <1>3, <2>2
  <2>4. QED
    BY <1>6, <1>8, <2>3 DEF w, eligible, wall
<1>9. QED
  BY <1>7, <1>8

\* The slot is a slot, and none lies between it and its instant.
LEMMA SlotIsLatest ==
    ASSUME NEW utc \in Int, Steady(utc, 120)
    PROVE  LET slot == CanonicalRotationOccurrence(utc) IN
           /\ slot \in Int /\ slot <= utc /\ utc - slot < 120
           /\ IsSlot(slot)
           /\ \A u \in (slot + 1)..utc : ~ IsSlot(u)
<1> DEFINE wall == Wall(utc)
           slot == CanonicalRotationOccurrence(utc)
           hour == wall - (wall % 60)
           K == OffsetAt(utc)
<1>1. K \in Int /\ wall = utc + K /\ hour \in Int /\ wall % 60 \in 0..59
  <2>1. K \in Int /\ wall = utc + K /\ wall \in Int
    BY ZoneType DEF Wall
  <2> HIDE DEF wall, K
  <2>2. QED
    BY <2>1, HourAndMinute
<1>2. \A u \in Int : utc - 120 < u /\ u <= utc => (IsSlot(u) <=> (u + K) % 60 \in Minutes)
  BY DEF IsSlot, Wall, Steady
<1>3. \A m : m \in MinutesUpTo(wall % 60) <=> m \in Minutes /\ m <= wall % 60
  BY DEF MinutesUpTo
<1>4. \A m \in 0..59 : (hour + m) % 60 = m /\ (hour - 60 + m) % 60 = m
  BY <1>1
<1>5. CASE MinutesUpTo(wall % 60) # {}
  <2> DEFINE m == Last(MinutesUpTo(wall % 60))
  <2>1. m \in MinutesUpTo(wall % 60) /\ \A n \in MinutesUpTo(wall % 60) : n <= m
    BY <1>3, <1>5, LastOf, MinutesAssumption
  <2>2. m \in Minutes /\ m \in 0..59 /\ m <= wall % 60
    BY <1>3, <2>1, MinutesAssumption
  <2>3. slot = (hour + m) - K
    BY <1>5, SlotWall
  <2> HIDE DEF m, slot, K, wall
  <2>4. slot \in Int /\ slot <= utc /\ utc - slot < 120
    BY <1>1, <2>2, <2>3
  <2>5. IsSlot(slot)
    BY <1>1, <1>2, <1>4, <2>2, <2>3, <2>4
  <2>6. ASSUME NEW u \in (slot + 1)..utc, IsSlot(u)
        PROVE  FALSE
    <3>1. u \in Int /\ (u + K) % 60 = u + K - hour
      BY <1>1, <2>2, <2>3, <2>4
    <3>2. (u + K) % 60 \in MinutesUpTo(wall % 60)
      BY <1>1, <1>2, <1>3, <2>4, <2>6, <3>1
    <3>3. QED
      BY <1>1, <2>1, <2>2, <2>3, <2>4, <3>1, <3>2
  <2>7. QED
    BY <2>4, <2>5, <2>6 DEF slot
<1>6. CASE MinutesUpTo(wall % 60) = {}
  <2> DEFINE m == Last(Minutes)
  <2>1. m \in Minutes /\ m \in 0..59 /\ \A n \in Minutes : n <= m
    BY LastOf, MinutesAssumption
  <2>2. \A n \in Minutes : n \in 0..59 /\ n > wall % 60
    BY <1>1, <1>3, <1>6, MinutesAssumption
  <2>3. slot = (hour - 60 + m) - K
    BY <1>6, SlotWall
  <2> HIDE DEF m, slot, K, wall
  <2>4. slot \in Int /\ slot <= utc /\ utc - slot < 120
    BY <1>1, <2>1, <2>2, <2>3
  <2>5. IsSlot(slot)
    BY <1>1, <1>2, <1>4, <2>1, <2>3, <2>4
  <2>6. ASSUME NEW u \in (slot + 1)..utc, IsSlot(u)
        PROVE  FALSE
    <3>1. u \in Int /\ (u + K) % 60 \in Minutes
      BY <1>2, <2>4, <2>6
    <3>2. CASE u + K >= hour
      <4>1. (u + K) % 60 = u + K - hour
        BY <1>1, <2>4, <3>1, <3>2
      <4>2. QED
        BY <1>1, <2>2, <2>4, <3>1, <4>1
    <3>3. CASE u + K < hour
      <4>1. (u + K) % 60 = u + K - hour + 60
        BY <1>1, <2>1, <2>3, <2>4, <3>1, <3>3
      <4>2. QED
        BY <1>1, <2>1, <2>3, <2>4, <3>1, <4>1
    <3>4. QED
      BY <1>1, <3>1, <3>2, <3>3
  <2>7. QED
    BY <2>4, <2>5, <2>6 DEF slot
<1>7. QED
  BY <1>5, <1>6

\* An instant that is a slot is its own.
LEMMA SlotOfASlot ==
    ASSUME NEW utc \in Int, Steady(utc, 120), IsSlot(utc)
    PROVE  CanonicalRotationOccurrence(utc) = utc
<1> DEFINE slot == CanonicalRotationOccurrence(utc)
<1>1. slot \in Int /\ slot <= utc /\ \A u \in (slot + 1)..utc : ~ IsSlot(u)
  BY SlotIsLatest
<1> HIDE DEF slot
<1>2. slot = utc
  BY <1>1
<1>3. QED
  BY <1>2 DEF slot

\* The slot of an instant is not earlier than that of the minute before.
LEMMA SlotsGrow ==
    ASSUME NEW utc \in Int, Steady(utc, 120), Steady(utc + 1, 120)
    PROVE  CanonicalRotationOccurrence(utc) <= CanonicalRotationOccurrence(utc + 1)
<1> DEFINE a == CanonicalRotationOccurrence(utc)
           b == CanonicalRotationOccurrence(utc + 1)
<1>1. a \in Int /\ a <= utc /\ IsSlot(a)
  BY SlotIsLatest
<1>2. b \in Int /\ \A u \in (b + 1)..(utc + 1) : ~ IsSlot(u)
  BY SlotIsLatest
<1> HIDE DEF a, b
<1>3. a <= b
  BY <1>1, <1>2
<1>4. QED
  BY <1>3 DEF a, b

\* The number of a slot is the count of the slots before it.
LEMMA SlotNumber ==
    ASSUME NEW utc \in Int, Steady(utc, 120)
    PROVE  /\ Count(Wall(utc)) \in Int
           /\ AbsoluteSlot(CanonicalRotationOccurrence(utc)) = Count(Wall(utc)) - 1
<1> DEFINE wall == Wall(utc)
           K == OffsetAt(utc)
           slot == CanonicalRotationOccurrence(utc)
           k == wall % 60
           q == wall \div 60
           N == Cardinality(Minutes)
<1>1. K \in Int /\ wall \in Int /\ k \in 0..59 /\ q \in Int /\ N \in Nat
  BY ZoneType, HourAndMinute, MinutesAreFinite
<1>2. Wall(utc) = wall /\ slot \in Int /\ Wall(slot) = slot + K
  BY SlotIsLatest DEF Steady, Wall
<1>3. \A w : MinuteIndex(w) = Cardinality(MinutesBefore(w % 60))
  BY DEF MinuteIndex, MinutesBefore
<1>4. Cardinality(MinutesUpTo(k)) \in Nat /\ q * N \in Int
  BY <1>1, MinuteSets, MinutesAreFinite
<1>5. Count(wall) = q * N + Cardinality(MinutesUpTo(k))
  BY DEF Count
<1>6. CASE MinutesUpTo(k) # {}
  <2> DEFINE m == Last(MinutesUpTo(k))
  <2>1. m \in MinutesUpTo(k) /\ (\A n \in MinutesUpTo(k) : n <= m) /\ m \in 0..59
    BY <1>6, LastOf, MinutesAssumption DEF MinutesUpTo
  <2>2. slot = ((wall - (wall % 60)) + m) - K
    BY <1>6, SlotWall
  <2> HIDE DEF m, K, wall, slot
  <2>3. (slot + K) % 60 = m /\ (slot + K) \div 60 = q
    BY <1>1, <2>1, <2>2
  <2>4. m \in Minutes
    BY <2>1 DEF MinutesUpTo
  <2>5. MinutesUpTo(m) = MinutesUpTo(k)
    <3>1. \A n, j : n \in MinutesUpTo(j) <=> n \in Minutes /\ n <= j
      BY DEF MinutesUpTo
    <3>2. \A n \in Minutes : n \in 0..59
      BY MinutesAssumption
    <3> HIDE DEF k
    <3>3. m <= k
      BY <2>1, <3>1
    <3>4. \A n \in Minutes : n <= m => n <= k
      BY <1>1, <2>1, <3>2, <3>3
    <3>5. \A n : n \in MinutesUpTo(m) <=> n \in MinutesUpTo(k)
      BY <2>1, <3>1, <3>4
    <3>6. QED
      BY <3>5
  <2>6. Cardinality(MinutesUpTo(k)) = Cardinality(MinutesBefore(m)) + 1
       /\ Cardinality(MinutesBefore(m)) \in Nat
    BY <2>1, <2>4, <2>5, OneMoreMinute
  <2>7. AbsoluteSlot(slot) = q * N + Cardinality(MinutesBefore(m))
    BY <1>2, <1>3, <2>3 DEF AbsoluteSlot
  <2> HIDE DEF wall, slot, k, q, N
  <2>8. QED
    BY <1>2, <1>4, <1>5, <2>6, <2>7 DEF slot
<1>7. CASE MinutesUpTo(k) = {}
  <2> DEFINE m == Last(Minutes)
  <2>1. m \in Minutes /\ (\A n \in Minutes : n <= m) /\ m \in 0..59
    BY LastOf, MinutesAssumption
  <2>2. slot = ((wall - (wall % 60) - 60) + m) - K
    BY <1>7, SlotWall
  <2> HIDE DEF m, K, wall, slot
  <2>3. (slot + K) % 60 = m /\ (slot + K) \div 60 = q - 1
    BY <1>1, <2>1, <2>2
  <2>4. MinutesUpTo(m) = Minutes
    <3>1. ASSUME NEW n
          PROVE  n \in MinutesUpTo(m) <=> n \in Minutes
      BY <2>1 DEF MinutesUpTo
    <3>2. QED
      BY <3>1
  <2>5. N = Cardinality(MinutesBefore(m)) + 1 /\ Cardinality(MinutesBefore(m)) \in Nat
    BY <2>1, <2>4, OneMoreMinute
  <2>6. AbsoluteSlot(slot) = (q - 1) * N + Cardinality(MinutesBefore(m))
    BY <1>2, <1>3, <2>3 DEF AbsoluteSlot
  <2>7. Cardinality(MinutesUpTo(k)) = 0
    BY <1>7, FS_EmptySet
  <2>8. (q - 1) * N = q * N - N
    BY <1>1
  <2> HIDE DEF wall, slot, k, q, N
  <2>9. QED
    BY <1>1, <1>2, <1>4, <1>5, <2>5, <2>6, <2>7, <2>8 DEF slot
<1>8. QED
  BY <1>6, <1>7

\* The number goes up by one at every slot, and only there.
LEMMA SlotNumberSteps ==
    ASSUME NEW utc \in Int, Steady(utc, 120), Steady(utc - 1, 120)
    PROVE  LET number(u) == AbsoluteSlot(CanonicalRotationOccurrence(u)) IN
           /\ number(utc) \in Int
           /\ number(utc) = number(utc - 1) + (IF IsSlot(utc) THEN 1 ELSE 0)
<1>1. Wall(utc) \in Int /\ Wall(utc - 1) = Wall(utc) - 1
  <2>1. OffsetAt(utc - 1) = OffsetAt(utc) /\ OffsetAt(utc) \in Int
    BY ZoneType DEF Steady
  <2>2. QED
    BY <2>1 DEF Wall
<1>2. Count(Wall(utc)) = Count(Wall(utc) - 1) + (IF IsSlot(utc) THEN 1 ELSE 0)
  BY <1>1, CountSteps DEF IsSlot
<1>3. /\ Count(Wall(utc)) \in Int /\ Count(Wall(utc - 1)) \in Int
      /\ AbsoluteSlot(CanonicalRotationOccurrence(utc)) = Count(Wall(utc)) - 1
      /\ AbsoluteSlot(CanonicalRotationOccurrence(utc - 1)) = Count(Wall(utc - 1)) - 1
  <2>1. utc - 1 \in Int
    OBVIOUS
  <2>2. QED
    BY <2>1, SlotNumber
<1>4. QED
  BY <1>1, <1>2, <1>3

LEMMA MultipleOfDifference ==
    ASSUME NEW T \in Int, NEW x \in Int, NEW y \in Int, NEW z \in Int
    PROVE  /\ T * (x - y - z) = T * x - T * y - T * z
           /\ T * x \in Int /\ T * y \in Int /\ T * z \in Int
OBVIOUS

\* A remainder may be taken before something is added or after.
LEMMA AddToRemainder ==
    ASSUME NEW T \in Nat \ {0}, NEW a \in Int, NEW c \in Int
    PROVE  (a + c) % T = ((a % T) + c) % T
<1> DEFINE b == (a % T) + c
           x == (a + c) \div T
           y == b \div T
           z == a \div T
           d == x - y - z
           r == (a + c) % T
           s == b % T
<1>1. a = T * z + (a % T) /\ a % T \in Int /\ z \in Int
  OBVIOUS
<1>2. a + c = T * x + r /\ r \in 0..(T - 1) /\ x \in Int
  OBVIOUS
<1>3. b \in Int
  BY <1>1
<1>4. b = T * y + s /\ s \in 0..(T - 1) /\ y \in Int
  <2> HIDE DEF b
  <2>1. QED
    BY <1>3
<1>5. a + c = T * z + b
  BY <1>1
<1> HIDE DEF b, x, y, z, r, s
<1>6. T * d = T * x - T * y - T * z /\ T * x \in Int /\ T * y \in Int /\ T * z \in Int
  BY <1>1, <1>2, <1>4, MultipleOfDifference
<1>7. d \in Int
  BY <1>1, <1>2, <1>4
<1> HIDE DEF d
<1>8. T * d = s - r
  BY <1>2, <1>3, <1>4, <1>5, <1>6
<1>9. T * d < T /\ T * d > 0 - T
  BY <1>2, <1>4, <1>8
<1>10. d = 0
  BY <1>7, <1>9
<1>11. s = r
  BY <1>2, <1>4, <1>8, <1>10
<1>12. QED
  BY <1>11 DEF b, r, s

-----------------------------------------------------------------------------
(* Types. *)

\* In any zone: an occurrence is an instant that is not too far from now.
LEMMA OccurrencesAreInstants ==
    ASSUME NEW utc \in Start..Horizon
    PROVE  CanonicalRotationOccurrence(utc) \in Nat
<1>1. /\ Before \in Int /\ After \in Int /\ Transition \in Int
      /\ Change >= After - Before /\ Change >= Before - After /\ Change \in Int
      /\ Start >= 120 + Change /\ Start \in Int /\ utc \in Int /\ utc >= Start
  BY ZoneType, ClockAssumption
<1> DEFINE wall == Wall(utc)
<1>2. wall \in Int /\ (wall = utc + Before \/ wall = utc + After)
  BY <1>1 DEF Wall, OffsetAt
<1>3. \A w \in Int : \A f : ToUtc(w, f) = w - Before \/ ToUtc(w, f) = w - After
  BY DEF ToUtc
<1> HIDE DEF wall
<1>4. ASSUME NEW S, S \subseteq Minutes, S # {}
      PROVE  Last(S) \in 0..59
  BY <1>4, LastOf, MinutesAssumption
<1>5. \A h \in Int : HourOf(h) \in Int /\ h - 60 < HourOf(h)
  BY DEF HourOf
<1>6. ASSUME NEW w \in Int, w > wall - 120, NEW f
      PROVE  ToUtc(w, f) \in Nat
  <2>1. w - Before \in Nat /\ w - After \in Nat
    BY <1>1, <1>2, <1>6
  <2>2. QED
    BY <1>3, <2>1
<1> DEFINE eligible == {m \in Minutes : m <= Wall(utc) % 60}
<1>7. eligible # {} => Last(eligible) \in 0..59
  <2>1. eligible \subseteq Minutes
    OBVIOUS
  <2> HIDE DEF eligible
  <2>2. QED
    BY <1>4, <2>1
<1>8. Last(Minutes) \in 0..59
  BY <1>4, MinutesAssumption
<1>9. \A m \in 0..59 :
        /\ HourOf(wall) + m \in Int /\ HourOf(wall) + m > wall - 120
        /\ HourOf(wall - 60) + m \in Int /\ HourOf(wall - 60) + m > wall - 120
  BY <1>2, <1>5
<1>10. CanonicalRotationOccurrence(utc) =
         IF eligible # {} THEN ToUtc(HourOf(wall) + Last(eligible), Fold(utc))
                          ELSE ToUtc(HourOf(wall - 60) + Last(Minutes), 0)
  BY DEF CanonicalRotationOccurrence, wall
<1> HIDE DEF eligible
<1>11. QED
  BY <1>6, <1>7, <1>8, <1>9, <1>10

\* Nor is it ahead of now by more than the clocks went forward.
LEMMA NotFarAhead ==
    ASSUME NEW utc \in Int
    PROVE  /\ CanonicalRotationOccurrence(utc) \in Int
           /\ CanonicalRotationOccurrence(utc) <= utc + Later(After - Before, 0)
<1> DEFINE wall == Wall(utc)
           eligible == {m \in Minutes : m <= wall % 60}
           ahead == Later(After - Before, 0)
<1>1. /\ Before \in Int /\ After \in Int /\ ahead \in Int /\ ahead >= 0
      /\ ahead >= After - Before /\ wall \in Int
  BY ZoneType DEF Later
<1>2. ASSUME NEW w \in Int, w <= wall, NEW f \in {0, Fold(utc)}
      PROVE  ToUtc(w, f) \in Int /\ ToUtc(w, f) <= utc + ahead
  <2>1. Transition \in Int
    BY ZoneType
  <2>2. CASE utc < Transition
    <3>1. wall = utc + Before /\ f = 0
      BY <2>1, <2>2 DEF Wall, OffsetAt, Fold
    <3>2. QED
      BY <1>1, <1>2, <2>1, <2>2, <3>1 DEF ToUtc, Later
  <2>3. CASE utc >= Transition
    <3>1. wall = utc + After
      BY <2>1, <2>3 DEF Wall, OffsetAt
    <3>2. ToUtc(w, f) = w - Before \/ ToUtc(w, f) = w - After
      BY DEF ToUtc
    <3>3. w - After <= utc + ahead /\ w - Before <= utc + ahead
      BY <1>1, <1>2, <3>1
    <3>4. QED
      BY <1>1, <3>2, <3>3
  <2>4. QED
    BY <2>1, <2>2, <2>3
<1>3. HourOf(wall) \in Int /\ HourOf(wall) = wall - (wall % 60) /\ HourOf(wall - 60) = wall - (wall % 60) - 60
      /\ wall % 60 \in 0..59
  BY <1>1 DEF HourOf
<1>4. eligible # {} => Last(eligible) \in 0..59 /\ Last(eligible) <= wall % 60
  <2>1. eligible \subseteq 0..59 /\ \A m \in eligible : m <= wall % 60
    BY MinutesAssumption
  <2> HIDE DEF eligible
  <2>2. QED
    BY <2>1, LastOf
<1>5. Last(Minutes) \in 0..59
  BY LastOf, MinutesAssumption
<1>6. CanonicalRotationOccurrence(utc) =
         IF eligible # {} THEN ToUtc(HourOf(wall) + Last(eligible), Fold(utc))
                          ELSE ToUtc(HourOf(wall - 60) + Last(Minutes), 0)
  BY DEF CanonicalRotationOccurrence
<1> HIDE DEF eligible, wall, ahead
<1>7. eligible # {} => /\ HourOf(wall) + Last(eligible) \in Int
                       /\ HourOf(wall) + Last(eligible) <= wall
  BY <1>1, <1>3, <1>4
<1>8. HourOf(wall - 60) + Last(Minutes) \in Int /\ HourOf(wall - 60) + Last(Minutes) <= wall
  BY <1>1, <1>3, <1>5
<1>9. QED
  BY <1>2, <1>6, <1>7, <1>8 DEF ahead

LEMMA NumbersAreIntegers ==
    ASSUME NEW utc \in Int
    PROVE  AbsoluteSlot(utc) \in Int /\ TopicOf(utc) \in 0..(TopicCount - 1)
<1>1. Wall(utc) \in Int
  BY ZoneAssumption DEF Wall, OffsetAt
<1>2. MinuteIndex(Wall(utc)) \in Nat /\ Cardinality(Minutes) \in Nat
  BY MinutesAreFinite DEF MinuteIndex
<1>3. AbsoluteSlot(utc) \in Int
  BY <1>1, <1>2 DEF AbsoluteSlot
<1>4. \A a \in Int : a % TopicCount \in 0..(TopicCount - 1)
  BY TopicCountAssumption
<1>5. QED
  BY <1>3, <1>4 DEF TopicOf

\* Every occurrence and every topic of a run is one, in every zone.
THEOREM TypeCorrect == Spec => []TypeOK
<1>1. Init => TypeOK
  <2>1. Start \in Start..Horizon /\ Start \in Int /\ Horizon \in Int
    BY ClockAssumption
  <2>2. 0 \in 0..(TopicCount - 1) /\ TopicCount \in Int
    BY TopicCountAssumption
  <2>3. ASSUME Init
        PROVE  /\ due \in BOOLEAN /\ running \in BOOLEAN
               /\ last \in Nat \union {Never} /\ passed \in Nat
    BY <2>3, Zenon DEF Init
  <2>4. QED
    BY <2>1, <2>2, <2>3 DEF Init, TypeOK
<1>2. TypeOK /\ [Next]_vars => TypeOK'
  <2> SUFFICES ASSUME TypeOK, [Next]_vars
               PROVE  TypeOK'
    OBVIOUS
  <2> USE DEF TypeOK
  <2>1. CASE Ticks
    <3>1. PICK fires : /\ due' = (due \/ (fires /\ ~ running))
                       /\ passed' = IF fires /\ (running \/ due) THEN passed + 1 ELSE passed
      BY <2>1 DEF Ticks
    <3>2. due' \in BOOLEAN
      <4>1. due' = TRUE \/ due' = FALSE
        BY <3>1, Zenon
      <4>2. QED
        BY <4>1
    <3>3. passed' \in Nat
      BY <3>1
    <3>4. QED
      BY <2>1, <3>2, <3>3, ClockAssumption DEF Ticks
  <2>2. CASE Starts
    <3>1. last' \in Nat
      BY <2>2, OccurrencesAreInstants DEF Starts
    <3>2. topic' \in 0..(TopicCount - 1)
      BY <2>2, <3>1, NumbersAreIntegers DEF Starts
    <3>3. QED
      BY <2>2, <3>1, <3>2 DEF Starts
  <2>3. CASE Ends
    BY <2>3 DEF Ends
  <2>4. CASE UNCHANGED vars
    BY <2>4 DEF vars
  <2>5. QED
    BY <2>1, <2>2, <2>3, <2>4 DEF Next, Stays
<1>3. QED
  BY <1>1, <1>2, PTL DEF Spec

-----------------------------------------------------------------------------
(* Occurrences. *)

LEMMA NowIsAnInstant ==
    ASSUME TypeOK
    PROVE  now \in Int /\ now \in Nat
BY ClockAssumption DEF TypeOK

\* Before a change of the zone and from two hours after it, the slot of an instant
\* is the latest that has come.
THEOREM SlotsAreLatest == Spec => []LatestSlot
<1>1. TypeOK => LatestSlot
  BY NowIsAnInstant, SettledIsSteady, SlotIsLatest DEF LatestSlot
<1>2. QED
  BY <1>1, TypeCorrect, PTL

\* And from a day after it, the daily occurrence of a topic is within the last day,
\* at its time of day.
THEOREM DaysAreLatest == Spec => []LatestDay
<1>1. ASSUME TypeOK, Settled(now, 1440)
      PROVE  LET day == CanonicalOccurrence(now) IN
             /\ Wall(day) % 1440 = 60 * Hour + Minute
             /\ day <= now
             /\ now - day < 1440
  <2> DEFINE K == OffsetAt(now)
             wall == Wall(now)
             clock == 60 * Hour + Minute
             today == wall - (wall % 1440) + clock
             local == IF today > wall THEN today - 1440 ELSE today
             day == CanonicalOccurrence(now)
  <2>1. K \in Int /\ now \in Int /\ wall \in Int /\ wall = now + K
    BY <1>1, ZoneType, NowIsAnInstant DEF Wall
  <2>2. clock \in 0..1439
    BY DailyAssumption
  <2>3. Steady(now, 1440)
    BY <1>1, <2>1, SettledIsSteady
  <2>4. DayOf(wall) + 60 * Hour + Minute = today
    BY <2>1, DailyAssumption DEF DayOf
  <2> HIDE DEF clock, wall
  <2>5. local \in Int /\ wall - 1440 < local /\ local <= wall /\ local % 1440 = clock
    BY <2>1, <2>2
  <2>6. day = ToUtc(local, 0)
    <3>1. day = IF today > wall THEN ToUtc(today - 1440, 0) ELSE ToUtc(today, Fold(now))
      <4>1. DayOf(Wall(now)) + 60 * Hour + Minute = today
        BY <2>4 DEF wall
      <4> HIDE DEF today
      <4>2. QED
        BY <4>1 DEF CanonicalOccurrence, wall
    <3>2. Fold(now) = 0
      BY <2>3 DEF Steady
    <3> HIDE DEF today
    <3>3. QED
      BY <3>1, <3>2
  <2> HIDE DEF local
  <2>7. day = local - K
    BY <2>3, <2>5, <2>6 DEF Steady, wall
  <2> HIDE DEF K, day
  <2>8. day \in Int /\ day <= now /\ now - day < 1440
    BY <2>1, <2>5, <2>7
  <2>9. Wall(day) = local
    <3>1. OffsetAt(day) = K
      BY <2>1, <2>3, <2>8 DEF Steady, K
    <3>2. QED
      BY <2>1, <2>5, <2>7, <3>1 DEF Wall
  <2>10. QED
    BY <2>5, <2>8, <2>9 DEF day, clock
<1>2. TypeOK => LatestDay
  BY <1>1 DEF LatestDay
<1>3. QED
  BY <1>2, TypeCorrect, PTL

\* From each slot to the next the rotation moves on by one topic, whatever the
\* minutes of the schedule and the number of topics.
THEOREM EachSlotIsTheNextTopic == Spec => []RotationMovesOn
<1>1. ASSUME TypeOK, Settled(now, 240)
      PROVE  LET slot == CanonicalRotationOccurrence(now)
                 previous == CanonicalRotationOccurrence(slot - 1)
             IN  TopicOf(slot) = (TopicOf(previous) + 1) % TopicCount
  <2> DEFINE slot == CanonicalRotationOccurrence(now)
             previous == CanonicalRotationOccurrence(slot - 1)
  <2>1. slot \in Int /\ IsSlot(slot) /\ slot <= now /\ now - slot < 120 /\ now \in Int
    <3>1. Settled(now, 120)
      BY <1>1, ZoneType, NowIsAnInstant DEF Settled
    <3>2. QED
      BY <1>1, <3>1, NowIsAnInstant, SettledIsSteady, SlotIsLatest
  <2> HIDE DEF slot
  <2>2. Steady(slot, 120) /\ Steady(slot - 1, 120)
    <3>1. Settled(slot, 120) /\ Settled(slot - 1, 120)
      BY <1>1, <2>1, ZoneType DEF Settled
    <3>2. QED
      BY <2>1, <3>1, SettledIsSteady
  <2>3. CanonicalRotationOccurrence(slot) = slot
    BY <2>1, <2>2, SlotOfASlot
  <2>4. AbsoluteSlot(slot) = AbsoluteSlot(previous) + 1
    BY <2>1, <2>2, <2>3, SlotNumberSteps
  <2>5. AbsoluteSlot(previous) \in Int
    <3>1. previous \in Int
      BY <2>1, <2>2, SlotIsLatest
    <3>2. QED
      BY <3>1, NumbersAreIntegers
  <2> HIDE DEF previous
  <2>6. TopicOf(slot) = (TopicOf(previous) + 1) % TopicCount
    BY <2>4, <2>5, TopicCountAssumption, AddToRemainder DEF TopicOf
  <2>7. QED
    BY <2>6 DEF slot, previous
<1>2. TypeOK => RotationMovesOn
  BY <1>1 DEF RotationMovesOn
<1>3. QED
  BY <1>2, TypeCorrect, PTL

-----------------------------------------------------------------------------
(* Runs. *)

\* Once a run has an occurrence that is past a change, the clock is steady.
LEMMA SettledRunIsSteady ==
    ASSUME TypeOK, last # Never, SettledSinceRun, last <= now
    PROVE  Steady(now, 120) /\ (now' = now + 1 /\ SettledSinceRun' /\ last' = last
                                    => Steady(now + 1, 120))
<1>1. /\ now \in Int /\ last \in Int /\ Transition \in Int
      /\ Change \in Int /\ Later(Before - After, 0) \in Int
      /\ Change >= Later(Before - After, 0)
  BY NowIsAnInstant, ZoneType DEF TypeOK, Later, Change
<1>2. Settled(now, 120)
  BY <1>1 DEF SettledSinceRun, Settled
<1>3. ASSUME now' = now + 1, SettledSinceRun', last' = last
      PROVE  Settled(now + 1, 120)
  BY <1>1, <1>3 DEF SettledSinceRun, Settled
<1>4. QED
  BY <1>1, <1>2, <1>3, SettledIsSteady

\* An occurrence that lies past a change was given at a settled instant, even
\* though an occurrence may lie ahead of its instant.
LEMMA SettledRunStarts ==
    ASSUME TypeOK, CanonicalRotationOccurrence(now) >= Transition + 120 + Change
    PROVE  Settled(now, 120)
<1>1. /\ now \in Int /\ Transition \in Int /\ Change \in Int /\ Change >= 0
      /\ Later(Before - After, 0) \in Int /\ Later(After - Before, 0) \in Int
      /\ Change = Later(Before - After, 0) + Later(After - Before, 0)
  BY NowIsAnInstant, ZoneType DEF Later
<1> DEFINE slot == CanonicalRotationOccurrence(now)
<1>2. slot \in Int /\ slot <= now + Later(After - Before, 0)
  BY <1>1, NotFarAhead
<1> HIDE DEF slot
<1>3. CASE now < Transition
  BY <1>3 DEF Settled
<1>4. CASE now >= Transition
  <2>1. slot >= Transition + 120 + Change
    BY DEF slot
  <2>2. now >= Transition + 120 + Later(Before - After, 0)
    BY <1>1, <1>2, <2>1
  <2>3. QED
    BY <2>2 DEF Settled
<1>5. QED
  BY <1>1, <1>3, <1>4

LEMMA CountedStep ==
    ASSUME TypeOK, TypeOK', SlotsAreCounted, [Next]_vars
    PROVE  SlotsAreCounted'
<1> DEFINE number(u) == AbsoluteSlot(CanonicalRotationOccurrence(u))
<1>1. now \in Int
  BY NowIsAnInstant
<1>2. last # Never => last \in Int /\ AbsoluteSlot(last) \in Int
  BY NumbersAreIntegers DEF TypeOK
<1>3. CASE Ticks
  <2> SUFFICES ASSUME last # Never, SettledSinceRun'
               PROVE  SlotsAreCounted'
    BY <1>3 DEF Ticks, SlotsAreCounted
  <2>1. now' = now + 1 /\ last' = last /\ topic' = topic
    BY <1>3 DEF Ticks
  <2>2. SettledSinceRun
    BY <1>1, <2>1, ZoneType DEF SettledSinceRun
  <2>3. /\ last <= now
        /\ topic = TopicOf(last)
        /\ due => last < CanonicalRotationOccurrence(now)
        /\ number(now) = AbsoluteSlot(last) + passed + (IF due THEN 1 ELSE 0)
    BY <2>2 DEF SlotsAreCounted
  <2>4. Steady(now, 120) /\ Steady(now + 1, 120)
    BY <2>1, <2>2, <2>3, SettledRunIsSteady
  <2>5. number(now + 1) = number(now) + (IF IsSlot(now + 1) THEN 1 ELSE 0)
        /\ number(now) \in Int
    BY <1>1, <2>4, SlotNumberSteps, SlotIsLatest, NumbersAreIntegers
  <2>6. /\ CanonicalRotationOccurrence(now) \in Int
        /\ CanonicalRotationOccurrence(now + 1) \in Int
        /\ CanonicalRotationOccurrence(now) <= CanonicalRotationOccurrence(now + 1)
        /\ IsSlot(now + 1) => CanonicalRotationOccurrence(now + 1) = now + 1
    BY <1>1, <2>4, SlotsGrow, SlotOfASlot, SlotIsLatest
  <2>7. /\ due' = (due \/ (IsSlot(now + 1) /\ ~ running))
        /\ passed' = IF IsSlot(now + 1) /\ (running \/ due) THEN passed + 1 ELSE passed
    <3>1. Fold(now + 1) = 0
      BY <2>4 DEF Steady
    <3>2. ~ MayFire(now') /\ (Fires(now') <=> IsSlot(now + 1))
      BY <2>1, <3>1 DEF MayFire, Fires
    <3>3. PICK fires \in {Fires(now')} :
                /\ due' = (due \/ (fires /\ ~ running))
                /\ passed' = IF fires /\ (running \/ due) THEN passed + 1 ELSE passed
      BY <1>3, <3>2 DEF Ticks
    <3>4. QED
      BY <3>2, <3>3, Zenon
  <2>8. due' => last < CanonicalRotationOccurrence(now + 1)
    <3>1. due' => due \/ IsSlot(now + 1)
      BY <2>7, Zenon
    <3>2. QED
      BY <1>1, <1>2, <2>3, <2>6, <3>1
  <2>9. number(now + 1) = AbsoluteSlot(last) + passed' + (IF due' THEN 1 ELSE 0)
    <3>1. passed \in Int
      BY DEF TypeOK
    <3>2. CASE IsSlot(now + 1)
      <4>1. due' <=> due \/ ~ running
        BY <2>7, <3>2, Zenon
      <4>2. passed' = IF running \/ due THEN passed + 1 ELSE passed
        BY <2>7, <3>2
      <4>3. passed' + (IF due' THEN 1 ELSE 0) = passed + (IF due THEN 1 ELSE 0) + 1
        BY <3>1, <4>1, <4>2
      <4>4. QED
        BY <1>1, <1>2, <2>3, <2>5, <3>1, <3>2, <4>2, <4>3
    <3>3. CASE ~ IsSlot(now + 1)
      BY <1>1, <1>2, <2>3, <2>5, <2>7, <3>1, <3>3 DEF TypeOK
    <3>4. QED
      BY <3>2, <3>3
  <2>10. last <= now + 1
    BY <1>1, <1>2, <2>3
  <2>11. QED
    BY <2>1, <2>3, <2>8, <2>9, <2>10 DEF SlotsAreCounted
<1>4. CASE Starts
  <2>1. /\ last' = CanonicalRotationOccurrence(now) /\ topic' = TopicOf(last')
        /\ due' = FALSE /\ passed' = 0 /\ now' = now
    BY <1>4 DEF Starts
  <2> SUFFICES ASSUME SettledSinceRun'
               PROVE  SlotsAreCounted'
    BY DEF SlotsAreCounted
  <2>2. Settled(now, 120)
    BY <2>1, SettledRunStarts DEF SettledSinceRun, Settled
  <2>3. last' \in Int /\ last' <= now /\ AbsoluteSlot(last') \in Int
    BY <1>1, <2>1, <2>2, SettledIsSteady, SlotIsLatest, NumbersAreIntegers
  <2>4. AbsoluteSlot(last') = number(now)
    BY <2>1
  <2>5. QED
    BY <2>1, <2>3, <2>4 DEF SlotsAreCounted
<1>5. CASE Ends
  BY <1>5 DEF Ends, SlotsAreCounted, SettledSinceRun
<1>6. CASE UNCHANGED vars
  BY <1>6 DEF vars, SlotsAreCounted, SettledSinceRun
<1>7. QED
  BY <1>3, <1>4, <1>5, <1>6 DEF Next, Stays

\* The runs and the slots that were passed over account for every slot.
THEOREM EverySlotIsCounted == Spec => []SlotsAreCounted
<1>1. Init => SlotsAreCounted
  BY DEF Init, SlotsAreCounted
<1>2. TypeOK /\ TypeOK' /\ SlotsAreCounted /\ [Next]_vars => SlotsAreCounted'
  BY CountedStep
<1>3. QED
  BY <1>1, <1>2, TypeCorrect, PTL DEF Spec

\* The step that starts a run, and what is known of it.
LEMMA OnlyStartsRun ==
    ASSUME TypeOK, SlotsAreCounted, SettledSinceRun, [Next]_vars,
           last' # last \/ (running' /\ ~ running)
    PROVE  /\ due /\ last' = CanonicalRotationOccurrence(now) /\ topic' = TopicOf(last')
           /\ last # Never => last < last' /\ topic = TopicOf(last)
                              /\ AbsoluteSlot(last') = AbsoluteSlot(last) + passed + 1
<1>1. CASE Starts
  BY <1>1 DEF Starts, SlotsAreCounted
<1>2. CASE Ticks \/ Ends \/ UNCHANGED vars
  BY <1>2 DEF Ticks, Ends, vars
<1>3. QED
  BY <1>1, <1>2 DEF Next, Stays

\* However late they start, successive runs are given later and later slots.
THEOREM RunsGetLaterSlots == Spec => RunsMoveOn
<1>1. ASSUME TypeOK, TypeOK', SlotsAreCounted, [Next]_vars
      PROVE  [(last' # last \/ (running' /\ ~ running)) /\ SettledSinceRun =>
                last' > last]_vars
  <2> SUFFICES ASSUME last' # last \/ (running' /\ ~ running), SettledSinceRun
               PROVE  last' > last
    OBVIOUS
  <2>1. last' = CanonicalRotationOccurrence(now) /\ (last # Never => last < last')
    BY <1>1, OnlyStartsRun
  <2>2. last' \in Nat
    BY <1>1, <2>1, OccurrencesAreInstants DEF TypeOK
  <2>3. CASE last = Never
    BY <2>2, <2>3 DEF Never
  <2>4. CASE last # Never
    BY <1>1, <2>1, <2>2, <2>4 DEF TypeOK
  <2>5. QED
    BY <2>3, <2>4
<1>2. QED
  BY <1>1, TypeCorrect, EverySlotIsCounted, PTL DEF Spec, RunsMoveOn

\* The rotation passes topics over with slots that got no run, and with nothing else.
THEOREM NoTopicIsPassedOtherwise == Spec => TopicsArePassedWithSlots
<1>1. ASSUME TypeOK, SlotsAreCounted, [Next]_vars
      PROVE  [running' /\ ~ running /\ last # Never /\ SettledSinceRun =>
                topic' = (topic + 1 + passed) % TopicCount]_vars
  <2> SUFFICES ASSUME running' /\ ~ running /\ last # Never, SettledSinceRun
               PROVE  topic' = (topic + 1 + passed) % TopicCount
    OBVIOUS
  <2>1. /\ topic' = TopicOf(last') /\ topic = TopicOf(last)
        /\ AbsoluteSlot(last') = AbsoluteSlot(last) + passed + 1
    BY <1>1, OnlyStartsRun
  <2>2. /\ passed \in Nat /\ (1 + passed) \in Int
        /\ AbsoluteSlot(last) \in Int /\ topic \in Int
    BY <1>1, NumbersAreIntegers, TopicCountAssumption DEF TypeOK
  <2>3. AbsoluteSlot(last') = AbsoluteSlot(last) + (1 + passed)
        /\ topic + (1 + passed) = topic + 1 + passed
    BY <2>1, <2>2
  <2>4. (AbsoluteSlot(last) + (1 + passed)) % TopicCount =
            ((AbsoluteSlot(last) % TopicCount) + (1 + passed)) % TopicCount
    <3> DEFINE a == AbsoluteSlot(last)
               c == 1 + passed
    <3>1. a \in Int /\ c \in Int
      BY <2>2
    <3> HIDE DEF a, c
    <3>2. (a + c) % TopicCount = ((a % TopicCount) + c) % TopicCount
      BY <3>1, TopicCountAssumption, AddToRemainder
    <3>3. QED
      BY <3>2 DEF a, c
  <2>5. QED
    BY <2>1, <2>3, <2>4 DEF TopicOf
<1>2. QED
  BY <1>1, TypeCorrect, EverySlotIsCounted, PTL DEF Spec, TopicsArePassedWithSlots

-----------------------------------------------------------------------------
(* About a change. *)

\* How far the docstring of canonical_rotation_occurrence is off at worst: an
\* occurrence lies ahead of now by no more than the clocks went forward, and never
\* when they went back.
RunsAreHardlyEarly == last <= now + Later(After - Before, 0)

THEOREM RunsAreEarlyByTheChange == Spec => []RunsAreHardlyEarly
<1> DEFINE ahead == Later(After - Before, 0)
<1>1. ahead \in Nat
  BY ZoneType DEF Later
<1>2. Init => RunsAreHardlyEarly
  <2>1. Start \in Nat
    BY ClockAssumption
  <2> HIDE DEF ahead
  <2>2. QED
    BY <1>1, <2>1 DEF Init, RunsAreHardlyEarly, Never, ahead
<1>3. ASSUME TypeOK, RunsAreHardlyEarly, [Next]_vars
      PROVE  RunsAreHardlyEarly'
  <2>1. now \in Int /\ last \in Int
    BY <1>3, NowIsAnInstant DEF TypeOK, Never
  <2>2. CASE Ticks
    BY <1>1, <1>3, <2>1, <2>2 DEF Ticks, RunsAreHardlyEarly
  <2>3. CASE Starts
    BY <2>1, <2>3, NotFarAhead DEF Starts, RunsAreHardlyEarly
  <2>4. CASE Ends \/ UNCHANGED vars
    BY <1>3, <2>4 DEF Ends, vars, RunsAreHardlyEarly
  <2>5. QED
    BY <1>3, <2>2, <2>3, <2>4 DEF Next, Stays
<1>4. QED
  BY <1>2, <1>3, TypeCorrect, PTL DEF Spec
=============================================================================
