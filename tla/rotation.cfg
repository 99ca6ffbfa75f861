SPECIFICATION Spec
CONSTANTS
    Minutes = {5, 35}
    TopicCount = 5
    Hour = 0
    Minute = 30
    Transition <- MCBack
    Before <- MCSummer
    After <- MCWinter
    Start <- MCStart
    Horizon <- MCHorizon
INVARIANTS TypeOK SlotsAreCounted LatestSlot LatestDay RotationMovesOn
PROPERTIES RunsMoveOn TopicsArePassedWithSlots
