SPECIFICATION Spec
CONSTANTS
    Minutes = {5, 35}
    TopicCount = 5
    Hour = 0
    Minute = 30
    Transition <- MCForward
    Before <- MCWinter
    After <- MCSummer
    Start <- MCDawn
    Horizon <- MCChange
INVARIANT RunsAreNotEarly
