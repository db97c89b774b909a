\* One rule that must hold for two minutes, three faults.
CONSTANTS
    a = a
    Rules = {a}
    For <- TwoMinutes
    Longest = 2
    MaxGap = 2
    MaxFaults = 3
    No = No
SPECIFICATION FairSpec
INVARIANTS TypeOK MessagesAlternate FiresOnlyIfHeld
PROPERTIES AlertBegins AlertEnds
CHECK_DEADLOCK TRUE
