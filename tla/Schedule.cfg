SPECIFICATION Spec
CONSTANTS
    Hours = 3
    Minutes = 2
    Days = 7
    MaxAmount = 3
    MaxDelay = 11
INVARIANT NextRunIsTheFirst
PROPERTY EachMomentIsServedOnce
CHECK_DEADLOCK FALSE
