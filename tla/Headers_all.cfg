CONSTANTS
    Structs <- MCStructs
    MaxSet = 2
    MaxObjects = 4
    INT_MAX = 7
    SIZE_MAX = 40

SPECIFICATION MCSpec

INVARIANT HandlesAlive
INVARIANT NothingKept
INVARIANT BytesTold
INVARIANT CallsWhatIsSet

PROPERTY NoneMissed

\* read and write return; all objects that may be made were made and freed
CHECK_DEADLOCK FALSE
