CONSTANTS
    Calls = {"pulla", "pusha", "lsr", "lsl"}
    MaxItems = 3
    Listings <- MCListings

SPECIFICATION FairSpec

INVARIANT CountsTrue
INVARIANT KnowWhatMoved
INVARIANT ListedOnce

PROPERTY EveryItem
PROPERTY Returns

\* the functions return
CHECK_DEADLOCK FALSE
