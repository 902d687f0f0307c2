CONSTANTS
    Calls = {"pulla"}
    MaxItems = 2
    Listings <- MCListings

SPECIFICATION Spec

INVARIANT OnlyRegularFiles

CHECK_DEADLOCK FALSE
