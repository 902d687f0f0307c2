CONSTANTS
    Tree <- MCTree
    Start <- MCStart
    Users <- MCUsers
    MaxParts = 3

SPECIFICATION Spec

INVARIANT WasThere

PROPERTY WalkSpec
