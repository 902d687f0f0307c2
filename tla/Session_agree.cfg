CONSTANTS
    SP = SP
    NL = NL
    Word <- MCWord
    y = y
    n = n
    host = host
    long = long
    LongWord <- MCLongWord
    Lines <- MCLines
    MaxLines = 3

SPECIFICATION Spec

INVARIANT WrittenOnlyIfAgreed

CHECK_DEADLOCK FALSE
