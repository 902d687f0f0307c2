CONSTANTS
    SP = SP
    NL = NL
    Word <- MCWord
    y = y
    n = n
    host = host
    long = long
    LongWord = {}
    Lines <- MCLines
    MaxLines = 3

SPECIFICATION Spec

INVARIANT TrustAnswered

CHECK_DEADLOCK FALSE
