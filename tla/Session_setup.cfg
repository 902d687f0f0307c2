CONSTANTS
    SP = SP
    NL = NL
    Word <- MCWord
    y = y
    n = n
    host = host
    long = long
    LongWord <- MCLongWord
    Lines <- MCLines
    MaxLines = 3

SPECIFICATION FairSpec

INVARIANT TypeOK
INVARIANT PasswordToKnownHost
INVARIANT LetInByNextLine
INVARIANT LeakOnlyWithoutSftp
INVARIANT HashReleased

PROPERTY TeardownOrder
PROPERTY EndOfInputEndsDialogue

\* the program exits
CHECK_DEADLOCK FALSE
