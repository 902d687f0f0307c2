CONSTANTS
    SP = SP
    NL = NL
    LongWord <- MCLongWord
    Lines <- MCLines
    MaxLines = 3
    FileNames <- MCFileNames
    RemoteWords <- MCRemoteWords
    Garbage <- MCGarbage
    LocalDirs <- MCLocalDirs
    RemoteDirs <- MCRemoteDirs

SPECIFICATION FairSpec

INVARIANT TypeOK
INVARIANT InStep
INVARIANT RunOnce
INVARIANT NeverOops

PROPERTY DirectoryMoves
PROPERTY LostConnectionEnds

\* menuloop returns
CHECK_DEADLOCK FALSE
