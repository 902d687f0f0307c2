CONSTANTS
    SP = SP
    NL = NL
    LongWord <- MCLongWord
    Word <- MCWord
    y = "y"
    Lines <- MCLines
    MaxLines = 4
    Garbage <- MCGarbage
    LocalDirs <- MCDirs
    RemoteDirs <- MCDirs
    FileNames <- MCFileNames
    RemoteWords <- MCRemoteWords

SPECIFICATION FairProgram

INVARIANT MenuInSession
INVARIANT ExitFrees
 

PROPERTY LostConnectionExits

\* the program exits
CHECK_DEADLOCK FALSE
