CONSTANTS
    Byte <- MCByte
    Contents <- MCContents
    Junk = junk
    Absent = absent
    BUFFER_SIZE = 2
    Faults = {"fread", "sftp_write", "sftp_read", "short_read", "fwrite", "fclose"}

SPECIFICATION FairSpec

INVARIANT TypeOK
INVARIANT PrefixOfSource
INVARIANT OneHandleLost

PROPERTY SourceFirst
PROPERTY Termination
PROPERTY CopySpec

\* push_single and pull_single return once
CHECK_DEADLOCK FALSE
