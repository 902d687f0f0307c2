CONSTANTS
    Byte <- MCByte
    Contents <- MCContents
    Junk = junk
    Absent = absent
    BUFFER_SIZE = 2
    Faults = {"fread", "sftp_write", "sftp_read", "short_read", "fwrite", "fclose"}

SPECIFICATION Spec

INVARIANT ErrorReported

CHECK_DEADLOCK FALSE
