------------------------------ MODULE Transfer ------------------------------
(***************************************************************************)
(* push_single and pull_single of menuloop.c: one file is copied block by  *)
(* block between the local disk and the server, over a connection that may *)
(* be lost at any moment.  The two functions are mirror images: the source *)
(* is opened first, the destination second, then blocks of BUFFER_SIZE     *)
(* bytes are copied until one of them is short.  They differ in the calls  *)
(* that read, write and open, and so in what those calls can do wrong.     *)
(***************************************************************************)
EXTENDS Integers, SequencesExt

CONSTANTS
    Byte,          \* the bytes files are made of
    Junk,          \* a byte read from beyond the buffer
    Absent,        \* the contents of a file that does not exist
    Contents,      \* the contents a file may have before the transfer
    BUFFER_SIZE,   \* size of the block buffer
    Faults         \* the calls that may fall short although the
                   \* connection is up (see FaultKind), in some transfers

FaultKind == {"fread", "sftp_write", "sftp_read", "short_read", "fwrite", "fclose"}

ASSUME BufferAssumption == BUFFER_SIZE \in Nat \ {0}
ASSUME ContentsAssumption == Contents \subseteq Seq(Byte) /\ Junk \notin Byte
ASSUME FaultsAssumption == Faults \subseteq FaultKind

SSH_OK == 0
SSH_ERROR == -1

VARIABLES
    dir,      \* which function runs: "push" or "pull"
    faults,   \* the calls that may fall short in this transfer
    src,      \* contents of the source file
    dst,      \* contents of the destination file
    up,       \* the SSH connection is alive
    pc,       \* next statement of the function
    handle,   \* the two file handles: lfile is "local", rfile is "remote"
    buffer,   \* the block in transit
    pos,      \* how much of the source has been read
    nread,    \* result of the last fread / sftp_read
    nwrite,   \* result of the last sftp_write / fwrite
    rc        \* return code

vars == <<dir, faults, src, dst, up, pc, handle, buffer, pos, nread, nwrite, rc>>

Side == {"local", "remote"}
From == IF dir = "push" THEN "local" ELSE "remote"
To == IF dir = "push" THEN "remote" ELSE "local"

(* A call about the server's side of the transfer needs the connection. *)
Reachable(side) == side = "remote" => up

-----------------------------------------------------------------------------

Init ==
    /\ dir \in {"push", "pull"}
    /\ faults \in {{}, Faults}
    /\ src \in Contents
    /\ dst \in Contents \cup {Absent}
    /\ up = TRUE
    /\ pc = "open_source"
    /\ handle = [side \in Side |-> "null"]
    /\ buffer = <<>>
    /\ pos = 0
    /\ nread = 0 /\ nwrite = 0
    /\ rc = SSH_OK

(* Mutant of OpenSource: the return after a failed open is forgotten.      *)
OpenSourceNoReturn ==
    /\ pc = "open_source"
    /\ \/ Reachable(From) /\ handle' = [handle EXCEPT ![From] = "open"]
       \/ UNCHANGED handle
    /\ pc' = "open_dest"
    /\ UNCHANGED <<dir, faults, src, dst, up, buffer, pos, nread, nwrite, rc>>

(* fopen(.., "rb") when pushing, sftp_open(.., O_RDONLY) when pulling. *)
OpenSource ==
    /\ pc = "open_source"
    /\ \/ /\ Reachable(From)
          /\ handle' = [handle EXCEPT ![From] = "open"]
          /\ pc' = "open_dest"
          /\ UNCHANGED rc
       \/ /\ pc' = "return" /\ rc' = SSH_ERROR
          /\ UNCHANGED handle
    /\ UNCHANGED <<dir, faults, src, dst, up, buffer, pos, nread, nwrite>>

(* sftp_open(.., O_TRUNC) when pushing, fopen(.., "wb") when pulling.  The *)
(* function returns at once when the call fails; a request whose answer is *)
(* lost with the connection has been carried out nevertheless.             *)
OpenDest ==
    /\ pc = "open_dest"
    /\ \/ /\ Reachable(To)
          /\ handle' = [handle EXCEPT ![To] = "open"]
          /\ dst' = <<>>
          /\ pc' = "read"
          /\ UNCHANGED <<up, rc>>
       \/ /\ \/ UNCHANGED <<dst, up>>
             \/ To = "remote" /\ up /\ up' = FALSE /\ dst' = <<>>
          /\ pc' = "return" /\ rc' = SSH_ERROR
          /\ UNCHANGED handle
    /\ UNCHANGED <<dir, faults, src, buffer, pos, nread, nwrite>>

(* Mutant of Available: the block is not limited to the buffer.            *)
AvailableAll == Len(src) - pos

(* The bytes a read that goes well returns. *)
Available ==
    IF Len(src) - pos < BUFFER_SIZE THEN Len(src) - pos ELSE BUFFER_SIZE

Take(n) ==
    /\ buffer' = SubSeq(src, pos + 1, pos + n)
    /\ pos' = pos + n
    /\ nread' = n

(* fread stops early at the end of the file or at an error. *)
ReadLocal ==
    /\ pc = "read" /\ dir = "push"
    /\ \E n \in 0..Available :
          /\ n = Available \/ "fread" \in faults
          /\ Take(n)
    /\ pc' = "write"
    /\ UNCHANGED <<dir, faults, src, dst, up, handle, nwrite, rc>>

(* sftp_read may return fewer bytes than were asked for, 0 only at the end *)
(* of the file, and a negative value when it fails.                        *)
ReadRemote ==
    /\ pc = "read" /\ dir = "pull"
    /\ \/ \E n \in 0..Available :
             /\ up
             /\ n = Available \/ (n > 0 /\ "short_read" \in faults)
             /\ Take(n)
       \/ /\ up => "sftp_read" \in faults
          /\ nread' = -1
          /\ UNCHANGED <<buffer, pos>>
    /\ pc' = "write"
    /\ UNCHANGED <<dir, faults, src, dst, up, handle, nwrite, rc>>

(* Mutants of LoopAgain: the result of the write is not looked at, nor     *)
(* whether the block was full, or there is no loop.                        *)
LoopFullBlock == nread' = BUFFER_SIZE
LoopAllWritten == nread' = nwrite'
LoopNever == FALSE

(* The condition of the do-while loop, evaluated after the write. *)
LoopAgain == nread' = nwrite' /\ nread' = BUFFER_SIZE

Stored(n) == dst' = dst \o SubSeq(buffer, 1, n)

(* sftp_write: the server takes the block or only a part of it; or it      *)
(* fails, or its answer is lost with the connection, after some of the     *)
(* block was stored; or the connection was gone already.                   *)
SendBlock ==
    /\ pc = "write" /\ dir = "push"
    /\ \/ \E n \in 0..nread :
             /\ up
             /\ n = nread \/ "sftp_write" \in faults
             /\ Stored(n) /\ nwrite' = n
             /\ UNCHANGED up
       \/ \E n \in 0..nread :
             /\ up
             /\ up' = FALSE \/ (up' = TRUE /\ "sftp_write" \in faults)
             /\ Stored(n) /\ nwrite' = -1
       \/ /\ ~up
          /\ nwrite' = -1
          /\ UNCHANGED <<dst, up>>
    /\ UNCHANGED nread
    /\ pc' = IF LoopAgain THEN "read" ELSE "close"
    /\ UNCHANGED <<dir, faults, src, handle, buffer, pos, rc>>

(* fwrite of a block that was read. *)
StoreBlock ==
    /\ pc = "write" /\ dir = "pull" /\ nread >= 0
    /\ \E n \in 0..nread :
          /\ n = nread \/ "fwrite" \in faults
          /\ Stored(n) /\ nwrite' = n
    /\ UNCHANGED nread
    /\ pc' = IF LoopAgain THEN "read" ELSE "close"
    /\ UNCHANGED <<dir, faults, src, up, handle, buffer, pos, rc>>

(* fwrite(buffer, 1, nread, lfile) with nread = -1 asks for SIZE_MAX       *)
(* bytes: the process dies reading past the buffer, or bytes that never    *)
(* were in the source reach the file and some count comes back.            *)
StoreGarbage ==
    /\ pc = "write" /\ dir = "pull" /\ nread < 0
    /\ \/ /\ pc' = "crashed"
          /\ UNCHANGED <<dst, nread, nwrite>>
       \/ /\ dst' \in {dst, Append(dst, Junk)}
          /\ nwrite' \in {-1, 0}
          /\ UNCHANGED nread
          /\ pc' = IF LoopAgain THEN "read" ELSE "close"
    /\ UNCHANGED <<dir, faults, src, up, handle, buffer, pos, rc>>

(* Mutant of Close: fclose(lfile) is forgotten.                            *)
CloseRemoteOnly ==
    /\ pc = "close"
    /\ rc' \in IF up THEN {SSH_OK, SSH_ERROR} ELSE {SSH_ERROR}
    /\ handle' = [handle EXCEPT !["remote"] = "closed"]
    /\ pc' = "return"
    /\ UNCHANGED <<dir, faults, src, dst, up, buffer, pos, nread, nwrite>>

(* sftp_close(rfile), whose result is returned, then fclose(lfile), whose  *)
(* result is ignored: what stdio had not flushed yet may be lost with it.  *)
Close ==
    /\ pc = "close"
    /\ rc' \in IF up THEN {SSH_OK, SSH_ERROR} ELSE {SSH_ERROR}
    /\ handle' = [side \in Side |-> "closed"]
    /\ \/ UNCHANGED dst
       \/ /\ To = "local" /\ "fclose" \in faults
          /\ \E n \in 0..Len(dst) : dst' = SubSeq(dst, 1, n)
    /\ pc' = "return"
    /\ UNCHANGED <<dir, faults, src, up, buffer, pos, nread, nwrite>>

(* The network or the server goes away while the function runs. *)
LoseConnection ==
    /\ up /\ pc \notin {"return", "crashed"}
    /\ up' = FALSE
    /\ UNCHANGED <<dir, faults, src, dst, pc, handle, buffer, pos, nread, nwrite, rc>>

Step ==
    \/ OpenSource \/ OpenDest
    \/ ReadLocal \/ ReadRemote
    \/ SendBlock \/ StoreBlock \/ StoreGarbage
    \/ Close

Next == Step \/ LoseConnection

Spec == Init /\ [][Next]_vars

(* Every library call returns, so the function keeps going. *)
FairSpec == Spec /\ WF_vars(Step)

-----------------------------------------------------------------------------

(* Every variable holds a value of its C type. *)
TypeOK ==
    /\ dir \in {"push", "pull"} /\ faults \subseteq Faults
    /\ src \in Seq(Byte)
    /\ dst \in Seq(Byte \cup {Junk}) \cup {Absent}
    /\ up \in BOOLEAN
    /\ pc \in {"open_source", "open_dest", "read", "write", "close", "return", "crashed"}
    /\ handle \in [Side -> {"null", "open", "closed"}]
    /\ buffer \in Seq(Byte)
    /\ pos \in 0..Len(src)
    /\ nread \in -1..BUFFER_SIZE
    /\ nwrite \in -1..BUFFER_SIZE
    /\ rc \in {SSH_OK, SSH_ERROR}

Copy == INSTANCE FileCopy WITH
    status <- IF pc = "return" /\ rc = SSH_OK THEN "ok"
              ELSE IF pc \in {"return", "crashed"} \/ nread < 0 THEN "error"
              ELSE IF handle[To] = "open" THEN "copying" ELSE "idle"

(* When the calls only fail by returning an error to a caller that looks   *)
(* at it, or because the connection is gone, both functions keep the       *)
(* promise of FileCopy: whenever push_single or pull_single returns        *)
(* SSH_OK, the destination is the whole source.                            *)
CopySpec == Copy!Init /\ [][faults = {} => Copy!Next]_(Copy!vars)

(* Whatever falls short, what has been written is a prefix of the source:  *)
(* the loop never writes a block after one that was cut.  The exception is *)
(* a failed sftp_read, after which fwrite stores what was never read.      *)
PrefixOfSource ==
    handle[To] # "null" /\ nread >= 0 => IsPrefix(dst, src)

(* A file that is to be overwritten is touched only while the file it is   *)
(* to be replaced with is open: a mistyped name destroys nothing, on       *)
(* either side.                                                            *)
SourceFirst == [][dst' # dst => handle[From] = "open"]_vars

(* On return a handle can only be left open when the destination could not *)
(* be opened, it is the source's, and the caller is told of an error.      *)
OneHandleLost ==
    pc = "return" =>
        /\ handle[To] # "open"
        /\ handle[From] = "open" => handle[To] = "null" /\ rc = SSH_ERROR

(* The copy loop ends, also for sources whose size is a multiple of        *)
(* BUFFER_SIZE and when the connection is lost in the middle.              *)
Termination == <>(pc \in {"return", "crashed"})

(* Report.md: "Failure to read or write will print an error message and    *)
(* return an error code."                                                  *)
ErrorReported ==
    pc = "return" /\ (nread < 0 \/ nwrite # nread) => rc # SSH_OK
=============================================================================
