----------------------------- MODULE Directory -----------------------------
(***************************************************************************)
(* The four functions of menuloop.c that go through a directory:           *)
(* pull_all_files, push_all_files, list_remote_stuff and list_local_stuff. *)
(* Each opens the directory, deals with one entry after the other, closes  *)
(* it and returns; they differ in what they do with an entry and in how    *)
(* they tell the end of the directory from an error.  The transfer of one  *)
(* file is a single step here, with the outcomes that Transfer allows.     *)
(***************************************************************************)
EXTENDS Integers, SequencesExt, FiniteSetsExt

CONSTANTS
    Calls,      \* which of the four functions are called
    Listings    \* what a directory may hold: sequences over Entry

(* pull_all_files, push_all_files, list_remote_stuff and list_local_stuff, *)
(* by their commands' names.                                               *)
Call == {"pulla", "pusha", "lsr", "lsl"}
Remote == {"pulla", "lsr"}
Moving == {"pulla", "pusha"}

(* An entry is a file, a folder, a link to either, a special file such as  *)
(* a named pipe, or a file whose type is not told; its name may start with *)
(* a dot.                                                                  *)
Kind == {"file", "folder", "filelink", "folderlink", "special", "untyped"}
Entry == [hidden : BOOLEAN, kind : Kind]

ASSUME DirectoryAssumption ==
    Calls \subseteq Call /\ Listings \subseteq Seq(Entry)

SSH_OK == 0
SSH_ERROR == -1
ERRNO == 1          \* any value of errno after a failed call

VARIABLES
    op,            \* the function that runs
    items,         \* the entries, in the order they are read
    loud,          \* no transfer returns SSH_OK that was cut short (see Transfer)
    up,            \* the SSH connection is alive
    pc,            \* next statement
    dir,           \* the directory handle
    eof,           \* sftp_dir_eof(dir)
    cursor,        \* how many entries were read
    copy,          \* what the other side has of each entry
    filecount, foldercount,
    shown,         \* the entries printed, by their index
    held,          \* sftp_attributes that were not freed
    reported,      \* the two counts were printed
    rc             \* return code

vars == <<op, items, loud, up, pc, dir, eof, cursor, copy, filecount, foldercount,
          shown, held, reported, rc>>
call == <<op, items, loud>>
counts == <<filecount, foldercount>>

Init ==
    /\ op \in Calls /\ items \in Listings /\ loud \in BOOLEAN
    /\ up = TRUE
    /\ pc = "opendir" /\ dir = "null" /\ eof = FALSE
    /\ cursor = 0
    /\ copy = [i \in DOMAIN items |-> "none"]
    /\ filecount = 0 /\ foldercount = 0
    /\ shown = <<>> /\ held = 0
    /\ reported = FALSE
    /\ rc = SSH_OK

(* What the functions return for a call that failed. *)
Failure == IF op \in Remote THEN SSH_ERROR ELSE ERRNO

LoseConnection ==
    /\ up /\ pc \notin {"return", "crashed"}
    /\ up' = FALSE
    /\ UNCHANGED <<call, pc, dir, eof, cursor, copy, counts, shown, held, reported, rc>>

-----------------------------------------------------------------------------

(* sftp_opendir, opendir *)
OpenDir ==
    /\ pc = "opendir"
    /\ \/ /\ op \in Remote => up
          /\ dir' = "open" /\ pc' = "readdir" /\ UNCHANGED rc
       \/ pc' = "return" /\ rc' = Failure /\ UNCHANGED dir
    /\ UNCHANGED <<call, up, eof, cursor, copy, counts, shown, held, reported>>

(* sftp_readdir, readdir: one more entry.  The server sends entries in     *)
(* batches, so that some may still come when the connection is lost.       *)
ReadEntry ==
    /\ pc = "readdir" /\ cursor < Len(items)
    /\ cursor' = cursor + 1
    /\ held' = IF op \in Remote THEN held + 1 ELSE held
    /\ pc' = "entry"
    /\ UNCHANGED <<call, up, dir, eof, copy, counts, shown, reported, rc>>

(* Mutant of ReadNull: only the end of the directory ends the loop.        *)
ReadNullRetry ==
    /\ pc = "readdir" /\ cursor = Len(items)
    /\ op \in Remote => up
    /\ eof' = (op \in Remote) /\ pc' = "end"
    /\ UNCHANGED <<call, up, dir, cursor, copy, counts, shown, held, reported, rc>>

(* NULL, at the end or at an error. *)
ReadNull ==
    /\ pc = "readdir"
    /\ \/ op \in Remote /\ up /\ cursor = Len(items) /\ eof' = TRUE
       \/ op \in Remote /\ UNCHANGED eof
       \/ op \notin Remote /\ UNCHANGED eof
    /\ pc' = "end"
    /\ UNCHANGED <<call, up, dir, cursor, copy, counts, shown, held, reported, rc>>

(* The name begins with a dot; list_local_stuff prints such names too.     *)
Skipped(e) == e.hidden /\ op # "lsl"

(* What counts as a folder: type 2 for pull_all_files, everything but      *)
(* DT_REG for push_all_files.                                              *)
Folder(e) == IF op = "pulla" THEN e.kind = "folder" ELSE e.kind # "file"

AtEntry == pc = "entry" /\ ~Skipped(items[cursor])

SkipEntry ==
    /\ pc = "entry" /\ Skipped(items[cursor])
    /\ pc' = "readdir"
    /\ UNCHANGED <<call, up, dir, eof, cursor, copy, counts, shown, held, reported, rc>>

CountFolder ==
    /\ AtEntry /\ op \in Moving /\ Folder(items[cursor])
    /\ foldercount' = foldercount + 1
    /\ pc' = "readdir"
    /\ UNCHANGED <<call, up, dir, eof, cursor, copy, filecount, shown, held, reported, rc>>

(* Mutant of Moved: failed transfers are counted too.                      *)
MovedAnyway(part, alive) == up

(* pull_single or push_single may return SSH_OK, leaving part of the file: *)
(* all of it, or less when a fault goes unnoticed.  Reading a link to a    *)
(* folder is such a fault.                                                 *)
Moved(part, alive) ==
    /\ up /\ alive
    /\ \/ part = "whole"
       \/ part = "cut" /\ (~loud \/ items[cursor].kind = "folderlink")

(* pull_single writes to its file after a failed read, which may be the    *)
(* end of the process.                                                     *)
Crashed(part, alive) ==
    /\ up /\ op = "pulla" /\ part = "cut"
    /\ ~alive \/ ~loud \/ items[cursor].kind = "folderlink"

(* pull_single, push_single, during which the connection may be lost. *)
MoveFile ==
    /\ AtEntry /\ op \in Moving /\ ~Folder(items[cursor])
    /\ \E part \in {"none", "cut", "whole"}, alive \in {up, FALSE} :
          /\ up' = alive
          /\ up \/ part = "none"
          /\ copy' = [copy EXCEPT ![cursor] = part]
          /\ \/ Moved(part, alive) /\ filecount' = filecount + 1 /\ pc' = "readdir"
             \/ UNCHANGED filecount /\ pc' = "readdir"
             \/ Crashed(part, alive) /\ UNCHANGED filecount /\ pc' = "crashed"
    /\ UNCHANGED <<call, dir, eof, cursor, foldercount, shown, held, reported, rc>>

(* Mutant of PrintEntry: the attributes are not freed.                     *)
PrintEntryKeeps ==
    /\ AtEntry /\ op \notin Moving
    /\ shown' = Append(shown, cursor)
    /\ pc' = "readdir"
    /\ UNCHANGED <<call, up, dir, eof, cursor, copy, counts, held, reported, rc>>

(* sftp_open of a named pipe is not answered before somebody writes to it, *)
(* on the server, or the connection is lost.                               *)
WaitForWriter ==
    /\ AtEntry /\ op = "pulla" /\ up /\ items[cursor].kind = "special"
    /\ pc' = "blocked"
    /\ UNCHANGED <<call, up, dir, eof, cursor, copy, counts, shown, held, reported, rc>>

PullFails ==
    /\ pc = "blocked" /\ ~up
    /\ pc' = "readdir"
    /\ UNCHANGED <<call, up, dir, eof, cursor, copy, counts, shown, held, reported, rc>>

(* printf; list_remote_stuff then frees the attributes. *)
PrintEntry ==
    /\ AtEntry /\ op \notin Moving
    /\ shown' = Append(shown, cursor)
    /\ held' = IF op = "lsr" THEN held - 1 ELSE held
    /\ pc' = "readdir"
    /\ UNCHANGED <<call, up, dir, eof, cursor, copy, counts, reported, rc>>

(* Mutant of CannotList: sftp_dir_eof is not asked.                        *)
CannotListNever == FALSE

CannotList == op \in Remote /\ ~eof

(* Mutant of BreakOff: the directory is not closed.                        *)
BreakOffOpen ==
    /\ pc = "end" /\ CannotList
    /\ pc' = "return" /\ rc' = SSH_ERROR
    /\ UNCHANGED <<call, up, dir, eof, cursor, copy, counts, shown, held, reported>>

(* The listing broke off: the directory is closed, whatever that gives.    *)
BreakOff ==
    /\ pc = "end" /\ CannotList
    /\ dir' = "closed"
    /\ pc' = "return" /\ rc' = SSH_ERROR
    /\ UNCHANGED <<call, up, eof, cursor, copy, counts, shown, held, reported>>

(* "report before closing so a failed close still tells what was moved"    *)
Report ==
    /\ pc = "end" /\ ~CannotList
    /\ reported' = (op \in Moving)
    /\ pc' = "closedir"
    /\ UNCHANGED <<call, up, dir, eof, cursor, copy, counts, shown, held, rc>>

(* sftp_closedir, closedir *)
CloseDir ==
    /\ pc = "closedir"
    /\ dir' = "closed"
    /\ rc' \in IF op \in Remote /\ ~up THEN {Failure} ELSE {SSH_OK, Failure}
    /\ pc' = "return"
    /\ UNCHANGED <<call, up, eof, cursor, copy, counts, shown, held, reported>>

Step ==
    \/ OpenDir \/ ReadEntry \/ ReadNull
    \/ SkipEntry \/ CountFolder \/ PrintEntry
    \/ MoveFile \/ WaitForWriter \/ PullFails
    \/ BreakOff \/ Report \/ CloseDir

Next == Step \/ LoseConnection

Spec == Init /\ [][Next]_vars

(* Every library call returns, and so do the transfers (see Transfer).     *)
FairSpec == Spec /\ WF_vars(Step)

-----------------------------------------------------------------------------

TypeOK ==
    /\ op \in Call /\ items \in Seq(Entry) /\ loud \in BOOLEAN
    /\ up \in BOOLEAN /\ eof \in BOOLEAN /\ reported \in BOOLEAN
    /\ pc \in {"opendir", "readdir", "entry", "blocked", "end", "closedir", "return",
              "crashed"}
    /\ dir \in {"null", "open", "closed"}
    /\ cursor \in 0..Len(items)
    /\ copy \in [DOMAIN items -> {"none", "cut", "whole"}]
    /\ filecount \in 0..Len(items) /\ foldercount \in 0..Len(items)
    /\ shown \in Seq(DOMAIN items) /\ held \in 0..Len(items)
    /\ rc \in {SSH_OK, SSH_ERROR, ERRNO}

(* The entries dealt with. *)
Done == 1..(IF pc \in {"entry", "blocked", "crashed"} THEN cursor - 1 ELSE cursor)

(* A file is counted as moved only if it is on the other side: all of it,  *)
(* where no transfer fails without a word and the entry is no link to a    *)
(* folder, and in part at least otherwise.  The second count is of all     *)
(* visible entries that were not tried.                                    *)
CountsTrue ==
    op \in Moving =>
        /\ filecount <= Cardinality({i \in Done :
              \/ copy[i] = "whole"
              \/ copy[i] = "cut" /\ (~loud \/ items[i].kind = "folderlink")})
        /\ foldercount =
              Cardinality({i \in Done : ~items[i].hidden /\ Folder(items[i])})

(* Whatever goes wrong, once the directory has been read to its end the    *)
(* user is told how much was moved before an error is returned.            *)
KnowWhatMoved ==
    /\ pc = "return" /\ filecount > 0 /\ ~CannotList => reported
    /\ pc = "return" => dir # "open"

(* The listings show each entry once, in order, and the remote one holds   *)
(* on only to the attributes of names it does not show.                    *)
ListedOnce ==
    /\ op = "lsl" => shown = [i \in Done |-> i]
    /\ op = "lsr" =>
          /\ ToSet(shown) = {i \in Done : ~items[i].hidden}
          /\ \A j, k \in DOMAIN shown : j < k => shown[j] < shown[k]
          /\ held <= Cardinality({i \in 1..cursor : items[i].hidden \/ i \notin Done})

(* The local two cannot tell an error of readdir from the end.             *)
Items == INSTANCE EachItem WITH
    left <- IF op \in Remote THEN DOMAIN items \ Done ELSE {},
    status <- IF pc = "return" THEN IF rc = SSH_OK THEN "ok" ELSE "error"
              ELSE IF pc = "crashed" THEN "error"
              ELSE IF dir = "open" THEN "busy" ELSE "idle"

(* pull_all_files and list_remote_stuff return 0 only when they have dealt *)
(* with every entry: a listing that breaks off is not taken for its end.   *)
EveryItem == Items!Spec

(* All four return, or die in a transfer, also when the connection is lost *)
(* while there are entries left; but pull_all_files may wait for a special *)
(* file for as long as the connection is up.                               *)
Pipe == op = "pulla" /\ \E i \in DOMAIN items : ~items[i].hidden /\ items[i].kind = "special"
Returns == ~(Pipe /\ up) ~> pc \in {"return", "crashed"}

(* "pulla pull all regular files" (menuloop.c:23); "If the item is not a   *)
(* regular files it is skipped" (Report.md:30, :36): what is moved is a    *)
(* regular file (or may be one), not a link nor a special file.            *)
OnlyRegularFiles ==
    \A i \in DOMAIN items : copy[i] # "none" => items[i].kind \in {"file", "untyped"}
=============================================================================
