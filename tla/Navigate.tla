------------------------------ MODULE Navigate ------------------------------
(***************************************************************************)
(* change_remote_directory and change_local_directory of menuloop.c, with  *)
(* the names a user may really type: a name may have slashes in it, end in *)
(* one, or be made of dots, and the directories it is about may come and   *)
(* go.  A path is the sequence of the parts between its slashes; a slash   *)
(* at the end leaves an empty part.  The functions are the same but for    *)
(* the calls that open and close the directory.                            *)
(***************************************************************************)
EXTENDS Integers, SequencesExt

CONSTANTS
    Tree,      \* the directories that may exist: sequences of names
    Start,     \* the directory the session starts in
    Users,     \* the names a user may type: sets of sequences of parts
    MaxParts   \* bound: parts of a path

Dots == {"", ".", ".."}

ASSUME TreeAssumption ==
    /\ Start \in Tree /\ Tree \subseteq Seq(STRING \ Dots)
    /\ \A d \in Tree \ {<<>>} : Front(d) \in Tree
ASSUME UsersAssumption ==
    MaxParts \in Nat /\ \A u \in Users : u \subseteq Seq(STRING) \ {<<>>}

SSH_OK == 0
SSH_ERROR == -1
ERRNO == 1          \* any value of errno after a failed call

VARIABLES
    side,      \* which function: "local" or "remote"
    names,     \* what this user types
    up,        \* the SSH connection is alive
    dirs,      \* the directories that exist
    path,      \* the current path, without the "." it starts with
    pc,        \* next statement of the function
    name,      \* what was typed: dirname
    rdirpath,  \* the path that is to be checked
    seen,      \* history: the directories that were on a path which could be opened
    rc         \* return code

vars == <<side, names, up, dirs, path, pc, name, rdirpath, seen, rc>>

Init ==
    /\ side \in {"local", "remote"} /\ names \in Users
    /\ up = TRUE
    /\ dirs = Tree
    /\ path = <<>>
    /\ pc = "menu"
    /\ name = <<>> /\ rdirpath = <<>>
    /\ seen = {Start}
    /\ rc = SSH_OK

Failure == IF side = "remote" THEN SSH_ERROR ELSE ERRNO

(* The session's directory stays; others are removed, with all below them, *)
(* and made again.                                                         *)
TreeChanges ==
    /\ \/ \E d \in dirs : ~IsPrefix(d, Start) /\ dirs' = {e \in dirs : ~IsPrefix(d, e)}
       \/ \E d \in Tree \ dirs : Front(d) \in dirs /\ dirs' = dirs \cup {d}
    /\ UNCHANGED <<side, names, up, path, pc, name, rdirpath, seen, rc>>

LoseConnection ==
    /\ up /\ up' = FALSE
    /\ UNCHANGED <<side, names, dirs, path, pc, name, rdirpath, seen, rc>>

-----------------------------------------------------------------------------

Parent(d) == IF d = <<>> THEN d ELSE Front(d)

(* Where a path leads, as the file system follows it from Start.           *)
Follow(d, part) ==
    CASE part \in {"", "."} -> d
      [] part = ".." -> Parent(d)
      [] OTHER -> Append(d, part)
Where(p) ==
    LET at[n \in 0..Len(p)] == IF n = 0 THEN Start ELSE Follow(at[n - 1], p[n])
    IN  at[Len(p)]
Heads(p) == {SubSeq(p, 1, n) : n \in 0..Len(p)}
Exists(p) == \A q \in Heads(p) : Where(q) \in dirs

(* strrchr finds the last slash, where the path is cut off; "." has none.  *)
Trim(p) == IF p = <<>> THEN p ELSE Front(p)

(* The function is called with the name the user typed. *)
ChangeDirectory ==
    /\ pc = "menu"
    /\ \E n \in names :
          /\ name' = n
          /\ \/ /\ n = <<"..">>
                /\ path' = Trim(path)
                /\ rc' = SSH_OK
                /\ UNCHANGED <<pc, rdirpath>>
             \/ /\ n # <<"..">>
                /\ Len(path) + Len(n) <= MaxParts
                /\ rdirpath' = path \o n
                /\ pc' = "opendir"
                /\ UNCHANGED <<path, rc>>
    /\ UNCHANGED <<side, names, up, dirs, seen>>

Return(code) == pc' = "menu" /\ rc' = code

(* Mutant of CloseDir: the path is written before closing.                 *)
CloseDirLate ==
    /\ pc = "closedir"
    /\ path' = rdirpath
    /\ \/ (side = "remote" => up) /\ Return(SSH_OK)
       \/ Return(Failure)
    /\ UNCHANGED <<side, names, up, dirs, name, rdirpath, seen>>

(* Mutant of OpenDir: what it returns is not looked at.                    *)
OpenDirUnchecked ==
    /\ pc = "opendir"
    /\ pc' = "closedir"
    /\ UNCHANGED <<side, names, up, dirs, path, name, rdirpath, seen, rc>>

(* sftp_opendir, opendir *)
OpenDir ==
    /\ pc = "opendir"
    /\ \/ /\ Exists(rdirpath)
          /\ side = "remote" => up
          /\ seen' = seen \cup {Where(q) : q \in Heads(rdirpath)}
          /\ pc' = "closedir" /\ UNCHANGED rc
       \/ Return(Failure) /\ UNCHANGED seen
    /\ UNCHANGED <<side, names, up, dirs, path, name, rdirpath>>

(* sftp_closedir, closedir; then the new path is written over the old one. *)
CloseDir ==
    /\ pc = "closedir"
    /\ \/ /\ side = "remote" => up
          /\ path' = rdirpath /\ Return(SSH_OK)
       \/ Return(Failure) /\ UNCHANGED path
    /\ UNCHANGED <<side, names, up, dirs, name, rdirpath, seen>>

Next == ChangeDirectory \/ OpenDir \/ CloseDir \/ TreeChanges \/ LoseConnection

Spec == Init /\ [][Next]_vars

-----------------------------------------------------------------------------

TypeOK ==
    /\ side \in {"local", "remote"} /\ names \in Users /\ up \in BOOLEAN
    /\ dirs \subseteq Tree /\ seen \subseteq Tree
    /\ pc \in {"menu", "opendir", "closedir"}
    /\ name \in names \cup {<<>>}
    /\ path \in Seq(STRING) /\ rdirpath \in Seq(STRING)
    /\ {Len(path), Len(rdirpath)} \subseteq 0..MaxParts
    /\ rc \in {SSH_OK, SSH_ERROR, ERRNO}

(* Wherever the path leads, and however often ".." is typed from there,    *)
(* one comes to a directory that was there when the path to it was         *)
(* entered, though names were typed together or the tree has changed.      *)
WasThere == \A q \in Heads(path) : Where(q) \in seen

(* This user types one plain name at a time, or "..".                      *)
Plain == \A n \in names : Len(n) = 1 /\ n[1] \notin {"", "."}

Walking == INSTANCE Walk WITH
    home <- Start, where <- IF Plain THEN Where(path) ELSE Start, found <- seen,
    answer <- IF rc = SSH_OK THEN "moved" ELSE "failed"

(* For such a user the two functions are a walk in the tree: ".." undoes   *)
(* the last step down and no more, no directory is entered that was not    *)
(* there, and a call that fails, at its last statement too, leaves the     *)
(* user where he was, however the tree changes.                            *)
WalkSpec == Walking!Spec
=============================================================================
