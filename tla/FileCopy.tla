------------------------------ MODULE FileCopy ------------------------------
(***************************************************************************)
(* What "push one file" and "pull one file" promise, whatever the calls    *)
(* they are built from: the destination is replaced by ever longer         *)
(* prefixes of the source, and a transfer that reports success has copied  *)
(* the whole source.  A transfer that reports an error promises nothing    *)
(* about the destination.                                                  *)
(***************************************************************************)
EXTENDS Integers, SequencesExt

VARIABLES
    src,     \* contents of the file being copied
    dst,     \* contents of the file it is copied to
    status   \* "idle", "copying", "ok" or "error"

vars == <<src, dst, status>>

Init == status = "idle"

(* The destination is opened for writing, which empties it. *)
Begin ==
    /\ status = "idle"
    /\ status' = "copying"
    /\ dst' = <<>>
    /\ UNCHANGED src

(* A block has arrived: the destination is a longer prefix of the source. *)
Grow ==
    /\ status = "copying"
    /\ Len(dst) < Len(dst') /\ IsPrefix(dst', src)
    /\ UNCHANGED <<src, status>>

Succeed ==
    /\ status = "copying"
    /\ dst = src
    /\ status' = "ok"
    /\ UNCHANGED <<src, dst>>

(* The transfer is given up; the destination is left in any state. *)
Fail ==
    /\ status \in {"idle", "copying"}
    /\ status' = "error"
    /\ UNCHANGED src

(* What is left of a transfer already given up may still change the file. *)
Abandoned == status = "error" /\ UNCHANGED <<src, status>>

Next == Begin \/ Grow \/ Succeed \/ Fail \/ Abandoned

Spec == Init /\ [][Next]_vars
=============================================================================
