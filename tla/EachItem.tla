------------------------------ MODULE EachItem ------------------------------
(***************************************************************************)
(* What going through a directory promises: its items are dealt with one   *)
(* after the other, none twice, and success is only reported when none is  *)
(* left.  A failure may leave any of them out.                             *)
(***************************************************************************)
EXTENDS Integers

VARIABLES
    left,     \* the items that are still to be dealt with
    status    \* "idle", "busy", "ok" or "error"

vars == <<left, status>>

Init == status = "idle"

Begin == status = "idle" /\ status' = "busy" /\ UNCHANGED left

Deal ==
    /\ status = "busy"
    /\ \E item \in left : left' = left \ {item}
    /\ UNCHANGED status

Succeed ==
    /\ status = "busy" /\ left = {}
    /\ status' = "ok" /\ UNCHANGED left

Fail ==
    /\ status \in {"idle", "busy"}
    /\ status' = "error" /\ UNCHANGED left

Next == Begin \/ Deal \/ Succeed \/ Fail

Spec == Init /\ [][Next]_vars
=============================================================================
