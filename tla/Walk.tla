-------------------------------- MODULE Walk --------------------------------
(***************************************************************************)
(* What "change directory" promises: one walks in a tree, a step at a      *)
(* time, down into a directory that was found there or back up, but not    *)
(* above where it began; who is told "failed" has stayed where he was.      *)
(***************************************************************************)
EXTENDS SequencesExt

CONSTANT home   \* where the walk begins

VARIABLES
    where,   \* the current directory: names from the root
    found,   \* the directories that could be opened
    answer   \* what the latest call told: "moved" or "failed"

vars == <<where, found, answer>>

Init == where = home /\ home \in found /\ answer = "moved"

Stay == where' = where
Down == answer' = "moved" /\ \E d \in found' : Front(d) = where /\ where' = d
Up == answer' = "moved" /\ where # home /\ where' = Front(where)

Next ==
    /\ found \subseteq found'
    /\ answer' \in {"moved", "failed"}
    /\ Stay \/ Down \/ Up

Spec == Init /\ [][Next]_vars
=============================================================================
