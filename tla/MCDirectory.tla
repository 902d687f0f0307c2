---------------------------- MODULE MCDirectory ----------------------------
(***************************************************************************)
(* Directory for TLC: directories of up to MaxItems entries.               *)
(***************************************************************************)
EXTENDS Directory

CONSTANT MaxItems   \* bound: how many entries a directory has

Hidden == [hidden : {TRUE}, kind : {"file", "folder"}]
Visible == [hidden : {FALSE}, kind : Kind]

MCListings == UNION {[1..n -> Hidden \cup Visible] : n \in 0..MaxItems}
=============================================================================
