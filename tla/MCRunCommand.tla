---------------------------- MODULE MCRunCommand ----------------------------
(***************************************************************************)
(* RunCommand for TLC: every command of up to MaxDeeds deeds.              *)
(***************************************************************************)
EXTENDS RunCommand

CONSTANT MaxDeeds   \* bound: how long a script is

MCScripts == UNION {[1..n -> Deed] : n \in 0..MaxDeeds}
=============================================================================
