----------------------------- MODULE MCSession -----------------------------
(***************************************************************************)
(* Session for TLC.  The lines are empty, one word, two words, a word too  *)
(* long for buf in front or behind, and blanks.                            *)
(***************************************************************************)
EXTENDS Session

CONSTANTS n, host, long

MCWord == {y, n, host, long}
MCLongWord == {long}
MCLines == {<<>>, <<SP>>, <<y>>, <<n>>, <<host>>, <<SP, y>>, <<host, SP, y>>,
            <<host, SP, long, SP, y>>, <<long>>, <<long, SP, y>>}
=============================================================================
