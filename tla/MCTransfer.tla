----------------------------- MODULE MCTransfer -----------------------------
(***************************************************************************)
(* Transfer for TLC.  The bytes of a file are all different, so that a     *)
(* block lost, repeated or out of place changes the contents; the lengths  *)
(* reach from the empty file over one exact block and two exact blocks to  *)
(* two blocks and a byte.                                                  *)
(***************************************************************************)
EXTENDS Transfer

MCByte == 1..5
MCContents == {[i \in 1..n |-> i] : n \in 0..5}
=============================================================================
