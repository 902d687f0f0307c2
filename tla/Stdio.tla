------------------------------- MODULE Stdio -------------------------------
(***************************************************************************)
(* The calls of the C library that main.c and menuloop.c read standard     *)
(* input with.  What the user types is a sequence s of words, blanks and   *)
(* ends of line, of which the first k have been read.  Each call is given  *)
(* by where in s it finds what it reads and where it stops.                *)
(***************************************************************************)
EXTENDS Integers, SequencesExt, FiniteSetsExt

CONSTANTS
    SP, NL,      \* a blank, the end of a line
    LongWord     \* the words that fill what room is left in a short buffer

White == {SP, NL}

(* scanf("%s", ..) skips white space, reads a word, and leaves what        *)
(* follows the word, be it only the end of the line.                       *)
WordsLeft(s, k) == {i \in (k + 1)..Len(s) : s[i] \notin White}
HasWord(s, k) == WordsLeft(s, k) # {}
NextWord(s, k) == Min(WordsLeft(s, k))

(* fgets(buf, sizeof(buf), stdin) reads up to and with the end of the      *)
(* line, or as much as buf can hold.                                       *)
LineEnd(s, k) ==
    LET stops == {i \in (k + 1)..Len(s) : s[i] = NL \/ s[i] \in LongWord}
    IN  IF stops = {} THEN Len(s) ELSE Min(stops)

(* scanf(" %[^\n]s", ..) skips white space and reads what is left of the   *)
(* line, but not its end.                                                  *)
RestEnd(s, k) ==
    LET ends == {i \in (NextWord(s, k) + 1)..Len(s) : s[i] = NL}
    IN  IF ends = {} THEN Len(s) ELSE Min(ends) - 1

-----------------------------------------------------------------------------

(* The line something stands on, and how many lines were ended. *)
EndsBefore(s, i) == {k \in 1..(i - 1) : s[k] = NL}
Line(s, i) == Cardinality(EndsBefore(s, i)) + 1
Ends(s) == Cardinality({k \in 1..Len(s) : s[k] = NL})
=============================================================================
