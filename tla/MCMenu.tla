------------------------------- MODULE MCMenu -------------------------------
(***************************************************************************)
(* Menu for TLC: a command of every kind, typed alone or together with its *)
(* argument, names that are and are not directories, blanks and a name     *)
(* with one in it.                                                         *)
(***************************************************************************)
EXTENDS Menu

MCLongWord == {}
MCLines ==
    {<<>>, <<"exit">>, <<SP, "lsr">>, <<"cdl">>, <<"run">>, <<"..">>, <<"a">>,
     <<"a", SP, "b">>, <<"ls", SP, "x">>,
     <<"cdl", SP, "a">>, <<"cdr", SP, "..">>, <<"run", SP, "ls", SP, "x">>}
MCFileNames == {"..", "a", "b"}
MCRemoteWords == {"ls", "x"}
MCGarbage == {"help"}
MCLocalDirs == {<<>>, <<"a">>, <<"a", "b">>}
MCRemoteDirs == {<<>>, <<"a">>}
=============================================================================
