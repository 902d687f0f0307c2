---------------------------- MODULE MCSSHProject ----------------------------
(***************************************************************************)
(* SSHProject for TLC: lines that answer main's questions, one of them     *)
(* with a word too long for buf, one that says too much, and commands.     *)
(***************************************************************************)
EXTENDS SSHProject

MCWord == {"y", "host", "long", "exit", "cdl"}
MCLines == {<<>>, <<"y">>, <<"long">>, <<"exit">>, <<"host", SP, "exit">>,
            <<"cdl">>}
MCLongWord == {"long"}
MCGarbage == {"?"}
MCDirs == {<<>>}
MCFileNames == {"host"}
MCRemoteWords == {}
=============================================================================
