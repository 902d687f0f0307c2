-------------------------------- MODULE Menu --------------------------------
(***************************************************************************)
(* menuloop and parse of menuloop.c, with the two functions that change    *)
(* the current directories, which are menuloop's own state.  The user      *)
(* types whenever he likes, before he is asked too, and the connection may *)
(* be lost at any moment.  The other operations are single steps here:     *)
(* they leave menuloop's state alone.                                      *)
(***************************************************************************)
EXTENDS Stdio

CONSTANTS
    Lines,       \* the lines the user may type, without their ends
    MaxLines,    \* bound: how many lines are typed
    Garbage,     \* what a buffer may hold before scanf has written to it
    LocalDirs,   \* the directories that exist on either side: sequences of
    RemoteDirs,  \* names, starting at the directory the session starts in
    FileNames,   \* the words the user has for files and directories,
    RemoteWords  \* and for commands on the server (see Tidy)

ASSUME LinesAssumption ==
    /\ \A line \in Lines : line \in Seq(ToSet(line) \ {NL})
    /\ MaxLines \in Nat
    /\ Garbage \cap White = {} /\ Garbage # {}
NameWords == {"cdl", "cdr", "pushs", "pulls"}

ASSUME VocabularyAssumption ==
    /\ FileNames \cap RemoteWords = {}
    /\ (FileNames \cup RemoteWords) \cap (NameWords \cup {"run"}) = {}
    /\ (FileNames \cup RemoteWords) \cap White = {}
ASSUME DirsAssumption ==
    \A dirs \in {LocalDirs, RemoteDirs} :
        /\ dirs \subseteq Seq(STRING)
        /\ <<>> \in dirs /\ \A d \in dirs \ {<<>>} : Front(d) \in dirs

VARIABLES
    pc,        \* next statement
    stdin,     \* all that has been typed
    taken,     \* how much of it has been read
    eof,       \* the input has ended after stdin
    up,        \* the SSH connection is alive
    comm,      \* the command's word
    fname,     \* the file's or directory's name
    command,   \* the remote command
    choice,    \* what the switch was given
    local,     \* the current directories, as sequences of names
    remote,
    at,        \* where in stdin comm was read, until its command is done; or 0
    result     \* return value

vars == <<pc, stdin, taken, eof, up, comm, fname, command, choice, local, remote, at,
          result>>
input == <<stdin, taken, eof>>
buffers == <<comm, fname, command>>

(* Mutant of words: cdl and cdr have changed places.                       *)
wordsSwapped == <<"exit", "help", "displ", "dispr", "cdr", "cdl", "pushs", "pulls",
                  "run", "lsr", "lsl", "pulla", "pusha">>

words == <<"exit", "help", "displ", "dispr", "cdl", "cdr", "pushs", "pulls", "run",
           "lsr", "lsl", "pulla", "pusha">>

(* Mutants of parse: the connection is not looked at, and the index is     *)
(* returned for a word that is not found.                                  *)
parseUnconnected(word) == SelectInSeq(words, LAMBDA w : w = word) - 1
parseIndex(word) ==
    LET found == SelectInSeq(words, LAMBDA w : w = word)
    IN  IF ~up THEN 0 ELSE IF found = 0 THEN Len(words) ELSE found - 1

(* Index, from 0, of the input among the words, -1 when it is none of      *)
(* them; 0, which is exit, when the connection is lost.                    *)
parse(word) ==
    IF ~up THEN 0
    ELSE SelectInSeq(words, LAMBDA w : w = word) - 1

NameCommands == {4, 5, 6, 7}           \* cdl, cdr, pushs, pulls
RunCommand == 8                        \* run
Operations == {9, 10, 11, 12}          \* lsr, lsl, pulla, pusha
Messages == {-1, 1, 2, 3}              \* no command, help, displ, dispr

-----------------------------------------------------------------------------

Init ==
    /\ pc = "command"
    /\ stdin = <<>> /\ taken = 0 /\ eof = FALSE
    /\ up = TRUE
    /\ comm \in Garbage /\ fname \in Garbage
    /\ command \in {<<g>> : g \in Garbage}
    /\ choice = -1
    /\ local = <<>> /\ remote = <<>>
    /\ at = 0
    /\ result = 0

(* All three prompts are read with scanf, which waits for a word. *)
Prompt == {"command", "name", "run"}
Waiting == pc \in Prompt /\ ~HasWord(stdin, taken) /\ ~eof

(* The user types a line, or ends the input, with or without a last line   *)
(* that has no end, whatever menuloop is doing.                            *)
TypeLine ==
    /\ ~eof /\ pc # "return"
    /\ \/ /\ Ends(stdin) < MaxLines
          /\ \E line \in Lines :
                \/ stdin' = stdin \o Append(line, NL) /\ UNCHANGED eof
                \/ stdin' = stdin \o line /\ eof' = TRUE
       \/ eof' = TRUE /\ UNCHANGED stdin
    /\ UNCHANGED <<pc, taken, up, comm, fname, command, choice, local, remote, at, result>>

LoseConnection ==
    /\ up /\ pc # "return"
    /\ up' = FALSE
    /\ UNCHANGED <<pc, input, buffers, choice, local, remote, at, result>>

(* scanf("%s", ..) finds a word, or the end of the input. *)
Scan ==
    \/ HasWord(stdin, taken) /\ taken' = NextWord(stdin, taken)
    \/ ~HasWord(stdin, taken) /\ eof /\ taken' = Len(stdin)

(* scanf("%s", comm): at the end of the input comm stays what it was. *)
ReadCommand ==
    /\ pc = "command"
    /\ Scan
    /\ \/ HasWord(stdin, taken) /\ comm' = stdin[taken'] /\ at' = taken'
       \/ ~HasWord(stdin, taken) /\ UNCHANGED <<comm, at>>
    /\ pc' = "while"
    /\ UNCHANGED <<stdin, eof, up, fname, command, choice, local, remote, result>>

(* while (0 != parse(comm, myssh)) *)
LoopTest ==
    /\ pc = "while"
    /\ pc' = IF parse(comm) = 0 THEN "return" ELSE "switch"
    /\ UNCHANGED <<input, up, buffers, choice, local, remote, at, result>>

(* Mutant of Switch: after a typo the loop continues before the scanf.     *)
SwitchContinue ==
    /\ pc = "switch"
    /\ choice' = parse(comm)
    /\ pc' = CASE choice' = 0 -> "return"
              [] choice' \in Messages -> "while"
              [] choice' \in NameCommands -> "name"
              [] choice' = RunCommand -> "run"
              [] choice' \in Operations -> "call"
    /\ at' = IF choice' \in Messages THEN 0 ELSE at
    /\ UNCHANGED <<input, up, buffers, local, remote, result>>

(* switch (parse(comm, myssh)): comm is parsed again, the connection       *)
(* tested again.                                                           *)
Switch ==
    /\ pc = "switch"
    /\ choice' = parse(comm)
    /\ \/ choice' = 0 /\ pc' = "return" /\ UNCHANGED <<at, result>>
       \/ choice' \in Messages /\ pc' = "command" /\ at' = 0 /\ UNCHANGED result
       \/ choice' \in NameCommands /\ pc' = "name" /\ UNCHANGED <<at, result>>
       \/ choice' = RunCommand /\ pc' = "run" /\ UNCHANGED <<at, result>>
       \/ choice' \in Operations /\ pc' = "call" /\ UNCHANGED <<at, result>>
       \/ /\ choice' \notin -1..12
          /\ pc' = "return" /\ result' = -1 /\ UNCHANGED at
    /\ UNCHANGED <<input, up, buffers, local, remote>>

(* Mutant of ReadName: reads with "%c".                                    *)
ReadNameChar ==
    /\ pc = "name"
    /\ taken < Len(stdin) /\ taken' = taken + 1 /\ fname' = stdin[taken']
    /\ pc' = "call"
    /\ UNCHANGED <<stdin, eof, up, comm, command, choice, local, remote, at, result>>

(* scanf("%s", fname) *)
ReadName ==
    /\ pc = "name"
    /\ Scan
    /\ fname' = IF HasWord(stdin, taken) THEN stdin[taken'] ELSE fname
    /\ pc' = "call"
    /\ UNCHANGED <<stdin, eof, up, comm, command, choice, local, remote, at, result>>

(* Mutant of ReadRun: reads with "%s", like a name.                        *)
ReadRunWord ==
    /\ pc = "run"
    /\ Scan
    /\ command' = IF HasWord(stdin, taken) THEN <<stdin[taken']>> ELSE command
    /\ pc' = "call"
    /\ UNCHANGED <<stdin, eof, up, comm, fname, choice, local, remote, at, result>>

(* scanf(" %[^\n]s", command) *)
ReadRun ==
    /\ pc = "run"
    /\ \/ /\ HasWord(stdin, taken)
          /\ taken' = RestEnd(stdin, taken)
          /\ command' = SubSeq(stdin, NextWord(stdin, taken), taken')
       \/ ~HasWord(stdin, taken) /\ eof /\ taken' = Len(stdin) /\ UNCHANGED command
    /\ pc' = "call"
    /\ UNCHANGED <<stdin, eof, up, comm, fname, choice, local, remote, at, result>>

(* strrchr: the path without its last name; "." stays what it is. *)
Up(path) == IF path = <<>> THEN path ELSE Front(path)

(* change_local_directory, change_remote_directory: a name is appended     *)
(* when the directory could be opened and closed.                          *)
ChangeDirectory(path, dirs, reachable) ==
    IF fname = ".." THEN {Up(path)}
    ELSE {path} \cup (IF reachable THEN {Append(path, fname)} \cap dirs ELSE {})

(* The operation returns, and so does the turn of the loop. *)
Call ==
    /\ pc = "call"
    /\ \/ /\ choice = 4
          /\ local' \in ChangeDirectory(local, LocalDirs, TRUE)
          /\ UNCHANGED remote
       \/ /\ choice = 5
          /\ remote' \in ChangeDirectory(remote, RemoteDirs, up)
          /\ UNCHANGED local
       \/ choice \notin {4, 5} /\ UNCHANGED <<local, remote>>
    /\ pc' = "command"
    /\ at' = 0
    /\ UNCHANGED <<input, up, buffers, choice, result>>

Step == ReadCommand \/ LoopTest \/ Switch \/ ReadName \/ ReadRun \/ Call

Next == Step \/ TypeLine \/ LoseConnection

Spec == Init /\ [][Next]_vars

(* Every operation returns.  The user may keep scanf waiting forever.      *)
FairSpec == Spec /\ WF_vars(Step)

-----------------------------------------------------------------------------

TypeOK ==
    /\ pc \in {"while", "switch", "call", "return"} \cup Prompt
    /\ taken \in 0..Len(stdin) /\ at \in 0..taken /\ eof \in BOOLEAN
    /\ up \in BOOLEAN
    /\ {comm, fname} \cap White = {} /\ NL \notin ToSet(command)
    /\ choice \in -1..12
    /\ local \in Seq(STRING) /\ remote \in Seq(STRING)
    /\ result \in {0, -1}

(* What was typed makes sense: names stand where a command asks for one,   *)
(* on its line or on a later one, and nowhere else; a command for the      *)
(* server stands behind run and has the rest of its own line.              *)
Consecutive(i, j) == i < j /\ WordsLeft(stdin, i) # {} /\ NextWord(stdin, i) = j
SameLine(i, j) == \A k \in i..j : stdin[k] # NL
Tidy ==
    /\ HasWord(stdin, 0) =>
          stdin[NextWord(stdin, 0)] \notin FileNames \cup RemoteWords
    /\ \A i, j \in WordsLeft(stdin, 0) : Consecutive(i, j) =>
          /\ stdin[j] \in FileNames <=> stdin[i] \in NameWords
          /\ stdin[j] \in RemoteWords <=>
                \/ stdin[i] = "run"
                \/ stdin[i] \in RemoteWords /\ SameLine(i, j)

(* Words stay in step with the prompts, however far ahead they are typed   *)
(* and however they are spread over lines: what was meant as a name or as  *)
(* a part of a remote command is never run as a command, and a command is  *)
(* given the name, or all the words, that were typed for it.  Names with   *)
(* blanks in them are none of FileNames: they do get out of step.          *)
InStep ==
    Tidy /\ at # 0 =>
        /\ pc = "while" => comm \notin FileNames \cup RemoteWords
        /\ pc = "call" /\ HasWord(stdin, at) =>
              /\ choice \in NameCommands => fname \in FileNames
              /\ choice = RunCommand => ToSet(command) \subseteq RemoteWords \cup {SP}

(* A word that was read is run once, unless the input has ended. *)
RunOnce == pc \in {"switch", "name", "run", "call"} => at # 0 \/ eof

(* cdl moves the local and cdr the remote directory, by one step down, or  *)
(* by one step up for ".."; nothing else moves them.                       *)
OneStep(from, to) ==
    to # from => IF fname = ".." THEN to = Front(from)
                 ELSE to = Append(from, fname)
DirectoryMoves ==
    [][/\ local' # local => comm = "cdl" /\ OneStep(local, local')
       /\ remote' # remote => comm = "cdr" /\ OneStep(remote, remote')]_vars

(* "errors. Normal operation should not get here." (menuloop.c:115)        *)
NeverOops == result = 0

(* Once the connection is lost menuloop returns, though the input may have *)
(* ended and the last command be repeated; or it waits for the user.       *)
LostConnectionEnds == ~up ~> (pc = "return" \/ []Waiting)
=============================================================================
