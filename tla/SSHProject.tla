----------------------------- MODULE SSHProject -----------------------------
(***************************************************************************)
(* The whole program: main (Session), which calls menuloop (Menu) once, at *)
(* one terminal and over one connection.  What main leaves of the input is *)
(* read by menuloop; the connection may be lost from the moment there is   *)
(* one, and every later call that needs it fails then.                     *)
(***************************************************************************)
EXTENDS Session

CONSTANTS Garbage, LocalDirs, RemoteDirs, FileNames, RemoteWords   \* of Menu

VARIABLES
    up,                     \* the SSH connection is alive
    loop,                   \* pc of menuloop
    comm, fname, command, choice, local, remote, at, result

terminal == <<stdin, taken, eof>>
main == <<pc, name, myssh, mysftp, known, hash, answer, hosts, pass, status>>
menu == <<loop, comm, fname, command, choice, local, remote, at, result>>
program == <<terminal, up, main, menu>>

M == INSTANCE Menu WITH pc <- loop

ASSUME ProgramAssumption ==
    M!LinesAssumption /\ M!VocabularyAssumption /\ M!DirsAssumption

ProgramInit == Init /\ M!Init

(* A call on a connection that is lost fails. *)
NeedsConnection ==
    \/ myssh' # myssh /\ myssh' \in {"connected", "authenticated"}
    \/ mysftp' # mysftp /\ mysftp' \in {"new", "ready"}

Main ==
    /\ Step /\ pc # "menuloop"
    /\ NeedsConnection => up
    /\ UNCHANGED <<up, menu>>

(* menuloop(name, pass, myssh, mysftp) *)
Menuloop ==
    /\ pc = "menuloop" /\ M!Step
    /\ UNCHANGED main

(* Mutant of Return: the two results are told apart the other way round.   *)
ReturnSwapped ==
    /\ loop = "return" /\ ReturnFromMenu
    /\ status' = (IF result < 0 THEN 0 ELSE 1)
    /\ UNCHANGED <<up, menu>>

(* if (0 > menuloop(..)): main returns 1, or 0. *)
Return ==
    /\ loop = "return" /\ ReturnFromMenu
    /\ status' = (IF result < 0 THEN 1 ELSE 0)
    /\ UNCHANGED <<up, menu>>

(* The user types a line, or ends the input, in main or in menuloop. *)
UserTypes == TypeLine /\ UNCHANGED <<up, menu>>

LoseConnection ==
    /\ up /\ myssh \in {"connected", "authenticated"}
    /\ up' = FALSE
    /\ UNCHANGED <<terminal, main, menu>>

ProgramStep == Main \/ Menuloop \/ Return
ProgramNext == ProgramStep \/ UserTypes \/ LoseConnection

ProgramSpec == ProgramInit /\ [][ProgramNext]_program

(* Library calls and operations return.  The user may stay away.           *)
FairProgram == ProgramSpec /\ WF_program(ProgramStep)

-----------------------------------------------------------------------------

(* Main is in the menu exactly while menuloop runs, over a session and an  *)
(* sftp session that are both up and stay as they are.                     *)
MenuInSession ==
    /\ TypeOK
    /\ pc = "menuloop" => myssh = "authenticated" /\ mysftp = "ready"
    /\ mysftp \in {"none", "new"} =>
          loop = "command" /\ comm \in Garbage /\ at = 0

(* "Exit quits out of the menu_loop function called in main. Main then     *)
(* makes sure to free the ssh and sftp sessions it created." (Report.md:54)*)
(* - after whatever else menuloop was left for, a lost connection too; and *)
(* the exit status is 0.                                                   *)
ExitFrees ==
    pc = "exit" /\ loop = "return" =>
        myssh = "freed" /\ mysftp = "freed" /\ status = 0

(* The user gives one word on each line and leaves no line empty. *)
OneWordALine ==
    /\ \A i, j \in WordsLeft(stdin, 0) : i < j => Line(stdin, i) < Line(stdin, j)
    /\ \A k \in 1..Len(stdin) : stdin[k] = NL =>
          \E i \in WordsLeft(stdin, 0) : Line(stdin, i) = Line(stdin, k)

(* A user who gives one word on each line, be it far ahead of the prompts: *)
(* his third line is the password, his second one where the server is      *)
(* known - there is one answer less to give than there are questions - and *)
(* what is run as a command stands on a line after that.                   *)
CommandsTyped ==
    OneWordALine /\ loop = "while" /\ at # 0 =>
        /\ Line(stdin, pass) = IF known \in Unknown THEN 3 ELSE 2
        /\ Line(stdin, at) > Line(stdin, pass)

ProgramWaits == Waiting \/ (pc = "menuloop" /\ M!Waiting)

(* The program ends once the connection is lost, at whichever step, unless *)
(* it waits for a line that nobody types.                                  *)
LostConnectionExits == ~up ~> (pc = "exit" \/ []ProgramWaits)
=============================================================================
