------------------------------ MODULE Session ------------------------------
(***************************************************************************)
(* main.c: main sets the SSH session up, has verify_knownhost check the    *)
(* server's key with the user, logs in, opens the sftp channel, runs the   *)
(* menu and takes everything down.  The user types lines, or has them      *)
(* piped in, whenever he likes: before they are asked for, too.            *)
(***************************************************************************)
EXTENDS Stdio

CONSTANTS
    Word,        \* the words that may be typed
    y,           \* the word "y"
    Lines,       \* the lines the user may type, without their ends
    MaxLines     \* bound: how many lines are typed

ASSUME WordsAssumption ==
    /\ Word \cap White = {}
    /\ LongWord \subseteq Word /\ y \in Word \ LongWord
    /\ SP # NL
ASSUME LinesAssumption == Lines \subseteq Seq(Word \cup {SP}) /\ MaxLines \in Nat

VARIABLES
    pc,       \* next statement
    stdin,    \* all that has been typed
    taken,    \* how much of it has been read
    eof,      \* the input has ended after stdin
    name,     \* where in stdin the host's name stands; 0 when none was read
    myssh,    \* state of the ssh_session
    mysftp,   \* state of the sftp_session
    known,    \* result of ssh_is_server_known
    hash,     \* verify_knownhost's copy of the key's hash
    answer,   \* which part of stdin fgets returned at the two questions of
              \* verify_knownhost
    hosts,    \* ssh_write_knownhost has put the server into known_hosts
    pass,     \* where in stdin the password stands; 0 when none was read
    status    \* exit status of the program

vars == <<pc, stdin, taken, eof, name, myssh, mysftp, known, hash, answer, hosts,
          pass, status>>
input == <<stdin, taken, eof, name>>

SSH_ERROR == -1

KnownState == {"SSH_SERVER_ERROR", "SSH_SERVER_NOT_KNOWN", "SSH_SERVER_KNOWN_OK",
               "SSH_SERVER_KNOWN_CHANGED", "SSH_SERVER_FOUND_OTHER",
               "SSH_SERVER_FILE_NOT_FOUND"}
Unknown == {"SSH_SERVER_NOT_KNOWN", "SSH_SERVER_FILE_NOT_FOUND"}

Question == {"trust", "agree"}

(* What is in buf after a question was answered. *)
Text(q) == SubSeq(stdin, answer[q].from, answer[q].to)

-----------------------------------------------------------------------------

Init ==
    /\ pc = "start"
    /\ stdin = <<>> /\ taken = 0 /\ eof = FALSE
    /\ name = 0
    /\ myssh = "none" /\ mysftp = "none"
    /\ known = "none" /\ hash = "null"
    /\ answer = [q \in Question |-> [from |-> 1, to |-> 0]]
    /\ hosts = FALSE
    /\ pass = 0
    /\ status = 0

(* The program waits for input: scanf needs a word, fgets needs anything.  *)
Waiting ==
    /\ ~eof
    /\ \/ pc \in {"name", "password"} /\ ~HasWord(stdin, taken)
       \/ pc \in Question /\ taken = Len(stdin)

(* The user types a line, or ends the input, with or without a last line   *)
(* that has no end, whatever the program is doing.                         *)
TypeLine ==
    /\ ~eof /\ pc # "exit"
    /\ \/ /\ Ends(stdin) < MaxLines
          /\ \E line \in Lines :
                \/ stdin' = stdin \o Append(line, NL) /\ UNCHANGED eof
                \/ stdin' = stdin \o line /\ eof' = TRUE
       \/ eof' = TRUE /\ UNCHANGED stdin
    /\ UNCHANGED <<pc, taken, name, myssh, mysftp, known, hash, answer, hosts, pass, status>>

-----------------------------------------------------------------------------

SshNew ==
    /\ pc = "start"
    /\ \/ myssh' = "new" /\ pc' = "name" /\ UNCHANGED status
       \/ pc' = "exit" /\ status' = -1 /\ UNCHANGED myssh
    /\ UNCHANGED <<input, mysftp, known, hash, answer, hosts, pass>>

(* Mutant of ReadName: asks again until it is given a name.                *)
ReadNameAgain ==
    /\ pc = "name"
    /\ HasWord(stdin, taken)
    /\ name' = NextWord(stdin, taken) /\ taken' = name'
    /\ pc' = "connect"
    /\ UNCHANGED <<stdin, eof, myssh, mysftp, known, hash, answer, hosts, pass, status>>

(* scanf("%s", name): at the end of the input name stays what it was. *)
ReadName ==
    /\ pc = "name"
    /\ \/ HasWord(stdin, taken) /\ name' = NextWord(stdin, taken) /\ taken' = name'
       \/ ~HasWord(stdin, taken) /\ eof /\ taken' = Len(stdin) /\ UNCHANGED name
    /\ pc' = "connect"
    /\ UNCHANGED <<stdin, eof, myssh, mysftp, known, hash, answer, hosts, pass, status>>

Connect ==
    /\ pc = "connect"
    /\ \/ myssh' = "connected" /\ pc' = "verify" /\ UNCHANGED status
       \/ pc' = "ssh_free" /\ status' = -1 /\ UNCHANGED myssh
    /\ UNCHANGED <<input, mysftp, known, hash, answer, hosts, pass>>

(* verify_knownhost returns: the session is refused, or main asks for the  *)
(* password.                                                               *)
Refuse == pc' = "ssh_disconnect" /\ status' = -1
Accept == pc' = "password" /\ hash' = "clean" /\ UNCHANGED status

(* The first half of verify_knownhost: what is known of the server, its    *)
(* key, the hash of the key.                                               *)
GetKey ==
    /\ pc = "verify"
    /\ known' \in KnownState
    /\ \/ hash' = "held" /\ pc' = "judge" /\ UNCHANGED status
       \/ Refuse /\ UNCHANGED hash
    /\ UNCHANGED <<input, myssh, mysftp, answer, hosts, pass>>

(* The switch on the state of the server. *)
Judge ==
    /\ pc = "judge"
    /\ \/ known = "SSH_SERVER_KNOWN_OK" /\ Accept
       \/ /\ known \in {"SSH_SERVER_KNOWN_CHANGED", "SSH_SERVER_ERROR"}
          /\ Refuse /\ hash' = "clean"
       \/ known = "SSH_SERVER_FOUND_OTHER" /\ Refuse /\ UNCHANGED hash
       \/ known \in Unknown /\ pc' = "trust" /\ UNCHANGED <<hash, status>>
    /\ UNCHANGED <<input, myssh, mysftp, known, answer, hosts, pass>>

(* Mutant of Fgets: scanf("%9[^\n]", buf), which leaves the end of a line. *)
FgetsScans(q) ==
    /\ pc = q
    /\ taken < Len(stdin)
    /\ taken' = LineEnd(stdin, taken) - 1
    /\ answer' = [answer EXCEPT ![q] = [from |-> taken + 1, to |-> taken']]
    /\ UNCHANGED <<stdin, eof, name>>

(* fgets into buf at one of the two questions; when nothing can be read    *)
(* any more the server is refused.                                         *)
Fgets(q) ==
    /\ pc = q
    /\ taken < Len(stdin)
    /\ taken' = LineEnd(stdin, taken)
    /\ answer' = [answer EXCEPT ![q] = [from |-> taken + 1, to |-> taken']]
    /\ UNCHANGED <<stdin, eof, name>>

(* Mutant of NothingToRead: returns without giving the hash back.          *)
NothingToReadLeaks ==
    /\ pc \in Question
    /\ taken = Len(stdin) /\ eof
    /\ Refuse
    /\ UNCHANGED <<input, myssh, mysftp, known, hash, answer, hosts, pass>>

NothingToRead ==
    /\ pc \in Question
    /\ taken = Len(stdin) /\ eof
    /\ Refuse /\ hash' = "clean"
    /\ UNCHANGED <<input, myssh, mysftp, known, answer, hosts, pass>>

(* if (!strcmp(buf, "y")) return -1; *)
AnswerTrust ==
    /\ Fgets("trust")
    /\ IF Text("trust")' = <<y>>
       THEN Refuse /\ hash' = "clean"
       ELSE pc' = "agree" /\ UNCHANGED <<hash, status>>
    /\ UNCHANGED <<myssh, mysftp, known, hosts, pass>>

(* Mutant of AnswerAgree: the key is written for y only, and the server    *)
(* is let in all the same.                                                 *)
AnswerAgreeStrict ==
    /\ Fgets("agree")
    /\ hosts' = (Head(Text("agree")') = y)
    /\ Accept
    /\ UNCHANGED <<myssh, mysftp, known, pass>>

(* if (strcmp(buf, "y")) ssh_write_knownhost(session): the key is written  *)
(* unless the answer was y without an end of line.                         *)
AnswerAgree ==
    /\ Fgets("agree")
    /\ \/ Text("agree")' # <<y>> /\ hosts' = TRUE /\ Accept
       \/ Text("agree")' = <<y>> /\ UNCHANGED hosts /\ Accept
       \/ /\ Text("agree")' # <<y>>
          /\ UNCHANGED hosts /\ Refuse /\ hash' = "clean"
    /\ UNCHANGED <<myssh, mysftp, known, pass>>

(* Mutant of ReadPassword: reads with "%c".                                *)
ReadPasswordChar ==
    /\ pc = "password"
    /\ taken < Len(stdin) /\ pass' = taken + 1 /\ taken' = pass'
    /\ pc' = "authenticate"
    /\ UNCHANGED <<stdin, eof, name, myssh, mysftp, known, hash, answer, hosts, status>>

(* Mutant of ReadPassword: the word stays where it was.                    *)
ReadPasswordPeek ==
    /\ pc = "password"
    /\ \/ HasWord(stdin, taken) /\ pass' = NextWord(stdin, taken)
       \/ ~HasWord(stdin, taken) /\ eof /\ UNCHANGED pass
    /\ pc' = "authenticate"
    /\ UNCHANGED <<input, myssh, mysftp, known, hash, answer, hosts, status>>

(* scanf("%s", pass): at the end of the input pass stays what it was.      *)
ReadPassword ==
    /\ pc = "password"
    /\ \/ HasWord(stdin, taken) /\ pass' = NextWord(stdin, taken) /\ taken' = pass'
       \/ ~HasWord(stdin, taken) /\ eof /\ taken' = Len(stdin) /\ UNCHANGED pass
    /\ pc' = "authenticate"
    /\ UNCHANGED <<stdin, eof, name, myssh, mysftp, known, hash, answer, hosts, status>>

(* Mutant of Authenticate: exits without taking the session down.          *)
AuthenticateExits ==
    /\ pc = "authenticate"
    /\ \/ myssh' = "authenticated" /\ pc' = "sftp_new" /\ UNCHANGED status
       \/ pc' = "exit" /\ status' = -1 /\ UNCHANGED myssh
    /\ UNCHANGED <<input, mysftp, known, hash, answer, hosts, pass>>

Authenticate ==
    /\ pc = "authenticate"
    /\ \/ myssh' = "authenticated" /\ pc' = "sftp_new" /\ UNCHANGED status
       \/ pc' = "ssh_disconnect" /\ status' = -1 /\ UNCHANGED myssh
    /\ UNCHANGED <<input, mysftp, known, hash, answer, hosts, pass>>

(* A session whose sftp channel cannot be had is neither disconnected nor  *)
(* freed.                                                                  *)
SftpNew ==
    /\ pc = "sftp_new"
    /\ \/ mysftp' = "new" /\ pc' = "sftp_init" /\ UNCHANGED status
       \/ pc' = "exit" /\ status' = SSH_ERROR /\ UNCHANGED mysftp
    /\ UNCHANGED <<input, myssh, known, hash, answer, hosts, pass>>

(* Mutant of SftpInit: its result is not looked at.                        *)
SftpInitUnchecked ==
    /\ pc = "sftp_init"
    /\ mysftp' \in {"new", "ready"} /\ pc' = "menuloop"
    /\ UNCHANGED <<input, myssh, known, hash, answer, hosts, pass, status>>

SftpInit ==
    /\ pc = "sftp_init"
    /\ \/ mysftp' = "ready" /\ pc' = "menuloop" /\ UNCHANGED status
       \/ mysftp' = "freed" /\ pc' = "exit" /\ status' = SSH_ERROR
    /\ UNCHANGED <<input, myssh, known, hash, answer, hosts, pass>>

(* Mutant of ReturnFromMenu: the sftp session is not freed first.          *)
ReturnToDisconnect ==
    /\ pc = "menuloop"
    /\ status' \in {0, 1}
    /\ pc' = "ssh_disconnect"
    /\ UNCHANGED <<input, myssh, mysftp, known, hash, answer, hosts, pass>>

(* menuloop returns, with an error or without; what it reads is Menu's.    *)
ReturnFromMenu ==
    /\ pc = "menuloop"
    /\ status' \in {0, 1}
    /\ pc' = "sftp_free"
    /\ UNCHANGED <<input, myssh, mysftp, known, hash, answer, hosts, pass>>

SftpFree ==
    /\ pc = "sftp_free"
    /\ mysftp' = "freed" /\ pc' = "ssh_disconnect"
    /\ UNCHANGED <<input, myssh, known, hash, answer, hosts, pass, status>>

SshDisconnect ==
    /\ pc = "ssh_disconnect"
    /\ myssh' = "disconnected" /\ pc' = "ssh_free"
    /\ UNCHANGED <<input, mysftp, known, hash, answer, hosts, pass, status>>

SshFree ==
    /\ pc = "ssh_free"
    /\ myssh' = "freed" /\ pc' = "exit"
    /\ UNCHANGED <<input, mysftp, known, hash, answer, hosts, pass, status>>

Step ==
    \/ SshNew \/ ReadName \/ Connect
    \/ GetKey \/ Judge \/ NothingToRead \/ AnswerTrust \/ AnswerAgree
    \/ ReadPassword \/ Authenticate
    \/ SftpNew \/ SftpInit \/ ReturnFromMenu
    \/ SftpFree \/ SshDisconnect \/ SshFree

Next == Step \/ TypeLine

Spec == Init /\ [][Next]_vars

(* Library calls return.  The user may keep the program waiting forever.   *)
FairSpec == Spec /\ WF_vars(Step)

-----------------------------------------------------------------------------

TypeOK ==
    /\ pc \in {"start", "name", "connect", "verify", "judge", "password", "authenticate",
               "sftp_new", "sftp_init", "menuloop", "sftp_free", "ssh_disconnect",
               "ssh_free", "exit"} \cup Question
    /\ stdin \in Seq(Word \cup White) /\ taken \in 0..Len(stdin) /\ eof \in BOOLEAN
    /\ myssh \in {"none", "new", "connected", "authenticated", "disconnected", "freed"}
    /\ mysftp \in {"none", "new", "ready", "freed"}
    /\ known \in KnownState \cup {"none"}
    /\ hash \in {"null", "held", "clean"}
    /\ answer \in [Question -> [from : 1..(Len(stdin) + 1), to : 0..Len(stdin)]]
    /\ hosts \in BOOLEAN
    /\ {name, pass} \subseteq 0..Len(stdin)
    /\ \A word \in {name, pass} : word # 0 => stdin[word] \in Word
    /\ status \in {-1, 0, 1}

(* verify_knownhost has let a server through that known_hosts did not have. *)
LetIn ==
    /\ known \in Unknown
    /\ pc \in {"password", "authenticate"} \/ myssh = "authenticated"

(* A password the user typed goes only to a server that known_hosts has:   *)
(* the one answer after which verify_knownhost accepts an unknown key and  *)
(* does not write it ("y" without an end of line) leaves no input for a    *)
(* password, whenever that is typed.                                       *)
PasswordToKnownHost ==
    pc = "authenticate" /\ pass # 0 =>
        known = "SSH_SERVER_KNOWN_OK" \/ hosts

(* The first fgets reads what is left of the name's line.  However far     *)
(* ahead he types, nobody gets past an unknown key by that line alone: it  *)
(* is the next line, and that one, that answers the second question; but   *)
(* for a name's line too long for buf, which answers both.                 *)
LetInByNextLine ==
    LetIn => \/ Line(stdin, answer["agree"].from) = Line(stdin, name) + 1
             \/ ToSet(Text("trust")) \cap LongWord # {}

(* At exit main has freed what it created, on all ways out but the two     *)
(* where the sftp session could not be set up.                             *)
LeakOnlyWithoutSftp ==
    pc = "exit" =>
        /\ mysftp \in {"none", "freed"}
        /\ \/ myssh \in {"none", "freed"}
           \/ myssh = "authenticated" /\ status = SSH_ERROR

(* The sftp session lives in the SSH session: it is made, initialised and  *)
(* freed while that is up, and the SSH session is freed only when it is    *)
(* down and nothing in it is left.                                         *)
TeardownOrder ==
    [][/\ mysftp' # mysftp => myssh = "authenticated"
       /\ myssh' = "freed" => /\ myssh \in {"new", "disconnected", "freed"}
                             /\ mysftp \in {"none", "freed"}]_vars

(* verify_knownhost gives the hash back on all its ways out but one.       *)
HashReleased ==
    hash = "held" =>
        pc \in {"judge"} \cup Question \/ known = "SSH_SERVER_FOUND_OTHER"

(* The end of the input never hangs the dialogue before the menu.          *)
EndOfInputEndsDialogue == eof ~> pc \in {"menuloop", "exit"}

(* "The server is unknown. Do you trust the host key?" (main.c:140): an    *)
(* unknown server is let in only after this question was answered, by a    *)
(* line after the one that gave the name.                                  *)
TrustAnswered == LetIn => Line(stdin, answer["trust"].from) > Line(stdin, name)

(* "This new key will be written on disk for further usage. do you agree?  *)
(* y/n" (main.c:152): the key is written only for a user who answered y.   *)
WrittenOnlyIfAgreed == hosts => y \in ToSet(Text("agree"))
=============================================================================
