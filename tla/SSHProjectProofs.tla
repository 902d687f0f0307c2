-------------------------- MODULE SSHProjectProofs --------------------------
(***************************************************************************)
(* What main guarantees whatever the user types, however often and however *)
(* far ahead, and then what holds of the whole program, whichever call     *)
(* fails and wherever the connection is lost.                              *)
(*                                                                         *)
(* The invariant of main is built up in layers: types, life of the two     *)
(* sessions, the hash, and which part of the input each read was given;    *)
(* each rests on those before it.  The life of the sessions and the reads  *)
(* are then put together with where menuloop is and what it has read.      *)
(***************************************************************************)
EXTENDS SSHProject, StdioProofs

LoopP == INSTANCE MenuProofs WITH pc <- loop

-----------------------------------------------------------------------------
(* main by itself (Session).                                               *)

(* Which sessions there are at each statement of main. *)
SessionsAt ==
    /\ pc = "start" => myssh = "none"
    /\ pc \in {"name", "connect"} => myssh = "new"
    /\ pc \in {"verify", "judge", "password", "authenticate"} \cup Question =>
          myssh = "connected"
    /\ pc \in {"sftp_new", "sftp_init", "menuloop", "sftp_free"} => myssh = "authenticated"
    /\ pc = "ssh_disconnect" => myssh \in {"connected", "authenticated"}
    /\ pc = "ssh_free" => myssh \in {"new", "disconnected"}
    /\ myssh = "freed" => pc = "exit"
    /\ pc \notin {"sftp_init", "menuloop", "sftp_free"} => mysftp \in {"none", "freed"}

Lives == TypeOK /\ SessionsAt /\ LeakOnlyWithoutSftp

(* When verify_knownhost holds a hash, and whom it questions about it. *)
KeyAt ==
    /\ pc \in {"start", "name", "connect", "verify"} => hash = "null"
    /\ pc \in Question => known \in Unknown

Keys == Lives /\ KeyAt /\ HashReleased

(* Only the end of the input leaves a line without an end. *)
InputShape == ~eof => Ended(stdin)

(* There is nothing more to read, and there will be nothing. *)
AllRead == eof /\ taken = Len(stdin)

(* The name is the first word there is, and what fgets is then given       *)
(* begins where the read before it stopped.                                *)
NameAt ==
    /\ pc \in {"start", "name"} => taken = 0 /\ name = 0
    /\ pc \in {"connect", "verify", "judge", "trust"} =>
          IF name = 0 THEN AllRead ELSE taken = name
    /\ name # 0 => FirstWord(stdin, 0, name)

FirstAnswer ==
    /\ name # 0
    /\ answer["trust"].from = name + 1
    /\ FirstStop(stdin, name, answer["trust"].to)
    /\ Stop(stdin, answer["trust"].to) \/ (eof /\ answer["trust"].to = Len(stdin))
SecondAnswer ==
    /\ FirstAnswer
    /\ answer["agree"].from = answer["trust"].to + 1
    /\ FirstStop(stdin, answer["trust"].to, answer["agree"].to)
    /\ Stop(stdin, answer["agree"].to) \/ (eof /\ answer["agree"].to = Len(stdin))

AnswersAt ==
    /\ pc = "agree" => FirstAnswer /\ taken = answer["trust"].to
    /\ LetIn => SecondAnswer

(* No password before it is asked for; the next word when it is; and none  *)
(* for a server that is not in known_hosts, since there is nothing left.   *)
LastRead == IF known \in Unknown THEN answer["agree"].to ELSE name
PasswordAt ==
    /\ pc \in {"start", "name", "connect", "verify", "judge", "password"} \cup Question =>
          pass = 0
    /\ pc = "password" =>
          /\ IF name = 0 THEN AllRead ELSE taken = LastRead
          /\ known = "SSH_SERVER_KNOWN_OK" \/ hosts \/ AllRead
    /\ pc \in {"authenticate", "sftp_new", "sftp_init", "menuloop"} /\ pass = 0 => AllRead
    /\ pass # 0 =>
          name # 0 /\ FirstWord(stdin, LastRead, pass) /\ pass <= taken

Reads == InputShape /\ NameAt /\ AnswersAt /\ PasswordAt

-----------------------------------------------------------------------------

LEMMA LineShape ==
    ASSUME NEW line \in Lines PROVE line \in Seq(Word \cup White)
<1>1. line \in Seq(Word \cup {SP})
  BY LinesAssumption
<1> QED BY <1>1, SeqMonotonic DEF White

(* What the user types is appended to the input. *)
LEMMA TypedShape ==
    ASSUME TypeOK, InputShape, TypeLine
    PROVE  /\ stdin' \in Seq(Word \cup White) /\ Extends(stdin, stdin')
           /\ eof = FALSE /\ eof' \in BOOLEAN /\ InputShape'
           /\ taken \in 0..Len(stdin')
<1>1. stdin \in Seq(Word \cup White) /\ Len(stdin) \in Nat /\ NL \in Word \cup White
      /\ taken \in 0..Len(stdin)
  BY LenProperties DEF TypeOK, White
<1>2. eof = FALSE /\ eof' \in BOOLEAN
  BY DEF TypeLine, TypeOK
<1>3. CASE UNCHANGED stdin /\ eof' = TRUE
  <2>1. Extends(stdin, stdin')
    BY <1>1, <1>3 DEF Extends
  <2> QED BY <1>1, <1>2, <1>3, <2>1 DEF InputShape
<1>4. CASE \E line \in Lines : \/ stdin' = stdin \o Append(line, NL) /\ UNCHANGED eof
                               \/ stdin' = stdin \o line /\ eof' = TRUE
  <2>1. PICK line \in Lines : \/ stdin' = stdin \o Append(line, NL) /\ UNCHANGED eof
                              \/ stdin' = stdin \o line /\ eof' = TRUE
    BY <1>4
  <2>2. line \in Seq(Word \cup White)
    BY LineShape
  <2>3. /\ stdin \o line \in Seq(Word \cup White) /\ Extends(stdin, stdin \o line)
        /\ stdin \o Append(line, NL) \in Seq(Word \cup White)
        /\ Extends(stdin, stdin \o Append(line, NL))
        /\ Ended(stdin \o Append(line, NL))
    BY <1>1, <2>2, TypedFacts
  <2>4. stdin' \in Seq(Word \cup White) /\ Extends(stdin, stdin') /\ InputShape'
    BY <2>1, <2>3 DEF InputShape
  <2>5. Len(stdin) <= Len(stdin') /\ Len(stdin') \in Nat
    BY <2>4, LenProperties DEF Extends
  <2>6. taken \in 0..Len(stdin')
    BY <1>1, <2>5
  <2> QED BY <1>2, <2>4, <2>6
<1> QED BY <1>3, <1>4 DEF TypeLine

(* Where fgets stops: always at the same place, unless the input ends.     *)
LEMMA FgetsFacts ==
    ASSUME TypeOK, InputShape, NEW q \in Question, Fgets(q)
    PROVE  /\ UNCHANGED <<stdin, eof, name>>
           /\ FirstStop(stdin, taken, taken')
           /\ Stop(stdin, taken') \/ (eof /\ taken' = Len(stdin))
           /\ taken' \in (taken + 1)..Len(stdin) /\ taken' \in 1..Len(stdin)
           /\ answer' \in [Question -> [from : 1..(Len(stdin) + 1), to : 0..Len(stdin)]]
           /\ answer'[q].from = taken + 1 /\ answer'[q].to = taken'
           /\ \A p \in Question \ {q} : answer'[p] = answer[p]
<1>1. /\ stdin \in Seq(Word \cup White) /\ Len(stdin) \in Nat /\ taken \in 0..Len(stdin)
      /\ answer \in [Question -> [from : 1..(Len(stdin) + 1), to : 0..Len(stdin)]]
  BY LenProperties DEF TypeOK
<1>2. /\ taken < Len(stdin) /\ taken' = LineEnd(stdin, taken)
      /\ answer' = [answer EXCEPT ![q] = [from |-> taken + 1, to |-> taken']]
      /\ UNCHANGED <<stdin, eof, name>>
  BY DEF Fgets
<1>3. FirstStop(stdin, taken, taken') /\ (Stop(stdin, taken') \/ taken' = Len(stdin))
  BY <1>1, <1>2, LineEndFacts
<1>4. PICK e \in (taken + 1)..Len(stdin) : e = taken'
  BY <1>3 DEF FirstStop
<1>5. e \in 1..Len(stdin) /\ e \in 0..Len(stdin) /\ taken + 1 \in 1..(Len(stdin) + 1)
  BY <1>1
<1>6. ~eof /\ taken' = Len(stdin) => Stop(stdin, taken')
  <2>1. stdin # <<>>
    BY <1>1, <1>2, EmptySeq
  <2> QED BY <2>1 DEF InputShape, Ended, Stop
<1>7. answer' = [answer EXCEPT ![q] = [from |-> taken + 1, to |-> e]]
  BY <1>2, <1>4
<1>8. [from |-> taken + 1, to |-> e] \in [from : 1..(Len(stdin) + 1), to : 0..Len(stdin)]
  BY <1>5
<1>9. /\ answer' \in [Question -> [from : 1..(Len(stdin) + 1), to : 0..Len(stdin)]]
      /\ answer'[q] = [from |-> taken + 1, to |-> e]
      /\ \A p \in Question \ {q} : answer'[p] = answer[p]
  BY <1>1, <1>7, <1>8
<1> QED BY <1>2, <1>3, <1>4, <1>5, <1>6, <1>9 DEF TypeOK

(* What scanf is given at one of main's prompts for a word. *)
LEMMA ScanFacts ==
    ASSUME TypeOK
    PROVE  /\ HasWord(stdin, taken) =>
                 /\ FirstWord(stdin, taken, NextWord(stdin, taken))
                 /\ NextWord(stdin, taken) \in (taken + 1)..Len(stdin)
                 /\ NextWord(stdin, taken) \in 1..Len(stdin)
                 /\ stdin[NextWord(stdin, taken)] \in Word
           /\ HasWord(stdin, taken) => ~AllRead
           /\ Len(stdin) \in 0..Len(stdin)
<1> DEFINE w == NextWord(stdin, taken)
<1>1. stdin \in Seq(Word \cup White) /\ Len(stdin) \in Nat /\ taken \in 0..Len(stdin)
  BY LenProperties DEF TypeOK
<1>2. ASSUME HasWord(stdin, taken)
      PROVE  /\ FirstWord(stdin, taken, w) /\ w \in (taken + 1)..Len(stdin)
             /\ w \in 1..Len(stdin) /\ stdin[w] \in Word /\ ~AllRead
  <2>1. FirstWord(stdin, taken, w)
    BY <1>1, <1>2, NextWordFacts
  <2>2. w \in (taken + 1)..Len(stdin) /\ stdin[w] \notin White
    BY <2>1 DEF FirstWord
  <2> HIDE DEF w
  <2>3. w \in 1..Len(stdin) /\ taken # Len(stdin)
    BY <1>1, <2>2
  <2>4. stdin[w] \in Word
    BY <1>1, <2>2, <2>3, ElementOfSeq
  <2> QED BY <2>1, <2>2, <2>3, <2>4 DEF AllRead
<1> QED BY <1>1, <1>2

-----------------------------------------------------------------------------

LEMMA TypeInit == ASSUME Init PROVE TypeOK /\ InputShape
<1>1. <<>> \in Seq(Word \cup White) /\ Len(<<>>) = 0
  BY EmptySeq
<1>2. answer \in [Question -> [from : 1..(Len(stdin) + 1), to : 0..Len(stdin)]]
  BY <1>1 DEF Init
<1>3. taken \in 0..Len(stdin) /\ {name, pass} \subseteq 0..Len(stdin)
      /\ \A word \in {name, pass} : word # 0 => stdin[word] \in Word
  BY <1>1 DEF Init
<1> QED BY <1>1, <1>2, <1>3 DEF Init, TypeOK, InputShape, Ended

(* Every step leads from values of the right types to such values. *)
LEMMA TypeKept == TypeOK /\ InputShape /\ [Next]_vars => TypeOK' /\ InputShape'
<1> SUFFICES ASSUME TypeOK, InputShape, [Next]_vars PROVE TypeOK' /\ InputShape'
  OBVIOUS
<1> USE DEF TypeOK, InputShape, input
<1>1. CASE TypeLine
  <2>1. /\ stdin' \in Seq(Word \cup White) /\ Extends(stdin, stdin')
        /\ eof' \in BOOLEAN /\ InputShape' /\ taken \in 0..Len(stdin')
    BY <1>1, TypedShape
  <2>2. UNCHANGED <<pc, taken, name, myssh, mysftp, known, hash, answer, hosts, pass, status>>
    BY <1>1 DEF TypeLine
  <2>3. Len(stdin) \in Nat /\ Len(stdin') \in Nat /\ Len(stdin) <= Len(stdin')
        /\ \A i \in 1..Len(stdin) : stdin'[i] = stdin[i]
    BY <2>1, LenProperties DEF Extends
  <2>4. answer' \in [Question -> [from : 1..(Len(stdin') + 1), to : 0..Len(stdin')]]
    <3>1. 1..(Len(stdin) + 1) \subseteq 1..(Len(stdin') + 1) /\ 0..Len(stdin) \subseteq 0..Len(stdin')
      BY <2>3
    <3> QED BY <2>2, <3>1
  <2>5. {name, pass} \subseteq 0..Len(stdin')
        /\ \A word \in {name, pass} : word # 0 => stdin'[word] \in Word
    <3>1. \A word \in {name, pass} : word # 0 => word \in 1..Len(stdin)
      OBVIOUS
    <3> QED BY <2>3, <3>1
  <2> QED BY <2>1, <2>2, <2>4, <2>5
<1>2. CASE SshNew
  BY <1>2 DEF SshNew
<1>3. CASE ReadName
  <2>1. name' \in 0..Len(stdin) /\ taken' \in 0..Len(stdin) /\ (name' # 0 => stdin[name'] \in Word)
    BY <1>3, ScanFacts DEF ReadName
  <2> QED BY <1>3, <2>1 DEF ReadName
<1>4. CASE Connect
  BY <1>4 DEF Connect
<1>5. CASE GetKey
  BY <1>5 DEF GetKey, Refuse
<1>6. CASE Judge
  BY <1>6 DEF Judge, Accept, Refuse, Question
<1>7. CASE NothingToRead
  BY <1>7 DEF NothingToRead, Refuse
<1>8. CASE AnswerTrust
  <2>1. "trust" \in Question /\ Fgets("trust")
    BY <1>8 DEF AnswerTrust, Question
  <2>2. /\ UNCHANGED <<stdin, eof, name>> /\ taken' \in 1..Len(stdin)
        /\ answer' \in [Question -> [from : 1..(Len(stdin) + 1), to : 0..Len(stdin)]]
    BY <2>1, FgetsFacts
  <2> QED BY <1>8, <2>2 DEF AnswerTrust, Refuse, Question
<1>9. CASE AnswerAgree
  <2>1. "agree" \in Question /\ Fgets("agree")
    BY <1>9 DEF AnswerAgree, Question
  <2>2. /\ UNCHANGED <<stdin, eof, name>> /\ taken' \in 1..Len(stdin)
        /\ answer' \in [Question -> [from : 1..(Len(stdin) + 1), to : 0..Len(stdin)]]
    BY <2>1, FgetsFacts
  <2>3. hosts' \in BOOLEAN
    BY <1>9 DEF AnswerAgree
  <2>4. /\ pc' \in {"password", "ssh_disconnect"} /\ hash' = "clean"
        /\ status' \in {-1, 0, 1}
    BY <1>9 DEF AnswerAgree, Accept, Refuse
  <2> QED BY <1>9, <2>2, <2>3, <2>4 DEF AnswerAgree
<1>10. CASE ReadPassword
  <2>1. pass' \in 0..Len(stdin) /\ taken' \in 0..Len(stdin) /\ (pass' # 0 => stdin[pass'] \in Word)
    BY <1>10, ScanFacts DEF ReadPassword
  <2> QED BY <1>10, <2>1 DEF ReadPassword
<1>11. CASE Authenticate
  BY <1>11 DEF Authenticate
<1>12. CASE SftpNew
  BY <1>12 DEF SftpNew, SSH_ERROR
<1>13. CASE SftpInit
  BY <1>13 DEF SftpInit, SSH_ERROR
<1>14. CASE ReturnFromMenu
  BY <1>14 DEF ReturnFromMenu
<1>15. CASE SftpFree
  BY <1>15 DEF SftpFree
<1>16. CASE SshDisconnect
  BY <1>16 DEF SshDisconnect
<1>17. CASE SshFree
  BY <1>17 DEF SshFree
<1>18. CASE UNCHANGED vars
  BY <1>18 DEF vars
<1> QED BY <1>1, <1>2, <1>3, <1>4, <1>5, <1>6, <1>7, <1>8, <1>9, <1>10, <1>11,
           <1>12, <1>13, <1>14, <1>15, <1>16, <1>17, <1>18 DEF Next, Step

LEMMA TypeAlways == Spec => [](TypeOK /\ InputShape)
BY TypeInit, TypeKept, PTL DEF Spec

(* Every variable of Session has its type in every reachable state. *)
THEOREM TypeCorrect == Spec => []TypeOK
BY TypeAlways, PTL

-----------------------------------------------------------------------------

(* No step breaks what SessionsAt says of the statement it leads to. *)
LEMMA LivesKept == Lives /\ TypeOK' /\ [Next]_vars => Lives'
<1> SUFFICES ASSUME Lives, TypeOK', [Next]_vars PROVE Lives'
  OBVIOUS
<1> USE DEF Lives, SessionsAt, LeakOnlyWithoutSftp, TypeOK, Question
<1>1. CASE TypeLine
  BY <1>1 DEF TypeLine
<1>2. CASE SshNew
  BY <1>2 DEF SshNew
<1>3. CASE ReadName
  BY <1>3 DEF ReadName
<1>4. CASE Connect
  BY <1>4 DEF Connect
<1>5. CASE GetKey
  BY <1>5 DEF GetKey, Refuse
<1>6. CASE Judge
  BY <1>6 DEF Judge, Accept, Refuse
<1>7. CASE NothingToRead
  BY <1>7 DEF NothingToRead, Refuse
<1>8. CASE AnswerTrust
  BY <1>8 DEF AnswerTrust, Fgets, Refuse
<1>9. CASE AnswerAgree
  BY <1>9 DEF AnswerAgree, Fgets, Accept, Refuse
<1>10. CASE ReadPassword
  BY <1>10 DEF ReadPassword
<1>11. CASE Authenticate
  BY <1>11 DEF Authenticate
<1>12. CASE SftpNew
  BY <1>12 DEF SftpNew
<1>13. CASE SftpInit
  BY <1>13 DEF SftpInit
<1>14. CASE ReturnFromMenu
  BY <1>14 DEF ReturnFromMenu
<1>15. CASE SftpFree
  BY <1>15 DEF SftpFree
<1>16. CASE SshDisconnect
  BY <1>16 DEF SshDisconnect
<1>17. CASE SshFree
  BY <1>17 DEF SshFree
<1>18. CASE UNCHANGED vars
  BY <1>18 DEF vars
<1> QED BY <1>1, <1>2, <1>3, <1>4, <1>5, <1>6, <1>7, <1>8, <1>9, <1>10, <1>11,
           <1>12, <1>13, <1>14, <1>15, <1>16, <1>17, <1>18 DEF Next, Step

LEMMA LivesInit == ASSUME Init PROVE Lives
BY TypeInit DEF Lives, Init, SessionsAt, LeakOnlyWithoutSftp, Question

THEOREM LivesAlways == Spec => []Lives
<1>1. Lives /\ TypeOK' /\ [Next]_vars => Lives'
  BY LivesKept
<1> QED BY <1>1, LivesInit, TypeCorrect, PTL DEF Spec

(* At exit main has freed what it made, unless there was no sftp session. *)
THEOREM NoLeakWithSftp == Spec => []LeakOnlyWithoutSftp
BY LivesAlways, PTL DEF Lives

(* The sftp session is made and freed inside the life of the SSH session. *)
THEOREM TornDownInOrder == Spec => TeardownOrder
<1> DEFINE Ordered ==
      /\ mysftp' # mysftp => myssh = "authenticated"
      /\ myssh' = "freed" => /\ myssh \in {"new", "disconnected", "freed"}
                            /\ mysftp \in {"none", "freed"}
<1>1. Lives /\ [Next]_vars => [Ordered]_vars
  <2> SUFFICES ASSUME Lives, Next PROVE Ordered
    OBVIOUS
  <2>1. mysftp' # mysftp => SftpNew \/ SftpInit \/ SftpFree
    BY DEF Next, Step, TypeLine, SshNew, ReadName, Connect, GetKey, Judge,
           NothingToRead, AnswerTrust, AnswerAgree, ReadPassword, Authenticate,
           ReturnFromMenu, SshDisconnect, SshFree
  <2>2. myssh' = "freed" => SshFree \/ myssh = "freed"
    BY DEF Next, Step, TypeLine, SshNew, ReadName, Connect, GetKey, Judge,
           NothingToRead, AnswerTrust, AnswerAgree, ReadPassword, Authenticate,
           SftpNew, SftpInit, ReturnFromMenu, SftpFree, SshDisconnect
  <2>3. SftpNew \/ SftpInit \/ SftpFree => myssh = "authenticated"
    BY DEF Lives, SessionsAt, SftpNew, SftpInit, SftpFree
  <2>4. SshFree \/ myssh = "freed" =>
           myssh \in {"new", "disconnected", "freed"} /\ mysftp \in {"none", "freed"}
    BY DEF Lives, SessionsAt, SshFree
  <2> QED BY <2>1, <2>2, <2>3, <2>4
<1> QED BY <1>1, LivesAlways, PTL DEF Spec, TeardownOrder

-----------------------------------------------------------------------------

(* The hash is there from GetKey on, and given back on the way out. *)
LEMMA KeysKept == Keys /\ Lives' /\ [Next]_vars => Keys'
<1> SUFFICES ASSUME Keys, [Next]_vars PROVE (KeyAt /\ HashReleased)'
  BY DEF Keys
<1> USE DEF Keys, KeyAt, HashReleased, Question, input
<1>1. CASE TypeLine
  BY <1>1 DEF TypeLine
<1>2. CASE SshNew
  BY <1>2 DEF SshNew
<1>3. CASE ReadName
  BY <1>3 DEF ReadName
<1>4. CASE Connect
  BY <1>4 DEF Connect
<1>5. CASE GetKey
  BY <1>5 DEF GetKey, Refuse
<1>6. CASE Judge
  BY <1>6 DEF Judge, Accept, Refuse, Unknown
<1>7. CASE NothingToRead
  BY <1>7 DEF NothingToRead, Refuse
<1>8. CASE AnswerTrust
  BY <1>8 DEF AnswerTrust, Fgets, Refuse
<1>9. CASE AnswerAgree
  BY <1>9 DEF AnswerAgree, Fgets, Accept, Refuse
<1>10. CASE ReadPassword
  BY <1>10 DEF ReadPassword
<1>11. CASE Authenticate
  BY <1>11 DEF Authenticate
<1>12. CASE SftpNew \/ SftpInit \/ ReturnFromMenu
  BY <1>12 DEF SftpNew, SftpInit, ReturnFromMenu
<1>13. CASE SftpFree \/ SshDisconnect \/ SshFree
  BY <1>13 DEF SftpFree, SshDisconnect, SshFree
<1>14. CASE UNCHANGED vars
  BY <1>14 DEF vars
<1> QED BY <1>1, <1>2, <1>3, <1>4, <1>5, <1>6, <1>7, <1>8, <1>9, <1>10, <1>11,
           <1>12, <1>13, <1>14 DEF Next, Step

LEMMA KeysAlways == Spec => []Keys
<1>1. Init => KeyAt /\ HashReleased
  BY DEF Init, KeyAt, HashReleased, Question
<1>2. Keys /\ Lives' /\ [Next]_vars => Keys'
  BY KeysKept
<1> QED BY <1>1, <1>2, LivesAlways, PTL DEF Spec, Keys

(* verify_knownhost gives the hash of the key back on all ways but one. *)
THEOREM HashGivenBack == Spec => []HashReleased
BY KeysAlways, PTL DEF Keys

-----------------------------------------------------------------------------

(* What is typed, however far ahead, leaves what was read as it was. *)
LEMMA ReadsTyped == ASSUME TypeOK, Reads, TypeLine PROVE Reads'
<1>1. /\ UNCHANGED <<pc, taken, name, myssh, mysftp, known, hash, answer, hosts, pass, status>>
  BY DEF TypeLine
<1>2. stdin \in Seq(Word \cup White) /\ stdin' \in Seq(Word \cup White)
      /\ Extends(stdin, stdin') /\ ~eof /\ InputShape'
  BY TypedShape DEF TypeOK, Reads
<1>3. ASSUME NEW k \in Nat
      PROVE  /\ \A w : FirstWord(stdin, k, w) => FirstWord(stdin', k, w)
             /\ \A e : FirstStop(stdin, k, e) => FirstStop(stdin', k, e)
  BY <1>2, <1>3, ExtendsFacts
<1>4. ASSUME NEW i \in 1..Len(stdin), Stop(stdin, i) PROVE Stop(stdin', i)
  BY <1>2, <1>4 DEF Stop, Extends
<1>5. NameAt'
  BY <1>1, <1>2, <1>3 DEF Reads, NameAt, AllRead
<1>6. FirstAnswer => FirstAnswer' /\ answer["trust"].to \in Nat
  <2> SUFFICES ASSUME FirstAnswer PROVE FirstAnswer' /\ answer["trust"].to \in Nat
    OBVIOUS
  <2>1. name \in Nat /\ answer["trust"].to \in 1..Len(stdin)
    BY LenProperties DEF TypeOK, FirstAnswer, FirstStop
  <2>2. FirstStop(stdin', name, answer["trust"].to) /\ Stop(stdin', answer["trust"].to)
    BY <1>2, <1>3, <1>4, <2>1 DEF FirstAnswer
  <2> QED BY <1>1, <2>1, <2>2 DEF FirstAnswer
<1>7. SecondAnswer => SecondAnswer'
  <2> SUFFICES ASSUME SecondAnswer PROVE SecondAnswer'
    OBVIOUS
  <2>1. FirstAnswer' /\ answer["trust"].to \in Nat
    BY <1>6 DEF SecondAnswer
  <2>2. answer["agree"].to \in 1..Len(stdin)
    BY <2>1, LenProperties DEF TypeOK, SecondAnswer, FirstStop
  <2>3. FirstStop(stdin', answer["trust"].to, answer["agree"].to) /\ Stop(stdin', answer["agree"].to)
    BY <1>2, <1>3, <1>4, <2>1, <2>2 DEF SecondAnswer
  <2> QED BY <1>1, <2>1, <2>3 DEF SecondAnswer
<1>8. AnswersAt'
  BY <1>1, <1>6, <1>7 DEF Reads, AnswersAt, LetIn
<1>9. PasswordAt'
  <2>1. LastRead' = LastRead /\ LastRead \in Nat
    <3>1. answer["agree"].to \in Nat /\ name \in Nat
      BY LenProperties DEF TypeOK, Question
    <3> QED BY <1>1, <3>1 DEF LastRead
  <2>2. FirstWord(stdin, LastRead, pass) => FirstWord(stdin', LastRead, pass)
    BY <1>3, <2>1
  <2> QED BY <1>1, <1>2, <2>1, <2>2 DEF Reads, PasswordAt, AllRead
<1> QED BY <1>2, <1>5, <1>8, <1>9 DEF Reads

(* The answer "y" without an end of line is the last thing there is. *)
LEMMA BareAnswerIsLast ==
    ASSUME TypeOK, InputShape, Fgets("agree"), Text("agree")' = <<y>>
    PROVE  AllRead'
<1>1. "agree" \in Question
  BY DEF Question
<1>2. /\ UNCHANGED <<stdin, eof>>
      /\ Stop(stdin, taken') \/ (eof /\ taken' = Len(stdin))
      /\ taken' \in (taken + 1)..Len(stdin) /\ taken' \in 1..Len(stdin)
      /\ answer'["agree"].from = taken + 1 /\ answer'["agree"].to = taken'
  BY <1>1, FgetsFacts
<1>3. stdin \in Seq(Word \cup White) /\ Len(stdin) \in Nat /\ taken \in 0..Len(stdin)
  BY LenProperties DEF TypeOK
<1>4. PICK e \in (taken + 1)..Len(stdin) : e = taken'
  BY <1>2
<1>5. SubSeq(stdin, taken + 1, e) = <<y>>
  BY <1>2, <1>4 DEF Text
<1>6. e = taken + 1 /\ stdin[e] = y
  <2>1. \A i \in (taken + 1)..e : i \in 1..Len(stdin)
    BY <1>3
  <2>2. taken + 1 \in Int /\ e \in Int /\ \A i \in (taken + 1)..e : stdin[i] \in Word \cup White
    BY <1>3, <2>1, ElementOfSeq
  <2>3. /\ Len(SubSeq(stdin, taken + 1, e)) = IF taken + 1 <= e THEN e - (taken + 1) + 1 ELSE 0
        /\ \A i \in 1..(e - (taken + 1) + 1) :
              SubSeq(stdin, taken + 1, e)[i] = stdin[taken + 1 + i - 1]
    BY <2>2, SubSeqProperties
  <2>4. Len(<<y>>) = 1 /\ <<y>>[1] = y
    OBVIOUS
  <2>5. e = taken + 1
    <3> DEFINE n == Len(SubSeq(stdin, taken + 1, e))
    <3>1. n = 1
      BY <1>5, <2>4
    <3>2. n = IF taken + 1 <= e THEN e - (taken + 1) + 1 ELSE 0
      BY <2>3
    <3> HIDE DEF n
    <3> QED BY <1>3, <3>1, <3>2
  <2>6. 1 \in 1..(e - (taken + 1) + 1) /\ taken + 1 + 1 - 1 = e
    BY <1>3, <2>5
  <2>7. stdin[taken + 1 + 1 - 1] = y
    BY <1>5, <2>3, <2>4, <2>6
  <2> QED BY <2>5, <2>6, <2>7
<1>7. ~Stop(stdin, e)
  BY <1>6, WordsAssumption DEF Stop, White
<1> QED BY <1>2, <1>4, <1>7 DEF AllRead

(* Each read is given what stands next, and leaves the rest to the next    *)
(* one.                                                                    *)
LEMMA ReadsKept == Keys /\ Reads /\ InputShape' /\ [Next]_vars => Reads'
<1> SUFFICES ASSUME Keys, Reads, InputShape', [Next]_vars PROVE Reads'
  OBVIOUS
<1>0. TypeOK /\ InputShape /\ SessionsAt /\ KeyAt
  BY DEF Keys, Lives, Reads
<1> USE <1>0 DEF Reads, NameAt, AnswersAt, PasswordAt, LetIn, SessionsAt, Question, input
<1>1. CASE TypeLine
  BY <1>1, ReadsTyped
<1>2. CASE SshNew
  BY <1>2 DEF SshNew
<1>3. CASE ReadName
  <2>1. /\ UNCHANGED <<stdin, eof, myssh, known, answer, hosts, pass>>
        /\ pc = "name" /\ pc' = "connect" /\ taken = 0 /\ name = 0 /\ pass = 0
    BY <1>3 DEF ReadName
  <2>2. CASE HasWord(stdin, taken) /\ name' = NextWord(stdin, taken) /\ taken' = name'
    <3>1. FirstWord(stdin, 0, name') /\ taken' = name'
      BY <2>1, <2>2, ScanFacts
    <3>2. name' # 0
      BY <3>1 DEF FirstWord
    <3> QED BY <2>1, <3>1, <3>2
  <2>3. CASE ~HasWord(stdin, taken) /\ eof /\ taken' = Len(stdin) /\ UNCHANGED name
    <3>1. AllRead'
      BY <2>1, <2>3 DEF AllRead
    <3> QED BY <2>1, <2>3, <3>1
  <2> QED BY <1>3, <2>2, <2>3 DEF ReadName
<1>4. CASE /\ UNCHANGED <<stdin, taken, eof, name, answer, pass>>
           /\ AnswersAt' /\ PasswordAt'
           /\ pc' \in {"connect", "verify", "judge", "trust"} =>
                 pc \in {"connect", "verify", "judge", "trust"}
           /\ pc' \notin {"start", "name"}
  BY <1>4 DEF AllRead
<1>5. CASE Connect
  <2>1. /\ UNCHANGED <<stdin, taken, eof, name, answer, pass>> /\ pc = "connect"
        /\ pc' \in {"verify", "ssh_free"} /\ (pc' = "verify" => myssh' = "connected")
        /\ (pc' = "ssh_free" => myssh' = "new") /\ UNCHANGED known
    BY <1>5 DEF Connect
  <2> QED BY <1>4, <2>1 DEF LastRead
<1>6. CASE GetKey
  <2>1. /\ UNCHANGED <<stdin, taken, eof, name, answer, pass, myssh>> /\ pc = "verify"
        /\ pc' \in {"judge", "ssh_disconnect"} /\ myssh = "connected" /\ pass = 0
    BY <1>6 DEF GetKey, Refuse
  <2> QED BY <1>4, <2>1
<1>7. CASE Judge
  <2>1. /\ UNCHANGED <<stdin, taken, eof, name, answer, pass, myssh, known>> /\ pc = "judge"
        /\ pc' \in {"trust", "password", "ssh_disconnect"} /\ myssh = "connected" /\ pass = 0
        /\ pc' = "password" => known = "SSH_SERVER_KNOWN_OK"
    BY <1>7 DEF Judge, Accept, Refuse, Unknown
  <2>2. pc' = "password" => known \notin Unknown /\ LastRead' = name
    BY <2>1 DEF Unknown, LastRead
  <2>3. AllRead' <=> AllRead
    BY <2>1 DEF AllRead
  <2> QED BY <1>4, <2>1, <2>2, <2>3
<1>8. CASE NothingToRead
  <2>1. /\ UNCHANGED <<stdin, taken, eof, name, answer, pass, myssh, known>>
        /\ pc \in Question /\ pc' = "ssh_disconnect" /\ myssh = "connected" /\ pass = 0
    BY <1>8 DEF NothingToRead, Refuse
  <2> QED BY <1>4, <2>1
<1>9. CASE AnswerTrust
  <2>1. /\ Fgets("trust") /\ UNCHANGED <<myssh, known, hosts, pass>>
        /\ pc = "trust" /\ pc' \in {"agree", "ssh_disconnect"}
        /\ myssh = "connected" /\ pass = 0
    BY <1>9 DEF AnswerTrust, Fgets, Refuse
  <2>2. /\ UNCHANGED <<stdin, eof, name>>
        /\ FirstStop(stdin, taken, taken')
        /\ Stop(stdin, taken') \/ (eof /\ taken' = Len(stdin))
        /\ taken' \in (taken + 1)..Len(stdin)
        /\ answer'["trust"].from = taken + 1 /\ answer'["trust"].to = taken'
    BY <2>1, FgetsFacts
  <2>3. name # 0 /\ taken = name
    <3>1. taken < Len(stdin) /\ Len(stdin) \in Nat
      BY <2>1, LenProperties DEF Fgets
    <3> QED BY <2>1, <3>1 DEF AllRead
  <2>4. FirstAnswer'
    BY <2>2, <2>3 DEF FirstAnswer
  <2> QED BY <2>1, <2>2, <2>4
<1>10. CASE AnswerAgree
  <2>1. /\ Fgets("agree") /\ UNCHANGED <<myssh, known, pass>>
        /\ pc = "agree" /\ pc' \in {"password", "ssh_disconnect"}
        /\ myssh = "connected" /\ pass = 0 /\ known \in Unknown
        /\ FirstAnswer /\ taken = answer["trust"].to
    BY <1>10 DEF AnswerAgree, Fgets, Accept, Refuse, KeyAt
  <2>2. /\ UNCHANGED <<stdin, eof, name>>
        /\ FirstStop(stdin, taken, taken')
        /\ Stop(stdin, taken') \/ (eof /\ taken' = Len(stdin))
        /\ taken' \in (taken + 1)..Len(stdin)
        /\ answer'["agree"].from = taken + 1 /\ answer'["agree"].to = taken'
        /\ answer'["trust"] = answer["trust"]
    BY <2>1, FgetsFacts
  <2>3. SecondAnswer'
    BY <2>1, <2>2 DEF FirstAnswer, SecondAnswer
  <2>4. LastRead' = taken' /\ name' # 0
    BY <2>1, <2>2 DEF LastRead, FirstAnswer
  <2>5. pc' = "password" => hosts' \/ AllRead'
    <3>1. CASE Text("agree")' = <<y>>
      BY <2>1, <3>1, BareAnswerIsLast
    <3>2. CASE Text("agree")' # <<y>>
      BY <1>10, <3>2 DEF AnswerAgree, Refuse
    <3> QED BY <3>1, <3>2
  <2> QED BY <2>1, <2>2, <2>3, <2>4, <2>5
<1>11. CASE ReadPassword
  <2>1. /\ UNCHANGED <<stdin, eof, name, myssh, known, answer, hosts>>
        /\ pc = "password" /\ pc' = "authenticate" /\ pass = 0
        /\ LastRead' = LastRead
    BY <1>11 DEF ReadPassword, LastRead
  <2>2. AnswersAt'
    BY <2>1 DEF SecondAnswer, FirstAnswer
  <2>3. CASE HasWord(stdin, taken) /\ pass' = NextWord(stdin, taken) /\ taken' = pass'
    <3>1. FirstWord(stdin, taken, pass') /\ ~AllRead /\ pass' \in 1..Len(stdin)
      BY <2>3, ScanFacts
    <3>2. name # 0 /\ taken = LastRead
      BY <2>1, <3>1
    <3>3. pass' # 0 /\ pass' <= taken'
      BY <2>3, <3>1
    <3> QED BY <2>1, <2>2, <3>1, <3>2, <3>3
  <2>4. CASE ~HasWord(stdin, taken) /\ eof /\ taken' = Len(stdin) /\ UNCHANGED pass
    <3>1. AllRead'
      BY <2>1, <2>4 DEF AllRead
    <3> QED BY <2>1, <2>2, <2>4, <3>1
  <2> QED BY <1>11, <2>3, <2>4 DEF ReadPassword
<1>12. CASE Authenticate
  <2>1. /\ UNCHANGED <<stdin, taken, eof, name, answer, pass, known>> /\ pc = "authenticate"
        /\ pc' \in {"sftp_new", "ssh_disconnect"} /\ myssh = "connected"
        /\ myssh' = myssh \/ myssh' = "authenticated"
    BY <1>12 DEF Authenticate
  <2>2. (AllRead' <=> AllRead) /\ LastRead' = LastRead /\ (SecondAnswer' <=> SecondAnswer)
    BY <2>1 DEF AllRead, LastRead, SecondAnswer, FirstAnswer
  <2> QED BY <2>1, <2>2
<1>13. CASE SftpNew \/ SftpInit \/ ReturnFromMenu \/ SftpFree \/ SshDisconnect \/ SshFree
  <2>1. /\ UNCHANGED <<stdin, taken, eof, name, answer, pass, known>>
        /\ pc \in {"sftp_new", "sftp_init", "menuloop", "sftp_free", "ssh_disconnect", "ssh_free"}
        /\ pc' \in {"sftp_init", "menuloop", "sftp_free", "ssh_disconnect", "ssh_free", "exit"}
        /\ pc' \in {"sftp_init", "menuloop"} => pc \in {"sftp_new", "sftp_init"}
        /\ myssh' = "authenticated" => myssh = "authenticated"
    BY <1>13 DEF SftpNew, SftpInit, ReturnFromMenu, SftpFree, SshDisconnect, SshFree
  <2>2. (AllRead' <=> AllRead) /\ LastRead' = LastRead /\ (SecondAnswer' <=> SecondAnswer)
    BY <2>1 DEF AllRead, LastRead, SecondAnswer, FirstAnswer
  <2> QED BY <2>1, <2>2
<1>14. CASE UNCHANGED vars
  <2>1. UNCHANGED <<pc, stdin, taken, eof, name, answer, pass, known, hosts, myssh>>
    BY <1>14 DEF vars
  <2>2. /\ AllRead' <=> AllRead
        /\ LastRead' = LastRead
        /\ SecondAnswer' <=> SecondAnswer
        /\ FirstAnswer' <=> FirstAnswer
    BY <2>1 DEF AllRead, LastRead, SecondAnswer, FirstAnswer
  <2> QED BY <2>1, <2>2
<1> QED BY <1>1, <1>2, <1>3, <1>5, <1>6, <1>7, <1>8, <1>9, <1>10, <1>11,
           <1>12, <1>13, <1>14 DEF Next, Step

LEMMA ReadsAlways == Spec => [](Keys /\ Reads)
<1>1. Init => NameAt /\ AnswersAt /\ PasswordAt
  BY DEF Init, NameAt, AnswersAt, PasswordAt, LetIn, Question
<1>2. Keys /\ Reads /\ InputShape' /\ [Next]_vars => Reads'
  BY ReadsKept
<1> QED BY <1>1, <1>2, TypeAlways, KeysAlways, PTL DEF Spec, Reads

-----------------------------------------------------------------------------

(* The last thing fgets read is in its buffer. *)
LEMMA TextFacts ==
    ASSUME TypeOK, NEW a \in 1..Len(stdin), NEW b \in a..Len(stdin)
    PROVE  stdin[b] \in ToSet(SubSeq(stdin, a, b))
<1> DEFINE part == SubSeq(stdin, a, b)
<1>1. stdin \in Seq(Word \cup White) /\ Len(stdin) \in Nat
  BY LenProperties DEF TypeOK
<1>2. a \in Int /\ b \in Int /\ \A i \in a..b : stdin[i] \in Word \cup White
  <2>1. \A i \in a..b : i \in 1..Len(stdin)
    BY <1>1
  <2> QED BY <1>1, <2>1, ElementOfSeq
<1>3. /\ part \in Seq(Word \cup White) /\ Len(part) = b - a + 1
      /\ \A i \in 1..(b - a + 1) : part[i] = stdin[a + i - 1]
  <2>1. /\ part \in Seq(Word \cup White) /\ Len(part) = IF a <= b THEN b - a + 1 ELSE 0
        /\ \A i \in 1..(b - a + 1) : part[i] = stdin[a + i - 1]
    BY <1>2, SubSeqProperties
  <2> HIDE DEF part
  <2> QED BY <1>1, <2>1
<1> HIDE DEF part
<1>4. b - a + 1 \in 1..(b - a + 1) /\ a + (b - a + 1) - 1 = b
  BY <1>1
<1>5. part[b - a + 1] = stdin[b]
  BY <1>3, <1>4
<1>6. DOMAIN part = 1..(b - a + 1)
  BY <1>3, LenProperties
<1> QED BY <1>4, <1>5, <1>6 DEF ToSet, part

(* The second question is asked where the line after the name's begins, or *)
(* behind a word that filled the buffer.                                   *)
LEMMA AfterFirstAnswer ==
    ASSUME TypeOK, SecondAnswer
    PROVE  LET stop == answer["trust"].to
           IN  /\ stop \in (name + 1)..Len(stdin) /\ name \in 1..Len(stdin)
               /\ \/ /\ stdin[stop] = NL
                     /\ Line(stdin, stop + 1) = Line(stdin, name) + 1
                  \/ /\ stdin[stop] \in LongWord
                     /\ \A k \in name..stop : stdin[k] # NL
<1> DEFINE stop == answer["trust"].to
<1>1. Len(stdin) \in Nat /\ name \in 1..Len(stdin) /\ stdin[name] \in Word
  BY LenProperties DEF TypeOK, SecondAnswer, FirstAnswer
<1>2. /\ stop \in (name + 1)..Len(stdin)
      /\ \A i \in (name + 1)..(stop - 1) : ~Stop(stdin, i)
      /\ Stop(stdin, stop) \/ stop = Len(stdin)
      /\ answer["agree"].to \in (stop + 1)..Len(stdin)
  BY DEF SecondAnswer, FirstAnswer, FirstStop
<1> HIDE DEF stop
<1>3. Stop(stdin, stop)
  BY <1>1, <1>2
<1>4. stdin[name] # NL
  BY <1>1, WordsAssumption DEF White
<1>5. \A k \in name..(stop - 1) : stdin[k] # NL
  <2>1. \A k \in name..(stop - 1) : k = name \/ k \in (name + 1)..(stop - 1)
    BY <1>1, <1>2
  <2> QED BY <1>2, <1>4, <2>1 DEF Stop
<1>6. CASE stdin[stop] = NL
  <2>1. /\ name \in Nat \ {0} /\ stop + 1 \in Nat /\ name <= stop + 1
        /\ stop \in name..(stop + 1 - 1)
        /\ \A k \in name..(stop + 1 - 1) : k = stop \/ k \in name..(stop - 1)
    BY <1>1, <1>2
  <2>2. Line(stdin, stop + 1) = Line(stdin, name) + 1
    BY <1>5, <1>6, <2>1, NextLine
  <2> QED BY <1>1, <1>2, <1>6, <2>2 DEF stop
<1>7. CASE stdin[stop] # NL
  <2>1. stdin[stop] \in LongWord
    BY <1>3, <1>7 DEF Stop
  <2>2. \A k \in name..stop : k = stop \/ k \in name..(stop - 1)
    BY <1>1, <1>2
  <2> QED BY <1>1, <1>2, <1>5, <1>7, <2>1, <2>2 DEF stop
<1> QED BY <1>6, <1>7

(* Whatever is typed, and however far ahead: nobody gets past an unknown   *)
(* key by the line that gave the name, but only by the line after it; or   *)
(* by a name's line that is too long for buf.                              *)
THEOREM LetInOnlyByNextLine == Spec => []LetInByNextLine
<1>1. Keys /\ Reads => LetInByNextLine
  <2> SUFFICES ASSUME Keys, Reads, LetIn PROVE LetInByNextLine
    BY DEF LetInByNextLine
  <2>1. TypeOK /\ SecondAnswer
    BY DEF Keys, Lives, Reads, AnswersAt
  <2> DEFINE stop == answer["trust"].to
  <2>2. /\ stop \in (name + 1)..Len(stdin) /\ name \in 1..Len(stdin)
        /\ answer["agree"].from = stop + 1 /\ answer["trust"].from = name + 1
    BY <2>1, AfterFirstAnswer DEF SecondAnswer, FirstAnswer
  <2>3. CASE Line(stdin, stop + 1) = Line(stdin, name) + 1
    BY <2>2, <2>3 DEF LetInByNextLine
  <2>4. CASE stdin[stop] \in LongWord
    <3>1. name + 1 \in 1..Len(stdin) /\ Len(stdin) \in Nat
      BY <2>1, <2>2, LenProperties DEF TypeOK
    <3>2. stdin[stop] \in ToSet(SubSeq(stdin, name + 1, stop))
      BY <2>1, <2>2, <3>1, TextFacts
    <3>3. Text("trust") = SubSeq(stdin, name + 1, stop)
      BY <2>2 DEF Text
    <3> QED BY <2>4, <3>2, <3>3 DEF LetInByNextLine
  <2> QED BY <2>1, <2>3, <2>4, AfterFirstAnswer
<1> QED BY <1>1, ReadsAlways, PTL

(* A password the user typed goes only to a server that known_hosts has.   *)
THEOREM PasswordSafe == Spec => []PasswordToKnownHost
<1>1. Init => PasswordToKnownHost
  BY DEF Init, PasswordToKnownHost
<1>2. Keys /\ Reads /\ PasswordToKnownHost /\ [Next]_vars => PasswordToKnownHost'
  <2> SUFFICES ASSUME Keys, Reads, PasswordToKnownHost, [Next]_vars
               PROVE  PasswordToKnownHost'
    OBVIOUS
  <2>1. CASE ReadPassword
    <3>1. pc = "password" /\ UNCHANGED <<known, hosts>> /\ TypeOK /\ pass = 0
      BY <2>1 DEF ReadPassword, Keys, Lives, Reads, PasswordAt
    <3>2. pass' # 0 => ~AllRead
      BY <2>1, <3>1, ScanFacts DEF ReadPassword
    <3>3. known = "SSH_SERVER_KNOWN_OK" \/ hosts \/ AllRead
      BY <3>1 DEF Reads, PasswordAt
    <3> QED BY <3>1, <3>2, <3>3 DEF PasswordToKnownHost
  <2>2. CASE pc' # "authenticate"
    BY <2>2 DEF PasswordToKnownHost
  <2>3. CASE UNCHANGED <<pc, known, hosts, pass>>
    BY <2>3 DEF PasswordToKnownHost
  <2> QED BY <2>1, <2>2, <2>3 DEF Next, Step, vars, TypeLine, SshNew, ReadName, Connect,
             GetKey, Judge, NothingToRead, AnswerTrust, AnswerAgree, Accept, Refuse,
             Authenticate, SftpNew, SftpInit, ReturnFromMenu, SftpFree, SshDisconnect, SshFree
<1> QED BY <1>1, <1>2, ReadsAlways, PTL DEF Spec

-----------------------------------------------------------------------------
(* The whole program.                                                      *)

(* The sftp session at the statements of main. *)
Before == {"start", "name", "connect", "verify", "judge", "trust", "agree", "password",
           "authenticate", "sftp_new"}
SftpAt ==
    /\ pc \in Before => mysftp = "none"
    /\ pc = "sftp_init" => mysftp = "new"
    /\ pc \in {"menuloop", "sftp_free"} => mysftp = "ready"

(* menuloop has not begun before its sftp session is ready, is under way   *)
(* only while main is in it, and leaves with 0 and nothing else.           *)
LoopAt ==
    /\ mysftp \in {"none", "new"} => loop = "command" /\ comm \in Garbage /\ at = 0
    /\ loop \notin {"command", "return"} => pc = "menuloop"
    /\ loop = "command" => at = 0
    /\ loop = "return" /\ pc # "menuloop" => status = 0
    /\ result = 0

Runs == SftpAt /\ LoopAt /\ ExitFrees

(* What menuloop takes for a command stands behind the password. *)
CommandAt ==
    at # 0 => /\ pass # 0 /\ at \in (pass + 1)..Len(stdin)
              /\ stdin[at] \notin White

ProgramInv == Keys /\ Reads /\ Runs /\ CommandAt

-----------------------------------------------------------------------------

(* menuloop reads with the same calls as main. *)
LEMMA SameReads ==
    ASSUME NEW s, NEW k
    PROVE  /\ M!HasWord(s, k) <=> HasWord(s, k)
           /\ M!NextWord(s, k) = NextWord(s, k)
           /\ M!RestEnd(s, k) = RestEnd(s, k)
<1>1. M!WordsLeft(s, k) = WordsLeft(s, k)
  BY DEF M!WordsLeft, WordsLeft, M!White, White
<1>2. M!HasWord(s, k) <=> HasWord(s, k)
  BY <1>1 DEF M!HasWord, HasWord
<1>3. \A S : M!Min(S) = Min(S)
  BY DEF M!Min, Min
<1>4. M!NextWord(s, k) = NextWord(s, k)
  BY <1>1, <1>3 DEF M!NextWord, NextWord
<1>5. M!RestEnd(s, k) = RestEnd(s, k)
  BY <1>3, <1>4 DEF M!RestEnd, RestEnd
<1> QED BY <1>2, <1>4, <1>5

(* What the proofs about menuloop assume of the constants. *)
LEMMA Assumed ==
    LoopP!LinesAssumption /\ LoopP!VocabularyAssumption /\ LoopP!DirsAssumption
<1>1. LoopP!LinesAssumption
  BY ProgramAssumption DEF LoopP!LinesAssumption, M!LinesAssumption, LoopP!ToSet, M!ToSet,
                           LoopP!White, M!White
<1>2. LoopP!VocabularyAssumption
  BY ProgramAssumption DEF LoopP!VocabularyAssumption, M!VocabularyAssumption,
                           LoopP!White, M!White, LoopP!NameWords, M!NameWords
<1>3. LoopP!DirsAssumption
  BY ProgramAssumption DEF LoopP!DirsAssumption, M!DirsAssumption, LoopP!Front, M!Front
<1> QED BY <1>1, <1>2, <1>3

(* menuloop reads on from where main has stopped, and takes the next word  *)
(* for a command or none.                                                  *)
LEMMA MenuReads ==
    ASSUME TypeOK, M!Step
    PROVE  /\ UNCHANGED <<stdin, eof, up>> /\ taken' \in taken..Len(stdin)
           /\ \/ at' \in {0, at}
              \/ HasWord(stdin, taken) /\ at' = NextWord(stdin, taken)
<1>1. /\ stdin \in Seq(Word \cup White) /\ Len(stdin) \in Nat /\ taken \in 0..Len(stdin)
      /\ taken \in taken..Len(stdin) /\ Len(stdin) \in taken..Len(stdin)
  BY LenProperties DEF TypeOK
<1>2. HasWord(stdin, taken) => NextWord(stdin, taken) \in taken..Len(stdin)
  BY <1>1, ScanFacts
<1>3. HasWord(stdin, taken) => RestEnd(stdin, taken) \in taken..Len(stdin)
  <2> SUFFICES ASSUME HasWord(stdin, taken) PROVE RestEnd(stdin, taken) \in taken..Len(stdin)
    OBVIOUS
  <2>1. stdin[NextWord(stdin, taken)] # NL
    BY ScanFacts, WordsAssumption DEF White
  <2>2. RestEnd(stdin, taken) \in NextWord(stdin, taken)..Len(stdin)
    BY <1>1, <2>1, RestEndFacts
  <2> QED BY <1>1, <1>2, <2>2
<1>4. M!Scan => /\ taken' \in taken..Len(stdin)
                /\ HasWord(stdin, taken) => taken' = NextWord(stdin, taken)
  BY <1>1, <1>2, SameReads DEF M!Scan
<1>5. CASE M!ReadCommand
  BY <1>4, <1>5, SameReads DEF M!ReadCommand
<1>6. CASE M!ReadName
  BY <1>4, <1>6 DEF M!ReadName
<1>7. CASE M!ReadRun
  BY <1>1, <1>3, <1>7, SameReads DEF M!ReadRun
<1>8. CASE M!LoopTest \/ M!Switch \/ M!Call
  BY <1>1, <1>8 DEF M!LoopTest, M!Switch, M!Call, M!input
<1> QED BY <1>5, <1>6, <1>7, <1>8 DEF M!Step

(* A step of main's keeps what is said of main by itself. *)
LEMMA MainKeeps ==
    ASSUME Keys, Reads, Step \/ TypeLine
    PROVE  Keys' /\ Reads'
<1>1. Next /\ TypeOK /\ InputShape
  BY DEF Next, Keys, Lives, Reads
<1>2. TypeOK' /\ InputShape'
  BY <1>1, TypeKept
<1>3. Keys'
  BY <1>1, <1>2, LivesKept, KeysKept DEF Keys
<1> QED BY <1>1, <1>2, <1>3, ReadsKept

(* menuloop leaves main where it is, and reads on. *)
LEMMA MenuKeeps ==
    ASSUME Keys, Reads, UNCHANGED main, UNCHANGED <<stdin, eof>>,
           taken' = taken \/ (pc = "menuloop" /\ taken' \in taken..Len(stdin))
    PROVE  Keys' /\ Reads'
<1>1. /\ UNCHANGED <<pc, name, myssh, mysftp, known, hash, answer, hosts, pass, status>>
      /\ Len(stdin) \in Nat /\ taken \in 0..Len(stdin)
  BY LenProperties DEF main, Keys, Lives, TypeOK
<1>2. PICK n \in taken..Len(stdin) : n = taken' /\ (n = taken \/ pc = "menuloop")
  BY <1>1
<1>3. n \in 0..Len(stdin)
  BY <1>1
<1>4. TypeOK'
  BY <1>1, <1>2, <1>3 DEF Keys, Lives, TypeOK
<1>5. Keys'
  BY <1>1, <1>4 DEF Keys, Lives, SessionsAt, LeakOnlyWithoutSftp, KeyAt, HashReleased
<1>6. InputShape' /\ NameAt'
  BY <1>1, <1>2 DEF Reads, InputShape, NameAt, AllRead
<1>7. FirstAnswer = FirstAnswer' /\ SecondAnswer = SecondAnswer' /\ LastRead' = LastRead
  BY <1>1 DEF FirstAnswer, SecondAnswer, LastRead
<1>8. AnswersAt'
  BY <1>1, <1>2, <1>7 DEF Reads, AnswersAt, LetIn
<1>9. AllRead => AllRead'
  BY <1>1, <1>2 DEF AllRead
<1>10. PasswordAt'
  <2>1. pass \in Int /\ (pass <= taken => pass <= n)
    BY <1>1 DEF Keys, Lives, TypeOK
  <2> QED BY <1>1, <1>2, <1>7, <1>9, <2>1 DEF Reads, PasswordAt
<1> QED BY <1>5, <1>6, <1>8, <1>10 DEF Reads

(* Main goes through its statements in order, with a sftp session only     *)
(* between SftpNew and SftpFree.                                           *)
LEMMA MainRuns ==
    ASSUME Keys, Runs, Step, pc # "menuloop", UNCHANGED menu
    PROVE  Runs'
<1> USE DEF SftpAt, LoopAt, ExitFrees, Before, menu
<1>0. SftpAt /\ LoopAt /\ ExitFrees
  BY DEF Runs
<1>1. pc \notin {"sftp_init", "menuloop", "sftp_free"} => mysftp \in {"none", "freed"}
  BY DEF Keys, Lives, SessionsAt
<1>2. CASE SshNew \/ ReadName \/ Connect
  BY <1>0, <1>2 DEF SshNew, ReadName, Connect, Runs
<1>3. CASE GetKey
  BY <1>0, <1>3 DEF GetKey, Refuse, Runs
<1>4. CASE Judge
  BY <1>0, <1>4 DEF Judge, Refuse, Accept, Runs
<1>5. CASE NothingToRead
  BY <1>0, <1>5 DEF NothingToRead, Refuse, Question, Runs
<1>6. CASE AnswerTrust
  BY <1>0, <1>6 DEF AnswerTrust, Fgets, Refuse, Runs
<1>7. CASE AnswerAgree
  BY <1>0, <1>7 DEF AnswerAgree, Fgets, Refuse, Accept, Runs
<1>8. CASE ReadPassword \/ Authenticate
  BY <1>0, <1>8 DEF ReadPassword, Authenticate, Runs
<1>9. CASE SftpNew
  BY <1>0, <1>9 DEF SftpNew, Runs
<1>10. CASE SftpInit
  BY <1>0, <1>10 DEF SftpInit, Runs
<1>11. CASE ReturnFromMenu
  BY <1>11 DEF ReturnFromMenu
<1>12. CASE SftpFree
  BY <1>0, <1>12 DEF SftpFree, Runs
<1>13. CASE SshDisconnect
  BY <1>0, <1>1, <1>13 DEF SshDisconnect, Runs
<1>14. CASE SshFree
  BY <1>0, <1>1, <1>14 DEF SshFree, Runs
<1> QED BY <1>2, <1>3, <1>4, <1>5, <1>6, <1>7, <1>8, <1>9, <1>10, <1>11, <1>12, <1>13,
           <1>14 DEF Step

(* menuloop's switch knows every value of parse, so that it never returns  *)
(* an error.                                                               *)
LEMMA SwitchReturns == ASSUME M!Switch PROVE result' = result
<1>1. M!parse(comm) \in -1..12
  <2>1. M!parse(comm) = LoopP!parse(comm)
    BY DEF M!parse, LoopP!parse, M!words, LoopP!words, M!SelectInSeq, LoopP!SelectInSeq,
           M!Min, LoopP!Min
  <2> QED BY <2>1, Assumed, LoopP!ParseFacts
<1> QED BY <1>1 DEF M!Switch

LEMMA LoopRuns ==
    ASSUME Runs, M!Step, pc = "menuloop", UNCHANGED main
    PROVE  Runs'
<1> USE DEF SftpAt, LoopAt, ExitFrees, Before, main, Runs
<1>0. SftpAt /\ LoopAt /\ mysftp = "ready"
  OBVIOUS
<1>1. CASE M!ReadCommand
  BY <1>0, <1>1 DEF M!ReadCommand
<1>2. CASE M!LoopTest
  BY <1>0, <1>2 DEF M!LoopTest
<1>3. CASE M!Switch
  <2>1. loop' = "command" => at' = 0
    BY <1>3 DEF M!Switch
  <2> QED BY <1>0, <1>3, <2>1, SwitchReturns
<1>4. CASE M!ReadName \/ M!ReadRun
  BY <1>0, <1>4 DEF M!ReadName, M!ReadRun
<1>5. CASE M!Call
  BY <1>0, <1>5 DEF M!Call
<1> QED BY <1>1, <1>2, <1>3, <1>4, <1>5 DEF M!Step

(* main does not come back to the password once menuloop has begun.        *)
LEMMA PassStays ==
    ASSUME Reads, Runs, Step, at # 0, UNCHANGED menu PROVE UNCHANGED <<stdin, pass>>
<1>1. pc \notin Before
  BY DEF Runs, LoopAt, SftpAt
<1> QED BY <1>1 DEF Step, Before, SshNew, ReadName, Connect, GetKey, Judge, NothingToRead,
           Question, AnswerTrust, AnswerAgree, Fgets, ReadPassword, Authenticate, SftpNew,
           SftpInit, ReturnFromMenu, SftpFree, SshDisconnect, SshFree, input

LEMMA MenuloopKeeps == ASSUME ProgramInv, Menuloop PROVE ProgramInv'
<1>1. /\ Keys /\ Reads /\ Runs /\ CommandAt /\ TypeOK /\ PasswordAt
      /\ M!Step /\ pc = "menuloop" /\ UNCHANGED main
  BY DEF ProgramInv, Menuloop, Keys, Lives, Reads
<1>2. /\ UNCHANGED <<stdin, eof, up>> /\ taken' \in taken..Len(stdin)
      /\ \/ at' \in {0, at}
         \/ HasWord(stdin, taken) /\ at' = NextWord(stdin, taken)
  BY <1>1, MenuReads
<1>3. Keys' /\ Reads'
  BY <1>1, <1>2, MenuKeeps
<1>4. Runs'
  BY <1>1, LoopRuns
<1>5. UNCHANGED <<stdin, pass>>
  BY <1>1, <1>2 DEF main
<1>6. CASE at' \in {0, at}
  <2>1. CommandAt'
    BY <1>1, <1>5, <1>6 DEF CommandAt
  <2> QED BY <1>3, <1>4, <2>1 DEF ProgramInv
<1>7. CASE HasWord(stdin, taken) /\ at' = NextWord(stdin, taken)
  <2> DEFINE w == NextWord(stdin, taken)
  <2>1. w \in (taken + 1)..Len(stdin) /\ stdin[w] \notin White /\ ~AllRead
    BY <1>1, <1>7, ScanFacts DEF FirstWord
  <2>2. pass # 0 /\ pass <= taken
    BY <1>1, <2>1 DEF PasswordAt
  <2>3. taken \in Nat /\ pass \in Nat /\ Len(stdin) \in Nat
    BY <1>1, LenProperties DEF TypeOK
  <2> HIDE DEF w
  <2>4. w \in (pass + 1)..Len(stdin)
    BY <2>1, <2>2, <2>3
  <2>5. CommandAt'
    BY <1>5, <1>7, <2>1, <2>2, <2>4 DEF CommandAt, w
  <2> QED BY <1>3, <1>4, <2>5 DEF ProgramInv
<1> QED BY <1>2, <1>6, <1>7

LEMMA MainStepKeeps == ASSUME ProgramInv, Main PROVE ProgramInv'
<1>1. /\ Keys /\ Reads /\ Runs /\ CommandAt
      /\ Step /\ pc # "menuloop" /\ UNCHANGED menu
  BY DEF ProgramInv, Main
<1>2. Keys' /\ Reads'
  BY <1>1, MainKeeps
<1>3. Runs'
  BY <1>1, MainRuns
<1>4. CommandAt'
  BY <1>1, PassStays DEF CommandAt, menu
<1> QED BY <1>2, <1>3, <1>4 DEF ProgramInv

LEMMA ReturnKeeps == ASSUME ProgramInv, Return PROVE ProgramInv'
<1>1. /\ Keys /\ Reads /\ Runs /\ CommandAt
      /\ Step /\ UNCHANGED menu /\ ReturnFromMenu
      /\ loop = "return" /\ status' = (IF result < 0 THEN 1 ELSE 0)
  BY DEF ProgramInv, Return, Step
<1>2. Keys' /\ Reads'
  BY <1>1, MainKeeps
<1>3. Runs'
  <2>1. result = 0 /\ SftpAt /\ LoopAt
    BY <1>1 DEF Runs, LoopAt
  <2>2. status' = 0
    BY <1>1, <2>1
  <2> QED BY <1>1, <2>1, <2>2 DEF Runs, SftpAt, LoopAt, ExitFrees, ReturnFromMenu, menu, Before
<1>4. CommandAt'
  BY <1>1, PassStays DEF CommandAt, menu
<1> QED BY <1>2, <1>3, <1>4 DEF ProgramInv

LEMMA UserTypesKeeps == ASSUME ProgramInv, UserTypes PROVE ProgramInv'
<1>1. /\ Keys /\ Reads /\ Runs /\ CommandAt /\ TypeOK /\ InputShape
      /\ TypeLine /\ UNCHANGED menu
  BY DEF ProgramInv, UserTypes, Keys, Lives, Reads
<1>2. Keys' /\ Reads'
  BY <1>1, MainKeeps
<1>3. /\ UNCHANGED <<pc, myssh, mysftp, pass, status>>
      /\ UNCHANGED <<loop, comm, at, result>>
  BY <1>1 DEF TypeLine, menu
<1>4. Runs'
  BY <1>1, <1>3 DEF Runs, SftpAt, LoopAt, ExitFrees
<1>5. Extends(stdin, stdin') /\ stdin \in Seq(Word \cup White) /\ stdin' \in Seq(Word \cup White)
  BY <1>1, TypedShape DEF TypeOK
<1>6. CommandAt'
  <2> SUFFICES ASSUME at # 0 PROVE CommandAt'
    BY <1>3 DEF CommandAt
  <2>1. pass # 0 /\ pass \in Nat /\ at \in (pass + 1)..Len(stdin) /\ stdin[at] \notin White
    BY <1>1 DEF CommandAt, TypeOK
  <2>2. Len(stdin) \in Nat /\ Len(stdin') \in Nat /\ Len(stdin) <= Len(stdin')
        /\ \A i \in 1..Len(stdin) : stdin'[i] = stdin[i]
    BY <1>5, LenProperties DEF Extends
  <2>3. at \in 1..Len(stdin) /\ at \in (pass + 1)..Len(stdin')
    BY <2>1, <2>2
  <2> QED BY <1>3, <2>1, <2>2, <2>3 DEF CommandAt
<1> QED BY <1>2, <1>4, <1>6 DEF ProgramInv

(* Losing the connection changes nothing but what it lets succeed. *)
LEMMA NothingMoves ==
    ASSUME ProgramInv, UNCHANGED <<terminal, main, menu>> PROVE ProgramInv'
<1>1. /\ Keys /\ Reads /\ Runs /\ CommandAt
      /\ UNCHANGED <<stdin, taken, eof>> /\ UNCHANGED main
      /\ UNCHANGED <<pc, myssh, mysftp, pass, status>>
      /\ UNCHANGED <<loop, comm, at, result>>
  BY DEF ProgramInv, terminal, main, menu
<1>2. Keys' /\ Reads'
  BY <1>1, MenuKeeps
<1>3. Runs'
  BY <1>1 DEF Runs, SftpAt, LoopAt, ExitFrees
<1>4. CommandAt'
  BY <1>1 DEF CommandAt
<1> QED BY <1>2, <1>3, <1>4 DEF ProgramInv

LEMMA ProgramInitHolds == ASSUME ProgramInit PROVE ProgramInv
<1>1. Init /\ M!Init
  BY DEF ProgramInit
<1>2. TypeOK /\ InputShape /\ Lives
  BY <1>1, TypeInit, LivesInit
<1>3. Keys
  BY <1>1, <1>2 DEF Init, Keys, KeyAt, HashReleased, Question
<1>4. Reads
  BY <1>1, <1>2 DEF Init, Reads, NameAt, AnswersAt, PasswordAt, LetIn, Question
<1>5. Runs /\ CommandAt
  BY <1>1 DEF Init, M!Init, Runs, SftpAt, LoopAt, ExitFrees, CommandAt, Before
<1> QED BY <1>3, <1>4, <1>5 DEF ProgramInv

LEMMA ProgramInductive == ProgramSpec => []ProgramInv
<1>1. ASSUME ProgramInv, [ProgramNext]_program PROVE ProgramInv'
  <2>1. CASE Main \/ Menuloop \/ Return
    BY <1>1, <2>1, MainStepKeeps, MenuloopKeeps, ReturnKeeps
  <2>2. CASE UserTypes
    BY <1>1, <2>2, UserTypesKeeps
  <2>3. CASE LoseConnection \/ UNCHANGED program
    <3>1. UNCHANGED <<terminal, main, menu>>
      BY <2>3 DEF LoseConnection, program
    <3> QED BY <1>1, <3>1, NothingMoves
  <2> QED BY <1>1, <2>1, <2>2, <2>3 DEF ProgramNext, ProgramStep
<1> QED BY <1>1, ProgramInitHolds, PTL DEF ProgramSpec

(* The menu runs only over a session and an sftp session that are up, and  *)
(* has done nothing, read no command, before there are any (main.c:46-70). *)
THEOREM MenuRunsInSession == ProgramSpec => []MenuInSession
<1>1. ProgramInv => MenuInSession
  <2> SUFFICES ASSUME ProgramInv PROVE MenuInSession
    OBVIOUS
  <2>1. TypeOK /\ SessionsAt /\ SftpAt /\ LoopAt
    BY DEF ProgramInv, Keys, Lives, Runs
  <2> QED BY <2>1 DEF MenuInSession, SessionsAt, SftpAt, LoopAt
<1> QED BY <1>1, ProgramInductive, PTL

(* Whatever menuloop was left for - exit, or a lost connection at any      *)
(* statement of it - main frees both sessions and exits with 0.  The exits *)
(* before menuloop, of which two leave the session behind, are the subject *)
(* of NoLeakWithSftp.                                                      *)
THEOREM ExitFreesBoth == ProgramSpec => []ExitFrees
<1>1. ProgramInv => ExitFrees
  BY DEF ProgramInv, Runs
<1> QED BY <1>1, ProgramInductive, PTL

-----------------------------------------------------------------------------
(* One word on each line: the lines of the words that are read.            *)

LEMMA WordFacts ==
    ASSUME TypeOK
    PROVE  /\ stdin \in Seq(Word \cup White) /\ Len(stdin) \in Nat
           /\ WordsLeft(stdin, 0) = {i \in 1..Len(stdin) : stdin[i] \notin White}
           /\ \A i \in 1..Len(stdin) : Line(stdin, i) \in Nat
<1>1. stdin \in Seq(Word \cup White) /\ Len(stdin) \in Nat
  BY LenProperties DEF TypeOK
<1> QED BY <1>1, EndsFinite DEF WordsLeft

(* No line is passed over without its word. *)
LEMMA NoneSkipped ==
    ASSUME TypeOK, OneWordALine, NEW k \in 0..Len(stdin), NEW w, FirstWord(stdin, k, w),
           NEW m \in (k + 1)..(w - 1), stdin[m] = NL
    PROVE  \E i \in 1..k : Line(stdin, i) = Line(stdin, m)
<1>1. Len(stdin) \in Nat /\ w \in (k + 1)..Len(stdin)
  BY WordFacts DEF FirstWord
<1>2. m \in 1..Len(stdin)
  BY <1>1
<1>3. PICK i \in WordsLeft(stdin, 0) : Line(stdin, i) = Line(stdin, m)
  BY <1>2 DEF OneWordALine
<1>4. i \in 1..Len(stdin) /\ stdin[i] \notin White
  BY <1>3, WordFacts
<1>5. i # m
  BY <1>4 DEF White
<1>6. ~(m < i)
  <2> SUFFICES ASSUME m < i PROVE FALSE
    OBVIOUS
  <2>1. m \in Nat \ {0} /\ i \in Nat /\ m <= i /\ m \in m..(i - 1)
    BY <1>2, <1>4
  <2>2. Line(stdin, m) < Line(stdin, i)
    BY <2>1, LaterLine
  <2>3. Line(stdin, m) \in Nat
    BY <1>2, WordFacts
  <2> QED BY <1>3, <2>2, <2>3
<1>7. ~(i \in (k + 1)..(w - 1))
  BY <1>4 DEF FirstWord
<1>8. i \in 1..k
  BY <1>1, <1>4, <1>5, <1>6, <1>7
<1> QED BY <1>3, <1>8

(* At most one line ends on the way to the next word. *)
LEMMA OneEnd ==
    ASSUME TypeOK, OneWordALine, NEW k \in 1..Len(stdin), NEW w, FirstWord(stdin, k, w),
           NEW a \in k..(w - 1), NEW b \in k..(w - 1), stdin[a] = NL, stdin[b] = NL
    PROVE  ~(a < b)
<1> SUFFICES ASSUME a < b PROVE FALSE
  OBVIOUS
<1>1. Len(stdin) \in Nat /\ w \in (k + 1)..Len(stdin)
  BY WordFacts DEF FirstWord
<1>2. k \in 0..Len(stdin) /\ b \in (k + 1)..(w - 1)
  BY <1>1
<1>3. PICK i \in 1..k : Line(stdin, i) = Line(stdin, b)
  BY <1>2, NoneSkipped
<1>4. i \in Nat \ {0} /\ k \in Nat \ {0} /\ i <= k /\ b \in Nat /\ k <= b /\ a \in k..(b - 1)
      /\ i \in 1..Len(stdin) /\ a \in 1..Len(stdin) /\ b \in 1..Len(stdin)
  BY <1>1, <1>2
<1>5. Line(stdin, i) <= Line(stdin, k) /\ Line(stdin, k) <= Line(stdin, a)
      /\ Line(stdin, a) < Line(stdin, b)
  BY <1>4, LaterLine
<1>6. /\ Line(stdin, i) \in Nat /\ Line(stdin, k) \in Nat
      /\ Line(stdin, a) \in Nat /\ Line(stdin, b) \in Nat
  BY <1>4, WordFacts
<1> QED BY <1>3, <1>5, <1>6

(* The word after a word, or after the end of a line, is on the next line. *)
LEMMA NextWordsLine ==
    ASSUME TypeOK, OneWordALine, NEW k \in 1..Len(stdin), NEW w, FirstWord(stdin, k, w),
           stdin[k] = NL \/ stdin[k] \notin White
    PROVE  Line(stdin, w) = Line(stdin, k) + 1
<1>1. Len(stdin) \in Nat /\ w \in (k + 1)..Len(stdin) /\ stdin[w] \notin White
  BY WordFacts DEF FirstWord
<1>2. /\ k \in Nat \ {0} /\ w \in Nat /\ k <= w /\ k < w /\ k \in k..(w - 1)
      /\ w \in 1..Len(stdin)
  BY <1>1
<1>3. \E m \in k..(w - 1) : stdin[m] = NL
  <2>1. CASE stdin[k] = NL
    BY <1>2, <2>1
  <2>2. CASE stdin[k] \notin White
    <3>1. k \in WordsLeft(stdin, 0) /\ w \in WordsLeft(stdin, 0)
      BY <1>1, <1>2, <2>2, WordFacts
    <3>2. Line(stdin, k) < Line(stdin, w)
      BY <1>2, <3>1 DEF OneWordALine
    <3>3. Line(stdin, k) \in Nat
      BY WordFacts
    <3>4. Line(stdin, w) # Line(stdin, k)
      BY <3>2, <3>3
    <3> QED BY <1>2, <3>4, OneLineOn
  <2> QED BY <2>1, <2>2
<1>4. PICK m \in k..(w - 1) : stdin[m] = NL
  BY <1>3
<1>5. ASSUME NEW n \in k..(w - 1), stdin[n] = NL PROVE n = m
  <2>1. ~(n < m) /\ ~(m < n)
    BY <1>4, <1>5, OneEnd
  <2> QED BY <1>1, <1>4, <1>5, <2>1
<1> QED BY <1>2, <1>4, <1>5, NextLine

LEMMA FirstWordsLine ==
    ASSUME TypeOK, OneWordALine, NEW w, FirstWord(stdin, 0, w)
    PROVE  Line(stdin, w) = 1
<1>1. Len(stdin) \in Nat /\ 0 \in 0..Len(stdin)
  BY WordFacts
<1>2. ASSUME NEW m \in 1..(w - 1), stdin[m] = NL PROVE FALSE
  <2>1. \E i \in 1..0 : Line(stdin, i) = Line(stdin, m)
    <3>1. m \in (0 + 1)..(w - 1)
      OBVIOUS
    <3> QED BY <1>1, <1>2, <3>1, NoneSkipped
  <2> QED BY <2>1
<1>3. EndsBefore(stdin, w) = {}
  BY <1>2 DEF EndsBefore
<1> QED BY <1>3, FS_EmptySet DEF Line

(* The line after the name's answers the second question, and no part of   *)
(* it is left for the password.                                            *)
LEMMA PasswordAfterAnswers ==
    ASSUME TypeOK, OneWordALine, SecondAnswer, Line(stdin, name) = 1,
           FirstWord(stdin, answer["agree"].to, pass)
    PROVE  Line(stdin, pass) = 3
<1> DEFINE stop == answer["trust"].to
           e == answer["agree"].to
<1>1. /\ stop \in (name + 1)..Len(stdin) /\ name \in 1..Len(stdin)
      /\ \/ stdin[stop] = NL /\ Line(stdin, stop + 1) = Line(stdin, name) + 1
         \/ stdin[stop] \in LongWord /\ \A k \in name..stop : stdin[k] # NL
  BY AfterFirstAnswer
<1>2. Len(stdin) \in Nat /\ stdin[name] \in Word
  BY <1>1, WordFacts DEF TypeOK
<1>3. /\ e \in (stop + 1)..Len(stdin) /\ pass \in (e + 1)..Len(stdin)
      /\ \A i \in (stop + 1)..(e - 1) : ~Stop(stdin, i)
      /\ Stop(stdin, e) \/ e = Len(stdin)
  BY DEF SecondAnswer, FirstStop, FirstWord
<1>0. FirstWord(stdin, e, pass)
  OBVIOUS
<1> HIDE DEF stop, e
<1>4. LongWord \cap White = {} /\ Word \cap White = {}
  BY WordsAssumption
<1>5. Line(stdin, stop + 1) = 2
  <2>1. CASE stdin[stop] = NL
    BY <1>1, <2>1, <1>4 DEF White
  <2>2. CASE stdin[stop] \in LongWord /\ \A k \in name..stop : stdin[k] # NL
    <3>1. /\ stop \in 1..Len(stdin) /\ name < stop /\ name \in Nat \ {0} /\ stop \in Nat
          /\ name <= stop /\ \A k \in name..(stop - 1) : k \in name..stop
      BY <1>1, <1>2
    <3>2. name \in WordsLeft(stdin, 0) /\ stop \in WordsLeft(stdin, 0)
      BY <1>1, <1>2, <1>4, <2>2, <3>1, WordFacts
    <3>3. Line(stdin, name) < Line(stdin, stop)
      BY <3>1, <3>2 DEF OneWordALine
    <3>4. Line(stdin, stop) = Line(stdin, name)
      BY <2>2, <3>1, OneLineOn
    <3> QED BY <3>3, <3>4
  <2> QED BY <1>1, <2>1, <2>2
<1>6. Line(stdin, e) = 2
  <2>1. stop + 1 \in Nat \ {0} /\ e \in Nat /\ stop + 1 <= e
    BY <1>1, <1>2, <1>3
  <2>2. \A k \in (stop + 1)..(e - 1) : stdin[k] # NL
    BY <1>3 DEF Stop
  <2> QED BY <1>5, <2>1, <2>2, OneLineOn
<1>7. Stop(stdin, e) /\ e \in 1..Len(stdin)
  BY <1>1, <1>2, <1>3
<1>8. stdin[e] = NL \/ stdin[e] \notin White
  BY <1>4, <1>7 DEF Stop
<1>9. Line(stdin, pass) = Line(stdin, e) + 1
  BY <1>0, <1>7, <1>8, NextWordsLine
<1> QED BY <1>6, <1>9

(* However far ahead he types: to a user who gives one word on each line   *)
(* the prompts do not lose step.  His third line, or where the key is      *)
(* known his second one, is taken for the password (main.c:45), what the   *)
(* questions leave of a long answer never is, and no command of menuloop's *)
(* stands on that line or before it.                                       *)
THEOREM OnlyCommandsRun == ProgramSpec => []CommandsTyped
<1>1. ProgramInv => CommandsTyped
  <2> SUFFICES ASSUME ProgramInv, OneWordALine, loop = "while", at # 0
               PROVE  /\ Line(stdin, pass) = IF known \in Unknown THEN 3 ELSE 2
                      /\ Line(stdin, at) > Line(stdin, pass)
    BY DEF CommandsTyped
  <2>1. /\ TypeOK /\ NameAt /\ PasswordAt /\ AnswersAt
        /\ pc = "menuloop" /\ myssh = "authenticated"
        /\ pass # 0 /\ at \in (pass + 1)..Len(stdin) /\ stdin[at] \notin White
    BY DEF ProgramInv, Keys, Lives, SessionsAt, Reads, Runs, LoopAt, CommandAt
  <2>2. name # 0 /\ FirstWord(stdin, LastRead, pass) /\ FirstWord(stdin, 0, name)
    BY <2>1 DEF NameAt, PasswordAt
  <2>3. /\ name \in 1..Len(stdin) /\ pass \in 1..Len(stdin) /\ Len(stdin) \in Nat
        /\ stdin[name] \notin White /\ stdin[pass] \notin White
    BY <2>1, <2>2, WordFacts, WordsAssumption DEF TypeOK
  <2>4. Line(stdin, name) = 1
    BY <2>1, <2>2, FirstWordsLine
  <2>5. ASSUME known \in Unknown PROVE Line(stdin, pass) = 3
    <3>1. SecondAnswer /\ LastRead = answer["agree"].to
      BY <2>1, <2>5 DEF AnswersAt, LetIn, LastRead
    <3> QED BY <2>1, <2>2, <2>4, <3>1, PasswordAfterAnswers
  <2>6. ASSUME known \notin Unknown PROVE Line(stdin, pass) = 2
    <3>1. LastRead = name
      BY <2>6 DEF LastRead
    <3>2. Line(stdin, pass) = Line(stdin, name) + 1
      BY <2>1, <2>2, <2>3, <3>1, NextWordsLine
    <3> QED BY <2>4, <3>2
  <2>7. Line(stdin, at) > Line(stdin, pass)
    <3>1. at \in 1..Len(stdin) /\ pass < at
      BY <2>1, <2>3
    <3>2. pass \in WordsLeft(stdin, 0) /\ at \in WordsLeft(stdin, 0)
      BY <2>1, <2>3, <3>1, WordFacts
    <3>3. Line(stdin, pass) < Line(stdin, at)
      BY <3>1, <3>2 DEF OneWordALine
    <3>4. Line(stdin, pass) \in Nat /\ Line(stdin, at) \in Nat
      BY <2>1, <2>3, <3>1, WordFacts
    <3> QED BY <3>3, <3>4
  <2>8. Line(stdin, pass) = IF known \in Unknown THEN 3 ELSE 2
    BY <2>5, <2>6
  <2> QED BY <2>7, <2>8
<1> QED BY <1>1, ProgramInductive, PTL
=============================================================================
