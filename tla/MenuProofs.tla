----------------------------- MODULE MenuProofs -----------------------------
(***************************************************************************)
(* What menuloop guarantees whatever is typed, however long and however    *)
(* far ahead, wherever the connection is lost, and whatever directories    *)
(* there are.  The invariant has four parts: the input, the command that   *)
(* is being done, the word it was read as, and what the words are meant    *)
(* for, as long as they are typed as Tidy asks.                            *)
(***************************************************************************)
EXTENDS Menu, StdioProofs

Token == (UNION {ToSet(line) : line \in Lines}) \cup {NL}

Turn == {"while", "switch", "name", "run", "call"}

(* Only the end of the input leaves a line without an end. *)
InputAt == stdin \in Seq(Token) /\ (~eof => Ended(stdin))

(* The switch remembers which word it was given, until the operation is    *)
(* done: comm does not change before.                                      *)
ChoiceAt ==
    /\ pc \in {"name", "run", "call"} => choice \in 4..12 /\ comm = words[choice + 1]
    /\ pc = "name" => choice \in NameCommands
    /\ pc = "run" => choice = RunCommand

(* There are no more words, and there will be none. *)
Over == eof /\ ~HasWord(stdin, taken)

(* Where comm was read; nothing else is read until its command asks for it. *)
WordAt ==
    /\ pc = "command" => at = 0
    /\ pc \in Turn /\ at = 0 => Over
    /\ pc \in Turn /\ at # 0 => stdin[at] = comm
    /\ pc \in Turn \ {"call"} /\ at # 0 => taken = at

(* The last word that was read, at i, asks for nothing more: the next one  *)
(* is a command.                                                           *)
LastRead(i) ==
    /\ i \in 0..taken /\ (i # 0 => stdin[i] \notin White)
    /\ \A j \in (i + 1)..taken : stdin[j] \in White
LineDone == taken < Len(stdin) /\ stdin[taken + 1] = NL
AsksNothing(i) ==
    i # 0 => /\ stdin[i] \notin NameWords \cup {"run"}
             /\ stdin[i] \in RemoteWords => LineDone
Settled == Over \/ \E i \in 0..taken : LastRead(i) /\ AsksNothing(i)

MeantAt ==
    Tidy =>
        /\ pc \in Turn /\ at # 0 => comm \notin FileNames \cup RemoteWords
        /\ pc \in {"call", "command"} => Settled
        /\ pc = "call" /\ at # 0 =>
              \/ eof /\ ~HasWord(stdin, at)
              \/ /\ choice \in NameCommands => fname \in FileNames
                 /\ choice = RunCommand => ToSet(command) \subseteq RemoteWords \cup {SP}

IInv == TypeOK /\ InputAt /\ ChoiceAt /\ WordAt /\ MeantAt

-----------------------------------------------------------------------------

(* parse returns a position in words, -1, or 0 for want of a connection.   *)
LEMMA ParseFacts ==
    ASSUME NEW word
    PROVE  /\ parse(word) \in -1..12
           /\ parse(word) > 0 => word = words[parse(word) + 1]
           /\ parse(word) = -1 => word \notin NameWords \cup {"run"}
<1> DEFINE I == {i \in 1..Len(words) : words[i] = word}
           found == SelectInSeq(words, LAMBDA w : w = word)
<1>1. /\ Len(words) = 13 /\ words[5] = "cdl" /\ words[6] = "cdr" /\ words[7] = "pushs"
      /\ words[8] = "pulls" /\ words[9] = "run"
  BY DEF words
<1>2. found = IF I # {} THEN Min(I) ELSE 0
  BY DEF SelectInSeq
<1>3. I # {} => Min(I) \in I
  <2>1. I \subseteq Nat
    OBVIOUS
  <2> HIDE DEF I
  <2> QED BY <2>1, MinFacts
<1>4. found = 0 \/ (found \in 1..13 /\ words[found] = word)
  <2> HIDE DEF found
  <2> QED BY <1>1, <1>2, <1>3
<1>5. parse(word) = IF ~up THEN 0 ELSE found - 1
  BY DEF parse
<1>6. found = 0 => word \notin NameWords \cup {"run"}
  <2>1. found = 0 => I = {}
    <3> HIDE DEF found
    <3> QED BY <1>1, <1>2, <1>3
  <2>2. \A i \in 1..13 : words[i] = word => I # {}
    BY <1>1
  <2> HIDE DEF found, I
  <2>3. found = 0 => \A i \in 1..13 : words[i] # word
    BY <2>1, <2>2
  <2> QED BY <1>1, <2>3 DEF NameWords
<1> HIDE DEF found
<1>7. parse(word) > 0 => found \in 1..13 /\ found = parse(word) + 1
  BY <1>4, <1>5
<1> QED BY <1>4, <1>5, <1>6, <1>7

(* Which words ask for something. *)
LEMMA WordsFacts ==
    ASSUME NEW c \in 1..12
    PROVE  /\ words[c + 1] \in NameWords <=> c \in NameCommands
           /\ words[c + 1] = "run" <=> c = RunCommand
           /\ c = 4 => words[c + 1] = "cdl"
           /\ c = 5 => words[c + 1] = "cdr"
BY DEF words, NameWords, NameCommands, RunCommand

(* The way up shortens a path. *)
LEMMA UpFacts ==
    ASSUME NEW path \in Seq(STRING) PROVE Up(path) \in Seq(STRING)
<1>1. CASE path = <<>>
  BY <1>1 DEF Up
<1>2. CASE path # <<>>
  <2> DEFINE n == Len(path) - 1
  <2>1. n \in Nat /\ n <= Len(path)
    BY <1>2, EmptySeq, LenProperties
  <2>2. Up(path) = SubSeq(path, 1, n)
    BY <1>2 DEF Up, Front
  <2> HIDE DEF n
  <2> QED BY <2>1, <2>2, SubSeqProperties
<1> QED BY <1>1, <1>2

LEMMA LineFacts ==
    ASSUME NEW line \in Lines PROVE line \in Seq(Token)
<1>1. line \in Seq(ToSet(line) \ {NL}) /\ ToSet(line) \ {NL} \subseteq Token
  BY LinesAssumption DEF Token
<1> QED BY <1>1, SeqMonotonic

-----------------------------------------------------------------------------
(* What Tidy says of the next word.                                        *)

LEMMA ConsecutiveFacts ==
    ASSUME InputAt, NEW i \in 1..Len(stdin), NEW j
    PROVE  Consecutive(i, j) <=> FirstWord(stdin, i, j)
<1>1. stdin \in Seq(Token) /\ Len(stdin) \in Nat /\ i \in 0..Len(stdin)
  BY LenProperties DEF InputAt
<1>2. ASSUME Consecutive(i, j) PROVE FirstWord(stdin, i, j)
  BY <1>1, <1>2, NextWordFacts DEF Consecutive, HasWord
<1>3. ASSUME FirstWord(stdin, i, j) PROVE Consecutive(i, j)
  <2>1. HasWord(stdin, i) /\ NextWord(stdin, i) = j
    BY <1>1, <1>3, FirstWordIsNext
  <2>2. i < j
    BY <1>1, <1>3 DEF FirstWord
  <2> QED BY <2>1, <2>2 DEF Consecutive, HasWord
<1> QED BY <1>2, <1>3

(* What one word asks of the next. *)
LEMMA TidyFacts ==
    ASSUME InputAt, Tidy, NEW i \in 1..Len(stdin), stdin[i] \notin White,
           NEW j, FirstWord(stdin, i, j)
    PROVE  /\ stdin[j] \in FileNames <=> stdin[i] \in NameWords
           /\ stdin[j] \in RemoteWords <=> \/ stdin[i] = "run"
                                           \/ stdin[i] \in RemoteWords /\ SameLine(i, j)
<1>1. Len(stdin) \in Nat
  BY LenProperties DEF InputAt
<1>2. i \in WordsLeft(stdin, 0) /\ j \in WordsLeft(stdin, 0)
  BY <1>1 DEF WordsLeft, FirstWord
<1>3. Consecutive(i, j)
  BY ConsecutiveFacts
<1> QED BY <1>2, <1>3 DEF Tidy

LEMMA FirstIsCommand ==
    ASSUME InputAt, Tidy, NEW j, FirstWord(stdin, 0, j)
    PROVE  stdin[j] \notin FileNames \cup RemoteWords
<1>1. stdin \in Seq(Token) /\ 0 \in 0..Len(stdin)
  BY LenProperties DEF InputAt
<1>2. HasWord(stdin, 0) /\ NextWord(stdin, 0) = j
  BY <1>1, FirstWordIsNext
<1> QED BY <1>2 DEF Tidy

(* What is tidy was tidy before more was typed. *)
LEMMA TidyBefore ==
    ASSUME InputAt, InputAt', Extends(stdin, stdin'), Tidy' PROVE Tidy
<1>1. /\ stdin \in Seq(Token) /\ stdin' \in Seq(Token)
      /\ Len(stdin) \in Nat /\ Len(stdin') \in Nat /\ Len(stdin) <= Len(stdin')
  BY LenProperties DEF InputAt, Extends
<1>2. \A i \in 1..Len(stdin) : stdin'[i] = stdin[i] /\ i \in 1..Len(stdin')
  BY <1>1 DEF Extends
<1>3. ASSUME NEW k \in Nat, NEW w, FirstWord(stdin, k, w)
      PROVE  FirstWord(stdin', k, w) /\ w \in 1..Len(stdin)
  <2>1. FirstWord(stdin', k, w)
    BY <1>1, <1>3, ExtendsFacts
  <2>2. w \in 1..Len(stdin)
    BY <1>1, <1>3 DEF FirstWord
  <2> QED BY <2>1, <2>2
<1>4. ASSUME HasWord(stdin, 0)
      PROVE  stdin[NextWord(stdin, 0)] \notin FileNames \cup RemoteWords
  <2> DEFINE w == NextWord(stdin, 0)
  <2>1. 0 \in 0..Len(stdin) /\ 0 \in 0..Len(stdin')
    BY <1>1
  <2>2. FirstWord(stdin, 0, w)
    BY <1>1, <1>4, <2>1, NextWordFacts
  <2>3. FirstWord(stdin', 0, w) /\ w \in 1..Len(stdin)
    BY <1>3, <2>2
  <2>4. HasWord(stdin', 0) /\ NextWord(stdin', 0) = w
    BY <1>1, <2>1, <2>3, FirstWordIsNext
  <2>5. stdin'[w] \notin FileNames \cup RemoteWords
    BY <2>4 DEF Tidy
  <2> QED BY <1>2, <2>3, <2>5
<1>5. ASSUME NEW i \in WordsLeft(stdin, 0), NEW j \in WordsLeft(stdin, 0), Consecutive(i, j)
      PROVE  /\ stdin[j] \in FileNames <=> stdin[i] \in NameWords
             /\ stdin[j] \in RemoteWords <=>
                   \/ stdin[i] = "run"
                   \/ stdin[i] \in RemoteWords /\ SameLine(i, j)
  <2>1. i \in 1..Len(stdin) /\ stdin[i] \notin White
    BY <1>1 DEF WordsLeft
  <2>2. FirstWord(stdin', i, j) /\ j \in 1..Len(stdin)
    BY <1>3, <1>5, <2>1, ConsecutiveFacts
  <2>3. i \in 1..Len(stdin') /\ stdin'[i] = stdin[i] /\ stdin'[j] = stdin[j]
    BY <1>2, <2>1, <2>2
  <2>4. i \in WordsLeft(stdin', 0) /\ j \in WordsLeft(stdin', 0)
    BY <1>1, <2>1, <2>2, <2>3 DEF WordsLeft, FirstWord
  <2>5. Consecutive(i, j)'
    <3>1. i \in 0..Len(stdin')
      BY <1>1, <2>3
    <3>2. HasWord(stdin', i) /\ NextWord(stdin', i) = j
      BY <1>1, <2>2, <3>1, FirstWordIsNext
    <3> QED BY <1>5, <3>2 DEF Consecutive, HasWord
  <2>6. SameLine(i, j)' <=> SameLine(i, j)
    <3>1. \A k \in i..j : stdin'[k] = stdin[k]
      BY <1>1, <1>2, <2>1, <2>2
    <3> QED BY <3>1 DEF SameLine
  <2>7. /\ stdin'[j] \in FileNames <=> stdin'[i] \in NameWords
        /\ stdin'[j] \in RemoteWords <=> \/ stdin'[i] = "run"
                                         \/ stdin'[i] \in RemoteWords /\ SameLine(i, j)'
    BY <2>4, <2>5 DEF Tidy
  <2> QED BY <2>3, <2>6, <2>7
<1> QED BY <1>4, <1>5 DEF Tidy

(* Where nothing is asked for, the next word is a command. *)
LEMMA NextIsCommand ==
    ASSUME InputAt, taken \in 0..Len(stdin), Tidy, Settled, HasWord(stdin, taken)
    PROVE  stdin[NextWord(stdin, taken)] \notin FileNames \cup RemoteWords
<1> DEFINE w == NextWord(stdin, taken)
<1>1. stdin \in Seq(Token) /\ Len(stdin) \in Nat /\ FirstWord(stdin, taken, w)
  BY LenProperties, NextWordFacts DEF InputAt
<1>2. PICK i \in 0..taken : LastRead(i) /\ AsksNothing(i)
  BY DEF Settled, Over
<1> HIDE DEF w
<1>3. FirstWord(stdin, i, w)
  <2>1. w \in (i + 1)..Len(stdin) /\ stdin[w] \notin White
    BY <1>1 DEF FirstWord
  <2>2. \A j \in (i + 1)..(w - 1) : stdin[j] \in White
    BY <1>1, <1>2 DEF FirstWord, LastRead
  <2> QED BY <2>1, <2>2 DEF FirstWord
<1>4. CASE i = 0
  BY <1>3, <1>4, FirstIsCommand DEF w
<1>5. CASE i # 0
  <2>1. i \in 1..Len(stdin) /\ stdin[i] \notin White
    BY <1>1, <1>2, <1>5 DEF LastRead
  <2>2. stdin[i] \notin NameWords /\ stdin[i] # "run"
    BY <1>2, <1>5 DEF AsksNothing
  <2>3. stdin[i] \in RemoteWords => ~SameLine(i, w)
    <3> SUFFICES ASSUME stdin[i] \in RemoteWords PROVE ~SameLine(i, w)
      OBVIOUS
    <3>1. taken < Len(stdin) /\ stdin[taken + 1] = NL
      BY <1>2, <1>5 DEF AsksNothing, LineDone
    <3>2. taken + 1 \in i..w
      BY <1>1, <1>2 DEF FirstWord
    <3> QED BY <3>1, <3>2 DEF SameLine
  <2> QED BY <1>3, <2>1, <2>2, <2>3, TidyFacts DEF w
<1> QED BY <1>4, <1>5

(* All words behind run, to the end of its line, are meant for the server. *)
LEMMA RestIsRemote ==
    ASSUME InputAt, Tidy, NEW w \in 1..Len(stdin), NEW e \in w..Len(stdin),
           stdin[w] \in RemoteWords, \A i \in w..e : stdin[i] # NL
    PROVE  \A j \in w..e : stdin[j] \in RemoteWords \cup {SP}
<1> DEFINE B == {j \in w..e : stdin[j] \notin White \cup RemoteWords}
<1>1. Len(stdin) \in Nat /\ w \in Nat /\ e \in Nat
  BY LenProperties DEF InputAt
<1>2. SUFFICES B = {}
  BY DEF White
<1>3. SUFFICES ASSUME B # {} PROVE FALSE
  OBVIOUS
<1>4. PICK j \in B : \A m \in B : j <= m
  <2>1. B \subseteq Nat
    BY <1>1
  <2> HIDE DEF B
  <2> QED BY <1>3, <2>1, MinFacts
<1>5. stdin[w] \notin White
  BY VocabularyAssumption
<1>6. j \in (w + 1)..e
  <2>1. j # w /\ j \in w..e
    BY <1>4
  <2> QED BY <1>1, <2>1
<1>7. PICK i \in w..(j - 1) : /\ stdin[i] \notin White
                              /\ \A k \in (i + 1)..(j - 1) : stdin[k] \in White
  <2>1. j - 1 \in Nat /\ w <= j - 1
    BY <1>1, <1>6
  <2> QED BY <1>1, <1>5, <2>1, LastWord
<1>8. i \notin B /\ i \in w..e /\ i \in 1..Len(stdin)
  BY <1>1, <1>4, <1>6, <1>7
<1>9. stdin[i] \in RemoteWords
  BY <1>7, <1>8
<1>10. FirstWord(stdin, i, j)
  <2>1. j \in (i + 1)..Len(stdin)
    BY <1>1, <1>6, <1>7
  <2>2. stdin[j] \notin White
    BY <1>4
  <2> QED BY <1>7, <2>1, <2>2 DEF FirstWord
<1>11. SameLine(i, j)
  <2>1. \A k \in i..j : k \in w..e
    BY <1>1, <1>6, <1>7
  <2> QED BY <2>1 DEF SameLine
<1>12. stdin[j] \in RemoteWords
  BY <1>7, <1>8, <1>9, <1>10, <1>11, TidyFacts
<1> QED BY <1>4, <1>12

-----------------------------------------------------------------------------

LEMMA InitHolds == ASSUME Init PROVE IInv
<1>1. stdin = <<>> /\ taken = 0 /\ Len(stdin) = 0 /\ stdin \in Seq(Token)
  BY EmptySeq DEF Init
<1>2. comm \notin White /\ fname \notin White
  BY LinesAssumption DEF Init
<1>3. NL \notin ToSet(command)
  <2>1. PICK g \in Garbage : command = <<g>>
    BY DEF Init
  <2>2. g # NL /\ ToSet(<<g>>) = {g}
    BY LinesAssumption DEF White, ToSet
  <2> QED BY <2>1, <2>2
<1>4. TypeOK
  <2>1. local \in Seq(STRING) /\ remote \in Seq(STRING)
    BY EmptySeq DEF Init
  <2>2. taken \in 0..Len(stdin) /\ at \in 0..taken /\ choice \in -1..12
    BY <1>1 DEF Init
  <2>3. /\ pc = "command" /\ eof \in BOOLEAN /\ up \in BOOLEAN /\ result = 0
        /\ {comm, fname} \cap White = {}
    BY <1>2 DEF Init
  <2> QED BY <1>3, <2>1, <2>2, <2>3 DEF TypeOK, Prompt
<1>5. Settled
  <2>1. 0 \in 0..taken /\ LastRead(0) /\ AsksNothing(0)
    BY <1>1 DEF LastRead, AsksNothing
  <2> QED BY <2>1 DEF Settled
<1>6. pc = "command" /\ at = 0
  BY DEF Init
<1>7. InputAt
  BY <1>1 DEF InputAt, Ended
<1> QED BY <1>4, <1>5, <1>6, <1>7 DEF IInv, ChoiceAt, WordAt, MeantAt, Turn

(* What is typed ahead changes nothing of what was read. *)
LEMMA TypedKeeps ==
    ASSUME IInv, InputAt', Extends(stdin, stdin'), eof = FALSE, eof' \in BOOLEAN,
           UNCHANGED <<pc, taken, up, buffers, choice, local, remote, at, result>>
    PROVE  IInv'
<1> USE DEF IInv, buffers
<1>1. /\ Len(stdin) \in Nat /\ Len(stdin') \in Nat /\ Len(stdin) <= Len(stdin')
      /\ taken \in 0..Len(stdin) /\ at \in 0..taken
  BY LenProperties DEF InputAt, Extends, TypeOK
<1>2. \A i \in 1..Len(stdin) : stdin'[i] = stdin[i]
  BY DEF Extends
<1>3. TypeOK'
  BY <1>1 DEF TypeOK
<1>4. ChoiceAt' /\ WordAt'
  <2>1. pc \in Turn => at # 0
    BY DEF WordAt, Over
  <2>2. at # 0 => stdin'[at] = stdin[at]
    BY <1>1, <1>2
  <2> QED BY <2>1, <2>2 DEF ChoiceAt, WordAt
<1>5. ASSUME Settled PROVE Settled'
  <2>1. PICK i \in 0..taken : LastRead(i) /\ AsksNothing(i)
    BY <1>5 DEF Settled, Over
  <2>2. \A j \in 0..taken : j # 0 => stdin'[j] = stdin[j]
    BY <1>1, <1>2
  <2>3. LastRead(i)'
    <3>1. \A j \in (i + 1)..taken : j \in 0..taken /\ j # 0
      OBVIOUS
    <3> QED BY <2>1, <2>2, <3>1 DEF LastRead
  <2>4. LineDone => LineDone'
    <3>1. taken < Len(stdin) => taken + 1 \in 1..Len(stdin) /\ taken < Len(stdin')
      BY <1>1
    <3> QED BY <1>2, <3>1 DEF LineDone
  <2>5. AsksNothing(i)'
    BY <2>1, <2>2, <2>4 DEF AsksNothing
  <2> QED BY <2>3, <2>5 DEF Settled
<1>6. MeantAt'
  <2>1. Tidy' => Tidy
    BY TidyBefore
  <2> QED BY <1>5, <2>1 DEF MeantAt
<1> QED BY <1>3, <1>4, <1>6

LEMMA TypeLineKeeps == ASSUME IInv, TypeLine PROVE IInv'
<1>1. /\ UNCHANGED <<pc, taken, up, buffers, choice, local, remote, at, result>>
      /\ eof = FALSE /\ eof' \in BOOLEAN
  BY DEF TypeLine, buffers, IInv, TypeOK
<1>2. stdin \in Seq(Token) /\ (~eof => Ended(stdin)) /\ NL \in Token
  BY DEF IInv, InputAt, Token
<1>3. InputAt' /\ Extends(stdin, stdin')
  <2>1. CASE UNCHANGED stdin /\ eof' = TRUE
    <3>1. Extends(stdin, stdin')
      BY <1>2, <2>1, LenProperties DEF Extends
    <3> QED BY <1>2, <2>1, <3>1 DEF InputAt
  <2>2. CASE \E line \in Lines : \/ stdin' = stdin \o Append(line, NL) /\ UNCHANGED eof
                                 \/ stdin' = stdin \o line /\ eof' = TRUE
    <3>1. PICK line \in Lines : \/ stdin' = stdin \o Append(line, NL) /\ UNCHANGED eof
                                \/ stdin' = stdin \o line /\ eof' = TRUE
      BY <2>2
    <3>2. line \in Seq(Token)
      BY LineFacts
    <3>3. /\ stdin \o line \in Seq(Token) /\ Extends(stdin, stdin \o line)
          /\ stdin \o Append(line, NL) \in Seq(Token)
          /\ Extends(stdin, stdin \o Append(line, NL))
          /\ Ended(stdin \o Append(line, NL))
      BY <1>2, <3>2, TypedFacts
    <3>4. CASE stdin' = stdin \o Append(line, NL) /\ UNCHANGED eof
      BY <3>3, <3>4 DEF InputAt
    <3>5. CASE stdin' = stdin \o line /\ eof' = TRUE
      BY <3>3, <3>5 DEF InputAt
    <3> QED BY <3>1, <3>4, <3>5
  <2> QED BY <2>1, <2>2 DEF TypeLine
<1> QED BY <1>1, <1>3, TypedKeeps

-----------------------------------------------------------------------------

(* What scanf finds, and that nothing is lost at the end of the input. *)
LEMMA ScanFacts ==
    ASSUME TypeOK, InputAt, Scan, UNCHANGED <<stdin, eof>>
    PROVE  /\ HasWord(stdin, taken) =>
                 /\ FirstWord(stdin, taken, taken')
                 /\ taken' \in (taken + 1)..Len(stdin) /\ stdin[taken'] \notin White
           /\ ~HasWord(stdin, taken) => eof /\ Over' /\ taken' = Len(stdin)
           /\ taken' \in taken..Len(stdin)
<1>1. stdin \in Seq(Token) /\ Len(stdin) \in Nat /\ taken \in 0..Len(stdin)
  BY LenProperties DEF TypeOK, InputAt
<1>2. CASE HasWord(stdin, taken) /\ taken' = NextWord(stdin, taken)
  <2>1. FirstWord(stdin, taken, taken')
    BY <1>1, <1>2, NextWordFacts
  <2>2. taken' \in (taken + 1)..Len(stdin) /\ stdin[taken'] \notin White
    BY <2>1 DEF FirstWord
  <2> QED BY <1>1, <1>2, <2>1, <2>2
<1>3. CASE ~HasWord(stdin, taken) /\ eof /\ taken' = Len(stdin)
  <2>1. ~HasWord(stdin, Len(stdin))
    <3>1. Len(stdin) \in 0..Len(stdin) /\ ~\E i \in (Len(stdin) + 1)..Len(stdin) : TRUE
      BY <1>1
    <3> QED BY <1>1, <3>1, NextWordFacts
  <2>2. Over'
    BY <1>3, <2>1 DEF Over
  <2> QED BY <1>1, <1>3, <2>2
<1> QED BY <1>2, <1>3 DEF Scan

(* Nothing is left to be read where nothing was left before. *)
LEMMA OverStays ==
    ASSUME TypeOK, InputAt, Over, UNCHANGED <<stdin, eof>>, taken' \in taken..Len(stdin)
    PROVE  Over'
<1>1. stdin \in Seq(Token) /\ Len(stdin) \in Nat /\ taken \in 0..Len(stdin)
  BY LenProperties DEF TypeOK, InputAt
<1>2. ~\E i \in (taken + 1)..Len(stdin) : stdin[i] \notin White
  BY <1>1, NextWordFacts DEF Over
<1>3. taken' \in 0..Len(stdin) /\ \A i \in (taken' + 1)..Len(stdin) : i \in (taken + 1)..Len(stdin)
  <2> DEFINE n == taken'
  <2>1. n \in taken..Len(stdin)
    OBVIOUS
  <2> HIDE DEF n
  <2>2. n \in 0..Len(stdin) /\ \A i \in (n + 1)..Len(stdin) : i \in (taken + 1)..Len(stdin)
    BY <1>1, <2>1
  <2> QED BY <2>2 DEF n
<1>4. ~HasWord(stdin, taken')
  BY <1>1, <1>2, <1>3, NextWordFacts
<1> QED BY <1>4 DEF Over

(* A word that was just read, or a command that reads nothing, settles all *)
(* if it asks for nothing.                                                 *)
LEMMA WordSettles ==
    ASSUME TypeOK, InputAt, taken # 0, stdin[taken] \notin White \cup RemoteWords,
           stdin[taken] \notin NameWords \cup {"run"}
    PROVE  Settled
<1>1. Len(stdin) \in Nat /\ taken \in 0..Len(stdin)
  BY LenProperties DEF TypeOK, InputAt
<1>2. taken \in 0..taken /\ LastRead(taken) /\ AsksNothing(taken)
  BY <1>1 DEF LastRead, AsksNothing
<1> QED BY <1>2 DEF Settled

(* The same of the word that a step reads. *)
LEMMA WordSettled ==
    ASSUME TypeOK', InputAt',
           (taken # 0 /\ stdin[taken] \notin White \cup RemoteWords
             /\ stdin[taken] \notin NameWords \cup {"run"})'
    PROVE  Settled'
<1>1. /\ taken' # 0 /\ stdin'[taken'] \notin White \cup RemoteWords
      /\ stdin'[taken'] \notin NameWords \cup {"run"}
  OBVIOUS
<1>2. Len(stdin') \in Nat /\ taken' \in 0..Len(stdin')
  BY LenProperties DEF TypeOK, InputAt
<1>3. PICK n \in Nat : n = taken'
  BY <1>2
<1>4. n \in 0..taken'
  BY <1>3
<1>5. LastRead(n)'
  <2>1. n # 0 => stdin'[n] \notin White
    BY <1>1, <1>3
  <2>2. n \in 0..n /\ \A j \in (n + 1)..n : FALSE
    OBVIOUS
  <2>3. (\A j \in (n + 1)..taken : stdin[j] \in White)'
    BY <1>3, <2>2
  <2>4. (n # 0 => stdin[n] \notin White)' /\ n \in 0..taken'
    BY <1>4, <2>1
  <2> QED BY <2>3, <2>4 DEF LastRead
<1>6. AsksNothing(n)'
  <2>1. stdin'[n] \notin NameWords \cup {"run"} /\ stdin'[n] \notin RemoteWords
    BY <1>1, <1>3
  <2> QED BY <2>1 DEF AsksNothing
<1> QED BY <1>4, <1>5, <1>6 DEF Settled

LEMMA ReadCommandKeeps == ASSUME IInv, ReadCommand PROVE IInv'
<1> USE DEF IInv
<1>1. /\ UNCHANGED <<stdin, eof, up, fname, command, choice, local, remote, result>>
      /\ pc = "command" /\ pc' = "while" /\ Scan /\ at = 0
  BY DEF ReadCommand, WordAt
<1>2. taken \in 0..Len(stdin) /\ taken' \in taken..Len(stdin) /\ Len(stdin) \in Nat
  BY <1>1, ScanFacts, LenProperties DEF TypeOK, InputAt
<1>3. InputAt' /\ ChoiceAt'
  BY <1>1 DEF InputAt, ChoiceAt
<1>4. CASE HasWord(stdin, taken) /\ comm' = stdin[taken'] /\ at' = taken'
  <2>1. /\ taken' \in (taken + 1)..Len(stdin) /\ stdin[taken'] \notin White
        /\ taken' = NextWord(stdin, taken)
    BY <1>1, <1>4, ScanFacts DEF Scan
  <2>2. at' # 0 /\ taken' \in 0..Len(stdin) /\ at' \in 0..taken'
    BY <1>2, <1>4, <2>1
  <2>3. TypeOK'
    BY <1>1, <1>4, <2>1, <2>2 DEF TypeOK
  <2>4. WordAt'
    BY <1>1, <1>4, <2>2 DEF WordAt, Turn
  <2>5. Tidy => comm' \notin FileNames \cup RemoteWords
    BY <1>1, <1>2, <1>4, <2>1, NextIsCommand DEF MeantAt
  <2>6. MeantAt'
    <3>1. Tidy' => Tidy
      BY <1>1, TidyBefore, <1>2, <1>3 DEF Extends
    <3> QED BY <1>1, <2>5, <3>1 DEF MeantAt
  <2> QED BY <1>3, <2>3, <2>4, <2>6
<1>5. CASE ~HasWord(stdin, taken) /\ UNCHANGED <<comm, at>>
  <2>1. Over' /\ taken' \in 0..Len(stdin)
    BY <1>1, <1>2, <1>5, ScanFacts
  <2>2. TypeOK'
    BY <1>1, <1>2, <1>5, <2>1 DEF TypeOK
  <2>3. WordAt' /\ MeantAt'
    BY <1>1, <1>5, <2>1 DEF WordAt, MeantAt
  <2> QED BY <1>3, <2>2, <2>3
<1> QED BY <1>4, <1>5 DEF ReadCommand

(* While nothing is typed, what is tidy stays so. *)
LEMMA SameTidy == ASSUME InputAt, UNCHANGED <<stdin, eof>> PROVE InputAt' /\ (Tidy' => Tidy)
<1>1. InputAt' /\ Len(stdin) \in Nat
  BY LenProperties DEF InputAt
<1> QED BY <1>1, TidyBefore DEF Extends

LEMMA SwitchKeeps == ASSUME IInv, Switch PROVE IInv'
<1> USE DEF IInv
<1>1. /\ UNCHANGED <<stdin, taken, eof, up, comm, fname, command, local, remote>>
      /\ pc = "switch" /\ choice' = parse(comm)
  BY DEF Switch, input, buffers
<1>2. /\ choice' \in -1..12
      /\ choice' > 0 => comm = words[choice' + 1]
      /\ choice' = -1 => comm \notin NameWords \cup {"run"}
  BY <1>1, ParseFacts
<1>3. /\ result' = result
      /\ \/ pc' = "return" /\ at' = at
         \/ choice' \in Messages /\ pc' = "command" /\ at' = 0
         \/ choice' \in NameCommands /\ pc' = "name" /\ at' = at
         \/ choice' = RunCommand /\ pc' = "run" /\ at' = at
         \/ choice' \in Operations /\ pc' = "call" /\ at' = at
  BY <1>2 DEF Switch
<1>4. InputAt' /\ (Tidy' => Tidy)
  BY <1>1, SameTidy
<1>5. TypeOK'
  BY <1>1, <1>2, <1>3 DEF TypeOK, Prompt
<1>6. ChoiceAt'
  BY <1>1, <1>2, <1>3 DEF ChoiceAt, NameCommands, RunCommand, Operations
<1>7. Over' <=> Over
  BY <1>1 DEF Over
<1>8. WordAt'
  BY <1>1, <1>3, <1>7 DEF WordAt, Turn
<1>9. MeantAt'
  <2> SUFFICES ASSUME Tidy PROVE
        /\ pc' \in Turn /\ at' # 0 => comm' \notin FileNames \cup RemoteWords
        /\ pc' \in {"call", "command"} => Settled'
        /\ pc' = "call" => choice' \notin NameCommands \cup {RunCommand}
    BY <1>4 DEF MeantAt
  <2>1. at # 0 => comm \notin FileNames \cup RemoteWords
    BY <1>1 DEF MeantAt, Turn
  <2>2. choice' \in Messages \cup Operations => comm \notin NameWords \cup {"run"}
    <3>1. choice' \in Messages \cup Operations => choice' = -1 \/ choice' \in 1..12
      BY DEF Messages, Operations
    <3>2. choice' \in Messages \cup Operations =>
             choice' \notin NameCommands /\ choice' # RunCommand
      BY DEF Messages, Operations, NameCommands, RunCommand
    <3> QED BY <1>2, <3>1, <3>2, WordsFacts
  <2>3. choice' \in Messages \cup Operations => Settled
    <3>1. CASE at = 0
      BY <1>1, <3>1 DEF WordAt, Turn, Settled
    <3>2. CASE at # 0
      <4>1. taken = at /\ stdin[taken] = comm
        BY <1>1, <3>2 DEF WordAt, Turn
      <4>2. comm \notin White
        BY DEF TypeOK
      <4> QED BY <2>1, <2>2, <3>2, <4>1, <4>2, WordSettles
    <3> QED BY <3>1, <3>2
  <2>4. Settled => Settled'
    <3>1. \A i : (LastRead(i) <=> LastRead(i)') /\ (AsksNothing(i) <=> AsksNothing(i)')
      BY <1>1 DEF LastRead, AsksNothing, LineDone
    <3> QED BY <1>1, <1>7, <3>1 DEF Settled
  <2>5. pc' \in {"call", "command"} => choice' \in Messages \cup Operations
    BY <1>3
  <2>6. pc' = "call" => choice' \notin NameCommands \cup {RunCommand}
    BY <1>3 DEF Operations, NameCommands, RunCommand
  <2>7. pc' \in Turn => at' = at
    BY <1>3 DEF Turn
  <2> QED BY <1>1, <2>1, <2>3, <2>4, <2>5, <2>6, <2>7
<1> QED BY <1>4, <1>5, <1>6, <1>8, <1>9

-----------------------------------------------------------------------------

(* A name that was asked for has been typed as one. *)
LEMMA ReadNameKeeps == ASSUME IInv, ReadName PROVE IInv'
<1> USE DEF IInv
<1>1. /\ UNCHANGED <<stdin, eof, up, comm, command, choice, local, remote, at, result>>
      /\ pc = "name" /\ pc' = "call" /\ Scan
      /\ fname' = IF HasWord(stdin, taken) THEN stdin[taken'] ELSE fname
  BY DEF ReadName
<1>2. taken \in 0..Len(stdin) /\ taken' \in taken..Len(stdin) /\ Len(stdin) \in Nat
  BY <1>1, ScanFacts, LenProperties DEF TypeOK, InputAt
<1>3. InputAt' /\ ChoiceAt' /\ (Tidy' => Tidy)
  BY <1>1, SameTidy DEF ChoiceAt
<1>4. choice \in NameCommands /\ comm \in NameWords
  <2>1. choice \in NameCommands /\ choice \in 1..12 /\ comm = words[choice + 1]
    BY <1>1 DEF ChoiceAt
  <2> QED BY <2>1, WordsFacts
<1>5. taken' \in 0..Len(stdin) /\ at \in 0..taken'
  <2> DEFINE n == taken'
  <2>1. n \in taken..Len(stdin) /\ at \in 0..taken
    BY <1>2 DEF TypeOK
  <2> HIDE DEF n
  <2>2. n \in 0..Len(stdin) /\ at \in 0..n
    BY <1>2, <2>1
  <2> QED BY <2>2 DEF n
<1>6. TypeOK'
  <2>1. fname' \notin White
    BY <1>1, ScanFacts DEF TypeOK
  <2> QED BY <1>1, <1>5, <2>1 DEF TypeOK
<1>7. WordAt'
  <2>1. at = 0 => Over'
    BY <1>1, <1>2, OverStays DEF WordAt, Turn
  <2> QED BY <1>1, <2>1 DEF WordAt, Turn
<1>8. MeantAt'
  <2>1. CASE ~HasWord(stdin, taken)
    <3>1. Over' /\ eof
      BY <1>1, <2>1, ScanFacts
    <3>2. at # 0 => ~HasWord(stdin, at)
      BY <1>1, <2>1 DEF WordAt, Turn
    <3> QED BY <1>1, <1>3, <3>1, <3>2 DEF MeantAt, Settled, Turn
  <2>2. CASE HasWord(stdin, taken)
    <3>1. FirstWord(stdin, taken, taken') /\ fname' = stdin[taken'] /\ stdin[taken'] \notin White
      BY <1>1, <2>2, ScanFacts
    <3>2. at # 0 /\ taken = at /\ stdin[at] = comm /\ at \in 1..Len(stdin)
      <4>1. at # 0
        BY <1>1, <2>2 DEF WordAt, Turn, Over
      <4> QED BY <1>1, <1>2, <4>1 DEF WordAt, Turn
    <3>3. stdin[at] \notin White
      BY <3>2 DEF TypeOK
    <3>4. Tidy => fname' \in FileNames
      BY <1>4, <3>1, <3>2, <3>3, TidyFacts
    <3>5. Tidy => Settled'
      <4> SUFFICES ASSUME Tidy PROVE Settled'
        OBVIOUS
      <4>1. stdin[taken'] \in FileNames
        BY <3>1, <3>4
      <4>2. stdin[taken'] \notin White \cup RemoteWords \cup NameWords \cup {"run"}
        BY <4>1, VocabularyAssumption
      <4>3. taken' # 0
        BY <1>2, <3>1 DEF FirstWord
      <4>4. (taken # 0 /\ stdin[taken] \notin White \cup RemoteWords
              /\ stdin[taken] \notin NameWords \cup {"run"})'
        BY <1>1, <4>2, <4>3
      <4> QED BY <1>3, <1>6, <4>4, WordSettled
    <3>6. choice # RunCommand
      BY <1>4 DEF NameCommands, RunCommand
    <3> QED BY <1>1, <1>3, <3>4, <3>5, <3>6 DEF MeantAt, Turn
  <2> QED BY <2>1, <2>2
<1> QED BY <1>3, <1>6, <1>7, <1>8

(* A remote command takes all the words of its line, and its line only. *)
LEMMA ReadRunKeeps == ASSUME IInv, ReadRun PROVE IInv'
<1> USE DEF IInv
<1>1. /\ UNCHANGED <<stdin, eof, up, comm, fname, choice, local, remote, at, result>>
      /\ pc = "run" /\ pc' = "call"
  BY DEF ReadRun
<1>2. /\ stdin \in Seq(Token) /\ taken \in 0..Len(stdin) /\ at \in 0..taken /\ Len(stdin) \in Nat
      /\ ~eof => Ended(stdin)
  BY LenProperties DEF TypeOK, InputAt
<1>3. InputAt' /\ ChoiceAt' /\ (Tidy' => Tidy)
  BY <1>1, SameTidy DEF ChoiceAt
<1>4. choice = RunCommand /\ comm = "run" /\ choice \notin NameCommands
  <2>1. choice = RunCommand /\ choice \in 1..12 /\ comm = words[choice + 1]
    BY <1>1 DEF ChoiceAt, RunCommand
  <2> QED BY <2>1, WordsFacts DEF RunCommand, NameCommands
<1>5. CASE ~HasWord(stdin, taken) /\ eof /\ taken' = Len(stdin) /\ UNCHANGED command
  <2>1. Over' /\ taken' \in 0..Len(stdin) /\ at \in 0..taken'
    <3>1. Scan
      BY <1>5 DEF Scan
    <3>2. Over'
      BY <1>1, <1>5, <3>1, ScanFacts
    <3> QED BY <1>2, <1>5, <3>2
  <2>2. TypeOK'
    BY <1>1, <1>5, <2>1 DEF TypeOK
  <2>3. WordAt'
    BY <1>1, <2>1 DEF WordAt, Turn
  <2>4. MeantAt'
    <3>1. at # 0 => ~HasWord(stdin, at)
      BY <1>1, <1>5 DEF WordAt, Turn
    <3> QED BY <1>1, <1>3, <1>5, <2>1, <3>1 DEF MeantAt, Settled, Turn
  <2> QED BY <1>3, <2>2, <2>3, <2>4
<1>6. CASE /\ HasWord(stdin, taken)
           /\ taken' = RestEnd(stdin, taken)
           /\ command' = SubSeq(stdin, NextWord(stdin, taken), taken')
  <2> DEFINE w == NextWord(stdin, taken)
             e == RestEnd(stdin, taken)
  <2>1. FirstWord(stdin, taken, w)
    BY <1>2, <1>6, NextWordFacts
  <2>2. w \in (taken + 1)..Len(stdin) /\ stdin[w] \notin White /\ stdin[w] # NL
    BY <2>1 DEF FirstWord, White
  <2>3. /\ e \in w..Len(stdin) /\ \A i \in w..e : stdin[i] # NL
        /\ e < Len(stdin) => stdin[e + 1] = NL
    BY <1>2, <1>6, <2>2, RestEndFacts
  <2>4. taken' = e /\ command' = SubSeq(stdin, w, e)
    BY <1>6
  <2>5. at # 0 /\ taken = at /\ stdin[at] = "run" /\ at \in 1..Len(stdin)
    <3>1. at # 0
      BY <1>1, <1>6 DEF WordAt, Turn, Over
    <3> QED BY <1>1, <1>2, <1>4, <3>1 DEF WordAt, Turn
  <2> HIDE DEF w, e
  <2>6. \A i \in 1..Len(command') : command'[i] \in {stdin[j] : j \in w..e}
    <3>1. \A i \in w..e : i \in 1..Len(stdin)
      BY <1>2, <2>2, <2>3
    <3>2. w \in Int /\ e \in Int /\ \A i \in w..e : stdin[i] \in Token
      BY <1>2, <2>2, <2>3, <3>1, ElementOfSeq
    <3>3. /\ Len(command') = IF w <= e THEN e - w + 1 ELSE 0
          /\ \A i \in 1..(e - w + 1) : command'[i] = stdin[w + i - 1]
      BY <2>4, <3>2, SubSeqProperties
    <3>4. Len(command') = e - w + 1
      BY <1>2, <2>2, <2>3, <3>3
    <3>5. \A i \in 1..(e - w + 1) : w + i - 1 \in w..e
      BY <3>2
    <3> QED BY <3>3, <3>4, <3>5
  <2>7. ToSet(command') \subseteq {stdin[j] : j \in w..e}
    <3>1. command' \in Seq(Token)
      <4>1. w \in Int /\ e \in Int /\ \A i \in w..e : stdin[i] \in Token
        <5>1. \A i \in w..e : i \in 1..Len(stdin)
          BY <1>2, <2>2, <2>3
        <5> QED BY <1>2, <2>2, <2>3, <5>1, ElementOfSeq
      <4> QED BY <2>4, <4>1, SubSeqProperties
    <3> QED BY <2>6, <3>1, LenProperties DEF ToSet
  <2>8. e \in 0..Len(stdin) /\ at \in 0..e /\ e # 0 /\ w \in 1..Len(stdin)
    BY <1>2, <2>2, <2>3
  <2>9. TypeOK'
    <3>1. NL \notin ToSet(command')
      BY <2>3, <2>7
    <3> QED BY <1>1, <2>4, <2>8, <3>1 DEF TypeOK
  <2>10. WordAt'
    BY <1>1, <2>5 DEF WordAt, Turn
  <2>11. ASSUME Tidy
         PROVE  ToSet(command') \subseteq RemoteWords \cup {SP} /\ Settled'
    <3>1. stdin[w] \in RemoteWords
      <4>1. stdin[at] \notin White
        <5>1. stdin[at] = comm
          BY <1>4, <2>5
        <5> QED BY <5>1 DEF TypeOK
      <4>2. FirstWord(stdin, at, w)
        BY <2>1, <2>5 DEF w
      <4> QED BY <2>5, <2>11, <4>1, <4>2, TidyFacts
    <3>2. \A j \in w..e : stdin[j] \in RemoteWords \cup {SP}
      BY <2>3, <2>8, <2>11, <3>1, RestIsRemote
    <3>3. PICK i \in w..e : /\ stdin[i] \notin White
                            /\ \A j \in (i + 1)..e : stdin[j] \in White
      <4>1. w \in Nat /\ e \in Nat /\ w <= e
        BY <1>2, <2>2, <2>3
      <4> QED BY <2>2, <4>1, LastWord
    <3>4. stdin[i] \in RemoteWords /\ i \in 0..e
      <4>1. stdin[i] # SP
        BY <3>3 DEF White
      <4> QED BY <1>2, <2>2, <2>3, <3>2, <3>3, <4>1
    <3>5. stdin[i] \notin NameWords \cup {"run"}
      BY <3>4, VocabularyAssumption
    <3>6. LineDone' \/ Over'
      <4>1. CASE e < Len(stdin)
        BY <1>1, <2>3, <2>4, <4>1 DEF LineDone
      <4>2. CASE e = Len(stdin)
        <5>1. stdin[Len(stdin)] # NL /\ stdin # <<>>
          <6>1. e \in w..e
            BY <1>2, <2>2, <2>3
          <6> QED BY <2>3, <2>8, <4>2, <6>1, EmptySeq
        <5>2. eof
          BY <1>2, <5>1 DEF Ended
        <5>3. ~HasWord(stdin, e)
          <6>1. ~\E j \in (e + 1)..Len(stdin) : TRUE
            BY <1>2, <4>2
          <6> QED BY <1>2, <2>8, <6>1, NextWordFacts
        <5> QED BY <1>1, <2>4, <5>2, <5>3 DEF Over
      <4> QED BY <1>2, <2>3, <2>8, <4>1, <4>2
    <3>7. Settled'
      <4>1. CASE Over'
        BY <4>1 DEF Settled
      <4>2. CASE LineDone'
        <5>1. LastRead(i)' /\ AsksNothing(i)'
          BY <1>1, <2>4, <3>3, <3>4, <3>5, <4>2 DEF LastRead, AsksNothing
        <5>2. i \in 0..taken'
          BY <2>4, <3>4
        <5> QED BY <5>1, <5>2 DEF Settled
      <4> QED BY <3>6, <4>1, <4>2
    <3> QED BY <2>7, <3>2, <3>7
  <2>12. MeantAt'
    BY <1>1, <1>3, <1>4, <2>11 DEF MeantAt, Turn
  <2> QED BY <1>3, <2>9, <2>10, <2>12
<1> QED BY <1>5, <1>6 DEF ReadRun

(* cdl and cdr lead to directories there are, and other commands nowhere.  *)
LEMMA CallKeeps == ASSUME IInv, Call PROVE IInv'
<1> USE DEF IInv
<1>1. /\ UNCHANGED <<stdin, taken, eof, up, comm, fname, command, choice, result>>
      /\ pc = "call" /\ pc' = "command" /\ at' = 0
  BY DEF Call, input, buffers
<1>2. ASSUME NEW path \in Seq(STRING), NEW dirs \in {LocalDirs, RemoteDirs}, NEW reachable,
             NEW new \in ChangeDirectory(path, dirs, reachable)
      PROVE  new \in Seq(STRING)
  <2>1. dirs \subseteq Seq(STRING)
    BY DirsAssumption
  <2>2. Up(path) \in Seq(STRING)
    BY UpFacts
  <2> QED BY <2>1, <2>2 DEF ChangeDirectory
<1>3. local' \in Seq(STRING) /\ remote' \in Seq(STRING)
  BY <1>2 DEF Call, TypeOK
<1>4. InputAt' /\ (Tidy' => Tidy)
  BY <1>1, SameTidy
<1>5. TypeOK'
  BY <1>1, <1>3 DEF TypeOK, Prompt
<1>6. Settled => Settled'
  <2>1. Over => Over'
    BY <1>1 DEF Over
  <2>2. \A i : (LastRead(i) <=> LastRead(i)') /\ (AsksNothing(i) <=> AsksNothing(i)')
    BY <1>1 DEF LastRead, AsksNothing, LineDone
  <2> QED BY <1>1, <2>1, <2>2 DEF Settled
<1> QED BY <1>1, <1>4, <1>5, <1>6 DEF ChoiceAt, WordAt, MeantAt, Turn

(* Steps that leave the input and what was read of it alone. *)
LEMMA OthersKeep ==
    ASSUME IInv, UNCHANGED <<input, buffers, choice, local, remote, at, result>>,
           up' \in BOOLEAN,
           pc' = pc \/ (pc = "while" /\ pc' \in {"return", "switch"})
    PROVE  IInv'
<1> USE DEF IInv
<1>1. /\ UNCHANGED <<stdin, taken, eof, comm, fname, command, choice, local, remote, at>>
      /\ UNCHANGED result
  BY DEF input, buffers
<1>2. InputAt' /\ (Tidy' => Tidy)
  BY <1>1, SameTidy
<1>3. (Over <=> Over') /\ (Settled => Settled')
  <2>1. \A i : (LastRead(i) <=> LastRead(i)') /\ (AsksNothing(i) <=> AsksNothing(i)')
    BY <1>1 DEF LastRead, AsksNothing, LineDone
  <2> QED BY <1>1, <2>1 DEF Settled, Over
<1>4. TypeOK'
  BY <1>1 DEF TypeOK
<1>5. ChoiceAt' /\ WordAt'
  BY <1>1, <1>3 DEF ChoiceAt, WordAt, Turn
<1>6. MeantAt'
  BY <1>1, <1>2, <1>3 DEF MeantAt, Turn
<1> QED BY <1>2, <1>4, <1>5, <1>6

LEMMA StepKeeps == ASSUME IInv, [Next]_vars PROVE IInv'
<1>1. CASE LoopTest
  <2>1. pc = "while" /\ pc' \in {"return", "switch"} /\ up' \in BOOLEAN
        /\ UNCHANGED <<input, buffers, choice, local, remote, at, result>>
    BY <1>1 DEF LoopTest, IInv, TypeOK
  <2> QED BY <2>1, OthersKeep
<1>2. CASE LoseConnection
  BY <1>2, OthersKeep DEF LoseConnection
<1>3. CASE UNCHANGED vars
  <2>1. pc' = pc /\ up' \in BOOLEAN
        /\ UNCHANGED <<input, buffers, choice, local, remote, at, result>>
    BY <1>3 DEF vars, input, buffers, IInv, TypeOK
  <2> QED BY <2>1, OthersKeep
<1> QED BY <1>1, <1>2, <1>3, TypeLineKeeps, ReadCommandKeeps, SwitchKeeps, ReadNameKeeps,
           ReadRunKeeps, CallKeeps DEF Next, Step

LEMMA Inductive == Spec => []IInv
  BY InitHolds, StepKeeps, PTL DEF Spec

-----------------------------------------------------------------------------

(* Whatever is typed, menuloop's state is of the types the code gives it:  *)
(* names and commands have no white space scanf would have skipped.        *)
THEOREM TypeCorrect == Spec => []TypeOK
  BY Inductive, PTL DEF IInv

(* Words stay in step with the prompts, however far ahead they are typed:  *)
(* as long as names stand where a command asks for them and remote         *)
(* commands have the rest of their line, no name and no part of a remote   *)
(* command is run as a command, and each command is given its own words.   *)
THEOREM StaysInStep == Spec => []InStep
<1>1. IInv => InStep
  <2> SUFFICES ASSUME IInv, Tidy, at # 0 PROVE InStep
    BY DEF InStep
  <2>1. pc = "while" => comm \notin FileNames \cup RemoteWords
    BY DEF IInv, MeantAt, Turn
  <2>2. pc = "call" /\ HasWord(stdin, at) =>
           /\ choice \in NameCommands => fname \in FileNames
           /\ choice = RunCommand => ToSet(command) \subseteq RemoteWords \cup {SP}
    BY DEF IInv, MeantAt
  <2> QED BY <2>1, <2>2 DEF InStep
<1> QED BY <1>1, Inductive, PTL

(* A word that was read is run once, unless the input has ended. *)
THEOREM RunsOnce == Spec => []RunOnce
<1>1. IInv => RunOnce
  BY DEF IInv, WordAt, RunOnce, Turn, Over
<1> QED BY <1>1, Inductive, PTL

(* The default of menuloop's switch is never reached (menuloop.c:115). *)
THEOREM NeverOopsHolds == Spec => []NeverOops
<1>1. Init => NeverOops
  BY DEF Init, NeverOops
<1>2. NeverOops /\ [Next]_vars => NeverOops'
  <2>1. Switch => result' = result
    <3> SUFFICES ASSUME Switch PROVE result' = result
      OBVIOUS
    <3>1. choice' \in -1..12
      BY ParseFacts DEF Switch
    <3> QED BY <3>1 DEF Switch
  <2> QED BY <2>1 DEF NeverOops, Next, Step, TypeLine, LoseConnection, ReadCommand,
             LoopTest, ReadName, ReadRun, Call, vars
<1> QED BY <1>1, <1>2, PTL DEF Spec

(* cdl and cdr each move their own directory, by one step, and nothing     *)
(* else moves a directory: the word that was parsed is still in comm when  *)
(* the directory changes.                                                  *)
THEOREM DirectoriesMove == Spec => DirectoryMoves
<1> DEFINE Moved ==
      /\ local' # local => comm = "cdl" /\ OneStep(local, local')
      /\ remote' # remote => comm = "cdr" /\ OneStep(remote, remote')
<1>1. ASSUME NEW path, NEW dirs, NEW reachable,
             NEW new \in ChangeDirectory(path, dirs, reachable)
      PROVE  OneStep(path, new)
  BY DEF ChangeDirectory, OneStep, Up
<1>2. IInv /\ [Next]_vars => [Moved]_vars
  <2> SUFFICES ASSUME IInv, Next PROVE Moved
    OBVIOUS
  <2>1. CASE Call
    <3>1. choice \in 1..12 /\ comm = words[choice + 1]
      BY <2>1 DEF Call, IInv, ChoiceAt
    <3>2. (choice = 4 => comm = "cdl") /\ (choice = 5 => comm = "cdr")
      BY <3>1, WordsFacts
    <3>3. local' # local => choice = 4 /\ local' \in ChangeDirectory(local, LocalDirs, TRUE)
      BY <2>1 DEF Call
    <3>4. remote' # remote => choice = 5 /\ remote' \in ChangeDirectory(remote, RemoteDirs, up)
      BY <2>1 DEF Call
    <3> QED BY <1>1, <3>2, <3>3, <3>4
  <2>2. CASE UNCHANGED <<local, remote>>
    BY <2>2
  <2> QED BY <2>1, <2>2 DEF Next, Step, TypeLine, LoseConnection, ReadCommand, LoopTest,
             Switch, ReadName, ReadRun
<1> QED BY <1>2, Inductive, PTL DEF Spec, DirectoryMoves
=============================================================================
