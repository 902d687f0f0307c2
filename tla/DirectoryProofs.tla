-------------------------- MODULE DirectoryProofs --------------------------
(***************************************************************************)
(* What holds of the four loops over a directory whatever it holds and     *)
(* however many entries there are.                                         *)
(***************************************************************************)
EXTENDS Directory, FiniteSetTheorems, SequenceTheorems, TLAPS

(* How far each counter may have come: none counts the entry that is being *)
(* dealt with.                                                             *)
AtOne == pc \in {"entry", "blocked", "crashed"}
Behind == IF AtOne THEN cursor - 1 ELSE cursor

CountersAt ==
    /\ AtOne => cursor >= 1
    /\ filecount <= Behind /\ foldercount <= Behind
    /\ filecount > 0 => op \in Moving

(* Attributes are held of the entries read from the server only, and of    *)
(* the one that is being dealt with.                                       *)
HeldAt ==
    /\ held <= cursor
    /\ pc = "entry" /\ op \in Remote => held >= 1

(* What has been reported, and what became of the directory. *)
ReportAt ==
    /\ pc = "opendir" => dir = "null" /\ filecount = 0
    /\ pc = "blocked" => op = "pulla" /\ items[cursor].kind = "special"
    /\ pc = "closedir" => reported = (op \in Moving)

Types == TypeOK /\ CountersAt /\ HeldAt
IInv == Types /\ ReportAt /\ KnowWhatMoved /\ CountsTrue

-----------------------------------------------------------------------------

LEMMA ItemFacts ==
    ASSUME TypeOK
    PROVE  /\ Len(items) \in Nat /\ DOMAIN items = 1..Len(items)
           /\ \A i \in DOMAIN items : items[i] \in Entry
  BY LenProperties, ElementOfSeq DEF TypeOK

LEMMA InitTypes == ASSUME Init PROVE Types
  <1>1. items \in Seq(Entry) /\ op \in Call
    BY DirectoryAssumption DEF Init
  <1>2. Len(items) \in Nat
    BY <1>1, LenProperties
  <1>3. shown \in Seq(DOMAIN items)
    BY EmptySeq DEF Init
  <1>4. copy \in [DOMAIN items -> {"none", "cut", "whole"}]
    BY DEF Init
  <1>5. rc \in {SSH_OK, SSH_ERROR, ERRNO} /\ 0 \in 0..Len(items)
    BY <1>2 DEF Init
  <1>6. loud \in BOOLEAN /\ up \in BOOLEAN /\ eof \in BOOLEAN /\ reported \in BOOLEAN
    BY DEF Init
  <1>7. TypeOK
    BY <1>1, <1>3, <1>4, <1>5, <1>6 DEF TypeOK, Init
  <1> QED BY <1>7 DEF Types, CountersAt, HeldAt, Behind, AtOne, Init

(* The steps that leave all counters alone. *)
LEMMA QuietTypes ==
    ASSUME Types,
           LoseConnection \/ OpenDir \/ ReadNull \/ WaitForWriter \/ BreakOff
               \/ Report \/ CloseDir
    PROVE  Types'
  <1> USE ItemFacts DEF Types, TypeOK, CountersAt, HeldAt, Behind, AtOne, call, counts
  <1>1. CASE LoseConnection BY <1>1 DEF LoseConnection
  <1>2. CASE OpenDir BY <1>2 DEF OpenDir, Failure
  <1>3. CASE ReadNull BY <1>3 DEF ReadNull
  <1>4. CASE WaitForWriter BY <1>4 DEF WaitForWriter, AtEntry
  <1>5. CASE BreakOff BY <1>5 DEF BreakOff
  <1>6. CASE Report BY <1>6 DEF Report
  <1>7. CASE CloseDir BY <1>7 DEF CloseDir, Failure
  <1> QED BY <1>1, <1>2, <1>3, <1>4, <1>5, <1>6, <1>7

(* The steps that take up an entry or are done with it. *)
LEMMA EntryTypes ==
    ASSUME Types,
           ReadEntry \/ SkipEntry \/ CountFolder \/ PrintEntry \/ MoveFile \/ PullFails
    PROVE  Types'
  <1> USE ItemFacts DEF Types, CountersAt, HeldAt, Behind, AtOne, call, counts
  <1>1. CASE ReadEntry
    <2>1. cursor + 1 \in 0..Len(items) /\ held + 1 \in 0..Len(items)
      BY <1>1 DEF ReadEntry, TypeOK
    <2> QED BY <1>1, <2>1 DEF ReadEntry, TypeOK
  <1>2. CASE SkipEntry BY <1>2 DEF SkipEntry, TypeOK
  <1>3. CASE CountFolder
    <2>1. foldercount + 1 \in 0..Len(items)
      BY <1>3 DEF CountFolder, AtEntry, TypeOK
    <2> QED BY <1>3, <2>1 DEF CountFolder, AtEntry, TypeOK
  <1>4. CASE PrintEntry
    <2>1. cursor \in DOMAIN items
      BY <1>4 DEF PrintEntry, AtEntry, TypeOK
    <2>2. shown' \in Seq(DOMAIN items)
      BY <1>4, <2>1, AppendProperties DEF PrintEntry, TypeOK
    <2>3. held' \in 0..Len(items) /\ held' <= cursor
      BY <1>4 DEF PrintEntry, AtEntry, TypeOK, Remote
    <2> QED BY <1>4, <2>2, <2>3 DEF PrintEntry, AtEntry, TypeOK
  <1>5. CASE MoveFile
    <2>1. filecount + 1 \in 0..Len(items) /\ filecount + 1 <= cursor
      BY <1>5 DEF MoveFile, AtEntry, TypeOK
    <2>2. copy' \in [DOMAIN items -> {"none", "cut", "whole"}] /\ up' \in BOOLEAN
      BY <1>5 DEF MoveFile, TypeOK
    <2>3. \/ filecount' = filecount + 1 /\ pc' = "readdir"
          \/ filecount' = filecount /\ pc' \in {"readdir", "crashed"}
      BY <1>5 DEF MoveFile
    <2> QED BY <1>5, <2>1, <2>2, <2>3 DEF MoveFile, AtEntry, TypeOK
  <1>6. CASE PullFails BY <1>6 DEF PullFails, TypeOK
  <1> QED BY <1>1, <1>2, <1>3, <1>4, <1>5, <1>6

LEMMA StepTypes == ASSUME Types, [Next]_vars PROVE Types'
  <1>1. CASE UNCHANGED vars
    BY <1>1 DEF vars, call, Types, TypeOK, CountersAt, HeldAt, Behind, AtOne
  <1> QED BY <1>1, QuietTypes, EntryTypes DEF Next, Step

-----------------------------------------------------------------------------

(* The report comes before the directory is closed, on the one way out on  *)
(* which something may have been moved and the end was reached.            *)
LEMMA StepTold == ASSUME IInv, [Next]_vars PROVE ReportAt' /\ KnowWhatMoved'
  <1> USE DEF IInv, Types, ReportAt, KnowWhatMoved, CannotList, call, counts
  <1>1. CASE LoseConnection BY <1>1 DEF LoseConnection
  <1>2. CASE OpenDir BY <1>2 DEF OpenDir
  <1>3. CASE ReadEntry \/ ReadNull \/ SkipEntry \/ PullFails
    BY <1>3 DEF ReadEntry, ReadNull, SkipEntry, PullFails
  <1>4. CASE CountFolder \/ PrintEntry BY <1>4 DEF CountFolder, PrintEntry
  <1>5. CASE MoveFile
    <2>1. pc' \in {"readdir", "crashed"}
      BY <1>5 DEF MoveFile
    <2> QED BY <2>1
  <1>6. CASE WaitForWriter BY <1>6 DEF WaitForWriter, Moving
  <1>7. CASE BreakOff BY <1>7 DEF BreakOff
  <1>8. CASE Report BY <1>8 DEF Report
  <1>9. CASE CloseDir BY <1>9 DEF CloseDir, CountersAt
  <1>10. CASE UNCHANGED vars BY <1>10 DEF vars
  <1> QED BY <1>1, <1>2, <1>3, <1>4, <1>5, <1>6, <1>7, <1>8, <1>9, <1>10 DEF Next, Step

(* The two sets CountsTrue counts, among the first n entries. *)
There(c, it, l, n) ==
    {i \in 1..n : \/ c[i] = "whole"
                  \/ c[i] = "cut" /\ (~l \/ it[i].kind = "folderlink")}
Folders(o, it, n) ==
    {i \in 1..n : ~it[i].hidden /\ IF o = "pulla" THEN it[i].kind = "folder"
                                   ELSE it[i].kind # "file"}
CountsAt(n) ==
    op \in Moving => /\ filecount <= Cardinality(There(copy, items, loud, n))
                     /\ foldercount = Cardinality(Folders(op, items, n))

LEMMA CountsMeaning == CountsTrue <=> CountsAt(Behind)
  <1>1. Done = 1..Behind
    BY DEF Done, Behind, AtOne
  <1> QED BY <1>1 DEF CountsTrue, CountsAt, There, Folders, Folder

LEMMA CountsMeaningNext == CountsTrue' <=> CountsAt(Behind)'
  <1>1. Done' = 1..Behind'
    BY DEF Done, Behind, AtOne
  <1> QED BY <1>1 DEF CountsTrue, CountsAt, There, Folders, Folder

LEMMA CountedSets ==
    ASSUME NEW n \in Nat, NEW c, NEW it, NEW l, NEW o
    PROVE  /\ IsFiniteSet(There(c, it, l, n)) /\ Cardinality(There(c, it, l, n)) \in Nat
           /\ IsFiniteSet(Folders(o, it, n)) /\ Cardinality(Folders(o, it, n)) \in Nat
  <1>1. IsFiniteSet(1..n)
    BY FS_Interval
  <1>2. There(c, it, l, n) \subseteq 1..n /\ Folders(o, it, n) \subseteq 1..n
    BY DEF There, Folders
  <1>3. IsFiniteSet(There(c, it, l, n)) /\ IsFiniteSet(Folders(o, it, n))
    BY <1>1, <1>2, FS_Subset
  <1> QED BY <1>3, FS_CardinalityType

(* One more entry is moved, or is not. *)
LEMMA NextThere ==
    ASSUME NEW n \in Nat, NEW c, NEW it, NEW l
    PROVE  /\ Cardinality(There(c, it, l, n + 1)) \in Nat /\ Cardinality(There(c, it, l, n)) \in Nat
           /\ Cardinality(There(c, it, l, n + 1)) >= Cardinality(There(c, it, l, n))
           /\ n + 1 \in There(c, it, l, n + 1) =>
                 Cardinality(There(c, it, l, n + 1)) = Cardinality(There(c, it, l, n)) + 1
  <1> DEFINE A == There(c, it, l, n)
  <1> DEFINE B == There(c, it, l, n + 1)
  <1>1. 1..(n + 1) = 1..n \cup {n + 1} /\ n + 1 \notin 1..n
    OBVIOUS
  <1>2. B = A \cup ({n + 1} \cap B) /\ n + 1 \notin A
    BY <1>1 DEF There
  <1>3. IsFiniteSet(A) /\ Cardinality(A) \in Nat
    BY CountedSets
  <1>4. Cardinality(A \cup {n + 1}) = Cardinality(A) + 1
    BY <1>2, <1>3, FS_AddElement
  <1>5. n + 1 \in B => B = A \cup {n + 1}
    BY <1>2
  <1>6. n + 1 \notin B => B = A
    BY <1>2
  <1> HIDE DEF A, B
  <1>7. /\ Cardinality(B) \in Nat /\ Cardinality(A) \in Nat
        /\ Cardinality(B) >= Cardinality(A)
        /\ n + 1 \in B => Cardinality(B) = Cardinality(A) + 1
    <2>1. CASE n + 1 \in B
      <3>1. Cardinality(B) = Cardinality(A) + 1
        <4>1. B = A \cup {n + 1}
          BY <2>1, <1>5
        <4> QED BY <4>1, <1>4
      <3> QED BY <2>1, <3>1, <1>3
    <2>2. CASE n + 1 \notin B
      <3>1. Cardinality(B) = Cardinality(A)
        BY <2>2, <1>6
      <3> QED BY <2>2, <3>1, <1>3
    <2> QED BY <2>1, <2>2
  <1> QED BY <1>7 DEF A, B

(* One more entry counts as a folder, or does not. *)
LEMMA NextFolder ==
    ASSUME NEW n \in Nat, NEW o, NEW it
    PROVE  /\ n + 1 \in Folders(o, it, n + 1) =>
                 Cardinality(Folders(o, it, n + 1)) = Cardinality(Folders(o, it, n)) + 1
           /\ n + 1 \notin Folders(o, it, n + 1) => Folders(o, it, n + 1) = Folders(o, it, n)
  <1> DEFINE A == Folders(o, it, n)
  <1> DEFINE B == Folders(o, it, n + 1)
  <1>1. 1..(n + 1) = 1..n \cup {n + 1} /\ n + 1 \notin 1..n
    OBVIOUS
  <1>2. B = A \cup ({n + 1} \cap B) /\ n + 1 \notin A
    BY <1>1 DEF Folders
  <1>3. IsFiniteSet(A) /\ Cardinality(A) \in Nat
    BY CountedSets
  <1>4. Cardinality(A \cup {n + 1}) = Cardinality(A) + 1
    BY <1>2, <1>3, FS_AddElement
  <1>5. n + 1 \in B => B = A \cup {n + 1}
    BY <1>2
  <1>6. n + 1 \notin B => B = A
    BY <1>2
  <1> QED BY <1>4, <1>5, <1>6

LEMMA InitCounts == ASSUME Init PROVE CountsTrue
  <1>1. Behind = 0 /\ filecount = 0 /\ foldercount = 0
    BY DEF Init, Behind, AtOne
  <1>2. There(copy, items, loud, 0) = {} /\ Folders(op, items, 0) = {}
    BY DEF There, Folders
  <1>3. Cardinality({}) = 0
    BY FS_EmptySet
  <1>4. CountsAt(0)
    BY <1>1, <1>2, <1>3 DEF CountsAt
  <1> QED BY <1>1, <1>4, CountsMeaning

(* The steps that are done with no entry count nothing.                    *)
LEMMA QuietCounts ==
    ASSUME IInv, UNCHANGED <<op, items, loud, copy, filecount, foldercount>>, Behind' = Behind
    PROVE  CountsTrue'
  <1>1. CountsAt(Behind)
    BY CountsMeaning DEF IInv
  <1>2. CountsAt(Behind)'
    BY <1>1 DEF CountsAt
  <1> QED BY <1>2, CountsMeaningNext

(* The steps that are done with an entry count it once, if they should.    *)
LEMMA EntryCounts ==
    ASSUME IInv, SkipEntry \/ CountFolder \/ PrintEntry \/ MoveFile \/ PullFails
    PROVE  CountsTrue'
  <1> DEFINE n == cursor - 1
  <1>1. n \in Nat /\ n + 1 = cursor /\ Behind = n /\ cursor \in DOMAIN items /\ filecount \in Nat
    <2>1. AtOne
      BY DEF SkipEntry, CountFolder, PrintEntry, MoveFile, PullFails, AtEntry, AtOne
    <2> QED BY <2>1, ItemFacts DEF IInv, Types, TypeOK, CountersAt, Behind
  <1>2. CountsAt(n)
    BY <1>1, CountsMeaning DEF IInv
  <1>3. UNCHANGED <<op, items, loud, cursor>>
    BY DEF SkipEntry, CountFolder, PrintEntry, MoveFile, PullFails, call
  <1>4. There(copy', items, loud, n) = There(copy, items, loud, n)
    <2>1. \A i \in 1..n : copy'[i] = copy[i]
      <3>1. \A i \in 1..n : i # cursor /\ i \in DOMAIN items
        BY <1>1, ItemFacts DEF IInv, Types, TypeOK
      <3>2. CASE copy' = copy
        BY <3>2
      <3>3. CASE \E part : copy' = [copy EXCEPT ![cursor] = part]
        BY <3>1, <3>3 DEF IInv, Types, TypeOK
      <3> QED BY <3>2, <3>3 DEF SkipEntry, CountFolder, PrintEntry, MoveFile, PullFails
    <2> QED BY <2>1 DEF There
  <1>5. cursor \in Folders(op, items, cursor) <=>
            ~items[cursor].hidden /\ Folder(items[cursor])
    BY <1>1 DEF Folders, Folder
  <1>6. cursor \in There(copy', items, loud, cursor) <=>
            \/ copy'[cursor] = "whole"
            \/ copy'[cursor] = "cut" /\ (~loud \/ items[cursor].kind = "folderlink")
    BY <1>1 DEF There
  <1>7. ASSUME op \in Moving, pc' = "readdir",
               foldercount' = IF cursor \in Folders(op, items, cursor)
                              THEN foldercount + 1 ELSE foldercount,
               \/ filecount' = filecount
               \/ filecount' = filecount + 1 /\ cursor \in There(copy', items, loud, cursor)
        PROVE  CountsTrue'
    <2>1. Behind' = n + 1
      BY <1>1, <1>3, <1>7 DEF Behind, AtOne
    <2>2. filecount' <= Cardinality(There(copy', items, loud, n + 1))
      BY <1>1, <1>2, <1>4, <1>7, NextThere DEF CountsAt
    <2>3. foldercount' = Cardinality(Folders(op, items, n + 1))
      BY <1>1, <1>2, <1>7, NextFolder DEF CountsAt
    <2>4. CountsAt(Behind)'
      BY <2>1, <2>2, <2>3, <1>3 DEF CountsAt
    <2> QED BY <2>4, CountsMeaningNext
  <1>8. CASE op \notin Moving
    BY <1>3, <1>8, CountsMeaningNext DEF CountsAt
  <1>9. CASE SkipEntry /\ op \in Moving
    <2>1. items[cursor].hidden
      BY <1>9 DEF SkipEntry, Skipped
    <2> QED BY <1>9, <2>1, <1>5, <1>7 DEF SkipEntry, counts
  <1>10. CASE CountFolder
    <2>1. ~items[cursor].hidden /\ Folder(items[cursor]) /\ op \in Moving
      BY <1>10 DEF CountFolder, AtEntry, Skipped, Moving
    <2> QED BY <1>10, <2>1, <1>5, <1>7 DEF CountFolder
  <1>11. CASE MoveFile
    <2>1. ~Folder(items[cursor]) /\ op \in Moving /\ UNCHANGED foldercount
      BY <1>11 DEF MoveFile, AtEntry
    <2>2. cursor \notin Folders(op, items, cursor)
      BY <2>1, <1>5
    <2>3. PICK part \in {"none", "cut", "whole"}, alive \in {up, FALSE} :
             /\ copy' = [copy EXCEPT ![cursor] = part]
             /\ \/ Moved(part, alive) /\ filecount' = filecount + 1 /\ pc' = "readdir"
                \/ filecount' = filecount /\ pc' = "readdir"
                \/ filecount' = filecount /\ pc' = "crashed"
      BY <1>11 DEF MoveFile
    <2>4. copy'[cursor] = part
      BY <2>3, <1>1 DEF IInv, Types, TypeOK
    <2>5. CASE Moved(part, alive) /\ filecount' = filecount + 1 /\ pc' = "readdir"
      <3>1. cursor \in There(copy', items, loud, cursor)
        BY <2>4, <2>5, <1>6 DEF Moved
      <3> QED BY <3>1, <2>1, <2>2, <2>5, <1>7
    <2>6. CASE filecount' = filecount /\ pc' = "readdir"
      BY <2>6, <2>1, <2>2, <1>7
    <2>7. CASE filecount' = filecount /\ pc' = "crashed"
      <3>1. Behind' = n
        BY <2>7, <1>1, <1>3 DEF Behind, AtOne
      <3>2. CountsAt(Behind)'
        BY <3>1, <2>1, <2>7, <1>2, <1>3, <1>4 DEF CountsAt
      <3> QED BY <3>2, CountsMeaningNext
    <2> QED BY <2>3, <2>5, <2>6, <2>7
  <1>12. CASE PullFails
    <2>1. op = "pulla" /\ items[cursor].kind = "special"
      BY <1>12 DEF PullFails, IInv, ReportAt
    <2>2. cursor \notin Folders(op, items, cursor) /\ op \in Moving
      BY <2>1, <1>5 DEF Folder, Moving
    <2> QED BY <1>12, <2>2, <1>7 DEF PullFails, counts
  <1>13. CASE PrintEntry
    BY <1>13, <1>8 DEF PrintEntry
  <1> QED BY <1>8, <1>9, <1>10, <1>11, <1>12, <1>13

LEMMA StepCounts == ASSUME IInv, [Next]_vars PROVE CountsTrue'
  <1>1. cursor \in Nat
    BY ItemFacts DEF IInv, Types, TypeOK
  <1> USE <1>1, QuietCounts DEF Behind, AtOne, call, counts
  <1>2. CASE LoseConnection BY <1>2 DEF LoseConnection
  <1>3. CASE OpenDir
    <2>1. pc' \in {"readdir", "return"}
      BY <1>3 DEF OpenDir
    <2> QED BY <1>3, <2>1 DEF OpenDir
  <1>4. CASE ReadEntry BY <1>4 DEF ReadEntry
  <1>5. CASE ReadNull BY <1>5 DEF ReadNull
  <1>6. CASE WaitForWriter BY <1>6 DEF WaitForWriter, AtEntry
  <1>7. CASE BreakOff BY <1>7 DEF BreakOff
  <1>8. CASE Report BY <1>8 DEF Report
  <1>9. CASE CloseDir BY <1>9 DEF CloseDir
  <1>10. CASE UNCHANGED vars BY <1>10 DEF vars
  <1> QED BY <1>2, <1>3, <1>4, <1>5, <1>6, <1>7, <1>8, <1>9, <1>10, EntryCounts
             DEF Next, Step

LEMMA Inductive == Spec => []IInv
  <1>1. Init => IInv
    BY InitTypes, InitCounts DEF Init, IInv, ReportAt, KnowWhatMoved
  <1>2. IInv /\ [Next]_vars => IInv'
    BY StepTypes, StepTold, StepCounts DEF IInv
  <1> QED BY <1>1, <1>2, PTL DEF Spec

-----------------------------------------------------------------------------

(* However long the directory is, the counters, the attributes that are    *)
(* held and the entries that were printed stay within it.                  *)
THEOREM TypeCorrect == Spec => []TypeOK
  BY Inductive, PTL DEF IInv, Types

(* However many transfers fail, the first count pull_all_files and         *)
(* push_all_files keep is of files that are on the other side - whole, but *)
(* for links to folders and transfers that fail without a word - and the   *)
(* second one of the visible entries that were not tried.                  *)
THEOREM TrueCounts == Spec => []CountsTrue
  BY Inductive, PTL DEF IInv

(* Whatever fails, the user is told how much was moved, and the directory  *)
(* is closed.                                                              *)
THEOREM Told == Spec => []KnowWhatMoved
  BY Inductive, PTL DEF IInv

-----------------------------------------------------------------------------

(* What has been printed of the first n entries, and which are hidden. *)
Listing(it, n, s) ==
    /\ ToSet(s) = {i \in 1..n : ~it[i].hidden}
    /\ \A j, k \in DOMAIN s : j < k => s[j] < s[k]
HiddenIn(it, n) == {i \in 1..n : it[i].hidden}
InHand == IF AtOne THEN 1 ELSE 0
ListedAt(n) ==
    /\ op = "lsl" => shown = [i \in 1..n |-> i]
    /\ op = "lsr" => /\ Listing(items, n, shown)
                     /\ held <= Cardinality(HiddenIn(items, n)) + InHand

ListInv == IInv /\ ListedAt(Behind)

LEMMA NextListing ==
    ASSUME NEW n \in Nat, NEW it, NEW s \in Seq(Nat), Listing(it, n, s)
    PROVE  /\ it[n + 1].hidden => Listing(it, n + 1, s)
           /\ ~it[n + 1].hidden => Listing(it, n + 1, Append(s, n + 1))
  <1>1. 1..(n + 1) = 1..n \cup {n + 1}
    OBVIOUS
  <1>2. ASSUME it[n + 1].hidden PROVE Listing(it, n + 1, s)
    BY <1>1, <1>2 DEF Listing
  <1>3. ASSUME ~it[n + 1].hidden PROVE Listing(it, n + 1, Append(s, n + 1))
    <2> DEFINE t == Append(s, n + 1)
    <2>1. /\ Len(s) \in Nat /\ DOMAIN s = 1..Len(s) /\ DOMAIN t = 1..(Len(s) + 1)
          /\ t[Len(s) + 1] = n + 1 /\ \A i \in 1..Len(s) : t[i] = s[i]
      <3>1. t \in Seq(Nat) /\ Len(t) = Len(s) + 1 /\ t[Len(s) + 1] = n + 1
            /\ \A i \in 1..Len(s) : t[i] = s[i]
        BY AppendProperties
      <3>2. Len(s) \in Nat /\ DOMAIN s = 1..Len(s)
        BY LenProperties
      <3>3. DOMAIN t = 1..Len(t)
        <4> HIDE DEF t
        <4> QED BY <3>1, LenProperties
      <3> QED BY <3>1, <3>2, <3>3
    <2>2. \A i \in 1..Len(s) : s[i] \in 1..n
      BY <2>1 DEF Listing, ToSet
    <2> HIDE DEF t
    <2>3. ToSet(t) = ToSet(s) \cup {n + 1}
      <3>1. 1..(Len(s) + 1) = 1..Len(s) \cup {Len(s) + 1}
        BY <2>1
      <3> QED BY <2>1, <3>1 DEF ToSet
    <2>4. ToSet(t) = {i \in 1..(n + 1) : ~it[i].hidden}
      BY <1>1, <1>3, <2>3 DEF Listing
    <2>5. ASSUME NEW j \in DOMAIN t, NEW k \in DOMAIN t, j < k PROVE t[j] < t[k]
      <3>1. j \in 1..Len(s) /\ j \in DOMAIN s
        BY <2>1, <2>5
      <3>2. CASE k \in 1..Len(s)
        BY <2>1, <2>5, <3>1, <3>2 DEF Listing
      <3>3. CASE k = Len(s) + 1
        BY <2>1, <2>2, <3>1, <3>3
      <3> QED BY <2>1, <3>2, <3>3
    <2> QED BY <2>4, <2>5 DEF Listing, t
  <1> QED BY <1>2, <1>3

LEMMA NextHidden ==
    ASSUME NEW n \in Nat, NEW it
    PROVE  /\ Cardinality(HiddenIn(it, n)) \in Nat
           /\ IsFiniteSet(HiddenIn(it, n)) /\ n + 1 \notin HiddenIn(it, n)
           /\ it[n + 1].hidden => Cardinality(HiddenIn(it, n + 1)) = Cardinality(HiddenIn(it, n)) + 1
           /\ ~it[n + 1].hidden => HiddenIn(it, n + 1) = HiddenIn(it, n)
  <1>1. 1..(n + 1) = 1..n \cup {n + 1} /\ n + 1 \notin 1..n
    OBVIOUS
  <1>2. HiddenIn(it, n) \subseteq 1..n
    BY DEF HiddenIn
  <1>3. IsFiniteSet(HiddenIn(it, n)) /\ Cardinality(HiddenIn(it, n)) \in Nat
    <2>1. IsFiniteSet(1..n)
      BY FS_Interval
    <2>2. IsFiniteSet(HiddenIn(it, n))
      BY <1>2, <2>1, FS_Subset
    <2> QED BY <2>2, FS_CardinalityType
  <1>4. it[n + 1].hidden => HiddenIn(it, n + 1) = HiddenIn(it, n) \cup {n + 1}
    BY <1>1 DEF HiddenIn
  <1>5. ~it[n + 1].hidden => HiddenIn(it, n + 1) = HiddenIn(it, n)
    BY <1>1 DEF HiddenIn
  <1>6. Cardinality(HiddenIn(it, n) \cup {n + 1}) = Cardinality(HiddenIn(it, n)) + 1
    BY <1>1, <1>2, <1>3, FS_AddElement
  <1> QED BY <1>1, <1>2, <1>3, <1>4, <1>5, <1>6

(* ListedAt is what ListedOnce says. *)
LEMMA ListedMeaning ==
    ASSUME Types, ListedAt(Behind) PROVE ListedOnce
  <1>1. Done = 1..Behind
    BY DEF Done, Behind, AtOne
  <1>2. cursor \in Nat /\ held \in Nat
    BY ItemFacts DEF Types, TypeOK
  <1>3. op = "lsr" => held <= Cardinality({i \in 1..cursor : items[i].hidden \/ i \notin Done})
    <2> DEFINE Kept == {i \in 1..cursor : items[i].hidden \/ i \notin Done}
    <2>1. CASE ~AtOne
      <3>1. Kept = HiddenIn(items, Behind)
        BY <1>1, <1>2, <2>1 DEF HiddenIn, Behind
      <3>2. InHand = 0 /\ Behind \in Nat /\ Cardinality(HiddenIn(items, Behind)) \in Nat
        BY <1>2, <2>1, NextHidden DEF InHand, Behind
      <3> QED BY <3>1, <3>2 DEF ListedAt
    <2>2. CASE AtOne
      <3>1. cursor >= 1
        BY <2>2 DEF Types, CountersAt
      <3>2. Behind = cursor - 1 /\ Behind \in Nat /\ Behind + 1 = cursor /\ InHand = 1
        BY <1>2, <2>2, <3>1 DEF Behind, InHand
      <3>3. Kept = HiddenIn(items, Behind) \cup {Behind + 1}
        BY <1>1, <3>2 DEF HiddenIn
      <3>4. Cardinality(Kept) = Cardinality(HiddenIn(items, Behind)) + 1
        <4>1. IsFiniteSet(HiddenIn(items, Behind)) /\ Behind + 1 \notin HiddenIn(items, Behind)
          BY <3>2, NextHidden
        <4> QED BY <3>3, <4>1, FS_AddElement
      <3> QED BY <3>2, <3>4 DEF ListedAt
    <2> QED BY <2>1, <2>2
  <1> QED BY <1>1, <1>3 DEF ListedAt, Listing, ListedOnce

(* The steps that are done with an entry list it once, if they should. *)
LEMMA EntryListed ==
    ASSUME ListInv, SkipEntry \/ CountFolder \/ PrintEntry \/ MoveFile \/ PullFails
    PROVE  ListedAt(Behind)'
  <1> DEFINE n == cursor - 1
  <1>1. n \in Nat /\ n + 1 = cursor /\ Behind = n /\ InHand = 1 /\ held \in Nat
    <2>1. AtOne
      BY DEF SkipEntry, CountFolder, PrintEntry, MoveFile, PullFails, AtEntry, AtOne
    <2> QED BY <2>1, ItemFacts DEF ListInv, IInv, Types, TypeOK, CountersAt, Behind, InHand
  <1>2. UNCHANGED <<op, items, cursor>>
    BY DEF SkipEntry, CountFolder, PrintEntry, MoveFile, PullFails, call
  <1>3. CASE op \in Moving
    BY <1>2, <1>3 DEF ListedAt, Moving
  <1>4. CASE op \notin Moving
    <2>1. SkipEntry \/ PrintEntry
      <3>1. ~PullFails
        BY <1>4 DEF PullFails, ListInv, IInv, ReportAt, Moving
      <3> QED BY <1>4, <3>1 DEF CountFolder, MoveFile
    <2>2. pc' = "readdir"
      BY <2>1 DEF SkipEntry, PrintEntry
    <2>3. Behind' = n + 1 /\ InHand' = 0
      BY <1>1, <1>2, <2>2 DEF Behind, AtOne, InHand
    <2>4. shown \in Seq(Nat)
      <3>1. DOMAIN items \subseteq Nat /\ shown \in Seq(DOMAIN items)
        BY ItemFacts DEF ListInv, IInv, Types, TypeOK
      <3> QED BY <3>1, SeqMonotonic
    <2>5. /\ op = "lsl" => shown = [i \in 1..n |-> i]
          /\ op = "lsr" => Listing(items, n, shown)
          /\ op = "lsr" => held <= Cardinality(HiddenIn(items, n)) + 1
      BY <1>1 DEF ListInv, ListedAt
    <2>6. CASE SkipEntry
      <3>1. items[n + 1].hidden /\ op # "lsl" /\ UNCHANGED <<shown, held>>
        BY <1>1, <2>6 DEF SkipEntry, Skipped
      <3>2. op = "lsr" => Listing(items, n + 1, shown)
        BY <1>1, <2>4, <2>5, <3>1, NextListing
      <3>3. op = "lsr" => held <= Cardinality(HiddenIn(items, n + 1))
        BY <1>1, <2>5, <3>1, NextHidden
      <3>4. op = "lsr" => Cardinality(HiddenIn(items, n + 1)) \in Nat
        BY <1>1, <3>1, NextHidden
      <3> HIDE DEF n
      <3> QED BY <1>2, <2>3, <3>1, <3>2, <3>3, <3>4 DEF ListedAt
    <2>7. CASE PrintEntry
      <3>1. /\ shown' = Append(shown, n + 1)
            /\ op = "lsr" => ~items[n + 1].hidden /\ held' = held - 1
        BY <1>1, <2>7 DEF PrintEntry, AtEntry, Skipped
      <3>2. op = "lsr" => Listing(items, n + 1, shown')
        BY <1>1, <2>4, <2>5, <3>1, NextListing
      <3>3. Cardinality(HiddenIn(items, n)) \in Nat
        BY <1>1, NextHidden
      <3>4. op = "lsr" => held' <= Cardinality(HiddenIn(items, n + 1))
        <4>1. op = "lsr" => HiddenIn(items, n + 1) = HiddenIn(items, n)
          BY <1>1, <3>1, NextHidden
        <4>2. op = "lsr" => held' <= Cardinality(HiddenIn(items, n))
          BY <1>1, <2>5, <3>1, <3>3
        <4> QED BY <4>1, <4>2
      <3>5. op = "lsl" => shown' = [i \in 1..(n + 1) |-> i]
        <4>1. ASSUME shown = [i \in 1..n |-> i]
              PROVE  Append(shown, n + 1) = [i \in 1..(n + 1) |-> i]
          <5>1. Len(shown) = n
            <6>1. DOMAIN shown = 1..n /\ DOMAIN shown = 1..Len(shown) /\ Len(shown) \in Nat
              BY <2>4, <4>1, LenProperties
            <6> QED BY <1>1, <6>1
          <5>2. Append(shown, n + 1) = [i \in 1..(n + 1) |-> IF i <= n THEN shown[i] ELSE n + 1]
            BY <1>1, <2>4, <5>1
          <5> QED BY <1>1, <4>1, <5>2
        <4> QED BY <2>5, <3>1, <4>1
      <3>6. op = "lsr" => held' \in Int
        BY <1>1, <3>1
      <3>7. op = "lsr" => Cardinality(HiddenIn(items, n + 1)) \in Nat
        BY <1>1, <3>1, <3>3, NextHidden
      <3> HIDE DEF n
      <3> QED BY <1>2, <2>3, <3>2, <3>4, <3>5, <3>6, <3>7 DEF ListedAt
    <2> QED BY <2>1, <2>6, <2>7
  <1> QED BY <1>3, <1>4

LEMMA StepListed == ASSUME ListInv, [Next]_vars PROVE ListedAt(Behind)'
  <1>1. cursor \in Nat /\ held \in Nat
    BY ItemFacts DEF ListInv, IInv, Types, TypeOK
  <1>2. ASSUME UNCHANGED <<op, items, shown, held>>, Behind' = Behind, InHand' = InHand
        PROVE  ListedAt(Behind)'
    BY <1>2 DEF ListInv, ListedAt
  <1>3. CASE ReadEntry
    <2>1. Behind' = Behind /\ InHand' = 1 /\ InHand = 0 /\ Behind = cursor
      BY <1>1, <1>3 DEF ReadEntry, Behind, InHand, AtOne
    <2>2. UNCHANGED <<op, items, shown>> /\ (op = "lsr" => held' = held + 1)
      BY <1>3 DEF ReadEntry, call, Remote
    <2>3. Cardinality(HiddenIn(items, cursor)) \in Nat
      BY <1>1, NextHidden
    <2> QED BY <1>1, <2>1, <2>2, <2>3 DEF ListInv, ListedAt
  <1>4. CASE LoseConnection \/ ReadNull \/ WaitForWriter \/ BreakOff \/ Report \/ CloseDir
             \/ UNCHANGED vars
    <2>1. UNCHANGED <<op, items, shown, held, cursor>> /\ AtOne' = AtOne
      BY <1>4 DEF LoseConnection, ReadNull, WaitForWriter, BreakOff, Report, CloseDir, AtEntry,
                  AtOne, vars, call
    <2> QED BY <1>2, <2>1 DEF Behind, InHand
  <1>5. CASE OpenDir
    <2>1. UNCHANGED <<op, items, shown, held, cursor>> /\ ~AtOne /\ ~AtOne'
      BY <1>5 DEF OpenDir, AtOne, call
    <2> QED BY <1>2, <2>1 DEF Behind, InHand
  <1> QED BY <1>3, <1>4, <1>5, EntryListed DEF Next, Step

(* Each entry is listed once and in order, and list_remote_stuff holds on  *)
(* to no attributes but those of hidden names, however long the directory. *)
THEOREM Listed == Spec => []ListedOnce
  <1>1. Init => ListInv
    <2> SUFFICES ASSUME Init PROVE ListInv
      OBVIOUS
    <2>1. Behind = 0 /\ InHand = 0 /\ shown = <<>> /\ held = 0
      BY DEF Init, Behind, InHand, AtOne
    <2>2. 1..0 = {} /\ <<>> = [i \in 1..0 |-> i] /\ ToSet(<<>>) = {}
      BY DEF ToSet
    <2>3. HiddenIn(items, 0) = {} /\ Cardinality({}) = 0
      BY FS_EmptySet DEF HiddenIn
    <2>4. ListedAt(0)
      <3>1. Listing(items, 0, <<>>)
        <4>1. ToSet(<<>>) = {i \in 1..0 : ~items[i].hidden}
          BY <2>2
        <4>2. DOMAIN <<>> = {}
          OBVIOUS
        <4> QED BY <4>1, <4>2 DEF Listing
      <3>2. held <= Cardinality(HiddenIn(items, 0)) + InHand
        <4>1. Cardinality(HiddenIn(items, 0)) = 0
          BY <2>3
        <4> QED BY <2>1, <4>1
      <3> QED BY <2>1, <2>2, <3>1, <3>2 DEF ListedAt
    <2>5. IInv
      BY InitTypes, InitCounts DEF Init, IInv, ReportAt, KnowWhatMoved
    <2> QED BY <2>1, <2>4, <2>5 DEF ListInv
  <1>2. ListInv /\ [Next]_vars => ListInv'
    BY StepTypes, StepTold, StepCounts, StepListed DEF ListInv, IInv
  <1>3. ListInv => ListedOnce
    BY ListedMeaning DEF ListInv, IInv
  <1> QED BY <1>1, <1>2, <1>3, PTL DEF Spec

-----------------------------------------------------------------------------

(* Where the directory is open, and where its end was reached. *)
OpenAt ==
    /\ pc = "opendir" => dir = "null"
    /\ pc \in {"readdir", "entry", "blocked", "end", "closedir"} => dir = "open"
    /\ eof => cursor = Len(items)
    /\ eof => pc \in {"end", "closedir", "return"}
    /\ pc = "closedir" => ~CannotList

ItemsInv == Types /\ OpenAt

Left == IF op \in Remote THEN (1..Len(items)) \ (1..Behind) ELSE {}
Status == IF pc = "return" THEN IF rc = SSH_OK THEN "ok" ELSE "error"
          ELSE IF pc = "crashed" THEN "error"
          ELSE IF dir = "open" THEN "busy" ELSE "idle"

(* The steps of EachItem, as they are instantiated. *)
DealLeft ==
    Status = "busy" /\ Status' = "busy" /\ \E item \in Left : Left' = Left \ {item}
StepLeft ==
    \/ Status = "idle" /\ Status' = "busy" /\ Left' = Left
    \/ DealLeft
    \/ Status = "busy" /\ Left = {} /\ Status' = "ok" /\ Left' = Left
    \/ Status \in {"idle", "busy"} /\ Status' = "error" /\ Left' = Left
    \/ Status' = Status /\ Left' = Left

LEMMA LeftMeaning ==
    ASSUME TypeOK, TypeOK', StepLeft PROVE [Items!Next]_(Items!vars)
  <1>1. DOMAIN items = 1..Len(items) /\ DOMAIN items' = 1..Len(items')
    BY LenProperties DEF TypeOK
  <1>2. Done = 1..Behind /\ Done' = 1..Behind'
    BY DEF Done, Behind, AtOne
  <1>3. /\ (IF op \in Remote THEN DOMAIN items \ Done ELSE {}) = Left
        /\ (IF op' \in Remote THEN DOMAIN items' \ Done' ELSE {}) = Left'
    BY <1>1, <1>2 DEF Left, Remote
  <1> QED BY <1>3 DEF StepLeft, DealLeft, Status, Items!Next, Items!vars, Items!Begin,
                      Items!Deal, Items!Succeed, Items!Fail

LEMMA StepOpen == ASSUME ItemsInv, [Next]_vars PROVE OpenAt'
  <1> USE DEF ItemsInv, OpenAt, CannotList, call, counts
  <1>1. CASE LoseConnection BY <1>1 DEF LoseConnection
  <1>2. CASE OpenDir BY <1>2 DEF OpenDir
  <1>3. CASE ReadEntry BY <1>3 DEF ReadEntry
  <1>4. CASE ReadNull BY <1>4 DEF ReadNull
  <1>5. CASE SkipEntry \/ PullFails BY <1>5 DEF SkipEntry, PullFails
  <1>6. CASE CountFolder \/ PrintEntry BY <1>6 DEF CountFolder, PrintEntry, AtEntry
  <1>7. CASE MoveFile
    <2>1. pc = "entry" /\ pc' \in {"readdir", "crashed"} /\ UNCHANGED <<dir, eof, op, items>>
      BY <1>7 DEF MoveFile, AtEntry
    <2> QED BY <2>1
  <1>8. CASE WaitForWriter BY <1>8 DEF WaitForWriter, AtEntry
  <1>9. CASE BreakOff BY <1>9 DEF BreakOff
  <1>10. CASE Report BY <1>10 DEF Report
  <1>11. CASE CloseDir BY <1>11 DEF CloseDir
  <1>12. CASE UNCHANGED vars BY <1>12 DEF vars
  <1> QED BY <1>1, <1>2, <1>3, <1>4, <1>5, <1>6, <1>7, <1>8, <1>9, <1>10, <1>11, <1>12
             DEF Next, Step

(* A step that is done with an entry deals with one item of a remote       *)
(* directory; of a local one nothing is left from the beginning.           *)
LEMMA EntryLeft ==
    ASSUME ItemsInv, SkipEntry \/ CountFolder \/ PrintEntry \/ MoveFile \/ PullFails,
           pc' = "readdir"
    PROVE  StepLeft
  <1>1. AtOne /\ pc \notin {"return", "crashed"} /\ dir = "open"
    BY DEF SkipEntry, CountFolder, PrintEntry, MoveFile, PullFails, AtEntry, AtOne,
           ItemsInv, OpenAt
  <1>2. UNCHANGED <<op, items, cursor, dir>>
    BY DEF SkipEntry, CountFolder, PrintEntry, MoveFile, PullFails, call
  <1>3. Status = "busy" /\ Status' = "busy"
    BY <1>1, <1>2 DEF Status
  <1>4. cursor \in 1..Len(items) /\ Len(items) \in Nat
    BY <1>1, ItemFacts DEF ItemsInv, Types, TypeOK, CountersAt
  <1>5. Behind = cursor - 1 /\ Behind' = cursor
    BY <1>1, <1>2 DEF Behind, AtOne
  <1>6. CASE op \in Remote
    <2>1. Left = (1..Len(items)) \ (1..(cursor - 1)) /\ Left' = (1..Len(items)) \ (1..cursor)
      BY <1>2, <1>5, <1>6 DEF Left
    <2>2. cursor \in Left /\ Left' = Left \ {cursor}
      BY <2>1, <1>4
    <2> QED BY <2>2, <1>3 DEF StepLeft, DealLeft
  <1>7. CASE op \notin Remote
    BY <1>7, <1>2, <1>3 DEF Left, StepLeft
  <1> QED BY <1>6, <1>7

(* A step that is done with none. *)
LEMMA QuietLeft ==
    ASSUME ItemsInv, [Next]_vars, pc' # "readdir" \/ pc = "opendir"
    PROVE  StepLeft
  <1> USE DEF ItemsInv, OpenAt, call, counts
  <1>1. ASSUME UNCHANGED <<op, items>>, Behind' = Behind PROVE Left' = Left
    BY <1>1 DEF Left
  <1>2. cursor \in Nat /\ cursor + 1 - 1 = cursor
    BY ItemFacts DEF Types, TypeOK
  <1>3. CASE LoseConnection
    BY <1>3, <1>1 DEF LoseConnection, StepLeft, Status, Behind, AtOne
  <1>4. CASE OpenDir
    <2>1. Left' = Left
      BY <1>4, <1>1 DEF OpenDir, Behind, AtOne
    <2>2. Status = "idle"
      BY <1>4 DEF OpenDir, Status
    <2>3. \/ pc' = "readdir" /\ dir' = "open"
          \/ pc' = "return" /\ rc' = Failure
      BY <1>4 DEF OpenDir
    <2>4. Failure # SSH_OK
      BY DEF Failure, SSH_OK, SSH_ERROR, ERRNO
    <2>5. Status' \in {"busy", "error"}
      BY <2>3, <2>4 DEF Status
    <2> QED BY <2>1, <2>2, <2>5 DEF StepLeft
  <1>5. CASE ReadEntry
    BY <1>5, <1>1, <1>2 DEF ReadEntry, StepLeft, Status, Behind, AtOne
  <1>6. CASE ReadNull
    BY <1>6, <1>1 DEF ReadNull, StepLeft, Status, Behind, AtOne
  <1>7. CASE MoveFile /\ pc' = "crashed"
    <2>1. pc = "entry" /\ UNCHANGED <<op, items, cursor>>
      BY <1>7 DEF MoveFile, AtEntry
    <2>2. Left' = Left
      BY <1>7, <2>1, <1>1 DEF Behind, AtOne
    <2> QED BY <1>7, <2>1, <2>2 DEF StepLeft, Status
  <1>8. CASE WaitForWriter
    BY <1>8, <1>1 DEF WaitForWriter, AtEntry, StepLeft, Status, Behind, AtOne
  <1>9. CASE BreakOff
    BY <1>9, <1>1 DEF BreakOff, StepLeft, Status, Behind, AtOne, SSH_OK, SSH_ERROR
  <1>10. CASE Report
    BY <1>10, <1>1 DEF Report, StepLeft, Status, Behind, AtOne
  <1>11. CASE CloseDir
    <2>1. Left' = Left /\ Status = "busy" /\ Status' \in {"ok", "error"}
      BY <1>11, <1>1 DEF CloseDir, Status, Behind, AtOne
    <2>2. Behind = cursor /\ (op \in Remote => cursor = Len(items))
      BY <1>11 DEF CloseDir, Behind, AtOne, CannotList
    <2>3. Left = {}
      BY <2>2 DEF Left
    <2> QED BY <2>1, <2>3 DEF StepLeft
  <1>12. CASE UNCHANGED vars
    BY <1>12, <1>1 DEF vars, StepLeft, Status, Behind, AtOne
  <1>13. ASSUME MoveFile PROVE pc' \in {"readdir", "crashed"} /\ pc = "entry"
    BY <1>13 DEF MoveFile, AtEntry
  <1>14. SkipEntry \/ CountFolder \/ PrintEntry \/ PullFails =>
             pc' = "readdir" /\ pc # "opendir"
    BY DEF SkipEntry, CountFolder, PrintEntry, PullFails, AtEntry
  <1> QED BY <1>3, <1>4, <1>5, <1>6, <1>7, <1>8, <1>9, <1>10, <1>11, <1>12, <1>13, <1>14
             DEF Next, Step

(* pull_all_files and list_remote_stuff implement EachItem: they return 0  *)
(* only when every entry was dealt with, whatever breaks off.              *)
THEOREM ImplementsEachItem == Spec => EveryItem
  <1>1. Init => ItemsInv
    BY InitTypes DEF Init, ItemsInv, OpenAt
  <1>2. ItemsInv /\ [Next]_vars => ItemsInv'
    BY StepTypes, StepOpen DEF ItemsInv
  <1>3. Init => Items!Init
    BY DEF Init, Items!Init
  <1>4. ItemsInv /\ [Next]_vars => [Items!Next]_(Items!vars)
    <2> SUFFICES ASSUME ItemsInv, [Next]_vars PROVE [Items!Next]_(Items!vars)
      OBVIOUS
    <2>1. TypeOK /\ TypeOK'
      BY <1>2 DEF ItemsInv, Types
    <2>2. CASE pc' # "readdir" \/ pc = "opendir"
      BY <2>1, <2>2, QuietLeft, LeftMeaning
    <2>3. CASE pc' = "readdir" /\ pc # "opendir"
      <3>1. CASE SkipEntry \/ CountFolder \/ PrintEntry \/ MoveFile \/ PullFails
        BY <3>1, <2>1, <2>3, EntryLeft, LeftMeaning
      <3>2. CASE LoseConnection \/ UNCHANGED vars
        <4>1. UNCHANGED <<op, items, pc, dir, cursor, rc>>
          BY <3>2 DEF LoseConnection, vars, call
        <4>2. StepLeft
          BY <4>1 DEF StepLeft, Status, Left, Behind, AtOne
        <4> QED BY <4>2, <2>1, LeftMeaning
      <3>3. ~OpenDir /\ ~ReadEntry /\ ~ReadNull /\ ~WaitForWriter /\ ~BreakOff /\ ~Report /\ ~CloseDir
        BY <2>3 DEF OpenDir, ReadEntry, ReadNull, WaitForWriter, BreakOff, Report, CloseDir
      <3> QED BY <3>1, <3>2, <3>3 DEF Next, Step
    <2> QED BY <2>2, <2>3
  <1> QED BY <1>1, <1>2, <1>3, <1>4, PTL DEF Spec, EveryItem, Items!Spec
=============================================================================
