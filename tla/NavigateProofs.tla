--------------------------- MODULE NavigateProofs ---------------------------
(***************************************************************************)
(* What holds of Navigate in every tree, whatever names are typed and      *)
(* however the tree changes.  Nothing is needed about how a path is        *)
(* followed but that the empty one leads nowhere else.                     *)
(***************************************************************************)
EXTENDS Navigate, SequenceTheorems, WellFoundedInduction, TLAPS

(* What has been opened is on the way to what will be the current path.    *)
OpenedAt == pc = "closedir" => \A q \in Heads(rdirpath) : Where(q) \in seen

IInv == TypeOK /\ OpenedAt /\ WasThere

-----------------------------------------------------------------------------

(* What every number's successor keeps holds of all numbers. *)
LEMMA Induct ==
    ASSUME NEW S, 0 \in S, \A n \in S \cap Nat : n + 1 \in S
    PROVE  Nat \subseteq S
  <1> SUFFICES ASSUME Nat \ S # {} PROVE FALSE
    OBVIOUS
  <1>1. PICK least \in Nat \ S : \A m \in Nat \ S : ~(<<m, least>> \in OpToRel(<, Nat))
    BY NatLessThanWellFounded, WFMin
  <1>2. least \in Nat /\ least \notin S /\ least - 1 \in Nat
    OBVIOUS
  <1>3. least - 1 \in S
    <2>1. least - 1 < least
      BY <1>2
    <2>2. <<least - 1, least>> \in OpToRel(<, Nat)
      BY <1>2, <2>1, SMT DEF OpToRel
    <2> QED BY <1>1, <1>2, <2>2, Zenon
  <1>4. (least - 1) + 1 = least
    BY <1>2
  <1> QED BY <1>2, <1>3, <1>4

(* A function that follows a path part by part is the one Where applies. *)
LEMMA WhereIs ==
    ASSUME NEW p \in Seq(STRING),
           NEW g, g = [n \in 0..Len(p) |-> IF n = 0 THEN Start ELSE Follow(g[n - 1], p[n])]
    PROVE  Where(p) = g[Len(p)]
  <1> DEFINE Solves(f) ==
        f = [n \in 0..Len(p) |-> IF n = 0 THEN Start ELSE Follow(f[n - 1], p[n])]
  <1> DEFINE at == CHOOSE f : Solves(f)
  <1>1. Solves(at)
    OBVIOUS
  <1>2. Len(p) \in Nat
    BY LenProperties
  <1>3. Where(p) = at[Len(p)]
    BY DEF Where
  <1> HIDE DEF at
  <1> DEFINE Same == {n \in Nat : n \in 0..Len(p) => at[n] = g[n]}
  <1>4. 0 \in Same
    BY <1>1, <1>2
  <1>5. ASSUME NEW n \in Same PROVE n + 1 \in Same
    <2>1. CASE n + 1 \in 0..Len(p)
      <3>1. n \in 0..Len(p) /\ n + 1 # 0 /\ (n + 1) - 1 = n /\ at[n] = g[n]
        BY <2>1, <1>2
      <3>2. at[n + 1] = Follow(at[n], p[n + 1]) /\ g[n + 1] = Follow(g[n], p[n + 1])
        BY <1>1, <2>1, <3>1
      <3> QED BY <3>1, <3>2
    <2> QED BY <2>1
  <1>6. Nat \subseteq Same
    <2> HIDE DEF Same
    <2> QED BY <1>4, <1>5, Induct
  <1> QED BY <1>2, <1>3, <1>6

LEMMA WhereEmpty == Where(<<>>) = Start
  <1> DEFINE g == [n \in 0..0 |-> Start]
  <1>1. <<>> \in Seq(STRING) /\ Len(<<>>) = 0
    BY EmptySeq
  <1>2. g = [n \in 0..Len(<<>>) |-> IF n = 0 THEN Start ELSE Follow(g[n - 1], <<>>[n])]
    BY <1>1
  <1>3. Where(<<>>) = g[Len(<<>>)]
    <2> HIDE DEF g
    <2> QED BY <1>1, <1>2, WhereIs
  <1> QED BY <1>1, <1>3

(* Cutting a path's last part off leaves a path one has been on. *)
LEMMA TrimHeads ==
    ASSUME NEW p \in Seq(STRING)
    PROVE  /\ Trim(p) \in Seq(STRING) /\ Len(Trim(p)) <= Len(p)
           /\ Heads(Trim(p)) \subseteq Heads(p)
  <1>1. CASE p = <<>>
    BY <1>1 DEF Trim
  <1>2. CASE p # <<>>
    <2>1. Len(p) \in Nat \ {0} /\ Len(p) - 1 \in 0..Len(p)
      BY <1>2, EmptySeq, LenProperties
    <2>2. Trim(p) = SubSeq(p, 1, Len(p) - 1)
      BY <1>2 DEF Trim, Front
    <2>3. Trim(p) \in Seq(STRING) /\ Len(Trim(p)) = Len(p) - 1
      <3> DEFINE k == Len(p) - 1
      <3>1. k \in Nat /\ k <= Len(p) /\ 1 \in 1..(Len(p) + 1) /\ k \in (1 - 1)..Len(p)
        BY <2>1
      <3> HIDE DEF k
      <3>2. SubSeq(p, 1, k) \in Seq(STRING)
        BY <3>1, SubSeqProperties
      <3>3. Len(SubSeq(p, 1, k)) = k
        BY <3>1
      <3> QED BY <2>2, <3>2, <3>3 DEF k
    <2>4. ASSUME NEW n \in 0..Len(Trim(p))
          PROVE  n \in 0..Len(p) /\ SubSeq(Trim(p), 1, n) = SubSeq(p, 1, n)
      <3>1. n \in 0..(Len(p) - 1)
        BY <2>3, <2>4
      <3> QED BY <3>1, <2>1, <2>2
    <2> QED BY <2>1, <2>3, <2>4 DEF Heads
  <1> QED BY <1>1, <1>2

LEMMA InitHolds == ASSUME Init PROVE IInv
  <1> USE TreeAssumption, UsersAssumption DEF Init
  <1>1. <<>> \in Seq(STRING) /\ Len(<<>>) = 0
    BY EmptySeq
  <1>2. TypeOK
    BY <1>1 DEF TypeOK
  <1>3. Heads(<<>>) = {<<>>}
    <2>1. 0..Len(<<>>) = {0} /\ SubSeq(<<>>, 1, 0) = <<>>
      BY <1>1
    <2> QED BY <2>1 DEF Heads
  <1>4. WasThere
    BY <1>3, WhereEmpty DEF WasThere
  <1> QED BY <1>2, <1>4 DEF IInv, OpenedAt

LEMMA ChangeKeeps == ASSUME IInv, ChangeDirectory PROVE IInv'
  <1> USE DEF IInv
  <1>1. PICK n \in names :
           /\ name' = n
           /\ \/ path' = Trim(path) /\ rc' = SSH_OK /\ UNCHANGED <<pc, rdirpath>>
              \/ /\ Len(path) + Len(n) <= MaxParts
                 /\ rdirpath' = path \o n /\ pc' = "opendir" /\ UNCHANGED <<path, rc>>
    BY DEF ChangeDirectory
  <1>2. n \in Seq(STRING) /\ path \in Seq(STRING) /\ pc = "menu"
    BY UsersAssumption DEF TypeOK, ChangeDirectory
  <1>3. UNCHANGED <<side, names, up, dirs, seen>>
    BY DEF ChangeDirectory
  <1>4. CASE path' = Trim(path) /\ rc' = SSH_OK /\ UNCHANGED <<pc, rdirpath>>
    <2>1. Len(path') \in 0..MaxParts /\ path' \in Seq(STRING)
      <3>1. Trim(path) \in Seq(STRING) /\ Len(Trim(path)) <= Len(path)
        BY <1>2, TrimHeads
      <3>2. Len(Trim(path)) \in Nat /\ Len(path) \in 0..MaxParts
        BY <3>1, LenProperties DEF TypeOK
      <3> QED BY <1>4, <3>1, <3>2, UsersAssumption
    <2>2. TypeOK'
      BY <1>1, <1>3, <1>4, <2>1 DEF TypeOK
    <2>3. Heads(path') \subseteq Heads(path)
      BY <1>2, <1>4, TrimHeads
    <2>4. WasThere'
      <3>1. \A q : Where(q)' = Where(q)
        BY DEF Where
      <3> QED BY <1>3, <2>3, <3>1 DEF WasThere
    <2> QED BY <1>2, <1>4, <2>2, <2>4 DEF OpenedAt
  <1>5. CASE /\ Len(path) + Len(n) <= MaxParts
             /\ rdirpath' = path \o n /\ pc' = "opendir" /\ UNCHANGED <<path, rc>>
    <2>1. rdirpath' \in Seq(STRING) /\ Len(rdirpath') = Len(path) + Len(n)
      BY <1>2, <1>5, ConcatProperties
    <2>2. Len(rdirpath') \in 0..MaxParts
      BY <1>2, <1>5, <2>1, LenProperties, UsersAssumption
    <2>3. TypeOK'
      BY <1>1, <1>3, <1>5, <2>1, <2>2 DEF TypeOK
    <2> QED BY <1>3, <1>5, <2>3 DEF OpenedAt, WasThere
  <1> QED BY <1>1, <1>4, <1>5

LEMMA OpenKeeps == ASSUME IInv, OpenDir PROVE IInv'
  <1> USE DEF IInv
  <1>1. UNCHANGED <<side, names, up, dirs, path, name, rdirpath>>
    BY DEF OpenDir
  <1>2. CASE /\ Exists(rdirpath)
             /\ seen' = seen \cup {Where(q) : q \in Heads(rdirpath)}
             /\ pc' = "closedir" /\ UNCHANGED rc
    <2>1. seen' \subseteq Tree
      BY <1>2 DEF Exists, TypeOK
    <2>2. TypeOK'
      BY <1>1, <1>2, <2>1 DEF TypeOK
    <2> QED BY <1>1, <1>2, <2>2 DEF OpenedAt, WasThere
  <1>3. CASE Return(Failure) /\ UNCHANGED seen
    BY <1>1, <1>3 DEF Return, Failure, TypeOK, OpenedAt, WasThere
  <1> QED BY <1>2, <1>3 DEF OpenDir

LEMMA CloseKeeps == ASSUME IInv, CloseDir PROVE IInv'
  <1> USE DEF IInv
  <1>1. UNCHANGED <<side, names, up, dirs, name, rdirpath, seen>> /\ pc = "closedir"
    BY DEF CloseDir
  <1>2. CASE path' = rdirpath /\ Return(SSH_OK)
    BY <1>1, <1>2 DEF Return, TypeOK, OpenedAt, WasThere
  <1>3. CASE Return(Failure) /\ UNCHANGED path
    BY <1>1, <1>3 DEF Return, Failure, TypeOK, OpenedAt, WasThere
  <1> QED BY <1>2, <1>3 DEF CloseDir

LEMMA StepKeeps == ASSUME IInv, [Next]_vars PROVE IInv'
  <1> USE DEF IInv
  <1>1. CASE TreeChanges
    <2>1. dirs' \subseteq Tree
      BY <1>1 DEF TreeChanges, TypeOK
    <2> QED BY <1>1, <2>1 DEF TreeChanges, TypeOK, OpenedAt, WasThere
  <1>2. CASE LoseConnection
    BY <1>2 DEF LoseConnection, TypeOK, OpenedAt, WasThere
  <1>3. CASE UNCHANGED vars
    BY <1>3 DEF vars, TypeOK, OpenedAt, WasThere
  <1> QED BY <1>1, <1>2, <1>3, ChangeKeeps, OpenKeeps, CloseKeeps DEF Next

LEMMA Inductive == Spec => []IInv
  BY InitHolds, StepKeeps, PTL DEF Spec

-----------------------------------------------------------------------------

(* Whatever names are typed, the two paths stay within their bound.        *)
THEOREM TypeCorrect == Spec => []TypeOK
  BY Inductive, PTL DEF IInv

(* However long the session, every directory above the current path was    *)
(* there when it was entered.                                              *)
THEOREM BeenThere == Spec => []WasThere
  BY Inductive, PTL DEF IInv

-----------------------------------------------------------------------------

(* For a Plain user the two paths are made of names, and the one that is   *)
(* to be checked goes one name down from the current one.                  *)
Names(p) == p \in Seq(STRING \ Dots)
PathsAt ==
    /\ Names(path)
    /\ pc # "menu" =>
          /\ Names(rdirpath) /\ rdirpath # <<>>
          /\ path = Front(rdirpath)

WalkInv == IInv /\ (Plain => PathsAt)

(* A path of names leads down from the start. *)
LEMMA WhereNames ==
    ASSUME NEW p, Names(p) PROVE Where(p) = Start \o p
  <1> DEFINE g == [n \in 0..Len(p) |-> Start \o SubSeq(p, 1, n)]
  <1>1. Len(p) \in Nat /\ p \in Seq(STRING) /\ Start \in Seq(STRING)
    BY LenProperties, SeqMonotonic, TreeAssumption DEF Names
  <1>2. ASSUME NEW n \in 0..Len(p)
        PROVE  g[n] = IF n = 0 THEN Start ELSE Follow(g[n - 1], p[n])
    <2>1. CASE n = 0
      <3>1. SubSeq(p, 1, 0) = <<>>
        OBVIOUS
      <3>2. Start \o <<>> = Start
        BY <1>1, ConcatEmptySeq
      <3> QED BY <2>1, <1>2, <3>1, <3>2
    <2>2. CASE n # 0
      <3>1. n \in 1..Len(p) /\ n - 1 \in 0..Len(p) /\ n \in Nat
        BY <1>1, <2>2
      <3>2. p[n] \notin Dots
        BY <3>1, ElementOfSeq DEF Names
      <3>3. SubSeq(p, 1, n) = Append(SubSeq(p, 1, n - 1), p[n])
        BY <1>1, <3>1
      <3>4. SubSeq(p, 1, n - 1) \in Seq(STRING)
        BY <1>1, <3>1, SubSeqProperties
      <3>5. Start \o Append(SubSeq(p, 1, n - 1), p[n]) = Append(Start \o SubSeq(p, 1, n - 1), p[n])
        BY <1>1, <3>4
      <3>6. Follow(g[n - 1], p[n]) = Append(g[n - 1], p[n])
        BY <3>2 DEF Follow, Dots
      <3> QED BY <2>2, <3>1, <3>3, <3>5, <3>6
    <2> QED BY <2>1, <2>2
  <1>3. g = [n \in 0..Len(p) |-> IF n = 0 THEN Start ELSE Follow(g[n - 1], p[n])]
    <2>1. \A n \in 0..Len(p) : g[n] = IF n = 0 THEN Start ELSE Follow(g[n - 1], p[n])
      BY <1>2
    <2>2. g = [n \in 0..Len(p) |-> g[n]]
      OBVIOUS
    <2> HIDE DEF g
    <2> QED BY <2>1, <2>2
  <1>4. Where(p) = g[Len(p)]
    <2> HIDE DEF g
    <2> QED BY <1>1, <1>3, WhereIs
  <1>5. SubSeq(p, 1, Len(p)) = p
    BY <1>1
  <1> QED BY <1>1, <1>4, <1>5

LEMMA FrontNames ==
    ASSUME NEW p, Names(p), p # <<>>
    PROVE  /\ Names(Front(p)) /\ Trim(p) = Front(p)
           /\ Where(Front(p)) = Front(Where(p)) /\ Where(p) # Start
  <1>1. Len(p) \in Nat \ {0} /\ p \in Seq(STRING) /\ Start \in Seq(STRING) /\ Len(Start) \in Nat
    BY LenProperties, EmptySeq, SeqMonotonic, TreeAssumption DEF Names
  <1>2. Names(Front(p)) /\ Front(p) = SubSeq(p, 1, Len(p) - 1)
    <2>1. Len(p) - 1 \in Nat /\ \A i \in 1..(Len(p) - 1) : p[i] \in STRING \ Dots
      BY <1>1, ElementOfSeq DEF Names
    <2>2. SubSeq(p, 1, Len(p) - 1) \in Seq(STRING \ Dots)
      BY <1>1, <2>1, SubSeqProperties DEF Names
    <2> QED BY <2>2 DEF Names, Front
  <1>3. Where(p) = Start \o p /\ Where(Front(p)) = Start \o Front(p)
    BY <1>2, WhereNames
  <1>4. Len(Start \o p) = Len(Start) + Len(p)
    BY <1>1
  <1>5. Front(Start \o p) = Start \o Front(p)
    <2>1. Front(Start \o p) = SubSeq(Start \o p, 1, (Len(Start) + Len(p)) - 1)
      BY <1>4 DEF Front
    <2> QED BY <1>1, <1>2, <2>1
  <1>6. Start \o p # Start
    BY <1>1, <1>4
  <1> QED BY <1>2, <1>3, <1>5, <1>6 DEF Trim

(* A name is a path of one part. *)
LEMMA OnePart ==
    ASSUME NEW T, NEW s \in Seq(T), NEW n \in Seq(T), Len(n) = 1
    PROVE  n[1] \in T /\ n = <<n[1]>> /\ s \o n = Append(s, n[1])
  <1>1. n[1] \in T
    <2>1. 1 \in 1..Len(n)
      OBVIOUS
    <2> QED BY <2>1, ElementOfSeq
  <1>2. n = <<n[1]>>
    <2> DEFINE x == n[1]
    <2>1. <<x>> \in Seq(T) /\ Len(<<x>>) = 1 /\ <<x>>[1] = x
      BY <1>1
    <2>2. \A i \in 1..Len(n) : n[i] = <<x>>[i]
      BY <2>1
    <2> HIDE DEF x
    <2> QED BY <2>1, <2>2, SeqEqual DEF x
  <1>3. s \o n = Append(s, n[1])
    <2>1. s \o n \in Seq(T) /\ Len(s \o n) = Len(s) + 1 /\ Len(s) \in Nat
      <3>1. s \o n \in Seq(T) /\ Len(s \o n) = Len(s) + Len(n)
        BY ConcatProperties
      <3>2. Len(s) \in Nat
        BY LenProperties
      <3> QED BY <3>1, <3>2
    <2>2. Append(s, n[1]) \in Seq(T) /\ Len(Append(s, n[1])) = Len(s) + 1
      BY <1>1, AppendProperties
    <2>3. ASSUME NEW i \in 1..(Len(s) + 1) PROVE (s \o n)[i] = Append(s, n[1])[i]
      BY <2>1
    <2> QED BY <2>1, <2>2, <2>3, SeqEqual
  <1> QED BY <1>1, <1>2, <1>3

LEMMA StepPaths == ASSUME WalkInv, Plain, [Next]_vars PROVE PathsAt'
  <1> USE DEF WalkInv, PathsAt
  <1>1. CASE ChangeDirectory
    <2>1. PICK n \in names :
             \/ n = <<"..">> /\ path' = Trim(path) /\ UNCHANGED <<pc, rdirpath>>
             \/ /\ n # <<"..">>
                /\ rdirpath' = path \o n /\ pc' = "opendir" /\ UNCHANGED path
      BY <1>1 DEF ChangeDirectory
    <2>2. n \in Seq(STRING) /\ Len(n) = 1 /\ n[1] \notin {"", "."} /\ pc = "menu"
      BY <1>1, UsersAssumption DEF ChangeDirectory, Plain, IInv, TypeOK
    <2>3. CASE path' = Trim(path) /\ UNCHANGED <<pc, rdirpath>>
      <3>1. CASE path = <<>>
        BY <2>2, <2>3, <3>1 DEF Trim
      <3>2. CASE path # <<>>
        BY <2>2, <2>3, <3>2, FrontNames
      <3> QED BY <3>1, <3>2
    <2>4. CASE n # <<"..">> /\ rdirpath' = path \o n /\ UNCHANGED path
      <3>1. n = <<n[1]>> /\ n[1] \in STRING /\ path \o n = Append(path, n[1])
        <4>1. path \in Seq(STRING)
          BY DEF IInv, TypeOK
        <4> HIDE DEF WalkInv, PathsAt
        <4> QED BY <2>2, <4>1, OnePart
      <3>2. n[1] # ".."
        BY <2>4, <3>1
      <3>3. n[1] \in STRING \ Dots
        BY <2>2, <3>1, <3>2 DEF Dots
      <3> HIDE DEF PathsAt
      <3>4. path \in Seq(STRING \ Dots)
        BY DEF PathsAt, Names
      <3>5. rdirpath' = Append(path, n[1])
        BY <2>4, <3>1
      <3>6. /\ Append(path, n[1]) \in Seq(STRING \ Dots)
            /\ Append(path, n[1]) # <<>> /\ Front(Append(path, n[1])) = path
        BY <3>3, <3>4, AppendProperties DEF Front
      <3> QED BY <2>4, <3>4, <3>5, <3>6 DEF PathsAt, Names
    <2> QED BY <2>1, <2>3, <2>4
  <1>2. CASE OpenDir
    BY <1>2 DEF OpenDir, Return
  <1>3. CASE CloseDir
    BY <1>3 DEF CloseDir, Return
  <1>4. CASE TreeChanges \/ LoseConnection
    BY <1>4 DEF TreeChanges, LoseConnection
  <1>5. CASE UNCHANGED vars
    BY <1>5 DEF vars
  <1> QED BY <1>1, <1>2, <1>3, <1>4, <1>5 DEF Next

-----------------------------------------------------------------------------

(* What Walk is told, and its steps as they are instantiated. *)
At == IF Plain THEN Where(path) ELSE Start
Answer == IF rc = SSH_OK THEN "moved" ELSE "failed"
StayAt == At' = At
DownAt == Answer' = "moved" /\ \E d \in seen' : Front(d) = At /\ At' = d
UpAt == Answer' = "moved" /\ At # Start /\ At' = Front(At)

LEMMA WalkMeaning ==
    ASSUME seen \subseteq seen', StayAt \/ DownAt \/ UpAt
    PROVE  Walking!Next
  BY DEF Walking!Next, Walking!Stay, Walking!Down, Walking!Up, Walking!Front, Front,
         StayAt, DownAt, UpAt, At, Answer

LEMMA PlainStays == ASSUME [Next]_vars PROVE Plain' = Plain
  BY DEF Next, ChangeDirectory, OpenDir, CloseDir, TreeChanges, LoseConnection, vars, Plain

LEMMA ChangeWalks ==
    ASSUME WalkInv, Plain, ChangeDirectory PROVE StayAt \/ UpAt
  <1>1. \/ path' = Trim(path) /\ rc' = SSH_OK
        \/ UNCHANGED path
    BY DEF ChangeDirectory
  <1>2. Plain' = Plain
    BY DEF ChangeDirectory, Plain
  <1>3. CASE UNCHANGED path
    BY <1>2, <1>3 DEF StayAt, At, Where
  <1>4. CASE path' = Trim(path) /\ rc' = SSH_OK
    <2>1. CASE path = <<>>
      BY <1>2, <1>4, <2>1 DEF StayAt, At, Where, Trim
    <2>2. CASE path # <<>>
      <3>1. Where(path') = Front(Where(path)) /\ Where(path) # Start
        BY <1>4, <2>2, FrontNames DEF WalkInv, PathsAt
      <3>2. At = Where(path) /\ At' = Where(path')
        BY <1>2 DEF At, Where
      <3> QED BY <1>4, <3>1, <3>2 DEF UpAt, Answer
    <2> QED BY <2>1, <2>2
  <1> QED BY <1>1, <1>3, <1>4

LEMMA CloseWalks ==
    ASSUME WalkInv, Plain, CloseDir PROVE StayAt \/ DownAt
  <1>1. \/ path' = rdirpath /\ rc' = SSH_OK
        \/ UNCHANGED path
    BY DEF CloseDir, Return
  <1>2. Plain' = Plain /\ UNCHANGED seen
    BY DEF CloseDir, Plain
  <1>3. CASE UNCHANGED path
    BY <1>2, <1>3 DEF StayAt, At, Where
  <1>4. CASE path' = rdirpath /\ rc' = SSH_OK
    <2>1. /\ Names(rdirpath) /\ rdirpath # <<>> /\ path = Front(rdirpath)
          /\ pc = "closedir"
      BY DEF WalkInv, PathsAt, CloseDir
    <2>2. Where(path) = Front(Where(rdirpath))
      BY <2>1, FrontNames
    <2>3. Where(rdirpath) \in seen
      <3>1. Len(rdirpath) \in Nat /\ SubSeq(rdirpath, 1, Len(rdirpath)) = rdirpath
        BY <2>1, LenProperties DEF Names
      <3>2. rdirpath \in Heads(rdirpath)
        <4>1. Len(rdirpath) \in 0..Len(rdirpath)
          BY <3>1
        <4> QED BY <3>1, <4>1 DEF Heads
      <3> QED BY <2>1, <3>2 DEF WalkInv, IInv, OpenedAt
    <2>4. At = Where(path) /\ At' = Where(rdirpath)
      BY <1>2, <1>4 DEF At, Where
    <2> QED BY <1>2, <1>4, <2>2, <2>3, <2>4 DEF DownAt, Answer
  <1> QED BY <1>1, <1>3, <1>4

LEMMA StepWalks ==
    ASSUME WalkInv, [Next]_vars PROVE [Walking!Next]_(Walking!vars)
  <1>1. Plain' = Plain
    BY PlainStays
  <1>2. CASE ~Plain
    <2>1. StayAt /\ seen \subseteq seen'
      BY <1>1, <1>2 DEF StayAt, At, Next, ChangeDirectory, OpenDir, CloseDir,
                       TreeChanges, LoseConnection, vars
    <2> QED BY <2>1, WalkMeaning
  <1>3. CASE Plain
    <2>1. CASE ChangeDirectory
      <3>1. seen' = seen
        BY <2>1 DEF ChangeDirectory
      <3> QED BY <1>3, <2>1, <3>1, ChangeWalks, WalkMeaning
    <2>2. CASE CloseDir
      <3>1. seen' = seen
        BY <2>2 DEF CloseDir
      <3> QED BY <1>3, <2>2, <3>1, CloseWalks, WalkMeaning
    <2>3. CASE OpenDir \/ TreeChanges \/ LoseConnection \/ UNCHANGED vars
      <3>1. UNCHANGED path /\ seen \subseteq seen'
        BY <2>3 DEF OpenDir, TreeChanges, LoseConnection, vars
      <3>2. StayAt
        BY <1>1, <3>1 DEF StayAt, At, Where
      <3> QED BY <3>1, <3>2, WalkMeaning
    <2> QED BY <2>1, <2>2, <2>3 DEF Next
  <1> QED BY <1>2, <1>3

(* For a Plain user both changes of directory implement Walk, in every     *)
(* tree and however it changes: no step leads above the start or into a    *)
(* directory that was not there, and whoever is told "failed" stays.       *)
THEOREM ImplementsWalk == Spec => WalkSpec
  <1>1. Init => WalkInv
    <2>1. Names(<<>>)
      BY EmptySeq DEF Names
    <2> QED BY <2>1, InitHolds DEF Init, WalkInv, PathsAt
  <1>2. WalkInv /\ [Next]_vars => WalkInv'
    BY StepKeeps, StepPaths, PlainStays DEF WalkInv
  <1>3. Init => Walking!Init
    BY WhereEmpty DEF Init, Walking!Init
  <1>4. WalkInv /\ [Next]_vars => [Walking!Next]_(Walking!vars)
    BY StepWalks
  <1> QED BY <1>1, <1>2, <1>3, <1>4, PTL DEF Spec, WalkSpec, Walking!Spec
=============================================================================
