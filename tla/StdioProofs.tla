---------------------------- MODULE StdioProofs ----------------------------
(***************************************************************************)
(* What the calls that read standard input find, for every sequence of     *)
(* words, blanks and ends of line; that typing more does not change it;    *)
(* and which line it stands on.                                            *)
(***************************************************************************)
EXTENDS Stdio, SequenceTheorems, FiniteSetTheorems, WellFoundedInduction, TLAPS

LEMMA MinFacts ==
    ASSUME NEW S, S \subseteq Nat, S # {}
    PROVE  Min(S) \in S /\ \A m \in S : Min(S) <= m
<1>1. PICK least \in S : \A m \in S : ~(<<m, least>> \in OpToRel(<, Nat))
  BY NatLessThanWellFounded, WFMin
<1>2. ASSUME NEW m \in S PROVE least <= m
  <2>1. least \in Nat /\ m \in Nat
    OBVIOUS
  <2>2. ~(m < least)
    <3>1. <<m, least>> \in OpToRel(<, Nat) <=> m < least
      BY <2>1, SMT DEF OpToRel
    <3> QED BY <1>1, <3>1, Zenon
  <2> QED BY <2>1, <2>2
<1> QED BY <1>2 DEF Min

-----------------------------------------------------------------------------

(* w is the first word after the first k things typed. *)
FirstWord(s, k, w) ==
    /\ w \in (k + 1)..Len(s) /\ s[w] \notin White
    /\ \A i \in (k + 1)..(w - 1) : s[i] \in White

(* e is where fgets stops when the first k things have been read. *)
Stop(s, i) == s[i] = NL \/ s[i] \in LongWord
FirstStop(s, k, e) ==
    /\ e \in (k + 1)..Len(s)
    /\ \A i \in (k + 1)..(e - 1) : ~Stop(s, i)

(* What was typed ends with the end of a line. *)
Ended(s) == s # <<>> => s[Len(s)] = NL

(* More has been typed. *)
Extends(s, t) == Len(s) <= Len(t) /\ \A i \in 1..Len(s) : t[i] = s[i]

(* scanf skips to the next word, if there is one. *)
LEMMA NextWordFacts ==
    ASSUME NEW T, NEW s \in Seq(T), NEW k \in 0..Len(s)
    PROVE  /\ HasWord(s, k) => FirstWord(s, k, NextWord(s, k))
           /\ HasWord(s, k) <=> \E i \in (k + 1)..Len(s) : s[i] \notin White
<1>1. Len(s) \in Nat
  BY LenProperties
<1>2. ASSUME HasWord(s, k) PROVE FirstWord(s, k, NextWord(s, k))
  <2> DEFINE W == WordsLeft(s, k)
             w == NextWord(s, k)
  <2>1. W \subseteq Nat /\ W # {}
    BY <1>1, <1>2 DEF HasWord, WordsLeft
  <2>2. w \in W /\ \A m \in W : w <= m
    BY <2>1, MinFacts DEF NextWord
  <2>3. w \in (k + 1)..Len(s) /\ s[w] \notin White
    BY <2>2 DEF WordsLeft
  <2>4. ASSUME NEW i \in (k + 1)..(w - 1) PROVE s[i] \in White
    <3>1. i \in (k + 1)..Len(s) /\ ~(w <= i)
      BY <1>1, <2>3
    <3> QED BY <2>2, <3>1 DEF WordsLeft
  <2> QED BY <2>3, <2>4 DEF FirstWord
<1> QED BY <1>2 DEF HasWord, WordsLeft

(* There is only one next word. *)
LEMMA FirstWordIsNext ==
    ASSUME NEW T, NEW s \in Seq(T), NEW k \in 0..Len(s), NEW w, FirstWord(s, k, w)
    PROVE  HasWord(s, k) /\ NextWord(s, k) = w
<1>1. Len(s) \in Nat /\ w \in (k + 1)..Len(s) /\ s[w] \notin White
  BY LenProperties DEF FirstWord
<1>2. HasWord(s, k)
  BY <1>1, NextWordFacts
<1>3. FirstWord(s, k, NextWord(s, k))
  BY <1>2, NextWordFacts
<1> DEFINE v == NextWord(s, k)
<1>4. v \in (k + 1)..Len(s) /\ s[v] \notin White
  BY <1>3 DEF FirstWord
<1>5. ~(v \in (k + 1)..(w - 1)) /\ ~(w \in (k + 1)..(v - 1))
  BY <1>1, <1>3, <1>4 DEF FirstWord
<1> HIDE DEF v
<1>6. v = w
  BY <1>1, <1>4, <1>5
<1> QED BY <1>2, <1>6 DEF v

(* A stretch that begins with a word has a last word. *)
LEMMA LastWord ==
    ASSUME NEW s, NEW a \in Nat, NEW b \in Nat, a <= b, s[a] \notin White
    PROVE  \E i \in a..b : /\ s[i] \notin White
                          /\ \A j \in (i + 1)..b : s[j] \in White
<1> DEFINE I == {k \in a..b : \A j \in (k + 1)..b : s[j] \in White}
<1>1. I \subseteq Nat /\ b \in I
  OBVIOUS
<1>2. PICK i \in I : \A m \in I : i <= m
  <2> HIDE DEF I
  <2> QED BY <1>1, MinFacts
<1>3. CASE i = a
  BY <1>2, <1>3
<1>4. CASE i # a
  <2>1. i - 1 \in a..b /\ i - 1 \notin I
    BY <1>2, <1>4
  <2>2. PICK j \in (i - 1 + 1)..b : s[j] \notin White
    BY <2>1
  <2>3. j = i
    BY <1>2, <2>2
  <2> QED BY <1>2, <2>2, <2>3
<1> QED BY <1>3, <1>4

(* fgets reads something if there is something, and stops at the end of a  *)
(* line, after a word that fills its buffer, or where the input ends.      *)
LEMMA LineEndFacts ==
    ASSUME NEW T, NEW s \in Seq(T), NEW k \in 0..Len(s), k < Len(s)
    PROVE  /\ FirstStop(s, k, LineEnd(s, k))
           /\ Stop(s, LineEnd(s, k)) \/ LineEnd(s, k) = Len(s)
<1> DEFINE stops == {i \in (k + 1)..Len(s) : s[i] = NL \/ s[i] \in LongWord}
           e == LineEnd(s, k)
<1>1. Len(s) \in Nat /\ stops \subseteq Nat
  BY LenProperties
<1>2. e = IF stops = {} THEN Len(s) ELSE Min(stops)
  BY DEF LineEnd
<1>3. CASE stops = {}
  <2>1. e = Len(s) /\ \A i \in (k + 1)..Len(s) : ~Stop(s, i)
    BY <1>2, <1>3 DEF Stop
  <2> HIDE DEF e
  <2>2. e \in (k + 1)..Len(s) /\ \A i \in (k + 1)..(e - 1) : i \in (k + 1)..Len(s)
    BY <1>1, <2>1
  <2> QED BY <2>1, <2>2 DEF FirstStop, e
<1>4. CASE stops # {}
  <2>1. e \in stops /\ \A m \in stops : e <= m
    <3> HIDE DEF stops
    <3> QED BY <1>1, <1>2, <1>4, MinFacts
  <2> HIDE DEF e
  <2>2. e \in (k + 1)..Len(s) /\ Stop(s, e)
    BY <2>1 DEF Stop
  <2>3. ASSUME NEW i \in (k + 1)..(e - 1) PROVE ~Stop(s, i)
    <3>1. i \in (k + 1)..Len(s) /\ ~(e <= i)
      BY <1>1, <2>2
    <3> QED BY <2>1, <3>1 DEF Stop
  <2> QED BY <2>2, <2>3 DEF FirstStop, e
<1> QED BY <1>3, <1>4

(* The rest of a line goes from its next word to its end. *)
LEMMA RestEndFacts ==
    ASSUME NEW T, NEW s \in Seq(T), NEW k \in 0..Len(s), HasWord(s, k),
           s[NextWord(s, k)] # NL
    PROVE  /\ RestEnd(s, k) \in NextWord(s, k)..Len(s)
           /\ \A i \in NextWord(s, k)..RestEnd(s, k) : s[i] # NL
           /\ RestEnd(s, k) < Len(s) => s[RestEnd(s, k) + 1] = NL
<1> DEFINE w == NextWord(s, k)
           e == RestEnd(s, k)
           ends == {i \in (w + 1)..Len(s) : s[i] = NL}
<1>1. Len(s) \in Nat /\ w \in (k + 1)..Len(s)
  BY LenProperties, NextWordFacts DEF FirstWord
<1>2. e = IF ends = {} THEN Len(s) ELSE Min(ends) - 1
  BY DEF RestEnd
<1>3. CASE ends = {}
  <2>1. e = Len(s) /\ \A i \in (w + 1)..Len(s) : s[i] # NL
    BY <1>2, <1>3
  <2>2. s[w] # NL
    OBVIOUS
  <2> HIDE DEF e, w
  <2> QED BY <1>1, <2>1, <2>2 DEF e, w
<1>4. CASE ends # {}
  <2> DEFINE m == Min(ends)
  <2>1. m \in ends /\ \A i \in ends : m <= i
    <3>1. ends \subseteq Nat
      BY <1>1
    <3> HIDE DEF ends
    <3> QED BY <1>4, <3>1, MinFacts
  <2>2. e = m - 1 /\ m \in (w + 1)..Len(s) /\ s[m] = NL
    BY <1>2, <1>4, <2>1
  <2>3. \A i \in (w + 1)..Len(s) : s[i] = NL => m <= i
    BY <2>1
  <2>4. s[w] # NL
    OBVIOUS
  <2> HIDE DEF e, w, m
  <2> QED BY <1>1, <2>2, <2>3, <2>4 DEF e, w
<1> QED BY <1>3, <1>4

-----------------------------------------------------------------------------

(* What is typed later leaves what was typed where it is. *)
LEMMA TypedFacts ==
    ASSUME NEW T, NL \in T, NEW s \in Seq(T), NEW line \in Seq(T)
    PROVE  /\ s \o line \in Seq(T) /\ Extends(s, s \o line)
           /\ s \o Append(line, NL) \in Seq(T) /\ Extends(s, s \o Append(line, NL))
           /\ Ended(s \o Append(line, NL))
<1>1. ASSUME NEW u \in Seq(T) PROVE s \o u \in Seq(T) /\ Extends(s, s \o u)
  <2>1. Len(s) \in Nat /\ Len(u) \in Nat
    BY LenProperties
  <2>2. s \o u \in Seq(T) /\ Len(s \o u) = Len(s) + Len(u)
    BY ConcatProperties
  <2>3. \A i \in 1..Len(s) : (s \o u)[i] = s[i]
    BY <2>1
  <2> QED BY <2>1, <2>2, <2>3 DEF Extends
<1> DEFINE u == Append(line, NL)
<1>2. u \in Seq(T) /\ Len(u) = Len(line) + 1 /\ u[Len(line) + 1] = NL
  BY AppendProperties
<1>3. Ended(s \o u)
  <2>1. Len(s) \in Nat /\ Len(line) \in Nat /\ Len(u) \in Nat
    BY <1>2, LenProperties
  <2> HIDE DEF u
  <2>2. Len(s \o u) = Len(s) + Len(u)
    BY <1>2, ConcatProperties
  <2>3. (s \o u)[Len(s) + Len(u)] = u[Len(u)]
    BY <1>2, <2>1
  <2> QED BY <1>2, <2>1, <2>2, <2>3 DEF Ended
<1> QED BY <1>1, <1>2, <1>3

LEMMA ExtendsFacts ==
    ASSUME NEW T, NEW s \in Seq(T), NEW t \in Seq(T), Extends(s, t),
           NEW k \in Nat
    PROVE  /\ \A w : FirstWord(s, k, w) => FirstWord(t, k, w)
           /\ \A e : FirstStop(s, k, e) => FirstStop(t, k, e)
<1>1. Len(s) \in Nat /\ Len(t) \in Nat /\ Len(s) <= Len(t)
  BY LenProperties DEF Extends
<1>2. ASSUME NEW e \in (k + 1)..Len(s), NEW i \in (k + 1)..e PROVE t[i] = s[i]
  <2>1. i \in 1..Len(s)
    BY <1>1
  <2> QED BY <2>1 DEF Extends
<1>3. ASSUME NEW e \in (k + 1)..Len(s)
      PROVE  e \in (k + 1)..Len(t) /\ e \in (k + 1)..e
             /\ \A i \in (k + 1)..(e - 1) : i \in (k + 1)..e
  BY <1>1
<1>4. ASSUME NEW w, FirstWord(s, k, w) PROVE FirstWord(t, k, w)
  <2>1. w \in (k + 1)..Len(s)
    BY <1>4 DEF FirstWord
  <2> QED BY <1>2, <1>3, <1>4, <2>1 DEF FirstWord
<1>5. ASSUME NEW e, FirstStop(s, k, e) PROVE FirstStop(t, k, e)
  <2>1. e \in (k + 1)..Len(s)
    BY <1>5 DEF FirstStop
  <2> QED BY <1>2, <1>3, <1>5, <2>1 DEF FirstStop, Stop
<1> QED BY <1>4, <1>5

-----------------------------------------------------------------------------

(* Lines are counted by their ends. *)
LEMMA EndsFinite ==
    ASSUME NEW s, NEW i \in Int PROVE IsFiniteSet(EndsBefore(s, i)) /\ Line(s, i) \in Nat
<1>1. i - 1 \in Int /\ IsFiniteSet(1..(i - 1))
  BY FS_Interval
<1>2. EndsBefore(s, i) \in SUBSET (1..(i - 1))
  BY DEF EndsBefore
<1>3. IsFiniteSet(EndsBefore(s, i))
  BY <1>1, <1>2, FS_Subset
<1> QED BY <1>3, FS_CardinalityType DEF Line

(* A stretch without an end of line is on one line. *)
LEMMA OneLineOn ==
    ASSUME NEW s, NEW i \in Nat \ {0}, NEW j \in Nat, i <= j,
           \A k \in i..(j - 1) : s[k] # NL
    PROVE  Line(s, j) = Line(s, i)
<1>1. EndsBefore(s, j) = EndsBefore(s, i)
  BY DEF EndsBefore
<1> QED BY <1>1 DEF Line

(* A stretch with one end of line leads to the next line. *)
LEMMA NextLine ==
    ASSUME NEW s, NEW i \in Nat \ {0}, NEW j \in Nat, i <= j,
           NEW m \in i..(j - 1), s[m] = NL,
           \A k \in i..(j - 1) : s[k] = NL => k = m
    PROVE  Line(s, j) = Line(s, i) + 1
<1>1. EndsBefore(s, j) = EndsBefore(s, i) \cup {m} /\ m \notin EndsBefore(s, i)
  BY DEF EndsBefore
<1>2. Cardinality(EndsBefore(s, j)) = Cardinality(EndsBefore(s, i)) + 1
  <2>1. IsFiniteSet(EndsBefore(s, i))
    BY EndsFinite
  <2> DEFINE S == EndsBefore(s, i)
  <2>2. Cardinality(S \cup {m}) = IF m \in S THEN Cardinality(S) ELSE Cardinality(S) + 1
    <3> HIDE DEF S
    <3> QED BY <2>1, FS_AddElement DEF S
  <2> QED BY <1>1, <2>2
<1> QED BY <1>2, EndsFinite, FS_CardinalityType DEF Line

LEMMA LaterLine ==
    ASSUME NEW s, NEW i \in Nat \ {0}, NEW j \in Nat, i <= j
    PROVE  /\ Line(s, i) <= Line(s, j)
           /\ \A m \in i..(j - 1) : s[m] = NL =>
                 Line(s, i) <= Line(s, m) /\ Line(s, m) < Line(s, j)
<1>1. ASSUME NEW a \in Nat \ {0}, NEW b \in Nat, a <= b PROVE Line(s, a) <= Line(s, b)
  <2>1. EndsBefore(s, a) \in SUBSET EndsBefore(s, b)
    BY <1>1 DEF EndsBefore
  <2>2. Cardinality(EndsBefore(s, a)) <= Cardinality(EndsBefore(s, b))
    BY <2>1, EndsFinite, FS_Subset
  <2> QED BY <2>2, EndsFinite, FS_CardinalityType DEF Line
<1>2. ASSUME NEW m \in i..(j - 1), s[m] = NL
      PROVE  Line(s, i) <= Line(s, m) /\ Line(s, m) < Line(s, j)
  <2>1. m \in Nat \ {0} /\ m + 1 \in Nat \ {0} /\ i <= m /\ m + 1 <= j /\ m \in m..(m + 1 - 1)
        /\ \A k \in m..(m + 1 - 1) : k = m
    OBVIOUS
  <2>2. Line(s, m + 1) = Line(s, m) + 1
    BY <1>2, <2>1, NextLine
  <2>3. Line(s, i) <= Line(s, m) /\ Line(s, m + 1) <= Line(s, j)
    BY <1>1, <2>1
  <2>4. Line(s, m) \in Nat /\ Line(s, j) \in Nat
    BY <2>1, EndsFinite
  <2> QED BY <2>2, <2>3, <2>4
<1> QED BY <1>1, <1>2
=============================================================================
