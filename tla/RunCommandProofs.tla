-------------------------- MODULE RunCommandProofs --------------------------
(***************************************************************************)
(* What holds of RunCommand whatever the command does, and however large   *)
(* the window and the buffer are.                                          *)
(***************************************************************************)
EXTENDS RunCommand, SequenceTheorems, WellFoundedInduction, TLAPS

(* The channel at the statements before the first read. *)
ChannelAt ==
    /\ pc = "new" => channel = "null"
    /\ pc = "exec" => channel = "open"

IInv == TypeOK /\ ChannelAt /\ ChannelFreed

-----------------------------------------------------------------------------

(* Part of what has been received is again a sequence of script's indices. *)
LEMMA PartType ==
    ASSUME NEW T, NEW s \in Seq(T), NEW n \in 0..Len(s)
    PROVE  SubSeq(s, 1, n) \in Seq(T) /\ SubSeq(s, n + 1, Len(s)) \in Seq(T)
  <1>1. SubSeq(s, 1, n) \in Seq(T)
    BY SubSeqProperties
  <1>2. SubSeq(s, n + 1, Len(s)) \in Seq(T)
    BY SubSeqProperties
  <1> QED BY <1>1, <1>2

LEMMA InitHolds == ASSUME Init PROVE IInv
  <1> USE RunAssumption DEF Init
  <1>1. script \in Seq(Deed) /\ Len(script) \in Nat
    BY LenProperties
  <1>2. pending \in [Stream -> Seq(1..Len(script))] /\ shown \in Seq(1..Len(script))
    BY EmptySeq
  <1>3. TypeOK
    BY <1>1, <1>2 DEF TypeOK, Stream
  <1> QED BY <1>3 DEF IInv, ChannelAt, ChannelFreed, Stream

(* A block the server sends is the script's next one. *)
LEMMA SendKeeps ==
    ASSUME IInv, NEW s \in Stream, Send(s) PROVE IInv'
  <1> USE DEF IInv, TypeOK
  <1>1. Len(script) \in Nat /\ done + 1 \in 1..Len(script)
    BY LenProperties DEF Send
  <1>2. Append(pending[s], done + 1) \in Seq(1..Len(script))
    BY <1>1, AppendProperties
  <1>3. pending' \in [Stream -> Seq(1..Len(script))]
    BY <1>2 DEF Send
  <1>4. window' \in 0..Window /\ done' \in 0..Len(script)
    BY <1>1, RunAssumption DEF Send
  <1>5. TypeOK'
    BY <1>3, <1>4 DEF Send
  <1> QED BY <1>5 DEF Send, ChannelAt, ChannelFreed, Stream

(* What is read of a stream goes from pending to shown, or some of it. *)
LEMMA ReadTypes ==
    ASSUME IInv, NEW s \in Stream, Read(s) PROVE TypeOK'
  <1> USE DEF IInv, TypeOK
  <1> DEFINE n == IF Len(pending[s]) < BUFFER THEN Len(pending[s]) ELSE BUFFER
  <1> DEFINE I == 1..Len(script)
  <1>1. pending[s] \in Seq(I) /\ shown \in Seq(I) /\ Len(pending[s]) \in Nat
    BY LenProperties
  <1>2. n \in 0..Len(pending[s])
    BY <1>1, RunAssumption
  <1>3. Window \in 0..Window
    BY RunAssumption
  <1>4. pending' \in [Stream -> Seq(I)] /\ window' \in 0..Window
    <2>1. CASE Take(s, n)
      <3>1. SubSeq(pending[s], n + 1, Len(pending[s])) \in Seq(I)
        BY <1>1, <1>2, PartType
      <3> QED BY <2>1, <3>1, <1>3 DEF Take
    <2>2. CASE UNCHANGED <<window, pending>>
      BY <2>2
    <2> QED BY <2>1, <2>2 DEF Read
  <1>5. shown' \in Seq(I)
    <2>1. \A k \in 0..n : shown \o SubSeq(pending[s], 1, k) \in Seq(I)
      <3> TAKE k \in 0..n
      <3>1. k \in 0..Len(pending[s])
        BY <1>1, <1>2
      <3>2. SubSeq(pending[s], 1, k) \in Seq(I)
        BY <1>1, <3>1, PartType
      <3> QED BY <1>1, <3>2, ConcatProperties
    <2>2. n \in 0..n /\ 0..(n - 1) \subseteq 0..n
      BY <1>2, <1>1
    <2> HIDE DEF I
    <2>3. CASE shown' = shown
      BY <2>3, <1>1
    <2>4. CASE \E k \in 0..n : shown' = shown \o SubSeq(pending[s], 1, k)
      BY <2>4, <2>1
    <2> QED BY <2>2, <2>3, <2>4 DEF Read
  <1> HIDE DEF n
  <1>6. /\ pc' \in {"new", "open", "exec", "finish", "return"} \cup Stream
        /\ channel' \in {"null", "new", "open", "freed"}
        /\ rc' \in {SSH_OK, SSH_ERROR}
    BY DEF Read, After, GiveUp, Stream
  <1> QED BY <1>4, <1>5, <1>6 DEF Read, server

(* After a read do_command goes on reading, or has freed the channel. *)
LEMMA ReadFrees ==
    ASSUME IInv, NEW s \in Stream, Read(s) PROVE ChannelAt' /\ ChannelFreed'
  <1>1. channel = "open" /\ remote # "none" /\ remote' = remote
    BY DEF IInv, ChannelFreed, Read, server
  <1>2. CASE pc' = pc /\ channel' = channel
    BY <1>1, <1>2 DEF IInv, ChannelAt, ChannelFreed, Read
  <1>3. CASE pc' = After(s) /\ channel' = channel
    BY <1>1, <1>3 DEF After, Stream, ChannelAt, ChannelFreed
  <1>4. CASE GiveUp
    BY <1>4 DEF GiveUp, Stream, ChannelAt, ChannelFreed
  <1> QED BY <1>2, <1>3, <1>4 DEF Read

LEMMA StepKeeps == ASSUME IInv, [Next]_vars PROVE IInv'
  <1> USE DEF IInv
  <1>1. CASE ChannelNew
    BY <1>1 DEF ChannelNew, TypeOK, ChannelAt, ChannelFreed, Stream, server
  <1>2. CASE OpenSession
    BY <1>2 DEF OpenSession, GiveUp, TypeOK, ChannelAt, ChannelFreed, Stream, server
  <1>3. CASE RequestExec
    BY <1>3 DEF RequestExec, GiveUp, TypeOK, ChannelAt, ChannelFreed, Stream, server
  <1>4. ASSUME NEW s \in Stream, Read(s) PROVE IInv'
    BY <1>4, ReadTypes, ReadFrees
  <1>5. CASE CleanUp
    BY <1>5 DEF CleanUp, TypeOK, ChannelAt, ChannelFreed, Stream, server
  <1>6. ASSUME NEW s \in Stream, Send(s) PROVE IInv'
    BY <1>6, SendKeeps
  <1>7. CASE End
    BY <1>7 DEF End, TypeOK, ChannelAt, ChannelFreed, Stream
  <1>8. CASE LoseConnection
    BY <1>8 DEF LoseConnection, TypeOK, ChannelAt, ChannelFreed
  <1>9. CASE UNCHANGED vars
    BY <1>9 DEF vars, TypeOK, ChannelAt, ChannelFreed
  <1> QED BY <1>1, <1>2, <1>3, <1>4, <1>5, <1>6, <1>7, <1>8, <1>9
             DEF Next, Step, Server, Stream

LEMMA Inductive == Spec => []IInv
  BY InitHolds, StepKeeps, PTL DEF Spec

-----------------------------------------------------------------------------

(* Whatever the command writes and wherever it is cut off, the state of    *)
(* do_command and of its channel is of the types the code gives it.        *)
THEOREM TypeCorrect == Spec => []TypeOK
  BY Inductive, PTL DEF IInv

(* The channel is freed on every way out of do_command, and not before.    *)
THEOREM ChannelGivenBack == Spec => []ChannelFreed
  BY Inductive, PTL DEF IInv

-----------------------------------------------------------------------------

(* What every number's successor keeps holds of all numbers. *)
LEMMA Induct ==
    ASSUME NEW S, 0 \in S, \A n \in S \cap Nat : n + 1 \in S
    PROVE  Nat \subseteq S
  <1> SUFFICES ASSUME Nat \ S # {} PROVE FALSE
    OBVIOUS
  <1>1. PICK least \in Nat \ S : \A m \in Nat \ S : ~(<<m, least>> \in OpToRel(<, Nat))
    BY NatLessThanWellFounded, WFMin
  <1>2. least \in Nat /\ least \notin S /\ least - 1 \in Nat
    OBVIOUS
  <1>3. least - 1 \in S
    <2>1. least - 1 < least
      BY <1>2
    <2>2. <<least - 1, least>> \in OpToRel(<, Nat)
      BY <1>2, <2>1, SMT DEF OpToRel
    <2> QED BY <1>1, <1>2, <2>2, Zenon
  <1>4. (least - 1) + 1 = least
    BY <1>2
  <1> QED BY <1>2, <1>3, <1>4

(* One more deed writes one more block to a stream, or none. *)
Deeds(s, g, n) ==
    /\ g[0] = <<>>
    /\ \A i \in 1..n : g[i] = IF script[i] = s THEN Append(g[i - 1], i) ELSE g[i - 1]

LEMMA DeedsExist ==
    ASSUME script \in Seq(Deed), NEW s
    PROVE  \E g \in [0..Len(script) -> Seq(1..Len(script))] : Deeds(s, g, Len(script))
  <1>1. Len(script) \in Nat
    BY LenProperties
  <1> DEFINE B == Seq(1..Len(script))
  <1> DEFINE Some(n) == \E g \in [0..n -> B] : Deeds(s, g, n)
  <1> DEFINE S == {n \in Nat : n <= Len(script) => Some(n)}
  <1>2. <<>> \in B
    BY EmptySeq
  <1>3. 0 \in S
    <2>1. [i \in 0..0 |-> <<>>] \in [0..0 -> B]
      BY <1>2
    <2>2. Deeds(s, [i \in 0..0 |-> <<>>], 0)
      BY DEF Deeds
    <2> QED BY <2>1, <2>2
  <1>4. ASSUME NEW n \in S PROVE n + 1 \in S
    <2>1. CASE n + 1 <= Len(script)
      <3>1. n \in Nat /\ n + 1 \in 1..Len(script)
        BY <1>1, <2>1
      <3>2. PICK g \in [0..n -> B] : Deeds(s, g, n)
        BY <1>1, <2>1, <3>1
      <3> DEFINE next == IF script[n + 1] = s THEN Append(g[n], n + 1) ELSE g[n]
      <3> DEFINE h == [i \in 0..(n + 1) |-> IF i = n + 1 THEN next ELSE g[i]]
      <3>3. next \in B
        <4>1. g[n] \in B
          BY <3>1, <3>2
        <4>2. Append(g[n], n + 1) \in B
          BY <3>1, <4>1, AppendProperties
        <4> QED BY <4>1, <4>2
      <3>4. h \in [0..(n + 1) -> B]
        <4>1. \A i \in 0..(n + 1) : i # n + 1 => i \in 0..n
          BY <3>1
        <4> HIDE DEF next, B
        <4> QED BY <3>2, <3>3, <4>1
      <3>5. Deeds(s, h, n + 1)
        <4>1. h[0] = <<>>
          BY <3>1, <3>2 DEF Deeds
        <4>2. ASSUME NEW i \in 1..(n + 1)
              PROVE  h[i] = IF script[i] = s THEN Append(h[i - 1], i) ELSE h[i - 1]
          <5>1. i - 1 \in 0..(n + 1) /\ i - 1 # n + 1 /\ i \in 0..(n + 1)
            BY <3>1
          <5>2. h[i - 1] = g[i - 1]
            BY <5>1
          <5>3. CASE i = n + 1
            BY <3>1, <5>1, <5>2, <5>3
          <5>4. CASE i # n + 1
            <6>1. i \in 1..n
              BY <3>1, <5>4
            <6>2. h[i] = g[i]
              BY <5>1, <5>4
            <6> HIDE DEF h
            <6> QED BY <3>2, <5>2, <6>1, <6>2 DEF Deeds
          <5> QED BY <5>3, <5>4
        <4> HIDE DEF h
        <4> QED BY <4>1, <4>2 DEF Deeds
      <3> HIDE DEF h, next
      <3> QED BY <3>1, <3>4, <3>5
    <2>2. CASE ~(n + 1 <= Len(script))
      BY <2>2
    <2> QED BY <2>1, <2>2
  <1>5. Nat \subseteq S
    <2> HIDE DEF S
    <2> QED BY <1>3, <1>4, Induct
  <1>6. Some(Len(script))
    <2> HIDE DEF Some
    <2> QED BY <1>1, <1>5
  <1> QED BY <1>6

LEMMA SentFacts ==
    ASSUME script \in Seq(Deed), NEW s
    PROVE  /\ Sent(s) \in [0..Len(script) -> Seq(1..Len(script))]
           /\ Deeds(s, Sent(s), Len(script))
  <1>1. Len(script) \in Nat
    BY LenProperties
  <1> DEFINE Solves(f) ==
        f = [n \in 0..Len(script) |->
               IF n = 0 THEN <<>>
               ELSE IF script[n] = s THEN Append(f[n - 1], n) ELSE f[n - 1]]
  <1>2. PICK g \in [0..Len(script) -> Seq(1..Len(script))] : Deeds(s, g, Len(script))
    BY DeedsExist
  <1>3. Solves(g)
    <2>1. \A n \in 0..Len(script) :
             g[n] = IF n = 0 THEN <<>>
                    ELSE IF script[n] = s THEN Append(g[n - 1], n) ELSE g[n - 1]
      <3> TAKE n \in 0..Len(script)
      <3>1. n = 0 \/ n \in 1..Len(script)
        BY <1>1
      <3> QED BY <1>2, <3>1 DEF Deeds
    <2>2. g = [n \in 0..Len(script) |-> g[n]]
      OBVIOUS
    <2> QED BY <2>1, <2>2
  <1>4. Sent(s) = CHOOSE f : Solves(f)
    BY DEF Sent
  <1>5. Solves(Sent(s))
    BY <1>3, <1>4
  <1>6. Deeds(s, Sent(s), Len(script))
    <2>1. \A n \in 1..Len(script) : n \in 0..Len(script) /\ n # 0
      BY <1>1
    <2>2. 0 \in 0..Len(script)
      BY <1>1
    <2> QED BY <1>5, <2>1, <2>2 DEF Deeds
  <1>7. Sent(s) = g
    <2> DEFINE S == {n \in Nat : n <= Len(script) => Sent(s)[n] = g[n]}
    <2>1. 0 \in S
      BY <1>2, <1>6 DEF Deeds
    <2>2. ASSUME NEW n \in S PROVE n + 1 \in S
      <3>1. CASE n + 1 <= Len(script)
        <4>1. n + 1 \in 1..Len(script) /\ n <= Len(script) /\ (n + 1) - 1 = n
          BY <1>1, <3>1
        <4>2. Sent(s)[n] = g[n]
          BY <4>1
        <4>3. /\ Sent(s)[n + 1] = IF script[n + 1] = s THEN Append(Sent(s)[n], n + 1) ELSE Sent(s)[n]
              /\ g[n + 1] = IF script[n + 1] = s THEN Append(g[n], n + 1) ELSE g[n]
          BY <1>2, <1>6, <4>1 DEF Deeds
        <4> QED BY <4>2, <4>3
      <3> QED BY <3>1
    <2>3. Nat \subseteq S
      <3> HIDE DEF S
      <3> QED BY <2>1, <2>2, Induct
    <2>4. \A n \in 0..Len(script) : Sent(s)[n] = g[n]
      BY <1>1, <2>3
    <2>5. Sent(s) = [n \in 0..Len(script) |-> Sent(s)[n]]
      BY <1>5
    <2>6. g = [n \in 0..Len(script) |-> g[n]]
      BY <1>2
    <2> HIDE DEF Solves
    <2> QED BY <2>4, <2>5, <2>6
  <1> QED BY <1>2, <1>6, <1>7

(* Putting sequences together in either order is the same. *)
LEMMA AppendConcat ==
    ASSUME NEW T, NEW s \in Seq(T), NEW t \in Seq(T), NEW x \in T
    PROVE  s \o Append(t, x) = Append(s \o t, x)
  OBVIOUS

LEMMA PartsConcat ==
    ASSUME NEW T, NEW s \in Seq(T), NEW p \in Seq(T), NEW n \in 0..Len(p)
    PROVE  (s \o SubSeq(p, 1, n)) \o SubSeq(p, n + 1, Len(p)) = s \o p
  <1> DEFINE a == SubSeq(p, 1, n)
             b == SubSeq(p, n + 1, Len(p))
  <1>1. a \in Seq(T) /\ b \in Seq(T)
    BY PartType
  <1>2. a \o b = p
    <2>1. Len(p) \in Nat /\ n \in Nat /\ n <= Len(p)
      BY LenProperties
    <2>2. Len(a) = n /\ \A i \in 1..n : a[i] = p[i]
      BY <2>1
    <2>3. Len(b) = Len(p) - n /\ \A i \in 1..(Len(p) - n) : b[i] = p[n + i]
      BY <2>1
    <2> HIDE DEF a, b
    <2>4. /\ a \o b \in Seq(T) /\ Len(a \o b) = Len(a) + Len(b)
          /\ \A i \in 1..Len(a) + Len(b) :
                (a \o b)[i] = IF i <= Len(a) THEN a[i] ELSE b[i - Len(a)]
      BY <1>1, ConcatProperties
    <2>5. ASSUME NEW i \in 1..Len(p) PROVE (a \o b)[i] = p[i]
      <3>1. CASE i <= n
        BY <2>1, <2>2, <2>3, <2>4, <3>1
      <3>2. CASE ~(i <= n)
        <4>1. i - n \in 1..(Len(p) - n) /\ n + (i - n) = i
          BY <2>1, <3>2
        <4> QED BY <2>1, <2>2, <2>3, <2>4, <3>2, <4>1
      <3> QED BY <3>1, <3>2
    <2>6. Len(a \o b) = Len(p)
      BY <2>1, <2>2, <2>3, <2>4
    <2> QED BY <2>4, <2>5, <2>6, SeqEqual
  <1> HIDE DEF a, b
  <1>3. (s \o a) \o b = s \o (a \o b)
    BY <1>1, ConcatAssociative
  <1> QED BY <1>2, <1>3 DEF a, b

(* A prefix, element by element. *)
LEMMA PrefixIs ==
    ASSUME NEW T, NEW s \in Seq(T), NEW t \in Seq(T)
    PROVE  IsPrefix(s, t) <=> Len(s) <= Len(t) /\ \A i \in 1..Len(s) : s[i] = t[i]
  <1>1. Len(s) \in Nat /\ Len(t) \in Nat /\ SubSeq(s, 1, Len(s)) = s
    BY LenProperties
  <1>2. ASSUME Len(s) <= Len(t)
        PROVE  /\ SubSeq(t, 1, Len(s)) \in Seq(T) /\ Len(SubSeq(t, 1, Len(s))) = Len(s)
               /\ \A i \in 1..Len(s) : SubSeq(t, 1, Len(s))[i] = t[i]
    <2>1. Len(s) \in 0..Len(t)
      BY <1>1, <1>2
    <2>2. SubSeq(t, 1, Len(s)) \in Seq(T)
      BY <2>1, PartType
    <2> QED BY <1>1, <1>2, <2>2
  <1>3. ASSUME Len(s) <= Len(t), \A i \in 1..Len(s) : s[i] = t[i]
        PROVE  SubSeq(t, 1, Len(s)) = s
    BY <1>2, <1>3, SeqEqual
  <1> QED BY <1>1, <1>2, <1>3 DEF IsPrefix

LEMMA PrefixTransitive ==
    ASSUME NEW T, NEW s \in Seq(T), NEW t \in Seq(T), NEW u \in Seq(T),
           IsPrefix(s, t), IsPrefix(t, u)
    PROVE  IsPrefix(s, u)
  <1>1. Len(s) \in Nat /\ Len(t) \in Nat /\ Len(u) \in Nat
    BY LenProperties
  <1>2. /\ Len(s) <= Len(t) /\ \A i \in 1..Len(s) : s[i] = t[i]
        /\ Len(t) <= Len(u) /\ \A i \in 1..Len(t) : t[i] = u[i]
    BY PrefixIs
  <1>3. Len(s) <= Len(u) /\ \A i \in 1..Len(s) : s[i] = u[i]
    BY <1>1, <1>2
  <1> QED BY <1>3, PrefixIs

LEMMA PrefixOfConcat ==
    ASSUME NEW T, NEW s \in Seq(T), NEW t \in Seq(T), NEW u \in Seq(T), IsPrefix(s, t)
    PROVE  IsPrefix(s, t \o u)
  <1>1. Len(s) \in Nat /\ Len(t) \in Nat /\ Len(u) \in Nat
    BY LenProperties
  <1>2. Len(s) <= Len(t) /\ \A i \in 1..Len(s) : s[i] = t[i]
    BY PrefixIs
  <1>3. /\ t \o u \in Seq(T) /\ Len(t \o u) = Len(t) + Len(u)
        /\ \A i \in 1..Len(s) : (t \o u)[i] = t[i]
    BY <1>1, <1>2, ConcatProperties
  <1>4. Len(s) <= Len(t \o u) /\ \A i \in 1..Len(s) : s[i] = (t \o u)[i]
    BY <1>1, <1>2, <1>3
  <1> QED BY <1>3, <1>4, PrefixIs

(* What has been sent is the beginning of the output. *)
LEMMA SentGrows ==
    ASSUME script \in Seq(Deed), NEW s, NEW n \in 0..Len(script)
    PROVE  IsPrefix(Sent(s)[n], Output(s))
  <1> DEFINE I == 1..Len(script)
             f == Sent(s)
             S == {k \in Nat : n + k <= Len(script) => IsPrefix(f[n], f[n + k])}
  <1>1. Len(script) \in Nat /\ \A k \in 0..Len(script) : f[k] \in Seq(I)
    BY LenProperties, SentFacts
  <1>2. 0 \in S
    <2>1. f[n] \in Seq(I) /\ n + 0 = n
      BY <1>1
    <2> QED BY <2>1, PrefixIs, LenProperties
  <1>3. ASSUME NEW k \in S PROVE k + 1 \in S
    <2>1. CASE n + (k + 1) <= Len(script)
      <3> DEFINE m == n + k
      <3>1. m \in 0..Len(script) /\ m + 1 \in 1..Len(script) /\ (m + 1) - 1 = m
            /\ n + (k + 1) = m + 1 /\ n + k <= Len(script)
        BY <1>1, <2>1
      <3>2. f[n] \in Seq(I) /\ f[m] \in Seq(I) /\ IsPrefix(f[n], f[m])
        BY <1>1, <3>1
      <3>3. \/ f[m + 1] = f[m]
            \/ f[m + 1] = Append(f[m], m + 1) /\ m + 1 \in I
        <4>1. Deeds(s, f, Len(script))
          BY SentFacts
        <4> HIDE DEF f, m
        <4> QED BY <3>1, <4>1 DEF Deeds
      <3> HIDE DEF f, m
      <3>4. CASE f[m + 1] = f[m]
        BY <3>1, <3>2, <3>4
      <3>5. CASE f[m + 1] = Append(f[m], m + 1) /\ m + 1 \in I
        <4>1. /\ f[m + 1] \in Seq(I) /\ Len(f[m + 1]) = Len(f[m]) + 1
              /\ \A i \in 1..Len(f[m]) : f[m + 1][i] = f[m][i]
          <5> HIDE DEF I
          <5> QED BY <3>2, <3>5, AppendProperties
        <4>2. Len(f[n]) \in Nat /\ Len(f[m]) \in Nat
          BY <3>2, LenProperties
        <4>3. Len(f[n]) <= Len(f[m]) /\ \A i \in 1..Len(f[n]) : f[n][i] = f[m][i]
          BY <3>2, PrefixIs
        <4>4. Len(f[n]) <= Len(f[m + 1]) /\ \A i \in 1..Len(f[n]) : f[n][i] = f[m + 1][i]
          BY <4>1, <4>2, <4>3
        <4>5. IsPrefix(f[n], f[m + 1])
          BY <3>2, <4>1, <4>4, PrefixIs
        <4> QED BY <3>1, <4>5
      <3> QED BY <3>3, <3>4, <3>5
    <2> QED BY <2>1
  <1>4. Nat \subseteq S
    <2> HIDE DEF S
    <2> QED BY <1>2, <1>3, Induct
  <1>5. Len(script) - n \in Nat /\ n + (Len(script) - n) = Len(script)
    BY <1>1
  <1>6. IsPrefix(f[n], f[Len(script)])
    <2> DEFINE k == Len(script) - n
    <2>1. k \in S /\ n + k = Len(script)
      BY <1>4, <1>5
    <2> HIDE DEF f, k
    <2> QED BY <1>1, <2>1
  <1> QED BY <1>6 DEF Output

-----------------------------------------------------------------------------

(* What has been received of each stream is what the command has sent of   *)
(* it: some of it is shown, the rest is pending.  All of stdout is shown   *)
(* when stderr is read.                                                    *)
ShownAt ==
    /\ remote = "none" => done = 0
    /\ remote = "ended" => done = Len(script)
    /\ pc # "return" => rc = SSH_OK
    /\ pc \in {"new", "open", "exec"} =>
          remote = "none" /\ shown = <<>> /\ pending["out"] = <<>> /\ pending["err"] = <<>>
    /\ pc = "out" =>
          /\ shown \o pending["out"] = Sent("out")[done]
          /\ pending["err"] = Sent("err")[done]
    /\ pc = "err" =>
          /\ remote = "ended"
          /\ shown \o pending["err"] = Output("out") \o Output("err")
    /\ pc = "finish" => shown = Output("out") \o Output("err")

ShownInv == IInv /\ ShownAt

LEMMA ShownFacts ==
    ASSUME ShownInv, NEW s \in Stream
    PROVE  /\ script \in Seq(Deed) /\ Len(script) \in Nat /\ done \in 0..Len(script)
           /\ Sent(s)[0] = <<>> /\ Output(s) = Sent(s)[Len(script)]
           /\ Output(s) \in Seq(1..Len(script))
           /\ shown \in Seq(1..Len(script)) /\ pending[s] \in Seq(1..Len(script))
  <1>1. script \in Seq(Deed) /\ Len(script) \in Nat
    BY LenProperties DEF ShownInv, IInv, TypeOK
  <1>2. Sent(s) \in [0..Len(script) -> Seq(1..Len(script))] /\ Sent(s)[0] = <<>>
    BY <1>1, SentFacts DEF Deeds
  <1>3. Output(s) \in Seq(1..Len(script))
    BY <1>1, <1>2 DEF Output
  <1> QED BY <1>1, <1>2, <1>3 DEF Output, ShownInv, IInv, TypeOK

(* The block that is sent is the next one of its stream. *)
LEMMA SendShown ==
    ASSUME ShownInv, NEW s \in Stream, Send(s) PROVE ShownAt'
  <1> USE DEF ShownInv, ShownAt
  <1>1. /\ remote = "started" /\ done < Len(script) /\ script[done + 1] = s
        /\ done' = done + 1 /\ pending' = [pending EXCEPT ![s] = Append(@, done + 1)]
        /\ UNCHANGED <<script, pc, remote, shown, rc>>
    BY DEF Send
  <1>2. \A t : Sent(t)' = Sent(t) /\ Output(t)' = Output(t)
    BY <1>1 DEF Sent, Output
  <1>3. done + 1 \in 1..Len(script) /\ (done + 1) - 1 = done
    BY <1>1, ShownFacts
  <1>4. ASSUME NEW t \in Stream
        PROVE  Sent(t)[done + 1] = IF t = s THEN Append(Sent(t)[done], done + 1) ELSE Sent(t)[done]
    <2>1. Deeds(t, Sent(t), Len(script))
      BY SentFacts, ShownFacts
    <2>2. Sent(t)[done + 1] = IF script[done + 1] = t THEN Append(Sent(t)[(done + 1) - 1], done + 1)
                              ELSE Sent(t)[(done + 1) - 1]
      BY <1>3, <2>1 DEF Deeds
    <2> QED BY <1>1, <1>3, <2>2
  <1>5. pc # "err" /\ pc \notin {"new", "open", "exec"}
    BY <1>1
  <1>6. \A t \in Stream : pending'[t] = IF t = s THEN Append(pending[t], done + 1) ELSE pending[t]
    BY <1>1 DEF IInv, TypeOK
  <1>7. CASE pc = "out"
    <2>1. shown \o Append(pending["out"], done + 1) = Append(shown \o pending["out"], done + 1)
      <3>1. shown \in Seq(1..Len(script)) /\ pending["out"] \in Seq(1..Len(script))
        BY ShownFacts DEF Stream
      <3> DEFINE x == done + 1  I == 1..Len(script)
      <3>2. x \in I
        BY <1>3
      <3>3. shown \in Seq(I) /\ pending["out"] \in Seq(I)
        BY <3>1
      <3> HIDE DEF x, I
      <3>4. shown \o Append(pending["out"], x) = Append(shown \o pending["out"], x)
        BY <3>2, <3>3, AppendConcat
      <3> QED BY <3>4 DEF x
    <2>2. shown' \o pending'["out"] = Sent("out")[done + 1]
      BY <1>1, <1>4, <1>6, <1>7, <2>1 DEF Stream
    <2>3. pending'["err"] = Sent("err")[done + 1]
      BY <1>1, <1>4, <1>6, <1>7 DEF Stream
    <2> QED BY <1>1, <1>2, <1>7, <2>2, <2>3
  <1>8. CASE pc # "out"
    BY <1>1, <1>2, <1>5, <1>8
  <1> QED BY <1>7, <1>8

(* What Read takes of a stream: n blocks, of which it shows k. *)
TakesAndShows(s, n, k) ==
    /\ Take(s, n) /\ shown' = shown \o SubSeq(pending[s], 1, k)

LEMMA TakeFacts ==
    ASSUME ShownInv, NEW s \in Stream, pending[s] # <<>>, NEW n \in 1..Len(pending[s]),
           TakesAndShows(s, n, n)
    PROVE  /\ shown' \o pending'[s] = shown \o pending[s]
           /\ shown' \in Seq(1..Len(script)) /\ Len(shown) < Len(shown')
           /\ IsPrefix(shown', shown \o pending[s])
           /\ \A t \in Stream \ {s} : pending'[t] = pending[t]
  <1> DEFINE I == 1..Len(script)
             p == pending[s]
             a == SubSeq(p, 1, n)
             b == SubSeq(p, n + 1, Len(p))
  <1>1. shown \in Seq(I) /\ p \in Seq(I) /\ Len(p) \in Nat /\ Len(shown) \in Nat
    BY ShownFacts, LenProperties
  <1>2. n \in 0..Len(p)
    BY <1>1
  <1>3. a \in Seq(I) /\ b \in Seq(I)
    <2> HIDE DEF p, I
    <2> QED BY <1>1, <1>2, PartType
  <1>4. Len(a) = n
    <2> HIDE DEF p, I
    <2> QED BY <1>1, <1>2
  <1>5. (shown \o a) \o b = shown \o p
    <2> HIDE DEF p, I
    <2> QED BY <1>1, <1>2, PartsConcat
  <1>6. shown' = shown \o a /\ pending'[s] = b
    BY DEF TakesAndShows, Take, ShownInv, IInv, TypeOK
  <1>7. \A t \in Stream \ {s} : pending'[t] = pending[t]
    BY DEF TakesAndShows, Take, ShownInv, IInv, TypeOK
  <1> HIDE DEF a, b, p, I
  <1>8. shown \o a \in Seq(I) /\ Len(shown \o a) = Len(shown) + n
    BY <1>1, <1>3, <1>4, ConcatProperties
  <1>9. IsPrefix(shown \o a, (shown \o a) \o b)
    <2>1. IsPrefix(shown \o a, shown \o a)
      <3> DEFINE t == shown \o a
      <3>1. t \in Seq(I) /\ Len(t) \in Nat
        BY <1>8, LenProperties
      <3> HIDE DEF t
      <3>2. IsPrefix(t, t)
        BY <3>1, PrefixIs
      <3> QED BY <3>2 DEF t
    <2> QED BY <1>3, <1>8, <2>1, PrefixOfConcat
  <1>10. Len(shown) < Len(shown')
    BY <1>1, <1>2, <1>6, <1>8
  <1>11. shown' \o pending'[s] = shown \o p /\ IsPrefix(shown', shown \o p)
    <2>1. IsPrefix(shown \o a, shown \o p)
      BY <1>5, <1>9, Zenon
    <2> QED BY <1>5, <1>6, <2>1, Zenon
  <1>12. shown' \in Seq(I)
    BY <1>6, <1>8
  <1> QED BY <1>7, <1>10, <1>11, <1>12 DEF I, p

(* The ways a read may go: a part is shown and the loop goes on, the       *)
(* stream has ended, or do_command gives up.                               *)
LEMMA ReadCases ==
    ASSUME ShownInv, NEW s \in Stream, Read(s)
    PROVE  /\ pc = s /\ UNCHANGED <<script, done, up, remote>>
           /\ \/ /\ UNCHANGED <<pc, rc>>
                 /\ shown' \o pending'[s] = shown \o pending[s]
                 /\ shown' \in Seq(1..Len(script)) /\ Len(shown) < Len(shown')
                 /\ IsPrefix(shown', shown \o pending[s])
                 /\ \A t \in Stream \ {s} : pending'[t] = pending[t]
              \/ /\ pending[s] = <<>> /\ remote = "ended"
                 /\ pc' = After(s) /\ UNCHANGED <<rc, pending, shown>>
              \/ pc' = "return" /\ rc' = SSH_ERROR
  <1> DEFINE n == IF Len(pending[s]) < BUFFER THEN Len(pending[s]) ELSE BUFFER
  <1>1. pc = s /\ UNCHANGED <<script, done, up, remote>>
    BY DEF Read, server
  <1>2. CASE pending[s] # <<>> /\ Take(s, n) /\ shown' = shown \o SubSeq(pending[s], 1, n)
             /\ UNCHANGED <<pc, channel, rc>>
    <2>1. n \in 1..Len(pending[s])
      <3>1. Len(pending[s]) \in Nat \ {0}
        BY <1>2, ShownFacts, EmptySeq
      <3> QED BY <3>1, RunAssumption
    <2>2. TakesAndShows(s, n, n)
      BY <1>2 DEF TakesAndShows
    <2> HIDE DEF n
    <2> QED BY <1>1, <1>2, <2>1, <2>2, TakeFacts
  <1>3. CASE GiveUp
    BY <1>1, <1>3 DEF GiveUp
  <1>4. CASE /\ pending[s] = <<>> /\ remote = "ended"
             /\ pc' = After(s) /\ UNCHANGED <<rc, pending, shown>>
    BY <1>1, <1>4
  <1> HIDE DEF n
  <1> QED BY <1>2, <1>3, <1>4 DEF Read, n

LEMMA ReadShown ==
    ASSUME ShownInv, NEW s \in Stream, Read(s) PROVE ShownAt'
  <1>1. pc = s /\ UNCHANGED <<script, done, remote>>
    BY ReadCases
  <1>2. \A t : Sent(t)' = Sent(t) /\ Output(t)' = Output(t)
    BY <1>1 DEF Sent, Output
  <1>3. CASE /\ UNCHANGED <<pc, rc>>
             /\ shown' \o pending'[s] = shown \o pending[s]
             /\ \A t \in Stream \ {s} : pending'[t] = pending[t]
    BY <1>1, <1>2, <1>3 DEF Stream, ShownInv, ShownAt
  <1>4. CASE pc' = "return" /\ rc' = SSH_ERROR
    BY <1>1, <1>4 DEF ShownInv, ShownAt
  <1>5. CASE /\ pending[s] = <<>> /\ remote = "ended"
             /\ pc' = After(s) /\ UNCHANGED <<rc, pending, shown>>
    <2>1. shown \o <<>> = shown
      BY ShownFacts, ConcatEmptySeq
    <2>2. done = Len(script) /\ rc = SSH_OK
      BY <1>1, <1>5 DEF ShownInv, ShownAt, Stream
    <2>3. CASE s = "out"
      <3>1. shown = Output("out") /\ pending["err"] = Output("err")
        BY <1>1, <1>5, <2>1, <2>2, <2>3 DEF ShownInv, ShownAt, Output
      <3>2. pc' = "err"
        BY <1>5, <2>3 DEF After
      <3> QED BY <1>1, <1>2, <1>5, <2>2, <3>1, <3>2 DEF ShownAt
    <2>4. CASE s = "err"
      <3>1. shown = Output("out") \o Output("err")
        BY <1>1, <1>5, <2>1, <2>4 DEF ShownInv, ShownAt
      <3>2. pc' = "finish"
        BY <1>5, <2>4 DEF After
      <3> QED BY <1>1, <1>2, <1>5, <2>2, <3>1, <3>2 DEF ShownAt
    <2> QED BY <2>3, <2>4 DEF Stream
  <1> QED BY <1>3, <1>4, <1>5, ReadCases

LEMMA StepShown == ASSUME ShownInv, [Next]_vars PROVE ShownAt'
  <1>1. ASSUME UNCHANGED script PROVE \A t : Sent(t)' = Sent(t) /\ Output(t)' = Output(t)
    BY <1>1 DEF Sent, Output
  <1>2. CASE ChannelNew
    BY <1>2 DEF ChannelNew, ShownInv, ShownAt, server
  <1>3. CASE OpenSession
    BY <1>3 DEF OpenSession, GiveUp, ShownInv, ShownAt, server
  <1>4. CASE RequestExec
    <2>1. UNCHANGED <<script, done, pending, shown>> /\ pc = "exec"
      BY <1>4 DEF RequestExec
    <2>2. \/ remote' = "started" /\ pc' = "out" /\ UNCHANGED rc
          \/ pc' = "return" /\ remote' \in {"started", remote}
      BY <1>4 DEF RequestExec, GiveUp
    <2>3. /\ done = 0 /\ shown = <<>> /\ pending["out"] = <<>> /\ pending["err"] = <<>>
          /\ rc = SSH_OK /\ remote = "none"
      BY <2>1 DEF ShownInv, ShownAt
    <2>4. Sent("out")[0] = <<>> /\ Sent("err")[0] = <<>>
      BY ShownFacts DEF Stream
    <2>5. shown \o pending["out"] = <<>>
      BY <2>3, ShownFacts, ConcatEmptySeq DEF Stream
    <2> QED BY <1>1, <2>1, <2>2, <2>3, <2>4, <2>5 DEF ShownAt
  <1>5. CASE CleanUp
    BY <1>5 DEF CleanUp, ShownInv, ShownAt, server
  <1>6. CASE End
    BY <1>6, <1>1 DEF End, ShownInv, ShownAt
  <1>7. CASE LoseConnection
    BY <1>7, <1>1 DEF LoseConnection, ShownInv, ShownAt
  <1>8. CASE UNCHANGED vars
    BY <1>8, <1>1 DEF vars, ShownInv, ShownAt
  <1>9. ASSUME NEW s \in Stream, Read(s) PROVE ShownAt'
    BY <1>9, ReadShown
  <1>10. ASSUME NEW s \in Stream, Send(s) PROVE ShownAt'
    BY <1>10, SendShown
  <1> QED BY <1>2, <1>3, <1>4, <1>5, <1>6, <1>7, <1>8, <1>9, <1>10 DEF Next, Step, Server, Stream

-----------------------------------------------------------------------------

(* What FileCopy is told, and its steps as they are instantiated. *)
Source == Output("out") \o Output("err")
Status == IF pc = "return" THEN IF rc = SSH_OK THEN "ok" ELSE "error"
          ELSE IF pc \in Stream \cup {"finish"} THEN "copying" ELSE "idle"
Begins == Status = "idle" /\ Status' = "copying" /\ shown' = <<>>
Grows == /\ Status = "copying" /\ Status' = "copying"
         /\ Len(shown) < Len(shown') /\ IsPrefix(shown', Source)
Succeeds == Status = "copying" /\ shown = Source /\ Status' = "ok" /\ shown' = shown
Fails == Status \in {"idle", "copying"} /\ Status' = "error"
Stays == Status' = Status /\ shown' = shown

LEMMA CopyMeaning ==
    ASSUME Source' = Source, Begins \/ Grows \/ Succeeds \/ Fails \/ Stays
    PROVE  [Shown!Next]_(Shown!vars)
  BY DEF Source, Status, Begins, Grows, Succeeds, Fails, Stays, Shown!Next, Shown!vars,
         Shown!Begin, Shown!Grow, Shown!Succeed, Shown!Fail, Shown!IsPrefix, IsPrefix

LEMMA SourceStays == ASSUME [Next]_vars PROVE Source' = Source
  <1>1. script' = script
    BY DEF Next, Step, Server, ChannelNew, OpenSession, RequestExec, Read, CleanUp, Send, End,
           LoseConnection, vars, server
  <1> QED BY <1>1 DEF Source, Output, Sent

(* A block that is shown makes the terminal a longer part of the source. *)
LEMMA ReadCopies ==
    ASSUME ShownInv, NEW s \in Stream, Read(s)
    PROVE  Grows \/ Fails \/ Stays
  <1>1. pc = s /\ Status = "copying"
    BY ReadCases DEF Status, Stream
  <1>2. CASE /\ pc' = pc /\ shown' \in Seq(1..Len(script)) /\ Len(shown) < Len(shown')
             /\ IsPrefix(shown', shown \o pending[s])
    <2>1. Output("out") \in Seq(1..Len(script)) /\ Output("err") \in Seq(1..Len(script))
      BY ShownFacts DEF Stream
    <2>2. IsPrefix(shown', Source)
      <3>1. CASE s = "err"
        BY <1>1, <1>2, <3>1 DEF ShownInv, ShownAt, Source
      <3>2. CASE s = "out"
        <4> DEFINE t == Sent("out")[done]
        <4>1. shown \o pending["out"] = t
          BY <1>1, <3>2 DEF ShownInv, ShownAt
        <4>2. t \in Seq(1..Len(script)) /\ IsPrefix(t, Output("out"))
          BY ShownFacts, SentFacts, SentGrows DEF Stream
        <4>3. IsPrefix(shown', t)
          BY <1>2, <3>2, <4>1
        <4> HIDE DEF t
        <4>4. IsPrefix(shown', Output("out"))
          BY <1>2, <2>1, <4>2, <4>3, PrefixTransitive
        <4> QED BY <1>2, <2>1, <4>4, PrefixOfConcat DEF Source
      <3> QED BY <3>1, <3>2 DEF Stream
    <2>3. Status' = "copying"
      BY <1>1, <1>2 DEF Status, Stream
    <2> QED BY <1>1, <1>2, <2>2, <2>3 DEF Grows
  <1>3. CASE pc' = After(s) /\ shown' = shown
    BY <1>1, <1>3 DEF After, Stays, Status, Stream
  <1>4. CASE pc' = "return" /\ rc' = SSH_ERROR
    BY <1>1, <1>4 DEF Fails, Status, SSH_OK, SSH_ERROR
  <1> QED BY <1>2, <1>3, <1>4, ReadCases

LEMMA StepCopies ==
    ASSUME ShownInv, [Next]_vars PROVE [Shown!Next]_(Shown!vars)
  <1>1. CASE ChannelNew \/ OpenSession
    <2>1. /\ Status = "idle" /\ shown' = shown
          /\ Status' = "idle" \/ Status' = "error"
      BY <1>1 DEF ChannelNew, OpenSession, GiveUp, Status, Stream, SSH_OK, SSH_ERROR
    <2> QED BY <2>1, SourceStays, CopyMeaning DEF Stays, Fails
  <1>2. CASE RequestExec
    <2>1. Status = "idle" /\ shown' = <<>>
      BY <1>2 DEF RequestExec, Status, Stream, ShownInv, ShownAt
    <2>2. Status' = "copying" \/ Status' = "error"
      BY <1>2 DEF RequestExec, GiveUp, Status, Stream, SSH_OK, SSH_ERROR
    <2> QED BY <2>1, <2>2, SourceStays, CopyMeaning DEF Begins, Fails
  <1>3. ASSUME NEW s \in Stream, Read(s) PROVE [Shown!Next]_(Shown!vars)
    BY <1>3, ReadCopies, SourceStays, CopyMeaning
  <1>4. CASE CleanUp
    <2>1. Status = "copying" /\ Status' = "ok" /\ shown' = shown /\ shown = Source
      BY <1>4 DEF CleanUp, Status, ShownInv, ShownAt, Source
    <2> QED BY <2>1, SourceStays, CopyMeaning DEF Succeeds
  <1>5. ASSUME UNCHANGED <<pc, rc, shown>> PROVE [Shown!Next]_(Shown!vars)
    BY <1>5, SourceStays, CopyMeaning DEF Stays, Status
  <1> QED BY <1>1, <1>2, <1>3, <1>4, <1>5
             DEF Next, Step, Server, Send, End, LoseConnection, vars, Stream

(* do_command is a FileCopy of stdout and then stderr to the terminal, for *)
(* every command, window and buffer, and wherever a read or write fails.   *)
THEOREM ImplementsFileCopy == Spec => ShownSpec
  <1>1. Init => ShownInv
    BY InitHolds DEF Init, ShownInv, ShownAt, Stream
  <1>2. ShownInv /\ [Next]_vars => ShownInv'
    BY StepKeeps, StepShown DEF ShownInv
  <1>3. Init => Shown!Init
    BY DEF Init, Shown!Init, Stream
  <1>4. ShownInv /\ [Next]_vars => [Shown!Next]_(Shown!vars)
    BY StepCopies
  <1> QED BY <1>1, <1>2, <1>3, <1>4, PTL DEF Spec, ShownSpec, Shown!Spec
=============================================================================
