--------------------------- MODULE TransferProofs ---------------------------
(***************************************************************************)
(* What Transfer guarantees for every file, block size and set of faults.  *)
(***************************************************************************)
EXTENDS Transfer, SequenceTheorems, TLAPS

(* The function's own progress: which handles are open at each statement. *)
HandlesAt ==
    /\ pc = "open_source" => handle[From] = "null" /\ handle[To] = "null"
    /\ pc = "open_dest" => handle[From] = "open" /\ handle[To] = "null"
    /\ pc \in {"read", "write", "close", "crashed"} =>
          handle[From] = "open" /\ handle[To] = "open"
    /\ pc = "return" =>
          \/ handle[From] = "closed" /\ handle[To] = "closed"
          \/ handle[To] = "null" /\ rc = SSH_ERROR

(* How the data moves: the block in transit continues what has been        *)
(* written, and a short block is the last one unless fread or sftp_read    *)
(* fell short.                                                             *)
DataAt ==
    /\ handle[To] # "null" => dst \in Seq(Byte \cup {Junk})
    /\ handle[To] = "null" => nread = 0 /\ pos = 0
    /\ dir = "push" => nread >= 0
    /\ pc = "read" => nread >= 0 /\ dst = SubSeq(src, 1, pos)
    /\ pc = "write" /\ nread >= 0 =>
          /\ nread <= pos
          /\ buffer = SubSeq(src, pos - nread + 1, pos)
          /\ dst = SubSeq(src, 1, pos - nread)
          /\ faults = {} /\ nread < BUFFER_SIZE => pos = Len(src)

(* Without faults only a lost connection makes a call fail after the files *)
(* are open, and sftp_close will then fail as well.                        *)
ReliableAt ==
    faults = {} =>
        /\ nread < 0 => ~up
        /\ pc = "close" /\ up => dst = src
        /\ pc = "return" /\ rc = SSH_OK => nread >= 0

IInv == TypeOK /\ HandlesAt /\ DataAt /\ ReliableAt /\ PrefixOfSource

-----------------------------------------------------------------------------

(* Appending a part of the next block to a prefix gives a longer prefix. *)
LEMMA PrefixGrows ==
    ASSUME NEW S, NEW s \in Seq(S), NEW p \in 0..Len(s), NEW n \in Nat,
           p + n <= Len(s), NEW k \in 0..n
    PROVE  /\ SubSeq(s, 1, p) \o SubSeq(SubSeq(s, p + 1, p + n), 1, k)
                  = SubSeq(s, 1, p + k)
           /\ Len(SubSeq(s, 1, p + k)) = p + k
<1>0. Len(s) \in Nat
  BY LenProperties
<1>1. SubSeq(SubSeq(s, p + 1, p + n), 1, k) = SubSeq(s, p + 1, p + k)
  <2>1. CASE k = 0
    BY <1>0, <2>1, SubSeqEmpty
  <2>2. CASE k > 0
    BY <1>0, <2>2, SubSeqOfSubSeq
  <2> QED BY <2>1, <2>2
<1>2. SubSeq(s, 1, p) \o SubSeq(s, p + 1, p + k) = SubSeq(s, 1, p + k)
  BY <1>0, ConcatAdjacentSubSeq
<1>3. \A i \in 1..(p + k) : s[i] \in S
  BY <1>0, ElementOfSeq
<1>4. Len(SubSeq(s, 1, p + k)) = p + k
  BY <1>0, <1>3, SubSeqProperties
<1> QED BY <1>1, <1>2, <1>4

(* A prefix is a sequence over the same bytes, and begins the source. *)
LEMMA PrefixTypes ==
    ASSUME NEW S, NEW s \in Seq(S), NEW p \in 0..Len(s)
    PROVE  /\ SubSeq(s, 1, p) \in Seq(S)
           /\ Len(SubSeq(s, 1, p)) = p
           /\ IsPrefix(SubSeq(s, 1, p), s)
<1>0. Len(s) \in Nat
  BY LenProperties
<1>1. \A i \in 1..p : s[i] \in S
  BY <1>0, ElementOfSeq
<1>2. SubSeq(s, 1, p) \in Seq(S) /\ Len(SubSeq(s, 1, p)) = p
  BY <1>0, <1>1, SubSeqProperties
<1> QED BY <1>0, <1>2 DEF IsPrefix

(* The parts of a prefix are prefixes. *)
LEMMA PrefixShrinks ==
    ASSUME NEW S, NEW s \in Seq(S), NEW t \in Seq(S), IsPrefix(t, s),
           NEW n \in 0..Len(t)
    PROVE  IsPrefix(SubSeq(t, 1, n), s)
<1>0. Len(s) \in Nat /\ Len(t) \in Nat /\ Len(t) <= Len(s) /\ t = SubSeq(s, 1, Len(t))
  BY LenProperties DEF IsPrefix
<1>1. SubSeq(t, 1, n) = SubSeq(s, 1, n)
  <2>1. CASE n = 0
    BY <1>0, <2>1, SubSeqEmpty
  <2>2. CASE n > 0
    BY <1>0, <2>2, SubSeqOfSubSeq
  <2> QED BY <1>0, <2>1, <2>2
<1>2. IsPrefix(SubSeq(s, 1, n), s)
  BY <1>0, PrefixTypes
<1> QED BY <1>1, <1>2

-----------------------------------------------------------------------------

LEMMA InitInv == Init => IInv
<1> SUFFICES ASSUME Init PROVE IInv
  OBVIOUS
<1> USE ContentsAssumption, BufferAssumption DEF Init
<1>1. src \in Seq(Byte) /\ Len(src) \in Nat
  BY LenProperties
<1>2. dst \in Seq(Byte \cup {Junk}) \cup {Absent}
  BY SeqMonotonic
<1>3. <<>> \in Seq(Byte)
  BY EmptySeq
<1>4. TypeOK
  BY <1>1, <1>2, <1>3 DEF TypeOK, Side, SSH_OK
<1>5. handle[From] = "null" /\ handle[To] = "null"
  BY DEF From, To, Side
<1>6. HandlesAt
  BY <1>5 DEF HandlesAt
<1>7. DataAt
  BY <1>5 DEF DataAt
<1>8. ReliableAt
  BY DEF ReliableAt
<1>9. PrefixOfSource
  BY <1>5 DEF PrefixOfSource
<1> QED BY <1>4, <1>6, <1>7, <1>8, <1>9 DEF IInv

(* Facts of every state, used by all the steps below. *)
LEMMA StateFacts ==
    ASSUME IInv
    PROVE  /\ src \in Seq(Byte) /\ src \in Seq(Byte \cup {Junk})
           /\ Len(src) \in Nat /\ BUFFER_SIZE \in Nat /\ BUFFER_SIZE > 0
           /\ From \in Side /\ To \in Side /\ From # To
           /\ From = "remote" <=> To = "local"
           /\ pos \in 0..Len(src)
           /\ Available \in 0..BUFFER_SIZE
           /\ pos + Available <= Len(src)
           /\ Available < BUFFER_SIZE => pos + Available = Len(src)
<1> USE BufferAssumption DEF IInv, TypeOK
<1>1. src \in Seq(Byte \cup {Junk}) /\ Len(src) \in Nat
  BY SeqMonotonic, LenProperties
<1>2. From \in Side /\ To \in Side /\ From # To /\ (From = "remote" <=> To = "local")
  BY DEF From, To, Side
<1>3. /\ Available \in 0..BUFFER_SIZE
      /\ pos + Available <= Len(src)
      /\ Available < BUFFER_SIZE => pos + Available = Len(src)
  BY <1>1 DEF Available
<1> QED BY <1>1, <1>2, <1>3

LEMMA OpenSourceInv == IInv /\ OpenSource => IInv'
<1> SUFFICES ASSUME IInv, OpenSource PROVE IInv'
  OBVIOUS
<1> USE StateFacts DEF OpenSource
<1>0. From' = From /\ To' = To
  BY DEF From, To
<1>1. TypeOK'
  BY DEF IInv, TypeOK, SSH_OK, SSH_ERROR
<1>2. handle'[To] = "null" /\ handle[To] = "null"
  BY DEF IInv, TypeOK, HandlesAt
<1>3. HandlesAt'
  BY <1>0, <1>2 DEF IInv, TypeOK, HandlesAt, SSH_ERROR
<1>4. DataAt'
  BY <1>0, <1>2 DEF IInv, DataAt
<1>5. ReliableAt'
  BY DEF IInv, ReliableAt, SSH_OK, SSH_ERROR
<1>6. PrefixOfSource'
  BY <1>0, <1>2 DEF PrefixOfSource
<1> QED BY <1>1, <1>3, <1>4, <1>5, <1>6 DEF IInv

LEMMA OpenDestInv == IInv /\ OpenDest => IInv'
<1> SUFFICES ASSUME IInv, OpenDest PROVE IInv'
  OBVIOUS
<1> USE StateFacts DEF OpenDest
<1>0. From' = From /\ To' = To
  BY DEF From, To
<1>1. <<>> \in Seq(Byte \cup {Junk})
  BY EmptySeq
<1>2. TypeOK'
  BY <1>1 DEF IInv, TypeOK, SSH_OK, SSH_ERROR
<1>3. /\ handle[To] = "null" /\ handle[From] = "open"
      /\ pos' = 0 /\ pos = 0 /\ nread' = 0 /\ nread = 0
  BY DEF IInv, HandlesAt, DataAt
<1>4. HandlesAt'
  BY <1>0, <1>3 DEF IInv, TypeOK, HandlesAt, SSH_ERROR
<1>5. SubSeq(src, 1, 0) = <<>>
  BY SubSeqEmpty
<1>6. \/ pc' = "read" /\ handle'[To] = "open" /\ dst' = <<>>
      \/ pc' = "return" /\ handle'[To] = "null"
  BY <1>3 DEF IInv, TypeOK
<1>7. DataAt'
  <2>1. SubSeq(src', 1, pos') = <<>>
    BY <1>3, <1>5
  <2>2. CASE pc' = "read" /\ handle'[To] = "open" /\ dst' = <<>>
    BY <1>0, <1>1, <1>3, <2>1, <2>2 DEF DataAt
  <2>3. CASE pc' = "return" /\ handle'[To] = "null"
    BY <1>0, <1>3, <2>3 DEF DataAt
  <2> QED BY <1>6, <2>2, <2>3
<1>8. ReliableAt'
  BY <1>3 DEF IInv, ReliableAt, SSH_OK, SSH_ERROR
<1>9. IsPrefix(SubSeq(src, 1, 0), src)
  BY PrefixTypes
<1>10. PrefixOfSource'
  BY <1>0, <1>5, <1>6, <1>9 DEF PrefixOfSource, IsPrefix
<1> QED BY <1>2, <1>4, <1>7, <1>8, <1>10 DEF IInv

(* The block a read delivers. *)
LEMMA TakeFacts ==
    ASSUME IInv, NEW n \in 0..Available, Take(n)
    PROVE  /\ buffer' = SubSeq(src, pos' - n + 1, pos')
           /\ buffer' \in Seq(Byte) /\ Len(buffer') = n
           /\ pos' \in 0..Len(src) /\ n <= pos' /\ pos' - n = pos
           /\ nread' = n /\ n \in 0..BUFFER_SIZE
<1> USE StateFacts DEF Take
<1>0. pos \in Int /\ n \in Int /\ pos + n <= Len(src)
  OBVIOUS
<1>1. \A i \in (pos + 1)..(pos + n) : src[i] \in Byte
  BY <1>0, ElementOfSeq
<1>2. /\ SubSeq(src, pos + 1, pos + n) \in Seq(Byte)
      /\ Len(SubSeq(src, pos + 1, pos + n)) = n
  BY <1>0, <1>1, SubSeqProperties
<1>3. pos' - n + 1 = pos + 1 /\ pos' = pos + n
  BY <1>0
<1> QED BY <1>0, <1>2, <1>3

LEMMA ReadLocalInv == IInv /\ ReadLocal => IInv'
<1> SUFFICES ASSUME IInv, ReadLocal PROVE IInv'
  OBVIOUS
<1> USE StateFacts
<1>0. From' = From /\ To' = To
  BY DEF From, To, ReadLocal
<1>1. PICK n \in 0..Available : (n = Available \/ "fread" \in faults) /\ Take(n)
  BY DEF ReadLocal
<1>2. TypeOK'
  <2>1. buffer' \in Seq(Byte) /\ pos' \in 0..Len(src) /\ nread' \in -1..BUFFER_SIZE
    BY <1>1, TakeFacts
  <2> QED BY <2>1 DEF IInv, TypeOK, ReadLocal
<1>3. HandlesAt'
  BY <1>0 DEF IInv, HandlesAt, ReadLocal
<1>4. DataAt'
  <2>1. nread' >= 0 /\ handle'[To] # "null"
    BY <1>1, TakeFacts DEF IInv, HandlesAt, ReadLocal
  <2>2. dst' = SubSeq(src, 1, pos' - nread')
    BY <1>1, TakeFacts DEF IInv, DataAt, ReadLocal
  <2>3. faults = {} /\ nread' < BUFFER_SIZE => pos' = Len(src)
    BY <1>1, TakeFacts DEF Take
  <2> QED BY <1>0, <1>1, <2>1, <2>2, <2>3, TakeFacts DEF IInv, DataAt, ReadLocal
<1>5. ReliableAt'
  BY <1>1, TakeFacts DEF IInv, ReliableAt, ReadLocal
<1>6. PrefixOfSource'
  BY <1>0 DEF IInv, DataAt, PrefixOfSource, ReadLocal
<1> QED BY <1>2, <1>3, <1>4, <1>5, <1>6 DEF IInv

LEMMA ReadRemoteInv == IInv /\ ReadRemote => IInv'
<1> SUFFICES ASSUME IInv, ReadRemote PROVE IInv'
  OBVIOUS
<1> USE StateFacts
<1>0. From' = From /\ To' = To
  BY DEF From, To, ReadRemote
<1>1. HandlesAt'
  BY <1>0 DEF IInv, HandlesAt, ReadRemote
<1>2. PrefixOfSource'
  BY <1>0 DEF IInv, DataAt, PrefixOfSource, ReadRemote
<1>3. CASE nread' = -1 /\ (up => "sftp_read" \in faults) /\ UNCHANGED <<buffer, pos>>
  <2>1. TypeOK'
    BY <1>3 DEF IInv, TypeOK, ReadRemote
  <2>2. DataAt'
    BY <1>0, <1>3 DEF IInv, DataAt, HandlesAt, ReadRemote
  <2>3. ReliableAt'
    BY <1>3 DEF IInv, ReliableAt, ReadRemote
  <2> QED BY <1>1, <1>2, <2>1, <2>2, <2>3 DEF IInv
<1>4. ASSUME NEW n \in 0..Available, Take(n), up,
             n = Available \/ (n > 0 /\ "short_read" \in faults)
      PROVE  IInv'
  <2>1. TypeOK'
    <3>1. buffer' \in Seq(Byte) /\ pos' \in 0..Len(src) /\ nread' \in -1..BUFFER_SIZE
      BY <1>4, TakeFacts
    <3> QED BY <3>1 DEF IInv, TypeOK, ReadRemote
  <2>2. DataAt'
    <3>1. nread' >= 0 /\ handle'[To] # "null"
      BY <1>4, TakeFacts DEF IInv, HandlesAt, ReadRemote
    <3>2. dst' = SubSeq(src, 1, pos' - nread')
      BY <1>4, TakeFacts DEF IInv, DataAt, ReadRemote
    <3>3. faults = {} /\ nread' < BUFFER_SIZE => pos' = Len(src)
      BY <1>4, TakeFacts DEF Take
    <3> QED BY <1>0, <1>4, <3>1, <3>2, <3>3, TakeFacts DEF IInv, DataAt, ReadRemote
  <2>3. ReliableAt'
    BY <1>4, TakeFacts DEF IInv, ReliableAt, ReadRemote
  <2> QED BY <1>1, <1>2, <2>1, <2>2, <2>3 DEF IInv
<1> QED BY <1>3, <1>4 DEF ReadRemote

(* A write extends the prefix that was there by the part that was taken. *)
LEMMA StoredFacts ==
    ASSUME IInv, pc = "write", nread >= 0, NEW n \in 0..nread, Stored(n)
    PROVE  /\ dst' = SubSeq(src, 1, pos - nread + n)
           /\ dst' \in Seq(Byte \cup {Junk})
           /\ Len(dst') = pos - nread + n
           /\ IsPrefix(dst', src)
           /\ dst \in Seq(Byte \cup {Junk}) /\ Len(dst) = pos - nread
<1>1. /\ nread \in Int /\ pos \in Int /\ pos <= Len(src) /\ Len(src) \in Int
      /\ src \in Seq(Byte \cup {Junk})
  BY StateFacts DEF IInv, TypeOK
<1>2. /\ nread <= pos
      /\ buffer = SubSeq(src, pos - nread + 1, pos)
      /\ dst = SubSeq(src, 1, pos - nread)
  BY DEF IInv, DataAt
<1> DEFINE p == pos - nread
<1>3. /\ p \in 0..Len(src) /\ nread \in Nat /\ p + nread = pos
      /\ p + n \in 0..Len(src)
  BY <1>1, <1>2
<1>4. p + nread <= Len(src)
  BY <1>1, <1>3
<1>5. dst = SubSeq(src, 1, p) /\ buffer = SubSeq(src, p + 1, p + nread)
  BY <1>2, <1>3
<1> HIDE DEF p
<1>6. dst' = SubSeq(src, 1, p + n) /\ Len(dst') = p + n
  BY <1>1, <1>3, <1>4, <1>5, PrefixGrows DEF Stored
<1>7. dst' \in Seq(Byte \cup {Junk}) /\ IsPrefix(dst', src)
  BY <1>1, <1>3, <1>6, PrefixTypes
<1>8. dst \in Seq(Byte \cup {Junk}) /\ Len(dst) = p
  BY <1>1, <1>3, <1>5, PrefixTypes
<1> QED BY <1>6, <1>7, <1>8 DEF p

(* The loop is left unless a full block was written. *)
LEMMA LoopFacts ==
    ASSUME IInv, pc = "write", nread >= 0, NEW n \in 0..nread, Stored(n),
           UNCHANGED <<src, pos, nread>>
    PROVE  /\ nwrite' = n /\ LoopAgain => dst' = SubSeq(src, 1, pos)
           /\ nwrite' = n /\ n = nread /\ ~LoopAgain /\ faults = {} => dst' = src
<1> USE StateFacts
<1>1. nread \in Nat /\ nread <= BUFFER_SIZE
  BY DEF IInv, TypeOK
<1>2. nwrite' = n /\ LoopAgain => dst' = SubSeq(src, 1, pos)
  <2>1. pos - nread + nread = pos
    BY <1>1
  <2>2. nwrite' = n /\ LoopAgain => n = nread
    BY DEF LoopAgain
  <2>3. dst' = SubSeq(src, 1, pos - nread + n)
    BY StoredFacts
  <2> QED BY <2>1, <2>2, <2>3
<1>3. nwrite' = n /\ n = nread /\ ~LoopAgain /\ faults = {} => dst' = src
  <2> SUFFICES ASSUME nwrite' = n, n = nread, ~LoopAgain, faults = {} PROVE dst' = src
    OBVIOUS
  <2>1. nread < BUFFER_SIZE
    BY <1>1 DEF LoopAgain
  <2>2. pos = Len(src)
    BY <2>1 DEF IInv, DataAt
  <2>3. pos - nread + n = Len(src)
    BY <1>1, <2>2
  <2> QED BY <2>3, StoredFacts, SubSeqFull
<1> QED BY <1>2, <1>3

(* A write after a read that went well: all of the block or less of it was *)
(* taken, and the call may report a failure nevertheless.                  *)
LEMMA WriteInv ==
    ASSUME IInv, pc = "write", nread >= 0, NEW n \in 0..nread, Stored(n),
           nwrite' \in {n, -1}, up' \in BOOLEAN,
           faults = {} /\ up' => nwrite' = nread,
           pc' = IF LoopAgain THEN "read" ELSE "close",
           UNCHANGED <<dir, faults, src, handle, buffer, pos, nread, rc>>
    PROVE  IInv'
<1>0. /\ From' = From /\ To' = To
      /\ handle[To] = "open" /\ handle[From] = "open"
  BY DEF From, To, IInv, HandlesAt
<1>1. nread \in Int /\ nread <= BUFFER_SIZE /\ BUFFER_SIZE \in Nat
  BY StateFacts DEF IInv, TypeOK
<1>2. nwrite' \in -1..BUFFER_SIZE /\ dst' \in Seq(Byte \cup {Junk})
  BY <1>1, StoredFacts
<1>3. TypeOK'
  BY <1>2 DEF IInv, TypeOK
<1>4. HandlesAt'
  BY <1>0 DEF IInv, HandlesAt
<1>5. LoopAgain => nwrite' = n
  BY <1>1 DEF LoopAgain
<1>6. DataAt'
  BY <1>0, <1>2, <1>5, LoopFacts DEF IInv, DataAt
<1>7. ReliableAt'
  <2>1. faults = {} /\ up' => nwrite' = n /\ n = nread
    BY <1>1
  <2>2. faults = {} /\ pc' = "close" /\ up' => dst' = src'
    BY <2>1, LoopFacts
  <2> QED BY <2>2 DEF IInv, ReliableAt
<1>8. PrefixOfSource'
  BY StoredFacts DEF PrefixOfSource
<1> QED BY <1>3, <1>4, <1>6, <1>7, <1>8 DEF IInv

LEMMA SendBlockInv == IInv /\ SendBlock => IInv'
<1> SUFFICES ASSUME IInv, SendBlock PROVE IInv'
  OBVIOUS
<1>0. /\ pc = "write" /\ nread >= 0 /\ nread \in Int
      /\ pc' = IF LoopAgain THEN "read" ELSE "close"
      /\ UNCHANGED <<dir, faults, src, handle, buffer, pos, nread, rc>>
  BY DEF SendBlock, IInv, DataAt, TypeOK
<1>1. ASSUME NEW n \in 0..nread, up, n = nread \/ "sftp_write" \in faults,
             Stored(n), nwrite' = n, UNCHANGED up
      PROVE  IInv'
  BY <1>0, <1>1, WriteInv
<1>2. ASSUME NEW n \in 0..nread, up' = FALSE \/ (up' = TRUE /\ "sftp_write" \in faults),
             Stored(n), nwrite' = -1
      PROVE  IInv'
  BY <1>0, <1>2, WriteInv
<1>3. CASE ~up /\ nwrite' = -1 /\ UNCHANGED <<dst, up>>
  <2>1. Stored(0)
    <3>1. SubSeq(buffer, 1, 0) = <<>> /\ dst \in Seq(Byte \cup {Junk})
      BY SubSeqEmpty DEF IInv, TypeOK, HandlesAt, DataAt, SendBlock
    <3>2. dst \o <<>> = dst
      BY <3>1, ConcatEmptySeq
    <3> QED BY <1>3, <3>1, <3>2 DEF Stored
  <2>2. 0 \in 0..nread /\ up' \in BOOLEAN /\ up' = FALSE
    BY <1>0, <1>3 DEF IInv, TypeOK
  <2> QED BY <1>0, <1>3, <2>1, <2>2, WriteInv
<1> QED BY <1>1, <1>2, <1>3 DEF SendBlock

LEMMA StoreBlockInv == IInv /\ StoreBlock => IInv'
<1> SUFFICES ASSUME IInv, StoreBlock PROVE IInv'
  OBVIOUS
<1>0. /\ pc = "write" /\ nread >= 0 /\ up' \in BOOLEAN
      /\ pc' = IF LoopAgain THEN "read" ELSE "close"
      /\ UNCHANGED <<dir, faults, src, handle, buffer, pos, nread, rc>>
  BY DEF StoreBlock, IInv, TypeOK
<1>1. PICK n \in 0..nread : /\ n = nread \/ "fwrite" \in faults
                           /\ Stored(n) /\ nwrite' = n
  BY DEF StoreBlock
<1> QED BY <1>0, <1>1, WriteInv

LEMMA StoreGarbageInv == IInv /\ StoreGarbage => IInv'
<1> SUFFICES ASSUME IInv, StoreGarbage PROVE IInv'
  OBVIOUS
<1>0. /\ From' = From /\ To' = To /\ nread' = nread /\ nread < 0
      /\ handle[To] = "open" /\ handle[From] = "open"
      /\ dst \in Seq(Byte \cup {Junk})
  BY DEF From, To, StoreGarbage, IInv, HandlesAt, DataAt
<1>1. dst' \in Seq(Byte \cup {Junk}) /\ nwrite' \in -1..BUFFER_SIZE
  <2>1. Append(dst, Junk) \in Seq(Byte \cup {Junk})
    BY <1>0, AppendProperties
  <2>2. nwrite \in -1..BUFFER_SIZE /\ BUFFER_SIZE \in Nat
    BY BufferAssumption DEF IInv, TypeOK
  <2> QED BY <1>0, <2>1, <2>2 DEF StoreGarbage
<1>2. pc' \in {"crashed", "close"}
  BY <1>0, BufferAssumption DEF StoreGarbage, LoopAgain
<1>3. TypeOK'
  BY <1>1, <1>2 DEF IInv, TypeOK, StoreGarbage
<1>4. HandlesAt'
  BY <1>0, <1>2 DEF HandlesAt, StoreGarbage
<1>5. DataAt'
  BY <1>0, <1>1, <1>2 DEF IInv, DataAt, StoreGarbage
<1>6. ReliableAt'
  BY <1>0, <1>2 DEF IInv, ReliableAt, StoreGarbage
<1>7. PrefixOfSource'
  BY <1>0, BufferAssumption DEF IInv, TypeOK, PrefixOfSource
<1> QED BY <1>3, <1>4, <1>5, <1>6, <1>7 DEF IInv

LEMMA CloseInv == IInv /\ Close => IInv'
<1> SUFFICES ASSUME IInv, Close PROVE IInv'
  OBVIOUS
<1>0. /\ From' = From /\ To' = To /\ nread' = nread /\ src' = src /\ pc' = "return"
      /\ handle[To] = "open" /\ handle[From] = "open"
      /\ handle'[To] = "closed" /\ handle'[From] = "closed"
      /\ dst \in Seq(Byte \cup {Junk})
      /\ rc' \in {SSH_OK, SSH_ERROR} /\ (rc' = SSH_OK => up)
  <2>1. From' = From /\ To' = To /\ nread' = nread /\ src' = src /\ pc' = "return"
    BY DEF From, To, Close
  <2>2. handle[To] = "open" /\ handle[From] = "open" /\ dst \in Seq(Byte \cup {Junk})
    BY DEF Close, IInv, HandlesAt, DataAt
  <2>3. handle'[To] = "closed" /\ handle'[From] = "closed"
    BY StateFacts DEF Close
  <2>4. rc' \in {SSH_OK, SSH_ERROR} /\ (rc' = SSH_OK => up)
    BY DEF Close, SSH_OK, SSH_ERROR
  <2> QED BY <2>1, <2>2, <2>3, <2>4
<1>1. PICK n \in 0..Len(dst) : dst' = dst \/ dst' = SubSeq(dst, 1, n)
  BY <1>0, LenProperties DEF Close
<1>2. dst' \in Seq(Byte \cup {Junk})
  BY <1>0, <1>1, PrefixTypes
<1>3. TypeOK'
  BY <1>0, <1>2 DEF IInv, TypeOK, Close
<1>4. HandlesAt'
  BY <1>0 DEF HandlesAt
<1>5. DataAt'
  BY <1>0, <1>2 DEF IInv, DataAt, Close
<1>6. ReliableAt'
  BY <1>0 DEF IInv, TypeOK, ReliableAt, Close
<1>7. PrefixOfSource'
  <2> SUFFICES ASSUME nread >= 0 PROVE IsPrefix(dst', src)
    BY <1>0 DEF PrefixOfSource, IsPrefix
  <2>1. IsPrefix(dst, src)
    BY <1>0 DEF IInv, PrefixOfSource
  <2> QED BY <1>0, <1>1, <2>1, StateFacts, PrefixShrinks
<1> QED BY <1>3, <1>4, <1>5, <1>6, <1>7 DEF IInv

LEMMA LoseConnectionInv == IInv /\ LoseConnection => IInv'
<1> SUFFICES ASSUME IInv, LoseConnection PROVE IInv'
  OBVIOUS
<1> USE DEF LoseConnection
<1>0. From' = From /\ To' = To
  BY DEF From, To
<1>1. TypeOK'
  BY DEF IInv, TypeOK
<1>2. HandlesAt' /\ DataAt'
  BY <1>0 DEF IInv, HandlesAt, DataAt
<1>3. ReliableAt'
  BY DEF IInv, ReliableAt
<1>4. PrefixOfSource'
  BY <1>0 DEF IInv, PrefixOfSource, IsPrefix
<1> QED BY <1>1, <1>2, <1>3, <1>4 DEF IInv

-----------------------------------------------------------------------------

LEMMA StepInv == IInv /\ [Next]_vars => IInv'
<1> SUFFICES ASSUME IInv, [Next]_vars PROVE IInv'
  OBVIOUS
<1>1. CASE UNCHANGED vars
  BY <1>1 DEF vars, IInv, TypeOK, HandlesAt, DataAt, ReliableAt, PrefixOfSource,
              From, To, IsPrefix
<1>2. CASE Next
  BY <1>2, OpenSourceInv, OpenDestInv, ReadLocalInv, ReadRemoteInv, SendBlockInv,
     StoreBlockInv, StoreGarbageInv, CloseInv, LoseConnectionInv DEF Next, Step
<1> QED BY <1>1, <1>2

LEMMA Inductive == Spec => []IInv
BY InitInv, StepInv, PTL DEF Spec

(* push_single and pull_single keep every variable in its type, whatever   *)
(* the files are and whichever calls fail.                                 *)
THEOREM TypeCorrect == Spec => []TypeOK
<1>1. IInv => TypeOK
  BY DEF IInv
<1> QED BY <1>1, Inductive, PTL

(* For every file, every block size and every set of failing calls: unless *)
(* sftp_read failed, the destination is a prefix of the source.            *)
THEOREM PrefixSafe == Spec => []PrefixOfSource
<1>1. IInv => PrefixOfSource
  BY DEF IInv
<1> QED BY <1>1, Inductive, PTL

(* Both functions give back every handle they opened, but for the source's *)
(* handle when the destination cannot be opened.                           *)
THEOREM HandlesReleased == Spec => []OneHandleLost
<1>1. IInv => OneHandleLost
  BY DEF IInv, HandlesAt, OneHandleLost
<1> QED BY <1>1, Inductive, PTL

(* No file is overwritten, nor even truncated, before the file it is to be *)
(* replaced with has been opened.                                          *)
THEOREM SourceOpenedFirst == Spec => SourceFirst
<1>1. IInv /\ [Next]_vars => [dst' # dst => handle[From] = "open"]_vars
  <2> SUFFICES ASSUME IInv, Next, dst' # dst PROVE handle[From] = "open"
    OBVIOUS
  <2>1. pc \in {"open_dest", "write", "close"}
    BY DEF Next, Step, OpenSource, OpenDest, ReadLocal, ReadRemote, SendBlock,
           StoreBlock, StoreGarbage, Close, LoseConnection
  <2> QED BY <2>1 DEF IInv, HandlesAt
<1> QED BY <1>1, Inductive, PTL DEF Spec, SourceFirst

-----------------------------------------------------------------------------

(* The abstract status, by what the function has come to. *)
Status ==
    IF pc = "return" /\ rc = SSH_OK THEN "ok"
    ELSE IF pc \in {"return", "crashed"} \/ nread < 0 THEN "error"
    ELSE IF handle[To] = "open" THEN "copying" ELSE "idle"

LEMMA StartMaps == Init => Copy!Init
BY BufferAssumption DEF Init, Copy!Init, From, To, Side, SSH_OK

(* The steps of FileCopy in terms of the functions' state. *)
LEMMA AbstractSteps ==
    ASSUME UNCHANGED src,
           \/ Status' = Status /\ dst' = dst
           \/ Status = "idle" /\ Status' = "copying" /\ dst' = <<>>
           \/ /\ Status = "copying" /\ Status' = "copying"
              /\ Len(dst) < Len(dst') /\ IsPrefix(dst', src)
           \/ Status = "copying" /\ Status' = "ok" /\ dst' = dst /\ dst = src
           \/ Status \in {"idle", "copying"} /\ Status' = "error"
           \/ Status = "error" /\ Status' = "error"
    PROVE  [Copy!Next]_(Copy!vars)
BY DEF Status, Copy!Next, Copy!Begin, Copy!Grow, Copy!Succeed, Copy!Fail,
       Copy!Abandoned, Copy!vars, IsPrefix, Copy!IsPrefix

(* What FileCopy sees of the functions' states. *)
StatusAt ==
    /\ pc \in {"open_source", "open_dest"} => Status = "idle"
    /\ pc \in {"read", "write", "close"} =>
          Status = IF nread < 0 THEN "error" ELSE "copying"
    /\ pc = "return" => Status = IF rc = SSH_OK THEN "ok" ELSE "error"
    /\ pc = "crashed" => Status = "error"

LEMMA StatusFacts == IInv => StatusAt
<1> SUFFICES ASSUME IInv PROVE StatusAt
  OBVIOUS
<1>1. nread \in Int
  BY BufferAssumption DEF IInv, TypeOK
<1>2. CASE pc \in {"open_source", "open_dest"}
  BY <1>2 DEF IInv, HandlesAt, DataAt, Status, StatusAt
<1>3. CASE pc \in {"read", "write", "close"}
  BY <1>1, <1>3 DEF IInv, HandlesAt, Status, StatusAt
<1>4. CASE pc \in {"return", "crashed"}
  BY <1>4 DEF Status, StatusAt
<1> QED BY <1>2, <1>3, <1>4 DEF IInv, TypeOK

LEMMA StatusFactsNext == IInv' => StatusAt'
BY StatusFacts, PTL

(* A block that is written is a step of FileCopy. *)
LEMMA WriteMaps ==
    ASSUME IInv, IInv', pc = "write", nread >= 0, NEW n \in 0..nread, Stored(n),
           pc' \in {"read", "close"}, UNCHANGED <<src, nread>>
    PROVE  [Copy!Next]_(Copy!vars)
<1>1. Status = "copying" /\ Status' = "copying"
  BY StatusFacts, StatusFactsNext DEF StatusAt, IInv, TypeOK
<1>2. /\ dst' = SubSeq(src, 1, pos - nread + n) /\ IsPrefix(dst', src)
      /\ Len(dst') = pos - nread + n /\ Len(dst) = pos - nread
  BY StoredFacts
<1>3. pos \in Int /\ nread \in Int /\ n \in Int /\ n >= 0
  BY StateFacts DEF IInv, TypeOK
<1>4. CASE n > 0
  <2>1. Len(dst) < Len(dst')
    BY <1>2, <1>3, <1>4
  <2> QED BY <1>1, <1>2, <2>1, AbstractSteps
<1>5. CASE n = 0
  <2>1. dst' = SubSeq(src, 1, pos - nread)
    BY <1>2, <1>3, <1>5
  <2>2. dst = SubSeq(src, 1, pos - nread)
    BY DEF IInv, DataAt
  <2> QED BY <1>1, <2>1, <2>2, AbstractSteps
<1> QED BY <1>3, <1>4, <1>5

(* Without faults every step of the functions is one of FileCopy, or       *)
(* changes nothing FileCopy sees.                                          *)
LEMMA StepMaps ==
    ASSUME faults = {}, IInv, IInv', [Next]_vars
    PROVE  [Copy!Next]_(Copy!vars)
<1> USE DEF SSH_OK, SSH_ERROR
<1>0. nread \in Int /\ nread' \in Int
  BY BufferAssumption DEF IInv, TypeOK
<1>1. CASE OpenSource
  BY <1>1, StatusFacts, StatusFactsNext, AbstractSteps DEF StatusAt, OpenSource
<1>2. CASE OpenDest
  <2>1. nread' = 0
    BY <1>2 DEF OpenDest, IInv, HandlesAt, DataAt
  <2> QED BY <1>2, <2>1, StatusFacts, StatusFactsNext, AbstractSteps DEF StatusAt, OpenDest
<1>3. CASE ReadLocal
  <2>1. nread >= 0 /\ nread' >= 0
    BY <1>3 DEF ReadLocal, IInv, DataAt
  <2> QED BY <1>0, <1>3, <2>1, StatusFacts, StatusFactsNext, AbstractSteps DEF StatusAt, ReadLocal
<1>4. CASE ReadRemote
  <2>1. nread >= 0
    BY <1>4 DEF ReadRemote, IInv, DataAt
  <2> QED BY <1>0, <1>4, <2>1, StatusFacts, StatusFactsNext, AbstractSteps DEF StatusAt, ReadRemote
<1>5. CASE SendBlock
  <2>1. nread >= 0 /\ pc' \in {"read", "close"}
    BY <1>5 DEF SendBlock, IInv, DataAt
  <2>2. \/ \E n \in 0..nread : Stored(n)
        \/ dst' = dst
    BY <1>5 DEF SendBlock
  <2>3. CASE dst' = dst
    BY <1>0, <1>5, <2>1, <2>3, StatusFacts, StatusFactsNext, AbstractSteps DEF StatusAt, SendBlock
  <2> QED BY <1>5, <2>1, <2>2, <2>3, WriteMaps DEF SendBlock
<1>6. CASE StoreBlock
  BY <1>6, WriteMaps DEF StoreBlock
<1>7. CASE StoreGarbage
  <2>1. pc' \in {"crashed", "close"} /\ nread < 0 /\ nread' = nread
    BY <1>7, BufferAssumption DEF StoreGarbage, LoopAgain
  <2> QED BY <1>7, <2>1, StatusFacts, StatusFactsNext, AbstractSteps DEF StatusAt, StoreGarbage
<1>8. CASE Close
  <2>1. dst' = dst /\ src' = src /\ pc' = "return" /\ pc = "close"
    BY <1>8 DEF Close
  <2>2. rc' = SSH_OK => up
    BY <1>8 DEF Close
  <2>3. rc' = SSH_OK => nread >= 0 /\ dst = src
    BY <1>0, <2>1, <2>2 DEF IInv, ReliableAt
  <2> QED BY <1>0, <2>1, <2>3, StatusFacts, StatusFactsNext, AbstractSteps DEF StatusAt
<1>9. CASE LoseConnection \/ UNCHANGED vars
  <2>1. Status' = Status /\ UNCHANGED <<src, dst>>
    BY <1>9 DEF LoseConnection, vars, Status, To
  <2> QED BY <2>1, AbstractSteps
<1> QED BY <1>1, <1>2, <1>3, <1>4, <1>5, <1>6, <1>7, <1>8, <1>9 DEF Next, Step

(* In a transfer in which the calls fail only with the connection, or by   *)
(* returning an error the code looks at, push_single and pull_single       *)
(* implement FileCopy: for every source and every block size, SSH_OK means *)
(* a complete copy.                                                        *)
THEOREM ImplementsFileCopy == Spec => CopySpec
<1>1. IInv /\ IInv' /\ [Next]_vars => [faults = {} => Copy!Next]_(Copy!vars)
  <2> SUFFICES ASSUME IInv, IInv', [Next]_vars, faults = {}
               PROVE  [Copy!Next]_(Copy!vars)
    OBVIOUS
  <2> QED BY StepMaps
<1> QED BY <1>1, StartMaps, Inductive, PTL DEF Spec, CopySpec
=============================================================================
