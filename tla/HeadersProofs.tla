--------------------------- MODULE HeadersProofs ---------------------------
(***************************************************************************)
(* What the code in libssh's headers guarantees: the callback structs for  *)
(* every layout and version, the reads and writes of the wrapper for every *)
(* width of int and every size, its objects for any number of them.        *)
(***************************************************************************)
EXTENDS MCHeaders, SequenceTheorems, TLAPS

(* The struct is one of a version of the library's, and its size is noted  *)
(* or still 0.                                                             *)
StructAt ==
    /\ theirs \in Structs /\ own \in Versions(theirs)
    /\ size \in {0, Len(own)}
    /\ set \subseteq Fields(own)

(* Versions agree wherever both have a field. *)
LEMMA VersionsAgree ==
    ASSUME NEW s \in Structs, NEW v \in Versions(s)
    PROVE  /\ Len(v) \in Nat /\ DOMAIN v = 1..Len(v) /\ Len(s) \in Nat
           /\ DOMAIN s = 1..Len(s)
           /\ \A i \in DOMAIN s \cap DOMAIN v : v[i] = s[i] /\ s[i] # "NULL"
<1>1. s \in Seq(STRING \ {"NULL"}) /\ Len(s) \in Nat /\ DOMAIN s = 1..Len(s)
  BY StructsAssumption, LenProperties
<1>2. \A i \in 1..Len(s) : s[i] \in STRING \ {"NULL"}
  BY <1>1, ElementOfSeq
<1>3. CASE v = Append(s, "added_later")
  <2> DEFINE T == STRING \cup {"added_later"}
  <2>1. s \in Seq(T) /\ "added_later" \in T
    BY <1>1, SeqMonotonic
  <2> HIDE DEF T
  <2>2. /\ v \in Seq(T) /\ Len(v) = Len(s) + 1
        /\ \A i \in 1..Len(s) : v[i] = s[i]
    BY <1>1, <1>3, <2>1
  <2>3. DOMAIN v = 1..Len(v)
    BY <2>2, LenProperties
  <2> QED BY <1>1, <1>2, <2>2, <2>3
<1>4. ASSUME NEW n \in 1..Len(s), v = SubSeq(s, 1, n)
      PROVE  /\ v \in Seq(STRING) /\ Len(v) = n /\ DOMAIN v = 1..n
             /\ \A i \in 1..n : v[i] = s[i]
  <2>1. \A i \in 1..n : s[i] \in STRING
    BY <1>1, <1>2
  <2>2. n \in Int /\ n >= 0 /\ n <= Len(s)
    BY <1>1
  <2>3. v \in Seq(STRING)
    BY <1>1, <1>4, <2>1, <2>2, SubSeqProperties
  <2>4. Len(v) = n /\ \A i \in 1..n : v[i] = s[i]
    BY <1>1, <1>4, <2>2
  <2> QED BY <2>3, <2>4, LenProperties
<1> QED BY <1>1, <1>2, <1>3, <1>4 DEF Versions

(* What the library takes for a function is the one that was set. *)
LEMMA WordFacts ==
    ASSUME StructAt, NEW i \in DOMAIN theirs, ssh_callbacks_exists(i)
    PROVE  Word(i) = theirs[i]
<1>1. Len(own) \in Nat /\ i \in Nat /\ i >= 1
  BY VersionsAgree DEF StructAt
<1>2. i \in DOMAIN own
  <2>1. i - 1 < size /\ size \in {0, Len(own)}
    BY DEF StructAt, ssh_callbacks_exists
  <2>2. i \in 1..Len(own)
    BY <1>1, <2>1
  <2> QED BY <2>2, VersionsAgree DEF StructAt
<1>3. own[i] = theirs[i]
  BY <1>2, VersionsAgree DEF StructAt
<1> QED BY <1>2, <1>3 DEF ssh_callbacks_exists, Word

(* A function that was set is found once the size is noted. *)
LEMMA FoundFacts ==
    ASSUME StructAt, NEW i \in DOMAIN theirs, theirs[i] \in set, registered, size > 0
    PROVE  ssh_callbacks_exists(i)
<1>1. /\ Len(own) \in Nat /\ Len(theirs) \in Nat
      /\ i \in 1..Len(theirs)
  BY VersionsAgree DEF StructAt
<1>2. DOMAIN own = 1..Len(own) /\ DOMAIN theirs = 1..Len(theirs)
  BY VersionsAgree DEF StructAt
<1>3. \A j \in DOMAIN theirs \cap DOMAIN own : own[j] = theirs[j] /\ theirs[j] # "NULL"
  BY VersionsAgree DEF StructAt
<1>4. i \in 1..Len(own)
  <2>1. PICK j \in DOMAIN own : own[j] = theirs[i]
    BY DEF StructAt, Fields
  <2>2. CASE j \in DOMAIN theirs
    <3>1. theirs[j] = theirs[i]
      BY <1>3, <2>1, <2>2
    <3>2. j = i
      BY <2>2, <3>1, StructsAssumption DEF StructAt
    <3> QED BY <1>2, <2>1, <3>2
  <2>3. CASE j \notin DOMAIN theirs
    <3>1. j \in 1..Len(own) /\ j \notin 1..Len(theirs)
      BY <1>2, <2>1, <2>3
    <3> QED BY <1>1, <3>1
  <2> QED BY <2>2, <2>3
<1>5. Word(i) = theirs[i] /\ Word(i) # "NULL"
  BY <1>2, <1>3, <1>4 DEF Word
<1>6. i - 1 < size
  <2>1. size = Len(own)
    <3>1. size # 0
      OBVIOUS
    <3> QED BY <3>1 DEF StructAt
  <2> QED BY <1>1, <1>4, <2>1
<1> QED BY <1>5, <1>6 DEF ssh_callbacks_exists

LEMMA StructKept ==
    ASSUME StructAt, CallsWhatIsSet, [Next]_vars
    PROVE  /\ StructAt' /\ CallsWhatIsSet'
           /\ <<event, called>>' # <<event, called>> /\ registered /\ size > 0 /\ event' \in set
                 => called' = event'
<1>1. CASE ssh_callbacks_init
  BY <1>1 DEF ssh_callbacks_init, StructAt, CallsWhatIsSet
<1>2. CASE Assign
  BY <1>2 DEF Assign, StructAt, CallsWhatIsSet, Fields
<1>3. CASE Register
  BY <1>3 DEF Register, StructAt, CallsWhatIsSet
<1>4. CASE Event
  <2>1. PICK i \in DOMAIN theirs :
           /\ event' = theirs[i]
           /\ called' = IF ssh_callbacks_exists(i) THEN Word(i) ELSE "none"
    BY <1>4 DEF Event
  <2>2. CallsWhatIsSet'
    BY <2>1, WordFacts DEF CallsWhatIsSet
  <2>3. registered /\ size > 0 /\ event' \in set => called' = event'
    BY <2>1, WordFacts, FoundFacts
  <2> QED BY <1>4, <2>2, <2>3 DEF Event, StructAt
<1>5. CASE UNCHANGED vars
  BY <1>5 DEF vars, StructAt, CallsWhatIsSet
<1> QED BY <1>1, <1>2, <1>3, <1>4, <1>5 DEF Next

-----------------------------------------------------------------------------

(* What a conversion to uint32_t keeps of a size. *)
LEMMA ToUintFacts ==
    ASSUME NEW n \in Nat
    PROVE  /\ Sizes!ToUint(n) \in Nat /\ Sizes!ToUint(n) <= n
           /\ n <= INT_MAX => Sizes!ToUint(n) = n
           /\ Sizes!ToUint(n) < 2 * (INT_MAX + 1)
<1> DEFINE m == 2 * (INT_MAX + 1)
<1>1. m \in Nat /\ m > INT_MAX /\ m > 0 /\ INT_MAX \in Nat
  BY BoundsAssumption
<1>2. n % m \in 0..(m - 1) /\ n % m <= n /\ (n < m => n % m = n)
  <2> HIDE DEF m
  <2> QED BY <1>1
<1>3. Sizes!ToUint(n) = n % m
  BY DEF Sizes!ToUint, Sizes!UINT_RANGE
<1> HIDE DEF m
<1>4. n <= INT_MAX => n < m
  BY <1>1
<1> QED BY <1>1, <1>2, <1>3, <1>4 DEF m

(* What the C function is asked for, and what it may then have done. *)
AskedAt ==
    /\ asked \in Nat /\ asked <= count
    /\ call # "write" \/ count <= INT_MAX => asked <= INT_MAX
    /\ asked < 2 * (INT_MAX + 1)
AnswerAt ==
    \/ moved \in 0..asked /\ err = Sizes!ToInt(moved)
    \/ moved = 0 /\ err \in {Sizes!SSH_ERROR, Sizes!SSH_AGAIN, Sizes!SSH_EOF}
SizesAt ==
    /\ count \in Nat
    /\ pc \in {"convert", "call", "return", "done"}
    /\ pc # "convert" => AskedAt
    /\ pc \in {"return", "done"} => AnswerAt
    /\ pc = "done" => outcome = IF err = Sizes!SSH_ERROR THEN "thrown" ELSE "returned"

LEMMA SizesKept == SizesAt /\ [Sizes!Next]_sizes => SizesAt'
<1> SUFFICES ASSUME SizesAt, [Sizes!Next]_sizes PROVE SizesAt'
  OBVIOUS
<1>1. CASE Sizes!Convert
  <2> DEFINE n == IF call = "write" THEN count ELSE Sizes!Clamp(count)
  <2>1. n \in Nat /\ n <= count /\ (call # "write" \/ count <= INT_MAX => n <= INT_MAX)
    BY BoundsAssumption DEF SizesAt, Sizes!Clamp
  <2>2. asked' = Sizes!ToUint(n) /\ pc' = "call" /\ UNCHANGED <<call, count>>
    BY <1>1 DEF Sizes!Convert
  <2> HIDE DEF n
  <2>3. /\ asked' \in Nat /\ asked' <= n
        /\ asked' < 2 * (INT_MAX + 1)
    BY <2>1, <2>2, ToUintFacts
  <2>4. AskedAt'
    BY <2>1, <2>2, <2>3, BoundsAssumption DEF AskedAt, SizesAt
  <2> QED BY <2>2, <2>4 DEF SizesAt
<1>2. CASE Sizes!CCall
  <2>1. pc = "call" /\ pc' = "return" /\ UNCHANGED <<call, count, asked, outcome>>
    BY <1>2 DEF Sizes!CCall
  <2>2. AskedAt'
    BY <2>1 DEF SizesAt, AskedAt
  <2>3. AnswerAt'
    BY <1>2, <2>1 DEF Sizes!CCall, AnswerAt, Sizes!ToInt, Sizes!UINT_RANGE
  <2> QED BY <2>1, <2>2, <2>3 DEF SizesAt
<1>3. CASE Sizes!Return
  <2>1. AskedAt' /\ AnswerAt'
    BY <1>3 DEF Sizes!Return, SizesAt, AskedAt, AnswerAt
  <2> QED BY <1>3, <2>1 DEF Sizes!Return, SizesAt
<1>4. CASE UNCHANGED sizes
  BY <1>4 DEF sizes, SizesAt, AskedAt, AnswerAt
<1> QED BY <1>1, <1>2, <1>3, <1>4 DEF Sizes!Next

LEMMA SizesMeaning == SizesAt => BytesTold
<1> SUFFICES ASSUME SizesAt, pc = "done" PROVE BytesTold
  BY DEF BytesTold, Sizes!BytesTold
<1>1. AskedAt /\ AnswerAt /\ INT_MAX \in Nat /\ count \in Nat
  BY BoundsAssumption DEF SizesAt
<1>2. CASE moved \in 0..asked /\ err = Sizes!ToInt(moved)
  <2>1. /\ moved \in Nat /\ moved <= count /\ err \in Int
        /\ moved <= INT_MAX => err = moved
        /\ moved > INT_MAX => err < 0
        /\ call # "write" \/ count <= INT_MAX => moved <= INT_MAX
    BY <1>1, <1>2 DEF AskedAt, Sizes!ToInt, Sizes!UINT_RANGE
  <2>2. outcome = IF err = -1 THEN "thrown" ELSE "returned"
    BY DEF SizesAt, Sizes!SSH_ERROR
  <2>3. /\ err >= 0 => err = moved
        /\ moved > 0 /\ (call = "write" => count <= INT_MAX) =>
              outcome = "returned" /\ err = moved
    BY <1>1, <2>1, <2>2
  <2>4. err \in {-2, -127} => outcome = "returned"
    BY <2>2
  <2> QED BY <2>1, <2>3, <2>4 DEF BytesTold, Sizes!BytesTold, Sizes!Tells,
             Sizes!SSH_AGAIN, Sizes!SSH_EOF
<1>3. CASE moved = 0 /\ err \in {Sizes!SSH_ERROR, Sizes!SSH_AGAIN, Sizes!SSH_EOF}
  BY <1>1, <1>3 DEF SizesAt, BytesTold, Sizes!BytesTold, Sizes!Tells,
     Sizes!SSH_ERROR, Sizes!SSH_AGAIN, Sizes!SSH_EOF
<1> QED BY <1>1, <1>2, <1>3 DEF AnswerAt

-----------------------------------------------------------------------------

IsSession(o) == Objects!IsSession(o)

(* The C library's objects, and what the client and the wrapper noted. *)
CSession == {"live", "replaced", "freed"}
CChannel == [of : 1..Len(csession), state : {"live", "freed"}]
CLibAt ==
    /\ csession \in Seq(CSession) /\ cchannel \in Seq(CChannel)
    /\ exceptions \in BOOLEAN /\ throwing \in BOOLEAN
    /\ returned \in {"nothing", "result", "SSH_ERROR", "NULL", "pointer"}

(* A Channel was made after its Session, which is still there. *)
OfSession == [kind : {"Session"}, c : 1..Len(csession)]
OfChannel == [kind : {"Channel"}, session : Nat, c : 1..Len(cchannel)]
HasSession(o, n) == o.session \in 1..n /\ IsSession(scope[o.session])
ObjectsAt ==
    /\ scope \in Seq(OfSession \cup OfChannel) /\ heap \subseteq OfChannel
    /\ \A p \in 1..Len(scope) : IsSession(scope[p]) \/ HasSession(scope[p], p - 1)
    /\ \A h \in heap : HasSession(h, Len(scope))
    /\ lost \subseteq 1..Len(cchannel)

(* Handles are alive; a Channel's ssh_channel lives in its Session's       *)
(* ssh_session, or in one that was replaced, which is never freed.         *)
ChannelAt(o) ==
    /\ cchannel[o.c].state = "live"
    /\ \/ cchannel[o.c].of = scope[o.session].c
       \/ csession[cchannel[o.c].of] = "replaced"
AliveAt ==
    /\ \A p \in 1..Len(scope) : IF IsSession(scope[p]) THEN csession[scope[p].c] = "live"
                                ELSE ChannelAt(scope[p])
    /\ \A h \in heap : ChannelAt(h)

(* No two objects own the same. *)
AloneAt ==
    /\ \A p, q \in 1..Len(scope) :
          p # q /\ scope[p].kind = scope[q].kind => scope[p].c # scope[q].c
    /\ \A p \in 1..Len(scope), h \in heap : IsSession(scope[p]) \/ scope[p].c # h.c
    /\ \A g, h \in heap : g # h => g.c # h.c

(* What is alive is owned by an object, or was lost. *)
OwnedAt ==
    /\ \A s \in 1..Len(csession) : csession[s] = "live" =>
          \E p \in 1..Len(scope) : IsSession(scope[p]) /\ scope[p].c = s
    /\ \A c \in 1..Len(cchannel) : cchannel[c].state = "live" =>
          \/ c \in lost
          \/ \E p \in 1..Len(scope) : ~IsSession(scope[p]) /\ scope[p].c = c
          \/ \E h \in heap : h.c = c

WrapperAt == CLibAt /\ ObjectsAt /\ AliveAt /\ AloneAt /\ OwnedAt

(* The elements of the sequences, one by one. *)
LEMMA Elements ==
    ASSUME CLibAt, ObjectsAt
    PROVE  /\ Len(scope) \in Nat /\ Len(csession) \in Nat /\ Len(cchannel) \in Nat
           /\ Objects!Sessions = {p \in 1..Len(scope) : IsSession(scope[p])}
           /\ \A p \in 1..Len(scope) :
                 IF IsSession(scope[p]) THEN scope[p] \in OfSession ELSE scope[p] \in OfChannel
           /\ \A h \in heap : h \in OfChannel /\ ~IsSession(h)
           /\ \A s \in 1..Len(csession) : csession[s] \in CSession
           /\ \A c \in 1..Len(cchannel) : cchannel[c] \in CChannel
<1>1. /\ Len(scope) \in Nat /\ DOMAIN scope = 1..Len(scope)
      /\ Len(csession) \in Nat /\ Len(cchannel) \in Nat
  BY LenProperties DEF CLibAt, ObjectsAt
<1>2. \A p \in 1..Len(scope) : scope[p] \in OfSession \cup OfChannel
  BY ElementOfSeq DEF ObjectsAt
<1>3. /\ \A s \in 1..Len(csession) : csession[s] \in CSession
      /\ \A c \in 1..Len(cchannel) : cchannel[c] \in CChannel
  BY ElementOfSeq DEF CLibAt
<1>4. /\ \A o \in OfSession : IsSession(o)
      /\ \A o \in OfChannel : ~IsSession(o)
  BY DEF OfSession, OfChannel, IsSession, Objects!IsSession
<1>5. Objects!Sessions = {p \in 1..Len(scope) : IsSession(scope[p])}
  BY <1>1 DEF Objects!Sessions, IsSession
<1> QED BY <1>1, <1>2, <1>3, <1>4, <1>5 DEF ObjectsAt

(* One more element at the end of a sequence. *)
LEMMA OneMore ==
    ASSUME NEW T, NEW s \in Seq(T), NEW e \in T
    PROVE  /\ Append(s, e) \in Seq(T) /\ Len(Append(s, e)) = Len(s) + 1
           /\ Append(s, e)[Len(s) + 1] = e
           /\ \A i \in 1..Len(s) : Append(s, e)[i] = s[i]
OBVIOUS

(* One element less. *)
LEMMA OneLess ==
    ASSUME NEW T, NEW s \in Seq(T), s # <<>>
    PROVE  /\ Objects!Front(s) \in Seq(T) /\ Len(s) >= 1
           /\ Len(Objects!Front(s)) = Len(s) - 1
           /\ \A i \in 1..(Len(s) - 1) : Objects!Front(s)[i] = s[i]
<1>1. Len(s) \in Nat /\ Len(s) # 0
  BY LenProperties, EmptySeq
<1> DEFINE n == Len(s) - 1
<1>2. n \in Int /\ n >= 0 /\ n <= Len(s) /\ \A i \in 1..n : s[i] \in T
  BY <1>1, ElementOfSeq
<1>3. SubSeq(s, 1, n) \in Seq(T)
  <2> HIDE DEF n
  <2> QED BY <1>2, SubSeqProperties
<1>4. Len(SubSeq(s, 1, n)) = n /\ \A i \in 1..n : SubSeq(s, 1, n)[i] = s[i]
  <2> HIDE DEF n
  <2> QED BY <1>2
<1> QED BY <1>1, <1>3, <1>4 DEF Objects!Front

(* A session changes. *)
LEMMA OneChanged ==
    ASSUME NEW T, NEW s \in Seq(T), NEW n \in 1..Len(s), NEW e \in T
    PROVE  /\ [s EXCEPT ![n] = e] \in Seq(T) /\ Len([s EXCEPT ![n] = e]) = Len(s)
           /\ [s EXCEPT ![n] = e][n] = e
           /\ \A i \in 1..Len(s) : i # n => [s EXCEPT ![n] = e][i] = s[i]
OBVIOUS

(* What lies in larger sets when the C library makes an object. *)
LEMMA Larger ==
    ASSUME CLibAt, ObjectsAt, Len(csession') \in Nat, Len(csession) <= Len(csession'),
           Len(cchannel') \in Nat, Len(cchannel) <= Len(cchannel')
    PROVE  /\ csession \in Seq(CSession') /\ cchannel \in Seq(CChannel')
           /\ OfSession \subseteq OfSession' /\ OfChannel \subseteq OfChannel'
           /\ scope \in Seq((OfSession \cup OfChannel)')
<1>1. Len(csession) \in Nat /\ Len(cchannel) \in Nat
  BY BoundsAssumption, LenProperties DEF CLibAt
<1>2. 1..Len(csession) \subseteq 1..Len(csession')
      /\ 1..Len(cchannel) \subseteq 1..Len(cchannel')
  BY <1>1
<1>3. CSession \subseteq CSession' /\ CChannel \subseteq CChannel'
  BY <1>2 DEF CSession, CChannel
<1>4. OfSession \subseteq OfSession' /\ OfChannel \subseteq OfChannel'
  BY <1>2 DEF OfSession, OfChannel
<1>5. csession \in Seq(CSession') /\ cchannel \in Seq(CChannel')
  BY <1>3, SeqMonotonic DEF CLibAt
<1>6. scope \in Seq((OfSession \cup OfChannel)')
  <2>1. OfSession \cup OfChannel \subseteq (OfSession \cup OfChannel)'
    BY <1>4
  <2> QED BY <2>1, SeqMonotonic DEF ObjectsAt
<1> QED BY <1>4, <1>5, <1>6

(* A Channel is all right as long as nobody touches its handle, its        *)
(* Session's is kept or replaced, and what was replaced stays so.          *)
LEMMA ChannelKept ==
    ASSUME CLibAt, ObjectsAt, NEW o \in OfChannel, HasSession(o, Len(scope)), ChannelAt(o),
           cchannel'[o.c] = cchannel[o.c],
           \/ scope'[o.session].c = scope[o.session].c
           \/ csession'[scope[o.session].c] = "replaced",
           \A k \in 1..Len(csession) :
              csession[k] = "replaced" => csession'[k] = "replaced"
    PROVE  ChannelAt(o)'
<1>1. cchannel[o.c].of \in 1..Len(csession)
  BY Elements DEF OfChannel, CChannel
<1> QED BY <1>1 DEF ChannelAt

LEMMA NewSessionKeeps ==
    ASSUME WrapperAt, Objects!NewSession PROVE WrapperAt'
<1>1. CLibAt /\ ObjectsAt /\ AliveAt /\ AloneAt /\ OwnedAt
  BY DEF WrapperAt
<1> DEFINE n == Len(scope)  m == Len(csession)
<1>2. n \in Nat /\ m \in Nat /\ Len(cchannel) \in Nat
  BY <1>1, Elements, BoundsAssumption DEF CLibAt
<1>3. /\ csession' = Append(csession, "live")
      /\ scope' = Append(scope, [kind |-> "Session", c |-> m + 1])
      /\ ~throwing
      /\ UNCHANGED <<exceptions, cchannel, heap, lost, throwing, returned>>
  BY DEF Objects!NewSession
<1>4. /\ "live" \in CSession
      /\ csession' \in Seq(CSession) /\ Len(csession') = m + 1
      /\ csession'[m + 1] = "live"
      /\ \A i \in 1..m : csession'[i] = csession[i]
  <2>1. "live" \in CSession
    BY <1>2 DEF CSession
  <2> QED BY <1>1, <1>3, <2>1, OneMore DEF CLibAt
<1>5. /\ csession \in Seq(CSession') /\ cchannel \in Seq(CChannel')
      /\ OfSession \subseteq OfSession' /\ OfChannel \subseteq OfChannel'
      /\ scope \in Seq((OfSession \cup OfChannel)')
  BY <1>1, <1>2, <1>3, <1>4, Larger
<1>6. /\ [kind |-> "Session", c |-> m + 1] \in OfSession'
      /\ scope' \in Seq((OfSession \cup OfChannel)') /\ Len(scope') = n + 1
      /\ scope'[n + 1] = [kind |-> "Session", c |-> m + 1]
      /\ \A i \in 1..n : scope'[i] = scope[i]
  <2>1. [kind |-> "Session", c |-> m + 1] \in OfSession'
    BY <1>2, <1>4 DEF OfSession
  <2> QED BY <1>3, <1>5, <2>1, OneMore
<1>7. CLibAt'
  <2>1. CSession' = CSession
    BY <1>3 DEF CSession
  <2> QED BY <1>1, <1>2, <1>3, <1>4, <1>5, <2>1 DEF CLibAt
<1>8. ObjectsAt'
  BY <1>1, <1>2, <1>3, <1>5, <1>6 DEF ObjectsAt, HasSession, IsSession, Objects!IsSession
<1>9. AliveAt'
  <2>1. ASSUME NEW o \in OfChannel, HasSession(o, n), ChannelAt(o) PROVE ChannelAt(o)'
    <3>1. scope'[o.session] = scope[o.session]
      BY <1>6, <2>1 DEF HasSession
    <3> QED BY <1>1, <1>3, <1>4, <2>1, <3>1, ChannelKept
  <2>2. ASSUME NEW p \in 1..(n + 1), IsSession(scope'[p])
        PROVE  csession'[scope'[p].c] = "live"
    <3>1. CASE p = n + 1
      BY <1>4, <1>6, <3>1
    <3>2. CASE p \in 1..n
      <4>1. scope'[p] = scope[p] /\ scope[p].c \in 1..m /\ csession[scope[p].c] = "live"
        BY <1>1, <1>6, <2>2, <3>2, Elements DEF AliveAt, OfSession
      <4> QED BY <1>4, <4>1
    <3> QED BY <1>2, <3>1, <3>2
  <2>3. ASSUME NEW p \in 1..(n + 1), NEW o, o = scope'[p], ~IsSession(o)
        PROVE  ChannelAt(o)'
    <3>1. p \in 1..n /\ o = scope[p]
      BY <1>2, <1>6, <2>3 DEF IsSession, Objects!IsSession
    <3>2. o \in OfChannel /\ ChannelAt(o)
      BY <1>1, <2>3, <3>1, Elements DEF AliveAt
    <3>3. HasSession(o, n)
      BY <1>1, <1>2, <2>3, <3>1 DEF ObjectsAt, HasSession
    <3> QED BY <2>1, <3>2, <3>3
  <2>4. ASSUME NEW h \in heap PROVE ChannelAt(h)'
    BY <1>1, <2>1, Elements DEF AliveAt, ObjectsAt
  <2> QED BY <1>3, <1>6, <2>2, <2>3, <2>4 DEF AliveAt
<1>10. AloneAt'
  <2>1. \A p \in 1..n : IsSession(scope[p]) => scope[p].c \in 1..m
    BY <1>1, Elements DEF OfSession
  <2>2. ASSUME NEW p \in 1..(n + 1), NEW q \in 1..(n + 1), p # q, scope'[p].kind = scope'[q].kind
        PROVE  scope'[p].c # scope'[q].c
    <3>1. CASE p \in 1..n /\ q \in 1..n
      BY <1>1, <1>6, <2>2, <3>1 DEF AloneAt
    <3>2. CASE p = n + 1 /\ q \in 1..n
      BY <1>2, <1>6, <2>1, <2>2, <3>2 DEF IsSession, Objects!IsSession
    <3>3. CASE q = n + 1 /\ p \in 1..n
      BY <1>2, <1>6, <2>1, <2>2, <3>3 DEF IsSession, Objects!IsSession
    <3> QED BY <1>2, <2>2, <3>1, <3>2, <3>3
  <2> QED BY <1>1, <1>2, <1>3, <1>6, <2>2 DEF AloneAt, IsSession, Objects!IsSession
<1>11. OwnedAt'
  <2>1. ASSUME NEW k \in 1..(m + 1), csession'[k] = "live"
        PROVE  \E p \in 1..(n + 1) : IsSession(scope'[p]) /\ scope'[p].c = k
    <3>1. CASE k = m + 1
      BY <1>2, <1>6, <3>1 DEF IsSession, Objects!IsSession
    <3>2. CASE k \in 1..m
      <4>1. PICK p \in 1..n : IsSession(scope[p]) /\ scope[p].c = k
        BY <1>1, <1>4, <2>1, <3>2 DEF OwnedAt
      <4> QED BY <1>2, <1>6, <4>1
    <3> QED BY <1>2, <3>1, <3>2
  <2>2. ASSUME NEW p \in 1..n, ~IsSession(scope[p])
        PROVE  p \in 1..(n + 1) /\ ~IsSession(scope'[p]) /\ scope'[p].c = scope[p].c
    BY <1>2, <1>6, <2>2
  <2>3. ASSUME NEW c \in 1..Len(cchannel), cchannel[c].state = "live"
        PROVE  \/ c \in lost
               \/ \E p \in 1..(n + 1) : ~IsSession(scope'[p]) /\ scope'[p].c = c
               \/ \E h \in heap : h.c = c
    BY <1>1, <2>2, <2>3 DEF OwnedAt
  <2> QED BY <1>3, <1>4, <1>6, <2>1, <2>3 DEF OwnedAt
<1> QED BY <1>7, <1>8, <1>9, <1>10, <1>11 DEF WrapperAt

(* The C library makes a channel in one of its sessions. *)
LEMMA MoreChannels ==
    ASSUME WrapperAt, NEW p \in 1..Len(scope), NEW of \in 1..Len(csession),
           cchannel' = Append(cchannel, [of |-> of, state |-> "live"]),
           UNCHANGED <<exceptions, csession, throwing>>,
           returned' \in {returned, "pointer"}
    PROVE  LET c == Len(cchannel) + 1
           IN  /\ CLibAt' /\ OfSession' = OfSession /\ OfChannel \subseteq OfChannel'
               /\ scope \in Seq((OfSession \cup OfChannel)')
               /\ Len(cchannel') = c /\ cchannel'[c] = [of |-> of, state |-> "live"]
               /\ \A i \in 1..Len(cchannel) : cchannel'[i] = cchannel[i]
               /\ [kind |-> "Channel", session |-> p, c |-> c] \in OfChannel'
<1>1. CLibAt /\ ObjectsAt
  BY DEF WrapperAt
<1> DEFINE m == Len(cchannel)
<1>2. Len(csession) \in Nat /\ m \in Nat
  BY <1>1, Elements, BoundsAssumption DEF CLibAt
<1>3. [of |-> of, state |-> "live"] \in CChannel
  BY <1>2 DEF CChannel
<1>4. /\ cchannel' \in Seq(CChannel) /\ Len(cchannel') = m + 1
      /\ cchannel'[m + 1] = [of |-> of, state |-> "live"]
      /\ \A i \in 1..m : cchannel'[i] = cchannel[i]
  BY <1>1, <1>3, OneMore DEF CLibAt
<1>5. /\ OfSession \subseteq OfSession' /\ OfChannel \subseteq OfChannel'
      /\ scope \in Seq((OfSession \cup OfChannel)')
  BY <1>1, <1>2, <1>4, Larger
<1>6. CSession' = CSession /\ CChannel' = CChannel /\ OfSession' = OfSession
  BY DEF CSession, CChannel, OfSession
<1>7. CLibAt'
  BY <1>1, <1>4, <1>6 DEF CLibAt
<1>8. [kind |-> "Channel", session |-> p, c |-> m + 1] \in OfChannel'
  BY <1>2, <1>4 DEF OfChannel
<1> QED BY <1>4, <1>5, <1>6, <1>7, <1>8

LEMMA NewChannelKeeps ==
    ASSUME WrapperAt, Objects!NewChannel PROVE WrapperAt'
<1>1. CLibAt /\ ObjectsAt /\ AliveAt /\ AloneAt /\ OwnedAt
  BY DEF WrapperAt
<1> DEFINE n == Len(scope)  m == Len(cchannel)
<1>2. PICK p \in 1..n :
         /\ IsSession(scope[p])
         /\ cchannel' = Append(cchannel, [of |-> scope[p].c, state |-> "live"])
         /\ scope' = Append(scope, [kind |-> "Channel", session |-> p, c |-> m + 1])
  BY <1>1, Elements DEF Objects!NewChannel
<1>3. UNCHANGED <<exceptions, csession, heap, lost, throwing, returned>>
  BY DEF Objects!NewChannel
<1> DEFINE e == [kind |-> "Channel", session |-> p, c |-> m + 1]
<1>4. n \in Nat /\ m \in Nat
  BY <1>1, Elements
<1>5. /\ CLibAt' /\ OfSession' = OfSession /\ OfChannel \subseteq OfChannel'
      /\ scope \in Seq((OfSession \cup OfChannel)')
      /\ Len(cchannel') = m + 1 /\ cchannel'[m + 1] = [of |-> scope[p].c, state |-> "live"]
      /\ \A i \in 1..m : cchannel'[i] = cchannel[i]
      /\ e \in OfChannel'
  <2>1. scope[p].c \in 1..Len(csession)
    BY <1>1, <1>2, Elements DEF OfSession
  <2> QED BY <1>2, <1>3, <2>1, MoreChannels
<1>6. /\ scope' \in Seq((OfSession \cup OfChannel)') /\ Len(scope') = n + 1
      /\ scope'[n + 1] = e /\ \A i \in 1..n : scope'[i] = scope[i]
  BY <1>2, <1>5, OneMore
<1>7. ~IsSession(e) /\ HasSession(e, n) /\ e.c = m + 1 /\ e.kind = "Channel"
  BY <1>2, <1>4 DEF IsSession, Objects!IsSession, HasSession
<1> HIDE DEF e
<1>8. ObjectsAt'
  <2>1. ASSUME NEW o, NEW k \in 0..n, HasSession(o, k) PROVE o.session \in 1..k /\ IsSession(scope'[o.session])
    BY <1>4, <1>6, <2>1 DEF HasSession
  <2>2. ASSUME NEW q \in 1..(n + 1), ~IsSession(scope'[q])
        PROVE  scope'[q].session \in 1..(q - 1) /\ IsSession(scope'[scope'[q].session])
    <3>1. CASE q = n + 1
      <4>1. e.session \in 1..n /\ IsSession(scope'[e.session])
        BY <1>4, <1>7, <2>1
      <4>2. scope'[q] = e /\ q - 1 = n
        BY <1>4, <1>6, <3>1
      <4> QED BY <4>1, <4>2
    <3>2. CASE q \in 1..n
      <4>1. scope'[q] = scope[q] /\ q - 1 \in 0..n
        BY <1>4, <1>6, <3>2
      <4>2. HasSession(scope[q], q - 1)
        BY <1>1, <2>2, <3>2, <4>1 DEF ObjectsAt
      <4> QED BY <2>1, <4>1, <4>2
    <3> QED BY <1>4, <3>1, <3>2
  <2>3. ASSUME NEW h \in heap PROVE h.session \in 1..(n + 1) /\ IsSession(scope'[h.session])
    <3>1. h.session \in 1..n /\ IsSession(scope'[h.session])
      BY <1>1, <1>4, <2>1 DEF ObjectsAt
    <3> QED BY <1>4, <3>1
  <2>4. heap' \subseteq OfChannel'
    BY <1>1, <1>3, <1>5 DEF ObjectsAt
  <2>5. lost' \subseteq 1..Len(cchannel')
    BY <1>1, <1>3, <1>4, <1>5 DEF ObjectsAt
  <2> QED BY <1>3, <1>6, <2>2, <2>3, <2>4, <2>5 DEF ObjectsAt, HasSession
<1>9. AliveAt'
  <2>1. ASSUME NEW o \in OfChannel, HasSession(o, n), ChannelAt(o) PROVE ChannelAt(o)'
    <3>1. scope'[o.session] = scope[o.session] /\ cchannel'[o.c] = cchannel[o.c]
      BY <1>5, <1>6, <2>1 DEF HasSession, OfChannel
    <3> QED BY <1>1, <1>3, <2>1, <3>1, ChannelKept
  <2>2. ASSUME NEW q \in 1..(n + 1), IsSession(scope'[q])
        PROVE  csession'[scope'[q].c] = "live"
    <3>1. q \in 1..n /\ scope'[q] = scope[q]
      BY <1>4, <1>6, <1>7, <2>2
    <3> QED BY <1>1, <1>3, <2>2, <3>1 DEF AliveAt
  <2>3. ASSUME NEW q \in 1..(n + 1), NEW o, o = scope'[q], ~IsSession(o)
        PROVE  ChannelAt(o)'
    <3>1. CASE q = n + 1
      BY <1>2, <1>5, <1>6, <2>3, <3>1 DEF ChannelAt, e
    <3>2. CASE q \in 1..n
      <4>1. o \in OfChannel /\ ChannelAt(o) /\ HasSession(o, n)
        BY <1>1, <1>4, <1>6, <2>3, <3>2, Elements DEF AliveAt, ObjectsAt, HasSession
      <4> QED BY <2>1, <4>1
    <3> QED BY <1>4, <3>1, <3>2
  <2>4. ASSUME NEW h \in heap PROVE ChannelAt(h)'
    BY <1>1, <2>1, Elements DEF AliveAt, ObjectsAt
  <2> QED BY <1>3, <1>6, <2>2, <2>3, <2>4 DEF AliveAt
<1>10. AloneAt'
  <2>1. /\ \A q \in 1..n : ~IsSession(scope[q]) => scope[q].c \in 1..m
        /\ \A h \in heap : h.c \in 1..m
    BY <1>1, Elements DEF OfChannel
  <2>2. \A q \in 1..n : scope[q].kind = "Channel" => ~IsSession(scope[q])
    BY DEF IsSession, Objects!IsSession
  <2>3. ASSUME NEW q \in 1..(n + 1), NEW r \in 1..(n + 1), q # r, scope'[q].kind = scope'[r].kind
        PROVE  scope'[q].c # scope'[r].c
    <3>1. CASE q \in 1..n /\ r \in 1..n
      BY <1>1, <1>6, <2>3, <3>1 DEF AloneAt
    <3>2. CASE q = n + 1 /\ r \in 1..n
      BY <1>4, <1>6, <1>7, <2>1, <2>2, <2>3, <3>2
    <3>3. CASE r = n + 1 /\ q \in 1..n
      BY <1>4, <1>6, <1>7, <2>1, <2>2, <2>3, <3>3
    <3> QED BY <1>4, <2>3, <3>1, <3>2, <3>3
  <2>4. ASSUME NEW q \in 1..(n + 1), NEW h \in heap, ~IsSession(scope'[q])
        PROVE  scope'[q].c # h.c
    <3>1. CASE q \in 1..n
      BY <1>1, <1>6, <2>4, <3>1 DEF AloneAt
    <3>2. CASE q = n + 1
      BY <1>4, <1>6, <1>7, <2>1, <3>2
    <3> QED BY <1>4, <3>1, <3>2
  <2> QED BY <1>1, <1>3, <1>6, <2>3, <2>4 DEF AloneAt
<1>11. OwnedAt'
  <2>1. ASSUME NEW q \in 1..n
        PROVE  q \in 1..(n + 1) /\ scope'[q] = scope[q]
    BY <1>4, <1>6
  <2>2. ASSUME NEW k \in 1..Len(csession), csession[k] = "live"
        PROVE  \E q \in 1..(n + 1) : IsSession(scope'[q]) /\ scope'[q].c = k
    BY <1>1, <2>1, <2>2 DEF OwnedAt
  <2>3. ASSUME NEW c \in 1..(m + 1), cchannel'[c].state = "live"
        PROVE  \/ c \in lost
               \/ \E q \in 1..(n + 1) : ~IsSession(scope'[q]) /\ scope'[q].c = c
               \/ \E h \in heap : h.c = c
    <3>1. CASE c = m + 1
      BY <1>4, <1>6, <1>7, <3>1
    <3>2. CASE c \in 1..m
      BY <1>1, <1>5, <2>1, <2>3, <3>2 DEF OwnedAt
    <3> QED BY <1>4, <3>1, <3>2
  <2> QED BY <1>3, <1>5, <1>6, <2>2, <2>3 DEF OwnedAt
<1> QED BY <1>5, <1>8, <1>9, <1>10, <1>11 DEF WrapperAt

(* The client is given a Channel: in the Session's ssh_session, or in one   *)
(* that was replaced.                                                      *)
LEMMA AcceptedKeeps ==
    ASSUME WrapperAt, NEW p \in 1..Len(scope), NEW of \in 1..Len(csession),
           of = scope[p].c \/ csession[of] = "replaced", IsSession(scope[p]),
           Objects!Accepted(p, of)
    PROVE  WrapperAt'
<1>1. CLibAt /\ ObjectsAt /\ AliveAt /\ AloneAt /\ OwnedAt
  BY DEF WrapperAt
<1> DEFINE n == Len(scope)  m == Len(cchannel)
           e == [kind |-> "Channel", session |-> p, c |-> m + 1]
<1>3. /\ cchannel' = Append(cchannel, [of |-> of, state |-> "live"])
      /\ heap' = heap \cup {e}
      /\ UNCHANGED <<exceptions, csession, scope, lost, throwing>>
      /\ returned' = "pointer"
  BY DEF Objects!Accepted, Objects!Returns
<1>4. n \in Nat /\ m \in Nat
  BY <1>1, Elements
<1>5. /\ CLibAt' /\ OfSession' = OfSession /\ OfChannel \subseteq OfChannel'
      /\ scope \in Seq((OfSession \cup OfChannel)')
      /\ Len(cchannel') = m + 1 /\ cchannel'[m + 1] = [of |-> of, state |-> "live"]
      /\ \A i \in 1..m : cchannel'[i] = cchannel[i]
      /\ e \in OfChannel'
  BY <1>3, MoreChannels
<1>6. HasSession(e, n) /\ e.c = m + 1 /\ e.session = p
  BY <1>4 DEF HasSession
<1> HIDE DEF e
<1>7. ObjectsAt'
  <2>1. heap' \subseteq OfChannel' /\ \A h \in heap' : HasSession(h, n)
    BY <1>1, <1>3, <1>5, <1>6 DEF ObjectsAt
  <2>2. lost' \subseteq 1..Len(cchannel')
    BY <1>1, <1>3, <1>4, <1>5 DEF ObjectsAt
  <2> QED BY <1>1, <1>3, <1>5, <2>1, <2>2 DEF ObjectsAt, HasSession
<1>8. AliveAt'
  <2>1. ASSUME NEW o \in OfChannel, HasSession(o, n), ChannelAt(o) PROVE ChannelAt(o)'
    <3>1. cchannel'[o.c] = cchannel[o.c]
      BY <1>5, <2>1 DEF OfChannel
    <3> QED BY <1>1, <1>3, <2>1, <3>1, ChannelKept
  <2>2. ASSUME NEW q \in 1..n, NEW o, o = scope[q], ~IsSession(o)
        PROVE  ChannelAt(o)'
    <3>1. o \in OfChannel /\ ChannelAt(o) /\ HasSession(o, n)
      BY <1>1, <1>4, <2>2, Elements DEF AliveAt, ObjectsAt, HasSession
    <3> QED BY <2>1, <3>1
  <2>3. ASSUME NEW h \in heap' PROVE ChannelAt(h)'
    <3>1. CASE h = e
      <4>1. cchannel'[h.c].state = "live" /\ cchannel'[h.c].of = of /\ h.session = p
        BY <1>5, <1>6, <3>1
      <4> QED BY <1>3, <4>1 DEF ChannelAt
    <3>2. CASE h \in heap
      BY <1>1, <2>1, <3>2, Elements DEF AliveAt, ObjectsAt
    <3> QED BY <1>3, <3>1, <3>2
  <2> QED BY <1>1, <1>3, <2>2, <2>3 DEF AliveAt
<1>9. AloneAt'
  <2>1. /\ \A q \in 1..n : ~IsSession(scope[q]) => scope[q].c \in 1..m
        /\ \A h \in heap : h.c \in 1..m
    BY <1>1, Elements DEF OfChannel
  <2>2. /\ \A q \in 1..n : ~IsSession(scope[q]) => scope[q].c # e.c
        /\ \A h \in heap : h.c # e.c
    BY <1>4, <1>6, <2>1
  <2> QED BY <1>1, <1>3, <2>2 DEF AloneAt
<1>10. OwnedAt'
  <2>1. ASSUME NEW c \in 1..(m + 1), cchannel'[c].state = "live"
        PROVE  \/ c \in lost
               \/ \E q \in 1..n : ~IsSession(scope[q]) /\ scope[q].c = c
               \/ \E h \in heap' : h.c = c
    <3>1. CASE c = m + 1
      BY <1>3, <1>6, <3>1
    <3>2. CASE c \in 1..m
      BY <1>1, <1>3, <1>5, <2>1, <3>2 DEF OwnedAt
    <3> QED BY <1>4, <3>1, <3>2
  <2> QED BY <1>1, <1>3, <1>5, <2>1 DEF OwnedAt
<1> QED BY <1>5, <1>7, <1>8, <1>9, <1>10 DEF WrapperAt

(* ~Channel(), at the end of its scope or by the client. *)
LEMMA FreedFacts ==
    ASSUME CLibAt, NEW c \in 1..Len(cchannel), Objects!FreeChannel(c)
    PROVE  /\ cchannel' \in Seq(CChannel) /\ Len(cchannel') = Len(cchannel)
           /\ cchannel'[c].state = "freed"
           /\ \A i \in 1..Len(cchannel) : i # c => cchannel'[i] = cchannel[i]
<1> DEFINE e == [cchannel[c] EXCEPT !.state = "freed"]
<1>1. cchannel[c] \in CChannel
  BY ElementOfSeq DEF CLibAt
<1>2. e \in CChannel /\ e.state = "freed"
  BY <1>1 DEF CChannel
<1>3. cchannel' = [cchannel EXCEPT ![c] = e]
  BY DEF Objects!FreeChannel
<1> HIDE DEF e
<1> QED BY <1>2, <1>3, OneChanged DEF CLibAt

LEMMA DeleteKeeps ==
    ASSUME WrapperAt, Objects!Delete PROVE WrapperAt'
<1>1. CLibAt /\ ObjectsAt /\ AliveAt /\ AloneAt /\ OwnedAt
  BY DEF WrapperAt
<1>2. PICK h \in heap : Objects!FreeChannel(h.c) /\ heap' = heap \ {h}
  BY DEF Objects!Delete
<1>3. UNCHANGED <<exceptions, csession, scope, lost, throwing, returned>>
  BY DEF Objects!Delete
<1>4. h.c \in 1..Len(cchannel)
  BY <1>1, Elements DEF OfChannel
<1>5. /\ cchannel' \in Seq(CChannel) /\ Len(cchannel') = Len(cchannel)
      /\ cchannel'[h.c].state = "freed"
      /\ \A i \in 1..Len(cchannel) : i # h.c => cchannel'[i] = cchannel[i]
  BY <1>1, <1>2, <1>4, FreedFacts
<1>6. CSession' = CSession /\ CChannel' = CChannel /\ OfSession' = OfSession /\ OfChannel' = OfChannel
  BY <1>3, <1>5 DEF CSession, CChannel, OfSession, OfChannel
<1>7. CLibAt'
  BY <1>1, <1>3, <1>5, <1>6 DEF CLibAt
<1>8. ObjectsAt'
  BY <1>1, <1>2, <1>3, <1>5, <1>6 DEF ObjectsAt, HasSession
<1>9. AliveAt'
  <2>1. ASSUME NEW d \in OfChannel, HasSession(d, Len(scope)), ChannelAt(d), d.c # h.c PROVE ChannelAt(d)'
    <3>1. cchannel'[d.c] = cchannel[d.c]
      BY <1>5, <2>1 DEF OfChannel
    <3> QED BY <1>1, <1>3, <2>1, <3>1, ChannelKept
  <2>2. ASSUME NEW p \in 1..Len(scope), NEW d, d = scope[p], ~IsSession(d) PROVE ChannelAt(d)'
    <3>1. d \in OfChannel /\ ChannelAt(d) /\ HasSession(d, p - 1)
      BY <1>1, <2>2, Elements DEF AliveAt, ObjectsAt
    <3>3. HasSession(d, Len(scope))
      <4>1. Len(scope) \in Nat
        BY <1>1, Elements
      <4> QED BY <3>1, <4>1 DEF HasSession
    <3>2. d.c # h.c
      BY <1>1, <2>2 DEF AloneAt
    <3> QED BY <2>1, <3>1, <3>2, <3>3
  <2>3. ASSUME NEW d \in heap' PROVE ChannelAt(d)'
    <3>1. d \in heap /\ d.c # h.c
      BY <1>1, <1>2, <2>3 DEF AloneAt
    <3> QED BY <1>1, <2>1, <3>1, Elements DEF AliveAt, ObjectsAt
  <2> QED BY <1>1, <1>3, <2>2, <2>3 DEF AliveAt
<1>10. AloneAt'
  BY <1>1, <1>2, <1>3 DEF AloneAt
<1>11. OwnedAt'
  <2>1. ASSUME NEW c \in 1..Len(cchannel), cchannel'[c].state = "live"
        PROVE  \/ c \in lost
               \/ \E p \in 1..Len(scope) : ~IsSession(scope[p]) /\ scope[p].c = c
               \/ \E g \in heap' : g.c = c
    <3>1. c # h.c /\ cchannel[c].state = "live"
      BY <1>5, <2>1
    <3> QED BY <1>1, <1>2, <3>1 DEF OwnedAt
  <2> QED BY <1>1, <1>3, <1>5, <2>1 DEF OwnedAt
<1> QED BY <1>7, <1>8, <1>9, <1>10, <1>11 DEF WrapperAt

(* The object made last is gone from scope. *)
LEMMA PoppedFacts ==
    ASSUME WrapperAt, scope # <<>>, scope' = Objects!Front(scope)
    PROVE  LET n == Len(scope)
           IN  /\ n \in Nat /\ n >= 1 /\ Len(scope') = n - 1
               /\ scope' \in Seq(OfSession \cup OfChannel)
               /\ \A p \in 1..(n - 1) : p \in 1..n /\ p # n /\ scope'[p] = scope[p]
               /\ \A p \in 1..(n - 1) : IsSession(scope[p]) \/
                     /\ scope[p] \in OfChannel /\ ChannelAt(scope[p])
                     /\ scope[p].session \in 1..(p - 1) /\ scope[p].session \in 1..(n - 1)
                     /\ IsSession(scope'[scope[p].session])
<1> DEFINE n == Len(scope)
<1>1. CLibAt /\ ObjectsAt /\ AliveAt
  BY DEF WrapperAt
<1>2. n \in Nat /\ n >= 1 /\ Len(scope') = n - 1 /\ scope' \in Seq(OfSession \cup OfChannel)
      /\ \A p \in 1..(n - 1) : scope'[p] = scope[p]
  BY <1>1, OneLess, LenProperties DEF ObjectsAt
<1>3. \A p \in 1..(n - 1) : p \in 1..n /\ p # n
  BY <1>2
<1>4. ASSUME NEW p \in 1..(n - 1), ~IsSession(scope[p])
      PROVE  /\ scope[p] \in OfChannel /\ ChannelAt(scope[p])
             /\ scope[p].session \in 1..(p - 1) /\ scope[p].session \in 1..(n - 1)
             /\ IsSession(scope'[scope[p].session])
  <2>1. scope[p] \in OfChannel /\ ChannelAt(scope[p]) /\ HasSession(scope[p], p - 1)
    BY <1>1, <1>3, <1>4, Elements DEF AliveAt, ObjectsAt
  <2>2. scope[p].session \in 1..(p - 1) /\ IsSession(scope[scope[p].session])
    BY <2>1 DEF HasSession
  <2>3. scope[p].session \in 1..(n - 1)
    BY <1>2, <2>2
  <2> QED BY <1>2, <2>1, <2>2, <2>3
<1> QED BY <1>2, <1>3, <1>4

LEMMA PoppedAlone ==
    ASSUME WrapperAt, scope # <<>>, scope' = Objects!Front(scope), heap' \subseteq heap
    PROVE  AloneAt'
<1> DEFINE n == Len(scope)
<1>1. AloneAt
  BY DEF WrapperAt
<1>2. /\ Len(scope') = n - 1
      /\ \A p \in 1..(n - 1) : p \in 1..n /\ scope'[p] = scope[p]
  BY PoppedFacts
<1>3. ASSUME NEW p \in 1..(n - 1), NEW q \in 1..(n - 1), p # q, scope'[p].kind = scope'[q].kind
      PROVE  scope'[p].c # scope'[q].c
  BY <1>1, <1>2, <1>3 DEF AloneAt
<1>4. ASSUME NEW p \in 1..(n - 1), NEW h \in heap'
      PROVE  IsSession(scope'[p]) \/ scope'[p].c # h.c
  BY <1>1, <1>2, <1>4 DEF AloneAt
<1>5. \A g, h \in heap' : g # h => g.c # h.c
  BY <1>1 DEF AloneAt
<1> QED BY <1>2, <1>3, <1>4, <1>5 DEF AloneAt

LEMMA LeaveChannelKeeps ==
    ASSUME WrapperAt, scope # <<>>, scope' = Objects!Front(scope),
           ~IsSession(scope[Len(scope)]), Objects!FreeChannel(scope[Len(scope)].c),
           UNCHANGED <<csession, heap, lost, exceptions, throwing, returned>>
    PROVE  WrapperAt'
<1>1. CLibAt /\ ObjectsAt /\ AliveAt /\ AloneAt /\ OwnedAt
  BY DEF WrapperAt
<1> DEFINE n == Len(scope)  f == scope[n].c
<1>2. /\ n \in Nat /\ n >= 1 /\ Len(scope') = n - 1
      /\ scope' \in Seq(OfSession \cup OfChannel)
      /\ \A p \in 1..(n - 1) : p \in 1..n /\ p # n /\ scope'[p] = scope[p]
      /\ \A p \in 1..(n - 1) : IsSession(scope[p]) \/
            /\ scope[p] \in OfChannel /\ ChannelAt(scope[p])
            /\ scope[p].session \in 1..(p - 1) /\ scope[p].session \in 1..(n - 1)
            /\ IsSession(scope'[scope[p].session])
  BY PoppedFacts
<1>3. n \in 1..n /\ f \in 1..Len(cchannel) /\ scope[n].kind = "Channel"
  BY <1>1, <1>2, Elements DEF OfChannel
<1>4. /\ cchannel' \in Seq(CChannel) /\ Len(cchannel') = Len(cchannel)
      /\ cchannel'[f].state = "freed"
      /\ \A i \in 1..Len(cchannel) : i # f => cchannel'[i] = cchannel[i]
  BY <1>1, <1>3, FreedFacts
<1>5. CSession' = CSession /\ CChannel' = CChannel /\ OfSession' = OfSession /\ OfChannel' = OfChannel
  BY <1>4 DEF CSession, CChannel, OfSession, OfChannel
<1>6. CLibAt'
  BY <1>1, <1>4, <1>5 DEF CLibAt
<1>7. \A h \in heap : h.session \in 1..(n - 1) /\ IsSession(scope'[h.session])
  <2> SUFFICES ASSUME NEW h \in heap
               PROVE  h.session \in 1..(n - 1) /\ IsSession(scope'[h.session])
    OBVIOUS
  <2>1. h.session \in 1..n /\ IsSession(scope[h.session])
    BY <1>1 DEF ObjectsAt, HasSession
  <2>2. h.session # n
    BY <2>1
  <2>3. h.session \in 1..(n - 1)
    BY <1>2, <2>1, <2>2
  <2> QED BY <1>2, <2>1, <2>3
<1>8. ObjectsAt'
  <2>1. heap' \subseteq OfChannel' /\ lost' \subseteq 1..Len(cchannel')
    BY <1>1, <1>4, <1>5 DEF ObjectsAt
  <2> QED BY <1>2, <1>5, <1>7, <2>1 DEF ObjectsAt, HasSession
<1>9. AliveAt'
  <2>1. ASSUME NEW d \in OfChannel, HasSession(d, n), d.session \in 1..(n - 1), ChannelAt(d),
               d.c # f
        PROVE  ChannelAt(d)'
    <3>1. cchannel'[d.c] = cchannel[d.c] /\ scope'[d.session].c = scope[d.session].c
      BY <1>2, <1>4, <2>1 DEF OfChannel
    <3> QED BY <1>1, <2>1, <3>1, ChannelKept
  <2>2. ASSUME NEW p \in 1..(n - 1), NEW d, d = scope[p], ~IsSession(d) PROVE ChannelAt(d)'
    <3>1. d \in OfChannel /\ ChannelAt(d) /\ d.session \in 1..(n - 1)
      BY <1>2, <2>2
    <3>2. HasSession(d, n)
      BY <1>2, <2>2, <3>1 DEF HasSession
    <3>3. scope[p].kind = "Channel"
      BY <2>2, <3>1 DEF OfChannel
    <3>4. d.c # f
      BY <1>1, <1>2, <1>3, <2>2, <3>3 DEF AloneAt
    <3> QED BY <2>1, <3>1, <3>2, <3>4
  <2>3. ASSUME NEW h \in heap PROVE ChannelAt(h)'
    <3>1. h \in OfChannel /\ HasSession(h, n) /\ ChannelAt(h)
      BY <1>1, Elements DEF AliveAt, ObjectsAt
    <3>2. h.c # f
      BY <1>1, <1>3 DEF AloneAt
    <3> QED BY <1>7, <2>1, <3>1, <3>2
  <2>4. ASSUME NEW p \in 1..(n - 1), IsSession(scope[p])
        PROVE  csession'[scope[p].c] = "live"
    BY <1>1, <1>2, <2>4 DEF AliveAt
  <2> QED BY <1>2, <2>2, <2>3, <2>4 DEF AliveAt
<1>10. AloneAt'
  BY PoppedAlone
<1>11. OwnedAt'
  <2>1. ASSUME NEW p \in 1..n, p # n
        PROVE  p \in 1..(n - 1) /\ scope'[p] = scope[p]
    <3>1. p \in 1..(n - 1)
      BY <1>2, <2>1
    <3> QED BY <1>2, <3>1
  <2>2. ASSUME NEW k \in 1..Len(csession), csession[k] = "live"
        PROVE  \E p \in 1..(n - 1) : IsSession(scope'[p]) /\ scope'[p].c = k
    <3>1. PICK p \in 1..n : IsSession(scope[p]) /\ scope[p].c = k
      BY <1>1, <2>2 DEF OwnedAt
    <3>2. p # n
      BY <3>1
    <3> QED BY <2>1, <3>1, <3>2
  <2>3. ASSUME NEW c \in 1..Len(cchannel), cchannel'[c].state = "live"
        PROVE  \/ c \in lost
               \/ \E p \in 1..(n - 1) : ~IsSession(scope'[p]) /\ scope'[p].c = c
               \/ \E h \in heap : h.c = c
    <3>1. c # f /\ cchannel[c].state = "live"
      BY <1>4, <2>3
    <3>2. ASSUME NEW p \in 1..n, ~IsSession(scope[p]), scope[p].c = c
          PROVE  \E q \in 1..(n - 1) : ~IsSession(scope'[q]) /\ scope'[q].c = c
      BY <2>1, <3>1, <3>2
    <3> QED BY <1>1, <3>1, <3>2 DEF OwnedAt
  <2> QED BY <1>2, <1>4, <2>2, <2>3 DEF OwnedAt
<1> QED BY <1>6, <1>8, <1>9, <1>10, <1>11 DEF WrapperAt

LEMMA LeaveSessionKeeps ==
    ASSUME WrapperAt, scope # <<>>, scope' = Objects!Front(scope),
           IsSession(scope[Len(scope)]), Objects!EndSession(Len(scope)),
           UNCHANGED <<exceptions, throwing, returned>>
    PROVE  WrapperAt'
<1>1. CLibAt /\ ObjectsAt /\ AliveAt /\ AloneAt /\ OwnedAt
  BY DEF WrapperAt
<1> DEFINE n == Len(scope)  f == scope[n].c  m == Len(csession)
<1>2. /\ n \in Nat /\ n >= 1 /\ Len(scope') = n - 1
      /\ scope' \in Seq(OfSession \cup OfChannel)
      /\ \A p \in 1..(n - 1) : p \in 1..n /\ p # n /\ scope'[p] = scope[p]
      /\ \A p \in 1..(n - 1) : IsSession(scope[p]) \/
            /\ scope[p] \in OfChannel /\ ChannelAt(scope[p])
            /\ scope[p].session \in 1..(p - 1) /\ scope[p].session \in 1..(n - 1)
            /\ IsSession(scope'[scope[p].session])
  BY PoppedFacts
<1>3. n \in 1..n /\ f \in 1..m /\ scope[n].kind = "Session" /\ csession[f] = "live"
  BY <1>1, <1>2, Elements DEF OfSession, AliveAt
<1>4. /\ csession' = [csession EXCEPT ![f] = "freed"]
      /\ lost' = lost \cup {h.c : h \in {g \in heap : g.session = n}}
      /\ heap' = {h \in heap : h.session # n}
      /\ cchannel' = cchannel
  BY DEF Objects!EndSession
<1>5. /\ csession' \in Seq(CSession) /\ Len(csession') = m
      /\ csession'[f] = "freed"
      /\ \A i \in 1..m : i # f => csession'[i] = csession[i]
  <2>1. "freed" \in CSession
    BY DEF CSession
  <2> QED BY <1>1, <1>3, <1>4, <2>1, OneChanged DEF CLibAt
<1>6. CSession' = CSession /\ CChannel' = CChannel /\ OfSession' = OfSession /\ OfChannel' = OfChannel
  BY <1>4, <1>5 DEF CSession, CChannel, OfSession, OfChannel
<1>7. CLibAt'
  BY <1>1, <1>4, <1>5, <1>6 DEF CLibAt
<1>8. \A h \in heap' : h \in heap /\ h.session \in 1..(n - 1) /\ IsSession(scope'[h.session])
  <2> SUFFICES ASSUME NEW h \in heap'
               PROVE  h \in heap /\ h.session \in 1..(n - 1) /\ IsSession(scope'[h.session])
    OBVIOUS
  <2>1. h \in heap /\ h.session \in 1..n /\ h.session # n /\ IsSession(scope[h.session])
    BY <1>1, <1>4 DEF ObjectsAt, HasSession
  <2>2. h.session \in 1..(n - 1)
    BY <1>2, <2>1
  <2> QED BY <1>2, <2>1, <2>2
<1>9. ObjectsAt'
  <2>1. heap' \subseteq OfChannel'
    BY <1>1, <1>6, <1>8 DEF ObjectsAt
  <2>2. lost' \subseteq 1..Len(cchannel')
    <3>1. \A h \in heap : h.c \in 1..Len(cchannel)
      BY <1>1 DEF ObjectsAt, OfChannel
    <3> QED BY <1>1, <1>4, <3>1 DEF ObjectsAt
  <2> QED BY <1>2, <1>6, <1>8, <2>1, <2>2 DEF ObjectsAt, HasSession
<1>10. AliveAt'
  <2>1. ASSUME NEW d \in OfChannel, HasSession(d, n), d.session \in 1..(n - 1), ChannelAt(d)
        PROVE  ChannelAt(d)'
    <3>1. scope'[d.session].c = scope[d.session].c
      BY <1>2, <2>1
    <3>2. \A k \in 1..m : csession[k] = "replaced" => csession'[k] = "replaced"
      BY <1>3, <1>5
    <3> QED BY <1>1, <1>4, <2>1, <3>1, <3>2, ChannelKept
  <2>2. ASSUME NEW p \in 1..(n - 1), NEW d, d = scope[p], ~IsSession(d) PROVE ChannelAt(d)'
    <3>1. d \in OfChannel /\ ChannelAt(d) /\ d.session \in 1..(n - 1)
      BY <1>2, <2>2
    <3>2. HasSession(d, n)
      BY <1>2, <2>2, <3>1 DEF HasSession
    <3> QED BY <2>1, <3>1, <3>2
  <2>3. ASSUME NEW h \in heap' PROVE ChannelAt(h)'
    <3>1. h \in OfChannel /\ HasSession(h, n) /\ ChannelAt(h)
      BY <1>1, <1>8, Elements DEF AliveAt, ObjectsAt
    <3> QED BY <1>8, <2>1, <3>1
  <2>4. ASSUME NEW p \in 1..(n - 1), IsSession(scope[p])
        PROVE  csession'[scope[p].c] = "live"
    <3>1. scope[p].kind = "Session"
      BY <2>4 DEF IsSession, Objects!IsSession
    <3>2. scope[p].c # f
      BY <1>1, <1>2, <1>3, <3>1 DEF AloneAt
    <3>3. scope[p].c \in 1..m /\ csession[scope[p].c] = "live"
      BY <1>1, <1>2, <2>4, Elements DEF AliveAt, OfSession
    <3> QED BY <1>5, <3>2, <3>3
  <2> QED BY <1>2, <2>2, <2>3, <2>4 DEF AliveAt
<1>11. AloneAt'
  BY <1>4, PoppedAlone
<1>12. OwnedAt'
  <2>1. ASSUME NEW p \in 1..n, p # n
        PROVE  p \in 1..(n - 1) /\ scope'[p] = scope[p]
    <3>1. p \in 1..(n - 1)
      BY <1>2, <2>1
    <3> QED BY <1>2, <3>1
  <2>2. ASSUME NEW k \in 1..m, csession'[k] = "live"
        PROVE  \E p \in 1..(n - 1) : IsSession(scope'[p]) /\ scope'[p].c = k
    <3>1. k # f /\ csession[k] = "live"
      BY <1>5, <2>2
    <3>2. PICK p \in 1..n : IsSession(scope[p]) /\ scope[p].c = k
      BY <1>1, <3>1 DEF OwnedAt
    <3>3. p # n
      BY <3>1, <3>2
    <3> QED BY <2>1, <3>2, <3>3
  <2>3. ASSUME NEW c \in 1..Len(cchannel), cchannel[c].state = "live"
        PROVE  \/ c \in lost'
               \/ \E p \in 1..(n - 1) : ~IsSession(scope'[p]) /\ scope'[p].c = c
               \/ \E h \in heap' : h.c = c
    <3>1. CASE c \in lost
      BY <1>4, <3>1
    <3>2. ASSUME NEW p \in 1..n, ~IsSession(scope[p]), scope[p].c = c
          PROVE  \E q \in 1..(n - 1) : ~IsSession(scope'[q]) /\ scope'[q].c = c
      <4>1. p # n
        BY <3>2
      <4> QED BY <2>1, <3>2, <4>1
    <3>3. ASSUME NEW h \in heap, h.c = c
          PROVE  c \in lost' \/ h \in heap'
      BY <1>4, <3>3
    <3> QED BY <1>1, <2>3, <3>1, <3>2, <3>3 DEF OwnedAt
  <2> QED BY <1>2, <1>4, <1>5, <2>2, <2>3 DEF OwnedAt
<1> QED BY <1>7, <1>9, <1>10, <1>11, <1>12 DEF WrapperAt

(* optionsCopy makes a new ssh_session and leaves the old one behind.      *)
CopiedTo(p) ==
    /\ csession' = Append([csession EXCEPT ![scope[p].c] = "replaced"], "live")
    /\ scope' = [scope EXCEPT ![p].c = Len(csession) + 1]
    /\ returned' = "result"
    /\ UNCHANGED <<exceptions, cchannel, heap, lost, throwing>>

LEMMA OptionsCopied ==
    ASSUME WrapperAt, NEW p \in 1..Len(scope), IsSession(scope[p]), CopiedTo(p)
    PROVE  WrapperAt'
<1>1. CLibAt /\ ObjectsAt /\ AliveAt /\ AloneAt /\ OwnedAt
  BY DEF WrapperAt
<1> DEFINE n == Len(scope)  m == Len(csession)
<1>2. /\ IsSession(scope[p])
      /\ csession' = Append([csession EXCEPT ![scope[p].c] = "replaced"], "live")
      /\ scope' = [scope EXCEPT ![p].c = m + 1]
  BY DEF CopiedTo
<1>3. /\ returned' = "result"
      /\ UNCHANGED <<exceptions, cchannel, heap, lost, throwing>>
  BY DEF CopiedTo
<1> DEFINE f == scope[p].c
<1>4. /\ n \in Nat /\ m \in Nat /\ Len(cchannel) \in Nat
      /\ scope[p] \in OfSession /\ scope[p].kind = "Session" /\ f \in 1..m
  BY <1>1, <1>2, Elements, BoundsAssumption DEF CLibAt, OfSession
<1>5. /\ csession' \in Seq(CSession) /\ Len(csession') = m + 1
      /\ csession'[m + 1] = "live" /\ csession'[f] = "replaced"
      /\ \A i \in 1..m : i # f => csession'[i] = csession[i]
  <2> DEFINE t == [csession EXCEPT ![f] = "replaced"]
  <2>2. "replaced" \in CSession
    BY DEF CSession
  <2>3. "live" \in CSession
    BY DEF CSession
  <2>4. csession' = Append(t, "live")
    BY <1>2
  <2>5. /\ t \in Seq(CSession) /\ Len(t) = m /\ t[f] = "replaced"
        /\ \A i \in 1..m : i # f => t[i] = csession[i]
    BY <1>1, <1>4, <2>2, OneChanged DEF CLibAt
  <2> HIDE DEF t
  <2>6. /\ csession' \in Seq(CSession) /\ Len(csession') = m + 1 /\ csession'[m + 1] = "live"
        /\ \A i \in 1..m : csession'[i] = t[i]
    BY <2>3, <2>4, <2>5, OneMore
  <2> QED BY <1>4, <2>5, <2>6
<1>6. /\ cchannel \in Seq(CChannel') /\ scope \in Seq((OfSession \cup OfChannel)')
      /\ OfChannel' = OfChannel /\ CSession' = CSession
  <2>1. cchannel \in Seq(CChannel') /\ scope \in Seq((OfSession \cup OfChannel)')
    BY <1>1, <1>3, <1>4, <1>5, Larger
  <2> QED BY <1>3, <2>1 DEF OfChannel, CSession
<1>7. /\ scope' \in Seq((OfSession \cup OfChannel)') /\ Len(scope') = n
      /\ scope'[p].c = m + 1 /\ scope'[p].kind = "Session"
      /\ \A q \in 1..n : q # p => scope'[q] = scope[q]
      /\ \A q \in 1..n : scope'[q].kind = scope[q].kind
  <2> DEFINE e == [scope[p] EXCEPT !.c = m + 1]
  <2>1. e \in OfSession' /\ e.c = m + 1 /\ e.kind = "Session"
    BY <1>4, <1>5 DEF OfSession
  <2>2. scope' = [scope EXCEPT ![p] = e]
    BY <1>2
  <2> HIDE DEF e
  <2>3. /\ scope' \in Seq((OfSession \cup OfChannel)') /\ Len(scope') = n /\ scope'[p] = e
        /\ \A q \in 1..n : q # p => scope'[q] = scope[q]
    <3>1. e \in (OfSession \cup OfChannel)'
      BY <2>1
    <3>2. scope \in Seq((OfSession \cup OfChannel)')
      BY <1>6
    <3> QED BY <2>2, <3>1, <3>2, OneChanged
  <2> QED BY <1>4, <2>1, <2>3
<1>8. \A q \in 1..n : IsSession(scope'[q]) <=> IsSession(scope[q])
  BY <1>7 DEF IsSession, Objects!IsSession
<1>9. CLibAt'
  BY <1>1, <1>3, <1>5, <1>6 DEF CLibAt
<1>10. ObjectsAt'
  <2>1. ASSUME NEW o, NEW k \in 0..n, HasSession(o, k)
        PROVE  o.session \in 1..k /\ IsSession(scope'[o.session])
    <3>1. o.session \in 1..k /\ o.session \in 1..n /\ IsSession(scope[o.session])
      BY <1>4, <2>1 DEF HasSession
    <3> QED BY <1>8, <3>1
  <2>2. ASSUME NEW q \in 1..n, ~IsSession(scope'[q])
        PROVE  scope'[q].session \in 1..(q - 1) /\ IsSession(scope'[scope'[q].session])
    <3>0. q - 1 \in 0..n
      BY <1>4
    <3>1. scope'[q] = scope[q] /\ ~IsSession(scope[q]) /\ q - 1 \in 0..n
      BY <1>2, <1>7, <1>8, <2>2, <3>0
    <3>2. HasSession(scope[q], q - 1)
      BY <1>1, <3>1 DEF ObjectsAt
    <3> QED BY <2>1, <3>1, <3>2
  <2>3. \A h \in heap : h.session \in 1..n /\ IsSession(scope'[h.session])
    BY <1>1, <1>4, <2>1 DEF ObjectsAt
  <2> QED BY <1>1, <1>3, <1>6, <1>7, <2>2, <2>3 DEF ObjectsAt, HasSession
<1>11. AliveAt'
  <2>1. ASSUME NEW d \in OfChannel, HasSession(d, n), ChannelAt(d) PROVE ChannelAt(d)'
    <3>1. \/ scope'[d.session].c = scope[d.session].c
          \/ csession'[scope[d.session].c] = "replaced"
      <4>1. CASE d.session = p
        BY <1>5, <4>1
      <4>2. CASE d.session # p
        BY <1>7, <2>1, <4>2 DEF HasSession
      <4> QED BY <4>1, <4>2
    <3>2. \A k \in 1..m : csession[k] = "replaced" => csession'[k] = "replaced"
      BY <1>5
    <3> QED BY <1>1, <1>3, <2>1, <3>1, <3>2, ChannelKept
  <2>2. ASSUME NEW q \in 1..n, NEW d, d = scope'[q], ~IsSession(d) PROVE ChannelAt(d)'
    <3>1. ~IsSession(scope[q]) /\ d = scope[q]
      BY <1>2, <1>7, <1>8, <2>2
    <3>2. d \in OfChannel /\ ChannelAt(d) /\ HasSession(d, n)
      BY <1>1, <1>4, <3>1, Elements DEF AliveAt, ObjectsAt, HasSession
    <3> QED BY <2>1, <3>2
  <2>3. ASSUME NEW h \in heap PROVE ChannelAt(h)'
    BY <1>1, <2>1, Elements DEF AliveAt, ObjectsAt
  <2>4. ASSUME NEW q \in 1..n, IsSession(scope'[q])
        PROVE  csession'[scope'[q].c] = "live"
    <3>1. CASE q = p
      BY <1>5, <1>7, <3>1
    <3>2. CASE q # p
      <4>1. IsSession(scope[q]) /\ scope'[q] = scope[q] /\ scope[q].kind = "Session"
        BY <1>7, <1>8, <2>4, <3>2 DEF IsSession, Objects!IsSession
      <4>2. scope[q].c # f
        BY <1>1, <1>4, <3>2, <4>1 DEF AloneAt
      <4>3. scope[q].c \in 1..m /\ csession[scope[q].c] = "live"
        BY <1>1, <4>1, Elements DEF AliveAt, OfSession
      <4> QED BY <1>5, <4>1, <4>2, <4>3
    <3> QED BY <3>1, <3>2
  <2> QED BY <1>3, <1>7, <2>2, <2>3, <2>4 DEF AliveAt
<1>12. AloneAt'
  <2>1. \A q \in 1..n : scope[q].kind = "Session" => scope[q].c \in 1..m
    BY <1>1, Elements DEF OfSession, IsSession, Objects!IsSession
  <2>2. ASSUME NEW q \in 1..n, NEW r \in 1..n, q # r, scope'[q].kind = scope'[r].kind
        PROVE  scope'[q].c # scope'[r].c
    <3>1. CASE q # p /\ r # p
      BY <1>1, <1>7, <2>2, <3>1 DEF AloneAt
    <3>2. CASE q = p
      <4>1. scope'[r] = scope[r] /\ scope[r].kind = "Session"
        BY <1>7, <2>2, <3>2
      <4> QED BY <1>4, <1>7, <2>1, <3>2, <4>1
    <3>3. CASE r = p
      <4>1. scope'[q] = scope[q] /\ scope[q].kind = "Session"
        BY <1>7, <2>2, <3>3
      <4> QED BY <1>4, <1>7, <2>1, <3>3, <4>1
    <3> QED BY <3>1, <3>2, <3>3
  <2>3. ASSUME NEW q \in 1..n, NEW h \in heap, ~IsSession(scope'[q])
        PROVE  scope'[q].c # h.c
    <3>1. ~IsSession(scope[q]) /\ scope'[q] = scope[q]
      BY <1>2, <1>7, <1>8, <2>3
    <3> QED BY <1>1, <3>1 DEF AloneAt
  <2> QED BY <1>1, <1>3, <1>7, <2>2, <2>3 DEF AloneAt
<1>13. OwnedAt'
  <2>1. ASSUME NEW k \in 1..(m + 1), csession'[k] = "live"
        PROVE  \E q \in 1..n : IsSession(scope'[q]) /\ scope'[q].c = k
    <3>1. CASE k = m + 1
      BY <1>2, <1>7, <1>8, <3>1
    <3>2. CASE k \in 1..m
      <4>1. k # f /\ csession[k] = "live"
        BY <1>5, <2>1, <3>2
      <4>2. PICK q \in 1..n : IsSession(scope[q]) /\ scope[q].c = k
        BY <1>1, <3>2, <4>1 DEF OwnedAt
      <4>3. q # p
        BY <4>1, <4>2
      <4> QED BY <1>7, <1>8, <4>2, <4>3
    <3> QED BY <1>4, <3>1, <3>2
  <2>2. ASSUME NEW q \in 1..n, ~IsSession(scope[q])
        PROVE  ~IsSession(scope'[q]) /\ scope'[q] = scope[q]
    BY <1>2, <1>7, <1>8, <2>2
  <2>3. ASSUME NEW c \in 1..Len(cchannel), cchannel[c].state = "live"
        PROVE  \/ c \in lost
               \/ \E q \in 1..n : ~IsSession(scope'[q]) /\ scope'[q].c = c
               \/ \E h \in heap : h.c = c
    BY <1>1, <2>2, <2>3 DEF OwnedAt
  <2> QED BY <1>3, <1>5, <1>7, <2>1, <2>3 DEF OwnedAt
<1> QED BY <1>9, <1>10, <1>11, <1>12, <1>13 DEF WrapperAt

(* Nothing is made, freed or changes hands: a call that returns or throws,  *)
(* a catch.                                                                *)
LEMMA QuietKeeps ==
    ASSUME WrapperAt, UNCHANGED <<exceptions, csession, cchannel, scope, heap, lost>>,
           throwing' \in {throwing, FALSE, TRUE},
           returned' \in {returned, "result", "SSH_ERROR", "NULL"}
    PROVE  WrapperAt'
<1>1. CLibAt'
  BY DEF WrapperAt, CLibAt, CSession, CChannel
<1>2. ObjectsAt'
  BY DEF WrapperAt, ObjectsAt, OfSession, OfChannel, HasSession
<1>3. AliveAt' /\ AloneAt' /\ OwnedAt'
  BY DEF WrapperAt, AliveAt, AloneAt, OwnedAt, ChannelAt
<1> QED BY <1>1, <1>2, <1>3 DEF WrapperAt

LEMMA WrapperKept ==
    ASSUME WrapperAt, [Objects!Next]_objects PROVE WrapperAt'
<1>1. CLibAt /\ ObjectsAt
  BY DEF WrapperAt
<1>2. Objects!Sessions = {p \in 1..Len(scope) : IsSession(scope[p])}
  BY <1>1, Elements
<1>3. CASE Objects!LeaveScope
  <2>1. /\ scope # <<>> /\ scope' = Objects!Front(scope)
        /\ UNCHANGED <<exceptions, throwing, returned>>
    BY <1>3 DEF Objects!LeaveScope
  <2>2. Len(scope) \in 1..Len(scope)
    BY <2>1, PoppedFacts
  <2>3. CASE IsSession(scope[Len(scope)])
    <3>1. Objects!EndSession(Len(scope))
      BY <1>2, <1>3, <2>2, <2>3 DEF Objects!LeaveScope
    <3> QED BY <2>1, <2>3, <3>1, LeaveSessionKeeps
  <2>4. CASE ~IsSession(scope[Len(scope)])
    <3>1. Objects!FreeChannel(scope[Len(scope)].c) /\ UNCHANGED <<csession, heap, lost>>
      BY <1>2, <1>3, <2>2, <2>4 DEF Objects!LeaveScope
    <3> QED BY <2>1, <2>4, <3>1, LeaveChannelKeeps
  <2> QED BY <2>3, <2>4
<1>4. CASE Objects!Catch
  BY <1>4, QuietKeeps DEF Objects!Catch, Objects!clib, Objects!objects
<1>5. CASE Objects!Call
  <2>1. UNCHANGED <<exceptions, csession, cchannel, scope, heap, lost>>
    BY <1>5 DEF Objects!Call, Objects!clib, Objects!objects
  <2>2. \/ Objects!Returns("result") \/ Objects!ssh_throw("SSH_ERROR")
        \/ throwing' = TRUE /\ UNCHANGED returned
    BY <1>5 DEF Objects!Call, Objects!LogIn, Objects!Ask, Objects!HostAndForward,
       Objects!getIssueBanner, Objects!SizeAndClose, Objects!AskChannel, Objects!OpenReadWrite,
       Objects!Request, Objects!Tested
  <2>3. /\ throwing' \in {throwing, FALSE, TRUE}
        /\ returned' \in {returned, "result", "SSH_ERROR", "NULL"}
    BY <2>2 DEF Objects!Returns, Objects!ssh_throw
  <2> QED BY <2>1, <2>3, QuietKeeps
<1>6. ASSUME Objects!NotAccepted PROVE WrapperAt'
  <2>1. UNCHANGED <<exceptions, csession, cchannel, scope, heap, lost>>
    BY <1>6 DEF Objects!NotAccepted, Objects!clib, Objects!objects
  <2>2. /\ throwing' \in {throwing, FALSE, TRUE}
        /\ returned' \in {returned, "result", "SSH_ERROR", "NULL"}
    BY <1>6 DEF Objects!NotAccepted, Objects!ssh_throw
  <2> QED BY <2>1, <2>2, QuietKeeps
<1>7. CASE Objects!acceptForward
  <2>1. PICK p \in 1..Len(scope) :
           IsSession(scope[p]) /\ (Objects!Accepted(p, scope[p].c) \/ Objects!NotAccepted)
    BY <1>2, <1>7 DEF Objects!acceptForward
  <2>2. scope[p].c \in 1..Len(csession)
    BY <1>1, <2>1, Elements DEF OfSession
  <2> QED BY <1>6, <2>1, <2>2, AcceptedKeeps
<1>9. CASE Objects!acceptX11
  <2>1. PICK o \in Objects!Channels :
           Objects!Accepted(o.session, cchannel[o.c].of) \/ Objects!NotAccepted
    BY <1>9 DEF Objects!acceptX11
  <2>2. /\ o \in OfChannel /\ ChannelAt(o)
        /\ o.session \in 1..Len(scope) /\ IsSession(scope[o.session])
    <3>1. CASE o \in heap
      BY <1>1, <3>1 DEF WrapperAt, AliveAt, ObjectsAt, HasSession
    <3>2. CASE o \notin heap
      <4>1. PICK p \in 1..Len(scope) : o = scope[p] /\ ~IsSession(scope[p])
        BY <1>1, <1>2, <2>1, <3>2, LenProperties DEF Objects!Channels, ObjectsAt
      <4>2. HasSession(o, p - 1) /\ Len(scope) \in Nat /\ o \in OfChannel /\ ChannelAt(o)
        BY <1>1, <4>1, Elements DEF WrapperAt, AliveAt, ObjectsAt
      <4>3. o.session \in 1..Len(scope) /\ IsSession(scope[o.session])
        BY <4>2 DEF HasSession
      <4> QED BY <4>2, <4>3
    <3> QED BY <3>1, <3>2
  <2>3. cchannel[o.c].of \in 1..Len(csession)
    BY <1>1, <2>2, Elements DEF OfChannel, CChannel
  <2> QED BY <1>6, <2>1, <2>2, <2>3, AcceptedKeeps DEF ChannelAt
<1>10. CASE Objects!optionsCopy
  <2>1. PICK p \in 1..Len(scope) :
           /\ IsSession(scope[p])
           /\ \/ /\ csession' = Append([csession EXCEPT ![scope[p].c] = "replaced"], "live")
                 /\ scope' = [scope EXCEPT ![p].c = Len(csession) + 1]
                 /\ Objects!Returns("result")
                 /\ UNCHANGED <<exceptions, cchannel, heap, lost>>
              \/ Objects!ssh_throw("SSH_ERROR") /\ UNCHANGED <<Objects!clib, Objects!objects>>
    BY <1>2, <1>10 DEF Objects!optionsCopy
  <2>2. CASE /\ csession' = Append([csession EXCEPT ![scope[p].c] = "replaced"], "live")
             /\ scope' = [scope EXCEPT ![p].c = Len(csession) + 1]
             /\ Objects!Returns("result")
             /\ UNCHANGED <<exceptions, cchannel, heap, lost>>
    BY <2>1, <2>2, OptionsCopied DEF Objects!Returns, CopiedTo
  <2>3. CASE Objects!ssh_throw("SSH_ERROR") /\ UNCHANGED <<Objects!clib, Objects!objects>>
    <3>1. /\ throwing' \in {throwing, FALSE, TRUE}
          /\ returned' \in {returned, "result", "SSH_ERROR", "NULL"}
      BY <2>3 DEF Objects!ssh_throw
    <3> QED BY <2>3, <3>1, QuietKeeps DEF Objects!clib, Objects!objects
  <2> QED BY <2>1, <2>2, <2>3
<1>8. CASE UNCHANGED objects
  BY <1>8, QuietKeeps DEF objects
<1> QED BY <1>3, <1>4, <1>5, <1>7, <1>8, <1>9, <1>10, NewSessionKeeps, NewChannelKeeps,
           DeleteKeeps DEF Objects!Next

LEMMA AliveMeaning == WrapperAt => HandlesAlive
<1> SUFFICES ASSUME WrapperAt PROVE HandlesAlive
  OBVIOUS
<1>1. CLibAt /\ ObjectsAt /\ AliveAt /\ AloneAt
  BY DEF WrapperAt
<1>2. /\ Objects!Sessions = {p \in 1..Len(scope) : IsSession(scope[p])}
      /\ DOMAIN scope = 1..Len(scope) /\ DOMAIN csession = 1..Len(csession)
      /\ DOMAIN cchannel = 1..Len(cchannel)
  BY <1>1, Elements, LenProperties DEF CLibAt, ObjectsAt
<1>3. Len(scope) \in Nat /\ Len(csession) \in Nat
  BY <1>1, Elements
(* Every object is a Session with a live handle, or a Channel as it should *)
(* be, whose Session is there.                                             *)
<1>4. ASSUME NEW o \in Objects!Objects
      PROVE  IF IsSession(o) THEN o \in OfSession /\ csession[o.c] = "live"
             ELSE o \in OfChannel /\ ChannelAt(o) /\ HasSession(o, Len(scope))
  <2>1. CASE o \in heap
    BY <1>1, <2>1, Elements DEF AliveAt, ObjectsAt
  <2>2. CASE o \notin heap
    <3>1. PICK p \in 1..Len(scope) : o = scope[p]
      BY <1>2, <2>2 DEF Objects!Objects
    <3>2. ~IsSession(o) => HasSession(o, Len(scope))
      BY <1>1, <1>3, <3>1 DEF ObjectsAt, HasSession
    <3> QED BY <1>1, <3>1, <3>2, Elements DEF AliveAt
  <2> QED BY <2>1, <2>2
<1>5. Objects!TypeOK
  <2>1. Objects!ToSet(csession) \subseteq {"live", "replaced", "freed"}
    BY <1>1, <1>2, Elements DEF Objects!ToSet, CSession
  <2>2. \A ch \in Objects!ToSet(cchannel) :
           ch.of \in DOMAIN csession /\ ch.state \in {"live", "freed"}
    <3> SUFFICES ASSUME NEW c \in 1..Len(cchannel)
                 PROVE  cchannel[c].of \in DOMAIN csession /\ cchannel[c].state \in {"live", "freed"}
      BY <1>2 DEF Objects!ToSet
    <3>1. cchannel[c] \in CChannel
      BY <1>1, Elements
    <3> QED BY <1>2, <3>1 DEF CChannel
  <2>3. ASSUME NEW o \in Objects!Objects PROVE o \in Objects!Object
    <3>1. CASE IsSession(o)
      BY <1>2, <1>4, <3>1 DEF Objects!Object, OfSession
    <3>2. CASE ~IsSession(o)
      <4>1. o \in OfChannel /\ o.session \in Objects!Sessions
        BY <1>2, <1>4, <3>2 DEF HasSession
      <4> QED BY <1>2, <4>1 DEF Objects!Object, OfChannel
    <3> QED BY <3>1, <3>2
  <2>4. Objects!ToSet(scope) \subseteq Objects!Object /\ heap \subseteq Objects!Object
    BY <2>3 DEF Objects!Objects, Objects!ToSet
  <2>5. lost \subseteq DOMAIN cchannel
    BY <1>1, <1>2 DEF ObjectsAt
  <2> QED BY <1>1, <2>1, <2>2, <2>4, <2>5 DEF Objects!TypeOK, CLibAt
<1>6. Objects!HandlesAlive
  <2>1. ASSUME NEW o \in Objects!Objects PROVE csession[Objects!About(o)] # "freed"
    <3>1. CASE IsSession(o)
      BY <1>4, <3>1 DEF Objects!About, IsSession
    <3>2. CASE ~IsSession(o)
      <4>1. Objects!About(o) = cchannel[o.c].of /\ ChannelAt(o)
        BY <1>4, <3>2 DEF Objects!About, IsSession
      <4>2. csession[scope[o.session].c] = "live"
        BY <1>1, <1>4, <3>2 DEF AliveAt, HasSession
      <4> QED BY <4>1, <4>2 DEF ChannelAt
    <3> QED BY <3>1, <3>2
  <2>2. ASSUME NEW o \in Objects!Channels PROVE cchannel[o.c].state = "live"
    <3>1. o \in Objects!Objects /\ ~IsSession(o)
      <4>1. CASE o \in heap
        BY <1>1, <4>1, Elements DEF Objects!Objects
      <4>2. CASE o \notin heap
        BY <1>2, <4>2 DEF Objects!Channels, Objects!Objects
      <4> QED BY <4>1, <4>2
    <3> QED BY <1>4, <3>1 DEF ChannelAt
  <2>3. \A p, q \in DOMAIN scope :
           p # q /\ scope[p].kind = scope[q].kind => scope[p].c # scope[q].c
    BY <1>1, <1>2 DEF AloneAt
  <2> QED BY <2>1, <2>2, <2>3 DEF Objects!HandlesAlive
<1> QED BY <1>5, <1>6 DEF HandlesAlive

LEMMA KeptMeaning == WrapperAt => NothingKept
<1> SUFFICES ASSUME WrapperAt, scope = <<>>
             PROVE  /\ Objects!ToSet(csession) \subseteq {"freed", "replaced"}
                    /\ \A c \in DOMAIN cchannel : cchannel[c].state = "freed" \/ c \in lost
  BY DEF NothingKept, Objects!NothingKept
<1>1. CLibAt /\ ObjectsAt /\ OwnedAt
  BY DEF WrapperAt
<1>2. /\ DOMAIN csession = 1..Len(csession) /\ DOMAIN cchannel = 1..Len(cchannel)
      /\ 1..Len(scope) = {}
  BY <1>1, LenProperties DEF CLibAt
<1>3. heap = {}
  BY <1>1, <1>2 DEF ObjectsAt, HasSession
<1>4. ASSUME NEW s \in 1..Len(csession) PROVE csession[s] \in {"freed", "replaced"}
  <2>1. csession[s] \in CSession
    BY <1>1, Elements
  <2> QED BY <1>1, <1>2, <2>1 DEF OwnedAt, CSession
<1>5. ASSUME NEW c \in 1..Len(cchannel) PROVE cchannel[c].state = "freed" \/ c \in lost
  <2>1. cchannel[c] \in CChannel
    BY <1>1, Elements
  <2> QED BY <1>1, <1>2, <1>3, <2>1 DEF OwnedAt, CChannel
<1> QED BY <1>2, <1>4, <1>5 DEF Objects!ToSet

-----------------------------------------------------------------------------

IInv == StructAt /\ CallsWhatIsSet /\ SizesAt /\ WrapperAt

LEMMA InitHolds == MCInit => IInv
<1> SUFFICES ASSUME MCInit PROVE IInv
  OBVIOUS
<1>1. StructAt /\ CallsWhatIsSet
  BY DEF MCInit, Init, StructAt, CallsWhatIsSet
<1>2. SizesAt
  BY BoundsAssumption DEF MCInit, Sizes!Init, SizesAt
<1>3. Objects!Init
  BY DEF MCInit
<1>4. \A T : <<>> \in Seq(T)
  BY EmptySeq
<1>5. Len(<<>>) = 0 /\ 1..0 = {}
  BY EmptySeq
<1>6. CLibAt
  <2>1. csession = <<>> /\ cchannel = <<>>
    BY <1>3 DEF Objects!Init
  <2>2. csession \in Seq(CSession) /\ cchannel \in Seq(CChannel)
    BY <1>4, <2>1, Zenon
  <2> QED BY <1>3, <2>1, <2>2 DEF CLibAt, Objects!Init
<1>7. ObjectsAt
  BY <1>3, <1>4, <1>5 DEF ObjectsAt, Objects!Init
<1>8. AliveAt /\ AloneAt /\ OwnedAt
  BY <1>3, <1>5 DEF AliveAt, AloneAt, OwnedAt, Objects!Init
<1> QED BY <1>1, <1>2, <1>6, <1>7, <1>8 DEF IInv, WrapperAt

LEMMA StepKeeps == IInv /\ [MCNext]_<<part, vars, objects, sizes>> => IInv'
<1> SUFFICES ASSUME IInv, [MCNext]_<<part, vars, objects, sizes>> PROVE IInv'
  OBVIOUS
<1>1. [Next]_vars /\ [Sizes!Next]_sizes /\ [Objects!Next]_objects
  BY DEF MCNext
<1>2. StructAt' /\ CallsWhatIsSet'
  BY <1>1, StructKept DEF IInv
<1>3. SizesAt' /\ WrapperAt'
  BY <1>1, SizesKept, WrapperKept DEF IInv
<1> QED BY <1>2, <1>3 DEF IInv

LEMMA Inductive == MCSpec => []IInv
  BY InitHolds, StepKeeps, PTL DEF MCSpec

(* Whatever is thrown and wherever it is caught, no object has a handle    *)
(* that was freed, and each has its own, for any number of sessions,       *)
(* channels and failing calls.                                             *)
THEOREM OwnersAlive == MCSpec => []HandlesAlive
<1>1. IInv => HandlesAlive
  BY AliveMeaning DEF IInv
<1> QED BY <1>1, Inductive, PTL

(* Leaving all scopes frees all that is neither lost nor replaced. *)
THEOREM AllFreed == MCSpec => []NothingKept
<1>1. IInv => NothingKept
  BY KeptMeaning DEF IInv
<1> QED BY <1>1, Inductive, PTL

(* The sizes that read and write convert twice do not turn into errors,    *)
(* whatever the width of an int.                                           *)
THEOREM SizesTold == MCSpec => []BytesTold
<1>1. IInv => BytesTold
  BY SizesMeaning DEF IInv
<1> QED BY <1>1, Inductive, PTL

(* A library calls only what the application has set, for the event it was *)
(* set for, whichever of the two is newer and whatever the struct.         *)
THEOREM OnlySetCalled == MCSpec => []CallsWhatIsSet
<1>1. IInv => CallsWhatIsSet
  BY DEF IInv
<1> QED BY <1>1, Inductive, PTL

(* Nor does it miss one that was set, once the size is noted. *)
THEOREM AllSetCalled == MCSpec => NoneMissed
<1>1. IInv /\ [MCNext]_<<part, vars, objects, sizes>> =>
         [<<event, called>>' # <<event, called>> /\ registered /\ size > 0 /\ event' \in set
            => called' = event']_vars
  <2> SUFFICES ASSUME IInv, [MCNext]_<<part, vars, objects, sizes>>,
                      <<event, called>>' # <<event, called>>, registered, size > 0, event' \in set
               PROVE  called' = event'
    OBVIOUS
  <2>1. [Next]_vars
    BY DEF MCNext
  <2> QED BY <2>1, StructKept DEF IInv
<1> QED BY <1>1, Inductive, PTL DEF MCSpec, NoneMissed
=============================================================================
