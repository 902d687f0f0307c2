------------------------------ MODULE Wrapper ------------------------------
(***************************************************************************)
(* libsshpp.hpp, the C++ wrapper that lies beside the C headers: objects   *)
(* that own a ssh_session or a ssh_channel, and methods that turn the      *)
(* errors of the C calls they make into exceptions.  A client makes        *)
(* objects, calls their methods and leaves scopes, normally or by an       *)
(* exception, which it may catch anywhere.  Allocations never fail here.   *)
(***************************************************************************)
EXTENDS Integers, SequencesExt

CONSTANT
    MaxObjects     \* bound: sessions and channels made by the C library

VARIABLES
    exceptions, \* the client was compiled without SSH_NO_CPP_EXCEPTIONS
    csession,   \* the ssh_sessions: "live", "replaced" by optionsCopy, or "freed"
    cchannel,   \* the ssh_channels: the ssh_session of each, and its state
    scope,      \* the automatic objects, in the order they were made
    heap,       \* Channels made by new: the client holds a pointer to them
    lost,       \* history: such Channels, by their ssh_channel, of which it does not
    throwing,   \* an exception is on its way
    returned    \* what the latest method returned

vars == <<exceptions, csession, cchannel, scope, heap, lost, throwing, returned>>
clib == <<exceptions, csession, cchannel>>
objects == <<scope, heap, lost>>

Init ==
    /\ exceptions \in BOOLEAN
    /\ csession = <<>> /\ cchannel = <<>>
    /\ scope = <<>> /\ heap = {} /\ lost = {}
    /\ throwing = FALSE /\ returned = "nothing"

Room == Len(csession) + Len(cchannel) < MaxObjects

(* A Session owns a ssh_session; a Channel owns a ssh_channel and points   *)
(* to its Session, which is given by its place in scope.                   *)
IsSession(o) == o.kind = "Session"
Sessions == {p \in DOMAIN scope : IsSession(scope[p])}
Channels == {scope[p] : p \in DOMAIN scope \ Sessions} \cup heap

(* The ssh_session the C library finds behind an object's handle.          *)
About(o) == IF IsSession(o) THEN o.c ELSE cchannel[o.c].of

-----------------------------------------------------------------------------

(* Session::Session() *)
NewSession ==
    /\ ~throwing /\ Room
    /\ csession' = Append(csession, "live")
    /\ scope' = Append(scope, [kind |-> "Session", c |-> Len(csession) + 1])
    /\ UNCHANGED <<exceptions, cchannel, heap, lost, throwing, returned>>

(* Channel::Channel(Session &) *)
NewChannel ==
    /\ ~throwing /\ Room
    /\ \E p \in Sessions :
          /\ cchannel' = Append(cchannel, [of |-> scope[p].c, state |-> "live"])
          /\ scope' = Append(scope, [kind |-> "Channel", session |-> p, c |-> Len(cchannel) + 1])
    /\ UNCHANGED <<exceptions, csession, heap, lost, throwing, returned>>

(* Mutant of FreeChannel: nothing is freed.                                *)
FreeChannelKeeps(c) == UNCHANGED cchannel

(* Session::~Session().  Pointers to Channels of this Session are useless  *)
(* from now on, if there are any.                                          *)
EndSession(p) ==
    /\ csession' = [csession EXCEPT ![scope[p].c] = "freed"]
    /\ lost' = lost \cup {h.c : h \in {g \in heap : g.session = p}}
    /\ heap' = {h \in heap : h.session # p}
    /\ UNCHANGED cchannel

(* Channel::~Channel() *)
FreeChannel(c) == cchannel' = [cchannel EXCEPT ![c].state = "freed"]

(* The object made last goes out of scope: at the end of a block, when the *)
(* client has deleted the Channels it was given, or by an exception.       *)
LeaveScope ==
    /\ scope # <<>>
    /\ LET p == Len(scope)
       IN  \/ /\ p \in Sessions
              /\ throwing \/ \A h \in heap : h.session # p
              /\ EndSession(p)
           \/ /\ p \notin Sessions
              /\ FreeChannel(scope[p].c)
              /\ UNCHANGED <<csession, heap, lost>>
    /\ scope' = Front(scope)
    /\ UNCHANGED <<exceptions, throwing, returned>>

(* The client deletes a Channel it was given. *)
Delete ==
    /\ ~throwing
    /\ \E h \in heap : FreeChannel(h.c) /\ heap' = heap \ {h}
    /\ UNCHANGED <<exceptions, csession, scope, lost, throwing, returned>>

Catch ==
    /\ throwing /\ throwing' = FALSE
    /\ UNCHANGED <<clib, objects, returned>>

-----------------------------------------------------------------------------

(* ssh_throw and ssh_throw_null: an exception, or a special value. *)
ssh_throw(value) ==
    \/ exceptions /\ throwing' = TRUE /\ UNCHANGED returned
    \/ ~exceptions /\ returned' = value /\ UNCHANGED throwing

Returns(value) == returned' = value /\ UNCHANGED throwing

(* What becomes of a C call whose result is tested for SSH_ERROR, which    *)
(* SSH_AUTH_ERROR and SSH_SERVER_ERROR are equal to.                       *)
Tested == Returns("result") \/ ssh_throw("SSH_ERROR")

(* Session's methods: those that set it up and log in, from setOption to   *)
(* getAuthList; those that only ask, and disconnect; those that deal with  *)
(* the host's key and with forwarded ports.                                *)
LogIn == Sessions # {} /\ Tested
Ask == Sessions # {} /\ Returns("result")
HostAndForward == Sessions # {} /\ (Tested \/ Returns("result"))

(* Session::getIssueBanner(): without a banner a string is made of NULL,   *)
(* which throws a logic_error, in a build without SshException as well.    *)
getIssueBanner ==
    /\ Sessions # {}
    /\ Returns("result") \/ (throwing' = TRUE /\ UNCHANGED returned)

(* Channel's methods: a change of size and close(); those that only ask;   *)
(* those that open it and move data; those that request something.         *)
SizeAndClose == Channels # {} /\ Tested
AskChannel == Channels # {} /\ Returns("result")
OpenReadWrite == Channels # {} /\ Tested
Request == Channels # {} /\ Tested

Call ==
    /\ ~throwing
    /\ \/ LogIn \/ Ask \/ HostAndForward \/ getIssueBanner
       \/ SizeAndClose \/ AskChannel \/ OpenReadWrite \/ Request
    /\ UNCHANGED <<clib, objects>>

(* The client is given a pointer to a Channel of the Session at p, with a  *)
(* new ssh_channel of the ssh_session the C library was called for.        *)
Accepted(p, of) ==
    /\ Room
    /\ cchannel' = Append(cchannel, [of |-> of, state |-> "live"])
    /\ heap' = heap \cup {[kind |-> "Channel", session |-> p, c |-> Len(cchannel) + 1]}
    /\ Returns("pointer")
    /\ UNCHANGED <<exceptions, csession, scope, lost>>

NotAccepted == ssh_throw("NULL") /\ UNCHANGED <<clib, objects>>

(* Session::acceptForward() *)
acceptForward ==
    /\ ~throwing
    /\ \E p \in Sessions : Accepted(p, scope[p].c) \/ NotAccepted

(* Mutant of acceptX11: the new Channel is given the old one's handle.     *)
acceptX11Same ==
    /\ ~throwing
    /\ \E o \in Channels :
          heap' = heap \cup {[kind |-> "Channel", session |-> o.session, c |-> o.c]}
    /\ Returns("pointer")
    /\ UNCHANGED <<clib, scope, lost>>

(* Channel::acceptX11(): the ssh_channel is one of this channel's own      *)
(* ssh_session, the Session is whose Channel this one is.                  *)
acceptX11 ==
    /\ ~throwing
    /\ \E o \in Channels : Accepted(o.session, cchannel[o.c].of) \/ NotAccepted

(* Session::optionsCopy(source): ssh_options_copy puts a new ssh_session   *)
(* with the source's options at &c_session, or fails and leaves it.        *)
optionsCopy ==
    /\ ~throwing
    /\ \E p \in Sessions, source \in Sessions :
          \/ /\ Room
             /\ csession' = Append([csession EXCEPT ![scope[p].c] = "replaced"], "live")
             /\ scope' = [scope EXCEPT ![p].c = Len(csession) + 1]
             /\ Returns("result")
             /\ UNCHANGED <<exceptions, cchannel, heap, lost>>
          \/ ssh_throw("SSH_ERROR") /\ UNCHANGED <<clib, objects>>

Next ==
    \/ NewSession \/ NewChannel \/ LeaveScope \/ Delete \/ Catch
    \/ Call \/ acceptForward \/ acceptX11 \/ optionsCopy

Spec == Init /\ [][Next]_vars

-----------------------------------------------------------------------------

Object == [kind : {"Session"}, c : DOMAIN csession] \cup
          [kind : {"Channel"}, session : Sessions, c : DOMAIN cchannel]

TypeOK ==
    /\ ToSet(csession) \subseteq {"live", "replaced", "freed"}
    /\ \A ch \in ToSet(cchannel) :
          ch.of \in DOMAIN csession /\ ch.state \in {"live", "freed"}
    /\ ToSet(scope) \subseteq Object /\ heap \subseteq Object
    /\ lost \subseteq DOMAIN cchannel
    /\ exceptions \in BOOLEAN /\ throwing \in BOOLEAN
    /\ returned \in {"nothing", "result", "SSH_ERROR", "NULL", "pointer"}

Objects == {scope[p] : p \in DOMAIN scope} \cup heap

(* No object that can still be used, and no destructor that is still to    *)
(* run, has a handle that was freed, its own or its session's, and no two  *)
(* objects own the same one - whatever is thrown, and wherever it is       *)
(* caught.                                                                 *)
HandlesAlive ==
    /\ \A o \in Objects : csession[About(o)] # "freed"
    /\ \A o \in Channels : cchannel[o.c].state = "live"
    /\ \A p, q \in DOMAIN scope :
          p # q /\ scope[p].kind = scope[q].kind => scope[p].c # scope[q].c

(* When all scopes are left everything was freed, but for the Channels the *)
(* client was given and an exception made it lose, and for what optionsCopy*)
(* has replaced.                                                           *)
NothingKept ==
    scope = <<>> =>
        /\ ToSet(csession) \subseteq {"freed", "replaced"}
        /\ \A c \in DOMAIN cchannel : cchannel[c].state = "freed" \/ c \in lost
=============================================================================
