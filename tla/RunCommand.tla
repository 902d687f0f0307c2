----------------------------- MODULE RunCommand -----------------------------
(***************************************************************************)
(* do_command of menuloop.c: one command runs on the server, on a channel  *)
(* of its own.  Its output comes in blocks, of either stream, as long as   *)
(* the channel's window is open; do_command first reads all of stdout and  *)
(* then all of stderr, and only then sends the end of the input.           *)
(***************************************************************************)
EXTENDS Integers, SequencesExt

CONSTANTS
    Scripts,   \* what a command may do: a sequence over Deed
    Window,    \* blocks the server may send before any is read
    BUFFER     \* blocks that fit into buffer

(* Writes a block to stdout, one to stderr, or reads its own input to the  *)
(* end of it.                                                              *)
Stream == {"out", "err"}
Deed == Stream \cup {"in"}

ASSUME RunAssumption ==
    Scripts \subseteq Seq(Deed) /\ Window \in Nat \ {0} /\ BUFFER \in Nat \ {0}

SSH_OK == 0
SSH_ERROR == -1

VARIABLES
    script,    \* what the command does until it ends, however it ends
    done,      \* how much of it is done
    up,        \* the SSH connection is alive
    pc,        \* next statement of do_command
    channel,   \* state of the ssh_channel
    remote,    \* the command has been started, or has ended
    window,    \* how many blocks the server may still send
    pending,   \* blocks received and not read, as indices into script
    shown,     \* blocks written to the terminal
    rc         \* return code

vars == <<script, done, up, pc, channel, remote, window, pending, shown, rc>>
server == <<script, done, up, remote>>

Init ==
    /\ script \in Scripts /\ done = 0
    /\ up = TRUE
    /\ pc = "new" /\ channel = "null"
    /\ remote = "none"
    /\ window = Window /\ pending = [s \in Stream |-> <<>>]
    /\ shown = <<>>
    /\ rc = SSH_OK

-----------------------------------------------------------------------------

(* The command's next block is sent, if the window is open. *)
Send(s) ==
    /\ up /\ remote = "started" /\ channel = "open"
    /\ done < Len(script) /\ script[done + 1] = s
    /\ window > 0
    /\ done' = done + 1 /\ window' = window - 1
    /\ pending' = [pending EXCEPT ![s] = Append(@, done + 1)]
    /\ UNCHANGED <<script, up, pc, channel, remote, shown, rc>>

(* The command has ended, and the server sends the end of its output. *)
End ==
    /\ up /\ remote = "started"
    /\ done = Len(script)
    /\ remote' = "ended"
    /\ UNCHANGED <<script, done, up, pc, channel, window, pending, shown, rc>>

LoseConnection ==
    /\ up /\ pc # "return"
    /\ up' = FALSE
    /\ UNCHANGED <<script, done, pc, channel, remote, window, pending, shown, rc>>

-----------------------------------------------------------------------------

(* do_command returns, having freed the channel. *)
GiveUp ==
    /\ channel' = "freed"
    /\ pc' = "return" /\ rc' = SSH_ERROR

ChannelNew ==
    /\ pc = "new"
    /\ \/ channel' = "new" /\ pc' = "open" /\ UNCHANGED rc
       \/ pc' = "return" /\ rc' = SSH_ERROR /\ UNCHANGED channel
    /\ UNCHANGED <<server, window, pending, shown>>

(* Mutant of OpenSession: the channel that was not opened is not freed.    *)
OpenSessionLeaks ==
    /\ pc = "open"
    /\ \/ up /\ channel' = "open" /\ pc' = "exec" /\ UNCHANGED rc
       \/ pc' = "return" /\ rc' = SSH_ERROR /\ UNCHANGED channel
    /\ UNCHANGED <<server, window, pending, shown>>

OpenSession ==
    /\ pc = "open"
    /\ \/ up /\ channel' = "open" /\ pc' = "exec" /\ UNCHANGED rc
       \/ GiveUp
    /\ UNCHANGED <<server, window, pending, shown>>

(* The command runs although the answer may be lost with the connection.   *)
RequestExec ==
    /\ pc = "exec"
    /\ \/ up /\ remote' = "started" /\ pc' = "out" /\ UNCHANGED <<up, channel, rc>>
       \/ up /\ remote' = "started" /\ up' = FALSE /\ GiveUp
       \/ GiveUp /\ UNCHANGED <<up, remote>>
    /\ UNCHANGED <<script, done, window, pending, shown>>

(* ssh_channel_read returned n blocks of a stream.  libssh opens the       *)
(* window again when it hands data over.                                   *)
Take(s, n) ==
    /\ pending' = [pending EXCEPT ![s] = SubSeq(@, n + 1, Len(@))]
    /\ window' = Window

(* Mutants of After: stderr is not read, or is read first and last.        *)
AfterOutDone(s) == "finish"
AfterBack(s) == IF s = "out" THEN "err" ELSE "out"

After(s) == IF s = "out" THEN "err" ELSE "finish"

(* The loop that reads a stream and writes it to the terminal.  A read     *)
(* waits until there is data of this stream, the output has ended or the   *)
(* connection is lost; a write that falls short ends do_command.           *)
Read(s) ==
    /\ pc = s
    /\ \/ /\ pending[s] # <<>>
          /\ LET n == IF Len(pending[s]) < BUFFER THEN Len(pending[s]) ELSE BUFFER
             IN  /\ Take(s, n)
                 /\ \/ shown' = shown \o SubSeq(pending[s], 1, n)
                       /\ UNCHANGED <<pc, channel, rc>>
                    \/ \E k \in 0..(n - 1) : shown' = shown \o SubSeq(pending[s], 1, k)
                       /\ GiveUp
       \/ /\ pending[s] = <<>> /\ remote = "ended"
          /\ pc' = After(s)
          /\ UNCHANGED <<channel, window, pending, shown, rc>>
       \/ ~up /\ GiveUp /\ UNCHANGED <<window, pending, shown>>
    /\ UNCHANGED server

(* ssh_channel_send_eof, close and free, whatever they return. *)
CleanUp ==
    /\ pc = "finish"
    /\ channel' = "freed"
    /\ pc' = "return" /\ UNCHANGED rc
    /\ UNCHANGED <<server, window, pending, shown>>

Step == ChannelNew \/ OpenSession \/ RequestExec \/ Read("out") \/ Read("err") \/ CleanUp
Server == Send("out") \/ Send("err") \/ End

Next == Step \/ Server \/ LoseConnection

Spec == Init /\ [][Next]_vars

(* The program runs whenever a call has returned; the command goes on      *)
(* while it can, and the server passes its output on.                      *)
FairSpec == Spec /\ WF_vars(Step) /\ WF_vars(Server)

-----------------------------------------------------------------------------

TypeOK ==
    /\ script \in Seq(Deed) /\ done \in 0..Len(script)
    /\ up \in BOOLEAN
    /\ pc \in {"new", "open", "exec", "finish", "return"} \cup Stream
    /\ channel \in {"null", "new", "open", "freed"}
    /\ remote \in {"none", "started", "ended"}
    /\ window \in 0..Window
    /\ pending \in [Stream -> Seq(1..Len(script))] /\ shown \in Seq(1..Len(script))
    /\ rc \in {SSH_OK, SSH_ERROR}

(* What the command writes to a stream with its first n deeds, and with    *)
(* all of them, as indices into script.                                    *)
Sent(s) ==
    LET sent[n \in 0..Len(script)] ==
            IF n = 0 THEN <<>>
            ELSE IF script[n] = s THEN Append(sent[n - 1], n) ELSE sent[n - 1]
    IN  sent
Output(s) == Sent(s)[Len(script)]

Shown == INSTANCE FileCopy WITH
    src <- Output("out") \o Output("err"), dst <- shown,
    status <- IF pc = "return" THEN IF rc = SSH_OK THEN "ok" ELSE "error"
              ELSE IF pc \in Stream \cup {"finish"} THEN "copying" ELSE "idle"

(* do_command is a FileCopy of the command's stdout, followed by its       *)
(* stderr, to the terminal: in whatever order the server sends them and    *)
(* wherever a read or a write fails, nothing is skipped, repeated or shown *)
(* out of place, and SSH_OK means that everything was shown.               *)
ShownSpec == Shown!Spec

(* The channel is freed on every way out, and no way but the last leaves   *)
(* it to a command that is still to be read.                               *)
ChannelFreed ==
    /\ pc = "return" <=> channel \in {"null", "freed"} /\ pc # "new"
    /\ pc \in Stream \cup {"finish"} => channel = "open" /\ remote # "none"

(* A command ends that does not read its input, and writes fewer blocks to *)
(* stderr in a row, between those to stdout, than the window lets through. *)
Fits ==
    /\ "in" \notin ToSet(script)
    /\ \A i \in 0..(Len(script) - Window - 1) :
          \E j \in (i + 1)..(i + Window) : script[j] = "out"

(* do_command returns for every such command, also when stderr is written  *)
(* while stdout is read; and for every command once the connection is      *)
(* lost, whatever it is waiting for.                                       *)
CommandReturns == (Fits \/ ~up) ~> pc = "return"
=============================================================================
