----------------------------- MODULE WrapperIO -----------------------------
(***************************************************************************)
(* Channel::read and Channel::write of libsshpp.hpp: the client gives a    *)
(* size_t, the C functions take a uint32_t and return an int, which is     *)
(* what the client is returned, or an exception.                           *)
(***************************************************************************)
EXTENDS Integers

CONSTANTS
    INT_MAX,    \* largest int
    SIZE_MAX    \* bound: largest size_t the client gives

UINT_RANGE == 2 * (INT_MAX + 1)
ToUint(n) == n % UINT_RANGE
ToInt(n) == IF n <= INT_MAX THEN n ELSE n - UINT_RANGE

SSH_ERROR == -1
SSH_AGAIN == -2
SSH_EOF == -127

VARIABLES
    call,       \* "read", "readNonblocking" or "write"
    count,      \* the size the client gives
    pc,         \* next step of the method
    asked,      \* what the C function is asked to move
    moved,      \* bytes the C function has moved
    err,        \* what it returned
    outcome     \* "returned" or "thrown"

vars == <<call, count, pc, asked, moved, err, outcome>>

Init ==
    /\ call \in {"read", "readNonblocking", "write"}
    /\ count \in 0..SIZE_MAX
    /\ pc = "convert"
    /\ asked = 0 /\ moved = 0 /\ err = 0
    /\ outcome = "none"

(* Mutant of Clamp: the check is left out.                                 *)
ClampNone(n) == n

(* if (count > 0x7fffffff) count = 0x7fffffff; *)
Clamp(n) == IF n > INT_MAX THEN INT_MAX ELSE n

Convert ==
    /\ pc = "convert"
    /\ asked' = ToUint(IF call = "write" THEN count ELSE Clamp(count))
    /\ pc' = "call"
    /\ UNCHANGED <<call, count, moved, err, outcome>>

(* ssh_channel_read_timeout, ssh_channel_read_nonblocking and              *)
(* ssh_channel_write move some of the bytes and return how many, or move   *)
(* none and return a negative number.                                      *)
CCall ==
    /\ pc = "call"
    /\ \/ moved' \in 0..asked /\ err' = ToInt(moved')
       \/ err' \in {SSH_ERROR, SSH_AGAIN, SSH_EOF} /\ moved' = 0
    /\ pc' = "return"
    /\ UNCHANGED <<call, count, asked, outcome>>

(* ssh_throw(err); return err; *)
Return ==
    /\ pc = "return"
    /\ outcome' = IF err = SSH_ERROR THEN "thrown" ELSE "returned"
    /\ pc' = "done"
    /\ UNCHANGED <<call, count, asked, moved, err>>

Next == Convert \/ CCall \/ Return

Spec == Init /\ [][Next]_vars

-----------------------------------------------------------------------------

Tells == outcome = "returned" /\ err = moved

(* A number that is not negative is the number of bytes moved, and no byte *)
(* that was read is lost in an exception or a negative number, however     *)
(* large the buffer; a write is safe up to INT_MAX bytes.                  *)
BytesTold ==
    pc = "done" =>
        /\ outcome = "returned" /\ err >= 0 => err = moved /\ moved <= count
        /\ moved > 0 /\ (call = "write" => count <= INT_MAX) => Tells
        /\ err \in {SSH_AGAIN, SSH_EOF} => outcome = "returned"
=============================================================================
