----------------------------- MODULE MCHeaders -----------------------------
(***************************************************************************)
(* The code in libssh's headers for TLC: the objects of the wrapper, its   *)
(* reads and writes, and the callback structs.  They have nothing to do    *)
(* with one another, and in a behaviour one of them runs.                  *)
(***************************************************************************)
EXTENDS Callbacks

CONSTANTS MaxObjects, INT_MAX, SIZE_MAX

ASSUME BoundsAssumption ==
    /\ MaxObjects \in Nat /\ INT_MAX \in Nat /\ SIZE_MAX \in Nat

VARIABLES
    part,   \* what runs: "objects", "sizes" or "callbacks"
    exceptions, csession, cchannel, scope, heap, lost, throwing, returned,
    call, count, pc, asked, moved, err, outcome

objects == <<exceptions, csession, cchannel, scope, heap, lost, throwing, returned>>
sizes == <<call, count, pc, asked, moved, err, outcome>>

Objects == INSTANCE Wrapper
Sizes == INSTANCE WrapperIO

MCStructs ==
    {ssh_callbacks_struct, ssh_server_callbacks_struct, ssh_channel_callbacks_struct,
     ssh_bind_callbacks_struct}

MCInit ==
    /\ part \in {"objects", "sizes", "callbacks"}
    /\ Init /\ Objects!Init /\ Sizes!Init
    /\ part # "objects" => exceptions
    /\ part # "sizes" => call = "write" /\ count = 0
    /\ part # "callbacks" => own = ssh_bind_callbacks_struct /\ theirs = own

MCNext ==
    /\ UNCHANGED part
    /\ IF part = "objects" THEN Objects!Next ELSE UNCHANGED objects
    /\ IF part = "sizes" THEN Sizes!Next ELSE UNCHANGED sizes
    /\ IF part = "callbacks" THEN Next ELSE UNCHANGED vars

MCSpec == MCInit /\ [][MCNext]_<<part, vars, objects, sizes>>

(* Objects and handles are of the types the classes give them, and none is *)
(* one that was freed, whatever is thrown (Wrapper).                       *)
HandlesAlive == Objects!TypeOK /\ Objects!HandlesAlive

(* All is freed that can be when the scopes are left (Wrapper).            *)
NothingKept == Objects!NothingKept

(* Sizes do not turn into errors, nor errors into sizes (WrapperIO).       *)
BytesTold == Sizes!BytesTold
=============================================================================
