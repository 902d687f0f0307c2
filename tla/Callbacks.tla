----------------------------- MODULE Callbacks -----------------------------
(***************************************************************************)
(* The callback structs of libssh's headers, and the two macros that keep  *)
(* an application and a library of another version apart: the application  *)
(* notes the size its struct has, and the library calls a function only if *)
(* the struct is large enough to have it.  A struct is the sequence of its *)
(* fields, each of them one word.                                          *)
(***************************************************************************)
EXTENDS Naturals, FiniteSets, Sequences

CONSTANTS
    Structs,   \* the layouts as the library knows them
    MaxSet     \* bound: how many fields the application sets

(* The members of a C struct have names of their own; "NULL" is none.      *)
ASSUME StructsAssumption ==
    /\ Structs \subseteq Seq(STRING \ {"NULL"})
    /\ \A s \in Structs : Len(s) > 0 /\ \A i, j \in DOMAIN s : s[i] = s[j] => i = j
    /\ MaxSet \in Nat

(* struct ssh_callbacks_struct *)
ssh_callbacks_struct ==
    <<"size", "userdata", "auth_function", "log_function", "connect_status_function",
      "global_request_function", "channel_open_request_x11_function">>

(* struct ssh_server_callbacks_struct *)
ssh_server_callbacks_struct ==
    <<"size", "userdata", "auth_password_function", "auth_none_function",
      "auth_gssapi_mic_function", "auth_pubkey_function", "service_request_function",
      "channel_open_request_session_function", "gssapi_select_oid_function",
      "gssapi_accept_sec_ctx_function", "gssapi_verify_mic_function">>

(* struct ssh_channel_callbacks_struct *)
ssh_channel_callbacks_struct ==
    <<"size", "userdata", "channel_data_function", "channel_eof_function",
      "channel_close_function", "channel_signal_function", "channel_exit_status_function",
      "channel_exit_signal_function", "channel_pty_request_function",
      "channel_shell_request_function", "channel_auth_agent_req_function",
      "channel_x11_req_function", "channel_pty_window_change_function",
      "channel_exec_request_function", "channel_env_request_function",
      "channel_subsystem_request_function">>

(* struct ssh_bind_callbacks_struct *)
ssh_bind_callbacks_struct == <<"size", "incoming_connection">>

VARIABLES
    theirs,       \* the library's layout
    own,          \* the application's: that of another version, or the same
    size,         \* the struct's field "size"
    set,          \* the other fields the application has set
    registered,   \* the library has a pointer to the struct, which is NULL before
    event,        \* the latest event the library had a callback for
    called        \* and the function it called: "none", or what it took for one

vars == <<theirs, own, size, set, registered, event, called>>

(* New fields are added at the end. *)
Versions(s) == {SubSeq(s, 1, n) : n \in 1..Len(s)} \cup {Append(s, "added_later")}

Data == {"size", "userdata"}
Fields(s) == {s[i] : i \in DOMAIN s}

Init ==
    /\ theirs \in Structs /\ own \in Versions(theirs)
    /\ size = 0 /\ set = {}
    /\ registered = FALSE
    /\ event = "none" /\ called = "none"

(* Mutant of ssh_callbacks_init: the size of the pointer.                  *)
ssh_callbacks_initPointer ==
    /\ size' = 1
    /\ UNCHANGED <<theirs, own, set, registered, event, called>>

(* ssh_callbacks_init(&cb) *)
ssh_callbacks_init ==
    /\ size' = Len(own)
    /\ UNCHANGED <<theirs, own, set, registered, event, called>>

(* The application sets a field, or makes it NULL again. *)
Assign ==
    /\ \E f \in Fields(own) \ {"size"} : set' = (set \cup {f}) \ (set \cap {f})
    /\ Cardinality(set') <= MaxSet
    /\ UNCHANGED <<theirs, own, size, registered, event, called>>

(* ssh_set_callbacks, ssh_set_server_callbacks, ssh_set_channel_callbacks  *)
(* and ssh_bind_set_callbacks                                              *)
Register ==
    /\ registered' = TRUE
    /\ UNCHANGED <<theirs, own, size, set, event, called>>

(* The i-th word from the struct's address on. *)
Word(i) ==
    IF i \notin DOMAIN own THEN "garbage"
    ELSE IF own[i] \in set THEN own[i] ELSE "NULL"

(* Mutant of ssh_callbacks_exists: the word behind the struct counts.      *)
ssh_callbacks_existsEnd(i) == registered /\ i - 1 <= size /\ Word(i) # "NULL"

(* ssh_callbacks_exists(cb, field): the field's offset is below the size.  *)
ssh_callbacks_exists(i) == registered /\ i - 1 < size /\ Word(i) # "NULL"

(* The library calls the callback for an event, if there is one. *)
Event ==
    /\ \E i \in DOMAIN theirs :
          /\ theirs[i] \notin Data
          /\ event' = theirs[i]
          /\ called' = IF ssh_callbacks_exists(i) THEN Word(i) ELSE "none"
    /\ UNCHANGED <<theirs, own, size, set, registered>>

Next == ssh_callbacks_init \/ Assign \/ Register \/ Event

Spec == Init /\ [][Next]_vars

-----------------------------------------------------------------------------

(* "tests if a callback can be called without crash" (callbacks.h:411):    *)
(* whatever the application's version, and whether it has noted the size   *)
(* yet or not, the library calls a function only if the application has set*)
(* it for this very event, and never what lies behind the struct.          *)
CallsWhatIsSet == called # "none" => called = event

(* Once the struct is registered and its size noted, an event the          *)
(* application's version has and has set a function for is not missed,     *)
(* wherever the versions part.                                             *)
NoneMissed ==
    [][<<event, called>>' # <<event, called>> /\ registered /\ size > 0 /\ event' \in set
         => called' = event']_vars
=============================================================================
