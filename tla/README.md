# SSHProject in TLA+

A verification development for SSHProject, a small interactive SSH client
(`main.c`, `menuloop.c`) built on libssh. It lies beside the code: every
definition that stands for code is mapped to its lines in `PROJECT.json`.

## 1. The system

One process, one thread, driven by a user at a terminal and talking to one
server over one connection. `main.c` includes `menuloop.c`; libssh is a DLL with
its headers under `libssh/`.

| component | code | state | operations |
|---|---|---|---|
| Session set-up and take-down | `main`, `verify_knownhost` (main.c) | `myssh`, `mysftp`, `hash`, `buf`, `name`, `pass` | connect, judge the server's key with the user, log in, open the sftp channel, run the menu, take down |
| Menu loop and parser | `menuloop`, `parse` (menuloop.c:29-147) | `comm`, `fname`, `command`, `local`, `remote` | read a command, test the connection, dispatch one of 13 commands |
| Single-file transfer | `push_single`, `pull_single` (151-241) | two file handles, a block buffer, `nread`, `nwrite`, `rc` | open both files, copy block by block, close |
| Directory transfer | `pull_all_files`, `push_all_files` (313-398) | a directory handle, counters | filter entries, transfer each one, report |
| Remote command | `do_command` (243-311) | a channel | execute, drain stdout, drain stderr, close |
| Navigation | `change_remote_directory`, `change_local_directory` (471-545) | the path strings of the menu | append a name after opening the directory, trim at the last `/` for `..` |
| Listings | `list_remote_stuff`, `list_local_stuff` (400-469) | a directory handle, attributes | read and print |
| C++ wrapper | `Session`, `Channel`, `SshException` (libssh/libsshpp.hpp, vendored, not used by the two C files) | the handles objects own | construct, call, throw, unwind, delete |
| Callback structs | the structs and macros of libssh/callbacks.h and server.h (vendored, not used by the two C files) | a struct in the application's memory | note its size, set fields, register, test a field |
| libssh | the other headers, `ssh.dll` (vendored) | | external: modelled at each call by the results it may have |

How they interact: `main` calls `menuloop` once, between set-up and take-down;
`menuloop` calls the operations and passes them the two sessions and the two
current paths; the directory transfers call the single-file transfers. All of
them share the connection, which may be lost at any moment, and standard input,
where what one call leaves unread is what the next one finds: lines may be typed,
pasted or piped in long before they are asked for.

What is hard here is not concurrency inside the program but what surrounds it:
calls that fail one by one, and late; a connection that goes away in the middle
of a request the server has carried out; a terminal whose lines are read by
`scanf` and `fgets` in turn. The list of these hazards, each at its line and with
the properties about it, is in `PROJECT.json`.

What makes each component correct:

- *Set-up and take-down*: no password reaches a server whose key is not known; an
  unknown key needs the user; whatever fails, what was made is taken down, once
  and in order; the end of the input ends the dialogue.
- *Menu*: a command is read once and run once, the right one, on a live
  connection; a lost connection ends the loop.
- *Transfer*: success means a complete copy; a failure leaves a prefix and is
  reported; no handle is lost; nothing is overwritten in vain; the loop ends.
- *Directory transfer*: regular files only; the counts are right; the end of the
  directory is told from an error; it ends.
- *Remote command*: all of both outputs, in order; the channel is always freed.
- *Navigation*: a current path names a directory that could be opened; `..` undoes
  the last step.
- *Listings*: every entry once, in order; what was read is freed.
- *C++ wrapper*: no object outlives or shares its handle, whatever is thrown;
  sizes do not turn into errors.
- *Callback structs*: a library and an application of different versions call one
  another's functions right.

## 2. The modules

| module | models | how |
|---|---|---|
| `FileCopy` | what a transfer promises | abstract: `src`, `dst` and a status; the destination grows by prefixes and is the source when the status becomes "ok" |
| `Transfer` | `push_single`, `pull_single` | one action per statement that matters; `dir` says which of the two runs |
| `MCTransfer` | | files and block size for TLC |
| `TransferProofs` | | theorems about `Transfer` |
| `Stdio` | `scanf`, `fgets` | operators on the sequence of words, blanks and line ends that has been typed, and on how much of it was read; external |
| `Session` | `main`, `verify_knownhost` | one action per library call or read, the user as an actor |
| `MCSession` | | the lines a user may type, for TLC |
| `StdioProofs` | | lemmas about what `scanf` and `fgets` return, and on which line it stands |
| `EachItem` | what going through a directory promises | abstract: the items that are left and a status |
| `Directory` | the four functions that loop over a directory | one action per call and per branch of the loop; `op` says which function runs |
| `MCDirectory` | | directories for TLC |
| `DirectoryProofs` | | theorems about `Directory` |
| `RunCommand`, `MCRunCommand` | `do_command` | one action per library call; the command on the server and the window as actors |
| `RunCommandProofs` | | theorems about `RunCommand` |
| `Walk` | what a change of directory promises | abstract: a position in a tree |
| `Navigate`, `MCNavigate` | `change_local_directory`, `change_remote_directory` | one action per call, for names with slashes and dots; the tree as an actor |
| `NavigateProofs` | | theorems about `Navigate` |
| `SSHProject`, `MCSSHProject` | the whole program | extends `Session`, whose state is `main`'s, and instantiates `Menu` for `menuloop` |
| `SSHProjectProofs` | | theorems about `Session` and about the composition |
| `Wrapper` | the classes of libsshpp.hpp | one action per constructor, destructor and kind of method; scopes and exceptions |
| `WrapperIO` | `Channel::read`, `Channel::write` | the conversions of sizes |
| `Callbacks` | the callback structs and their macros | the application and the library as actors |
| `MCHeaders` | | `Wrapper`, `WrapperIO` and `Callbacks` for TLC |
| `HeadersProofs` | | theorems about the three |
| `Menu` | `menuloop`, `parse`, `change_local_directory`, `change_remote_directory` | one action per read, per call of `parse` and per operation; the user and the network as actors |
| `MCMenu` | | lines, directories and buffer contents for TLC |
| `MenuProofs` | | theorems about `Menu` |

### Transfer

The two functions are mirror images, and one module is about both: `From` and `To`
are the sides of the source and the destination, in the order the code opens
them. A file is a sequence of bytes and `pos` is how far the source was read.
`ReadLocal`, `SendBlock` are `fread`, `sftp_write` of the push loop, `ReadRemote`,
`StoreBlock`, `StoreGarbage` are `sftp_read`, `fwrite` of the pull loop. The write
and the loop's condition are one action, since nothing happens between them.
`Close` is `sftp_close`, whose result is returned, and `fclose`, whose result is not
looked at.

`Faults` names the calls that may fall short on a live connection; in each transfer
(`faults`) they all may, or none. The loss of the connection and the failure of an open
or a close are always possible. `CopySpec` is about the transfers where none may:
there, success means a complete copy.
`fwrite(buffer, 1, nread, lfile)` with `nread = -1` is undefined behaviour: the
process dies, or something that was not in the source may be stored (`Junk`).

### Session

`stdin` is all that has been typed so far and `taken` how much of it has been read.
`TypeLine` lets the user type any line of `Lines`, or end the input with or without a last
line that has no end, at any moment, whatever the program is doing: lines typed ahead,
pasted or piped in are all of this kind. `Waiting` only says when a read blocks. `name`
and `pass` are the places in `stdin` where the two words were found and `answer` has the two
parts that `fgets` returned, so that a property can ask on which line (`Line`) something
was read. The end of the input is permanent, as the C standard has it. Each library
call that can fail is a choice between its results; calls that cannot matter to the
properties (printing, `ssh_options_set`, `ssh_get_hexa`) are left out. `menuloop` is one step
here, with either result `main` looks at.

The refusing branch of `AnswerTrust` is kept as the code has it, though no input
takes it: what `fgets` reads there always starts with the white space `scanf`
stopped at, so it never equals `"y"`. A word too long for `buf` (`LongWord`) is one that
`fgets` stops behind; the rest of its line is read by the next call.

### Menu

The terminal is that of `Session`. `parse` is called twice in a turn of the loop, by
`LoopTest` and by `Switch`, and asks for the connection each time; `LoseConnection` may
come between any two steps. `choice` is what the switch was given, `local` and
`remote` are the two current paths as sequences of names that start at `"."`, and
`ChangeDirectory` is the whole of either `change_*_directory`: a failing open or close
leaves the path alone, `..` cuts the last name off. Names have no slash in them and
are not `"."`, so that a path is its list of names; a path that `..` is not allowed
to shorten further is `"."`. The operations that do not touch `menuloop`'s own state
(transfers, listings, remote command) are one step with any outcome.

`comm`, `fname` and `command` hold `Garbage` until `scanf` writes to them, and at the
end of the input it does not: then the last word is run again, as in the code.
`at` is a history variable, the place in `stdin` where the command that is being done was
read, and 0 when it was not read but found in `comm`. `FileNames` and `RemoteWords` are the
words the user has for files and for commands on the server; the module types lines
of any words, and `Tidy` says of all that has been typed that it makes sense: a file's
name follows where a command asks for one, on the same line or a later one, and
nowhere else. `InStep` has `Tidy` as its premise and says nothing of when or how far ahead
the lines were typed. A name with a blank in it is not one word and does get out of step.

### Directory

`items` is what the directory holds, in the order it is read, and `cursor` how far it
has been read; an entry is hidden or not and has a kind. The four functions share
their shape, `OpenDir`, `ReadEntry` or `ReadNull`, something for the entry, `CloseDir`, and
differ in `Skipped` (names with a dot), `Folder` (what is counted and left alone: type 2
for `pull_all_files`, everything but `DT_REG` for `push_all_files`), and `CannotList` (only
the remote ones ask `sftp_dir_eof`). `MoveFile` is `push_single` or `pull_single` with the
outcomes `Transfer` allows: nothing, a part or all of the file on the other side, and
either result. `loud` says that no transfer returns `SSH_OK` for a part of a file, which
`Transfer`'s `CopySpec` shows where calls only fail loudly; a link to a folder is the
exception, since it opens like a file and cannot be read. `CountsTrue` says less where
`loud` is FALSE or such a link occurs. `WaitForWriter` is the
`sftp_open` of a named pipe, which is answered when somebody writes to the pipe,
perhaps never. Attributes are counted (`held`), since `list_remote_stuff` frees them
one by one.

`EachItem` is what both remote functions implement: success only when no entry is
left. For the local ones `left` is empty in the refinement, since `readdir` tells them
an error as it tells them the end and they do not look at `errno`.

### RunCommand

`script` is what the command on the server does: write a block to stdout or to
stderr, or read its input to the end, which never comes before `do_command` has read
all the output. `window` is how many blocks the server may still send; libssh opens it
again whenever it hands data over. `Read` is either of the two loops. The
specification is `FileCopy` once more: stdout followed by stderr is the source, the
terminal the destination (`ShownSpec`).

### Navigate

`Menu` has the two changes of directory as one step over plain names, which is what
the menu needs. `Navigate` has their calls one by one, in a tree that other programs
change, and names as a user may type them: a path is the sequence of the parts
between its slashes, and `Where` follows it as a file system does. `seen` is a history
variable with the directories that lay on a path that could be opened. For plain
names the two functions implement `Walk`: no step leads above its start, and a call
that fails, at its last statement too, leaves the user where he was. `Users` has the sets of
names a user may type, and a behaviour is one user's: `Plain` users, of whom `WalkSpec`
speaks, type one plain name at a time, the others anything.

### SSHProject

`Session` is extended and `Menu` instantiated over one `stdin`, one `taken`, one `eof` and one
connection, `up`; `Menu`'s `pc` is `loop` here. `Main` is a step of `main`, `Menuloop` one of
`menuloop` while `main` is in its call, `Return` hands the result over, and `UserTypes` may
come between any two. A call of `main` that needs the connection (`NeedsConnection`)
succeeds only on a live one. `CommandsTyped` is about a user who gives one word on each
line (`OneWordALine`), at any time: it says which of his lines is the password, and that
only later ones are run. Other users do get out of step: the second word on a line is
read by the next prompt.

### Wrapper and WrapperIO

`exceptions` tells how the client was compiled (`SSH_NO_CPP_EXCEPTIONS`). `scope` is the
stack of automatic objects; `LeaveScope` ends the lifetime of the latest one, at the end
of a block or while an exception is on its way, and `Catch` may stop that anywhere.
`heap` has the Channels that `acceptForward` and `acceptX11` made by `new`; `lost` those the
client can no longer delete. `csession` and `cchannel` are the C library's objects behind
the handles; a `ssh_channel` remembers its own `ssh_session`, which is the one `acceptX11`
accepts on, and which is not the Session's any more after `optionsCopy` has replaced
that. The methods that leave handles alone are grouped by what they do with the result of
their C call: test it (`ssh_throw`: `LogIn`, `SizeAndClose`, `OpenReadWrite`, `Request`), pass it on
(`Ask`, `AskChannel`), or either (`HostAndForward`). `getIssueBanner` is apart: without a banner it
makes a string of NULL, and the `logic_error` of that is thrown in a build without
`SshException` too. `optionsCopy` replaces the handle, or fails and leaves it. Which error an
exception carries is not modelled. `WrapperIO` has the widths: `UINT_RANGE` is twice
`INT_MAX + 1`, and every conversion wraps as C's does on the platforms libssh builds on.

### Callbacks

A struct is the sequence of its fields, each one word, as the headers list them.
The application's layout is a prefix of the library's, the same, or longer by a
field (`Versions`). `Word(i)` is the i-th word from the struct's address on, `"garbage"`
behind its end. The application may note the size, set and clear fields and register
the struct in any order.

`MCHeaders` runs one of `Wrapper`, `WrapperIO` and `Callbacks` in each behaviour (`part`):
they have no state in common.

## 3. The runs

| run | question | result |
|---|---|---|
| `transfer_faults` | what survives every fault: types, prefix, handles, order of opening, termination; and do both functions implement `FileCopy` when calls only fail loudly? | holds |
| `transfer_errors` | does a failed read or write give an error code, as Report.md:26 says? | violated |
| `session_setup` | who gets a password, which line lets an unknown key in, what is freed, in which order, does it end? | holds |
| `session_trust` | is an unknown server let in only after the question of main.c:140 was answered? | violated |
| `session_agree` | is a key written only for a user who agreed (main.c:152)? | violated |
| `menu_loop` | do words stay in step with prompts however far ahead they are typed, does a word run once, does each command move only its own current path, does a lost connection end the loop? | holds |
| `run_command` | is `do_command` a copy of both outputs to the terminal, is the channel freed, and for which commands does it return? | holds |
| `directory_all` | all four loops: true counts, told before closing, listed once, do the remote two implement `EachItem`, do all return? | holds |
| `directory_regular` | does `pulla` pull regular files only, as menuloop.c:23 says? | violated |
| `navigate_all` | plain names: is it a `Walk` at or below the start, also when calls fail? Any names: were all directories above the path there? | holds |
| `whole_program` | main and menu together: complete sessions, all freed after the menu, which lines are the password and the commands, does it end? | holds |
| `headers_all` | handles and leaks of the wrapper under exceptions, its sizes, callbacks across versions | holds |

**Bounds.** `Transfer`: blocks of two bytes, sources of zero to five different
bytes, so that the empty file, a short block, one and two exact blocks, and two
blocks and a byte all occur, and a block lost, repeated or displaced shows; every
such content also as the destination's old content, or no file. Longer files
repeat the loop from the same states. `Session`: ten lines (empty, blank, one or
two words, words too long for `buf` in front and behind), three of them with their ends and
a last one without: the prompts read a line each, and the name's line is read by two of
them. `Menu`: twelve lines, with a command of each kind of argument, typed alone, with its
argument, or with two words in place of a name, and three of them and a last one without
an end, which is a command, its argument and two more; all of them may be typed before
the first is read. A local tree is two directories deep and a remote one of depth one,
so that names exist on neither, one or both sides and `..` is typed at the top and below
it.

`RunCommand`: every script of up to five deeds over a window of two blocks, so that
the window fills, with stderr alone or mixed, and opens again. `Directory`: every
directory of up to three entries out of two hidden and six visible kinds, so that
an entry of each kind comes before, between and after others. `Navigate`: a tree three
deep that starts at its second level, nine names, and paths of up to three parts, so that a
path leaves and enters the start again and each pair of names occurs. `SSHProject`: six
lines, one of them empty, one with a word too long for `buf` and one with a word too many,
and four of them with their ends and a last one without: a host, an answer, a password
and two for the menu. `Wrapper`: four C objects, so that two sessions can each have a
channel, or one of them be replaced under its channel, which then accepts another.
`WrapperIO`:
an int of four bits with sizes up to 40, more than twice `UINT_RANGE`, so that sizes wrap
twice. `Callbacks`: the four layouts in full, each with every version, and at most two
fields set.

**Fairness.** `Transfer`, `Session` and `Menu` assume weak fairness of the program's own
steps: the libraries' calls return, with an error if need be (libssh's blocking
calls time out or notice the closed socket). No fairness is assumed of the user,
the network or any particular result of a call: `LostConnectionEnds` therefore has
the user who never types again as its other way to go on.

`Directory` and `SSHProject` assume the same; `Navigate` and the modules of the headers
have safety properties only and assume none. `Returns` has an exception for
`pull_all_files` and a special file: opening a pipe may wait for as long as the connection is up. `RunCommand` also assumes weak fairness
of the server: a command that can go on does, since it is a process of its own there,
and what it writes arrives while the connection and the window allow it.
`CommandReturns` names the commands this is enough for (`Fits`); for the others see below.

Two simplifications bear on liveness. `ssh_is_connected` is taken to notice a loss at once;
a library that notices late has `menuloop` go on for as long, with calls that fail. And
`Transfer` takes every open to return; that the open of a pipe may not is `Directory`'s
`WaitForWriter`.

`NeverOops` shows that the default branch of the switch ("Normal operation should
not get here", menuloop.c:115) is not reached although the connection may go away
between the two calls of `parse`: the second then gives 0, for which the switch has
a case. `main`'s branch for a failing `menuloop` is therefore dead code.


**Findings.** Four runs show that the code does otherwise than it or its report
says. (1) `push_single` and `pull_single` return the result of `sftp_close`, so a failed
or short read or write is reported as success to the caller. (2) The first question
of `verify_knownhost` reads the rest of the name's line and is over before the user
can answer. (3) The second question writes the key for every answer that is a line.
(4) `pull_all_files` pulls whatever is not a folder, links and special files too, where the
help text says regular files.

**Limits the models show**, without a run of their own: the properties name these
cases as exceptions.

- `do_command` and a command that fills the window with stderr, or reads its input,
  wait for one another (`Fits`).
- `push_all_files` takes an error of `readdir` for the end (`EveryItem` is about the
  remote loops), and both directory transfers return 0 although some transfers
  failed: `CountsTrue` is all that is promised.
- A pipe in a directory may block `pull_all_files` for as long as the connection is up
  (`Pipe`), and a listing that breaks off is closed without the counts of what was moved
  before (`KnowWhatMoved`).
- `main` frees neither session when `sftp_new` or `sftp_init` fails, main.c:62 and 69
  (`LeakOnlyWithoutSftp`), and `verify_knownhost` loses the hash at main.c:133 (`HashReleased`).
- A name's line too long for `buf` answers both questions of `verify_knownhost` by itself
  (`LetInByNextLine`). Since the first question takes the rest of the name's line, one line
  after it is enough for any unknown key, also when both were typed before the hash
  was shown.
- A word too many on a line, a name with a blank in it or a password with one, is read
  by the next prompt, and may be run as a command (`OneWordALine`, `Tidy`).
- `..` cuts the path's last part off, which after `.` or `a/` is not the current
  directory (`Plain`).
- Channels made by `acceptForward` and `acceptX11` can be lost to an exception (`lost`),
  and `optionsCopy` leaks the `ssh_session` it replaces, to which the channels made before
  still belong (`NothingKept`).
- `getIssueBanner` makes a string of NULL when there is no banner.
- Without exceptions `acceptForward` and `acceptX11` return NULL, and `Channel::write` has
  no limit on its size as `read` has (`BytesTold`).

## 4. The proofs

`TransferProofs` proves, for every set of bytes, every source and old destination,
every block size and every set of faults:

- `TypeCorrect`, `PrefixSafe`, `HandlesReleased`: `Transfer`'s type invariant,
  `PrefixOfSource` and `OneHandleLost`;
- `SourceOpenedFirst`: the action property `SourceFirst`;
- `ImplementsFileCopy`: `Spec => CopySpec`, the refinement of the transfers in which calls
  fail only loudly.

They rest on one inductive invariant, `IInv`. `PrefixOfSource` alone is not
inductive: that a write gives a longer prefix needs to know that the block in
transit is the part of the source that follows what has been written (`DataAt`),
and that the loop only goes round when all of it was stored. `HandlesAt` ties the
handles to the program counter; `ReliableAt` is what the refinement needs of a
transfer without faults: a negative `nread` means the connection is gone, so `sftp_close` fails too,
and at the end of the loop on a live connection everything has been written. The
lemmas about prefixes (`PrefixGrows`, `PrefixTypes`, `PrefixShrinks`) carry the
sequence reasoning, `StoredFacts` and `LoopFacts` apply them to a write. Assumed are
`BufferAssumption` (blocks are not empty), `ContentsAssumption` (files are sequences
of bytes, and `Junk` is none) and `FaultsAssumption`.

`SSHProjectProofs` proves of `main` by itself (`Session`), for every set of words, every
set of lines and any number of them:

- `TypeCorrect`: `Session`'s type invariant;
- `NoLeakWithSftp`, `HashGivenBack`: `LeakOnlyWithoutSftp` and `HashReleased`;
- `TornDownInOrder`: the action property `TeardownOrder`;
- `LetInOnlyByNextLine`: `LetInByNextLine`;
- `PasswordSafe`: `PasswordToKnownHost`.

The invariant is built in layers, each of which uses the ones before: `SessionsAt`
ties the two sessions to the program counter, `KeyAt` the hash. `InputShape` says that only
the end of the input leaves a line without its end. `NameAt`, `AnswersAt` and `PasswordAt` say
where in all that was typed each call has read: the name is the first word, the first
answer starts right behind it and goes to the first place `fgets` stops at (`FirstAnswer`),
the second one starts there (`SecondAnswer`), the password is the first word behind what
was read before. Nothing in them depends on when the lines were typed, so that a step
of `TypeLine` keeps them: what stood first stays first when more is appended
(`ExtendsFacts`). The answer `"y"` without an end of line is the last thing there is
(`BareAnswerIsLast`), and after it no password can be read. Lines are counted by the ends
before a place, and `StdioProofs` has what follows from reading on: a stretch without an
end stays on its line (`OneLineOn`), one with a single end at its end leads to the next
(`NextLine`). Assumed are `WordsAssumption` (words are not white space, `"y"` fits into `buf`, what
does not is a word too) and `LinesAssumption`.

`MenuProofs` proves, for every set of words, lines and directories:

- `TypeCorrect`: `Menu`'s type invariant;
- `StaysInStep`, `RunsOnce`: `InStep` and `RunOnce`;
- `NeverOopsHolds`: `NeverOops`;
- `DirectoriesMove`: the action property `DirectoryMoves`.

`InStep` is not inductive: between two commands one must know what the next word is
meant for. `MeantAt` says that at the prompt for a command, the last word that was read
asks for nothing more (`Settled`), so that by `Tidy` the next one is neither a name nor a part
of a remote command (`NextIsCommand`, by `TidyFacts` on the two neighbours). That a line typed later
does not make sense of what did not before is `TidyBefore`, which carries `MeantAt` over
`TypeLine`. `RestIsRemote` is why a remote command leaves no word behind:
`scanf(" %[^\n]s")` takes the whole line. `ChoiceAt` keeps the word the switch was given in `comm` until the operation runs, for `DirectoryMoves`,
and `WordAt` says where it was read and that nothing was read since, for `RunOnce`. Assumed
are `Menu`'s `LinesAssumption` (lines have no end of line in them, the garbage in a buffer is
not white), `VocabularyAssumption` (names and words of remote commands are told apart and
are none of the commands that ask for more) and `DirsAssumption` (a directory's parent is
one).

The second half of `SSHProjectProofs` proves of `main` and `menuloop` together:

- `MenuRunsInSession`, `ExitFreesBoth`: `MenuInSession` and `ExitFrees`;
- `OnlyCommandsRun`: `CommandsTyped`.

A step of `main` in the program is one of `Session`'s, so that the life of the two sessions
(`SessionsAt`) is kept by the lemmas of the first half; of `menuloop` it instantiates `MenuProofs`.
`SftpAt` and `LoopAt` put `menuloop`'s state beside `main`'s, `CommandAt` has the command that is
being run behind the password in the input, wherever that was when it was typed.
`CommandsTyped` then counts lines: with one word on each and none empty, the first word
behind a place stands on the next line (`NoneSkipped`, `OneEnd`, `NextWordsLine`), and the answers of
`verify_knownhost` stand between the name's line and the password's (`PasswordAfterAnswers`).
Assumed are `Session`'s assumptions and `ProgramAssumption`, those of `Menu`.

`RunCommandProofs` proves, for every script, window and buffer, `TypeCorrect` and
`ChannelGivenBack` (`ChannelFreed`). The invariant adds what the channel is before the
first read (`ChannelAt`); `PartType` is what keeps the two sequences of blocks typed when
a read takes a part of one. Assumed is `RunAssumption`: scripts are sequences of deeds,
window and buffer are not empty. `ImplementsFileCopy` is the refinement, `Spec => ShownSpec`.
`Sent` has what the first deeds of the script have written, by recursion on their number;
`SentGrows` says that more deeds only append to it, and `ShownAt` that what has been shown
and what is pending are together what was sent so far. The
library has no induction for that, but it has that every set of naturals that is not empty
has a least element: `Induct` is induction over a set, not an operator, and carries
`SentFacts` and `SentGrows`.

`DirectoryProofs` proves, for directories of any length:

- `TypeCorrect`, `Told`: the type invariant, `KnowWhatMoved`;
- `TrueCounts`: `CountsTrue`;
- `ImplementsEachItem`: `Spec => EveryItem`, the refinement, for all four functions at
  once;
- `Listed`: `ListedOnce`.

None of these is inductive. Types need to know that no counter includes the entry
that is being dealt with (`CountersAt`) and which attributes are held (`HeldAt`);
`KnowWhatMoved` needs `ReportAt`. For `CountsTrue` the two sets it counts are written as
functions of how many entries are behind (`There`, `Folders`), and `NextThere` and
`NextFolder` say what one more entry does to their sizes; `ReportAt` also has that only
a special file blocks, which is not one of the folders. For the refinement, `OpenAt`
says where the directory is open and that the end of it was reached before a remote
one is closed without an error; each step of the loop is then a step of `EachItem`
(`EntryLeft`: one item, `QuietLeft`: none). For `ListedOnce`, `ListedAt` says for every number
of entries behind what was shown of them and how many attributes are held; `NextListing`
and `NextHidden` add one entry to it. Assumed is `DirectoryAssumption`.

`NavigateProofs` proves, in every tree and for any names, `TypeCorrect`, `BeenThere`
(`WasThere`) and the refinement `ImplementsWalk`, `Spec => WalkSpec`. The invariant adds that
between opening and closing all heads of the new path were seen (`OpenedAt`); `TrimHeads`
says that cutting the last part off gives a path one has been on. The refinement also needs
`PathsAt`: a user of plain names is on a path of names only, and such a path leads to the
start with its names appended (`WhereNames`). `Where` follows a path part by part, and its
lemmas go by induction over a set of lengths, as `RunCommandProofs` does. Assumed are
`TreeAssumption` and `UsersAssumption`. The type invariants of `RunCommand`, `Directory` and
`Navigate` are proved and no run lists them.

`HeadersProofs` proves of the code in the headers:

- `OwnersAlive`, `AllFreed`: `HandlesAlive` and `NothingKept`, for any number of objects and of
  failing calls, with exceptions or without;
- `SizesTold`: `BytesTold`, for every width of an int and every size;
- `OnlySetCalled`, `AllSetCalled`: `CallsWhatIsSet` and the action property `NoneMissed`, for every
  layout of the structs.

For the wrapper, `ObjectsAt` says that a channel's session was made before it and is still in scope,
which is why leaving a scope ends channels before their session; `AliveAt` that the
handles of all objects are alive, `AloneAt` that no two objects have the same one, and `OwnedAt`
that what is alive has an owner or was lost. None of them is inductive alone: that freeing a
handle leaves the other objects alive needs `AloneAt`, and that ending a session leaves no
channel of its in scope needs `ObjectsAt`. For the sizes, `SizesAt` carries a call from conversion to conversion, and
`ToUintFacts` says what a conversion to `uint32_t` keeps of a size. For the structs,
`VersionsAgree` says that two versions have the same member wherever both have one. Assumed are
`BoundsAssumption` (the bounds and widths are naturals) and `StructsAssumption` (the members of a
struct have distinct names, none of them `NULL`).

Only model-checked: the liveness properties (`Termination`, `Returns`, `CommandReturns`,
`EndOfInputEndsDialogue`, `LostConnectionEnds`, `LostConnectionExits`), which need ENABLED and
are outside the prover's reach.

## 5. Not modelled, and the plan

Left out for good: libssh itself (its headers have only prototypes, types and numbers
beside what `Wrapper` and `Callbacks` are about), the wording and layout of output,
file modes and time stamps, `Session::userauthPrivatekeyFile`, which libsshpp.hpp
declares and nothing defines, and running out of memory in the wrapper. The sizes of
the strings are left out too: words are taken to fit what `scanf` reads them into,
and paths to fit their buffers (`rdirpath[100]` beside `local[200]`, listed as a hazard).
A transfer from a file to itself, which is
possible when the server is the local machine, is left out as well: opening the
destination empties it (a hazard no property covers). So is what the C library keeps as a
session's latest error, and with it which error a `SshException` carries (another).
`push_single` and `pull_single` inside a directory transfer, and the operations inside the whole program, are single steps with the outcomes of their own modules: nothing
but those outcomes is shared.

Next: the capacity of the path buffers, for the hazard no property covers yet, and with it the
names too long for what `scanf` reads them into.
