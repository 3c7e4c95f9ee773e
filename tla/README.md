# Verification of splitted_transfer

splitted_transfer moves files from a client to a server. A person at the
server's prompt types commands; the client, once connected, does what the
server tells it. A file crosses in chunks, each over a new TCP connection to
another port, and every byte crosses in packages with a checksum that are
acknowledged one by one. The repository is C++ without threads: all concurrency
is between the two processes, the kernels between them and the network.

This directory holds TLA+ models of the program, the TLC configurations that
check them and TLAPS proofs about them. `PROJECT.json` lists the runs, the
lines of source each definition stands for, the mutations each property was
seen to catch, the findings and the hazards.

## 1. The system

Paths are relative to `src/splitted_transfer/`.

### Components

| Component | Source | State | Operations |
|---|---|---|---|
| Transfer tunnel | `filetransfer/CTransferTunnel.{hxx,cxx}` | one package buffer per call, attempts left, bytes received, the two streams' states | `send_amount_from_stream`, `recv_amount_to_stream`, `send_stream`, `recv_stream`; inside them `send_data_pack`, `recv_data_pack` |
| Checksum | same file, `crc32` | 32-bit accumulator | one pass over a package at either end |
| getfile | `splitted_transfer.cxx`, both `getfile` | server: current port, listening socket, next listening socket, temporary file; client: port, position in the file | one chunk after another, a search for a free port between two chunks |
| Session | `splitted_transfer.cxx`, `serve`, `invite_and_play_with_server`, both `interpret`, the other commands | command connection, command being carried out | `cd`, `ls`, `getfile`, `client ...`, `disconnect`, `!q`, `!help` |
| Socket handles | `network/CSocket.hxx`, `network/source/POSIX/Source.cxx` | pointer to an implementation object with descriptor, kind and two flags | construct, move, destroy, bind, listen, accept, connect, read, write, shutdown |
| Start-up count | `network/source/WinAPI/Source.cxx`, `WSA_Manager` | number of clients of Winsock | `attempt_init`, `attempt_free` |
| Reads, writes, options | `network/source/*/Source.cxx` | `written` of a call; the options in the kernel; on Windows `is_blocking_` | `write`, `write_all`, `read`, `set_option`, `get_option`; `CBlock`, `CReadTimeout`, `CWriteTimeout` |
| Addresses, file system helpers | the rest of `network/`, `filesystem/` | none that outlives a call | one system call each |

### How they interact

* Session calls getfile, getfile and session call the tunnel, the tunnel calls
  `CSocket::write_all` and `CSocket::read`. Calls are synchronous. There are no
  callbacks and no shared memory.
* The two processes share a command connection for the length of a session and
  one data connection per chunk. The port of the next data connection is sent
  over the present one.
* Errors travel as exceptions. `CSocketException` ends the server's session and
  the client's process; `CTransferException` ends either process;
  `std::invalid_argument` and `CFilesystemException` end the command.
* The kernel completes connections to a listening socket before `accept`, keeps
  written bytes until they are read, delivers FIN after the last byte and RST
  when an end closes with unread data or is written to after closing.
* Timeouts: both ends of a data connection, reads and writes, 10 s; the server's
  command connection, reads, 5 s; the client's command connection, writes only.
  `accept` has none.

### What is hard

* `recv_data_pack` ignores how many bytes `read` returned. A timeout or a FIN in
  the middle of a package leaves the buffer half old and half new and the
  reader out of step with the package boundaries.
* Packages are resent without sequence numbers; whether one is new or a
  repetition follows only from the answers, and the answer is one byte without
  a checksum.
* `send_data_pack` ignores the length of the answer: at the end of the
  connection it acts on an uninitialised byte. The receive buffer starts
  uninitialised as well, and a buffer of zeroes has a valid checksum.
* The two ends decide on their own when a chunk or a file is over.
* Ports: an `unsigned short` that wraps, ports held by others or by the session
  itself, a client that connects before the server has moved to the new socket.
* Failures of the disk that nobody looks at, on both sides, at the opening of a
  file or in the middle of it.
* Which exception ends what, and what the other end is then waiting for.
* What a message that was cut short leaves in the command connection for the
  next one.
* A checksum that "doesn't implement any standard": which damage can it miss?
* Partial sends, timeouts per `::send`, and two platforms that disagree on the
  unit of a timeout, on what a timeout leaves behind and on who knows whether a
  socket blocks.

### What makes each component correct

* Tunnel: as long as the answers arrive as they were sent, the copy is a prefix
  of the stream; an end that returns is right about what was moved; the ends
  give up on a package together; a call leaves the connection clean for the
  next. With a changed answer: at most one package is repeated or lost for it,
  and the ends still do not wait for each other. Both ends stop whatever fails;
  nobody waits for ever but in a call without a timeout whose peer is gone.
* Checksum: a package that arrives as it was sent is approved, and one with a
  short burst of damage is not.
* getfile: the client is only sent to a port where the server listens; every
  connection is accepted at the right socket; the chunks add up to the file,
  and "saved" is only said of a whole file, unless the file could not be
  written; both ends leave the command.
* Session: the reply printed for a command is the reply to that command; a
  failed command leaves the connection usable; a lost client costs the session
  and not the server.
* Socket handles: every open descriptor has exactly one owner and is closed
  once; the flags agree with the kernel.
* Start-up count: Winsock is up while a socket exists, if every start-up
  succeeds.
* Reads and writes: every byte is on its way once and in order, however often a
  send stops short; a call with a timeout ends; the options say what is so.

## 2. The plan

| Order | Module | Content | State |
|---|---|---|---|
| 1 | `Transfer` | abstract specification of one transfer: a growing prefix and two verdicts | done |
| 2 | `Tunnel`, `MCTunnel` | the package protocol; implements `Transfer` | done |
| 3 | `TunnelProofs` | type correctness, the inductive invariant, the copy is a prefix, the receiver's verdict | done |
| 4 | `GetFile` | chunks, ports and data connections, on top of `Transfer`; the whole command behaves like one `Transfer` | done |
| 5 | `Session` | both command loops, which exception ends what, replies and requests out of step, one session after another | done |
| 6 | `SocketHandles`, `SocketProofs` | ownership of descriptors and implementation objects over moves, `accept` and destruction; flags against the kernel; proofs of all of it | done |
| 7 | `WSAManager`, `MCWSAManager`, `WSAProofs` | the start-up count over the same operations; proof that Winsock stays up | done |
| 8 | `Tunnel` | each end of a call with or without timeouts, as the connection it runs over has them; what a call leaves in its connection | done |
| 9 | `Checksum`, `MCChecksum`, `ChecksumProofs` | `crc32` over what was sent and what arrived; proof of what it cannot miss | done |
| 10 | `SocketIO`, `SocketIOProofs` | reads, writes and options on both platforms; proofs of its invariants | done |
| 11 | `Session` | bytes left over by a message, a server whose host vanishes | done |
| 12 | `TunnelVerdicts` | the sender's verdict, the attempt counters, the clean connection, what a changed answer costs; `Tunnel` implements `Transfer` | done |
| 13 | `GetFileProofs` | all invariants of `GetFile`; any number of chunks behaves like one `Transfer` | done |
| 14 | `SessionProofs` | all invariants of `Session`; what can cost the server its life | done |

`GetFile` uses `Transfer` for what happens inside a chunk; `Tunnel` is shown to
implement `Transfer`, so the two levels are checked separately and neither pays
for the other's states.

## 3. The modules and the code

### Transfer

One call pair, `send_amount_from_stream` with `recv_amount_to_stream`
(`call.amount`) or `send_stream` with `recv_stream`. `Receive` lets the copy
grow as a prefix and the receiving end return with the verdict the bytes
justify. `Send` lets the sending end return only with the verdict the receiving
end has, unless that end has failed: a sender has no proof of delivery beyond
that. `Fail` stands for every exception.

### Tunnel

| Definitions | Code |
|---|---|
| `S_Fill`, `Wanted`, `NumPacks` | the two loops of `send_amount_from_stream`, the loop of `send_stream`, `stream.read` and `to_network` |
| `S_Write`, `S_WriteThrow` | `write_all` of a package; the network may damage either part |
| `S_ReadAnswer`, `S_ReadNothing`, `S_ReadThrow`, `S_Decide`, `S_GivesUp`, `AfterApprove` | the rest of `send_data_pack` and what its caller does next |
| `R_Read`, `R_ReadTimedOut`, `R_ReadToFin`, `R_ReadThrow` | the four outcomes of the read in `recv_data_pack` |
| `Intact`, `Spent`, `ImReady`, `R_Answer`, `R_AnswerThrow`, `R_GivesUp` | checksum, the overwritten checksum field, `im_ready` and what the network makes of it |
| `Store`, `Payload`, `AfterPackage` | `stream.write` and the loop conditions of the receiving calls |
| `S_Close`, `R_Close`, `Reset`, `Vanish` | destructors, the kernel's RST, a host that dies |

Abstractions, and why they keep what matters:

* A package is two cells. That is the least with which a read can return part of
  a package and the reader be out of step with the boundaries.
* A byte is named by its position in the stream, so a byte that is missing,
  duplicated or out of place shows.
* The checksum is perfect but for the buffer of zeroes; `Checksum` says how far
  that is so. Contents of the second cell are model values; the model checker
  gives some packages a second cell of zeroes and lets others collide in no way.
* Which ends read and write with a timeout is part of the call (`call.reads`,
  `call.writes`): both on a data connection, on the command connection the
  server's reads and the client's writes.
* `new unsigned char[]` leaves garbage: zeroes, or bytes that are no package.
* An answer read at the end of the connection is any answer.
* The network may change any answer on its way (`R_Answer`): an `APPROVE` into
  something else, or something else into `APPROVE`. Any byte but `APPROVE` makes
  the sender write the package again, so `PACK_CANCEL` stands for all of them.
  `changed` counts the answers that were changed, up to `MaxChanged`; every
  property says what it needs of it.
* The `std::invalid_argument` for a package size of zero is a precondition, as
  every caller passes a constant.
* A run ends with one call pair. `CleanReturn` says that the connection is clean
  for the next one as long as every read returned a whole package and no answer
  was changed. After a partial read a rest of the package stays behind; what becomes of it is modelled in `Session`.

### GetFile

| Definitions | Code |
|---|---|
| `ChunkSize` | `size * (percents / 100.f)`, 1 for an empty file; the rounding of `float` is not modelled, percentages are whole |
| `S_BindStart`, `S_SendChunkSize`, `S_ChunkSizeSent` | the server before its loop, the opening of the temporary file included |
| `S_Accept`, `S_Receive`, `AfterChunk` | accepting and receiving one chunk |
| `Store`, `FileWith`, `disk` | `stream.write` of what a chunk brings: it may fail part-way, with the loss of what was buffered, after which the `ofstream` writes nothing more |
| `S_BindNext`, `NextPort`, `S_SendPort`, `PortToTell`, `S_PortSent` | search for the next port, telling the client, `connector_peer = std::move( new_peer )` |
| `C_ReceiveChunkSize`, `C_Connect`, `C_ConnectFails`, `C_Sent`, `C_ReceivePort` | the client's side |
| `S_Fail`, `C_Fail`, `S_Ends` | exceptions and what they close |

The module starts where the client has answered with the size of the file.
`Bindable` is external: a port is free unless another program, the command
connection, the present listener or TIME_WAIT holds it; binding port 0 succeeds
elsewhere. A connection waits in the listen queue (`pending`) and may be made
before the server accepts or has changed its listener. `faults` says what goes
wrong in a run of the command: the processes and their connections (`peers`),
reading the file at the client (`reading`), opening the server's file or writing
to it (`writing`). `disk` is the state of `fileout`, which the code never looks
at. Inside a chunk everything is `Transfer`; by what is shown of `Tunnel`, that is
the case as long as no answer to a package is changed on its way, and all that is
said of getfile is said of such runs.

### Session

| Definitions | Code |
|---|---|
| `Connect` | `accept` in `serve`; `connect` and the first read of `invite_and_play_with_server` |
| `S_Command`, `S_Sent`, `S_Print` | the prompt, `interpret`, `client_cmd` |
| `S_Status`, `AfterBindFailure`, `S_Saved` | `getfile` of the server up to the chunk size, and its end |
| `S_Quit` | `!q` (`CSessionEnd`) and the end of the input |
| `S_Drop` | `CSocketException`, caught in `serve` |
| `S_Die`, `Answered` | `CTransferException`, caught in `main` only, when reads return nothing or no package. A message that was taken has its `APPROVE` read first, and the server ends in the call after it |
| `S_Damaged` | `CTransferException` after a message was damaged in every attempt; `C_Killed` has it for the client |
| `S_Take` | `msg_from_peer` of the server, which may leave bytes behind (`stale`) |
| `C_Interpret`, `C_Getfile`, `C_Chunk`, `C_Sent`, `Say` | `interpret` of the client and its handlers, with the message each exception becomes |
| `C_SentShort`, `C_Ends`, `C_Killed` | a transfer that stops short, exceptions that end the client, its death from outside |
| `S_Vanish` | the server's host is gone, and nothing tells the client (external) |

Abstractions:

* A message crosses as a whole: it is in the connection until the other end is
  in a call that takes it. What packages do is `Tunnel`'s, what a transfer does
  between its start and its end is `GetFile`'s; `S_Drop`, `S_Die` and `C_Ends`
  are the ways out that those modules have.
* A message carries the number of the command it is about (`about`). The code
  has no such number; it is there to say which command a reply answers.
* Sender and receiver share one connection, so an end that sends reads the other
  end's message as its answers. When both send (`Collision`), each reads the
  first bytes of a package for answers and gives up after four. The first of
  these bytes is `DATA`; the others are padding that is never set. Should one of
  them look like `APPROVE`, that end goes on to read from the middle of packages
  whose checksums all fail: it leaves by the same exceptions, one call later,
  and the model does not tell the two apart.
* Bytes left on the way to the server (`stale`) come first in everything it
  reads later: as the answers to its next message, then as the head of the next
  package. With a rest of a package in front no later one is read whole, so no
  message is taken any more; the server's attempts run out or its read times
  out. The client's reads have no timeout, so nothing is left on the way to it
  by one that was cut short.
* A number is a chunk size to a client that waits for one, whoever sent it.
* One client at a time, and each a new process. A second one would wait in the
  listen queue and change nothing.
* Commands that stay at the server change nothing that is modelled.
* Answers to packages arrive as they were sent. With one changed a message of a
  single package may be taken twice, and the second copy for the reply to the
  next command; what `Tunnel` says of changed answers is not carried up.

### SocketHandles

| Definitions | Code |
|---|---|
| `ptr`, `Null`, `Unborn` | `impl_` of a `CSocket`: set, null, or no object |
| `heap`, `impl` | the `CImplementation` objects: descriptor, kind, two flags |
| `kernel` | what the descriptor is to the kernel (external) |
| `Construct`, `Accept` | a new implementation with a new descriptor |
| `MoveConstruct`, `MoveAssign`, `Destroy`, `Close` | defaulted move constructor, `operator =`, destructor with that of its holder |
| `Bind`, `Listen`, `Connect`, `IsBound`, `IsConnected` | the calls when they succeed; `Allows` has the phases in which the kernel lets them |

The kernel gives any free number to a new descriptor, so a number that was
closed comes back at once. A call that throws has changed nothing and is a
stuttering step. Assignment closes the descriptor the target held but its
implementation object is never deleted: `heap` only grows by it, and `Impls`
bounds how often that may happen in a run. Objects may be moved to themselves,
which empties them. Sockets are blocking; `shutdown`, reading and writing
change nothing that is modelled here.

### WSAManager

The same operations with what the Windows file adds to each. `AttemptInit` and
`AttemptFree` are `attempt_init` and `attempt_free`; `startups` is the count
Windows keeps. `clients` is a `std::size_t` that wraps, and it does wrap: every
assignment of one socket to another decrements it although both live on.
`starts` and `frees` bound the calls so that neither wraps all the way round
(2^64 calls); the proofs need no more of them. `attempt_init` compares the
result of `WSAStartup` with `SOCKET_ERROR`, which that function does not return:
a start-up that fails is counted like any other (`AttemptInit`), and `failed`
records that there was one. `::socket` then fails unless Winsock is up for some
other object (`WConstruct`, `ConstructFails`). The module follows the program
until Winsock goes down under an open socket (`Followed`), after which the
operations of the handles would no longer be those of `SocketHandles`; that state
itself is reached, and `WinsockUp` says when it is not. `odd` records that an object was
move-constructed or moved to itself, which this program never does: its sockets
are constructed, returned by `accept`, assigned and destroyed.

### Checksum

| Definitions | Code |
|---|---|
| `TakeByte` | `acc ^= * current`, at both ends of the connection |
| `DivideBit`, `Divided`, `Shifted`, `Xor` | the inner loop of `crc32` |
| `Damage` | what the network did to the byte (external); `room` and `wide` measure how far apart the first and the last damaged bits are |
| `Approved` | `remote_sum == sum` in `recv_data_pack` |

A register is the set of its bits. The bytes of the package that was sent and
of the one that arrived are chosen together, so that `sent` and `got` are the
two checksums at any length; the package size is the same at both ends. The
polynomial is used as if the register were shifted to the left while it is
shifted to the right; the comment at `CTransferTunnel.cxx:113` says that this
"really doesn't matter here". It costs five bits: no bit above bit 26, the
highest of the polynomial, is ever set. What is left still catches every burst
of up to 27 bits, at any place of a package of any length. A burst of 28 bits
may be missed (the polynomial itself is one), as longer damage may by any
checksum. The checksum's own field, which is zero while it is computed, is not
part of the package here: damage to that field alone is always noticed, and
damage across its edge is outside the claim.

### SocketIO

| Definitions | Code |
|---|---|
| `SetTimeout`, `Timeout`, `PosixTimeout`, `WindowsTimeout` | `CTimeout::CImplParams` of either platform: a `timeval`, or whole milliseconds |
| `SetBlock`, `ToldAfter`, `Blocks` | `CBlock::CImplParams`; on Windows `is_blocking_`, kept by `set_option` and returned by `get_option` |
| `Accept` | an implementation of its own for the accepted socket; whether the kernel hands on the listener's options differs between systems (`inherits`) |
| `W_Call`, `W_SendReturns`, `Left`, `WrittenAfter` | the loop of `write_all` |
| `W_SendAttempt`, `W_SendBroken` | the exceptions of `no_checks_write` |
| `R_Call`, `R_Returns`, `R_Attempt` | `read` with `WHAIT_ALL`; on Windows a blocking read that times out is an error, and the part of it that had arrived is lost to the caller |
| `W_Take`, `R_Fill`, `SendStops`, `RecvStops` | `::send`, `::recv` and the buffers of the kernels (external) |
| `W_Resume` | a caller that goes on from `written` after an attempt exception (external); none in this program does |

One socket writes to one that was accepted from a third. Options may be set on
any of them between two calls. Bytes are named by their position, and move one
at a time, so that a call may stop after any of them. The history `got` has the
bytes in the order in which the kernel gave them out, whether or not a caller was
told of them: `EachByteOnce` is about what is sent. A `::send` that stops with
part of its buffer taken returns that part, but on Windows a timeout of a
blocking socket is an error even then, and what was taken is not counted; going
on from `written` is then not allowed, and `W_Resume` is not enabled. A failing
`setsockopt` or `ioctlsocket` changes nothing and is a stuttering step.

## 4. What the runs show

All passing runs finish within a minute or so. A step that ends a call ends the behaviour,
so deadlock is not checked; that nobody waits for ever is stated by the
liveness properties instead.

| Run | Question | Answer |
|---|---|---|
| `tunnel_safe` | Is what a chunk or a message stores, and what both ends then return, right under damage, partial reads, RST, failing disks and dying hosts? Is the connection clean for the next call? What does a changed answer cost? | Yes, until an answer is changed on the way and short of two timed-out partial reads (`InStep`); yes, if besides no read was partial; one package, repeated or lost (`DriftBounded`) |
| `tunnel_ends` | Over connections whose ends have all, some or no timeouts: do both calls end, whatever happens? Without timeouts and faults other than damaged packages, do both return? Does the package protocol implement `Transfer`? | Yes, except an end that reads without a timeout from one that is gone: whose host has vanished, or which, after a changed answer, has returned and kept the connection open; yes; yes, until an answer is changed |
| `getfile` | Ports, connections, chunks: does the client find a listener, is it accepted, do the chunks add up, in the file too? When nothing fails and of any three ports in a row one is free, does the file arrive? Do both ends leave getfile whatever fails? | Yes, at any port but 0; in the file unless opening or writing it failed; yes; yes, except a server left in `accept`, which has no timeout |
| `getfile_port_zero` | "there is a listening current_port at addr" | Violated when the port wraps to 0 |
| `getfile_zero_chunk` | Does a server wait in `accept` for a client that has left getfile and waits for it? | Yes, when the chunk size comes out as 0 |
| `getfile_disk` | Is "file was saved" true? | Not when the temporary file cannot be opened or a write to it fails |
| `session` | Is what the prompt prints the reply to the command it was given? Does a session stay a dialogue? Does every command come to an end, and does a client follow its server? | Yes, under the conditions below; a client waits for good only for a server that has vanished |
| `session_lost_client` | "Client disconnected unexpectfully", and the server goes on? | No: it ends, when its reads run dry before an RST arrives |
| `session_declined` | Is a declined request over when the prompt returns? | No: an error is still on its way, and the next command collides with it |
| `sockets` | Is a descriptor ever closed twice, used after it was closed, or lost? Do the flags tell the truth? Is Winsock up under every socket? | No; yes; yes, although its count is wrong, unless a start-up has failed |
| `checksum` | Is an intact package approved, and one with damage within 27 bits refused? | Yes |
| `socket_io` | Is any byte lost, repeated or out of place when sends stop short? Does `CBlock` tell the truth? Do calls with a timeout end? | No; yes, but for a socket accepted from a non-blocking listener on Windows; yes, on Windows from a millisecond on |

The document comment at `CSocket.hxx:145`, "guaranties, that all data will be
sent", holds of a `write_all` that returns: `W_SendReturns` leaves the loop only
with the whole buffer taken, and `EachByteOnce` says that it was taken once and
in order.

**Conditions.** `seen` records what has been typed in a session and which files
were asked for. `ReplyMatches` is claimed while neither `client` alone nor a
`getfile` after `client` has been typed: the first asks nothing and prints
whatever comes, the second leaves the client waiting for a chunk size, and it
answers the next command with an error about this one. `DialogueIfReadable` is
claimed for any commands while no file has been met that exists and cannot be
opened; `session_declined` shows what happens otherwise. `Completes` names in
`PortsSuffice` what it takes of the ports.

**Changed answers.** Nothing in the code protects an answer. One `APPROVE` that
arrives as another byte makes the sender repeat a package that has been stored,
and it is stored again; one `PACK_CANCEL` that arrives as `APPROVE` makes the
sender pass over a package that was refused. From then on the verdicts, the copy
and the counters of attempts of the two ends may differ. The model has all of it,
and the properties say what they are worth then:

| Property | While no answer has been changed | After that |
|---|---|---|
| `TypeOK`, `OnlyOfStream` (of `PrefixDelivered`) | holds | holds |
| `DriftBounded` | `received` is exactly where the sender takes it to be | it is off by one package at most for each changed answer |
| `Termination` | both calls end, but for a read without a timeout from a vanished host | the same, and but for one from an end that has returned and keeps the connection open |
| `PrefixDelivered`, `ReceiverVerdictSound`, `SenderVerdictSound`, `GiveUpTogether`, `CleanReturn`, `BothReturn`, `AbstractTransfer` | hold | not claimed |

`MaxChanged` is 1 in both runs: one changed answer is enough to break each of the
last row (dropping the condition from any of them makes its run fail), and the
proofs have any number. `GetFile` and `Session`, which use `Transfer` and whole
messages, speak of runs in which no answer is changed.

**InStep** is short for both that and the following. A partial read that times out shifts the reader by part of a
package for good: every later package fails its checksum and the attempts run
out, which is safe. A second one can shift it back in the middle of a retry, so
that a late copy of an approved package is taken for the next one. It takes two
timed-out reads, each returning part of a package, and at least two additional
attempts. `tunnel_safe` allows two such reads and two additional attempts, so the
case is among the explored behaviours, and dropping `InStep` from the
properties makes the run fail. `tunnel_ends` allows one. The properties are therefore claimed for fewer
than two (`Framed`).

**Bounds.** Packages of two bytes with streams of 0 to 4 bytes and chunks of 0
to 5 give every relation of stream, chunk and package ends: equal, shorter,
longer, empty, one full package, one full and one partial. Two damaged packages
and two additional attempts allow both success in the last attempt and giving
up. In `GetFile` up to three chunks, up to 16 ports and three bind attempts
(the code's number) cover wrapping, a series that runs into the command port or
into occupied ports, deltas of zero and "minus one", and failing after the last
attempt. Three commands in a session are enough for every way to be out
of step (one to leave the client waiting, one to be taken for a chunk size, one
after it), and two sessions show what one leaves for the next. Three
sockets allow one to be assigned from a second while a third holds the number
that was closed; two descriptors force numbers to be reused; four start-ups and
six frees take the manager's count below zero, to the top of its modulus of 8,
and back. Symmetry of sockets, addresses and descriptors is sound as the run has
invariants only. `MaxDamage`, `MaxChanged` and `MaxShort` only bound how often the environment acts.
Packages of five bytes are 40 bits, more than the 27 that damage may span, with
bytes whose difference is in the first bit, the last bit or both; the run has
the code's polynomial, the proof any. In `SocketIO` three bytes through buffers
of two, read one or two at a time, make a send stop short, be refused, and be
taken up again from the middle; timeouts of 0, 1 and 4 with two microseconds in
a millisecond and four in a second are none, one that Windows rounds to none and
one that is all seconds.

**Size.** `tunnel_safe` has 6.3 million distinct states, `socket_io` 750
thousand, `checksum` 600 thousand, `tunnel_ends` and `getfile` 510 thousand
each, `sockets` 400 thousand, `session` 70 thousand.

**Fairness.** A thread that is not blocked takes its next step: weak fairness of
`Sender`, `Receiver`, `ServerStep` and `ClientStep`. A blocked read with a
timeout, or whose connection has been reset, has a step to take: the exception.
A closed end's kernel does send its RST (`WF(Reset)`). A socket is certain to be
closed where a destructor runs: after an exception, and at the end of a chunk;
the command connection outlives a message and no closing is assumed there. The
network is under no obligation to damage, to delay or to deliver within the
timeout. In `GetFile` a read fails eventually once its peer is gone; the client
waiting for the chunk size has no timeout and only notices the server's end. In
`Session` the server's command socket has a read timeout of 5 s, so while it
waits for the client it always has a step to take (`S_Drop`); a server in a
transfer may be in `accept` and nothing is assumed of it; the user is under no
obligation to type. The client goes on when something reaches it: a message, an
answer, or the FIN or RST of a server whose socket or process has ended. In
`SocketIO` the kernels move what can be moved while a call is on, and a timeout
that is set expires once nothing more can be.

## 5. What is proved

Every invariant that a passing run checks is proved of `Spec` for every value
of the constants, and so are the two refinements of `Transfer`. What remains
with TLC is listed at the end.

### The tunnel

The proofs are about `Tunnel`'s `Spec` and every value of its constants that
satisfies `TunnelAssumption`: the constants have their types and a package
holds at least one byte. The number of changed answers is one of them, so each
theorem covers behaviours with any number of them; what the properties claim of
those is the table in section 4.

* `TunnelProofs!TypeCorrect`: `Spec => []TypeOK`.
* `TunnelProofs!Integrity`: `Spec => []IntegrityInv`.
* `TunnelProofs!CopyIsPrefix`: `Spec => []PrefixDelivered`.
* `TunnelProofs!ReceiverReturnsTheTruth`: `Spec => []ReceiverVerdictSound`.
* `TunnelVerdicts!Verdicts`: `Spec => []VerdictInv`.
* `TunnelVerdicts!SenderReturnsTheTruth`: `Spec => []SenderVerdictSound`.
* `TunnelVerdicts!EndsGiveUpTogether`: `Spec => []GiveUpTogether`.
* `TunnelVerdicts!ReturnsClean`: `Spec => []CleanReturn`.
* `TunnelVerdicts!NoMutualWait`: `Spec => []NeverBothWait`.
* `TunnelVerdicts!ChangedAnswersCost`: `Spec => []DriftBounded`.
* `TunnelVerdicts!ImplementsTransfer`: `Spec => AbstractTransfer`, if
  `~StreamsFail`: every step up to the first that leaves the ends out of step is
  one of `Transfer`.
* `TunnelVerdicts!ImplementsTransferInStep`: `Spec => Abstract!ASpec`, if
  `MaxChanged = 0`, `MaxShort < 2` and `~StreamsFail`: whole behaviours.

`PrefixDelivered` is not inductive. From a state in which the connection holds
a second copy of a package already stored, one step of the receiver stores it
twice; nothing in the package tells the copy from a new one. What excludes such
states is the discipline of one package at a time, and `IntegrityInv` states it:

* while the receiving end is live and in step, the exchange is in one of four
  phases that go with the sender's position: nothing is under way (`Idle`), a
  package is (`Sent`), it is in the receiver's buffer (`Arrived`), or it has
  been answered (`Answered`);
* the only header in the connection or the buffer is that of the sender's own
  package, in the one place a partial read leaves for it (`OwnHeadAt`), and in
  `Idle` and `Answered` there is none;
* `received` is the sender's position, or short of it by just that package
  (`Delivered`, `Undelivered`), whichever the phase and the answer say, give or
  take one package for each changed answer (`Drift`). The phases themselves hold
  under changed answers: a sender that was misled goes to the phase of an end
  that was told so. `AnswerDrifts` is the step at which the drift grows;
* a sender that has ended may leave a whole or half a package behind, still
  consistent with the receiver's count (`LeftOver`);
* `StreamInv` ties the position to the package loops: full packages and the
  remainder never exceed the chunk (`NextPackageFits`), and a package marked
  `eof` ends where the stream does;
* `LocalInv`: the buffer a read finds holds no header, because the receiver has
  overwritten its checksum (`Spent`); this is what makes a read that returns
  nothing harmless.

Each step is then one case: `StreamStep`, `LocalStep`, `SenderPhase`,
`ReceiverPhase`, `EnvironmentPhase` for the phases, `CopyStep` for the copy and
`VerdictStep` for the return values.

`VerdictInv` adds what the sending end may conclude, in four layers; each needs
the ones before it in the same state to be kept by a step:

* `PositionInv`: where the stream ended, the chunk is not complete, and the
  last package of a chunk is the one that completes it. A sender that returns
  `true` has read exactly the chunk.
* `PartingInv` says how the ends part. The receiver returns only with its
  approval on the way, and the sender, when it takes that, returns the same
  verdict. While the sender goes on, the receiver is live. Once either is about
  to leave, everything is `Settled`: stored, and with no header left that could
  be stored again. It is this that makes `received = pos` stay true after the
  sender has returned, when `IntegrityInv` alone would allow a left-over package.
* `AttemptsInv`: the counters of attempts are equal except while an answer is
  on its way, which the receiver has counted and the sender has not. A sender
  whose attempts are used up therefore has a receiver that has thrown; with a
  live receiver `CTransferException` never happens at the sender.
* `CleanInv`: without a short read at most one package is in the connection,
  none unless the receiver is reading, and nothing in either direction once the
  sender has returned.

`NeverBothWait` is the safety half of `BothReturn` and `Termination`: whenever the
sender waits for an answer of a receiver in its call, that one has a whole package
to read or an answer to give, changed answers or not; and until an answer is
changed the receiver is in its call, and a sender that returns leaves no receiver
waiting, unless its source failed.

`DriftBounded` follows from the phases while the receiver is in its call, but not
after: a receiver that was misled may return while the sender goes on. `Told` is
what then keeps the two from drifting further: a receiver that returned `true`
has at least the chunk, which the sender never exceeds, and one that returned
`false` has seen the end of the stream, where the sender reads no more.

`ImplementsTransfer` maps the initial state to `AInit` and each action of
`Tunnel` to a step of `Transfer` or a stutter: storing a package (`R_Answer` of
an intact one) is `Receive` (`RefinesReceive`), taking the answer is `Send`
(`RefinesSend`), every way to fail is `Fail`, and all else leaves the
abstraction alone (`RefinesStep`). `AbstractTransfer` asks this of the steps whose
result is in step: after a second short read or a changed answer the copy may
repeat a package, and a copy that cannot be written is shorter than the transfer
promises. Once out of step the ends stay so (`InStepBefore`), and where the
constants rule it out the whole specification of `Transfer` is implemented.

### getfile

For any files, percentages, ports, deltas, attempts and faults
(`GetFileAssumption`: ports and percentages are in their ranges):

* `GetFileProofs!TypeCorrect`, `ClientIsToldThePort`, `SameConnection`,
  `SavedFileIsWhole`: `Spec` keeps `TypeOK`, `ListensWhereTold`,
  `ConnectionIsAccepted` and `WrittenIsWhole`.
* `GetFileProofs!KeepsOnePromise`: `Spec => WholeTransfer`.
* `GetFileProofs!AcceptAwaitsClient`: a server in `accept` with nobody to accept
  has a client that is about to connect to this port, or that has left.
* `GetFileProofs!OnlyZeroChunksHang`: `NoMutualWait` holds unless the chunk size
  is 0, so the run `getfile_zero_chunk` shows the only way to that wait.

All follow from one invariant, `GetFileInv`, whose parts go from the ends to
what they do together:

* `ListenerInv`: which listeners the server has at which place, and that a
  search for a port has attempts left;
* `ReceiverInv`: the receiving end of a chunk runs from the connection, before
  it is accepted, to its verdict, and has failed only with the server;
* `MeetingInv`: what each end has been told and has not been told yet. A client
  about to connect has the port of `Meeting`, which is the new listener until
  `msg_to_peer` has returned and the only one afterwards; a client that sends or
  waits for a port has a server that will accept it or has the port on its way;
* `ChunkInv`: the chunk lies within the file, and `pos` is where it begins while
  it is sent and where it ends otherwise. `TypeOK` needs this: a client whose
  server failed may count a chunk that never arrived, and `fileSize - pos` would
  be negative were it ever to connect again;
* `FileInv`: as long as `fileout` works, the server's file is the first `base`
  bytes while a chunk is received and the first `base + size` once it is
  complete. `Stored` and `StillGood` say that a write leaves it so or leaves
  `disk` bad for good.

`KeepsOnePromise` then takes one case per action: a chunk is received by
`WholeReceives`; accepting, telling ports and connecting are stutters; leaving is
`Fail` or, for the client that saw the end of its file, `Send`, for which the
server must have saved. It is `BytesFollow` that adds up the chunks: the first
`m` bytes after the first `n` make the first `n + m`.

### The session

For any commands, files, faults and numbers of commands and sessions
(`SessionAssumption`):

* `SessionProofs!TypeCorrect`: `Spec => []TypeOK`.
* `SessionProofs!RepliesMatch`: `Spec => []ReplyMatches`.
* `SessionProofs!IsDialogue`: `Spec => []DialogueIfReadable`.
* `SessionProofs!OnlyDeparturesKill`: without faults, the server dies only in a
  session in which a client was told to leave or a file was offered or declined.

Neither property is inductive: what is printed next depends on what the client
is carrying out, and whether both ends send on who has something to say.
`SessionInv` adds:

* `WireInv`: only the message that is just being sent is on its way, in either
  direction, and it is about the command its sender is carrying out;
* `SilentInv`: as long as every file could be opened, nothing is on its way to
  the server before the client has the server's message. Declining twice is
  what breaks it (`session_declined`);
* `CaughtUpInv`: a server that waits for an answer has a client that is carrying
  out that very command, unless `client` alone or `getfile` after it was typed;
* `OfferInv`: a client that waits for a chunk size has a server whose `getfile`
  has the offer, or that is over. Without it the client could take a later
  command for a chunk size.

`QuietInv` is the invariant of the last theorem: without faults and `Departures`
nobody is in a transfer, no client is gone before its session is over, and the
ends are never out of step, so that none of the reads of `serve` runs dry.

### The sockets

For any sets of objects, addresses and descriptors (`SocketAssumption` keeps
`Null` and the like out of them):

* `SocketProofs!OneOwnerAlways`, `NothingLostEver`, `FlagsAlwaysAgree`: `Spec`
  keeps `OneOwner`, `NothingLost` and `FlagsAgree`. The three and `TypeOK` are
  inductive together. They need each other: that a closed descriptor had no
  second owner is `OneOwner`; that a number the kernel calls open is somebody's
  is `NothingLost`; that an accepted socket gets the kind of its listener is
  `FlagsAgree`. All operations reduce to four kinds of step: a new socket
  (`NewSocketStep`), an operation on one (`OperationStep`), a pointer handed
  over (`HandOverStep`) and a destructor (`DestroyStep`).
* `WSAProofs!HandlesOnWindows`: `WSpec => Spec`, so the same holds there, until
  Winsock goes down under an open socket.
* `WSAProofs!WinsockStaysUp`: `WSpec => []WinsockUp`, for any modulus larger than
  the number of calls (`WSAAssumption`), as long as no start-up has failed and no
  object was move-constructed or moved to itself. `WinsockUp` is not inductive: nothing in
  it keeps a count of zero from meeting a last start-up under an open socket.
  `ManagerInv` says what does. A start-up is undone only when the calls of
  `attempt_init` and `attempt_free` come to be equally many, so the surplus of
  the first never exceeds the start-ups (`CountOK`); while only one object has
  ever lived at a time both are one (`First`); and once there were two, one
  start-up is left for good (`LeftOver`), since to undo it the count would have
  to come down to zero from above, and with one start-up left it is zero or
  below already.

### The checksum

For any polynomial whose highest bit is `Top`, any bytes and packages of any
length (`ChecksumAssumption`):

* `ChecksumProofs!ChecksumTypes`: `Spec => []TypeOK`; no bit above `Top` is set.
* `ChecksumProofs!ChecksumVerdict`: `Spec => []VerdictRight`.

`VerdictRight` speaks of the end of a package only and is not inductive.
`ShortDamageStays` proves `ChecksumInv`, which holds at every bit. Dividing is
linear (`DividedLinear`, `XorLinear`), so the two registers differ by what the
damage alone leaves in one, `Gap`. While the first damaged bit has not been
divided, it is the lowest bit of the gap (`Ahead`). Dividing it sets bit `Top` of
the gap, since the highest bit of the polynomial is there; from then on some bit
of the gap is above every bit that the rest of short damage can still reach
(`Behind`), and so it is never cancelled. What the shift register holds in the
end, as a function of the whole package, would need an induction over data and
is not needed.

### Reads, writes and options

For any sizes, rooms and timeouts (`SocketIOAssumption`):

* `SocketIOProofs!SocketIOTypes`: `Spec => []TypeOK`.
* `SocketIOProofs!BytesOnce`: `Spec => []EachByteOnce`. The argument counts
  byte by byte (`InOrder`): what the reader has and what is on its way together
  are `base + written + taken`. That is not inductive alone. A call starts its
  count at zero, and one that is taken up again drops what the last `::send` took;
  `NothingUncounted` says that there is nothing to drop: between calls both
  counts are zero, and an attempt that may be taken up again has taken nothing
  that is not in `written`. It is here that a Windows timeout has to be left out.
* `SocketIOProofs!ModeAlwaysKnown`: `Spec => []ModeKnown`. It takes in addition
  that a socket that has not been accepted is as its constructor left it
  (`ModeInv`).

### Only model-checked

Liveness is out of the prover's reach, since it rests on fairness and so on
`ENABLED`: `Termination` and `BothReturn` of the tunnel, `Completes` and
`OnlyAcceptHangs` of getfile, `CommandEnds` and `ClientFollows` of the session,
`CallsEnd` of the sockets. Of the tunnel and of getfile, `NoMutualWait` and
`AcceptAwaitsClient` prove what these rest on: nobody waits for something that
nobody will do. That a chunk of `GetFile`, which follows `Transfer`, may be
replaced by `Tunnel` is argued from `ImplementsTransferInStep` and not itself a
theorem.
The properties of the runs that expect a violation are false as they stand; the
theorems `ClientIsToldThePort`, `SavedFileIsWhole`, `OnlyZeroChunksHang`,
`OnlyDeparturesKill` and `IsDialogue` state under which conditions they hold.

## 6. Findings

1. `splitted_transfer.cxx:338`, `getfile_port_zero`: the port wraps to 0, which
   binds, at some other port; the client is told 0.
2. `splitted_transfer.cxx:296`, `getfile_zero_chunk`: the chunk size can be 0;
   the client declines and waits for the answer to its error, the server waits in
   `accept`, both for good.
3. `splitted_transfer.cxx:313`, `getfile_disk`: the temporary file is opened and
   written without a check and reported as saved.
4. `splitted_transfer.cxx:232`, `session_lost_client`: `serve` does not catch
   `CTransferException`, so a client that ends can take the server with it.
5. `splitted_transfer.cxx:170`, `session_declined`: a file that cannot be opened
   is declined twice, and the second message wrecks the next command.

## 7. Not modelled

* `shutdown`, `OUT_OF_BAND` and `PEEK`, datagram sockets, and sockets made
  non-blocking before they connect; `CSocket::duplicate` is declared and nowhere
  defined. Nothing in the program uses them.
* A timeout set on a listening socket, which also bounds `accept` on some
  systems; the program sets none.
* `Tunnel` starting with bytes of an earlier call in its connection. What such
  bytes do to later messages is `Session`'s `stale`, from the analysis of
  `Tunnel`'s reads, and is not a refinement that is checked.
* Changed answers above the tunnel: a message or a file in which an answer was
  changed on the way. `Tunnel` has them; `GetFile` and `Session` do not.
* The memory that move assignment leaks (`CSocket.hxx:51`): `SocketHandles` has it
  in its `heap`, but no property can say that it is not lost.
* How the kernel rounds a timeout to its clock ticks.
* `CIPAddress` and address conversion, file system helpers: values and single
  system calls. Two things met on the way concern printing only: a
  `CTimeout::value()` on Windows returns milliseconds as microseconds
  (`WinAPI/Source.cxx:383`), and `serve` prints the port of an address that was
  never set when the client has already gone (`splitted_transfer.cxx:220`).
* The test programs and build files.
