------------------------------ MODULE SocketIO ------------------------------
(***************************************************************************)
(* CSocket's options and its reads and writes, on POSIX and on Windows.    *)
(*                                                                         *)
(* One socket listens, one connects to it and writes, and the one that is  *)
(* accepted reads.  Between them are the buffers of two kernels, which     *)
(* hold a few bytes.  ::send and ::recv move bytes one at a time until     *)
(* they return; write_all calls ::send until its buffer has been sent, and *)
(* a writer whose call failed may go on from what written says.            *)
(***************************************************************************)
EXTENDS Integers, Sequences

CONSTANTS
    Platforms,  \* some of "posix", "windows"
    Times,      \* timeouts asked for, in microseconds; 0 is none
    Ms, Second, \* microseconds in a millisecond and in a second
    Size,       \* bytes to be written
    Wants,      \* sizes of the reads
    Room        \* bytes the kernels hold

ASSUME SocketIOAssumption ==
    /\ Platforms \subseteq {"posix", "windows"} /\ Times \subseteq Nat
    /\ Ms \in Nat \ {0} /\ Second \in Nat \ {0} /\ Second % Ms = 0
    /\ Size \in Nat /\ Wants \subseteq Nat \ {0} /\ Room \in Nat \ {0}

VARIABLES
    platform,  \* the implementation in use
    inherits,  \* whether accept hands on the options of the listener
    kernel,    \* the options of each socket, as its kernel has them: whether it
               \* blocks, and its timeout for what it does, to read or to write
    told,      \* is_blocking_ of each socket (Windows)
    asked,     \* the timeout last asked of each socket (history)
    accepted,  \* whether the connection has been accepted
    wPc,       \* where the writer is
    base,      \* bytes of the buffer that earlier calls have written
    written,   \* written, while a call of write_all is on
    taken,     \* bytes the present ::send has taken
    net,       \* what is in the kernels' buffers
    rPc,       \* where the reader is
    want,      \* how much the present read asks for
    filled,    \* and has got
    got        \* all that ::recv ever took from the kernel

options    == <<platform, inherits, kernel, told, asked, accepted>>
writerVars == <<wPc, base, written, taken>>
readerVars == <<rPc, want, filled, got>>
vars == <<options, writerVars, net, readerVars>>

Sockets == {"listener", "writer", "reader"}
Default == [block |-> TRUE, timeout |-> 0]

Gone == {"closed", "vanished"}

Init ==
    /\ platform \in Platforms /\ inherits \in BOOLEAN
    /\ kernel = [s \in Sockets |-> Default] /\ told = [s \in Sockets |-> TRUE]
    /\ asked = [s \in Sockets |-> 0]
    /\ accepted = FALSE
    /\ wPc = "idle" /\ base = 0 /\ written = 0 /\ taken = 0
    /\ net = << >>
    /\ rPc = "idle" /\ want = 0 /\ filled = 0 /\ got = << >>

-----------------------------------------------------------------------------
(* Options *)

(* Mutant of PosixTimeout: tv_sec is left at zero. *)
PosixNoSeconds(t) == t % Second

(* A timeval: whole seconds, and the microseconds left. *)
PosixTimeout(t) == (t \div Second) * Second + (t % Second)

(* Whole milliseconds: a timeout of less than one becomes none. *)
WindowsTimeout(t) == (t \div Ms) * Ms

Timeout(t) == IF platform = "posix" THEN PosixTimeout(t) ELSE WindowsTimeout(t)

Settable(s) ==
    CASE s = "listener" -> ~accepted
      [] s = "writer"   -> wPc = "idle"
      [] s = "reader"   -> accepted /\ rPc = "idle"

SetTimeout(s, t) ==
    /\ Settable(s)
    /\ kernel' = [kernel EXCEPT ![s].timeout = Timeout(t)]
    /\ asked' = [asked EXCEPT ![s] = t]
    /\ UNCHANGED <<platform, inherits, told, accepted, writerVars, net, readerVars>>

(* Mutant of ToldAfter: set_option does not keep what it set. *)
ToldUnchanged(s, blocks) == told

(* What set_option makes of is_blocking_: Windows does not tell whether a  *)
(* socket blocks, so CSocket remembers.                                    *)
ToldAfter(s, blocks) ==
    IF platform = "windows" THEN [told EXCEPT ![s] = blocks] ELSE told

SetBlock(s, blocks) ==
    /\ Settable(s)
    /\ kernel' = [kernel EXCEPT ![s].block = blocks]
    /\ told' = ToldAfter(s, blocks)
    /\ UNCHANGED <<platform, inherits, asked, accepted, writerVars, net, readerVars>>

(* The value of CBlock after get_option. *)
Blocks(s) == IF platform = "windows" THEN told[s] ELSE kernel[s].block

(* The implementation of an accepted socket is a new one. *)
Accept ==
    /\ ~accepted /\ accepted' = TRUE
    /\ kernel' = [kernel EXCEPT !["reader"] =
                     IF inherits THEN kernel["listener"] ELSE Default]
    /\ UNCHANGED <<platform, inherits, told, asked, writerVars, net, readerVars>>

SetOption ==
    \E s \in Sockets :
        \/ \E t \in Times : SetTimeout(s, t)
        \/ \E blocks \in BOOLEAN : SetBlock(s, blocks)

-----------------------------------------------------------------------------
(* Writing *)

(* Mutant of Left: each ::send is given the whole size again. *)
LeftWhole == Size - base

Left == Size - base - written

(* write_all of what is left of the buffer. *)
W_Call ==
    /\ wPc = "idle" /\ base < Size
    /\ wPc' = "sending" /\ written' = 0 /\ taken' = 0
    /\ UNCHANGED <<options, base, net, readerVars>>

Full == Len(net) = Room

W_Take ==
    /\ wPc = "sending" /\ taken < Left /\ ~Full /\ rPc # "closed"
    /\ net' = Append(net, base + written + taken + 1)
    /\ taken' = taken + 1
    /\ UNCHANGED <<options, wPc, base, written, readerVars>>

(* Whether ::send does not wait for room any longer. *)
SendStops == Full /\ (~kernel["writer"].block \/ kernel["writer"].timeout > 0)

(* Mutant of WrittenAfter: what the last ::send took. *)
WrittenLast == taken

WrittenAfter == written + taken

(* ::send returns, with less than it was given if it stops waiting, and    *)
(* write_all goes on to the next one unless the buffer is sent.            *)
W_SendReturns ==
    /\ wPc = "sending" /\ taken > 0
    /\ taken = Left \/ SendStops \/ rPc = "closed"
    /\ taken' = 0
    /\ \/ WrittenAfter < Size - base /\ written' = WrittenAfter /\ UNCHANGED <<wPc, base>>
       \/ WrittenAfter >= Size - base /\ wPc' = "idle" /\ base' = Size /\ written' = 0
    /\ UNCHANGED <<options, net, readerVars>>

(* CSocketWriteAttemptException.  A send that has taken something returns  *)
(* that instead, but for one of Windows that times out.                    *)
W_SendAttempt ==
    /\ wPc = "sending" /\ SendStops
    /\ taken = 0 \/ (platform = "windows" /\ kernel["writer"].block)
    /\ wPc' = "attempt"
    /\ UNCHANGED <<options, base, written, taken, net, readerVars>>

(* CSocketConnectionException *)
W_SendBroken ==
    /\ wPc = "sending" /\ rPc = "closed"
    /\ wPc' = "broken"
    /\ UNCHANGED <<options, base, written, taken, net, readerVars>>

(* The caller goes on from where write_all says it stopped, which is not   *)
(* allowed on Windows after a timeout.                                     *)
W_Resume ==
    /\ wPc = "attempt" /\ (platform = "posix" \/ ~kernel["writer"].block)
    /\ wPc' = "idle" /\ base' = base + written /\ written' = 0 /\ taken' = 0
    /\ UNCHANGED <<options, net, readerVars>>

-----------------------------------------------------------------------------
(* Reading *)

(* read with WHAIT_ALL *)
R_Call ==
    /\ accepted /\ rPc = "idle"
    /\ want' \in Wants
    /\ rPc' = "reading" /\ filled' = 0
    /\ UNCHANGED <<options, writerVars, net, got>>

R_Fill ==
    /\ rPc = "reading" /\ filled < want /\ net # << >>
    /\ got' = Append(got, Head(net)) /\ net' = Tail(net)
    /\ filled' = filled + 1
    /\ UNCHANGED <<options, writerVars, rPc, want>>

(* Whether ::recv does not wait for bytes any longer. *)
RecvStops == net = << >> /\ (~kernel["reader"].block \/ kernel["reader"].timeout > 0)

(* It returns with all it was asked for, or with less when it stops        *)
(* waiting or the writer has closed; there may then be nothing at all.     *)
R_Returns ==
    /\ rPc = "reading"
    /\ \/ filled = want
       \/ filled > 0 /\ RecvStops
       \/ net = << >> /\ wPc = "closed"
    /\ rPc' = "idle" /\ want' = 0 /\ filled' = 0
    /\ UNCHANGED <<options, writerVars, net, got>>

(* CSocketReadAttemptException.  A recv that has got something returns     *)
(* that instead, but for one of Windows that times out, whose bytes the    *)
(* caller is never told of.                                                *)
R_Attempt ==
    /\ rPc = "reading" /\ RecvStops
    /\ filled = 0 \/ (platform = "windows" /\ kernel["reader"].block)
    /\ rPc' = "idle" /\ want' = 0 /\ filled' = 0
    /\ UNCHANGED <<options, writerVars, net, got>>

-----------------------------------------------------------------------------
(* The ends go: the socket is destroyed between two calls, or the host     *)
(* vanishes at any time.                                                   *)
W_Goes ==
    /\ wPc \notin Gone
    /\ wPc' \in (IF wPc = "sending" THEN {} ELSE {"closed"}) \cup {"vanished"}
    /\ UNCHANGED <<options, base, written, taken, net, readerVars>>

R_Goes ==
    /\ accepted /\ rPc \notin Gone
    /\ rPc' \in (IF rPc = "reading" THEN {} ELSE {"closed"}) \cup {"vanished"}
    /\ UNCHANGED <<options, writerVars, net, want, filled, got>>

WriterStep == W_Take \/ W_SendReturns \/ W_SendAttempt \/ W_SendBroken
ReaderStep == R_Fill \/ R_Returns \/ R_Attempt

Next == SetOption \/ Accept \/ W_Call \/ WriterStep \/ W_Resume \/ R_Call \/ ReaderStep
          \/ W_Goes \/ R_Goes

Spec == Init /\ [][Next]_vars

(* A call in progress goes on: the kernels move what can be moved, and a   *)
(* timeout that has been set expires.                                      *)
FairSpec == Spec /\ WF_vars(WriterStep) /\ WF_vars(ReaderStep)

-----------------------------------------------------------------------------
(* Properties *)

(* Every variable has its type; no call goes past the end of its buffer.   *)
TypeOK ==
    /\ platform \in Platforms /\ inherits \in BOOLEAN /\ accepted \in BOOLEAN
    /\ kernel \in [Sockets -> [block : BOOLEAN, timeout : Nat]]
    /\ told \in [Sockets -> BOOLEAN] /\ asked \in [Sockets -> Times \cup {0}]
    /\ wPc \in {"idle", "sending", "attempt", "broken"} \cup Gone
    /\ base \in 0 .. Size /\ written \in 0 .. Size - base /\ taken \in 0 .. Left
    /\ rPc \in {"idle", "reading"} \cup Gone
    /\ want \in Wants \cup {0} /\ filled \in 0 .. want
    /\ Len(net) <= Room /\ net \in Seq(1 .. Size) /\ got \in Seq(1 .. Size)

(* However often a send or a read stops short, write_all throws and is     *)
(* called again for the rest, every byte of the buffer is on its way once  *)
(* and in its place: what written says is what the kernel has taken.       *)
EachByteOnce ==
    got \o net = [i \in 1 .. base + written + taken |-> i]

(* What CBlock says of a socket is so, but for one that inherits from a    *)
(* non-blocking listener: Windows is not asked about it, and the memory of *)
(* a new implementation says that it blocks.                               *)
ModeKnown ==
    \A s \in Sockets :
        \/ Blocks(s) = kernel[s].block
        \/ /\ platform = "windows" /\ s = "reader" /\ inherits
           /\ ~kernel["listener"].block

(* A socket has been given a timeout.  Windows makes none of less than a   *)
(* millisecond.                                                            *)
Timed(s) == asked[s] > 0 /\ (platform = "posix" \/ asked[s] >= Ms)

(* A call ends when the other end has closed, and when it has been given a *)
(* timeout, whatever becomes of the other end.                             *)
CallsEnd ==
    /\ (wPc = "sending" /\ (Timed("writer") \/ rPc = "closed")) ~> (wPc # "sending")
    /\ (rPc = "reading" /\ (Timed("reader") \/ wPc = "closed")) ~> (rPc # "reading")

=============================================================================
