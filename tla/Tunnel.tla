------------------------------- MODULE Tunnel -------------------------------
(***************************************************************************)
(* CTransferTunnel_TCP: moving a stream over one TCP connection.           *)
(*                                                                         *)
(* The sending end cuts the stream into packages, writes each one to the   *)
(* socket and reads a one-byte answer; anything but APPROVE makes it write *)
(* the same package again.  The receiving end reads a package, compares    *)
(* its checksum, answers APPROVE or PACK_CANCEL and keeps the payload of   *)
(* an approved package.  There are no sequence numbers.  The network may   *)
(* damage packages, which the checksum finds, and change answers, which    *)
(* nothing finds.                                                          *)
(*                                                                         *)
(* Two calls are modelled: send_amount_from_stream with                    *)
(* recv_amount_to_stream (call.amount, one chunk of call.size bytes) and   *)
(* send_stream with recv_stream.                                           *)
(*                                                                         *)
(* A package on the wire is two cells, the header with the first part of   *)
(* the data, and the rest; that is enough for a read to return with part   *)
(* of a package, and for the reader to be out of step with the package     *)
(* boundaries afterwards.  A byte of the stream is named by its position.  *)
(***************************************************************************)
EXTENDS Integers, Sequences

CONSTANTS
    Calls,          \* the calls considered, in CallRecords
    PackSize,       \* pack_data_sz, the data bytes of a full package
    Attempts,       \* ADDITIONAL_TRANSFER_ATTEMPTS
    Bodies,         \* the possible contents of the second cell of a package
    ZeroBody,       \* the content that is all zero bytes
    TailOf(_),      \* the content of the second cell of a package
    Vanishers,      \* the ends whose host may vanish without a word
    StreamsFail,    \* TRUE: reading the source or writing the copy may fail
    MaxDamage,      \* bound: packages damaged on the way
    MaxChanged,     \* bound: answers changed on the way
    MaxShort        \* bound: timed-out reads that return part of a package

TheEnds == {"sender", "receiver"}

(* The bytes in the stream; whether a chunk is moved, and of what size; at *)
(* which ends the socket has a timeout for reading and one for writing.    *)
CallRecords == [len : Nat, amount : BOOLEAN, size : Nat,
                reads : SUBSET TheEnds, writes : SUBSET TheEnds]

ASSUME TunnelAssumption ==
    /\ Calls \subseteq CallRecords
    /\ PackSize \in Nat \ {0}
    /\ Attempts \in Nat
    /\ ZeroBody \in Bodies
    /\ \A c \in Calls : \A p \in [from : 0 .. c.len, size : 0 .. PackSize, eof : BOOLEAN] :
          TailOf(p) \in Bodies
    /\ Vanishers \subseteq TheEnds
    /\ StreamsFail \in BOOLEAN
    /\ MaxDamage \in Nat /\ MaxChanged \in Nat /\ MaxShort \in Nat

VARIABLES
    call,      \* the arguments of the two calls
    sPc,       \* where the sending end is, or how it ended
    stream,    \* state of the source stream: "good", "eof", "bad"
    pos,       \* bytes read from the source
    packs,     \* packages sent by the two loops of send_amount_from_stream
    pkg,       \* the package in the sending end's buffer
    sAttempts, \* attempts of send_data_pack
    rPc,       \* where the receiving end is, or how it ended
    rBuf,      \* the receiving end's buffer, two cells
    rAttempts, \* attempts of recv_data_pack
    received,  \* totally_received
    out,       \* what the receiving end's file holds
    disk,      \* state of the destination stream: "good", "bad"
    fwd, back, \* the two directions of the connection, cells and answers
    sClosed, rClosed, \* whether an end has closed its socket
    reset,     \* whether the connection has been reset
    damaged,   \* how many packages were damaged,
    changed,   \* answers changed,
    shorts     \* and reads cut short

senderVars   == <<sPc, stream, pos, packs, pkg, sAttempts>>
receiverVars == <<rPc, rBuf, rAttempts, received, out, disk>>
wire         == <<fwd, back>>
faultVars    == <<damaged, changed, shorts>>
vars == <<call, senderVars, receiverVars, wire, sClosed, rClosed, reset, faultVars>>

-----------------------------------------------------------------------------
(* Values *)

Returned == {"returned_true", "returned_false"}
Failed   == {"CTransferException", "CSocketException", "vanished"}
Ended    == Returned \cup Failed

(* from : how many bytes of the stream come before the package. *)
Packages == [from : Nat, size : 0 .. PackSize, eof : BOOLEAN]

Cells == [kind : {"head"}, pkg : Packages] \cup [kind : {"body"}, val : Bodies]
           \cup [kind : {"junk"}]

HeadCell(p) == [kind |-> "head", pkg |-> p]
TailCell(p) == [kind |-> "body", val |-> TailOf(p)]
Junk        == [kind |-> "junk"]   \* bytes that are part of no valid package
Zero        == [kind |-> "body", val |-> ZeroBody]

Answers == {"APPROVE", "PACK_CANCEL"}

FirstBytes(n) == [i \in 1 .. n |-> i]

(* What a channel holds after a write.  Nobody reads at a closed end, and  *)
(* all that matters there is that something is left unread.                *)
Written(channel, cells, readerGone) ==
    IF readerGone THEN cells ELSE channel \o cells

(* Mutant of NumPacks: the remainder of the chunk is forgotten. *)
NumPacksWhole == call.size \div PackSize

NumPacks == call.size \div PackSize + (IF call.size % PackSize = 0 THEN 0 ELSE 1)

(* Mutant of Wanted: the last package of a chunk is a full one. *)
WantedFull == PackSize

(* The bytes asked of the stream for the next package: full packages, then *)
(* one with the remainder of the chunk.                                    *)
Wanted ==
    IF call.amount /\ packs >= call.size \div PackSize
    THEN call.size % PackSize
    ELSE PackSize

Init ==
    /\ call \in Calls
    /\ sPc = IF call.amount /\ call.size = 0 THEN "returned_true" ELSE "fill"
    /\ stream = "good" /\ pos = 0 /\ packs = 0
    /\ pkg = [from |-> 0, size |-> 0, eof |-> FALSE]
    /\ sAttempts = Attempts
    /\ rPc = IF call.amount /\ call.size = 0 THEN "returned_true" ELSE "read"
    /\ rBuf \in {<<Zero, Zero>>, <<Junk, Junk>>}   \* new[] leaves it unset
    /\ rAttempts = Attempts
    /\ received = 0 /\ out = << >> /\ disk = "good"
    /\ fwd = << >> /\ back = << >>
    /\ sClosed = FALSE /\ rClosed = FALSE /\ reset = FALSE
    /\ damaged = 0 /\ changed = 0 /\ shorts = 0

-----------------------------------------------------------------------------
(* The sending end *)

(* stream.read and to_network.  End of file is noticed only by a read that *)
(* comes back short; an error of the disk comes back with no bytes at all. *)
S_Fill ==
    /\ sPc = "fill"
    /\ \/ LET left == call.len - pos
              got  == IF left < Wanted THEN left ELSE Wanted
          IN  /\ pkg' = [from |-> pos, size |-> got, eof |-> got < Wanted]
              /\ stream' = IF got < Wanted THEN "eof" ELSE "good"
       \/ /\ StreamsFail
          /\ pkg' = [from |-> pos, size |-> 0, eof |-> FALSE]
          /\ stream' = "bad"
    /\ pos' = pos + pkg'.size
    /\ sAttempts' = Attempts
    /\ sPc' = "write"
    /\ UNCHANGED <<call, packs, receiverVars, wire, sClosed, rClosed, reset, faultVars>>

(* write_all of the whole package, which the network may damage. *)
S_Write ==
    /\ sPc = "write" /\ ~reset
    /\ \E head \in {HeadCell(pkg), Junk}, tail \in {TailCell(pkg), Junk} :
          /\ fwd' = Written(fwd, <<head, tail>>, rClosed)
          /\ damaged' = IF Junk \in {head, tail} THEN damaged + 1 ELSE damaged
    /\ damaged' <= MaxDamage
    /\ sPc' = "ack"
    /\ UNCHANGED <<call, stream, pos, packs, pkg, sAttempts, receiverVars, back,
                   sClosed, rClosed, reset, changed, shorts>>

(* The write fails, or times out with part of the package written. *)
S_WriteThrow ==
    /\ sPc = "write" /\ ("sender" \in call.writes \/ reset)
    /\ fwd' \in {fwd, Written(fwd, <<HeadCell(pkg)>>, rClosed)}
    /\ sPc' = "CSocketException"
    /\ UNCHANGED <<call, stream, pos, packs, pkg, sAttempts, receiverVars, back,
                   sClosed, rClosed, reset, faultVars>>

(* Mutant of S_GivesUp: it gives up one attempt early. *)
S_GivesUpEarly == sAttempts <= 1

S_GivesUp == sAttempts = 0

(* Where the two loops go once a package has been approved. *)
AfterApprove ==
    IF stream # "good" THEN "returned_false"
    ELSE IF call.amount /\ packs + 1 = NumPacks THEN "returned_true"
    ELSE "fill"

(* What send_data_pack and its caller do with the answer. *)
S_Decide(answer) ==
    /\ \/ /\ answer = "APPROVE"
          /\ packs' = packs + 1
          /\ sPc' = AfterApprove
          /\ UNCHANGED sAttempts
       \/ /\ answer # "APPROVE"
          /\ IF S_GivesUp
             THEN sPc' = "CTransferException" /\ UNCHANGED sAttempts
             ELSE sPc' = "write" /\ sAttempts' = sAttempts - 1
          /\ UNCHANGED packs
    /\ UNCHANGED <<call, stream, pos, pkg, receiverVars, fwd, sClosed, rClosed, reset,
                   faultVars>>

S_ReadAnswer ==
    /\ sPc = "ack" /\ back # << >>
    /\ S_Decide(Head(back))
    /\ back' = Tail(back)

(* The receiving end is gone: read returns 0, which nobody looks at, and   *)
(* remote_is_done is used as it was left on the stack.                     *)
S_ReadNothing ==
    /\ sPc = "ack" /\ back = << >> /\ rClosed /\ ~reset
    /\ \E answer \in Answers : S_Decide(answer)
    /\ UNCHANGED back

S_ReadThrow ==
    /\ sPc = "ack" /\ ("sender" \in call.reads \/ reset)
    /\ sPc' = "CSocketException"
    /\ UNCHANGED <<call, stream, pos, packs, pkg, sAttempts, receiverVars, wire,
                   sClosed, rClosed, reset, faultVars>>

S_Close ==
    /\ sPc \in Ended \ {"vanished"} /\ ~sClosed
    /\ sClosed' = TRUE
    /\ UNCHANGED <<call, senderVars, receiverVars, wire, rClosed, reset, faultVars>>

Sender == S_Fill \/ S_Write \/ S_WriteThrow \/ S_ReadAnswer \/ S_ReadNothing \/ S_ReadThrow

-----------------------------------------------------------------------------
(* The receiving end *)

(* Mutant of Intact: the checksum covers the header alone. *)
IntactHeaderOnly(b) == b = <<Zero, Zero>> \/ b[1].kind = "head"

(* The checksum matches.  CRC collisions are left out, but for one: a      *)
(* buffer of zeroes has the checksum zero that its header claims.          *)
Intact(b) ==
    \/ b = <<Zero, Zero>>
    \/ b[1].kind = "head" /\ b[2] = TailCell(b[1].pkg)

(* The buffer once recv_data_pack has overwritten the checksum with zero,  *)
(* which is how the next read finds it.                                    *)
Spent(b) == IF b[1].kind = "head" THEN <<Junk, b[2]>> ELSE b

Size(b) == IF b[1].kind = "head" THEN b[1].pkg.size ELSE 0
Eof(b)  == b[1].kind = "head" /\ b[1].pkg.eof

(* The bytes passed to stream.write, 0 for a byte that no stream held. *)
Payload(b) ==
    [i \in 1 .. Size(b) |-> IF b[2] = TailCell(b[1].pkg) THEN b[1].pkg.from + i ELSE 0]

(* The read fills the buffer, *)
R_Read ==
    /\ rPc = "read" /\ Len(fwd) >= 2
    /\ rBuf' = <<fwd[1], fwd[2]>>
    /\ fwd' = SubSeq(fwd, 3, Len(fwd))
    /\ rPc' = "answer"
    /\ UNCHANGED <<call, senderVars, rAttempts, received, out, disk, back,
                   sClosed, rClosed, reset, faultVars>>

(* or times out with a part of it filled, *)
R_ReadTimedOut ==
    /\ rPc = "read" /\ "receiver" \in call.reads
    /\ Len(fwd) >= 1 /\ shorts < MaxShort
    /\ rBuf' = <<fwd[1], rBuf[2]>>
    /\ fwd' = Tail(fwd)
    /\ shorts' = shorts + 1
    /\ rPc' = "answer"
    /\ UNCHANGED <<call, senderVars, rAttempts, received, out, disk, back,
                   sClosed, rClosed, reset, damaged, changed>>

(* or ends early because the sending end is gone.  None of the three looks *)
(* different to recv_data_pack, which ignores how much was read.           *)
R_ReadToFin ==
    /\ rPc = "read" /\ sClosed /\ Len(fwd) < 2
    /\ reset => fwd # << >>
    /\ rBuf' = IF fwd = << >> THEN rBuf ELSE <<fwd[1], rBuf[2]>>
    /\ fwd' = << >>
    /\ rPc' = "answer"
    /\ UNCHANGED <<call, senderVars, rAttempts, received, out, disk, back,
                   sClosed, rClosed, reset, faultVars>>

(* Mutant of R_ReadThrow: only a reset ends a read. *)
R_ReadThrowNoTimeout ==
    /\ rPc = "read" /\ reset
    /\ rPc' = "CSocketException"
    /\ UNCHANGED <<call, senderVars, rBuf, rAttempts, received, out, disk, wire,
                   sClosed, rClosed, reset, faultVars>>

R_ReadThrow ==
    /\ rPc = "read" /\ ("receiver" \in call.reads \/ reset)
    /\ rPc' = "CSocketException"
    /\ UNCHANGED <<call, senderVars, rBuf, rAttempts, received, out, disk, wire,
                   sClosed, rClosed, reset, faultVars>>

(* Mutant of AfterPackage: the eof flag is not looked at. *)
AfterPackageNoEof(total) ==
    IF call.amount /\ total >= call.size THEN "returned_true" ELSE "read"

(* Mutant of AfterPackage: it stops where no whole package would fit. *)
AfterPackageRounded(total) ==
    IF Eof(rBuf) THEN "returned_false"
    ELSE IF call.amount /\ total + PackSize > call.size THEN "returned_true"
    ELSE "read"

(* Where the loop of recv_amount_to_stream or recv_stream goes with a      *)
(* total of bytes received.                                                *)
AfterPackage(total) ==
    IF Eof(rBuf) THEN "returned_false"
    ELSE IF call.amount /\ total >= call.size THEN "returned_true"
    ELSE "read"

(* stream.write, whose failure nobody notices. *)
Store(bytes) ==
    \/ disk = "good" /\ out' = out \o bytes /\ UNCHANGED disk
    \/ /\ disk = "bad" \/ StreamsFail
       /\ \E n \in 0 .. Len(bytes) :
             out' = IF disk = "good" THEN out \o SubSeq(bytes, 1, n) ELSE out
       /\ disk' = "bad"

(* Mutant of R_GivesUp: the attempts are counted past zero. *)
R_GivesUpNever == FALSE

R_GivesUp == rAttempts = 0

(* Mutant of ImReady: the answer does not look at the checksum. *)
ImReadyAlways == "APPROVE"

(* The answer to the package in the buffer. *)
ImReady == IF Intact(rBuf) THEN "APPROVE" ELSE "PACK_CANCEL"

(* The answer is sent, and the package kept or another attempt awaited.    *)
(* The answer is one byte without a checksum: what the network makes of it *)
(* is taken for the answer, and any byte but APPROVE for PACK_CANCEL.      *)
R_Answer ==
    /\ rPc = "answer" /\ ~reset
    /\ \E answer \in Answers :
          /\ back' = Written(back, <<answer>>, sClosed)
          /\ changed' = IF answer = ImReady THEN changed ELSE changed + 1
    /\ changed' <= MaxChanged
    /\ rBuf' = Spent(rBuf)
    /\ \/ /\ Intact(rBuf)
          /\ Store(Payload(rBuf))
          /\ received' = received + Size(rBuf)
          /\ rAttempts' = Attempts
          /\ rPc' = AfterPackage(received + Size(rBuf))
       \/ /\ ~Intact(rBuf)
          /\ IF R_GivesUp
             THEN rPc' = "CTransferException" /\ UNCHANGED rAttempts
             ELSE rPc' = "read" /\ rAttempts' = rAttempts - 1
          /\ UNCHANGED <<received, out, disk>>
    /\ UNCHANGED <<call, senderVars, fwd, sClosed, rClosed, reset, damaged, shorts>>

R_AnswerThrow ==
    /\ rPc = "answer" /\ ("receiver" \in call.writes \/ reset)
    /\ rPc' = "CSocketException"
    /\ UNCHANGED <<call, senderVars, rBuf, rAttempts, received, out, disk, wire,
                   sClosed, rClosed, reset, faultVars>>

R_Close ==
    /\ rPc \in Ended \ {"vanished"} /\ ~rClosed
    /\ rClosed' = TRUE
    /\ UNCHANGED <<call, senderVars, receiverVars, wire, sClosed, reset, faultVars>>

Receiver == R_Read \/ R_ReadTimedOut \/ R_ReadToFin \/ R_ReadThrow \/ R_Answer
              \/ R_AnswerThrow

-----------------------------------------------------------------------------
(* The environment *)

(* A host loses power or its network: no FIN and no RST is ever sent. *)
Vanish ==
    /\ \/ /\ "sender" \in Vanishers /\ sPc \notin Ended
          /\ sPc' = "vanished" /\ UNCHANGED rPc
       \/ /\ "receiver" \in Vanishers /\ rPc \notin Ended
          /\ rPc' = "vanished" /\ UNCHANGED sPc
    /\ UNCHANGED <<call, stream, pos, packs, pkg, sAttempts, rBuf, rAttempts, received,
                   out, disk, wire, sClosed, rClosed, reset, faultVars>>

(* The kernel of an end that closed answers what it never read with RST.   *)
Reset ==
    /\ ~reset
    /\ (rClosed /\ fwd # << >>) \/ (sClosed /\ back # << >>)
    /\ reset' = TRUE
    /\ UNCHANGED <<call, senderVars, receiverVars, wire, sClosed, rClosed, faultVars>>

Next == Sender \/ Receiver \/ S_Close \/ R_Close \/ Reset \/ Vanish

Spec == Init /\ [][Next]_vars

(* A thread that can take a step does.  A socket is certain to be closed   *)
(* after an exception and at the end of a chunk; the command connection,   *)
(* which send_stream and recv_stream serve, outlives a message.            *)
MustClose(pc) == pc \in Failed \/ call.amount

Fairness ==
    /\ WF_vars(Sender) /\ WF_vars(Receiver) /\ WF_vars(Reset)
    /\ WF_vars(MustClose(sPc) /\ S_Close) /\ WF_vars(MustClose(rPc) /\ R_Close)

FairSpec == Spec /\ Fairness

-----------------------------------------------------------------------------
(* Properties *)

SenderTypeOK ==
    /\ sPc \in {"fill", "write", "ack"} \cup Ended
    /\ stream \in {"good", "eof", "bad"}
    /\ pos \in 0 .. call.len /\ packs \in Nat
    /\ pkg \in Packages /\ pkg.from <= call.len
    /\ sAttempts \in 0 .. Attempts

ReceiverTypeOK ==
    /\ rPc \in {"read", "answer"} \cup Ended
    /\ rBuf \in Cells \X Cells
    /\ rAttempts \in 0 .. Attempts
    /\ received \in Nat
    /\ out \in Seq(Nat) /\ disk \in {"good", "bad"}

WireTypeOK ==
    /\ fwd \in Seq(Cells) /\ back \in Seq(Answers)
    /\ sClosed \in BOOLEAN /\ rClosed \in BOOLEAN /\ reset \in BOOLEAN
    /\ damaged \in 0 .. MaxDamage /\ changed \in 0 .. MaxChanged /\ shorts \in 0 .. MaxShort

(* Every variable has its type; in particular the unsigned counters of     *)
(* attempts never wrap and the faults stay within their bounds.            *)
TypeOK ==
    /\ call \in Calls
    /\ SenderTypeOK /\ ReceiverTypeOK /\ WireTypeOK

(* One timed-out read that returned part of a package puts the receiving   *)
(* end out of step with the package boundaries for good; a second one can  *)
(* put it back in step in the middle of a retry.                           *)
Framed == shorts < 2

(* An answer that is changed on the way puts the two ends out of step with *)
(* each other: a package is repeated that has been stored, or one is not   *)
(* repeated that has been refused.  Nothing in the code protects the       *)
(* answers, and what the two calls promise together is promised only as    *)
(* long as they arrive as they were sent.                                  *)
InStep == Framed /\ changed = 0

OnlyOfStream == \A i \in 1 .. Len(out) : out[i] \in 1 .. call.len

(* The file never holds a byte that is damaged, duplicated, missing or out *)
(* of place: it is what the stream begins with, and as long as writing the *)
(* file works it is as long as the receiving end believes.  That is so     *)
(* until an answer is changed; even then no byte is one that the stream    *)
(* does not hold.                                                          *)
PrefixDelivered ==
    /\ InStep => /\ out = FirstBytes(Len(out))
                 /\ disk = "good" => Len(out) = received
    /\ OnlyOfStream

(* What each changed answer costs: one package at most, repeated or lost.  *)
(* A receiving end that has not failed is that close to what the sending   *)
(* end takes for delivered, and no further than that ahead of what it has  *)
(* read.                                                                   *)
Acknowledged == IF sPc \in {"fill"} \cup Returned THEN pos ELSE pkg.from

DriftBounded ==
    (Framed /\ rPc \notin Failed) =>
        received \in (Acknowledged - changed * PackSize) .. (pos + changed * PackSize)

(* What recv_amount_to_stream and recv_stream return can be relied upon:   *)
(* false ("false if eof received") with the whole stream received and the  *)
(* end of it seen by the sending end, true with exactly the chunk.         *)
ReceiverVerdictSound ==
    InStep => /\ rPc = "returned_false" => received = call.len /\ stream = "eof"
              /\ rPc = "returned_true"  => call.amount /\ received = call.size

(* What send_amount_from_stream and send_stream return can be relied upon  *)
(* unless the receiving end has failed: the chunk, or the stream to its    *)
(* end or to where reading it failed, has been received.                   *)
SenderVerdictSound ==
    (InStep /\ rPc \notin Failed) =>
        /\ sPc = "returned_true"  => received = call.size
        /\ sPc = "returned_false" => /\ received = pos
                                     /\ stream = "eof" => received = call.len

(* The two counters of attempts run in step: when the sending end gives up *)
(* on a package the receiving end has given up on it as well.              *)
GiveUpTogether ==
    (InStep /\ sPc = "CTransferException") => rPc \in Failed

(* As long as every read returns the whole package and every answer        *)
(* arrives as it was sent, the ends that return leave the connection,      *)
(* unless one has closed it, clean for the next call: no byte of this one  *)
(* is on its way, and none will be sent, so that the next message and its  *)
(* answers are read from where this one ended.  (After a read that was cut *)
(* short, what is left of the package is read as the answers to the next   *)
(* message.)                                                               *)
CleanReturn ==
    (shorts = 0 /\ changed = 0 /\ ~sClosed /\ ~rClosed) =>
        /\ rPc \in Returned => fwd = << >> /\ sPc \notin {"fill", "write"}
        /\ (sPc \in Returned /\ rPc \notin Failed) => /\ back = << >>
                                                      /\ stream = "bad" \/ rPc \in Returned

(* An end that is waited for and will not come back: its host vanished, or *)
(* it has returned from a call that leaves the connection open, after an   *)
(* answer was changed.                                                     *)
Gone(pc) == pc = "vanished" \/ (pc \in Returned /\ ~call.amount /\ changed > 0)

(* Both calls end, whatever the network, the hosts and the disks do, but   *)
(* for an end that reads without a timeout when the other end is gone.     *)
(* In particular a changed answer never makes the ends wait for each other.*)
Termination ==
    <>(/\ \/ sPc \in Ended
          \/ sPc = "ack" /\ "sender" \notin call.reads /\ Gone(rPc)
       /\ \/ rPc \in Ended
          \/ rPc = "read" /\ "receiver" \notin call.reads /\ Gone(sPc))

(* It takes no timeout for both calls to return, as long as the hosts and  *)
(* the disks work, the attempts make up for the damage to the packages and *)
(* the answers arrive as they were sent.                                   *)
BothReturn ==
    (/\ call.reads = {} /\ call.writes = {} /\ ~StreamsFail /\ MaxDamage <= Attempts
     /\ [](sPc # "vanished" /\ rPc # "vanished" /\ changed = 0))
        => <>(sPc \in Returned /\ rPc \in Returned)

SenderOutcome ==
    CASE sPc = "returned_true"                      -> "true"
      [] sPc = "returned_false"                     -> "false"
      [] sPc \in Failed                             -> "failed"
      [] OTHER                                      -> "running"

ReceiverOutcome ==
    CASE rPc = "returned_true"  -> "true"
      [] rPc = "returned_false" -> "false"
      [] rPc \in Failed         -> "failed"
      [] OTHER                  -> "running"

Abstract == INSTANCE Transfer WITH
    copy <- out, sender <- SenderOutcome, receiver <- ReceiverOutcome

(* The tunnel keeps the promise of the abstract transfer as long as the    *)
(* ends are in step: every step up to the first changed answer, and to the *)
(* second read cut short, is one of the transfer or leaves it alone.       *)
AbstractTransfer ==
    Abstract!AInit /\ [][InStep' => Abstract!ANext]_(Abstract!avars)

=============================================================================
