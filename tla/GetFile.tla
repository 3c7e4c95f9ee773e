------------------------------ MODULE GetFile ------------------------------
(***************************************************************************)
(* The getfile command of splitted_transfer: a file crosses from client to *)
(* server in chunks, each over a connection to another port of the server. *)
(*                                                                         *)
(* ServerScript::getfile listens at the port the user named, tells the     *)
(* client the size of a chunk, and then for each chunk accepts one         *)
(* connection, receives, binds and listens at the next port that is free   *)
(* and tells the client that port over the connection it is about to       *)
(* leave.  ClientScript::getfile connects, sends and waits for a port.     *)
(*                                                                         *)
(* The module starts when the client has answered the request with the     *)
(* size of the file and both ends are inside getfile, and follows them     *)
(* until each has left it.  What happens inside a chunk is the abstract    *)
(* Transfer, which Tunnel is shown to implement as long as no answer to a  *)
(* package is changed on its way.                                          *)
(***************************************************************************)
EXTENDS Integers, Sequences

CONSTANTS
    FileSizes,      \* sizes of the file
    Percentages,    \* percents, the part of the file in one chunk
    PortMod,        \* port numbers are 0 .. PortMod - 1 (65536 in the code)
    StartPorts,     \* start_port, as typed by the user
    Deltas,         \* port_delta, as typed by the user
    CmdPort,        \* the port of the command connection
    Occupiable,     \* ports that other programs may hold
    BindAttempts,   \* BIND_ATTEMPTS
    Troubles        \* the sets of faults considered

(* The network and the two processes may fail; reading the file at the     *)
(* client may fail; opening the server's file or writing to it may fail.   *)
Faults == {"peers", "reading", "writing"}

ASSUME GetFileAssumption ==
    /\ FileSizes \subseteq Nat /\ Percentages \subseteq 0 .. 100
    /\ PortMod \in Nat \ {0} /\ BindAttempts \in Nat \ {0}
    /\ StartPorts \subseteq 0 .. PortMod - 1 /\ Deltas \subseteq 0 .. PortMod - 1
    /\ CmdPort \in 1 .. PortMod - 1 /\ Occupiable \subseteq 0 .. PortMod - 1
    /\ Troubles \subseteq SUBSET Faults

VARIABLES
    fileSize, percents, startPort, delta,  \* what the user asked for
    faults,        \* what goes wrong in this run of the command
    occupied,      \* ports that cannot be bound: held by others, or TIME_WAIT
    sPc,           \* where ServerScript::getfile is, or how it ended
    curPort,       \* its current_port
    attempt,       \* its attempt, of the loop that binds the next port
    connector,     \* the port connector_peer listens at
    newPeer,       \* the port new_peer listens at
    file,          \* what fileout holds of the chunks before the present one
    disk,          \* the state of fileout: "closed", "good", or "bad" for ever
    cPc,           \* where ClientScript::getfile is, or how it ended
    cPort,         \* its current_port
    pos,           \* its position in the file
    base,          \* that position when the present chunk began
    chunkMsg,      \* the chunk size, on its way over the command connection
    portMsg,       \* the next port, on its way over the data connection
    pending,       \* the port of a connection that waits to be accepted
    call, copy, sender, receiver   \* the transfer of the present chunk

request    == <<fileSize, percents, startPort, delta, faults>>
fileout    == <<file, disk>>
serverVars == <<sPc, curPort, attempt, connector, newPeer, fileout>>
clientVars == <<cPc, cPort, pos, base>>
messages   == <<chunkMsg, portMsg, pending>>
chunkVars  == <<call, copy, sender, receiver>>
vars == <<request, occupied, serverVars, clientVars, messages, chunkVars>>

Chunk == INSTANCE Transfer WITH Calls <- {}

Ports   == 0 .. PortMod - 1
NoPort  == -1
Nothing == -1

(* CSocketException ends the session, CTransferException the process. *)
ServerGone == {"dropped", "dead"}
ServerDone == ServerGone \cup {"saved"}
ClientGone == {"declined", "dead"}
ClientDone == ClientGone \cup {"sent"}

(* chunk_size, as the server computes it. *)
ChunkSize == IF fileSize = 0 THEN 1 ELSE (fileSize * percents) \div 100

Init ==
    /\ fileSize \in FileSizes /\ percents \in Percentages
    /\ startPort \in StartPorts /\ delta \in Deltas
    /\ faults \in Troubles
    /\ occupied \in SUBSET Occupiable
    /\ sPc = "bind_start" /\ curPort = CmdPort /\ attempt = 0
    /\ connector = NoPort /\ newPeer = NoPort
    /\ file = << >> /\ disk = "closed"
    /\ cPc = "await_chunk" /\ cPort = startPort /\ pos = 0 /\ base = 0
    /\ chunkMsg = Nothing /\ portMsg = Nothing /\ pending = NoPort
    /\ call = [len |-> 0, amount |-> TRUE, size |-> 0]
    /\ copy = << >> /\ sender = "true" /\ receiver = "true"

-----------------------------------------------------------------------------
(* The server *)

(* Binding port 0 succeeds at a port of the system's choice. *)
Bindable(p) == p = 0 \/ p \notin occupied \cup {CmdPort, connector}

(* An exception closes every socket of getfile and of the session. *)
S_Ends(how) ==
    /\ sPc' = how
    /\ connector' = NoPort /\ newPeer' = NoPort /\ pending' = NoPort
    /\ receiver' = IF receiver = "running" \/ pending # NoPort THEN "failed" ELSE receiver

S_BindStart ==
    /\ sPc = "bind_start"
    /\ \/ /\ Bindable(startPort)
          /\ connector' = startPort /\ sPc' = "send_chunk"
          /\ UNCHANGED <<newPeer, pending, receiver>>
       \/ ~Bindable(startPort) /\ S_Ends("dropped")
    /\ UNCHANGED <<request, occupied, curPort, attempt, fileout, clientVars,
                   chunkMsg, portMsg, call, copy, sender>>

S_SendChunkSize ==
    /\ sPc = "send_chunk"
    /\ chunkMsg' = ChunkSize
    /\ sPc' = "chunk_ack"
    /\ UNCHANGED <<request, occupied, curPort, attempt, connector, newPeer, fileout,
                   clientVars, portMsg, pending, chunkVars>>

(* msg_to_peer returns: the client has the message, or is gone and what    *)
(* happened to be on the stack is taken for its APPROVE.  The temporary    *)
(* file is opened, or not, which nobody looks at.                          *)
S_ChunkSizeSent ==
    /\ sPc = "chunk_ack" /\ (chunkMsg = Nothing \/ cPc \in ClientDone)
    /\ sPc' = "accept"
    /\ disk' \in IF "writing" \in faults THEN {"good", "bad"} ELSE {"good"}
    /\ UNCHANGED <<request, occupied, curPort, attempt, connector, newPeer, file,
                   clientVars, messages, chunkVars>>

(* accept has no timeout. *)
S_Accept ==
    /\ sPc = "accept" /\ pending = connector /\ pending # NoPort
    /\ pending' = NoPort
    /\ sPc' = "recv"
    /\ UNCHANGED <<request, occupied, curPort, attempt, connector, newPeer, fileout,
                   clientVars, chunkMsg, portMsg, chunkVars>>

(* Mutant of FileWith: the file is opened anew for each chunk. *)
FileReopened(bytes) == [i \in 1 .. Len(bytes) |-> base + bytes[i]]

(* What fileout holds with these bytes of the present chunk written to it: *)
(* byte i of the chunk is byte base + i of the file.                       *)
FileWith(bytes) == file \o [i \in 1 .. Len(bytes) |-> base + bytes[i]]

(* stream.write, over the packages of a chunk: it may fail part-way, with  *)
(* the loss of what was buffered, and then nothing more is written.        *)
Store(bytes) ==
    \/ disk = "good" /\ file' = FileWith(bytes) /\ UNCHANGED disk
    \/ /\ disk = "good" /\ "writing" \in faults
       /\ \E n \in 0 .. Len(FileWith(bytes)) : file' = SubSeq(FileWith(bytes), 1, n)
       /\ disk' = "bad"
    \/ disk = "bad" /\ UNCHANGED fileout

(* Mutant of AfterChunk: the two verdicts are swapped. *)
AfterChunkSwapped(verdict) == IF verdict = "true" THEN "saved" ELSE "bind_next"

(* false : the end of the stream came, and the temporary file is renamed. *)
AfterChunk(verdict) == IF verdict = "false" THEN "saved" ELSE "bind_next"

(* recv_amount_to_stream, which may return. *)
S_Receive ==
    /\ sPc = "recv" /\ Chunk!Receive
    /\ IF receiver' = "running"
       THEN UNCHANGED <<sPc, attempt, connector, fileout>>
       ELSE /\ Store(copy')
            /\ sPc' = AfterChunk(receiver')
            /\ connector' = IF sPc' = "saved" THEN NoPort ELSE connector
            /\ attempt' = 0
    /\ UNCHANGED <<request, occupied, curPort, newPeer, clientVars, messages>>

(* Mutant of NextPort: a port number does not wrap. *)
NextPortWide == curPort + delta

(* Mutant of NextPort: always the second port of the series. *)
NextPortFixed == (startPort + delta) % PortMod

NextPort == (curPort + delta) % PortMod

(* One round of the loop that looks for a port, and listen. *)
S_BindNext ==
    /\ sPc = "bind_next"
    /\ curPort' = NextPort
    /\ \/ /\ Bindable(NextPort)
          /\ newPeer' = NextPort /\ sPc' = "send_port"
          /\ UNCHANGED <<attempt, connector, pending, receiver>>
       \/ /\ ~Bindable(NextPort)
          /\ attempt' = attempt + 1
          /\ IF attempt' = BindAttempts THEN S_Ends("dropped")
             ELSE UNCHANGED <<sPc, connector, newPeer, pending, receiver>>
    /\ UNCHANGED <<request, occupied, fileout, clientVars, chunkMsg, portMsg,
                   call, copy, sender>>

(* Mutant of PortToTell: the port of the present listener. *)
PortToTellOld == connector

(* Mutant of PortToTell: the delta is added once more. *)
PortToTellNext == NextPort

PortToTell == curPort

S_SendPort ==
    /\ sPc = "send_port"
    /\ portMsg' = PortToTell
    /\ sPc' = "port_ack"
    /\ UNCHANGED <<request, occupied, curPort, attempt, connector, newPeer, fileout,
                   clientVars, chunkMsg, pending, chunkVars>>

(* msg_to_peer returns and new_peer becomes the connector; the port of the *)
(* old one may stay unusable for a while.                                  *)
S_PortSent ==
    /\ sPc = "port_ack" /\ (portMsg = Nothing \/ cPc \in ClientDone)
    /\ connector' = newPeer /\ newPeer' = NoPort
    /\ occupied' \in {occupied, occupied \cup {connector}}
    /\ sPc' = "accept"
    /\ UNCHANGED <<request, curPort, attempt, fileout, clientVars, messages, chunkVars>>

(* A timeout, a reset or too many damaged packages. *)
S_Fail ==
    /\ "peers" \in faults \/ cPc \in ClientDone
    /\ sPc \in {"chunk_ack", "recv", "port_ack"}
    /\ \E how \in ServerGone : S_Ends(how)
    /\ IF sPc = "recv" THEN Store(copy) ELSE UNCHANGED fileout
    /\ UNCHANGED <<request, occupied, curPort, attempt, clientVars,
                   chunkMsg, portMsg, call, copy, sender>>

-----------------------------------------------------------------------------
(* The client *)

(* A chunk size of zero is an std::invalid_argument: getfile is left, and  *)
(* the client waits for the answer to the message it sends of its error.   *)
C_ReceiveChunkSize ==
    /\ cPc = "await_chunk" /\ chunkMsg # Nothing
    /\ chunkMsg' = Nothing
    /\ cPc' = IF chunkMsg = 0 THEN "declined" ELSE "connect"
    /\ UNCHANGED <<request, occupied, serverVars, cPort, pos, base, portMsg, pending,
                   chunkVars>>

Listening(p) == p # 0 /\ p \in {connector, newPeer}

(* The kernel completes a connection to a listening port before accept.    *)
C_Connect ==
    /\ cPc = "connect" /\ Listening(cPort)
    /\ cPc' = "send" /\ pending' = cPort
    /\ base' = pos
    /\ call' = [len |-> fileSize - pos, amount |-> TRUE, size |-> ChunkSize]
    /\ copy' = << >> /\ sender' = "running" /\ receiver' = "running"
    /\ UNCHANGED <<request, occupied, serverVars, cPort, pos, chunkMsg, portMsg>>

(* Mutant of C_ConnectFails: the client tries again. *)
C_ConnectRetried == cPc = "connect" /\ ~Listening(cPort) /\ UNCHANGED vars

(* CSocketConnectException is caught nowhere but in main. *)
C_ConnectFails ==
    /\ cPc = "connect" /\ ("peers" \in faults \/ ~Listening(cPort))
    /\ cPc' = "dead"
    /\ UNCHANGED <<request, occupied, serverVars, cPort, pos, base, messages, chunkVars>>

(* send_amount_from_stream returns, or stops short at an error of the disk *)
(* that it reports as it reports the end of the file.                      *)
C_Sent ==
    /\ cPc = "send"
    /\ \/ Chunk!Send
       \/ "reading" \in faults /\ sender' = "false" /\ UNCHANGED <<call, copy, receiver>>
    /\ cPc' = IF sender' = "true" THEN "await_port" ELSE "sent"
    /\ pos' = IF sender' = "true" THEN base + call.size ELSE pos
    /\ UNCHANGED <<request, occupied, serverVars, cPort, base, messages>>

C_ReceivePort ==
    /\ cPc = "await_port" /\ portMsg # Nothing
    /\ cPort' = portMsg /\ portMsg' = Nothing
    /\ cPc' = "connect"
    /\ UNCHANGED <<request, occupied, serverVars, pos, base, chunkMsg, pending, chunkVars>>

(* Both exceptions of the tunnel end the client. *)
C_Fail ==
    /\ "peers" \in faults \/ sPc \in ServerGone
    /\ cPc \in {"await_chunk", "send", "await_port"}
    /\ cPc' = "dead"
    /\ sender' = IF cPc = "send" THEN "failed" ELSE sender
    /\ UNCHANGED <<request, occupied, serverVars, cPort, pos, base, messages,
                   call, copy, receiver>>

-----------------------------------------------------------------------------

ServerStep == S_BindStart \/ S_SendChunkSize \/ S_ChunkSizeSent \/ S_Accept \/ S_Receive
                \/ S_BindNext \/ S_SendPort \/ S_PortSent
ClientStep == C_ReceiveChunkSize \/ C_Connect \/ C_ConnectFails \/ C_Sent \/ C_ReceivePort

Next == ServerStep \/ ClientStep \/ S_Fail \/ C_Fail

Spec == Init /\ [][Next]_vars

(* A thread that is not blocked goes on.  A blocked read ends at the end   *)
(* of the other end or at its timeout, which all the sockets have but the  *)
(* client's command socket.                                                *)
Fairness ==
    /\ WF_vars(ServerStep) /\ WF_vars(ClientStep) /\ WF_vars(S_Fail)
    /\ WF_vars((cPc # "await_chunk" \/ sPc \in ServerGone) /\ C_Fail)

FairSpec == Spec /\ Fairness

-----------------------------------------------------------------------------
(* Properties *)

(* Every variable has its type; a port number has sixteen bits. *)
TypeOK ==
    /\ fileSize \in FileSizes /\ percents \in Percentages
    /\ startPort \in StartPorts /\ delta \in Deltas /\ faults \in Troubles
    /\ occupied \subseteq Ports \cup {NoPort}
    /\ sPc \in {"bind_start", "send_chunk", "chunk_ack", "accept", "recv",
                "bind_next", "send_port", "port_ack"} \cup ServerDone
    /\ curPort \in Ports /\ attempt \in 0 .. BindAttempts
    /\ connector \in Ports \cup {NoPort} /\ newPeer \in Ports \cup {NoPort}
    /\ file \in Seq(Nat) /\ disk \in {"closed", "good", "bad"}
    /\ cPc \in {"await_chunk", "connect", "send", "await_port"} \cup ClientDone
    /\ cPort \in Ports /\ pos \in Nat /\ base \in Nat
    /\ chunkMsg \in Nat \cup {Nothing} /\ portMsg \in Ports \cup {Nothing}
    /\ pending \in Ports \cup {NoPort}
    /\ call \in [len : Nat, amount : BOOLEAN, size : Nat] /\ copy \in Seq(Nat)
    /\ {sender, receiver} \subseteq Chunk!Ends

(* "assert( there is a listening current_port at addr )": whenever the     *)
(* client is about to connect, the server listens at the port the client   *)
(* was told, unless the server has failed in the meantime.                 *)
ListenBeforeConnect ==
    (cPc = "connect" /\ sPc \notin ServerGone) => Listening(cPort)

(* So it is at any port but zero, which bind takes for any free port.      *)
ListensWhereTold == cPort # 0 => ListenBeforeConnect

(* A connection that waits to be accepted waits where the server is going  *)
(* to accept, so the two ends of a chunk are never at different ports.     *)
ConnectionIsAccepted ==
    /\ pending # NoPort => pending \in {connector, newPeer}
    /\ (sPc = "accept" /\ pending # NoPort) => pending = connector

(* "file was saved": when the server says so, the file is the client's     *)
(* file, every byte of it once and in its place.                           *)
SavedIsWhole == sPc = "saved" => file = Chunk!FirstBytes(fileSize)

(* So it is if fileout was opened and no write to it has failed, which the *)
(* code could see but does not look at, even if the client could not read  *)
(* the file it sends.                                                      *)
WrittenIsWhole == disk = "good" => SavedIsWhole

(* The server does not wait for a connection from a client that has left   *)
(* getfile and waits, on the command connection, for an answer to its      *)
(* error.  Neither wait has a timeout: nobody would ever end it.           *)
NoMutualWait == ~(sPc = "accept" /\ cPc = "declined")

(* Over any number of chunks and ports the command keeps the promise of    *)
(* one transfer of the whole file: the server's file is a prefix of the    *)
(* client's at any time, and both are right about having it all.           *)
FileNow == IF sPc = "recv" THEN FileWith(copy) ELSE file

Whole == INSTANCE Transfer WITH
    Calls    <- {},
    call     <- [len |-> fileSize, amount |-> FALSE, size |-> 0],
    copy     <- FileNow,
    sender   <- CASE cPc = "sent" -> "false" [] cPc \in ClientGone -> "failed"
                  [] OTHER -> "running",
    receiver <- CASE sPc = "saved" -> "false" [] sPc \in ServerGone -> "failed"
                  [] OTHER -> "running"

WholeTransfer ==
    [][faults \subseteq {"peers"} => Whole!ANext]_(Whole!avars)

(* The start port is free, the series reaches its last port before it      *)
(* wraps, and of any BindAttempts ports in a row one can be bound.         *)
PortsSuffice ==
    LET port(i) == CmdPort + i * delta
        last    == BindAttempts * (fileSize \div ChunkSize)
    IN  /\ startPort # 0 /\ Bindable(startPort)
        /\ port(last) < PortMod
        /\ \A i \in 0 .. last - BindAttempts : \E j \in 1 .. BindAttempts :
              port(i + j) \notin occupied \cup {CmdPort, startPort}

(* A chunk holds at least a byte, ports suffice and nothing fails: then    *)
(* the file arrives.                                                       *)
Completes ==
    (faults = {} /\ ChunkSize > 0 /\ PortsSuffice)
        => <>(sPc = "saved" /\ cPc = "sent")

(* Whatever fails, both ends leave getfile, but for the one call without a *)
(* timeout: a server may be left in accept by a client that has gone.      *)
OnlyAcceptHangs ==
    <>(cPc \in ClientDone /\ sPc \in ServerDone \cup {"accept"})

=============================================================================
