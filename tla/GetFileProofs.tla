---------------------------- MODULE GetFileProofs ----------------------------
(***************************************************************************)
(* Theorems about the getfile command, for every file, chunk, port, delta, *)
(* number of attempts and combination of faults: the types, where the two  *)
(* ends meet, what the server has written when it says that it saved the   *)
(* file, and that any number of chunks keeps the promise of one transfer.  *)
(***************************************************************************)
EXTENDS GetFile, SequenceTheorems, TLAPS

-----------------------------------------------------------------------------
(* The inductive invariant *)

(* Where a connection may be waiting: before msg_to_peer has returned, and *)
(* from then on until it is accepted.                                      *)
Open == {"chunk_ack", "accept", "port_ack"}

(* The port where the next connection is to be made. *)
Meeting == IF sPc = "port_ack" THEN newPeer ELSE connector

(* The listeners of the server, the client apart. *)
ListenerInv ==
    /\ sPc \in {"bind_start"} \cup ServerDone => connector = NoPort
    /\ sPc \in {"send_chunk", "chunk_ack"} => connector = startPort
    /\ newPeer = IF sPc \in {"send_port", "port_ack"} THEN curPort ELSE NoPort
    /\ sPc = "bind_next" => attempt < BindAttempts

(* The receiving end of a chunk follows the server. *)
ReceiverInv ==
    /\ pending # NoPort => sPc \in Open /\ pending = Meeting
    /\ receiver = "running" <=> sPc = "recv" \/ pending # NoPort
    /\ receiver = "false" <=> sPc = "saved"
    /\ receiver = "failed" => sPc \in ServerGone

(* What the client has been told, and what it has not yet. *)
MeetingInv ==
    /\ chunkMsg # Nothing => sPc \notin {"bind_start", "send_chunk"} /\ chunkMsg = ChunkSize
    /\ cPc \in {"connect", "send", "await_port"} =>
          chunkMsg = Nothing /\ sPc \notin {"bind_start", "send_chunk"}
    /\ (portMsg # Nothing /\ cPc \notin ClientDone) => sPc \in {"port_ack"} \cup ServerGone
    /\ (portMsg # Nothing /\ sPc = "port_ack") => portMsg = newPeer
    /\ cPc = "await_chunk" =>
          /\ cPort = startPort /\ pending = NoPort /\ portMsg = Nothing
          /\ sPc \in {"bind_start", "send_chunk", "chunk_ack"} \cup ServerGone
          /\ sPc = "chunk_ack" => chunkMsg # Nothing
    /\ cPc = "connect" =>
          /\ portMsg = Nothing /\ pending = NoPort
          /\ sPc \in Open \cup ServerGone
          /\ sPc \in Open => cPort = Meeting
    /\ (cPc \in {"send", "await_port"} /\ sPc \in Open /\ pending = NoPort) =>
          sPc = "port_ack" /\ portMsg # Nothing
    /\ cPc = "await_port" => receiver \in {"true", "failed"}
    /\ cPc = "declined" => ChunkSize = 0

(* The present chunk is part of the file, and its copy a prefix of it. *)
ChunkInv ==
    /\ call.amount
    /\ base + call.len <= fileSize
    /\ receiver = "running" => base + call.len = fileSize
    /\ copy = Chunk!FirstBytes(Len(copy)) /\ Len(copy) <= call.len
    /\ receiver = "true" => Len(copy) = call.size
    /\ pending # NoPort => copy = << >>
    /\ cPc = "send" => pos = base
    /\ cPc \in {"await_chunk", "connect", "await_port"} => pos = base + call.size

(* Unless fileout has failed, which takes the fault that is in the way of  *)
(* writing, it holds what the chunks before the present one came to.       *)
FileInv ==
    /\ disk = "bad" => "writing" \in faults
    /\ sPc \in {"bind_start", "send_chunk", "chunk_ack"} => disk = "closed"
    /\ disk # "bad" =>
       /\ receiver = "running" => file = Chunk!FirstBytes(base)
       /\ receiver = "true"    => file = Chunk!FirstBytes(base + call.size)
       /\ receiver = "false"   => file = Chunk!FirstBytes(fileSize)

GetFileInv ==
    TypeOK /\ ListenerInv /\ ReceiverInv /\ MeetingInv /\ ChunkInv /\ FileInv

-----------------------------------------------------------------------------
(* The first bytes of a file *)

(* The first n bytes are n bytes, each in its place. *)
LEMMA FirstBytesAre ==
    /\ Chunk!FirstBytes(0) = << >>
    /\ \A n \in Nat :
          /\ Chunk!FirstBytes(n) \in Seq(Nat) /\ Len(Chunk!FirstBytes(n)) = n
          /\ \A i \in 1 .. n : Chunk!FirstBytes(n)[i] = i
<1>1. ASSUME NEW n \in Nat
      PROVE  /\ Chunk!FirstBytes(n) \in Seq(Nat) /\ Len(Chunk!FirstBytes(n)) = n
             /\ \A i \in 1 .. n : Chunk!FirstBytes(n)[i] = i
  BY DEF Chunk!FirstBytes
<1>2. Len(Chunk!FirstBytes(0)) = 0 /\ Chunk!FirstBytes(0) \in Seq(Nat)
  BY <1>1
<1> QED
  BY <1>1, <1>2, EmptySeq

(* The first m bytes of what follows the first n come after these. *)
LEMMA BytesFollow ==
    ASSUME NEW n \in Nat, NEW m \in Nat
    PROVE  Chunk!FirstBytes(n) \o [i \in 1 .. Len(Chunk!FirstBytes(m)) |-> n + Chunk!FirstBytes(m)[i]]
             = Chunk!FirstBytes(n + m)
<1> DEFINE first == Chunk!FirstBytes(n)
           rest  == [i \in 1 .. Len(Chunk!FirstBytes(m)) |-> n + Chunk!FirstBytes(m)[i]]
           both  == Chunk!FirstBytes(n + m)
<1>1. first \in Seq(Nat) /\ Len(first) = n /\ \A i \in 1 .. n : first[i] = i
  BY FirstBytesAre
<1>2. rest = [i \in 1 .. m |-> n + i]
  BY FirstBytesAre
<1>3. rest \in Seq(Nat) /\ Len(rest) = m /\ \A i \in 1 .. m : rest[i] = n + i
  BY <1>2
<1>4. both \in Seq(Nat) /\ Len(both) = n + m /\ \A i \in 1 .. n + m : both[i] = i
  BY FirstBytesAre
<1> HIDE DEF first, rest, both
<1>5. /\ first \o rest \in Seq(Nat) /\ Len(first \o rest) = Len(first) + Len(rest)
      /\ \A i \in 1 .. Len(first) + Len(rest) :
            (first \o rest)[i] = IF i <= Len(first) THEN first[i] ELSE rest[i - Len(first)]
  BY <1>1, <1>3, ConcatProperties, Zenon
<1>6. Len(first \o rest) = n + m /\ \A i \in 1 .. n + m : (first \o rest)[i] = i
  BY <1>1, <1>3, <1>5
<1> QED
  BY <1>4, <1>5, <1>6, SeqEqual DEF first, rest, both

(* Writing keeps the file a sequence of bytes, and what is written of a    *)
(* prefix of the present chunk follows what the file holds.                *)
LEMMA Written ==
    ASSUME TypeOK, NEW bytes \in Seq(Nat)
    PROVE  /\ FileWith(bytes) \in Seq(Nat)
           /\ \A m \in Nat :
                 (file = Chunk!FirstBytes(base) /\ bytes = Chunk!FirstBytes(m))
                    => FileWith(bytes) = Chunk!FirstBytes(base + m)
<1> DEFINE rest == [i \in 1 .. Len(bytes) |-> base + bytes[i]]
<1>1. base \in Nat /\ file \in Seq(Nat)
  BY DEF TypeOK
<1>2. rest \in Seq(Nat)
  BY <1>1
<1>3. file \o rest \in Seq(Nat)
  BY <1>1, <1>2, ConcatProperties
<1>4. ASSUME NEW m \in Nat, file = Chunk!FirstBytes(base),
             bytes = Chunk!FirstBytes(m)
      PROVE  FileWith(bytes) = Chunk!FirstBytes(base + m)
  BY <1>1, <1>4, BytesFollow DEF FileWith
<1> QED
  BY <1>1, <1>3, <1>4 DEF FileWith

(* The state of the stream says whether all was written.                   *)
LEMMA Stored ==
    ASSUME TypeOK, NEW bytes \in Seq(Nat), Store(bytes)
    PROVE  /\ file' \in Seq(Nat) /\ disk' \in {"good", "bad"}
           /\ disk' = "good" => disk = "good" /\ file' = FileWith(bytes)
           /\ disk' = "bad" => disk = "bad" \/ "writing" \in faults
<1>1. FileWith(bytes) \in Seq(Nat) /\ file \in Seq(Nat)
  BY Written DEF TypeOK
<1>2. \A n \in 0 .. Len(FileWith(bytes)) : SubSeq(FileWith(bytes), 1, n) \in Seq(Nat)
  BY <1>1
<1> QED
  BY <1>1, <1>2 DEF Store, fileout

-----------------------------------------------------------------------------
(* Types *)

(* A chunk has a size and a port number wraps. *)
LEMMA NumbersFit ==
    ASSUME TypeOK PROVE ChunkSize \in Nat /\ NextPort \in Ports
<1>1. fileSize \in Nat /\ percents \in Nat /\ PortMod \in Nat \ {0}
      /\ curPort \in Nat /\ delta \in Nat
  BY GetFileAssumption DEF TypeOK, Ports
<1>2. fileSize * percents \in Nat
  BY <1>1
<1>3. ChunkSize \in Nat
  BY <1>2 DEF ChunkSize
<1>4. (curPort + delta) % PortMod \in 0 .. PortMod - 1
  BY <1>1
<1> QED
  BY <1>3, <1>4 DEF NextPort, Ports

(* The two ends enter getfile with their variables well typed. *)
LEMMA InitTypes == Init => TypeOK
<1> SUFFICES ASSUME Init PROVE TypeOK
  OBVIOUS
<1>1. /\ fileSize \in FileSizes /\ percents \in Percentages
      /\ startPort \in StartPorts /\ delta \in Deltas /\ faults \in Troubles
      /\ startPort \in Ports /\ CmdPort \in Ports /\ 0 \in Ports
  BY GetFileAssumption DEF Init, Ports
<1>2. occupied \subseteq Ports \cup {NoPort}
  BY GetFileAssumption DEF Init, Ports
<1>3. file \in Seq(Nat) /\ copy \in Seq(Nat)
  BY DEF Init
<1>4. call \in [len : Nat, amount : BOOLEAN, size : Nat]
  BY DEF Init
<1>5. attempt \in 0 .. BindAttempts
  BY GetFileAssumption DEF Init
<1> QED
  BY <1>1, <1>2, <1>3, <1>4, <1>5 DEF Init, TypeOK, Chunk!Ends, Nothing

-----------------------------------------------------------------------------
(* What the steps come to in a state of the invariant *)

(* A client that can connect is told the right port, by a server that has  *)
(* written the chunk before and that takes the connection for the next.    *)
LEMMA Connecting ==
    ASSUME GetFileInv, cPc = "connect", Listening(cPort)
    PROVE  /\ sPc \in Open /\ cPort = Meeting /\ cPort # NoPort
           /\ receiver = "true" /\ pos = base + call.size /\ fileSize - pos \in Nat
<1>1. cPort # NoPort /\ cPort \in {connector, newPeer}
  BY DEF GetFileInv, TypeOK, Listening, Ports, NoPort
<1>2. sPc \notin ServerGone
  BY <1>1 DEF GetFileInv, ListenerInv, ServerDone, ServerGone
<1>3. sPc \in Open /\ cPort = Meeting /\ pending = NoPort
  BY <1>2 DEF GetFileInv, MeetingInv
<1>4. receiver = "true"
  BY <1>2, <1>3 DEF GetFileInv, ReceiverInv, TypeOK, Chunk!Ends, Open
<1>5. pos = base + call.size /\ call.size <= call.len /\ base + call.len <= fileSize
  BY <1>4 DEF GetFileInv, ChunkInv
<1>6. fileSize \in Nat /\ base \in Nat /\ call.size \in Nat /\ call.len \in Nat
  BY GetFileAssumption DEF GetFileInv, TypeOK
<1> QED
  BY <1>1, <1>3, <1>4, <1>5, <1>6

(* recv_amount_to_stream goes on, or it returns true with the chunk full,  *)
(* or false with the rest of the file.                                     *)
LEMMA Receiving ==
    ASSUME GetFileInv, S_Receive
    PROVE  /\ Len(copy') \in Nat /\ copy' = Chunk!FirstBytes(Len(copy'))
           /\ Len(copy) <= Len(copy') /\ Len(copy') <= call.len
           /\ sPc = "recv" /\ pending = NoPort /\ receiver = "running"
           /\ \/ receiver' = "running" /\ UNCHANGED <<sPc, attempt, connector, fileout>>
              \/ /\ receiver' = "true" /\ Len(copy') = call.size
                 /\ sPc' = "bind_next" /\ attempt' = 0 /\ connector' = connector
                 /\ Store(copy')
              \/ /\ receiver' = "false" /\ base + Len(copy') = fileSize
                 /\ sPc' = "saved" /\ attempt' = 0 /\ connector' = NoPort
                 /\ Store(copy')
<1>1. /\ call.len \in Nat /\ call.size \in Nat /\ call.amount = TRUE /\ base \in Nat
      /\ fileSize \in Nat /\ Len(copy) \in Nat
  BY GetFileAssumption DEF GetFileInv, TypeOK, ChunkInv
<1>2. sPc = "recv" /\ receiver = "running" /\ pending = NoPort /\ base + call.len = fileSize
  BY DEF GetFileInv, ReceiverInv, ChunkInv, S_Receive, Open
<1>3. PICK n \in Len(copy) .. Chunk!Most :
        /\ copy' = Chunk!FirstBytes(n)
        /\ \/ receiver' = receiver
           \/ receiver' \in {"true", "false"} /\ Chunk!Complete(receiver', n)
  BY DEF S_Receive, Chunk!Receive
<1>4. n \in Nat /\ Len(copy) <= n /\ n <= call.len
  BY <1>1, <1>3 DEF Chunk!Most
<1>5. Len(copy') = n
  BY <1>3, <1>4, FirstBytesAre
<1>6. CASE receiver' = "running"
  BY <1>2, <1>3, <1>4, <1>5, <1>6 DEF S_Receive
<1>7. CASE receiver' = "true"
  <2>1. n = call.size
    BY <1>2, <1>3, <1>7 DEF Chunk!Complete
  <2>2. /\ sPc' = "bind_next" /\ attempt' = 0 /\ connector' = connector
        /\ Store(copy')
    BY <1>7 DEF S_Receive, AfterChunk
  <2> QED
    BY <1>2, <1>3, <1>4, <1>5, <1>7, <2>1, <2>2
<1>8. CASE receiver' = "false"
  <2>1. n = call.len
    BY <1>2, <1>3, <1>8 DEF Chunk!Complete
  <2>2. /\ sPc' = "saved" /\ attempt' = 0 /\ connector' = NoPort
        /\ Store(copy')
    BY <1>8 DEF S_Receive, AfterChunk
  <2> QED
    BY <1>2, <1>3, <1>4, <1>5, <1>8, <2>1, <2>2
<1> QED
  BY <1>2, <1>3, <1>6, <1>7, <1>8

(* The ways out of the server by an exception, and what they do not touch. *)
LEMMA Ending ==
    ASSUME GetFileInv,
           \/ S_BindStart /\ sPc' \in ServerGone
           \/ S_BindNext /\ sPc' \in ServerGone
           \/ S_Fail
    PROVE  /\ sPc \notin ServerDone /\ sPc' \in ServerGone
           /\ connector' = NoPort /\ newPeer' = NoPort /\ pending' = NoPort
           /\ receiver' = IF receiver = "running" THEN "failed" ELSE receiver
           /\ IF S_Fail /\ sPc = "recv" THEN Store(copy) ELSE UNCHANGED fileout
           /\ attempt' \in 0 .. BindAttempts /\ curPort' \in {curPort, NextPort}
           /\ UNCHANGED <<request, occupied, clientVars, chunkMsg, portMsg, call, copy, sender>>
<1> USE DEF ServerDone, ServerGone
<1>1. (receiver = "running" \/ pending # NoPort) <=> receiver = "running"
  BY DEF GetFileInv, ReceiverInv
<1>2. attempt \in 0 .. BindAttempts /\ BindAttempts \in Nat
  BY GetFileAssumption DEF GetFileInv, TypeOK
<1>3. CASE S_BindStart /\ sPc' \in ServerGone
  BY <1>1, <1>2, <1>3 DEF S_BindStart, S_Ends, S_Fail
<1>4. CASE S_BindNext /\ sPc' \in ServerGone
  <2>1. attempt + 1 \in 0 .. BindAttempts
    BY <1>2, <1>4 DEF S_BindNext, GetFileInv, ListenerInv
  <2> QED
    BY <1>1, <1>4, <2>1 DEF S_BindNext, S_Ends, S_Fail
<1>5. CASE S_Fail
  BY <1>1, <1>2, <1>5 DEF S_Fail, S_Ends
<1> QED
  BY <1>3, <1>4, <1>5

-----------------------------------------------------------------------------
(* Every step keeps the invariant *)

(* The ways out of the server, for which all parts have one case. *)
ServerEnds ==
    \/ S_BindStart /\ sPc' \in ServerGone
    \/ S_BindNext /\ sPc' \in ServerGone
    \/ S_Fail

(* The steps keep the types. *)
LEMMA TypeStep == ASSUME GetFileInv, [Next]_vars PROVE TypeOK'
<1> USE DEF request, serverVars, fileout, clientVars, messages, chunkVars, ServerGone, ServerDone,
      ClientGone, ClientDone
<1>1. TypeOK /\ ChunkSize \in Nat /\ NextPort \in Ports
  BY NumbersFit DEF GetFileInv
<1>2. /\ startPort \in Ports /\ NoPort \notin Ports /\ Nothing \notin Nat
      /\ BindAttempts \in Nat \ {0} /\ Ports \subseteq Nat
  BY <1>1, GetFileAssumption DEF TypeOK, Ports, NoPort, Nothing
<1>3. CASE UNCHANGED vars
  BY <1>1, <1>3 DEF TypeOK, vars
<1>4. CASE ServerEnds
  <2>1. file' \in Seq(Nat) /\ disk' \in {"closed", "good", "bad"}
    <3>1. Store(copy) \/ UNCHANGED fileout
      BY <1>4, Ending DEF ServerEnds
    <3>2. copy \in Seq(Nat) /\ file \in Seq(Nat) /\ disk \in {"closed", "good", "bad"}
      BY <1>1 DEF TypeOK
    <3> QED
      BY <1>1, <3>1, <3>2, Stored DEF fileout
  <2>2. receiver' \in Chunk!Ends
    BY <1>1, <1>4, Ending DEF ServerEnds, TypeOK, Chunk!Ends
  <2> QED
    BY <1>1, <1>4, <2>1, <2>2, Ending DEF ServerEnds, TypeOK
<1>5. CASE (S_BindStart \/ S_BindNext) /\ sPc' \notin ServerGone
  <2>1. attempt' \in 0 .. BindAttempts
    <3>1. attempt \in 0 .. BindAttempts /\ (sPc = "bind_next" => attempt < BindAttempts)
      BY <1>1 DEF TypeOK, GetFileInv, ListenerInv
    <3>2. attempt' = attempt \/ (sPc = "bind_next" /\ attempt' = attempt + 1)
      BY <1>5 DEF S_BindStart, S_BindNext
    <3> QED
      BY <1>2, <3>1, <3>2
  <2> QED
    BY <1>1, <1>2, <1>5, <2>1 DEF S_BindStart, S_BindNext, S_Ends, TypeOK
<1>6. CASE S_SendChunkSize \/ S_ChunkSizeSent \/ S_Accept
  BY <1>1, <1>6 DEF S_SendChunkSize, S_ChunkSizeSent, S_Accept, TypeOK
<1>7. CASE S_Receive
  <2>1. copy' \in Seq(Nat)
    <3>1. PICK n \in Nat : copy' = Chunk!FirstBytes(n)
      BY <1>7, Receiving
    <3> QED
      BY <3>1, FirstBytesAre
  <2>2. /\ receiver' \in Chunk!Ends /\ sPc' \in {"recv", "bind_next", "saved"}
        /\ attempt' \in 0 .. BindAttempts /\ connector' \in Ports \cup {NoPort}
    <3>1. attempt \in 0 .. BindAttempts /\ connector \in Ports \cup {NoPort}
      BY <1>1 DEF TypeOK
    <3>2. 0 \in 0 .. BindAttempts
      BY <1>2
    <3> QED
      BY <1>7, <3>1, <3>2, Receiving DEF Chunk!Ends
  <2>3. file' \in Seq(Nat) /\ disk' \in {"closed", "good", "bad"}
    <3>1. Store(copy') \/ UNCHANGED fileout
      BY <1>7, Receiving
    <3>2. file \in Seq(Nat) /\ disk \in {"closed", "good", "bad"}
      BY <1>1 DEF TypeOK
    <3> QED
      BY <1>1, <2>1, <3>1, <3>2, Stored DEF fileout
  <2>4. UNCHANGED <<call, sender>>
    BY <1>7 DEF S_Receive, Chunk!Receive
  <2> QED
    BY <1>1, <1>7, <2>1, <2>2, <2>3, <2>4 DEF S_Receive, TypeOK
<1>8. CASE S_SendPort \/ S_PortSent
  BY <1>1, <1>8 DEF S_SendPort, S_PortSent, PortToTell, TypeOK
<1>9. CASE C_ReceiveChunkSize \/ C_ConnectFails \/ C_ReceivePort
  BY <1>1, <1>9 DEF C_ReceiveChunkSize, C_ConnectFails, C_ReceivePort, TypeOK, Nothing
<1>10. CASE C_Connect
  <2>1. call' \in [len : Nat, amount : BOOLEAN, size : Nat]
    BY <1>1, <1>10, Connecting DEF C_Connect
  <2>2. copy' \in Seq(Nat)
    BY <1>10 DEF C_Connect
  <2> QED
    BY <1>1, <1>10, <2>1, <2>2 DEF C_Connect, TypeOK, Chunk!Ends
<1>11. CASE C_Sent
  <2>1. sender' \in {"true", "false"} /\ UNCHANGED <<call, copy, receiver>>
    BY <1>11 DEF C_Sent, Chunk!Send
  <2>2. pos' \in Nat
    BY <1>1, <1>11 DEF C_Sent, TypeOK
  <2> QED
    BY <1>1, <1>11, <2>1, <2>2 DEF C_Sent, TypeOK, Chunk!Ends
<1>12. CASE C_Fail
  BY <1>1, <1>12 DEF C_Fail, TypeOK, Chunk!Ends
<1> QED
  BY <1>3, <1>4, <1>5, <1>6, <1>7, <1>8, <1>9, <1>10, <1>11, <1>12
  DEF Next, ServerStep, ClientStep, ServerEnds

(* The listeners are the ones of the place where the server is. *)
LEMMA ListenerStep == ASSUME GetFileInv, [Next]_vars PROVE ListenerInv'
<1> USE DEF request, serverVars, fileout, clientVars, messages, chunkVars, ServerGone, ServerDone,
      ListenerInv
<1>1. TypeOK /\ ListenerInv
  BY DEF GetFileInv
<1>2. BindAttempts \in Nat \ {0}
  BY GetFileAssumption
<1>3. CASE UNCHANGED vars
  BY <1>1, <1>3 DEF vars
<1>4. CASE ServerEnds
  BY <1>1, <1>4, Ending DEF ServerEnds
<1>5. CASE (S_BindStart \/ S_BindNext) /\ sPc' \notin ServerGone
  <2>1. CASE sPc' = "bind_next"
    BY <1>1, <1>2, <1>5, <2>1 DEF S_BindStart, S_BindNext, S_Ends, TypeOK
  <2>2. CASE sPc' # "bind_next"
    BY <1>1, <1>5, <2>2 DEF S_BindStart, S_BindNext, S_Ends
  <2> QED
    BY <2>1, <2>2
<1>6. CASE S_SendChunkSize \/ S_ChunkSizeSent \/ S_Accept
  BY <1>1, <1>6 DEF S_SendChunkSize, S_ChunkSizeSent, S_Accept
<1>7. CASE S_Receive
  BY <1>1, <1>2, <1>7, Receiving DEF S_Receive
<1>8. CASE S_SendPort \/ S_PortSent
  BY <1>1, <1>8 DEF S_SendPort, S_PortSent
<1>9. CASE ClientStep \/ C_Fail
  BY <1>1, <1>9 DEF ClientStep, C_ReceiveChunkSize, C_Connect, C_ConnectFails, C_Sent,
       C_ReceivePort, C_Fail
<1> QED
  BY <1>3, <1>4, <1>5, <1>6, <1>7, <1>8, <1>9 DEF Next, ServerStep, ServerEnds

(* The receiving end is running from the connection to its verdict. *)
LEMMA ReceiverStep == ASSUME GetFileInv, [Next]_vars PROVE ReceiverInv'
<1> USE DEF request, serverVars, fileout, clientVars, messages, chunkVars, ServerGone, ServerDone,
      ReceiverInv, Open, Meeting
<1>1. TypeOK /\ ListenerInv /\ ReceiverInv
  BY DEF GetFileInv
<1>2. receiver \in {"running", "true", "false", "failed"}
  BY <1>1 DEF TypeOK, Chunk!Ends
<1>3. CASE UNCHANGED vars
  BY <1>1, <1>3 DEF vars
<1>4. CASE ServerEnds
  BY <1>1, <1>2, <1>4, Ending DEF ServerEnds
<1>5. CASE (S_BindStart \/ S_BindNext) /\ sPc' \notin ServerGone
  BY <1>1, <1>5 DEF S_BindStart, S_BindNext, S_Ends
<1>6. CASE S_SendChunkSize \/ S_ChunkSizeSent \/ S_Accept
  BY <1>1, <1>6 DEF S_SendChunkSize, S_ChunkSizeSent, S_Accept
<1>7. CASE S_Receive
  BY <1>1, <1>2, <1>7, Receiving DEF S_Receive
<1>8. CASE S_SendPort \/ S_PortSent
  BY <1>1, <1>8 DEF S_SendPort, S_PortSent, ListenerInv
<1>9. CASE C_Connect
  BY <1>1, <1>2, <1>9, Connecting DEF C_Connect
<1>10. CASE C_Sent
  BY <1>1, <1>10 DEF C_Sent, Chunk!Send
<1>11. CASE C_ReceiveChunkSize \/ C_ConnectFails \/ C_ReceivePort \/ C_Fail
  BY <1>1, <1>11 DEF C_ReceiveChunkSize, C_ConnectFails, C_ReceivePort, C_Fail
<1> QED
  BY <1>3, <1>4, <1>5, <1>6, <1>7, <1>8, <1>9, <1>10, <1>11
  DEF Next, ServerStep, ClientStep, ServerEnds

(* The ends agree on where they meet. *)
LEMMA MeetingStep == ASSUME GetFileInv, [Next]_vars PROVE MeetingInv'
<1> USE DEF request, serverVars, fileout, clientVars, messages, chunkVars, ServerGone, ServerDone,
      ClientGone, ClientDone, MeetingInv, Open, Meeting
<1>1. TypeOK /\ ListenerInv /\ ReceiverInv /\ MeetingInv
  BY DEF GetFileInv
<1>2. receiver \in {"running", "true", "false", "failed"} /\ NoPort \notin Ports
  BY <1>1 DEF TypeOK, Chunk!Ends, Ports, NoPort
<1>3. UNCHANGED <<fileSize, percents>> => ChunkSize' = ChunkSize
  BY DEF ChunkSize
<1>4. UNCHANGED <<fileSize, percents>>
  <2>1. CASE Next
    BY <2>1 DEF Next, ServerStep, ClientStep, S_BindStart, S_SendChunkSize, S_ChunkSizeSent,
       S_Accept, S_Receive, S_BindNext, S_SendPort, S_PortSent, S_Fail, C_ReceiveChunkSize,
       C_Connect, C_ConnectFails, C_Sent, C_ReceivePort, C_Fail
  <2>2. CASE UNCHANGED vars
    BY <2>2 DEF vars
  <2> QED
    BY <2>1, <2>2
<1> HIDE DEF request
<1>5. CASE UNCHANGED vars
  BY <1>1, <1>3, <1>4, <1>5 DEF vars, request
<1>6. CASE ServerEnds
  BY <1>1, <1>2, <1>3, <1>4, <1>6, Ending DEF ServerEnds, request
<1>7. CASE (S_BindStart \/ S_BindNext) /\ sPc' \notin ServerGone
  BY <1>1, <1>3, <1>4, <1>7 DEF S_BindStart, S_BindNext, S_Ends, ReceiverInv, request
<1>8. CASE S_SendChunkSize
  BY <1>1, <1>3, <1>4, <1>8, NumbersFit DEF S_SendChunkSize, ReceiverInv, Nothing, request
<1>9. CASE S_ChunkSizeSent
  BY <1>1, <1>3, <1>4, <1>9 DEF S_ChunkSizeSent, ReceiverInv, request
<1>10. CASE S_Accept
  BY <1>1, <1>3, <1>4, <1>10 DEF S_Accept, ReceiverInv, request
<1>11. CASE S_Receive
  BY <1>1, <1>2, <1>3, <1>4, <1>11, Receiving DEF S_Receive, ReceiverInv, request
<1>12. CASE S_SendPort
  BY <1>1, <1>3, <1>4, <1>12 DEF S_SendPort, PortToTell, ReceiverInv, ListenerInv, TypeOK,
     Ports, Nothing, request
<1>13. CASE S_PortSent
  BY <1>1, <1>3, <1>4, <1>13 DEF S_PortSent, ReceiverInv, request
<1>14. CASE C_ReceiveChunkSize
  BY <1>1, <1>3, <1>4, <1>14 DEF C_ReceiveChunkSize, ListenerInv, request
<1>15. CASE C_Connect
  BY <1>1, <1>2, <1>3, <1>4, <1>15, Connecting DEF C_Connect, request
<1>16. CASE C_Sent
  <2>1. UNCHANGED <<call, copy, receiver>>
    BY <1>16 DEF C_Sent, Chunk!Send
  <2>2. sender' = "true" => receiver \in {"true", "failed"}
    BY <1>16 DEF C_Sent, Chunk!Send
  <2> QED
    BY <1>1, <1>3, <1>4, <1>16, <2>1, <2>2 DEF C_Sent, ReceiverInv, request
<1>17. CASE C_ReceivePort
  BY <1>1, <1>2, <1>3, <1>4, <1>17 DEF C_ReceivePort, ReceiverInv, request
<1>18. CASE C_ConnectFails \/ C_Fail
  BY <1>1, <1>3, <1>4, <1>18 DEF C_ConnectFails, C_Fail, request
<1> QED
  BY <1>5, <1>6, <1>7, <1>8, <1>9, <1>10, <1>11, <1>12, <1>13, <1>14, <1>15, <1>16, <1>17,
     <1>18 DEF Next, ServerStep, ClientStep, ServerEnds

(* The chunk is part of the file, and its copy a prefix of it. *)
LEMMA ChunkStep == ASSUME GetFileInv, [Next]_vars PROVE ChunkInv'
<1> USE DEF request, serverVars, fileout, clientVars, messages, chunkVars, ServerGone, ServerDone,
      ClientGone, ClientDone, ChunkInv
<1>1. TypeOK /\ ReceiverInv /\ ChunkInv
  BY DEF GetFileInv
<1>2. /\ fileSize \in Nat /\ base \in Nat /\ pos \in Nat
      /\ call.len \in Nat /\ call.size \in Nat /\ Len(copy) \in Nat
  BY <1>1, GetFileAssumption DEF TypeOK
<1>3. CASE UNCHANGED vars
  BY <1>1, <1>3 DEF vars
<1>4. CASE ServerEnds
  BY <1>1, <1>4, Ending DEF ServerEnds
<1>5. CASE (S_BindStart \/ S_BindNext) /\ sPc' \notin ServerGone
  BY <1>1, <1>5 DEF S_BindStart, S_BindNext, S_Ends
<1>6. CASE S_SendChunkSize \/ S_ChunkSizeSent \/ S_Accept \/ S_SendPort \/ S_PortSent
  BY <1>1, <1>6 DEF S_SendChunkSize, S_ChunkSizeSent, S_Accept, S_SendPort, S_PortSent
<1>7. CASE S_Receive
  <2>1. UNCHANGED <<call, sender>> /\ UNCHANGED <<request, clientVars, messages>>
    BY <1>7 DEF S_Receive, Chunk!Receive
  <2>2. base + call.len = fileSize
    BY <1>1, <1>7, Receiving
  <2> QED
    BY <1>1, <1>2, <1>7, <2>1, <2>2, Receiving
<1>8. CASE C_Connect
  <2>1. /\ call' = [len |-> fileSize - pos, amount |-> TRUE, size |-> ChunkSize]
        /\ copy' = << >> /\ receiver' = "running" /\ base' = pos /\ pos' = pos
        /\ cPc' = "send" /\ fileSize' = fileSize
    BY <1>8 DEF C_Connect
  <2>2. fileSize - pos \in Nat
    BY <1>8, Connecting DEF C_Connect, GetFileInv
  <2> QED
    BY <1>2, <2>1, <2>2, FirstBytesAre
<1>9. CASE C_Sent
  <2>1. UNCHANGED <<call, copy, receiver>>
    BY <1>9 DEF C_Sent, Chunk!Send
  <2> QED
    BY <1>1, <1>2, <1>9, <2>1 DEF C_Sent
<1>10. CASE C_ReceiveChunkSize \/ C_ReceivePort \/ C_ConnectFails \/ C_Fail
  BY <1>1, <1>10 DEF C_ReceiveChunkSize, C_ReceivePort, C_ConnectFails, C_Fail
<1> QED
  BY <1>3, <1>4, <1>5, <1>6, <1>7, <1>8, <1>9, <1>10
  DEF Next, ServerStep, ClientStep, ServerEnds

(* The file is what the chunks before the present one came to. *)
LEMMA FileStep == ASSUME GetFileInv, [Next]_vars PROVE FileInv'
<1> USE DEF request, serverVars, fileout, clientVars, messages, chunkVars, ServerGone, ServerDone,
      FileInv
<1>1. TypeOK /\ ReceiverInv /\ ChunkInv /\ FileInv
  BY DEF GetFileInv
<1>2. /\ fileSize \in Nat /\ base \in Nat /\ call.size \in Nat /\ Len(copy) \in Nat
      /\ receiver \in {"running", "true", "false", "failed"}
  BY <1>1, GetFileAssumption DEF TypeOK, Chunk!Ends
<1>3. CASE UNCHANGED vars
  BY <1>1, <1>3 DEF vars
<1>4. CASE ServerEnds
  <2>1. receiver' # "running" /\ UNCHANGED <<faults, fileSize, base, call>>
    BY <1>4, Ending DEF ServerEnds
  <2>2. receiver' \in {"true", "false"} => receiver' = receiver /\ UNCHANGED fileout
    BY <1>1, <1>4, Ending DEF ServerEnds, ReceiverInv
  <2>3. disk' = "bad" => disk = "bad" \/ "writing" \in faults
    <3>1. Store(copy) \/ UNCHANGED fileout
      BY <1>4, Ending DEF ServerEnds
    <3>2. copy \in Seq(Nat)
      BY <1>1 DEF TypeOK
    <3> QED
      BY <1>1, <3>1, <3>2, Stored DEF fileout
  <2>4. sPc' \in ServerGone
    BY <1>4, Ending DEF ServerEnds
  <2> QED
    BY <1>1, <2>1, <2>2, <2>3, <2>4 DEF fileout
<1>5. CASE (S_BindStart \/ S_BindNext) /\ sPc' \notin ServerGone
  BY <1>1, <1>5 DEF S_BindStart, S_BindNext, S_Ends
<1>6. CASE S_SendChunkSize \/ S_ChunkSizeSent \/ S_Accept \/ S_SendPort \/ S_PortSent
  <2>1. UNCHANGED <<receiver, call, faults, fileSize, base, file>>
    BY <1>6 DEF S_SendChunkSize, S_ChunkSizeSent, S_Accept, S_SendPort, S_PortSent
  <2>2. CASE S_ChunkSizeSent
    <3>1. disk' = "bad" => "writing" \in faults
      BY <2>2 DEF S_ChunkSizeSent
    <3>2. disk # "bad" /\ sPc' = "accept"
      BY <1>1, <2>2 DEF S_ChunkSizeSent
    <3> QED
      BY <1>1, <2>1, <3>1, <3>2
  <2>3. CASE ~S_ChunkSizeSent
    BY <1>1, <1>6, <2>1, <2>3 DEF S_SendChunkSize, S_Accept, S_SendPort, S_PortSent
  <2> QED
    BY <2>2, <2>3
<1>7. CASE S_Receive
  <2>1. UNCHANGED <<call, faults, fileSize, base>>
    BY <1>7 DEF S_Receive, Chunk!Receive
  <2>2. PICK n \in Nat : n = Len(copy') /\ copy' = Chunk!FirstBytes(n)
    BY <1>7, Receiving
  <2>3. file = Chunk!FirstBytes(base) => FileWith(copy') = Chunk!FirstBytes(base + n)
    BY <1>1, <2>2, Written, FirstBytesAre
  <2>4. disk # "bad" => file = Chunk!FirstBytes(base)
    BY <1>1, <1>7, Receiving
  <2>5. CASE receiver' = "running"
    BY <1>1, <1>7, <2>1, <2>4, <2>5, Receiving
  <2>6. receiver' # "running" =>
           /\ disk' = "good" => file' = Chunk!FirstBytes(base + n)
           /\ disk' \in {"good", "bad"}
           /\ disk' = "bad" => "writing" \in faults
    <3>1. copy' \in Seq(Nat)
      BY <2>2, FirstBytesAre
    <3>2. receiver' # "running" => Store(copy')
      BY <1>7, Receiving
    <3> QED
      BY <1>1, <2>3, <2>4, <3>1, <3>2, Stored
  <2>7. CASE receiver' = "true"
    BY <1>7, <2>1, <2>2, <2>6, <2>7, Receiving
  <2>8. CASE receiver' = "false"
    BY <1>7, <2>1, <2>2, <2>6, <2>8, Receiving
  <2> QED
    BY <1>7, <2>5, <2>7, <2>8, Receiving
<1>8. CASE C_Connect
  <2>1. receiver' = "running" /\ base' = pos /\ UNCHANGED <<faults, file, disk, sPc>>
    BY <1>8 DEF C_Connect
  <2>2. receiver = "true" /\ pos = base + call.size
    BY <1>8, Connecting DEF C_Connect, GetFileInv
  <2> QED
    BY <1>1, <2>1, <2>2
<1>9. CASE C_Sent
  <2>1. UNCHANGED <<call, copy, receiver>>
    BY <1>9 DEF C_Sent, Chunk!Send
  <2> QED
    BY <1>1, <1>9, <2>1 DEF C_Sent
<1>10. CASE C_ReceiveChunkSize \/ C_ReceivePort \/ C_ConnectFails \/ C_Fail
  BY <1>1, <1>10 DEF C_ReceiveChunkSize, C_ReceivePort, C_ConnectFails, C_Fail
<1> QED
  BY <1>3, <1>4, <1>5, <1>6, <1>7, <1>8, <1>9, <1>10
  DEF Next, ServerStep, ClientStep, ServerEnds

-----------------------------------------------------------------------------
(* The theorems *)

(* Both ends enter getfile in a state of the invariant. *)
LEMMA InitInv == ASSUME Init PROVE GetFileInv
<1>1. TypeOK
  BY InitTypes
<1>2. ListenerInv /\ ReceiverInv
  BY DEF Init, ListenerInv, ReceiverInv, ServerDone, ServerGone
<1>3. MeetingInv
  BY DEF Init, MeetingInv, ClientDone, ClientGone
<1>4. ChunkInv
  BY <1>1, FirstBytesAre, GetFileAssumption DEF Init, ChunkInv, TypeOK
<1>5. FileInv
  BY FirstBytesAre DEF Init, FileInv
<1> QED
  BY <1>1, <1>2, <1>3, <1>4, <1>5 DEF GetFileInv

(* In every reachable state the ends agree on where they meet and on what  *)
(* the server's file holds.                                                *)
THEOREM Invariant == Spec => []GetFileInv
<1>1. GetFileInv /\ [Next]_vars => GetFileInv'
  BY TypeStep, ListenerStep, ReceiverStep, MeetingStep, ChunkStep, FileStep DEF GetFileInv
<1> QED
  BY InitInv, <1>1, PTL DEF Spec

(* Every variable has its type: among others no port number has more than  *)
(* sixteen bits, and no chunk begins behind the end of the file.           *)
THEOREM TypeCorrect == Spec => []TypeOK
<1>1. GetFileInv => TypeOK
  BY DEF GetFileInv
<1> QED
  BY <1>1, Invariant, PTL

(* Whatever ports the server had to pass over, the client connects to one  *)
(* where it listens, unless that is port zero or the server has failed.    *)
THEOREM ClientIsToldThePort == Spec => []ListensWhereTold
<1>1. GetFileInv => ListensWhereTold
  BY DEF GetFileInv, MeetingInv, Meeting, Open, TypeOK, ServerGone, ListensWhereTold,
     ListenBeforeConnect, Listening
<1> QED
  BY <1>1, Invariant, PTL

(* A connection is accepted by the listener that it was made to, though    *)
(* two of them are open when the client may connect.                       *)
THEOREM SameConnection == Spec => []ConnectionIsAccepted
<1>1. GetFileInv => ConnectionIsAccepted
  BY DEF GetFileInv, ReceiverInv, Meeting, Open, ConnectionIsAccepted
<1> QED
  BY <1>1, Invariant, PTL

(* After any number of chunks, "file was saved" is said of the whole file, *)
(* if fileout was opened and no write to it has failed.                    *)
THEOREM SavedFileIsWhole == Spec => []WrittenIsWhole
<1>1. GetFileInv => WrittenIsWhole
  BY DEF GetFileInv, ReceiverInv, FileInv, WrittenIsWhole, SavedIsWhole
<1> QED
  BY <1>1, Invariant, PTL

(* The one call without a timeout is not made in vain: a server that waits *)
(* in accept for a client that has not left getfile waits for one that has *)
(* been told the port, and is about to connect to it.                      *)
AcceptIsAwaited ==
    (sPc = "accept" /\ pending = NoPort /\ cPc \notin ClientDone)
        => cPc = "connect" /\ cPort = connector

(* So only a client that has left can leave the server in accept.          *)
THEOREM AcceptAwaitsClient == Spec => []AcceptIsAwaited
<1>1. GetFileInv => AcceptIsAwaited
  BY DEF GetFileInv, MeetingInv, TypeOK, Meeting, Open, ClientDone, ClientGone, ServerGone,
     AcceptIsAwaited
<1> QED
  BY <1>1, Invariant, PTL

(* The server waits for a client that waits for the next command only if   *)
(* the file came to chunks of size zero.                                   *)
THEOREM OnlyZeroChunksHang == Spec => [](ChunkSize # 0 => NoMutualWait)
<1>1. GetFileInv => (ChunkSize # 0 => NoMutualWait)
  BY DEF GetFileInv, MeetingInv, NoMutualWait
<1> QED
  BY <1>1, Invariant, PTL

-----------------------------------------------------------------------------
(* Any number of chunks keeps the promise of one transfer *)

(* What the server has of the file does not change while it neither begins *)
(* nor ends a chunk and nothing is written.                                *)
LEMMA SameFile ==
    ASSUME UNCHANGED <<faults, file, base, copy>>, sPc = "recv" <=> sPc' = "recv"
    PROVE  FileNow' = FileNow
  BY DEF FileNow, FileWith

(* Nothing has failed that does not fail in this run.                      *)
LEMMA StillGood == ASSUME GetFileInv, "writing" \notin faults PROVE disk # "bad"
  BY DEF GetFileInv, FileInv

(* While it receives a chunk, the server has what came before and the copy.*)
LEMMA ReceivedSoFar ==
    ASSUME GetFileInv, receiver = "running", "writing" \notin faults
    PROVE  FileWith(copy) = Chunk!FirstBytes(base + Len(copy))
<1>1. TypeOK /\ file = Chunk!FirstBytes(base) /\ copy = Chunk!FirstBytes(Len(copy))
  BY StillGood DEF GetFileInv, FileInv, ChunkInv
<1>2. copy \in Seq(Nat) /\ Len(copy) \in Nat
  BY <1>1 DEF TypeOK
<1> QED
  BY <1>1, <1>2, Written

(* The server receives: the file grows, and it may be saved. *)
LEMMA WholeReceives ==
    ASSUME GetFileInv, S_Receive, "writing" \notin faults PROVE Whole!ANext
<1>1. TypeOK
  BY DEF GetFileInv
<1>2. /\ fileSize \in Nat /\ base \in Nat /\ Len(copy) \in Nat /\ call.len \in Nat
      /\ base + call.len = fileSize
  BY <1>1, GetFileAssumption, Receiving DEF TypeOK, GetFileInv, ChunkInv
<1>3. PICK n \in Nat : n = Len(copy') /\ copy' = Chunk!FirstBytes(n)
  BY Receiving
<1>4. Len(copy) <= n /\ n <= call.len
  BY <1>3, Receiving
<1>5. sPc = "recv" /\ receiver = "running" /\ file = Chunk!FirstBytes(base)
  BY StillGood, Receiving DEF GetFileInv, FileInv
<1>6. UNCHANGED <<fileSize, faults, base, cPc>>
  BY DEF S_Receive, request, clientVars
<1>7. FileNow = Chunk!FirstBytes(base + Len(copy))
  BY <1>5, ReceivedSoFar DEF FileNow
<1>8. FileWith(copy') = Chunk!FirstBytes(base + n)
  BY <1>1, <1>3, <1>5, Written, FirstBytesAre
<1>9. FileNow' = Chunk!FirstBytes(base + n)
  <2>1. CASE receiver' = "running"
    <3>1. sPc' = "recv" /\ file' = file
      BY <1>5, <2>1, Receiving DEF fileout
    <3>2. FileNow' = FileWith(copy')
      BY <1>6, <3>1 DEF FileNow, FileWith
    <3> QED
      BY <1>8, <3>2
  <2>2. CASE receiver' # "running"
    <3>1. Store(copy') /\ sPc' # "recv" /\ "writing" \notin faults /\ disk # "bad"
      BY <2>2, StillGood, Receiving
    <3>2. file' = FileWith(copy')
      BY <3>1 DEF Store
    <3> QED
      BY <1>8, <3>1, <3>2 DEF FileNow
  <2> QED
    BY <2>1, <2>2
<1>10. Len(FileNow) = base + Len(copy) /\ base + n \in Len(FileNow) .. fileSize
  BY <1>2, <1>3, <1>4, <1>7, FirstBytesAre
<1>11. \/ sPc' \in {"recv", "bind_next"}
       \/ sPc' = "saved" /\ base + n = fileSize
  BY <1>3, <1>5, Receiving
<1>12. Whole!Receive
  BY <1>5, <1>6, <1>9, <1>10, <1>11
  DEF Whole!Receive, Whole!Most, Whole!Complete, Whole!FirstBytes, Chunk!FirstBytes, ServerGone,
      ClientGone
<1> QED
  BY <1>12 DEF Whole!ANext

(* Every step of getfile is a step of one transfer or leaves it alone.     *)
LEMMA WholeStep ==
    ASSUME GetFileInv, GetFileInv', [Next]_vars, faults \subseteq {"peers"}
    PROVE  [Whole!ANext]_(Whole!avars)
<1> USE DEF request, serverVars, fileout, clientVars, messages, chunkVars
<1>1. "writing" \notin faults /\ "reading" \notin faults
  OBVIOUS
<1>2. /\ sPc \in {"bind_start", "send_chunk", "chunk_ack", "accept", "recv",
                  "bind_next", "send_port", "port_ack", "saved", "dropped", "dead"}
      /\ cPc \in {"await_chunk", "connect", "send", "await_port", "declined", "dead", "sent"}
  BY DEF GetFileInv, TypeOK, ServerDone, ServerGone, ClientDone, ClientGone
<1>3. ASSUME UNCHANGED <<fileSize, FileNow>>,
             sPc' = sPc \/ (sPc \notin ServerDone /\ sPc' \notin ServerDone),
             cPc' = cPc \/ (cPc \notin ClientDone /\ cPc' \notin ClientDone)
      PROVE  UNCHANGED Whole!avars
  BY <1>3 DEF Whole!avars, ServerDone, ServerGone, ClientDone, ClientGone
<1>4. ASSUME UNCHANGED <<fileSize, FileNow, sPc>>, cPc \notin ClientDone, cPc' \in ClientGone
      PROVE  Whole!ANext
  BY <1>4 DEF Whole!ANext, Whole!Fail, ClientDone, ClientGone
<1>5. ASSUME UNCHANGED <<fileSize, FileNow, cPc>>, sPc \notin ServerDone, sPc' \in ServerGone
      PROVE  Whole!ANext
  BY <1>5 DEF Whole!ANext, Whole!Fail, ServerDone, ServerGone
<1>6. CASE ServerEnds
  <2>1. /\ sPc \notin ServerDone /\ sPc' \in ServerGone /\ UNCHANGED <<fileSize, cPc>>
        /\ IF S_Fail /\ sPc = "recv" THEN Store(copy) ELSE UNCHANGED fileout
    BY <1>6, Ending DEF ServerEnds
  <2>2. sPc = "recv" => S_Fail
    BY <1>6 DEF ServerEnds, S_BindStart, S_BindNext
  <2>3. Store(copy) => file' = FileWith(copy)
    BY <1>1, StillGood DEF Store
  <2>4. FileNow' = FileNow
    BY <2>1, <2>2, <2>3 DEF FileNow, ServerGone, fileout
  <2> QED
    BY <1>5, <2>1, <2>4
<1>7. CASE S_Receive
  BY <1>1, <1>7, WholeReceives
<1>8. CASE S_Accept
  <2>1. receiver = "running" /\ copy = << >>
    BY <1>8 DEF S_Accept, GetFileInv, ReceiverInv, ChunkInv
  <2>2. FileWith(copy) = file
    <3>1. base \in Nat /\ file = Chunk!FirstBytes(base)
      BY <1>1, <2>1 DEF GetFileInv, TypeOK, FileInv
    <3> QED
      BY <1>1, <2>1, <3>1, ReceivedSoFar
  <2>3. FileNow' = FileNow
    BY <1>8, <2>2 DEF S_Accept, FileNow, FileWith
  <2> QED
    BY <1>3, <1>8, <2>3 DEF S_Accept, ServerDone, ServerGone
<1>9. CASE \/ (S_BindStart \/ S_BindNext) /\ sPc' \notin ServerGone
           \/ S_SendChunkSize \/ S_ChunkSizeSent \/ S_SendPort \/ S_PortSent
  <2>1. /\ sPc # "recv" /\ sPc' # "recv" /\ UNCHANGED <<fileSize, file, cPc>>
        /\ sPc \notin ServerDone /\ sPc' \notin ServerDone
    BY <1>9 DEF S_BindStart, S_BindNext, S_Ends, S_SendChunkSize, S_ChunkSizeSent, S_SendPort,
       S_PortSent, ServerDone, ServerGone
  <2>2. FileNow' = FileNow
    BY <2>1 DEF FileNow
  <2> QED
    BY <1>3, <2>1, <2>2
<1>10. CASE C_Connect
  <2>1. sPc # "recv" /\ UNCHANGED <<fileSize, file, sPc>>
    BY <1>10, Connecting DEF C_Connect, Open
  <2>2. FileNow' = FileNow
    BY <2>1 DEF FileNow
  <2> QED
    BY <1>3, <1>10, <2>1, <2>2 DEF C_Connect, ClientDone, ClientGone
<1>11. CASE C_Sent
  <2>1. /\ UNCHANGED <<call, copy, receiver, fileSize, faults, file, base, sPc>>
        /\ sender' \in {"true", "false"} /\ receiver \in {sender', "failed"} /\ cPc = "send"
        /\ cPc' = IF sender' = "true" THEN "await_port" ELSE "sent"
    BY <1>1, <1>11 DEF C_Sent, Chunk!Send
  <2>2. FileNow' = FileNow
    BY <2>1, SameFile
  <2>3. CASE sender' = "true"
    BY <1>3, <2>1, <2>2, <2>3 DEF ClientDone, ClientGone
  <2>4. CASE sender' = "false"
    <3>1. sPc \in {"saved"} \cup ServerGone
      BY <2>1, <2>4 DEF GetFileInv, ReceiverInv
    <3> QED
      BY <2>1, <2>2, <2>4, <3>1 DEF Whole!ANext, Whole!Send, ClientGone, ServerGone
  <2> QED
    BY <2>1, <2>3, <2>4
<1>12. CASE C_ReceiveChunkSize \/ C_ConnectFails \/ C_ReceivePort \/ C_Fail
  <2>1. /\ UNCHANGED <<faults, file, base, copy, fileSize, sPc>> /\ cPc \notin ClientDone
        /\ cPc' \notin ClientDone \/ cPc' \in ClientGone
    BY <1>12 DEF C_ReceiveChunkSize, C_ConnectFails, C_ReceivePort, C_Fail, ClientDone, ClientGone
  <2>2. FileNow' = FileNow
    BY <2>1, SameFile
  <2> QED
    BY <1>3, <1>4, <2>1, <2>2
<1>13. CASE UNCHANGED vars
  <2>1. FileNow' = FileNow
    BY <1>13, SameFile DEF vars
  <2> QED
    BY <1>3, <1>13, <2>1 DEF vars
<1> QED
  BY <1>6, <1>7, <1>8, <1>9, <1>10, <1>11, <1>12, <1>13
  DEF Next, ServerStep, ClientStep, ServerEnds

(* With nothing wrong but the network and the processes, and whatever the  *)
(* chunks and the ports, the server's file is a prefix of the client's at  *)
(* any time and both ends are right about having it all.                   *)
THEOREM KeepsOnePromise == Spec => WholeTransfer
<1>1. GetFileInv /\ GetFileInv' /\ [Next]_vars
        => [faults \subseteq {"peers"} => Whole!ANext]_(Whole!avars)
  <2> SUFFICES ASSUME GetFileInv, GetFileInv', [Next]_vars
               PROVE  [faults \subseteq {"peers"} => Whole!ANext]_(Whole!avars)
    OBVIOUS
  <2>1. faults \subseteq {"peers"} => [Whole!ANext]_(Whole!avars)
    BY WholeStep
  <2> QED
    BY <2>1
<1> QED
  BY <1>1, Invariant, PTL DEF Spec, WholeTransfer

=============================================================================
