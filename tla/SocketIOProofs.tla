--------------------------- MODULE SocketIOProofs ---------------------------
(***************************************************************************)
(* Reads, writes and options, for every size of the buffers, the reads and *)
(* the kernels' room and every set of timeouts.                            *)
(***************************************************************************)
EXTENDS SocketIO, SequenceTheorems, TLAPS

OptionTypeOK ==
    /\ platform \in Platforms /\ inherits \in BOOLEAN /\ accepted \in BOOLEAN
    /\ kernel \in [Sockets -> [block : BOOLEAN, timeout : Nat]]
    /\ told \in [Sockets -> BOOLEAN] /\ asked \in [Sockets -> Times \cup {0}]

CallTypeOK ==
    /\ wPc \in {"idle", "sending", "attempt", "broken"} \cup Gone
    /\ base \in 0 .. Size /\ written \in 0 .. Size - base /\ taken \in 0 .. Left
    /\ rPc \in {"idle", "reading"} \cup Gone
    /\ want \in Wants \cup {0} /\ filled \in 0 .. want
    /\ Len(net) <= Room /\ net \in Seq(1 .. Size) /\ got \in Seq(1 .. Size)

(* The types of the options and those of the calls are all of them. *)
LEMMA TypeParts == TypeOK <=> OptionTypeOK /\ CallTypeOK
BY DEF TypeOK, OptionTypeOK, CallTypeOK

-----------------------------------------------------------------------------
(* Types *)

(* A timeout is a natural number in either unit. *)
LEMMA TimeoutType == \A t \in Times : Timeout(t) \in Nat
<1> SUFFICES ASSUME NEW t \in Times PROVE Timeout(t) \in Nat
  OBVIOUS
<1>1. t \in Nat /\ Second \in Nat \ {0} /\ Ms \in Nat \ {0}
  BY SocketIOAssumption
<1>2. t \div Second \in Nat /\ t % Second \in Nat /\ t \div Ms \in Nat
  BY <1>1
<1>3. PosixTimeout(t) \in Nat /\ WindowsTimeout(t) \in Nat
  BY <1>1, <1>2 DEF PosixTimeout, WindowsTimeout
<1> QED
  BY <1>3 DEF Timeout

(* Nothing has been asked, called or sent. *)
LEMMA TypeInit == Init => TypeOK
<1> SUFFICES ASSUME Init PROVE TypeOK
  OBVIOUS
<1> USE SocketIOAssumption DEF Init
<1>1. OptionTypeOK
  BY DEF OptionTypeOK, Default, Sockets
<1>2. CallTypeOK
  BY DEF CallTypeOK, Left
<1> QED
  BY <1>1, <1>2, TypeParts

(* Only options and accept change the options, *)
LEMMA OptionTypeStep == OptionTypeOK /\ [Next]_vars => OptionTypeOK'
<1> SUFFICES ASSUME OptionTypeOK, [Next]_vars PROVE OptionTypeOK'
  OBVIOUS
<1> USE DEF OptionTypeOK
<1>1. ASSUME NEW s \in Sockets, NEW t \in Times, SetTimeout(s, t) PROVE OptionTypeOK'
  BY <1>1, TimeoutType DEF SetTimeout
<1>2. ASSUME NEW s \in Sockets, NEW blocks \in BOOLEAN, SetBlock(s, blocks)
      PROVE  OptionTypeOK'
  BY <1>2 DEF SetBlock, ToldAfter
<1>3. CASE Accept
  BY <1>3 DEF Accept, Default, Sockets
<1>4. CASE UNCHANGED options
  BY <1>4 DEF options
<1>5. W_Call \/ WriterStep \/ W_Resume \/ R_Call \/ ReaderStep \/ W_Goes \/ R_Goes
        \/ UNCHANGED vars => UNCHANGED options
  BY DEF W_Call, WriterStep, W_Take, W_SendReturns, W_SendAttempt, W_SendBroken, W_Resume,
         R_Call, ReaderStep, R_Fill, R_Returns, R_Attempt, W_Goes, R_Goes, vars
<1> QED
  BY <1>1, <1>2, <1>3, <1>4, <1>5 DEF Next, SetOption

(* and they change nothing else. *)
LEMMA CallTypeStep == CallTypeOK /\ [Next]_vars => CallTypeOK'
<1> SUFFICES ASSUME CallTypeOK, [Next]_vars PROVE CallTypeOK'
  OBVIOUS
<1> USE SocketIOAssumption DEF CallTypeOK, Left
<1>1. CASE W_Call
  BY <1>1 DEF W_Call, options, readerVars
<1>2. CASE W_Take
  <2>1. base + written + taken + 1 \in 1 .. Size /\ taken + 1 \in 0 .. Left
    BY <1>2 DEF W_Take
  <2>2. Append(net, base + written + taken + 1) \in Seq(1 .. Size)
    BY <2>1, AppendProperties
  <2>3. Len(Append(net, base + written + taken + 1)) <= Room
    BY <1>2, <2>1, AppendProperties DEF W_Take, Full
  <2> QED
    BY <1>2, <2>1, <2>2, <2>3 DEF W_Take, options, readerVars
<1>3. CASE W_SendReturns
  BY <1>3 DEF W_SendReturns, WrittenAfter, options, readerVars
<1>4. CASE W_SendAttempt \/ W_SendBroken
  BY <1>4 DEF W_SendAttempt, W_SendBroken, options, readerVars
<1>5. CASE W_Resume
  BY <1>5 DEF W_Resume, options, readerVars
<1>6. CASE R_Call
  BY <1>6 DEF R_Call, options, writerVars
<1>7. CASE R_Fill
  <2>1. /\ Head(net) \in 1 .. Size /\ Tail(net) \in Seq(1 .. Size)
        /\ Len(Tail(net)) = Len(net) - 1
    BY <1>7, HeadTailProperties DEF R_Fill
  <2>2. Append(got, Head(net)) \in Seq(1 .. Size)
    BY <2>1, AppendProperties
  <2>3. filled + 1 \in 0 .. want
    BY <1>7 DEF R_Fill
  <2>4. Len(net) \in Nat
    BY LenProperties
  <2> QED
    BY <1>7, <2>1, <2>2, <2>3, <2>4 DEF R_Fill, options, writerVars
<1>8. CASE R_Returns \/ R_Attempt
  BY <1>8 DEF R_Returns, R_Attempt, options, writerVars
<1>9. CASE W_Goes \/ R_Goes
  BY <1>9 DEF W_Goes, R_Goes, Gone, options, writerVars, readerVars
<1>10. CASE UNCHANGED <<writerVars, net, readerVars>>
  BY <1>10 DEF writerVars, readerVars
<1>11. SetOption \/ Accept \/ UNCHANGED vars => UNCHANGED <<writerVars, net, readerVars>>
  BY DEF SetOption, SetTimeout, SetBlock, Accept, vars
<1> QED
  BY <1>1, <1>2, <1>3, <1>4, <1>5, <1>6, <1>7, <1>8, <1>9, <1>10, <1>11
     DEF Next, WriterStep, ReaderStep

(* No call goes past the end of its buffer. *)
THEOREM SocketIOTypes == Spec => []TypeOK
<1>1. TypeOK /\ [Next]_vars => TypeOK'
  <2>1. TypeOK' <=> OptionTypeOK' /\ CallTypeOK'
    BY DEF TypeOK, OptionTypeOK, CallTypeOK
  <2> QED
    BY <2>1, TypeParts, OptionTypeStep, CallTypeStep
<1> QED
  BY <1>1, TypeInit, PTL DEF Spec

-----------------------------------------------------------------------------
(* Every byte once *)

Count == base + written + taken

(* EachByteOnce, byte by byte: what is on its way goes on from where the   *)
(* reader is.                                                              *)
InOrder ==
    /\ Len(got) + Len(net) = Count
    /\ \A i \in 1 .. Len(got) : got[i] = i
    /\ \A j \in 1 .. Len(net) : net[j] = Len(got) + j

(* Between two calls nothing is counted but what earlier calls have        *)
(* written; and a call that may be taken up again stopped between two      *)
(* ::send, with nothing taken that it has not counted.                     *)
NothingUncounted ==
    /\ wPc = "idle" => written = 0 /\ taken = 0
    /\ (wPc = "attempt" /\ (platform = "posix" \/ ~kernel["writer"].block)) => taken = 0

(* Nothing is counted before the first call. *)
LEMMA InOrderInit == Init => InOrder /\ NothingUncounted
BY DEF Init, InOrder, NothingUncounted, Count

(* A writer in a call cannot change its options, so an attempt that may be *)
(* taken up again remains one.                                             *)
LEMMA UncountedStep == TypeOK /\ NothingUncounted /\ [Next]_vars => NothingUncounted'
<1> SUFFICES ASSUME TypeOK, NothingUncounted, [Next]_vars PROVE NothingUncounted'
  OBVIOUS
<1> USE DEF NothingUncounted
<1>1. ASSUME NEW s \in Sockets, NEW t \in Times, SetTimeout(s, t) PROVE NothingUncounted'
  <2>1. kernel'["writer"].block = kernel["writer"].block
    BY <1>1 DEF SetTimeout, TypeOK, Sockets
  <2> QED
    BY <1>1, <2>1 DEF SetTimeout, writerVars
<1>2. ASSUME NEW s \in Sockets, NEW blocks \in BOOLEAN, SetBlock(s, blocks)
      PROVE  NothingUncounted'
  <2>1. s # "writer" => kernel'["writer"] = kernel["writer"]
    BY <1>2 DEF SetBlock, TypeOK, Sockets
  <2>2. s = "writer" => wPc = "idle"
    BY <1>2 DEF SetBlock, Settable
  <2> QED
    BY <1>2, <2>1, <2>2 DEF SetBlock, writerVars
<1>3. CASE Accept
  <2>1. kernel'["writer"] = kernel["writer"]
    BY <1>3 DEF Accept, TypeOK, Sockets
  <2> QED
    BY <1>3, <2>1 DEF Accept, writerVars
<1>4. CASE W_SendAttempt
  BY <1>4 DEF W_SendAttempt, options
<1>5. CASE W_SendReturns
  BY <1>5 DEF W_SendReturns
<1>6. CASE W_Call \/ W_Take \/ W_SendBroken \/ W_Resume \/ W_Goes
  BY <1>6 DEF W_Call, W_Take, W_SendBroken, W_Resume, W_Goes
<1>7. R_Call \/ ReaderStep \/ R_Goes \/ UNCHANGED vars
        => UNCHANGED <<wPc, written, taken, platform, kernel>>
  BY DEF R_Call, ReaderStep, R_Fill, R_Returns, R_Attempt, R_Goes, vars, options, writerVars
<1>8. CASE UNCHANGED <<wPc, written, taken, platform, kernel>>
  BY <1>8
<1> QED
  BY <1>1, <1>2, <1>3, <1>4, <1>5, <1>6, <1>7, <1>8 DEF Next, SetOption, WriterStep

(* Between ::send and the next one, or a call and the next one, the count  *)
(* moves from one variable to another.                                     *)
LEMMA InOrderStep == TypeOK /\ NothingUncounted /\ InOrder /\ [Next]_vars => InOrder'
<1> SUFFICES ASSUME TypeOK, NothingUncounted, InOrder, [Next]_vars PROVE InOrder'
  OBVIOUS
<1>t. /\ base \in 0 .. Size /\ written \in 0 .. Size - base /\ taken \in 0 .. Size - base - written
      /\ net \in Seq(1 .. Size) /\ got \in Seq(1 .. Size) /\ Size \in Nat
      /\ Len(net) \in Nat /\ Len(got) \in Nat
  BY SocketIOAssumption, LenProperties DEF TypeOK, Left
<1>1. CASE W_Take
  <2> DEFINE byte == Count + 1
  <2>1. byte \in 1 .. Size
    BY <1>1, <1>t DEF W_Take, Left, Count
  <2>2. /\ Len(Append(net, byte)) = Len(net) + 1
        /\ \A j \in 1 .. Len(net) : Append(net, byte)[j] = net[j]
        /\ Append(net, byte)[Len(net) + 1] = byte
    BY <1>t, <2>1, AppendProperties
  <2>3. net' = Append(net, byte) /\ taken' = taken + 1 /\ UNCHANGED <<base, written, got>>
    BY <1>1 DEF W_Take, Count, readerVars
  <2>4. Len(got') + Len(net') = Count'
    BY <1>t, <2>2, <2>3 DEF InOrder, Count
  <2>5. \A j \in 1 .. Len(net') : net'[j] = Len(got') + j
    BY <1>t, <2>2, <2>3 DEF InOrder, Count
  <2> QED
    BY <2>3, <2>4, <2>5 DEF InOrder
<1>2. CASE R_Fill
  <2>1. net # << >> /\ got' = Append(got, Head(net)) /\ net' = Tail(net)
        /\ UNCHANGED <<base, written, taken>>
    BY <1>2 DEF R_Fill, writerVars
  <2>2. /\ Head(net) \in 1 .. Size /\ Len(Tail(net)) = Len(net) - 1
        /\ \A i \in 1 .. Len(Tail(net)) : Tail(net)[i] = net[i + 1]
    BY <1>t, <2>1, HeadTailProperties
  <2>3. Len(net) >= 1 /\ Head(net) = net[1]
    BY <1>t, <2>1, EmptySeq
  <2>4. /\ Len(Append(got, Head(net))) = Len(got) + 1
        /\ \A i \in 1 .. Len(got) : Append(got, Head(net))[i] = got[i]
        /\ Append(got, Head(net))[Len(got) + 1] = Head(net)
    BY <1>t, <2>2, AppendProperties
  <2>5. Head(net) = Len(got) + 1
    BY <1>t, <2>3 DEF InOrder
  <2>6. \A i \in 1 .. Len(got') : got'[i] = i
    BY <1>t, <2>1, <2>4, <2>5 DEF InOrder
  <2>7. \A j \in 1 .. Len(net') : net'[j] = Len(got') + j
    <3> SUFFICES ASSUME NEW j \in 1 .. Len(net') PROVE net'[j] = Len(got') + j
      OBVIOUS
    <3>1. j \in Int /\ j + 1 \in 1 .. Len(net)
      BY <1>t, <2>1, <2>2
    <3>2. net'[j] = net[j + 1]
      BY <2>1, <2>2
    <3> QED
      BY <1>t, <2>1, <2>4, <3>1, <3>2 DEF InOrder
  <2>8. Len(got') + Len(net') = Count'
    <3>1. Len(got') = Len(got) + 1 /\ Len(net') = Len(net) - 1
      BY <2>1, <2>2, <2>4
    <3>2. Len(got') + Len(net') = Len(got) + Len(net)
      BY <1>t, <3>1
    <3>3. Count' = Count
      BY <2>1 DEF Count
    <3> QED
      BY <3>2, <3>3 DEF InOrder
  <2> QED
    BY <2>6, <2>7, <2>8 DEF InOrder
<1>3. CASE W_SendReturns
  <2>1. UNCHANGED <<net, got>> /\ taken' = 0
    BY <1>3 DEF W_SendReturns, readerVars
  <2>2. CASE WrittenAfter < Size - base
    <3>1. written' = written + taken /\ base' = base
      BY <1>3, <1>t, <2>2 DEF W_SendReturns, WrittenAfter
    <3> QED
      BY <1>t, <2>1, <3>1 DEF InOrder, Count
  <2>3. CASE WrittenAfter >= Size - base
    <3>1. written' = 0 /\ base' = Size
      BY <1>3, <1>t, <2>3 DEF W_SendReturns, WrittenAfter
    <3>2. base + written + taken = Size
      BY <1>t, <2>3 DEF WrittenAfter
    <3> QED
      BY <1>t, <2>1, <3>1, <3>2, SMTT(20) DEF InOrder, Count
  <2> QED
    BY <1>t, <2>2, <2>3 DEF WrittenAfter
<1>4. CASE W_Call
  <2>1. Count' = Count /\ UNCHANGED <<net, got>>
    BY <1>4, <1>t DEF W_Call, NothingUncounted, Count, readerVars
  <2> QED
    BY <2>1 DEF InOrder
<1>5. CASE W_Resume
  <2>1. Count' = Count /\ UNCHANGED <<net, got>>
    BY <1>5, <1>t DEF W_Resume, NothingUncounted, Count, readerVars
  <2> QED
    BY <2>1 DEF InOrder
<1>6. SetOption \/ Accept \/ W_SendAttempt \/ W_SendBroken \/ R_Call \/ R_Returns
        \/ R_Attempt \/ W_Goes \/ R_Goes \/ UNCHANGED vars
        => UNCHANGED <<base, written, taken, net, got>>
  BY DEF SetOption, SetTimeout, SetBlock, Accept, W_SendAttempt, W_SendBroken, R_Call,
         R_Returns, R_Attempt, W_Goes, R_Goes, vars, writerVars, readerVars
<1>7. CASE UNCHANGED <<base, written, taken, net, got>>
  BY <1>7 DEF InOrder, Count
<1> QED
  BY <1>1, <1>2, <1>3, <1>4, <1>5, <1>6, <1>7 DEF Next, WriterStep, ReaderStep

(* However often a send stops short, every byte is on its way once and in  *)
(* its place.                                                              *)
THEOREM BytesOnce == Spec => []EachByteOnce
<1>1. InOrder /\ TypeOK => EachByteOnce
  <2> SUFFICES ASSUME InOrder, TypeOK PROVE EachByteOnce
    OBVIOUS
  <2>1. /\ net \in Seq(1 .. Size) /\ got \in Seq(1 .. Size)
        /\ Len(net) \in Nat /\ Len(got) \in Nat
    BY LenProperties DEF TypeOK
  <2>2. /\ got \o net \in Seq(1 .. Size) /\ Len(got \o net) = Count
        /\ \A i \in 1 .. Count : (got \o net)[i] =
              IF i <= Len(got) THEN got[i] ELSE net[i - Len(got)]
    BY <2>1, ConcatProperties DEF InOrder
  <2>3. \A i \in 1 .. Count : (got \o net)[i] = i
    BY <2>1, <2>2 DEF InOrder
  <2>4. got \o net = [i \in 1 .. Count |-> (got \o net)[i]]
    BY <2>2, LenProperties
  <2> QED
    BY <2>3, <2>4 DEF EachByteOnce, Count
<1>2. TypeOK /\ NothingUncounted /\ InOrder /\ [Next]_vars => (NothingUncounted /\ InOrder)'
  BY UncountedStep, InOrderStep
<1> QED
  BY <1>1, <1>2, InOrderInit, SocketIOTypes, PTL DEF Spec

-----------------------------------------------------------------------------
(* Whether a socket blocks *)

(* A socket that has not been accepted is as its constructor leaves it.    *)
ModeInv ==
    /\ ModeKnown
    /\ ~accepted => kernel["reader"].block /\ told["reader"]

(* After accept nobody touches the listener, whose mode is in the claim. *)
LEMMA ModeStep == TypeOK /\ ModeInv /\ [Next]_vars => ModeInv'
<1> SUFFICES ASSUME TypeOK, ModeInv, [Next]_vars PROVE ModeInv'
  OBVIOUS
<1>t. /\ platform \in {"posix", "windows"}
      /\ kernel \in [Sockets -> [block : BOOLEAN, timeout : Nat]]
      /\ told \in [Sockets -> BOOLEAN]
  BY SocketIOAssumption DEF TypeOK
<1>1. ASSUME NEW s \in Sockets, NEW t \in Times, SetTimeout(s, t) PROVE ModeInv'
  <2>1. \A r \in Sockets : kernel'[r].block = kernel[r].block
    BY <1>1, <1>t DEF SetTimeout
  <2>2. UNCHANGED <<platform, inherits, told, accepted>>
    BY <1>1 DEF SetTimeout
  <2> QED
    BY <2>1, <2>2 DEF ModeInv, ModeKnown, Blocks, Sockets
<1>2. ASSUME NEW s \in Sockets, NEW blocks \in BOOLEAN, SetBlock(s, blocks) PROVE ModeInv'
  <2>1. \A r \in Sockets : kernel'[r].block = IF r = s THEN blocks ELSE kernel[r].block
    BY <1>2, <1>t DEF SetBlock
  <2>2. platform = "windows" =>
          \A r \in Sockets : told'[r] = IF r = s THEN blocks ELSE told[r]
    BY <1>2, <1>t DEF SetBlock, ToldAfter
  <2>3. platform # "windows" => told' = told
    BY <1>2 DEF SetBlock, ToldAfter
  <2>4. UNCHANGED <<platform, inherits, accepted>>
    BY <1>2 DEF SetBlock
  <2>5. (s = "listener" => ~accepted) /\ (s = "reader" => accepted)
    BY <1>2 DEF SetBlock, Settable
  <2>6. CASE platform # "windows"
    BY <2>1, <2>3, <2>4, <2>5, <2>6 DEF ModeInv, ModeKnown, Blocks, Sockets
  <2>7. CASE platform = "windows"
    BY <2>1, <2>2, <2>4, <2>5, <2>7 DEF ModeInv, ModeKnown, Blocks, Sockets
  <2> QED
    BY <2>6, <2>7
<1>3. CASE Accept
  <2>1. /\ \A r \in Sockets \ {"reader"} : kernel'[r] = kernel[r]
        /\ kernel'["reader"].block = IF inherits THEN kernel["listener"].block ELSE TRUE
    BY <1>3, <1>t DEF Accept, Sockets, Default
  <2>2. UNCHANGED <<platform, inherits, told>> /\ ~accepted /\ accepted'
    BY <1>3 DEF Accept
  <2> QED
    BY <2>1, <2>2, <1>t DEF ModeInv, ModeKnown, Blocks, Sockets
<1>4. CASE UNCHANGED options
  BY <1>4 DEF options, ModeInv, ModeKnown, Blocks
<1>5. W_Call \/ WriterStep \/ W_Resume \/ R_Call \/ ReaderStep \/ W_Goes \/ R_Goes
        \/ UNCHANGED vars => UNCHANGED options
  BY DEF W_Call, WriterStep, W_Take, W_SendReturns, W_SendAttempt, W_SendBroken, W_Resume,
         R_Call, ReaderStep, R_Fill, R_Returns, R_Attempt, W_Goes, R_Goes, vars
<1> QED
  BY <1>1, <1>2, <1>3, <1>4, <1>5 DEF Next, SetOption

(* CBlock tells the truth, but for a socket that Windows made non-blocking *)
(* after its listener.                                                     *)
THEOREM ModeAlwaysKnown == Spec => []ModeKnown
<1>1. Init => ModeInv
  <2> SUFFICES ASSUME Init PROVE ModeInv
    OBVIOUS
  <2>1. "reader" \in Sockets
    BY DEF Sockets
  <2>2. \A s \in Sockets : kernel[s].block = TRUE /\ told[s] = TRUE
    BY DEF Init, Default
  <2> QED
    BY <2>1, <2>2 DEF ModeInv, ModeKnown, Blocks
<1>2. ModeInv => ModeKnown
  BY DEF ModeInv
<1> QED
  BY <1>1, <1>2, ModeStep, SocketIOTypes, PTL DEF Spec

=============================================================================
