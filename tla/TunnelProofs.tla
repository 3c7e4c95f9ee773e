---------------------------- MODULE TunnelProofs ----------------------------
(***************************************************************************)
(* Theorems about the transfer tunnel, for every stream, chunk, package    *)
(* size, number of attempts and number of faults.                          *)
(*                                                                         *)
(* First the types; then the integrity of what the tunnel delivers: until  *)
(* an answer is changed on the way, and short of two timed-out reads that  *)
(* returned part of a package, the copy is a prefix of the stream          *)
(* (PrefixDelivered), and the receiving end returns what is true of it     *)
(* (ReceiverVerdictSound).  No byte is ever stored that the stream does    *)
(* not hold.                                                               *)
(*                                                                         *)
(* There is no sequence number that would tell a package from the previous *)
(* one.  What does is that never more than one package is on its way: as   *)
(* long as the receiving end is live, the only header that can be found in *)
(* the connection or in its buffer is that of the package the sending end  *)
(* holds, and none is once that package has been acknowledged.             *)
(* IntegrityInv says so phase by phase.  The phases hold under changed     *)
(* answers too; each of them lets what the receiving end has stored drift  *)
(* from what the sending end takes for stored by one package.              *)
(***************************************************************************)
EXTENDS Tunnel, TLAPS, SequenceTheorems

-----------------------------------------------------------------------------
(* Types *)

(* The cells and the values made of them have their types. *)
LEMMA CellTypes ==
    /\ Junk \in Cells /\ Zero \in Cells
    /\ \A p \in Packages : HeadCell(p) \in Cells
BY TunnelAssumption DEF Cells, Junk, Zero, HeadCell

(* The call's arguments are numbers. *)
LEMMA CallType ==
    ASSUME call \in Calls
    PROVE  /\ call \in CallRecords
           /\ call.len \in Nat /\ call.amount \in BOOLEAN /\ call.size \in Nat
BY TunnelAssumption DEF CallRecords

(* So has the second cell of the package in the sending end's buffer. *)
LEMMA TailCellType ==
    ASSUME call \in Calls, SenderTypeOK PROVE TailCell(pkg) \in Cells
BY TunnelAssumption, CallType DEF SenderTypeOK, Cells, TailCell, Packages

(* A package is never asked to hold more than its size. *)
LEMMA WantedType ==
    ASSUME call \in Calls PROVE Wanted \in 0 .. PackSize
BY TunnelAssumption, CallType DEF Wanted

(* What a channel holds after a write has the type of what it held. *)
LEMMA WrittenType ==
    ASSUME NEW S, NEW channel \in Seq(S), NEW cells \in Seq(S), NEW readerGone \in BOOLEAN
    PROVE  Written(channel, cells, readerGone) \in Seq(S)
BY DEF Written

(* The initial values have their types. *)
LEMMA InitTypeOK == Init => TypeOK
<1> SUFFICES ASSUME Init PROVE TypeOK
  OBVIOUS
<1>1. call \in Calls
  BY DEF Init
<1>2. SenderTypeOK
  <2>1. pkg \in Packages /\ pkg.from <= call.len /\ pos \in 0 .. call.len
    BY CallType, TunnelAssumption DEF Init, Packages
  <2>2. sPc \in {"fill", "write", "ack"} \cup Ended
    BY DEF Init, Ended, Returned
  <2> QED
    BY <2>1, <2>2, TunnelAssumption DEF Init, SenderTypeOK
<1>3. ReceiverTypeOK
  <2>1. rBuf \in Cells \X Cells
    BY CellTypes DEF Init
  <2>2. rPc \in {"read", "answer"} \cup Ended
    BY DEF Init, Ended, Returned
  <2> QED
    BY <2>1, <2>2, TunnelAssumption DEF Init, ReceiverTypeOK
<1>4. WireTypeOK
  <2>1. fwd \in Seq(Cells) /\ back \in Seq(Answers)
    BY DEF Init
  <2>2. damaged \in 0 .. MaxDamage /\ changed \in 0 .. MaxChanged /\ shorts \in 0 .. MaxShort
    BY TunnelAssumption DEF Init
  <2> QED
    BY <2>1, <2>2 DEF Init, WireTypeOK
<1> QED
  BY <1>1, <1>2, <1>3, <1>4 DEF TypeOK

(* A step that leaves a group of variables alone leaves its type alone. *)
LEMMA UnchangedTypes ==
    ASSUME TypeOK, UNCHANGED call
    PROVE  /\ UNCHANGED senderVars => SenderTypeOK'
           /\ UNCHANGED receiverVars => ReceiverTypeOK'
           /\ UNCHANGED <<wire, sClosed, rClosed, reset, faultVars>> => WireTypeOK'
BY DEF TypeOK, SenderTypeOK, ReceiverTypeOK, WireTypeOK, senderVars, receiverVars,
       wire, faultVars

(* An answer is put on the wire as it is, or changed and counted. *)
LEMMA Answering ==
    ASSUME R_Answer
    PROVE  \E answer \in Answers :
              /\ back' = Written(back, <<answer>>, sClosed)
              /\ changed' = IF answer = ImReady THEN changed ELSE changed + 1
BY DEF R_Answer

(* The sending end's steps keep every variable within its type. *)
LEMMA SenderKeepsTypes == ASSUME TypeOK, Sender PROVE TypeOK'
<1> USE DEF TypeOK
<1>1. CASE S_Fill
  <2>1. call' = call
    BY <1>1 DEF S_Fill
  <2>2. ReceiverTypeOK' /\ WireTypeOK'
    BY <1>1, <2>1, UnchangedTypes DEF S_Fill
  <2>3. /\ pkg'.from = pos /\ pkg' \in Packages
        /\ pos + pkg'.size <= call.len
    <3> DEFINE left == call.len - pos
               got  == IF left < Wanted THEN left ELSE Wanted
    <3>1. left \in Nat /\ pos \in Nat
      BY CallType DEF SenderTypeOK
    <3>2. got \in 0 .. PackSize /\ got <= left
      BY <3>1, WantedType, TunnelAssumption
    <3>3. CASE pkg' = [from |-> pos, size |-> got, eof |-> got < Wanted]
      <4> HIDE DEF got
      <4> QED
        BY <3>1, <3>2, <3>3, CallType DEF Packages
    <3>4. CASE pkg' = [from |-> pos, size |-> 0, eof |-> FALSE]
      BY <3>1, <3>4, CallType, TunnelAssumption DEF Packages, SenderTypeOK
    <3> QED
      BY <1>1, <3>3, <3>4 DEF S_Fill
  <2> QED
    BY <1>1, <2>1, <2>2, <2>3, CallType, TunnelAssumption
       DEF S_Fill, SenderTypeOK, Packages
<1>2. CASE S_Write
  <2>1. call' = call /\ ReceiverTypeOK'
    BY <1>2, UnchangedTypes DEF S_Write
  <2>2. SenderTypeOK'
    BY <1>2, <2>1 DEF S_Write, SenderTypeOK
  <2>3. fwd' \in Seq(Cells)
    <3>1. PICK head \in {HeadCell(pkg), Junk}, tail \in {TailCell(pkg), Junk} :
                fwd' = Written(fwd, <<head, tail>>, rClosed)
      BY <1>2 DEF S_Write
    <3>2. head \in Cells /\ tail \in Cells
      BY CellTypes, TailCellType DEF SenderTypeOK
    <3>3. <<head, tail>> \in Seq(Cells)
      BY <3>2
    <3> QED
      BY <3>1, <3>3, WrittenType DEF WireTypeOK
  <2>4. damaged' \in 0 .. MaxDamage
    BY <1>2, TunnelAssumption DEF S_Write, WireTypeOK
  <2> QED
    BY <1>2, <2>1, <2>2, <2>3, <2>4 DEF S_Write, WireTypeOK
<1>3. CASE S_WriteThrow
  <2>1. call' = call /\ ReceiverTypeOK'
    BY <1>3, UnchangedTypes DEF S_WriteThrow
  <2>2. SenderTypeOK'
    BY <1>3, <2>1 DEF S_WriteThrow, SenderTypeOK, Ended, Failed
  <2>3. fwd' \in Seq(Cells)
    <3>1. HeadCell(pkg) \in Cells
      BY CellTypes DEF SenderTypeOK
    <3>2. <<HeadCell(pkg)>> \in Seq(Cells)
      BY <3>1
    <3>3. Written(fwd, <<HeadCell(pkg)>>, rClosed) \in Seq(Cells)
      BY <3>2, WrittenType DEF WireTypeOK
    <3> QED
      BY <1>3, <3>3 DEF S_WriteThrow, WireTypeOK
  <2> QED
    BY <1>3, <2>1, <2>2, <2>3 DEF S_WriteThrow, WireTypeOK, faultVars
<1>4. ASSUME NEW answer \in Answers, S_Decide(answer), sPc = "ack"
      PROVE  call' = call /\ ReceiverTypeOK' /\ SenderTypeOK'
  <2>1. call' = call /\ ReceiverTypeOK'
    BY <1>4, UnchangedTypes DEF S_Decide
  <2>2. AfterApprove \in {"fill"} \cup Ended
    BY DEF AfterApprove, Ended, Returned
  <2>3. sPc' \in {"fill", "write"} \cup Ended
    BY <1>4, <2>2 DEF S_Decide, Ended, Failed
  <2>4. packs' \in Nat /\ sAttempts' \in 0 .. Attempts
    BY <1>4, TunnelAssumption DEF S_Decide, S_GivesUp, SenderTypeOK
  <2> QED
    BY <1>4, <2>1, <2>3, <2>4 DEF S_Decide, SenderTypeOK
<1>5. CASE S_ReadAnswer
  <2>1. Head(back) \in Answers /\ back' \in Seq(Answers)
    BY <1>5 DEF S_ReadAnswer, WireTypeOK
  <2> QED
    BY <1>4, <1>5, <2>1 DEF S_ReadAnswer, S_Decide, WireTypeOK, faultVars
<1>6. CASE S_ReadNothing
  BY <1>4, <1>6 DEF S_ReadNothing, S_Decide, WireTypeOK, faultVars
<1>7. CASE S_ReadThrow
  <2>1. call' = call /\ ReceiverTypeOK' /\ WireTypeOK'
    BY <1>7, UnchangedTypes DEF S_ReadThrow
  <2> QED
    BY <1>7, <2>1 DEF S_ReadThrow, SenderTypeOK, Ended, Failed
<1> QED
  BY <1>1, <1>2, <1>3, <1>5, <1>6, <1>7 DEF Sender

(* So do the receiving end's steps. *)
LEMMA ReceiverKeepsTypes == ASSUME TypeOK, Receiver PROVE TypeOK'
<1> USE DEF TypeOK
<1>1. CASE R_Read
  <2>1. call' = call /\ SenderTypeOK'
    BY <1>1, UnchangedTypes DEF R_Read
  <2>2. rBuf' \in Cells \X Cells /\ fwd' \in Seq(Cells)
    BY <1>1 DEF R_Read, WireTypeOK
  <2> QED
    BY <1>1, <2>1, <2>2 DEF R_Read, ReceiverTypeOK, WireTypeOK, faultVars
<1>2. CASE R_ReadTimedOut
  <2>1. call' = call /\ SenderTypeOK'
    BY <1>2, UnchangedTypes DEF R_ReadTimedOut
  <2>2. rBuf' \in Cells \X Cells /\ fwd' \in Seq(Cells)
    BY <1>2 DEF R_ReadTimedOut, WireTypeOK, ReceiverTypeOK
  <2>3. shorts' \in 0 .. MaxShort
    BY <1>2, TunnelAssumption DEF R_ReadTimedOut, WireTypeOK
  <2> QED
    BY <1>2, <2>1, <2>2, <2>3 DEF R_ReadTimedOut, ReceiverTypeOK, WireTypeOK
<1>3. CASE R_ReadToFin
  <2>1. call' = call /\ SenderTypeOK'
    BY <1>3, UnchangedTypes DEF R_ReadToFin
  <2>2. rBuf' \in Cells \X Cells /\ fwd' \in Seq(Cells)
    BY <1>3 DEF R_ReadToFin, WireTypeOK, ReceiverTypeOK
  <2> QED
    BY <1>3, <2>1, <2>2 DEF R_ReadToFin, ReceiverTypeOK, WireTypeOK, faultVars
<1>4. CASE R_ReadThrow
  <2>1. call' = call /\ SenderTypeOK' /\ WireTypeOK'
    BY <1>4, UnchangedTypes DEF R_ReadThrow
  <2> QED
    BY <1>4, <2>1 DEF R_ReadThrow, ReceiverTypeOK, Ended, Failed
<1>5. CASE R_Answer
  <2>1. call' = call /\ SenderTypeOK'
    BY <1>5, UnchangedTypes DEF R_Answer
  <2>2. back' \in Seq(Answers)
    <3>1. PICK answer \in Answers : back' = Written(back, <<answer>>, sClosed)
      BY <1>5, Answering
    <3>2. <<answer>> \in Seq(Answers)
      OBVIOUS
    <3> QED
      BY <3>1, <3>2, WrittenType DEF WireTypeOK
  <2>3. rBuf' \in Cells \X Cells
    BY <1>5, CellTypes DEF R_Answer, Spent, ReceiverTypeOK
  <2>4. /\ rPc' \in {"read", "answer"} \cup Ended /\ rAttempts' \in 0 .. Attempts
        /\ received' \in Nat /\ out' \in Seq(Nat) /\ disk' \in {"good", "bad"}
    <3>1. CASE Intact(rBuf)
      <4>1. Size(rBuf) \in Nat
        BY TunnelAssumption DEF ReceiverTypeOK, Size, Cells, Packages
      <4>2. Payload(rBuf) \in Seq(Nat)
        <5>1. \A i \in 1 .. Size(rBuf) : Payload(rBuf)[i] \in Nat
          BY <4>1 DEF Payload, ReceiverTypeOK, Size, Cells, Packages
        <5> QED
          BY <4>1, <5>1 DEF Payload
      <4>3. out' \in Seq(Nat) /\ disk' \in {"good", "bad"}
        <5>1. Store(Payload(rBuf))
          BY <1>5, <3>1 DEF R_Answer
        <5>2. out \in Seq(Nat) /\ out \o Payload(rBuf) \in Seq(Nat)
          BY <4>2 DEF ReceiverTypeOK
        <5>3. \A n \in 0 .. Len(Payload(rBuf)) :
                 out \o SubSeq(Payload(rBuf), 1, n) \in Seq(Nat)
          BY <4>2, <5>2
        <5> QED
          BY <5>1, <5>2, <5>3 DEF Store, ReceiverTypeOK
      <4>4. AfterPackage(received + Size(rBuf)) \in {"read"} \cup Ended
        BY DEF AfterPackage, Ended, Returned
      <4> QED
        BY <1>5, <3>1, <4>1, <4>3, <4>4, TunnelAssumption DEF R_Answer, ReceiverTypeOK
    <3>2. CASE ~Intact(rBuf)
      BY <1>5, <3>2, TunnelAssumption
         DEF R_Answer, R_GivesUp, ReceiverTypeOK, Ended, Failed
    <3> QED
      BY <3>1, <3>2
  <2>5. changed' \in 0 .. MaxChanged
    <3>1. changed' \in {changed, changed + 1} /\ changed' <= MaxChanged
      BY <1>5 DEF R_Answer
    <3> QED
      BY <3>1, TunnelAssumption DEF WireTypeOK
  <2> QED
    BY <1>5, <2>1, <2>2, <2>3, <2>4, <2>5 DEF R_Answer, ReceiverTypeOK, WireTypeOK
<1>6. CASE R_AnswerThrow
  <2>1. call' = call /\ SenderTypeOK' /\ WireTypeOK'
    BY <1>6, UnchangedTypes DEF R_AnswerThrow
  <2> QED
    BY <1>6, <2>1 DEF R_AnswerThrow, ReceiverTypeOK, Ended, Failed
<1> QED
  BY <1>1, <1>2, <1>3, <1>4, <1>5, <1>6 DEF Receiver

(* So do closing a socket and the environment's steps. *)
LEMMA EnvironmentKeepsTypes ==
    ASSUME TypeOK, S_Close \/ R_Close \/ Reset \/ Vanish PROVE TypeOK'
<1>1. CASE S_Close \/ R_Close \/ Reset
  <2>1. SenderTypeOK' /\ ReceiverTypeOK'
    BY <1>1, UnchangedTypes DEF S_Close, R_Close, Reset
  <2> QED
    BY <1>1, <2>1 DEF S_Close, R_Close, Reset, TypeOK, WireTypeOK, wire, faultVars
<1>2. CASE Vanish
  BY <1>2 DEF Vanish, TypeOK, SenderTypeOK, ReceiverTypeOK, WireTypeOK, wire, faultVars,
              Ended, Failed
<1> QED
  BY <1>1, <1>2

(* Every reachable state is type-correct. *)
THEOREM TypeCorrect == Spec => []TypeOK
<1>1. ASSUME TypeOK, Next PROVE TypeOK'
  BY <1>1, SenderKeepsTypes, ReceiverKeepsTypes, EnvironmentKeepsTypes DEF Next
<1>2. ASSUME TypeOK, UNCHANGED vars PROVE TypeOK'
  BY <1>2, UnchangedTypes DEF vars, TypeOK, wire, faultVars
<1> QED
  BY InitTypeOK, <1>1, <1>2, PTL DEF Spec

-----------------------------------------------------------------------------
(* The inductive invariant *)

(* The sending end's position in its stream and its count of packages.     *)
EofInv  == pkg.eof => stream = "eof" /\ pkg.from + pkg.size = call.len
FillInv == sPc = "fill" => stream = "good"
PosInv  == pos = pkg.from + pkg.size
ChunkInv ==
    call.amount =>
        /\ pos <= call.size
        /\ sPc = "fill" => packs < NumPacks /\ pos <= packs * PackSize
        /\ sPc \in {"write", "ack"} => packs < NumPacks /\ pos <= packs * PackSize + PackSize

StreamInv == EofInv /\ FillInv /\ PosInv /\ ChunkInv

(* What each end knows by itself: the buffer a read finds has no header,   *)
(* and a socket is closed only after the call.                             *)
LocalInv ==
    /\ rPc = "read" => rBuf[1].kind # "head"
    /\ sClosed => sPc \in Ended
    /\ rClosed => rPc \in Ended

(* A header, wherever it is found, is that of a package of the stream. *)
OfStream(cell) == cell.kind = "head" => cell.pkg.from + cell.pkg.size <= call.len

HeadsInv ==
    /\ \A i \in 1 .. Len(fwd) : OfStream(fwd[i])
    /\ OfStream(rBuf[1])

Live == rPc \in {"read", "answer"}

(* As far from n as the changed answers may have put the receiving end:    *)
(* one package each.                                                       *)
Drift     == changed * PackSize
Around(n) == (n - Drift) .. (n + Drift)

(* Whether the package in the sending end's buffer has been stored.  With  *)
(* no answer changed this is exact.                                        *)
Delivered   == received \in Around(pos)
Undelivered == received \in Around(pkg.from)

NoHeads(s) == \A i \in 1 .. Len(s) : s[i].kind # "head"

OwnHeadAt(s, n) ==
    \A i \in 1 .. Len(s) : s[i].kind = "head" => i = n /\ s[i] = HeadCell(pkg)

OwnBuffer == rBuf[1].kind = "head" => rBuf[1] = HeadCell(pkg)

(* Nothing is on its way but a cell left behind by a short read, *)
Idle == back = << >> /\ rPc = "read" /\ Len(fwd) = shorts /\ NoHeads(fwd)

(* or a package is, *)
Sent ==
    /\ back = << >> /\ rPc = "read" /\ Undelivered
    /\ Len(fwd) = shorts + 2 /\ OwnHeadAt(fwd, shorts + 1) /\ fwd[shorts + 1] # Zero

(* or has been read, *)
Arrived ==
    /\ back = << >> /\ rPc = "answer" /\ Undelivered
    /\ Len(fwd) = shorts /\ NoHeads(fwd)
    /\ OwnBuffer /\ rBuf # <<Zero, Zero>>

(* or has been answered, *)
Answered ==
    /\ Len(back) = 1 /\ rPc = "read" /\ Len(fwd) = shorts /\ NoHeads(fwd)
    /\ IF back[1] = "APPROVE" THEN Delivered ELSE Undelivered

(* or may be found by the receiving end after the sending end has ended.   *)
LeftOver ==
    /\ Delivered \/ Undelivered
    /\ NoHeads(fwd) \/ (Undelivered /\ rPc = "read" /\ OwnHeadAt(fwd, shorts + 1))
    /\ (rPc = "answer" /\ rBuf[1].kind = "head") => Undelivered /\ OwnBuffer

Phase ==
    /\ sPc = "fill"  => Idle /\ Delivered
    /\ sPc = "write" => Idle /\ Undelivered
    /\ sPc = "ack"   => Sent \/ Arrived \/ Answered
    /\ sPc \in Ended => LeftOver

IntegrityInv ==
    /\ StreamInv /\ LocalInv /\ HeadsInv
    /\ Framed /\ Live => Phase
    /\ PrefixDelivered /\ ReceiverVerdictSound

-----------------------------------------------------------------------------
(* Arithmetic of the package loops *)

(* A number is its quotient times the divisor and the remainder. *)
LEMMA Division ==
    ASSUME NEW n \in Nat, NEW k \in Nat \ {0}
    PROVE  /\ n \div k \in Nat /\ n % k \in 0 .. k - 1
           /\ n = (n \div k) * k + (n % k)
OBVIOUS

(* One package more than a packages is no more than b packages. *)
LEMMA OneMore ==
    ASSUME NEW a \in Nat, NEW b \in Nat, NEW k \in Nat, a < b
    PROVE  a * k + k <= b * k
OBVIOUS

(* The next package of a chunk fits into what is left of the chunk. *)
LEMMA NextPackageFits ==
    ASSUME TypeOK, ChunkInv, call.amount, sPc = "fill"
    PROVE  pos + Wanted <= call.size /\ pos + Wanted <= packs * PackSize + PackSize
<1> DEFINE q == call.size \div PackSize
           r == call.size % PackSize
<1>0. /\ call.size \in Nat /\ PackSize \in Nat \ {0}
      /\ packs \in Nat /\ pos \in Nat
  BY CallType, TunnelAssumption DEF TypeOK, SenderTypeOK
<1>1. /\ q \in Nat /\ r \in 0 .. PackSize - 1 /\ call.size = q * PackSize + r
      /\ packs \in Nat /\ pos \in Nat /\ PackSize \in Nat \ {0}
  BY <1>0, Division
<1>2. packs < NumPacks /\ pos <= packs * PackSize
  BY DEF ChunkInv
<1>3. packs * PackSize \in Nat /\ q * PackSize \in Nat
  BY <1>1
<1> HIDE DEF q, r
<1>4. CASE packs < q
  <2>1. packs * PackSize + PackSize <= q * PackSize
    BY <1>1, <1>4, OneMore
  <2>2. Wanted = PackSize
    BY <1>1, <1>4 DEF Wanted, q
  <2> QED
    BY <1>1, <1>2, <1>3, <2>1, <2>2
<1>5. CASE packs >= q
  <2>1. Wanted = r
    BY <1>1, <1>5 DEF Wanted, q, r
  <2>2. packs = q
    BY <1>1, <1>2, <1>5 DEF NumPacks, q
  <2> QED
    BY <1>1, <1>2, <1>3, <2>1, <2>2
<1> QED
  BY <1>1, <1>4, <1>5

(* A chunk that is not empty has a package. *)
LEMMA SomePackage ==
    ASSUME call \in Calls, call.size # 0 PROVE NumPacks > 0
<1> DEFINE q == call.size \div PackSize
           r == call.size % PackSize
<1>1. call.size \in Nat /\ PackSize \in Nat \ {0}
  BY CallType, TunnelAssumption
<1>2. q \in Nat /\ r \in 0 .. PackSize - 1 /\ call.size = q * PackSize + r
  BY <1>1, Division
<1>3. NumPacks = q + (IF r = 0 THEN 0 ELSE 1)
  BY DEF NumPacks
<1> HIDE DEF q, r
<1>4. CASE q = 0
  BY <1>1, <1>2, <1>3, <1>4
<1>5. CASE q # 0
  BY <1>2, <1>3, <1>5
<1> QED
  BY <1>4, <1>5

-----------------------------------------------------------------------------
(* StreamInv and LocalInv are invariant on their own *)

(* The sending end keeps to its stream and its chunk. *)
LEMMA StreamStep == ASSUME TypeOK, StreamInv, [Next]_vars PROVE StreamInv'
<1>1. CASE S_Fill
  <2> DEFINE left == call.len - pos
             got  == IF left < Wanted THEN left ELSE Wanted
  <2>1. /\ left \in Nat /\ pos \in Nat /\ call.len \in Nat
        /\ Wanted \in Nat /\ got \in Nat /\ got <= Wanted
    BY CallType, WantedType, TunnelAssumption DEF TypeOK, SenderTypeOK
  <2>2. \/ pkg' = [from |-> pos, size |-> got, eof |-> got < Wanted]
           /\ stream' = IF got < Wanted THEN "eof" ELSE "good"
        \/ pkg' = [from |-> pos, size |-> 0, eof |-> FALSE]
    BY <1>1 DEF S_Fill
  <2>3. EofInv'
    <3>1. got < Wanted => pos + got = call.len
      BY <2>1
    <3>2. call' = call
      BY <1>1 DEF S_Fill
    <3>3. CASE /\ pkg' = [from |-> pos, size |-> got, eof |-> got < Wanted]
               /\ stream' = IF got < Wanted THEN "eof" ELSE "good"
      <4>1. pkg'.from = pos /\ pkg'.size = got /\ pkg'.eof = (got < Wanted)
        BY <3>3
      <4> HIDE DEF got
      <4> QED
        BY <3>1, <3>2, <3>3, <4>1 DEF EofInv
    <3>4. CASE pkg' = [from |-> pos, size |-> 0, eof |-> FALSE]
      BY <3>4 DEF EofInv
    <3> QED
      BY <2>2, <3>3, <3>4
  <2>4. FillInv'
    BY <1>1 DEF S_Fill, FillInv
  <2>5. ChunkInv'
    <3>1. pos' <= pos + Wanted /\ pos' \in Nat
      <4> HIDE DEF got
      <4> QED
        BY <1>1, <2>1, <2>2 DEF S_Fill
    <3>2. call' = call /\ packs' = packs /\ NumPacks' = NumPacks /\ sPc' = "write" /\ sPc = "fill"
      BY <1>1 DEF S_Fill, NumPacks
    <3>3. call.amount => /\ pos + Wanted <= call.size
                         /\ pos + Wanted <= packs * PackSize + PackSize
      BY <3>2, NextPackageFits DEF StreamInv
    <3>4. /\ packs * PackSize + PackSize \in Nat /\ call.size \in Nat
          /\ pos + Wanted \in Nat
      BY <2>1, CallType, TunnelAssumption DEF TypeOK, SenderTypeOK
    <3>5. call.amount => pos' <= call.size /\ pos' <= packs * PackSize + PackSize
      BY <3>1, <3>3, <3>4
    <3> QED
      BY <3>2, <3>5 DEF ChunkInv, StreamInv
  <2>6. PosInv'
    <3>1. pkg'.from = pos /\ pos' = pos + pkg'.size
      BY <1>1 DEF S_Fill
    <3> QED
      BY <3>1 DEF PosInv
  <2> QED
    BY <2>3, <2>4, <2>5, <2>6 DEF StreamInv
<1>2. ASSUME NEW answer \in Answers, S_Decide(answer), sPc = "ack"
      PROVE  StreamInv'
  <2>1. EofInv' /\ PosInv' /\ NumPacks' = NumPacks
    BY <1>2 DEF S_Decide, StreamInv, EofInv, PosInv, NumPacks
  <2>2. FillInv'
    BY <1>2 DEF S_Decide, AfterApprove, FillInv
  <2>3. ChunkInv'
    <3>1. CASE answer = "APPROVE"
      <4>1. packs' = packs + 1 /\ sPc' = AfterApprove /\ pos' = pos /\ call' = call
        BY <1>2, <3>1 DEF S_Decide
      <4>2. /\ packs \in Nat /\ PackSize \in Nat /\ NumPacks \in Nat
        <5>1. /\ call.size \div PackSize \in Nat /\ packs \in Nat /\ PackSize \in Nat
          BY CallType, TunnelAssumption, Division DEF TypeOK, SenderTypeOK
        <5> QED
          BY <5>1 DEF NumPacks
      <4>3. packs' * PackSize = packs * PackSize + PackSize
        BY <4>1, <4>2
      <4>4. (call.amount /\ sPc' = "fill") => packs + 1 # NumPacks
        BY <4>1 DEF AfterApprove
      <4>5. sPc' \notin {"write", "ack"}
        BY <4>1 DEF AfterApprove
      <4> QED
        BY <1>2, <2>1, <4>1, <4>2, <4>3, <4>4, <4>5 DEF ChunkInv, StreamInv
    <3>2. CASE answer # "APPROVE"
      BY <1>2, <2>1, <3>2 DEF S_Decide, S_GivesUp, ChunkInv, StreamInv
    <3> QED
      BY <3>1, <3>2
  <2> QED
    BY <2>1, <2>2, <2>3 DEF StreamInv
<1>3. CASE S_ReadAnswer
  BY <1>2, <1>3 DEF S_ReadAnswer, TypeOK, WireTypeOK
<1>4. CASE S_ReadNothing
  BY <1>2, <1>4 DEF S_ReadNothing
<1>5. CASE UNCHANGED <<call, stream, pos, packs, pkg>> /\ sPc' \in {sPc, "ack"} \cup Ended
           /\ (sPc' = "ack" => sPc \in {"write", "ack"})
  <2>1. NumPacks' = NumPacks
    BY <1>5 DEF NumPacks
  <2>2. "fill" \notin Ended /\ "write" \notin Ended /\ "ack" \notin Ended
    BY DEF Ended, Returned, Failed
  <2>3. EofInv' /\ FillInv' /\ PosInv'
    BY <1>5, <2>2 DEF StreamInv, EofInv, FillInv, PosInv
  <2>4. ChunkInv'
    BY <1>5, <2>1, <2>2 DEF StreamInv, ChunkInv
  <2> QED
    BY <2>3, <2>4 DEF StreamInv
<1>6. ASSUME S_Write \/ S_WriteThrow \/ S_ReadThrow \/ Receiver \/ S_Close \/ R_Close
               \/ Reset \/ Vanish \/ UNCHANGED vars
      PROVE  /\ UNCHANGED <<call, stream, pos, packs, pkg>> /\ sPc' \in {sPc, "ack"} \cup Ended
             /\ (sPc' = "ack" => sPc \in {"write", "ack"})
  <2>1. CASE S_Write \/ S_WriteThrow \/ S_ReadThrow \/ Vanish
    BY <2>1 DEF S_Write, S_WriteThrow, S_ReadThrow, Vanish, Ended, Failed
  <2>2. CASE Receiver \/ S_Close \/ R_Close \/ Reset \/ UNCHANGED vars
    BY <2>2 DEF Receiver, R_Read, R_ReadTimedOut, R_ReadToFin, R_ReadThrow, R_Answer,
                R_AnswerThrow, S_Close, R_Close, Reset, vars, senderVars
  <2> QED
    BY <1>6, <2>1, <2>2
<1> QED
  BY <1>1, <1>3, <1>4, <1>5, <1>6 DEF Next, Sender

(* What is written, or read, is of the stream if what was there is. *)
LEMMA HeadsStep ==
    ASSUME TypeOK, StreamInv, HeadsInv, [Next]_vars PROVE HeadsInv'
<1>0. fwd \in Seq(Cells) /\ rBuf \in Cells \X Cells
  BY DEF TypeOK, WireTypeOK, ReceiverTypeOK
<1>1. CASE UNCHANGED <<call, fwd, rBuf>>
  BY <1>1 DEF HeadsInv, OfStream
<1>2. ASSUME UNCHANGED <<call, rBuf>>, NEW w \in Seq(Cells),
             \A i \in 1 .. Len(w) : w[i] = HeadCell(pkg) \/ w[i].kind # "head",
             fwd' = fwd \o w \/ fwd' = w
      PROVE  HeadsInv'
  <2>1. pkg.from + pkg.size <= call.len
    BY DEF TypeOK, SenderTypeOK, StreamInv, PosInv
  <2>2. \A i \in 1 .. Len(w) : OfStream(w[i])
    BY <1>2, <2>1 DEF OfStream, HeadCell
  <2>3. \A i \in 1 .. Len(fwd') : OfStream(fwd'[i])
    <3>1. CASE fwd' = fwd \o w
      <4>1. \A i \in 1 .. Len(fwd') : \/ i \in 1 .. Len(fwd) /\ fwd'[i] = fwd[i]
                                      \/ i - Len(fwd) \in 1 .. Len(w) /\ fwd'[i] = w[i - Len(fwd)]
        BY <1>0, <1>2, <3>1
      <4> QED
        BY <2>2, <4>1 DEF HeadsInv
    <3>2. CASE fwd' = w
      BY <2>2, <3>2
    <3> QED
      BY <1>2, <3>1, <3>2
  <2> QED
    BY <1>2, <2>3 DEF HeadsInv, OfStream
<1>3. CASE S_Write
  <2>1. PICK head \in {HeadCell(pkg), Junk}, tail \in {TailCell(pkg), Junk} :
              fwd' = Written(fwd, <<head, tail>>, rClosed)
    BY <1>3 DEF S_Write
  <2>2. head \in Cells /\ tail \in Cells
    BY CellTypes, TailCellType DEF TypeOK, SenderTypeOK
  <2>3. UNCHANGED <<call, rBuf>>
    BY <1>3 DEF S_Write, receiverVars
  <2>4. \A i \in 1 .. 2 : <<head, tail>>[i] = HeadCell(pkg) \/ <<head, tail>>[i].kind # "head"
    BY DEF Junk, HeadCell, TailCell
  <2>5. <<head, tail>> \in Seq(Cells) /\ Len(<<head, tail>>) = 2
    BY <2>2
  <2> QED
    BY <1>2, <2>1, <2>3, <2>4, <2>5 DEF Written
<1>4. CASE S_WriteThrow
  <2>1. UNCHANGED <<call, rBuf>>
    BY <1>4 DEF S_WriteThrow, receiverVars
  <2>2. <<HeadCell(pkg)>> \in Seq(Cells) /\ Len(<<HeadCell(pkg)>>) = 1
    BY CellTypes DEF TypeOK, SenderTypeOK
  <2>3. fwd' = fwd \/ fwd' = fwd \o <<HeadCell(pkg)>> \/ fwd' = <<HeadCell(pkg)>>
    BY <1>4 DEF S_WriteThrow, Written
  <2>4. \A i \in 1 .. 1 : <<HeadCell(pkg)>>[i] = HeadCell(pkg)
    OBVIOUS
  <2> QED
    BY <1>1, <1>2, <2>1, <2>2, <2>3, <2>4
<1>5. CASE S_Fill \/ S_ReadAnswer \/ S_ReadNothing \/ S_ReadThrow
  BY <1>1, <1>5 DEF S_Fill, S_ReadAnswer, S_ReadNothing, S_ReadThrow, S_Decide,
                    receiverVars, wire
<1>6. ASSUME call' = call, NEW n \in Nat,
             fwd' = << >> \/ (n <= Len(fwd) /\ Len(fwd') = Len(fwd) - n
                               /\ \A i \in 1 .. Len(fwd) - n : fwd'[i] = fwd[i + n]),
             rBuf'[1] = rBuf[1] \/ (Len(fwd) >= 1 /\ rBuf'[1] = fwd[1])
      PROVE  HeadsInv'
  <2>1. \A i \in 1 .. Len(fwd') : OfStream(fwd'[i])
    <3>1. CASE fwd' = << >>
      BY <3>1
    <3>2. CASE n <= Len(fwd) /\ Len(fwd') = Len(fwd) - n
                 /\ \A i \in 1 .. Len(fwd) - n : fwd'[i] = fwd[i + n]
      <4>1. \A i \in 1 .. Len(fwd') : i + n \in 1 .. Len(fwd) /\ fwd'[i] = fwd[i + n]
        BY <1>0, <3>2
      <4> QED
        BY <4>1 DEF HeadsInv
    <3> QED
      BY <1>6, <3>1, <3>2
  <2>2. OfStream(rBuf'[1])
    <3>1. Len(fwd) >= 1 => 1 \in 1 .. Len(fwd)
      BY <1>0
    <3> QED
      BY <1>6, <3>1 DEF HeadsInv
  <2> QED
    BY <1>6, <2>1, <2>2 DEF HeadsInv, OfStream
<1>7. CASE R_Read
  <2>1. /\ call' = call /\ Len(fwd) >= 2 /\ rBuf'[1] = fwd[1]
        /\ fwd' = SubSeq(fwd, 3, Len(fwd))
    BY <1>7 DEF R_Read
  <2>2. Len(fwd') = Len(fwd) - 2 /\ \A i \in 1 .. Len(fwd) - 2 : fwd'[i] = fwd[i + 2]
    BY <1>0, <2>1
  <2> QED
    BY <1>0, <1>6, <2>1, <2>2
<1>8. CASE R_ReadTimedOut
  <2>1. call' = call /\ Len(fwd) >= 1 /\ rBuf'[1] = fwd[1] /\ fwd' = Tail(fwd)
    BY <1>8 DEF R_ReadTimedOut
  <2>2. Len(fwd') = Len(fwd) - 1 /\ \A i \in 1 .. Len(fwd) - 1 : fwd'[i] = fwd[i + 1]
    BY <1>0, <2>1
  <2> QED
    BY <1>0, <1>6, <2>1, <2>2
<1>9. CASE R_ReadToFin
  <2>1. /\ call' = call /\ fwd' = << >>
        /\ rBuf'[1] = rBuf[1] \/ (fwd # << >> /\ rBuf'[1] = fwd[1])
    BY <1>9 DEF R_ReadToFin
  <2>2. fwd # << >> => Len(fwd) >= 1
    BY <1>0
  <2> QED
    BY <1>6, <2>1, <2>2
<1>10. CASE R_Answer
  <2>1. UNCHANGED <<call, fwd>> /\ rBuf' = Spent(rBuf)
    BY <1>10 DEF R_Answer
  <2>2. OfStream(rBuf'[1])
    BY <2>1 DEF HeadsInv, Spent, OfStream, Junk
  <2> QED
    BY <2>1, <2>2 DEF HeadsInv, OfStream
<1>11. CASE R_ReadThrow \/ R_AnswerThrow
  BY <1>1, <1>11 DEF R_ReadThrow, R_AnswerThrow, wire
<1>12. CASE S_Close \/ R_Close \/ Reset \/ Vanish \/ UNCHANGED vars
  BY <1>1, <1>12 DEF S_Close, R_Close, Reset, Vanish, vars, receiverVars, wire
<1> QED
  BY <1>3, <1>4, <1>5, <1>7, <1>8, <1>9, <1>10, <1>11, <1>12 DEF Next, Sender, Receiver

(* Each end keeps its own bookkeeping. *)
LEMMA LocalStep == ASSUME TypeOK, LocalInv, [Next]_vars PROVE LocalInv'
<1>1. (rPc' = "read") => rBuf'[1].kind # "head"
  <2>1. CASE R_Answer
    BY <2>1 DEF R_Answer, Spent, Junk
  <2>2. CASE R_Read \/ R_ReadTimedOut \/ R_ReadToFin \/ R_ReadThrow \/ R_AnswerThrow
    BY <2>2 DEF R_Read, R_ReadTimedOut, R_ReadToFin, R_ReadThrow, R_AnswerThrow
  <2>3. CASE Sender \/ S_Close \/ R_Close \/ Reset \/ UNCHANGED vars
    BY <2>3 DEF Sender, S_Fill, S_Write, S_WriteThrow, S_ReadAnswer, S_ReadNothing,
                S_ReadThrow, S_Decide, S_Close, R_Close, Reset, vars, receiverVars, LocalInv
  <2>4. CASE Vanish
    BY <2>4 DEF Vanish, LocalInv
  <2> QED
    BY <2>1, <2>2, <2>3, <2>4 DEF Next, Receiver
<1>2. sClosed' => sPc' \in Ended
  <2>1. CASE Sender
    BY <2>1 DEF Sender, S_Fill, S_Write, S_WriteThrow, S_ReadAnswer, S_ReadNothing,
                S_ReadThrow, S_Decide, LocalInv, Ended, Returned, Failed
  <2>2. CASE Receiver \/ R_Close \/ Reset \/ UNCHANGED vars
    BY <2>2 DEF Receiver, R_Read, R_ReadTimedOut, R_ReadToFin, R_ReadThrow, R_Answer,
                R_AnswerThrow, R_Close, Reset, vars, senderVars, LocalInv
  <2>3. CASE S_Close \/ Vanish
    BY <2>3 DEF S_Close, Vanish, senderVars, LocalInv, Ended, Failed
  <2> QED
    BY <2>1, <2>2, <2>3 DEF Next
<1>3. rClosed' => rPc' \in Ended
  <2>1. CASE Receiver
    BY <2>1 DEF Receiver, R_Read, R_ReadTimedOut, R_ReadToFin, R_ReadThrow, R_Answer,
                R_AnswerThrow, LocalInv, Ended, Returned, Failed
  <2>2. CASE Sender \/ S_Close \/ Reset \/ UNCHANGED vars
    BY <2>2 DEF Sender, S_Fill, S_Write, S_WriteThrow, S_ReadAnswer, S_ReadNothing,
                S_ReadThrow, S_Decide, S_Close, Reset, vars, receiverVars, LocalInv
  <2>3. CASE R_Close \/ Vanish
    BY <2>3 DEF R_Close, Vanish, receiverVars, LocalInv, Ended, Failed
  <2> QED
    BY <2>1, <2>2, <2>3 DEF Next
<1> QED
  BY <1>1, <1>2, <1>3 DEF LocalInv

-----------------------------------------------------------------------------
(* The phases *)

(* Only a header is a header. *)
LEMMA Kinds ==
    /\ Junk.kind # "head" /\ Zero.kind # "head" /\ Junk # Zero
    /\ \A p : HeadCell(p).kind = "head" /\ HeadCell(p) # Zero /\ TailCell(p).kind # "head"
BY DEF Junk, Zero, HeadCell, TailCell

(* A call that has ended is at no other place. *)
LEMMA Pcs ==
    /\ {"fill", "write", "ack", "read", "answer"} \cap Ended = {}
    /\ Returned \cap Failed = {} /\ Ended = Returned \cup Failed
BY DEF Ended, Returned, Failed

(* A written package puts at most one header into the connection. *)
LEMMA FrameAppended ==
    ASSUME NEW s \in Seq(Cells), NoHeads(s),
           NEW head \in {HeadCell(pkg), Junk}, NEW tail \in {TailCell(pkg), Junk}
    PROVE  /\ Len(s \o <<head, tail>>) = Len(s) + 2
           /\ OwnHeadAt(s \o <<head, tail>>, Len(s) + 1)
           /\ (s \o <<head, tail>>)[Len(s) + 1] # Zero
<1> DEFINE w == s \o <<head, tail>>
<1>1. /\ Len(w) = Len(s) + 2 /\ w[Len(s) + 1] = head /\ w[Len(s) + 2] = tail
      /\ \A i \in 1 .. Len(s) : w[i] = s[i]
  OBVIOUS
<1>2. ASSUME NEW i \in 1 .. Len(w), w[i].kind = "head"
      PROVE  i = Len(s) + 1 /\ w[i] = HeadCell(pkg)
  <2>1. i \in 1 .. Len(s) \/ i = Len(s) + 1 \/ i = Len(s) + 2
    BY <1>1
  <2>2. i \notin 1 .. Len(s)
    BY <1>1, <1>2 DEF NoHeads
  <2>3. i # Len(s) + 2
    BY <1>1, <1>2, Kinds
  <2> QED
    BY <1>1, <1>2, <2>1, <2>2, <2>3, Kinds
<1>3. head # Zero
  BY Kinds
<1> QED
  BY <1>1, <1>2, <1>3 DEF OwnHeadAt

(* So does a package of which only the first cell has been written. *)
LEMMA HeadAppended ==
    ASSUME NEW s \in Seq(Cells), NoHeads(s)
    PROVE  OwnHeadAt(s \o <<HeadCell(pkg)>>, Len(s) + 1)
<1> DEFINE w == s \o <<HeadCell(pkg)>>
<1>1. /\ Len(w) = Len(s) + 1 /\ w[Len(s) + 1] = HeadCell(pkg)
      /\ \A i \in 1 .. Len(s) : w[i] = s[i]
  OBVIOUS
<1> QED
  BY <1>1 DEF NoHeads, OwnHeadAt

(* The faults are only ever counted up. *)
LEMMA FaultsBefore ==
    ASSUME TypeOK, [Next]_vars
    PROVE  /\ shorts \in Nat /\ shorts' \in {shorts, shorts + 1}
           /\ changed \in Nat /\ changed' \in {changed, changed + 1}
<1>1. shorts \in Nat /\ changed \in Nat
  BY TunnelAssumption DEF TypeOK, WireTypeOK
<1>2. CASE R_Answer
  BY <1>1, <1>2 DEF R_Answer
<1>3. CASE R_Read \/ R_ReadTimedOut \/ R_ReadToFin \/ R_ReadThrow \/ R_AnswerThrow
  BY <1>1, <1>3 DEF R_Read, R_ReadTimedOut, R_ReadToFin, R_ReadThrow, R_AnswerThrow,
                    faultVars
<1>4. CASE Sender \/ S_Close \/ R_Close \/ Reset \/ Vanish \/ UNCHANGED vars
  BY <1>1, <1>4
     DEF Sender, S_Fill, S_Write, S_WriteThrow, S_ReadAnswer, S_ReadNothing,
         S_ReadThrow, S_Decide, S_Close, R_Close, Reset, Vanish, vars, faultVars
<1> QED
  BY <1>1, <1>2, <1>3, <1>4 DEF Next, Receiver

(* So states in step are reached through states in step alone. *)
LEMMA InStepBefore ==
    ASSUME TypeOK, [Next]_vars
    PROVE  (Framed' => Framed) /\ (InStep' => InStep)
BY FaultsBefore DEF Framed, InStep

(* The drift is a number, and as long as no answer is changed it is zero:  *)
(* the receiving end is where the phase says.                              *)
LEMMA Exact ==
    ASSUME TypeOK
    PROVE  /\ Drift \in Nat
           /\ changed = 0 => /\ Drift = 0
                             /\ Delivered <=> received = pos
                             /\ Undelivered <=> received = pkg.from
<1>1. changed \in Nat /\ PackSize \in Nat
  BY TunnelAssumption DEF TypeOK, WireTypeOK
<1>2. Drift \in Nat /\ (changed = 0 => Drift = 0)
  BY <1>1 DEF Drift
<1>3. received \in Nat /\ pos \in Nat /\ pkg.from \in Nat
  BY CallType DEF TypeOK, ReceiverTypeOK, SenderTypeOK, Packages
<1> HIDE DEF Drift
<1> QED
  BY <1>2, <1>3 DEF Delivered, Undelivered, Around

(* The same after a step. *)
LEMMA ExactAfter ==
    ASSUME TypeOK', changed' = 0
    PROVE  /\ Drift' = 0
           /\ Delivered' <=> received' = pos'
           /\ Undelivered' <=> received' = pkg'.from
<1>1. Drift' = 0
  <2>1. PackSize \in Nat
    BY TunnelAssumption
  <2> QED
    BY <2>1 DEF Drift
<1>2. received' \in Nat /\ pos' \in Nat /\ pkg'.from \in Nat
  <2>1. call' \in Calls /\ SenderTypeOK' /\ ReceiverTypeOK'
    BY DEF TypeOK
  <2>2. call'.len \in Nat
    BY <2>1, TunnelAssumption DEF CallRecords
  <2> QED
    BY <2>1, <2>2 DEF ReceiverTypeOK, SenderTypeOK, Packages
<1>3. changed' * PackSize = 0
  BY <1>1 DEF Drift
<1>4. Delivered' <=> received' = pos'
  BY <1>2, <1>3 DEF Delivered, Around, Drift
<1>5. Undelivered' <=> received' = pkg'.from
  BY <1>2, <1>3 DEF Undelivered, Around, Drift
<1> QED
  BY <1>1, <1>4, <1>5

(* An answer changes the drift by a package if it is changed, and not at   *)
(* all if it is not.                                                       *)
LEMMA DriftStep ==
    ASSUME TypeOK
    PROVE  /\ PackSize \in Nat
           /\ changed' = changed => Drift' = Drift
           /\ changed' = changed + 1 => Drift' = Drift + PackSize
<1>1. changed \in Nat /\ PackSize \in Nat
  BY TunnelAssumption DEF TypeOK, WireTypeOK
<1> QED
  BY <1>1 DEF Drift

(* A receiving end that has ended never becomes live again. *)
LEMMA LiveBefore ==
    ASSUME [Next]_vars, Live' PROVE Live
<1>1. CASE Receiver
  BY <1>1 DEF Receiver, R_Read, R_ReadTimedOut, R_ReadToFin, R_ReadThrow, R_Answer,
              R_AnswerThrow, Live
<1>2. CASE Sender \/ S_Close \/ R_Close \/ Reset \/ UNCHANGED vars
  BY <1>2 DEF Sender, S_Fill, S_Write, S_WriteThrow, S_ReadAnswer, S_ReadNothing,
              S_ReadThrow, S_Decide, S_Close, R_Close, Reset, vars, receiverVars, Live
<1>3. CASE Vanish
  BY <1>3 DEF Vanish, Live
<1> QED
  BY <1>1, <1>2, <1>3 DEF Next

(* The steps of the sending end lead from phase to phase. *)
LEMMA SenderPhase ==
    ASSUME TypeOK, LocalInv, Live, Phase, Sender
    PROVE  Phase'
<1>0. /\ fwd \in Seq(Cells) /\ shorts \in Nat /\ rPc \notin Ended /\ ~rClosed
      /\ received \in Nat /\ pkg \in Packages
  BY Pcs DEF TypeOK, WireTypeOK, ReceiverTypeOK, SenderTypeOK, Live, LocalInv
<1>1. CASE S_Fill
  <2>1. Idle /\ Delivered
    BY <1>1 DEF S_Fill, Phase
  <2>2. /\ pkg'.from = pos /\ pos' = pos + pkg'.size
        /\ UNCHANGED <<fwd, back, received, rPc, changed, shorts>> /\ sPc' = "write"
    BY <1>1 DEF S_Fill, receiverVars, wire, faultVars
  <2>3. Idle' /\ Undelivered'
    BY <2>1, <2>2 DEF Idle, NoHeads, Delivered, Undelivered, Around, Drift
  <2> QED
    BY <2>2, <2>3, Pcs DEF Phase
<1>2. CASE S_Write
  <2>1. Idle /\ Undelivered
    BY <1>2 DEF S_Write, Phase
  <2>2. PICK head \in {HeadCell(pkg), Junk}, tail \in {TailCell(pkg), Junk} :
              fwd' = fwd \o <<head, tail>>
    BY <1>0, <1>2 DEF S_Write, Written
  <2>3. /\ UNCHANGED <<pkg, pos, back, received, rPc, changed, shorts>> /\ sPc' = "ack"
    BY <1>2 DEF S_Write, receiverVars
  <2>4. /\ Len(fwd') = shorts + 2 /\ OwnHeadAt(fwd', shorts + 1) /\ fwd'[shorts + 1] # Zero
    BY <1>0, <2>1, <2>2, FrameAppended DEF Idle
  <2>5. Sent'
    BY <2>1, <2>3, <2>4 DEF Idle, Sent, Undelivered, Around, Drift, OwnHeadAt
  <2> QED
    BY <2>3, <2>5, Pcs DEF Phase
<1>3. CASE S_WriteThrow
  <2>1. Idle /\ Undelivered
    BY <1>3 DEF S_WriteThrow, Phase
  <2>2. /\ UNCHANGED <<pkg, pos, received, rPc, rBuf, changed, shorts>> /\ sPc' \in Failed
        /\ fwd' \in {fwd, fwd \o <<HeadCell(pkg)>>}
    BY <1>0, <1>3 DEF S_WriteThrow, Written, receiverVars, faultVars, Failed
  <2>3. NoHeads(fwd') \/ OwnHeadAt(fwd', shorts + 1)
    BY <1>0, <2>1, <2>2, HeadAppended DEF Idle
  <2>4. LeftOver'
    BY <2>1, <2>2, <2>3 DEF Idle, LeftOver, Undelivered, Around, Drift, NoHeads, OwnHeadAt
  <2> QED
    BY <2>2, <2>4, Pcs DEF Phase
<1>4. CASE S_ReadAnswer
  <2>1. /\ UNCHANGED <<pkg, pos, fwd, received, rPc, rBuf, changed, shorts>>
        /\ back' = Tail(back) /\ back # << >> /\ sPc = "ack"
        /\ IF Head(back) = "APPROVE" THEN sPc' \in {"fill"} \cup Returned
                                     ELSE sPc' \in {"write"} \cup Failed
    BY <1>4 DEF S_ReadAnswer, S_Decide, AfterApprove, receiverVars, faultVars, Returned,
                Failed
  <2>2. Answered
    BY <2>1 DEF Phase, Sent, Arrived
  <2>3. back' = << >> /\ Head(back) = back[1]
    BY <2>1, <2>2 DEF Answered, TypeOK, WireTypeOK
  <2>4. Idle'
    BY <2>1, <2>2, <2>3 DEF Answered, Idle, NoHeads
  <2>5. CASE Head(back) = "APPROVE"
    <3>1. Delivered'
      BY <2>1, <2>2, <2>3, <2>5 DEF Answered, Delivered, Around, Drift
    <3>2. LeftOver'
      BY <2>4, <3>1 DEF LeftOver, Idle
    <3> QED
      BY <2>1, <2>4, <2>5, <3>1, <3>2, Pcs DEF Phase
  <2>6. CASE Head(back) # "APPROVE"
    <3>1. Undelivered'
      BY <2>1, <2>2, <2>3, <2>6 DEF Answered, Undelivered, Around, Drift
    <3>2. LeftOver'
      BY <2>4, <3>1 DEF LeftOver, Idle
    <3> QED
      BY <2>1, <2>4, <2>6, <3>1, <3>2, Pcs DEF Phase
  <2> QED
    BY <2>5, <2>6
<1>5. CASE S_ReadNothing
  BY <1>0, <1>5 DEF S_ReadNothing
<1>6. CASE S_ReadThrow
  <2>1. /\ UNCHANGED <<pkg, pos, fwd, received, rPc, rBuf, changed, shorts>> /\ sPc = "ack"
        /\ sPc' \in Failed
    BY <1>6 DEF S_ReadThrow, receiverVars, wire, faultVars, Failed
  <2>2. LeftOver
    BY <2>1 DEF Phase, Sent, Arrived, Answered, LeftOver
  <2>3. LeftOver'
    BY <2>1, <2>2 DEF LeftOver, Delivered, Undelivered, Around, Drift, OwnBuffer, NoHeads, OwnHeadAt
  <2> QED
    BY <2>1, <2>3, Pcs DEF Phase
<1> QED
  BY <1>1, <1>2, <1>3, <1>4, <1>5, <1>6 DEF Sender

(* What is left of a connection once a whole package has been read of it. *)
LEMMA TwoDropped ==
    ASSUME NEW s \in Seq(Cells), NEW n \in Nat, n = Len(s), n >= 2
    PROVE  /\ Len(SubSeq(s, 3, n)) = n - 2
           /\ \A i \in 1 .. n - 2 : SubSeq(s, 3, n)[i] = s[i + 2]
OBVIOUS

(* What the receiving end reads of a connection with the one header at     *)
(* place n leaves no header behind that it has not read.                   *)
LEMMA HeadRead ==
    ASSUME NEW s \in Seq(Cells), NEW n \in {1, 2}, OwnHeadAt(s, n)
    PROVE  /\ Len(s) >= 1 /\ n = 1 =>
                 /\ NoHeads(Tail(s)) /\ Len(Tail(s)) = Len(s) - 1
                 /\ s[1].kind = "head" => s[1] = HeadCell(pkg)
           /\ Len(s) >= 2 =>
                 /\ NoHeads(SubSeq(s, 3, Len(s))) /\ Len(SubSeq(s, 3, Len(s))) = Len(s) - 2
                 /\ s[1].kind = "head" => s[1] = HeadCell(pkg)
<1>1. ASSUME Len(s) >= 1, n = 1
      PROVE  /\ NoHeads(Tail(s)) /\ Len(Tail(s)) = Len(s) - 1
             /\ s[1].kind = "head" => s[1] = HeadCell(pkg)
  <2>1. Len(Tail(s)) = Len(s) - 1 /\ \A i \in 1 .. Len(s) - 1 : Tail(s)[i] = s[i + 1]
    BY <1>1
  <2>2. \A i \in 1 .. Len(s) - 1 : s[i + 1].kind # "head"
    BY <1>1 DEF OwnHeadAt
  <2> QED
    BY <1>1, <2>1, <2>2 DEF NoHeads, OwnHeadAt
<1>2. ASSUME Len(s) >= 2
      PROVE  /\ NoHeads(SubSeq(s, 3, Len(s))) /\ Len(SubSeq(s, 3, Len(s))) = Len(s) - 2
             /\ s[1].kind = "head" => s[1] = HeadCell(pkg)
  <2>0. Len(s) \in Nat
    OBVIOUS
  <2>1. /\ Len(SubSeq(s, 3, Len(s))) = Len(s) - 2
        /\ \A i \in 1 .. Len(s) - 2 : SubSeq(s, 3, Len(s))[i] = s[i + 2]
    BY <2>0, <1>2, TwoDropped, Zenon
  <2>2. \A i \in 1 .. Len(s) - 2 : s[i + 2].kind # "head"
    BY <1>2 DEF OwnHeadAt
  <2> QED
    BY <1>2, <2>1, <2>2 DEF NoHeads, OwnHeadAt
<1> QED
  BY <1>1, <1>2

(* With the answer that it sends, changed or not, the receiving end is     *)
(* where the sending end, once it has read the answer, takes it to be.     *)
LEMMA AnswerDrifts ==
    ASSUME TypeOK, PosInv, Undelivered, UNCHANGED <<pkg, pos>>,
           Intact(rBuf) => rBuf[1] = HeadCell(pkg),
           received' = IF Intact(rBuf) THEN received + Size(rBuf) ELSE received,
           NEW answer \in Answers,
           changed' = IF answer = ImReady THEN changed ELSE changed + 1
    PROVE  IF answer = "APPROVE" THEN Delivered' ELSE Undelivered'
<1>1. /\ received \in Nat /\ pos \in Nat /\ pkg.from \in Nat /\ pkg.size \in 0 .. PackSize
      /\ PackSize \in Nat /\ Drift \in Nat /\ pos = pkg.from + pkg.size
  BY CallType, TunnelAssumption, Exact
     DEF TypeOK, ReceiverTypeOK, SenderTypeOK, Packages, PosInv
<1>2. received \in (pkg.from - Drift) .. (pkg.from + Drift)
  BY DEF Undelivered, Around
<1>3. Intact(rBuf) => Size(rBuf) = pkg.size
  BY DEF Size, HeadCell
<1>4. Drift' = Drift \/ Drift' = Drift + PackSize
  BY DriftStep
<1>5. answer # ImReady => Drift' = Drift + PackSize
  BY DriftStep
<1>6. ImReady = "APPROVE" <=> Intact(rBuf)
  BY DEF ImReady
<1>7. answer # "APPROVE" => answer = "PACK_CANCEL"
  BY DEF Answers
<1>8. answer # "APPROVE" /\ Intact(rBuf) => answer # ImReady
  BY <1>6
<1>9. answer = "APPROVE" /\ ~Intact(rBuf) => answer # ImReady
  BY <1>6
<1> HIDE DEF Drift
<1>10. CASE answer = "APPROVE"
  <2>1. received' \in (pos - Drift') .. (pos + Drift')
    <3>1. CASE Intact(rBuf)
      BY <1>1, <1>2, <1>3, <1>4, <3>1
    <3>2. CASE ~Intact(rBuf)
      BY <1>1, <1>2, <1>5, <1>9, <1>10, <3>2
    <3> QED
      BY <3>1, <3>2
  <2> QED
    BY <1>10, <2>1 DEF Delivered, Around
<1>11. CASE answer # "APPROVE"
  <2>1. received' \in (pkg.from - Drift') .. (pkg.from + Drift')
    <3>1. CASE Intact(rBuf)
      BY <1>1, <1>2, <1>3, <1>5, <1>8, <1>11, <3>1
    <3>2. CASE ~Intact(rBuf)
      BY <1>1, <1>2, <1>4, <3>2
    <3> QED
      BY <3>1, <3>2
  <2> QED
    BY <1>11, <2>1 DEF Undelivered, Around
<1> QED
  BY <1>10, <1>11

(* A package left over by a sending end that has ended is stored once. *)
LEMMA StaysAround ==
    ASSUME TypeOK, PosInv, Delivered \/ Undelivered, UNCHANGED <<pkg, pos>>,
           rBuf[1].kind = "head" => Undelivered /\ rBuf[1] = HeadCell(pkg),
           received' = IF Intact(rBuf) THEN received + Size(rBuf) ELSE received,
           NEW answer \in Answers,
           changed' = IF answer = ImReady THEN changed ELSE changed + 1
    PROVE  /\ Delivered' \/ Undelivered'
           /\ (rBuf[1].kind = "head" /\ Intact(rBuf)) => Delivered'
           /\ (rBuf[1].kind # "head" /\ Delivered) => Delivered' /\ received' = received
<1>1. /\ received \in Nat /\ pos \in Nat /\ pkg.from \in Nat /\ pkg.size \in 0 .. PackSize
      /\ PackSize \in Nat /\ Drift \in Nat /\ pos = pkg.from + pkg.size
  BY CallType, TunnelAssumption, Exact
     DEF TypeOK, ReceiverTypeOK, SenderTypeOK, Packages, PosInv
<1>2. Drift' = Drift \/ Drift' = Drift + PackSize
  BY DriftStep
<1> HIDE DEF Drift
<1>3. CASE rBuf[1].kind = "head" /\ Intact(rBuf)
  <2>1. received' = received + pkg.size
    BY <1>3 DEF Size, HeadCell
  <2>2. received \in (pkg.from - Drift) .. (pkg.from + Drift)
    BY <1>3 DEF Undelivered, Around
  <2>3. received' \in (pos - Drift') .. (pos + Drift')
    BY <1>1, <1>2, <2>1, <2>2
  <2> QED
    BY <1>3, <2>3 DEF Delivered, Around
<1>4. CASE ~(rBuf[1].kind = "head" /\ Intact(rBuf))
  <2>1. received' = received
    BY <1>1, <1>4 DEF Size
  <2>2. Delivered => Delivered'
    BY <1>1, <1>2, <2>1 DEF Delivered, Around
  <2>3. Undelivered => Undelivered'
    BY <1>1, <1>2, <2>1 DEF Undelivered, Around
  <2> QED
    BY <1>4, <2>1, <2>2, <2>3
<1> QED
  BY <1>3, <1>4

(* The steps of the receiving end lead from phase to phase. *)
LEMMA ReceiverPhase ==
    ASSUME TypeOK, PosInv, LocalInv, Framed, Phase, Receiver, Framed', Live'
    PROVE  Phase'
<1>0. /\ fwd \in Seq(Cells) /\ shorts \in 0 .. 1 /\ rBuf \in Cells \X Cells
      /\ received \in Nat /\ pos \in Nat /\ pkg \in Packages
      /\ pkg.from \in Nat /\ pkg.size \in Nat
  BY CallType, TunnelAssumption
     DEF TypeOK, WireTypeOK, ReceiverTypeOK, SenderTypeOK, Framed, Packages
<1>1. sPc \in {"fill", "write", "ack"} \cup Ended
  BY DEF TypeOK, SenderTypeOK
<1>2. CASE R_Read
  <2>1. /\ rPc = "read" /\ rPc' = "answer" /\ Len(fwd) >= 2
        /\ rBuf' = <<fwd[1], fwd[2]>> /\ fwd' = SubSeq(fwd, 3, Len(fwd))
        /\ UNCHANGED <<pkg, pos, sPc, received, back, changed, shorts>>
    BY <1>2 DEF R_Read, senderVars, faultVars
  <2>2. sPc \in {"ack"} \cup Ended
    BY <1>0, <1>1, <2>1 DEF Phase, Idle
  <2>3. CASE sPc = "ack"
    <3>1. Sent
      BY <1>0, <2>1, <2>3 DEF Phase, Arrived, Answered
    <3>2. shorts + 1 \in {1, 2} /\ OwnHeadAt(fwd, shorts + 1)
      BY <1>0, <3>1 DEF Sent
    <3>3. /\ NoHeads(fwd') /\ Len(fwd') = Len(fwd) - 2 /\ Len(fwd) = shorts + 2
          /\ fwd[1].kind = "head" => fwd[1] = HeadCell(pkg)
      BY <1>0, <2>1, <3>1, <3>2, HeadRead DEF Sent
    <3>4. rBuf' # <<Zero, Zero>>
      BY <1>0, <2>1, <3>1, <3>2 DEF Sent
    <3>5. Arrived'
      BY <1>0, <2>1, <3>1, <3>3, <3>4 DEF Sent, Arrived, OwnBuffer, Undelivered, Around, Drift, NoHeads
    <3> QED
      BY <2>1, <2>3, <3>5, Pcs DEF Phase
  <2>4. CASE sPc \in Ended
    <3>1. /\ Delivered \/ Undelivered
          /\ NoHeads(fwd) \/ (Undelivered /\ OwnHeadAt(fwd, shorts + 1))
      BY <2>4 DEF Phase, LeftOver
    <3>2. OwnHeadAt(fwd, shorts + 1)
      BY <3>1 DEF NoHeads, OwnHeadAt
    <3>3. shorts + 1 \in {1, 2}
      BY <1>0
    <3>4. NoHeads(fwd') /\ (fwd[1].kind = "head" => Undelivered /\ fwd[1] = HeadCell(pkg))
      <4>1. /\ NoHeads(SubSeq(fwd, 3, Len(fwd)))
            /\ fwd[1].kind = "head" => fwd[1] = HeadCell(pkg)
        BY <1>0, <2>1, <3>2, <3>3, HeadRead
      <4>2. NoHeads(fwd) => fwd[1].kind # "head"
        BY <1>0, <2>1 DEF NoHeads
      <4> QED
        BY <2>1, <3>1, <4>1, <4>2
    <3>5. LeftOver'
      BY <1>0, <2>1, <3>1, <3>4 DEF LeftOver, Delivered, Undelivered, Around, Drift, OwnBuffer, NoHeads
    <3> QED
      BY <2>1, <2>4, <3>5, Pcs DEF Phase
  <2> QED
    BY <2>2, <2>3, <2>4
<1>3. CASE R_ReadTimedOut
  <2>1. /\ rPc = "read" /\ rPc' = "answer" /\ Len(fwd) >= 1
        /\ rBuf' = <<fwd[1], rBuf[2]>> /\ fwd' = Tail(fwd)
        /\ shorts = 0 /\ shorts' = 1
        /\ UNCHANGED <<pkg, pos, sPc, received, back, changed>>
    BY <1>0, <1>3 DEF R_ReadTimedOut, senderVars, Framed
  <2>2. sPc \in {"ack"} \cup Ended
    BY <1>0, <1>1, <2>1 DEF Phase, Idle
  <2>3. CASE sPc = "ack"
    <3>1. Sent
      BY <1>0, <2>1, <2>3 DEF Phase, Arrived, Answered
    <3>2. /\ NoHeads(fwd') /\ Len(fwd') = Len(fwd) - 1
          /\ fwd[1].kind = "head" => fwd[1] = HeadCell(pkg)
      <4>1. OwnHeadAt(fwd, 1) /\ 1 \in {1, 2}
        BY <2>1, <3>1 DEF Sent
      <4> QED
        BY <1>0, <2>1, <4>1, HeadRead
    <3>3. rBuf' # <<Zero, Zero>>
      BY <1>0, <2>1, <3>1 DEF Sent
    <3>4. Arrived'
      BY <1>0, <2>1, <3>1, <3>2, <3>3 DEF Sent, Arrived, OwnBuffer, Undelivered, Around, Drift, NoHeads
    <3> QED
      BY <2>1, <2>3, <3>4, Pcs DEF Phase
  <2>4. CASE sPc \in Ended
    <3>1. /\ Delivered \/ Undelivered
          /\ NoHeads(fwd) \/ (Undelivered /\ OwnHeadAt(fwd, 1))
      BY <2>1, <2>4 DEF Phase, LeftOver
    <3>2. OwnHeadAt(fwd, 1)
      BY <3>1 DEF NoHeads, OwnHeadAt
    <3>3. NoHeads(fwd') /\ (fwd[1].kind = "head" => Undelivered /\ fwd[1] = HeadCell(pkg))
      BY <1>0, <2>1, <3>1, <3>2, HeadRead DEF NoHeads
    <3>4. LeftOver'
      BY <1>0, <2>1, <3>1, <3>3 DEF LeftOver, Delivered, Undelivered, Around, Drift, OwnBuffer, NoHeads
    <3> QED
      BY <2>1, <2>4, <3>4, Pcs DEF Phase
  <2> QED
    BY <2>2, <2>3, <2>4
<1>4. CASE R_ReadToFin
  <2>1. /\ rPc = "read" /\ rPc' = "answer" /\ sClosed /\ fwd' = << >>
        /\ rBuf' = IF fwd = << >> THEN rBuf ELSE <<fwd[1], rBuf[2]>>
        /\ UNCHANGED <<pkg, pos, sPc, received, back, changed, shorts>>
    BY <1>4 DEF R_ReadToFin, senderVars, faultVars
  <2>2. sPc \in Ended /\ rBuf[1].kind # "head"
    BY <2>1 DEF LocalInv
  <2>3. /\ Delivered \/ Undelivered
        /\ NoHeads(fwd) \/ (Undelivered /\ OwnHeadAt(fwd, shorts + 1))
    BY <2>2 DEF Phase, LeftOver
  <2>4. rBuf'[1].kind = "head" => Undelivered /\ rBuf'[1] = HeadCell(pkg)
    <3>1. CASE fwd = << >>
      BY <2>1, <2>2, <3>1
    <3>2. CASE fwd # << >>
      <4>1. Len(fwd) >= 1 /\ 1 \in 1 .. Len(fwd)
        BY <1>0, <3>2
      <4>2. rBuf'[1] = fwd[1]
        BY <2>1, <3>2
      <4> QED
        BY <2>3, <4>1, <4>2 DEF NoHeads, OwnHeadAt
    <3> QED
      BY <3>1, <3>2
  <2>5. NoHeads(fwd')
    BY <2>1 DEF NoHeads
  <2>6. LeftOver'
    BY <2>1, <2>3, <2>4, <2>5 DEF LeftOver, Delivered, Undelivered, Around, Drift, OwnBuffer, NoHeads
  <2> QED
    BY <2>1, <2>2, <2>6, Pcs DEF Phase
<1>5. CASE R_ReadThrow \/ R_AnswerThrow
  BY <1>5 DEF R_ReadThrow, R_AnswerThrow, Live
<1>6. CASE R_Answer
  <2>1. /\ rPc = "answer" /\ rPc' = "read"
        /\ received' = IF Intact(rBuf) THEN received + Size(rBuf) ELSE received
        /\ UNCHANGED <<pkg, pos, sPc, fwd, shorts>>
    <3>1. rPc' = "read"
      BY <1>6 DEF R_Answer, AfterPackage, Live
    <3> QED
      BY <1>6, <3>1 DEF R_Answer, senderVars
  <2>2. sPc \in {"ack"} \cup Ended
    BY <1>1, <2>1 DEF Phase, Idle
  <2>3. PICK answer \in Answers :
           /\ back' = Written(back, <<answer>>, sClosed)
           /\ changed' = IF answer = ImReady THEN changed ELSE changed + 1
    BY <1>6, Answering
  <2>4. CASE sPc = "ack"
    <3>1. Arrived /\ ~sClosed
      BY <2>1, <2>4, Pcs DEF Phase, Sent, Answered, LocalInv
    <3>2. back' = <<answer>> /\ Len(back') = 1 /\ back'[1] = answer
      BY <2>3, <3>1 DEF Arrived, Written
    <3>3. Intact(rBuf) => rBuf[1] = HeadCell(pkg)
      BY <3>1 DEF Arrived, Intact, OwnBuffer
    <3>4. IF answer = "APPROVE" THEN Delivered' ELSE Undelivered'
      BY <1>0, <2>1, <2>3, <3>1, <3>3, AnswerDrifts DEF Arrived
    <3>5. Answered'
      BY <2>1, <3>1, <3>2, <3>4 DEF Arrived, Answered, NoHeads
    <3> QED
      BY <2>1, <2>4, <3>5, Pcs DEF Phase
  <2>5. CASE sPc \in Ended
    <3>1. /\ Delivered \/ Undelivered
          /\ NoHeads(fwd) /\ (rBuf[1].kind = "head" => Undelivered /\ OwnBuffer)
      BY <2>1, <2>5 DEF Phase, LeftOver
    <3>2. Delivered' \/ Undelivered'
      BY <1>0, <2>1, <2>3, <3>1, StaysAround DEF OwnBuffer
    <3>3. LeftOver'
      BY <2>1, <3>1, <3>2 DEF LeftOver, NoHeads
    <3> QED
      BY <2>1, <2>5, <3>3, Pcs DEF Phase
  <2> QED
    BY <2>2, <2>4, <2>5
<1> QED
  BY <1>2, <1>3, <1>4, <1>5, <1>6 DEF Receiver

(* The environment's steps, and closing a socket, leave the phase alone,   *)
(* but for a sending end that vanishes.                                    *)
LEMMA EnvironmentPhase ==
    ASSUME TypeOK, Phase, Live',
           S_Close \/ R_Close \/ Reset \/ Vanish \/ UNCHANGED vars
    PROVE  Phase'
<1>1. UNCHANGED <<pkg, pos, fwd, back, received, rBuf, changed, shorts>>
  BY DEF S_Close, R_Close, Reset, Vanish, vars, senderVars, receiverVars, wire, faultVars
<1>2. rPc' = rPc
  BY DEF S_Close, R_Close, Reset, Vanish, vars, receiverVars, Live
<1>3. CASE sPc' = sPc
  BY <1>1, <1>2, <1>3
     DEF Phase, Idle, Sent, Arrived, Answered, LeftOver, Delivered, Undelivered, Around, Drift, NoHeads,
         OwnHeadAt, OwnBuffer
<1>4. CASE sPc' # sPc
  <2>1. sPc \notin Ended /\ sPc' = "vanished" /\ sPc \in {"fill", "write", "ack"}
    BY <1>4 DEF S_Close, R_Close, Reset, Vanish, vars, senderVars, TypeOK, SenderTypeOK
  <2>2. LeftOver
    BY <2>1 DEF Phase, Idle, Sent, Arrived, Answered, LeftOver, Delivered, Undelivered, Around, Drift
  <2>3. LeftOver'
    BY <1>1, <1>2, <2>2 DEF LeftOver, Delivered, Undelivered, Around, Drift, OwnBuffer, NoHeads, OwnHeadAt
  <2> QED
    BY <2>1, <2>3, Pcs DEF Phase
<1> QED
  BY <1>3, <1>4

-----------------------------------------------------------------------------
(* The copy and the verdict *)

(* Counting on where another sequence has stopped counting. *)
LEMMA CountedOn ==
    ASSUME NEW f \in Seq(Nat), NEW t \in Seq(Nat), NEW g \in Seq(Nat),
           \A i \in 1 .. Len(f) : f[i] = i,
           \A i \in 1 .. Len(t) : t[i] = Len(f) + i,
           Len(g) = Len(f) + Len(t), \A i \in 1 .. Len(g) : g[i] = i
    PROVE  f \o t = g
<1>1. /\ f \o t \in Seq(Nat) /\ Len(f \o t) = Len(f) + Len(t)
      /\ \A i \in 1 .. Len(f) + Len(t) :
            (f \o t)[i] = IF i <= Len(f) THEN f[i] ELSE t[i - Len(f)]
  BY ConcatProperties, Zenon
<1>2. Len(f) \in Nat /\ Len(t) \in Nat
  OBVIOUS
<1>3. ASSUME NEW i \in 1 .. Len(f) + Len(t) PROVE (f \o t)[i] = g[i]
  <2>1. CASE i <= Len(f)
    BY <1>1, <1>2, <2>1
  <2>2. CASE ~(i <= Len(f))
    <3>1. i - Len(f) \in 1 .. Len(t) /\ Len(f) + (i - Len(f)) = i
      BY <1>2, <2>2
    <3>2. t[i - Len(f)] = i
      BY <3>1
    <3> QED
      BY <1>1, <2>2, <3>2
  <2> QED
    BY <2>1, <2>2
<1> QED
  BY <1>1, <1>3, SeqEqual, Zenon

(* The first n bytes with the k bytes that follow them are the first n + k, *)
(* and a failing write that stores some of them stores the first of them.   *)
LEMMA FollowingBytes ==
    ASSUME NEW n \in Nat, NEW k \in Nat, NEW bytes \in Seq(Nat),
           bytes = [i \in 1 .. k |-> n + i]
    PROVE  /\ Len(bytes) = k
           /\ \A m \in 0 .. k :
                 FirstBytes(n) \o SubSeq(bytes, 1, m) = FirstBytes(n + m)
           /\ FirstBytes(n) \o bytes = FirstBytes(n + k)
<1>1. Len(bytes) = k /\ \A i \in 1 .. k : bytes[i] = n + i
  OBVIOUS
<1>2. \A m \in Nat : /\ FirstBytes(m) \in Seq(Nat) /\ Len(FirstBytes(m)) = m
                     /\ \A i \in 1 .. m : FirstBytes(m)[i] = i
  BY DEF FirstBytes
<1>3. ASSUME NEW m \in 0 .. k, NEW t \in Seq(Nat), Len(t) = m,
             \A i \in 1 .. m : t[i] = n + i
      PROVE  FirstBytes(n) \o t = FirstBytes(n + m)
  <2>1. m \in Nat /\ n + m \in Nat
    OBVIOUS
  <2>2. /\ FirstBytes(n) \in Seq(Nat) /\ Len(FirstBytes(n)) = n
        /\ FirstBytes(n + m) \in Seq(Nat) /\ Len(FirstBytes(n + m)) = n + m
        /\ \A i \in 1 .. n : FirstBytes(n)[i] = i
        /\ \A i \in 1 .. n + m : FirstBytes(n + m)[i] = i
    BY <1>2, <2>1, Zenon
  <2>3. /\ \A i \in 1 .. Len(FirstBytes(n)) : FirstBytes(n)[i] = i
        /\ \A i \in 1 .. Len(t) : t[i] = Len(FirstBytes(n)) + i
        /\ Len(FirstBytes(n + m)) = Len(FirstBytes(n)) + Len(t)
        /\ \A i \in 1 .. Len(FirstBytes(n + m)) : FirstBytes(n + m)[i] = i
    BY <1>3, <2>2
  <2> QED
    BY <2>2, <2>3, CountedOn, Zenon
<1>4. ASSUME NEW m \in 0 .. k
      PROVE  FirstBytes(n) \o SubSeq(bytes, 1, m) = FirstBytes(n + m)
  <2>1. /\ SubSeq(bytes, 1, m) \in Seq(Nat) /\ Len(SubSeq(bytes, 1, m)) = m
        /\ \A i \in 1 .. m : SubSeq(bytes, 1, m)[i] = bytes[i]
    BY <1>1
  <2>2. \A i \in 1 .. m : SubSeq(bytes, 1, m)[i] = n + i
    BY <1>1, <2>1
  <2> HIDE DEF FirstBytes
  <2> QED
    BY <1>3, <2>1, <2>2, Zenon
<1>5. FirstBytes(n) \o bytes = FirstBytes(n + k)
  <2>1. k \in 0 .. k
    OBVIOUS
  <2> QED
    BY <1>1, <1>3, <2>1, Zenon
<1> QED
  BY <1>1, <1>4, <1>5

(* An approved package holds the bytes that come next in the copy, none if *)
(* it is a buffer of zeroes, and the end of the stream if it says so.      *)
LEMMA ApprovedIsNext ==
    ASSUME TypeOK, InStep, StreamInv, Phase, rPc = "answer", Intact(rBuf)
    PROVE  /\ Size(rBuf) \in Nat /\ received + Size(rBuf) <= pos
           /\ Payload(rBuf) = [i \in 1 .. Size(rBuf) |-> received + i]
           /\ Payload(rBuf) \in Seq(Nat)
           /\ Eof(rBuf) => pkg.eof /\ received + Size(rBuf) = pkg.from + pkg.size
<1>0. /\ received \in Nat /\ pos \in Nat /\ pkg.from \in Nat /\ pkg.size \in Nat
      /\ sPc \in {"fill", "write", "ack"} \cup Ended
  BY CallType, TunnelAssumption DEF TypeOK, ReceiverTypeOK, SenderTypeOK, Packages
<1>1. /\ Delivered \/ Undelivered
      /\ rBuf[1].kind = "head" => Undelivered /\ rBuf[1] = HeadCell(pkg)
  BY <1>0 DEF Phase, Idle, Sent, Arrived, Answered, LeftOver, OwnBuffer
<1>4. /\ Delivered <=> received = pos
      /\ Undelivered <=> received = pkg.from
      /\ pos = pkg.from + pkg.size
  BY Exact DEF InStep, StreamInv, PosInv
<1>2. CASE rBuf[1].kind = "head"
  <2>1. /\ rBuf[1].pkg = pkg /\ rBuf[2] = TailCell(rBuf[1].pkg)
        /\ received = pkg.from /\ pos = received + pkg.size
    BY <1>1, <1>2, <1>4, Kinds DEF Intact, HeadCell
  <2>2. Size(rBuf) = pkg.size /\ (Eof(rBuf) => pkg.eof)
    BY <1>2, <2>1 DEF Size, Eof
  <2>3. Payload(rBuf) = [i \in 1 .. Size(rBuf) |-> received + i]
    BY <2>1 DEF Payload
  <2>4. [i \in 1 .. pkg.size |-> received + i] \in Seq(Nat)
    BY <1>0
  <2> QED
    BY <1>0, <2>1, <2>2, <2>3, <2>4
<1>3. CASE rBuf[1].kind # "head"
  <2>1. Size(rBuf) = 0 /\ ~Eof(rBuf)
    BY <1>3 DEF Size, Eof
  <2>2. received <= pos
    BY <1>0, <1>1, <1>4
  <2>3. /\ Payload(rBuf) = [i \in 1 .. Size(rBuf) |-> received + i]
        /\ Payload(rBuf) \in Seq(Nat)
    BY <2>1 DEF Payload
  <2> QED
    BY <1>0, <2>1, <2>2, <2>3
<1> QED
  BY <1>2, <1>3

(* No step brings a byte into the copy that the stream does not hold,      *)
(* whatever is damaged, changed or cut short.                              *)
LEMMA OnlyOfStreamStep ==
    ASSUME TypeOK, HeadsInv, OnlyOfStream, [Next]_vars PROVE OnlyOfStream'
<1>1. call \in CallRecords /\ call.len \in Nat /\ out \in Seq(Nat)
  BY CallType DEF TypeOK, ReceiverTypeOK
<1>2. CASE UNCHANGED <<call, out>>
  BY <1>2 DEF OnlyOfStream
<1>3. CASE R_Answer /\ Intact(rBuf)
  <2>1. call' = call /\ Store(Payload(rBuf))
    BY <1>3 DEF R_Answer
  <2>2. /\ Size(rBuf) \in Nat
        /\ \A i \in 1 .. Size(rBuf) : Payload(rBuf)[i] \in 1 .. call.len
    <3>1. CASE rBuf[1].kind = "head"
      <4>1. /\ Size(rBuf) = rBuf[1].pkg.size /\ rBuf[1].pkg \in Packages
            /\ rBuf[2] = TailCell(rBuf[1].pkg)
        BY <1>3, <3>1, Kinds DEF Size, Intact, TypeOK, ReceiverTypeOK, Cells
      <4>2. rBuf[1].pkg.from + rBuf[1].pkg.size <= call.len
        BY <3>1 DEF HeadsInv, OfStream
      <4>3. rBuf[1].pkg.from \in Nat /\ rBuf[1].pkg.size \in Nat
        BY <4>1, TunnelAssumption DEF Packages
      <4>4. \A i \in 1 .. Size(rBuf) : Payload(rBuf)[i] = rBuf[1].pkg.from + i
        BY <4>1 DEF Payload
      <4> DEFINE f == rBuf[1].pkg.from
                 k == rBuf[1].pkg.size
      <4>5. \A i \in 1 .. k : f + i \in 1 .. call.len
        <5>1. f \in Nat /\ k \in Nat /\ f + k <= call.len
          BY <4>2, <4>3
        <5> HIDE DEF f, k
        <5> QED
          BY <1>1, <5>1
      <4> QED
        BY <4>1, <4>3, <4>4, <4>5
    <3>2. CASE rBuf[1].kind # "head"
      BY <3>2 DEF Size
    <3> QED
      BY <3>1, <3>2
  <2>3. Payload(rBuf) \in Seq(Nat) /\ Len(Payload(rBuf)) = Size(rBuf)
    <3>1. \A i \in 1 .. Size(rBuf) : Payload(rBuf)[i] \in Nat
      BY <1>1, <2>2
    <3> QED
      BY <2>2, <3>1 DEF Payload
  <2>4. PICK t \in Seq(Nat) : /\ out' = out \o t \/ out' = out
                             /\ \A i \in 1 .. Len(t) : t[i] \in 1 .. call.len
    <3>1. CASE out' = out \o Payload(rBuf)
      BY <2>2, <2>3, <3>1
    <3>2. CASE out' = out
      BY <2>2, <2>3, <3>2
    <3>3. ASSUME NEW n \in 0 .. Len(Payload(rBuf)), out' = out \o SubSeq(Payload(rBuf), 1, n)
          PROVE  \E t \in Seq(Nat) : /\ out' = out \o t \/ out' = out
                                     /\ \A i \in 1 .. Len(t) : t[i] \in 1 .. call.len
      <4>1. /\ SubSeq(Payload(rBuf), 1, n) \in Seq(Nat) /\ Len(SubSeq(Payload(rBuf), 1, n)) = n
            /\ \A i \in 1 .. n : SubSeq(Payload(rBuf), 1, n)[i] = Payload(rBuf)[i]
        BY <2>3
      <4>2. \A i \in 1 .. n : i \in 1 .. Size(rBuf)
        BY <2>2, <2>3
      <4> HIDE DEF Payload, Size
      <4> QED
        BY <2>2, <3>3, <4>1, <4>2
    <3> QED
      BY <2>1, <3>1, <3>2, <3>3 DEF Store
  <2>5. CASE out' = out
    BY <2>1, <2>5 DEF OnlyOfStream
  <2>6. CASE out' = out \o t
    <3>1. /\ Len(out') = Len(out) + Len(t)
          /\ \A i \in 1 .. Len(out) : out'[i] = out[i]
          /\ \A i \in 1 .. Len(out') : i \notin 1 .. Len(out) =>
                i - Len(out) \in 1 .. Len(t) /\ out'[i] = t[i - Len(out)]
      BY <1>1, <2>6
    <3> QED
      BY <2>1, <2>4, <3>1 DEF OnlyOfStream
  <2> QED
    BY <2>4, <2>5, <2>6
<1>4. CASE R_Answer /\ ~Intact(rBuf)
  BY <1>2, <1>4 DEF R_Answer
<1>5. CASE R_Read \/ R_ReadTimedOut \/ R_ReadToFin \/ R_ReadThrow \/ R_AnswerThrow
  BY <1>2, <1>5 DEF R_Read, R_ReadTimedOut, R_ReadToFin, R_ReadThrow, R_AnswerThrow
<1>6. CASE Sender
  BY <1>2, <1>6 DEF Sender, S_Fill, S_Write, S_WriteThrow, S_ReadAnswer, S_ReadNothing,
                    S_ReadThrow, S_Decide, receiverVars
<1>7. CASE S_Close \/ R_Close \/ Reset \/ Vanish \/ UNCHANGED vars
  BY <1>2, <1>7 DEF S_Close, R_Close, Reset, Vanish, vars, receiverVars
<1> QED
  BY <1>3, <1>4, <1>5, <1>6, <1>7 DEF Next, Receiver

(* No step makes the copy anything but a prefix of the stream. *)
LEMMA CopyStep ==
    ASSUME TypeOK, IntegrityInv, [Next]_vars PROVE PrefixDelivered'
<1> SUFFICES ASSUME InStep'
             PROVE  /\ out' = FirstBytes(Len(out'))
                    /\ disk' = "good" => Len(out') = received'
  BY OnlyOfStreamStep DEF PrefixDelivered, OnlyOfStream, IntegrityInv
<1>1. /\ InStep /\ out = FirstBytes(Len(out)) /\ (disk = "good" => Len(out) = received)
      /\ received \in Nat /\ out \in Seq(Nat) /\ Len(out) \in Nat
  BY InStepBefore DEF IntegrityInv, PrefixDelivered, TypeOK, ReceiverTypeOK
<1>2. CASE UNCHANGED <<out, disk, received>>
  BY <1>1, <1>2
<1>3. CASE R_Answer /\ Intact(rBuf)
  <2>1. rPc = "answer" /\ received' = received + Size(rBuf) /\ Store(Payload(rBuf))
    BY <1>3 DEF R_Answer
  <2>2. Phase /\ StreamInv
    BY <1>1, <2>1 DEF IntegrityInv, Live, InStep
  <2>3. /\ Size(rBuf) \in Nat /\ Payload(rBuf) \in Seq(Nat)
        /\ Payload(rBuf) = [i \in 1 .. Size(rBuf) |-> received + i]
    BY <1>1, <1>3, <2>1, <2>2, ApprovedIsNext
  <2>4. \A n \in Nat : Len(FirstBytes(n)) = n
    BY DEF FirstBytes
  <2>5. CASE disk = "good" /\ out' = out \o Payload(rBuf) /\ UNCHANGED disk
    <3>1. FirstBytes(received) \o Payload(rBuf) = FirstBytes(received + Size(rBuf))
      BY <1>1, <2>3, FollowingBytes, Zenon
    <3> QED
      <4>1. out' = FirstBytes(received + Size(rBuf))
        BY <1>1, <2>5, <3>1
      <4>2. received + Size(rBuf) \in Nat
        BY <1>1, <2>3
      <4> QED
        BY <2>1, <2>4, <4>1, <4>2, Zenon
  <2>6. ASSUME disk' = "bad", NEW n \in 0 .. Len(Payload(rBuf)),
               out' = IF disk = "good" THEN out \o SubSeq(Payload(rBuf), 1, n) ELSE out
        PROVE  out' = FirstBytes(Len(out'))
    <3>1. CASE disk = "good"
      <4>1. n \in 0 .. Size(rBuf)
        <5>1. Len(Payload(rBuf)) = Size(rBuf)
          BY <1>1, <2>3, FollowingBytes, Zenon
        <5> QED
          BY <2>6, <5>1
      <4>2. FirstBytes(received) \o SubSeq(Payload(rBuf), 1, n) = FirstBytes(received + n)
        <5>1. \A m \in 0 .. Size(rBuf) :
                    FirstBytes(received) \o SubSeq(Payload(rBuf), 1, m)
                       = FirstBytes(received + m)
          BY <1>1, <2>3, FollowingBytes, Zenon
        <5> QED
          BY <4>1, <5>1, Zenon
      <4>3. out = FirstBytes(received) /\ received + n \in Nat
        BY <1>1, <2>3, <3>1, <4>1
      <4>4. out' = FirstBytes(received + n)
        BY <2>6, <3>1, <4>2, <4>3
      <4> QED
        BY <2>4, <4>3, <4>4, Zenon
    <3>2. CASE disk # "good"
      BY <1>1, <2>6, <3>2
    <3> QED
      BY <3>1, <3>2
  <2> QED
    BY <2>1, <2>5, <2>6 DEF Store
<1>4. CASE R_Answer /\ ~Intact(rBuf)
  BY <1>2, <1>4 DEF R_Answer
<1>5. CASE R_Read \/ R_ReadTimedOut \/ R_ReadToFin \/ R_ReadThrow \/ R_AnswerThrow
  BY <1>2, <1>5 DEF R_Read, R_ReadTimedOut, R_ReadToFin, R_ReadThrow, R_AnswerThrow
<1>6. CASE Sender
  BY <1>2, <1>6 DEF Sender, S_Fill, S_Write, S_WriteThrow, S_ReadAnswer, S_ReadNothing,
                    S_ReadThrow, S_Decide, receiverVars
<1>7. CASE S_Close \/ R_Close \/ Reset \/ Vanish \/ UNCHANGED vars
  BY <1>2, <1>7 DEF S_Close, R_Close, Reset, Vanish, vars, receiverVars
<1> QED
  BY <1>3, <1>4, <1>5, <1>6, <1>7 DEF Next, Receiver

(* No step makes the receiving end return what is not so, or makes untrue  *)
(* what it has returned.                                                   *)
LEMMA VerdictStep ==
    ASSUME TypeOK, IntegrityInv, [Next]_vars PROVE ReceiverVerdictSound'
<1> DEFINE Sound == /\ rPc = "returned_false" => received = call.len /\ stream = "eof"
                    /\ rPc = "returned_true"  => call.amount /\ received = call.size
<1> SUFFICES ASSUME InStep' PROVE Sound'
  BY DEF ReceiverVerdictSound
<1>1. InStep /\ Sound
  BY InStepBefore DEF IntegrityInv, ReceiverVerdictSound
<1>2. CASE R_Answer /\ Intact(rBuf)
  <2>1. /\ rPc = "answer" /\ received' = received + Size(rBuf) /\ UNCHANGED <<call, stream>>
        /\ rPc' = AfterPackage(received + Size(rBuf))
    BY <1>2 DEF R_Answer, senderVars
  <2>2. Phase /\ StreamInv
    BY <1>1, <2>1 DEF IntegrityInv, Live, InStep
  <2>3. /\ Size(rBuf) \in Nat /\ received + Size(rBuf) <= pos
        /\ Eof(rBuf) => pkg.eof /\ received + Size(rBuf) = pkg.from + pkg.size
    BY <1>1, <1>2, <2>1, <2>2, ApprovedIsNext
  <2>4. CASE Eof(rBuf)
    BY <2>1, <2>3, <2>4 DEF AfterPackage, IntegrityInv, StreamInv, EofInv
  <2>5. CASE ~Eof(rBuf) /\ call.amount /\ received + Size(rBuf) >= call.size
    <3>1. pos <= call.size
      BY <2>5 DEF IntegrityInv, StreamInv, ChunkInv
    <3>2. received \in Nat /\ pos \in Nat /\ call.size \in Nat
      BY CallType DEF TypeOK, ReceiverTypeOK, SenderTypeOK
    <3>3. received' = call.size
      BY <2>1, <2>3, <2>5, <3>1, <3>2
    <3> QED
      BY <2>1, <2>5, <3>3 DEF AfterPackage
  <2>6. CASE ~Eof(rBuf) /\ ~(call.amount /\ received + Size(rBuf) >= call.size)
    BY <2>1, <2>6 DEF AfterPackage
  <2> QED
    BY <2>4, <2>5, <2>6
<1>3. CASE UNCHANGED <<call, rPc, received>> /\ (stream = "eof" => stream' = "eof")
  BY <1>1, <1>3
<1>4. CASE rPc' \in {"read", "answer"} \cup Failed
  BY <1>4 DEF Failed
<1>5. CASE S_Fill
  <2>1. stream = "good" /\ UNCHANGED <<call, rPc, received>>
    BY <1>5 DEF S_Fill, receiverVars, IntegrityInv, StreamInv, FillInv
  <2> QED
    BY <1>3, <2>1
<1>6. CASE S_Write \/ S_WriteThrow \/ S_ReadAnswer \/ S_ReadNothing \/ S_ReadThrow
  BY <1>3, <1>6 DEF S_Write, S_WriteThrow, S_ReadAnswer, S_ReadNothing, S_ReadThrow,
                    S_Decide, receiverVars
<1>7. CASE R_Answer /\ ~Intact(rBuf)
  BY <1>4, <1>7 DEF R_Answer, Failed
<1>8. CASE R_Read \/ R_ReadTimedOut \/ R_ReadToFin \/ R_ReadThrow \/ R_AnswerThrow
  BY <1>4, <1>8 DEF R_Read, R_ReadTimedOut, R_ReadToFin, R_ReadThrow, R_AnswerThrow, Failed
<1>9. CASE S_Close \/ R_Close \/ Reset \/ UNCHANGED vars
  BY <1>3, <1>9 DEF S_Close, R_Close, Reset, vars, senderVars, receiverVars
<1>10. CASE Vanish
  BY <1>3, <1>4, <1>10 DEF Vanish, Failed
<1> QED
  BY <1>2, <1>5, <1>6, <1>7, <1>8, <1>9, <1>10 DEF Next, Sender, Receiver

-----------------------------------------------------------------------------
(* The theorems *)

(* Both calls begin with nothing on its way and nothing delivered; a chunk *)
(* without bytes is complete before it begins.                             *)
LEMMA InitIntegrity == ASSUME Init, TypeOK PROVE IntegrityInv
<1>1. /\ pkg = [from |-> 0, size |-> 0, eof |-> FALSE] /\ pos = 0 /\ packs = 0
      /\ received = 0 /\ out = << >> /\ fwd = << >> /\ back = << >>
      /\ shorts = 0 /\ changed = 0
      /\ stream = "good" /\ ~sClosed /\ ~rClosed
      /\ rBuf \in {<<Zero, Zero>>, <<Junk, Junk>>}
      /\ call.size \in Nat /\ PackSize \in Nat
      /\ IF call.amount /\ call.size = 0
         THEN sPc = "returned_true" /\ rPc = "returned_true"
         ELSE sPc = "fill" /\ rPc = "read"
  BY CallType, TunnelAssumption DEF Init, TypeOK
<1>2. StreamInv
  <2>1. (call.amount /\ sPc = "fill") => packs < NumPacks
    BY <1>1, SomePackage DEF TypeOK
  <2>2. pkg.eof = FALSE
    BY <1>1
  <2> QED
    BY <1>1, <2>1, <2>2 DEF StreamInv, EofInv, FillInv, PosInv, ChunkInv
<1>3. LocalInv
  BY <1>1, Kinds DEF LocalInv
<1>4. Live => Phase
  <2>1. NoHeads(fwd) /\ Len(fwd) = 0
    BY <1>1 DEF NoHeads
  <2>2. Delivered
    BY <1>1, Exact
  <2> QED
    BY <1>1, <2>1, <2>2, Pcs DEF Live, Phase, Idle
<1>7. HeadsInv
  BY <1>1, Kinds DEF HeadsInv, OfStream
<1>5. PrefixDelivered
  BY <1>1 DEF PrefixDelivered, FirstBytes, OnlyOfStream
<1>6. ReceiverVerdictSound
  BY <1>1 DEF ReceiverVerdictSound
<1> QED
  BY <1>2, <1>3, <1>4, <1>5, <1>6, <1>7 DEF IntegrityInv

(* Every step preserves the invariant. *)
LEMMA IntegrityStep ==
    ASSUME TypeOK, IntegrityInv, [Next]_vars PROVE IntegrityInv'
<1>1. StreamInv' /\ LocalInv' /\ HeadsInv'
  BY StreamStep, LocalStep, HeadsStep DEF IntegrityInv
<1>2. ASSUME Framed', Live' PROVE Phase'
  <2>1. Framed /\ Live /\ Phase /\ LocalInv /\ PosInv
    BY <1>2, InStepBefore, LiveBefore DEF IntegrityInv, StreamInv
  <2>2. CASE Sender
    BY <2>1, <2>2, SenderPhase
  <2>3. CASE Receiver
    BY <1>2, <2>1, <2>3, ReceiverPhase
  <2>4. CASE S_Close \/ R_Close \/ Reset \/ Vanish \/ UNCHANGED vars
    BY <1>2, <2>1, <2>4, EnvironmentPhase
  <2> QED
    BY <2>2, <2>3, <2>4 DEF Next
<1>3. PrefixDelivered' /\ ReceiverVerdictSound'
  BY CopyStep, VerdictStep
<1> QED
  BY <1>1, <1>2, <1>3 DEF IntegrityInv

(* Short of two timed-out reads that return part of a package, at most one *)
(* package is ever on its way and the connection carries no other header,  *)
(* whatever is damaged, retried, cut off or left behind, and however many  *)
(* answers are changed.                                                    *)
THEOREM Integrity == Spec => []IntegrityInv
<1>1. Init /\ TypeOK => IntegrityInv
  BY InitIntegrity
<1>2. TypeOK /\ IntegrityInv /\ [Next]_vars => IntegrityInv'
  BY IntegrityStep
<1> QED
  BY <1>1, <1>2, TypeCorrect, PTL DEF Spec

(* Until an answer is changed on the way the copy is a prefix of the       *)
(* stream, with no byte of it damaged, duplicated, missing or out of       *)
(* place; afterwards it still holds only bytes of the stream.              *)
THEOREM CopyIsPrefix == Spec => []PrefixDelivered
<1>1. IntegrityInv => PrefixDelivered
  BY DEF IntegrityInv
<1> QED
  BY <1>1, Integrity, PTL

(* Until an answer is changed on the way, recv_amount_to_stream and        *)
(* recv_stream return false only with the whole stream received, and true  *)
(* only with exactly the chunk.                                            *)
THEOREM ReceiverReturnsTheTruth == Spec => []ReceiverVerdictSound
<1>1. IntegrityInv => ReceiverVerdictSound
  BY DEF IntegrityInv
<1> QED
  BY <1>1, Integrity, PTL

=============================================================================
