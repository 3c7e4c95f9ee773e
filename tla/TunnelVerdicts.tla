--------------------------- MODULE TunnelVerdicts ---------------------------
(***************************************************************************)
(* What the ends of the tunnel return, and what they leave behind, proved  *)
(* for every stream, chunk, package size, number of attempts and faults:   *)
(* the sending end returns what is true of the copy (SenderVerdictSound),  *)
(* never gives up on its own (GiveUpTogether), and ends that return leave  *)
(* the connection clean (CleanReturn).  With streams that work the tunnel  *)
(* implements Transfer.  All of that holds until an answer is changed on   *)
(* the way or a second read is cut short; what a changed answer can cost   *)
(* is bounded (DriftBounded).                                              *)
(*                                                                         *)
(* The invariant is built on IntegrityInv in four layers.  Each has to be  *)
(* known of a state before the next can be shown of the following one.     *)
(***************************************************************************)
EXTENDS TunnelProofs

-----------------------------------------------------------------------------
(* Where the sending end is in its stream *)

(* The end of the stream has been seen: all of it has been read, and it is *)
(* shorter than the chunk.  Short of that every package but the last is a  *)
(* full one, and the last one completes the chunk; a stream that could not *)
(* be read leaves the chunk incomplete.                                    *)
PositionInv ==
    /\ stream = "eof" => pkg.eof /\ pos = call.len /\ (call.amount => call.len < call.size)
    /\ (stream = "bad" /\ call.amount) => pos < call.size
    /\ (stream = "good" /\ call.amount) =>
          /\ sPc = "fill" => pos = packs * PackSize
          /\ sPc \in {"write", "ack"} => pos = call.size \/ pos = packs * PackSize + PackSize
    /\ sPc = "returned_true" => call.amount /\ stream = "good" /\ pos = call.size

(* Before the last package the chunk is not complete, with it it is. *)
LEMMA LastPackage ==
    ASSUME TypeOK, packs < NumPacks
    PROVE  /\ packs * PackSize \in Nat /\ packs * PackSize < call.size
           /\ packs + 1 = NumPacks => call.size <= packs * PackSize + PackSize
           /\ packs + 1 # NumPacks => packs * PackSize + PackSize < call.size
<1> DEFINE q == call.size \div PackSize
           r == call.size % PackSize
<1>1. /\ call.size \in Nat /\ PackSize \in Nat \ {0} /\ packs \in Nat
  BY CallType, TunnelAssumption DEF TypeOK, SenderTypeOK
<1>2. q \in Nat /\ r \in 0 .. PackSize - 1 /\ call.size = q * PackSize + r
  BY <1>1, Division
<1>3. NumPacks = q + (IF r = 0 THEN 0 ELSE 1)
  BY DEF NumPacks
<1> HIDE DEF q, r
<1>4. packs * PackSize \in Nat /\ q * PackSize \in Nat
  BY <1>1, <1>2
<1>5. \A a \in Nat : (a < NumPacks) => a * PackSize \in Nat /\ a * PackSize < call.size
  <2> TAKE a \in Nat
  <2>1. a * PackSize \in Nat
    BY <1>1
  <2>2. CASE a < q
    <3>1. a * PackSize + PackSize <= q * PackSize
      BY <1>1, <1>2, <2>2, OneMore
    <3> QED
      BY <1>1, <1>2, <1>4, <2>1, <3>1
  <2>3. CASE a = q
    BY <1>1, <1>2, <1>3, <1>4, <2>3
  <2> QED
    BY <1>2, <1>3, <2>2, <2>3
<1>6. packs + 1 = NumPacks => call.size <= packs * PackSize + PackSize
  <2>1. (packs + 1) * PackSize = packs * PackSize + PackSize
    BY <1>1
  <2>2. CASE r = 0
    <3>1. packs + 1 = NumPacks => packs + 1 = q
      BY <1>2, <1>3, <2>2
    <3> QED
      BY <1>2, <1>4, <2>1, <2>2, <3>1
  <2>3. CASE r # 0
    <3>1. packs + 1 = NumPacks => packs = q
      BY <1>1, <1>2, <1>3, <2>3
    <3> QED
      BY <1>1, <1>2, <1>4, <3>1
  <2> QED
    BY <2>2, <2>3
<1>7. packs + 1 # NumPacks => packs * PackSize + PackSize < call.size
  <2>1. (packs + 1) * PackSize = packs * PackSize + PackSize
    BY <1>1
  <2>2. packs + 1 # NumPacks => packs + 1 < NumPacks
    BY <1>1, <1>2, <1>3
  <2>3. packs + 1 \in Nat
    BY <1>1
  <2> QED
    BY <1>5, <2>1, <2>2, <2>3
<1> QED
  BY <1>1, <1>5, <1>6, <1>7

(* What is asked of the stream for the next package completes the chunk or *)
(* is a full package.                                                      *)
LEMMA FillPosition ==
    ASSUME TypeOK, packs < NumPacks, call.amount, pos = packs * PackSize
    PROVE  pos + Wanted = call.size \/ pos + Wanted = packs * PackSize + PackSize
<1> DEFINE q == call.size \div PackSize
           r == call.size % PackSize
<1>1. /\ call.size \in Nat /\ PackSize \in Nat \ {0} /\ packs \in Nat
  BY CallType, TunnelAssumption DEF TypeOK, SenderTypeOK
<1>2. q \in Nat /\ r \in 0 .. PackSize - 1 /\ call.size = q * PackSize + r
  BY <1>1, Division
<1>3. NumPacks = q + (IF r = 0 THEN 0 ELSE 1)
  BY DEF NumPacks
<1>4. Wanted = IF packs >= q THEN r ELSE PackSize
  BY DEF Wanted
<1> HIDE DEF q, r
<1>5. CASE packs < q
  BY <1>1, <1>2, <1>4, <1>5
<1>6. CASE packs = q
  BY <1>1, <1>2, <1>4, <1>6
<1> QED
  BY <1>1, <1>2, <1>3, <1>5, <1>6

(* The sending end's position is what its stream and its packages make it. *)
LEMMA PositionStep ==
    ASSUME TypeOK, StreamInv, PositionInv, [Next]_vars PROVE PositionInv'
<1>1. CASE S_Fill
  <2> DEFINE left == call.len - pos
             got  == IF left < Wanted THEN left ELSE Wanted
  <2>1. /\ left \in Nat /\ pos \in Nat /\ call.len \in Nat /\ call.size \in Nat
        /\ Wanted \in Nat /\ got \in Nat /\ got <= Wanted
        /\ packs * PackSize \in Nat /\ PackSize \in Nat
    BY CallType, WantedType, TunnelAssumption DEF TypeOK, SenderTypeOK
  <2>2. /\ stream = "good" /\ sPc' = "write" /\ UNCHANGED <<call, packs>>
        /\ call.amount => /\ packs < NumPacks /\ pos = packs * PackSize
    BY <1>1 DEF S_Fill, StreamInv, FillInv, ChunkInv, PositionInv
  <2>3. \/ pos' = pos + got /\ got < Wanted /\ stream' = "eof" /\ pkg'.eof
        \/ pos' = pos + got /\ ~(got < Wanted) /\ stream' = "good"
        \/ pos' = pos + 0 /\ stream' = "bad"
    <3>1. pos' = pos + pkg'.size
      BY <1>1 DEF S_Fill
    <3>2. \/ /\ pkg' = [from |-> pos, size |-> got, eof |-> got < Wanted]
             /\ stream' = IF got < Wanted THEN "eof" ELSE "good"
          \/ pkg' = [from |-> pos, size |-> 0, eof |-> FALSE] /\ stream' = "bad"
      BY <1>1 DEF S_Fill
    <3> HIDE DEF got
    <3>3. CASE /\ pkg' = [from |-> pos, size |-> got, eof |-> got < Wanted]
               /\ stream' = IF got < Wanted THEN "eof" ELSE "good"
      <4>1. pkg'.size = got /\ pkg'.eof = (got < Wanted)
        BY <3>3
      <4>2. got < Wanted => pkg'.eof
        BY <4>1, Zenon
      <4> QED
        BY <3>1, <3>3, <4>1, <4>2
    <3>4. CASE pkg' = [from |-> pos, size |-> 0, eof |-> FALSE] /\ stream' = "bad"
      BY <3>1, <3>4
    <3> QED
      BY <3>2, <3>3, <3>4
  <2>4. call.amount => /\ pos + Wanted <= call.size /\ pos < call.size
                       /\ pos + Wanted = call.size
                            \/ pos + Wanted = packs * PackSize + PackSize
    BY <1>1, <2>2, NextPackageFits, LastPackage, FillPosition DEF S_Fill, StreamInv
  <2>5. got < Wanted => pos + got = call.len /\ call.len < pos + Wanted
    BY <2>1
  <2>6. ~(got < Wanted) => got = Wanted
    BY <2>1
  <2> HIDE DEF got, left
  <2>7. CASE pos' = pos + got /\ got < Wanted /\ stream' = "eof" /\ pkg'.eof
    BY <2>1, <2>2, <2>4, <2>5, <2>7 DEF PositionInv
  <2>8. CASE pos' = pos + got /\ ~(got < Wanted) /\ stream' = "good"
    BY <2>1, <2>2, <2>4, <2>6, <2>8 DEF PositionInv
  <2>9. CASE pos' = pos + 0 /\ stream' = "bad"
    BY <2>1, <2>2, <2>4, <2>9 DEF PositionInv
  <2> QED
    BY <2>3, <2>7, <2>8, <2>9
<1>2. ASSUME NEW answer \in Answers, S_Decide(answer), sPc = "ack"
      PROVE  PositionInv'
  <2>1. UNCHANGED <<call, stream, pos, pkg>>
    BY <1>2 DEF S_Decide
  <2>2. CASE answer = "APPROVE"
    <3>1. packs' = packs + 1 /\ sPc' = AfterApprove
      BY <1>2, <2>2 DEF S_Decide
    <3>2. /\ call.size \in Nat /\ PackSize \in Nat /\ pos \in Nat /\ packs \in Nat
      BY CallType, TunnelAssumption DEF TypeOK, SenderTypeOK
    <3>3. call.amount =>
             /\ packs * PackSize \in Nat
             /\ packs + 1 = NumPacks => call.size <= packs * PackSize + PackSize
             /\ packs + 1 # NumPacks => packs * PackSize + PackSize < call.size
             /\ pos <= call.size /\ pos <= packs * PackSize + PackSize
      BY <1>2, LastPackage DEF StreamInv, ChunkInv
    <3>4. (call.amount /\ stream = "good") =>
             pos = call.size \/ pos = packs * PackSize + PackSize
      BY <1>2 DEF PositionInv
    <3>5. packs' * PackSize = packs * PackSize + PackSize
      BY <3>1, <3>2
    <3>6. CASE stream # "good"
      BY <2>1, <3>1, <3>6 DEF AfterApprove, PositionInv
    <3>7. CASE stream = "good" /\ call.amount /\ packs + 1 = NumPacks
      <4>1. pos = call.size
        BY <3>2, <3>3, <3>4, <3>7
      <4> QED
        BY <2>1, <3>1, <3>7, <4>1 DEF AfterApprove, PositionInv
    <3>8. CASE stream = "good" /\ ~(call.amount /\ packs + 1 = NumPacks)
      <4>1. call.amount => pos = packs * PackSize + PackSize
        BY <3>2, <3>3, <3>4, <3>8
      <4> QED
        BY <2>1, <3>1, <3>5, <3>8, <4>1 DEF AfterApprove, PositionInv
    <3> QED
      BY <3>6, <3>7, <3>8
  <2>3. CASE answer # "APPROVE"
    BY <1>2, <2>1, <2>3 DEF S_Decide, PositionInv
  <2> QED
    BY <2>2, <2>3
<1>3. CASE S_ReadAnswer
  BY <1>2, <1>3 DEF S_ReadAnswer, TypeOK, WireTypeOK
<1>4. CASE S_ReadNothing
  BY <1>2, <1>4 DEF S_ReadNothing
<1>5. CASE UNCHANGED <<call, stream, pos, packs, pkg>>
           /\ (sPc' = sPc \/ (sPc = "write" /\ sPc' = "ack") \/ sPc' \in Failed)
  BY <1>5 DEF PositionInv, Failed
<1>6. ASSUME S_Write \/ S_WriteThrow \/ S_ReadThrow \/ Receiver \/ S_Close \/ R_Close
               \/ Reset \/ Vanish \/ UNCHANGED vars
      PROVE  /\ UNCHANGED <<call, stream, pos, packs, pkg>>
             /\ (sPc' = sPc \/ (sPc = "write" /\ sPc' = "ack") \/ sPc' \in Failed)
  <2>1. CASE S_Write \/ S_WriteThrow \/ S_ReadThrow \/ Vanish
    BY <2>1 DEF S_Write, S_WriteThrow, S_ReadThrow, Vanish, Failed
  <2>2. CASE Receiver \/ S_Close \/ R_Close \/ Reset \/ UNCHANGED vars
    BY <2>2 DEF Receiver, R_Read, R_ReadTimedOut, R_ReadToFin, R_ReadThrow, R_Answer,
                R_AnswerThrow, S_Close, R_Close, Reset, vars, senderVars
  <2> QED
    BY <1>6, <2>1, <2>2
<1> QED
  BY <1>1, <1>3, <1>4, <1>5, <1>6 DEF Next, Sender

-----------------------------------------------------------------------------
(* How the ends part *)

(* The integrity properties are claimed of these states. *)
Reliable == InStep /\ rPc \notin Failed

(* All that the sending end has read is stored, and no header is left that *)
(* could be stored again.                                                  *)
Settled == received = pos /\ NoHeads(fwd) /\ (rPc = "answer" => rBuf[1].kind # "head")

(* The receiving end returns only with an approval that makes the sending  *)
(* end return the same, and does not return as long as that end goes on;   *)
(* it outlives only one that could not read its stream.                    *)
Parting ==
    /\ sPc \in {"fill", "write"} => Live
    /\ (sPc = "ack" /\ ~Live) => back = <<"APPROVE">> /\ Settled /\ rPc = AfterApprove
    /\ (sPc = "ack" /\ Live /\ back = <<"APPROVE">>) => stream = "bad" \/ AfterApprove = "fill"
    /\ sPc \in Returned => Settled /\ (rPc = sPc \/ (stream = "bad" /\ Live))

PartingInv == Reliable => Parting

(* A receiving end that has ended does not change its mind. *)
LEMMA EndedStays == ASSUME TypeOK, [Next]_vars PROVE Live \/ rPc' = rPc
<1>1. CASE Receiver
  BY <1>1 DEF Receiver, R_Read, R_ReadTimedOut, R_ReadToFin, R_ReadThrow, R_Answer,
              R_AnswerThrow, Live
<1>2. CASE Sender \/ S_Close \/ R_Close \/ Reset \/ UNCHANGED vars
  BY <1>2 DEF Sender, S_Fill, S_Write, S_WriteThrow, S_ReadAnswer, S_ReadNothing,
              S_ReadThrow, S_Decide, S_Close, R_Close, Reset, vars, receiverVars
<1>3. CASE Vanish
  BY <1>3 DEF Vanish, Live, TypeOK, ReceiverTypeOK
<1> QED
  BY <1>1, <1>2, <1>3 DEF Next

(* The integrity properties are never claimed again once they are not. *)
LEMMA ReliableBefore ==
    ASSUME TypeOK, [Next]_vars, Reliable' PROVE Reliable
<1>1. InStep
  BY InStepBefore DEF Reliable
<1>2. Live \/ rPc' = rPc
  BY EndedStays
<1> QED
  BY <1>1, <1>2, Pcs DEF Reliable, Live, Failed

(* A reliable receiving end is live or has returned. *)
LEMMA LiveOrReturned ==
    ASSUME TypeOK, rPc \notin Failed, ~Live PROVE rPc \in Returned
BY DEF TypeOK, ReceiverTypeOK, Live, Ended

(* What the phase says of an end that is waiting for its answer. *)
LEMMA AwaitsAnswer ==
    ASSUME TypeOK, LocalInv, Phase, Live, sPc = "ack"
    PROVE  /\ back # << >> => Answered
           /\ rPc = "answer" => Arrived /\ ~sClosed
           /\ ~rClosed
BY Pcs DEF Phase, Sent, Arrived, Answered, LocalInv, Live, TypeOK, WireTypeOK

(* A read of a connection without headers leaves none, and brings none. *)
LEMMA ReadSettled ==
    ASSUME TypeOK, LocalInv, NoHeads(fwd), R_Read \/ R_ReadTimedOut \/ R_ReadToFin
    PROVE  NoHeads(fwd') /\ rBuf'[1].kind # "head"
<1>1. fwd \in Seq(Cells) /\ OwnHeadAt(fwd, 1) /\ rBuf \in Cells \X Cells
  BY DEF NoHeads, OwnHeadAt, TypeOK, WireTypeOK, ReceiverTypeOK
<1>2. fwd # << >> => Len(fwd) >= 1 /\ fwd[1].kind # "head"
  BY <1>1 DEF NoHeads
<1>3. CASE R_Read
  <2>1. Len(fwd) >= 2 /\ rBuf' = <<fwd[1], fwd[2]>> /\ fwd' = SubSeq(fwd, 3, Len(fwd))
    BY <1>3 DEF R_Read
  <2>2. NoHeads(SubSeq(fwd, 3, Len(fwd)))
    BY <1>1, <2>1, HeadRead
  <2> QED
    BY <1>1, <1>2, <2>1, <2>2 DEF NoHeads
<1>4. CASE R_ReadTimedOut
  <2>1. Len(fwd) >= 1 /\ rBuf' = <<fwd[1], rBuf[2]>> /\ fwd' = Tail(fwd)
    BY <1>4 DEF R_ReadTimedOut
  <2>2. NoHeads(Tail(fwd))
    BY <1>1, <2>1, HeadRead
  <2> QED
    BY <1>1, <1>2, <2>1, <2>2 DEF NoHeads
<1>5. CASE R_ReadToFin
  <2>1. /\ rPc = "read" /\ fwd' = << >>
        /\ rBuf' = IF fwd = << >> THEN rBuf ELSE <<fwd[1], rBuf[2]>>
    BY <1>5 DEF R_ReadToFin
  <2>2. CASE fwd = << >>
    BY <2>1, <2>2 DEF LocalInv, NoHeads
  <2>3. CASE fwd # << >>
    BY <1>2, <2>1, <2>3 DEF NoHeads
  <2> QED
    BY <2>2, <2>3
<1> QED
  BY <1>3, <1>4, <1>5

(* Where the ends go when the receiving end approves the package they are  *)
(* both at: it returns what the sending end is going to return, or both go *)
(* on.                                                                     *)
LEMMA SameVerdict ==
    ASSUME TypeOK, InStep, StreamInv, PositionInv, sPc = "ack",
           rBuf[1] = HeadCell(pkg), Undelivered
    PROVE  LET next == AfterPackage(received + Size(rBuf))
           IN  \/ next \in Returned /\ next = AfterApprove
               \/ next = "read" /\ (stream = "bad" \/ AfterApprove = "fill")
<1> DEFINE next == AfterPackage(received + Size(rBuf))
<1>1. received + Size(rBuf) = pos /\ Eof(rBuf) = pkg.eof
  <2>1. rBuf[1].kind = "head" /\ rBuf[1].pkg = pkg
    BY DEF HeadCell
  <2>2. Size(rBuf) = pkg.size /\ pos = received + pkg.size
    BY <2>1, Exact DEF Size, InStep, StreamInv, PosInv
  <2>3. pkg.eof \in BOOLEAN
    BY DEF TypeOK, SenderTypeOK, Packages
  <2>4. Eof(rBuf) = pkg.eof
    BY <2>1, <2>3 DEF Eof
  <2> QED
    BY <2>2, <2>4
<1>2. /\ call.size \in Nat /\ pos \in Nat /\ PackSize \in Nat /\ packs \in Nat
      /\ call.len \in Nat /\ stream \in {"good", "eof", "bad"} /\ call.amount \in BOOLEAN
  BY CallType, TunnelAssumption DEF TypeOK, SenderTypeOK
<1>3. CASE pkg.eof
  <2>1. stream = "eof"
    BY <1>3 DEF StreamInv, EofInv
  <2> QED
    BY <1>1, <1>3, <2>1 DEF AfterPackage, AfterApprove, Returned
<1>4. CASE ~pkg.eof
  <2>1. stream # "eof"
    BY <1>4 DEF PositionInv
  <2>2. call.amount =>
          /\ pos <= call.size /\ pos <= packs * PackSize + PackSize
          /\ packs * PackSize \in Nat
          /\ packs + 1 = NumPacks => call.size <= packs * PackSize + PackSize
          /\ packs + 1 # NumPacks => packs * PackSize + PackSize < call.size
          /\ stream = "bad" => pos < call.size
          /\ stream = "good" => pos = call.size \/ pos = packs * PackSize + PackSize
    BY LastPackage DEF StreamInv, ChunkInv, PositionInv
  <2>3. CASE call.amount /\ pos >= call.size
    <3>1. stream = "good" /\ packs + 1 = NumPacks
      BY <1>2, <2>1, <2>2, <2>3
    <3> QED
      BY <1>1, <1>4, <2>3, <3>1 DEF AfterPackage, AfterApprove, Returned
  <2>4. CASE ~(call.amount /\ pos >= call.size)
    <3>1. next = "read"
      BY <1>1, <1>4, <2>4 DEF AfterPackage
    <3>2. stream = "good" => ~(call.amount /\ packs + 1 = NumPacks)
      BY <1>2, <2>2, <2>4
    <3> QED
      BY <1>2, <2>1, <3>1, <3>2 DEF AfterApprove
  <2> QED
    BY <2>3, <2>4
<1> QED
  BY <1>3, <1>4

(* What the sending end does with an answer. *)
LEMMA Decides ==
    ASSUME NEW answer, S_Decide(answer)
    PROVE  /\ UNCHANGED <<call, stream, pos, pkg, receiverVars, fwd, sClosed, rClosed, changed, shorts>>
           /\ IF answer = "APPROVE"
              THEN sPc' = AfterApprove /\ sPc' \in {"fill"} \cup Returned /\ UNCHANGED sAttempts
              ELSE \/ sAttempts # 0 /\ sPc' = "write" /\ sAttempts' = sAttempts - 1
                   \/ sAttempts = 0 /\ sPc' = "CTransferException"
BY DEF S_Decide, S_GivesUp, AfterApprove, Returned, faultVars

(* As long as no answer is changed the answer put on the wire is the one   *)
(* that the checksum calls for.                                            *)
LEMMA HonestAnswer ==
    ASSUME TypeOK, R_Answer, changed' = 0
    PROVE  /\ changed = 0
           /\ back' = Written(back, <<IF Intact(rBuf) THEN "APPROVE" ELSE "PACK_CANCEL">>, sClosed)
<1>1. changed \in Nat
  BY TunnelAssumption DEF TypeOK, WireTypeOK
<1>2. PICK answer \in Answers :
         /\ back' = Written(back, <<answer>>, sClosed)
         /\ changed' = IF answer = ImReady THEN changed ELSE changed + 1
  BY Answering
<1>3. answer = ImReady
  BY <1>1, <1>2
<1> QED
  BY <1>2, <1>3 DEF ImReady

(* The ends part as Parting says. *)
LEMMA PartingStep ==
    ASSUME TypeOK, IntegrityInv, PositionInv, PartingInv, [Next]_vars
    PROVE  PartingInv'
<1> SUFFICES ASSUME Reliable' PROVE Parting'
  BY DEF PartingInv
<1>1. Reliable /\ Parting /\ StreamInv /\ LocalInv /\ (Live => Phase)
  BY ReliableBefore DEF PartingInv, IntegrityInv, Reliable, InStep
<1>2. /\ sPc \in {"fill", "write", "ack"} \cup Ended
      /\ rPc \in {"read", "answer"} \cup Ended /\ rPc \notin Failed /\ rPc' \notin Failed
      /\ InStep
  BY <1>1 DEF TypeOK, SenderTypeOK, ReceiverTypeOK, Reliable
<1>3. CASE S_Fill
  <2>1. sPc = "fill" /\ sPc' = "write" /\ rPc' = rPc
    BY <1>3 DEF S_Fill, receiverVars
  <2> QED
    BY <1>1, <2>1, Pcs DEF Parting, Live
<1>4. CASE S_Write
  <2>1. sPc = "write" /\ sPc' = "ack" /\ rPc' = rPc /\ back' = back
    BY <1>4 DEF S_Write, receiverVars
  <2>2. Live /\ back = << >>
    BY <1>1, <2>1 DEF Parting, Phase, Idle
  <2> QED
    BY <2>1, <2>2, Pcs DEF Parting, Live
<1>5. CASE S_WriteThrow \/ S_ReadThrow
  <2>1. sPc' \in Failed
    BY <1>5 DEF S_WriteThrow, S_ReadThrow, Failed
  <2> QED
    BY <2>1, Pcs DEF Parting
<1>6. CASE S_ReadAnswer
  <2>1. sPc = "ack" /\ back # << >> /\ S_Decide(Head(back))
    BY <1>6 DEF S_ReadAnswer
  <2>2. UNCHANGED <<rPc, received, pos, rBuf, stream, fwd>>
    BY <2>1, Decides DEF receiverVars
  <2>3. CASE Live
    <3>1. Answered
      BY <1>1, <1>2, <2>1, <2>3, AwaitsAnswer
    <3>2. Len(back) = 1 /\ Head(back) = back[1] /\ rPc = "read" /\ NoHeads(fwd)
      BY <2>1, <3>1 DEF Answered, TypeOK, WireTypeOK
    <3>3. CASE Head(back) = "APPROVE"
      <4>1. back = <<"APPROVE">>
        BY <3>2, <3>3 DEF TypeOK, WireTypeOK
      <4>2. stream = "bad" \/ AfterApprove = "fill"
        BY <1>1, <2>1, <2>3, <4>1 DEF Parting
      <4>3. sPc' = AfterApprove /\ sPc' \in {"fill"} \cup Returned
        BY <2>1, <3>3, Decides
      <4>4. Settled'
        <5>1. received = pos
          BY <1>2, <3>1, <3>2, <3>3, Exact DEF Answered, InStep
        <5> QED
          BY <2>2, <3>2, <5>1 DEF Settled, NoHeads
      <4> QED
        BY <2>2, <2>3, <4>2, <4>3, <4>4, Pcs DEF Parting, Live, Returned
    <3>4. CASE Head(back) # "APPROVE"
      <4>1. sPc' \in {"write", "CTransferException"}
        BY <2>1, <3>4, Decides
      <4> QED
        BY <2>2, <2>3, <4>1, Pcs DEF Parting, Live, Returned
    <3> QED
      BY <3>3, <3>4
  <2>4. CASE ~Live
    <3>1. back = <<"APPROVE">> /\ Settled /\ rPc = AfterApprove
      BY <1>1, <2>1, <2>4 DEF Parting
    <3>2. sPc' = rPc /\ rPc \in Returned
      BY <1>2, <2>1, <2>4, <3>1, Decides, LiveOrReturned
    <3>3. Settled'
      BY <2>2, <3>1 DEF Settled, NoHeads
    <3> QED
      BY <2>2, <3>2, <3>3, Pcs DEF Parting, Returned
  <2> QED
    BY <2>3, <2>4
<1>7. CASE S_ReadNothing
  <2>1. sPc = "ack" /\ back = << >> /\ rClosed
    BY <1>7 DEF S_ReadNothing
  <2>2. ~Live
    BY <1>1, <2>1, Pcs DEF LocalInv, Live
  <2> QED
    BY <1>1, <2>1, <2>2 DEF Parting
<1>8. CASE R_Read \/ R_ReadTimedOut \/ R_ReadToFin
  <2>1. /\ rPc = "read" /\ rPc' = "answer"
        /\ UNCHANGED <<call, sPc, stream, pos, packs, back, received>>
    BY <1>8 DEF R_Read, R_ReadTimedOut, R_ReadToFin, senderVars
  <2>2. AfterApprove' = AfterApprove
    BY <2>1 DEF AfterApprove, NumPacks
  <2>3. sPc \in Returned => Settled'
    <3>1. sPc \in Returned => received = pos /\ NoHeads(fwd)
      BY <1>1 DEF Parting, Settled
    <3> QED
      BY <1>1, <1>8, <2>1, <3>1, ReadSettled DEF Settled
  <2> QED
    BY <1>1, <2>1, <2>2, <2>3, Pcs DEF Parting, Live, Returned
<1>9. CASE R_ReadThrow \/ R_AnswerThrow
  BY <1>2, <1>9 DEF R_ReadThrow, R_AnswerThrow, Failed
<1>10. CASE R_Answer
  <2>1. /\ rPc = "answer" /\ UNCHANGED <<call, sPc, stream, pos, packs, pkg, fwd>>
        /\ back' = Written(back, <<IF Intact(rBuf) THEN "APPROVE" ELSE "PACK_CANCEL">>, sClosed)
        /\ received' = IF Intact(rBuf) THEN received + Size(rBuf) ELSE received
        /\ rPc' = IF Intact(rBuf) THEN AfterPackage(received + Size(rBuf)) ELSE "read"
    <3>1. changed' = 0
      BY DEF Reliable, InStep
    <3> QED
      BY <1>2, <1>10, <3>1, HonestAnswer DEF R_Answer, senderVars, Failed
  <2>2. Live /\ Phase /\ AfterApprove' = AfterApprove
    BY <1>1, <2>1 DEF Live, AfterApprove, NumPacks
  <2>3. sPc \in {"ack"} \cup Ended
    BY <1>2, <2>1, <2>2 DEF Phase, Idle
  <2>4. CASE sPc = "ack"
    <3>1. Arrived /\ ~sClosed
      BY <1>1, <1>2, <2>1, <2>2, <2>4, AwaitsAnswer
    <3>2. back' = <<IF Intact(rBuf) THEN "APPROVE" ELSE "PACK_CANCEL">>
      BY <2>1, <3>1 DEF Arrived, Written
    <3>3. CASE ~Intact(rBuf)
      <4>1. back' # <<"APPROVE">> /\ Live'
        BY <2>1, <3>2, <3>3 DEF Live
      <4> QED
        BY <2>1, <2>4, <4>1, Pcs DEF Parting, Returned
    <3>4. CASE Intact(rBuf)
      <4>1. rBuf[1] = HeadCell(pkg) /\ Undelivered
        BY <3>1, <3>4 DEF Arrived, Intact, OwnBuffer
      <4>2. received' = pos' /\ NoHeads(fwd')
        <5>1. Size(rBuf) = pkg.size
          BY <4>1 DEF Size, HeadCell
        <5>2. received = pkg.from /\ pos = pkg.from + pkg.size
          BY <1>1, <1>2, <4>1, Exact DEF InStep, StreamInv, PosInv
        <5> QED
          BY <2>1, <3>1, <3>4, <5>1, <5>2 DEF Arrived, NoHeads
      <4>3. \/ rPc' \in Returned /\ rPc' = AfterApprove
            \/ rPc' = "read" /\ (stream = "bad" \/ AfterApprove = "fill")
        BY <1>1, <1>2, <2>1, <2>4, <3>4, <4>1, SameVerdict
      <4> QED
        BY <2>1, <2>2, <2>4, <3>2, <3>4, <4>2, <4>3, Pcs DEF Parting, Settled, Live, Returned
    <3> QED
      BY <3>3, <3>4
  <2>5. CASE sPc \in Returned
    <3>1. received = pos /\ NoHeads(fwd) /\ rBuf[1].kind # "head" /\ stream = "bad"
      BY <1>1, <2>1, <2>5 DEF Parting, Settled, Returned
    <3>2. received' = received /\ rPc' = "read"
      <4>1. received \in Nat /\ pos \in Nat /\ call.size \in Nat
        BY CallType DEF TypeOK, ReceiverTypeOK, SenderTypeOK
      <4>2. Size(rBuf) = 0 /\ ~Eof(rBuf)
        BY <3>1 DEF Size, Eof
      <4>3. call.amount => received < call.size
        BY <3>1 DEF PositionInv
      <4>4. AfterPackage(received + Size(rBuf)) = "read"
        BY <4>1, <4>2, <4>3 DEF AfterPackage
      <4> QED
        BY <2>1, <4>1, <4>2, <4>4
    <3> QED
      BY <2>1, <2>5, <3>1, <3>2, Pcs DEF Parting, Settled, NoHeads, Live, Returned
  <2>6. CASE sPc \in Failed
    BY <2>1, <2>6, Pcs DEF Parting
  <2> QED
    BY <2>3, <2>4, <2>5, <2>6, Pcs
<1>11. CASE S_Close \/ R_Close \/ Reset \/ Vanish \/ UNCHANGED vars
  <2>1. /\ UNCHANGED <<call, stream, pos, packs, rPc, rBuf, received, fwd, back>>
        /\ sPc' = sPc \/ sPc' = "vanished"
    BY <1>2, <1>11 DEF S_Close, R_Close, Reset, Vanish, vars, senderVars, receiverVars, wire,
       Failed
  <2>2. AfterApprove' = AfterApprove /\ Live' = Live /\ (Settled => Settled')
    BY <2>1 DEF AfterApprove, NumPacks, Live, Settled, NoHeads
  <2>3. CASE sPc' = sPc
    BY <1>1, <2>1, <2>2, <2>3 DEF Parting
  <2>4. CASE sPc' = "vanished"
    BY <2>4 DEF Parting, Returned
  <2> QED
    BY <2>1, <2>3, <2>4
<1> QED
  BY <1>3, <1>4, <1>5, <1>6, <1>7, <1>8, <1>9, <1>10, <1>11 DEF Next, Sender, Receiver

-----------------------------------------------------------------------------
(* The two counters of attempts *)

(* The counters are equal but while an answer is on its way: the end that  *)
(* sent it has counted already.  So the sending end never has to give up.  *)
Counted ==
    /\ sPc = "fill" => rAttempts = Attempts
    /\ sPc = "write" => rAttempts = sAttempts
    /\ sPc = "ack" =>
          rAttempts = IF back = << >> THEN sAttempts
                      ELSE IF back[1] = "APPROVE" THEN Attempts
                      ELSE sAttempts - 1
    /\ sPc # "CTransferException"

AttemptsInv == Reliable => Counted

(* The counters keep in step. *)
LEMMA AttemptsStep ==
    ASSUME TypeOK, IntegrityInv, PartingInv, AttemptsInv, [Next]_vars
    PROVE  AttemptsInv'
<1> SUFFICES ASSUME Reliable' PROVE Counted'
  BY DEF AttemptsInv
<1>1. /\ Reliable /\ Parting /\ Counted /\ LocalInv /\ (Live => Phase)
      /\ InStep /\ rPc' \notin Failed
  BY ReliableBefore DEF PartingInv, AttemptsInv, IntegrityInv, Reliable, InStep
<1>2. /\ sPc \in {"fill", "write", "ack"} \cup Ended /\ rAttempts \in Nat /\ sAttempts \in Nat
      /\ back \in Seq(Answers)
  BY TunnelAssumption DEF TypeOK, SenderTypeOK, ReceiverTypeOK, WireTypeOK
<1>3. CASE S_Fill
  <2>1. sPc = "fill" /\ sPc' = "write" /\ sAttempts' = Attempts /\ rAttempts' = rAttempts
    BY <1>3 DEF S_Fill, receiverVars
  <2> QED
    BY <1>1, <2>1 DEF Counted
<1>4. CASE S_Write
  <2>1. sPc = "write" /\ sPc' = "ack" /\ UNCHANGED <<sAttempts, rAttempts, back>>
    BY <1>4 DEF S_Write, receiverVars
  <2>2. back = << >>
    BY <1>1, <2>1 DEF Parting, Phase, Idle
  <2> QED
    BY <1>1, <2>1, <2>2 DEF Counted
<1>5. CASE S_WriteThrow \/ S_ReadThrow
  BY <1>5 DEF S_WriteThrow, S_ReadThrow, Counted
<1>6. CASE S_ReadAnswer
  <2>1. sPc = "ack" /\ back # << >> /\ S_Decide(Head(back)) /\ Head(back) = back[1]
    BY <1>2, <1>6 DEF S_ReadAnswer
  <2>2. rAttempts' = rAttempts
    BY <2>1, Decides DEF receiverVars
  <2>3. CASE Head(back) = "APPROVE"
    <3>1. rAttempts = Attempts /\ sPc' \in {"fill"} \cup Returned
      BY <1>1, <2>1, <2>3, Decides DEF Counted
    <3> QED
      BY <2>2, <3>1 DEF Counted, Returned
  <2>4. CASE Head(back) # "APPROVE"
    <3>1. rAttempts = sAttempts - 1
      BY <1>1, <2>1, <2>4 DEF Counted
    <3>2. sAttempts # 0
      BY <1>2, <3>1
    <3>3. sPc' = "write" /\ sAttempts' = sAttempts - 1
      BY <2>1, <2>4, <3>2, Decides
    <3> QED
      BY <2>2, <3>1, <3>3 DEF Counted
  <2> QED
    BY <2>3, <2>4
<1>7. CASE S_ReadNothing
  <2>1. sPc = "ack" /\ back = << >> /\ rClosed
    BY <1>7 DEF S_ReadNothing
  <2>2. ~Live
    BY <1>1, <2>1, Pcs DEF LocalInv, Live
  <2> QED
    BY <1>1, <2>1, <2>2 DEF Parting
<1>8. CASE R_Answer
  <2>1. /\ rPc = "answer" /\ UNCHANGED <<sPc, sAttempts>>
        /\ back' = Written(back, <<IF Intact(rBuf) THEN "APPROVE" ELSE "PACK_CANCEL">>, sClosed)
        /\ rAttempts' = IF Intact(rBuf) THEN Attempts ELSE rAttempts - 1
    <3>1. changed' = 0
      BY DEF Reliable, InStep
    <3> QED
      BY <1>1, <1>8, <3>1, HonestAnswer DEF R_Answer, senderVars, Failed
  <2>2. Live /\ Phase
    BY <1>1, <2>1 DEF Live
  <2>3. sPc \in {"ack"} \cup Ended
    BY <1>2, <2>1, <2>2 DEF Phase, Idle
  <2>4. CASE sPc = "ack"
    <3>1. back = << >> /\ ~sClosed
      BY <1>1, <2>1, <2>2, <2>4, AwaitsAnswer DEF Arrived
    <3>2. back' = <<IF Intact(rBuf) THEN "APPROVE" ELSE "PACK_CANCEL">>
      BY <2>1, <3>1 DEF Written
    <3>3. back' # << >> /\ back'[1] = (IF Intact(rBuf) THEN "APPROVE" ELSE "PACK_CANCEL")
      BY <3>2
    <3>4. rAttempts = sAttempts
      BY <1>1, <2>4, <3>1 DEF Counted
    <3> QED
      BY <2>1, <2>4, <3>3, <3>4 DEF Counted
  <2>5. CASE sPc \in Ended
    BY <1>1, <2>1, <2>5, Pcs DEF Counted
  <2> QED
    BY <2>3, <2>4, <2>5
<1>9. CASE UNCHANGED <<sPc, sAttempts, rAttempts, back>>
  BY <1>1, <1>9 DEF Counted
<1>10. CASE R_Read \/ R_ReadTimedOut \/ R_ReadToFin \/ R_ReadThrow \/ R_AnswerThrow
  BY <1>9, <1>10 DEF R_Read, R_ReadTimedOut, R_ReadToFin, R_ReadThrow, R_AnswerThrow,
                     senderVars, wire
<1>11. CASE S_Close \/ R_Close \/ Reset \/ UNCHANGED vars
  BY <1>9, <1>11 DEF S_Close, R_Close, Reset, vars, senderVars, receiverVars, wire
<1>12. CASE Vanish
  <2>1. UNCHANGED <<sAttempts, rAttempts, back>> /\ (sPc' = sPc \/ sPc' = "vanished")
    BY <1>12 DEF Vanish, wire
  <2> QED
    BY <1>1, <2>1 DEF Counted
<1> QED
  BY <1>3, <1>4, <1>5, <1>6, <1>7, <1>8, <1>10, <1>11, <1>12 DEF Next, Sender, Receiver

-----------------------------------------------------------------------------
(* What is left on the connection *)

(* As long as no read is cut short there is never more than one package to *)
(* be read, none while the receiving end is not reading, and nothing at    *)
(* all once the sending end has returned.                                  *)
Clean ==
    /\ Len(fwd) <= 2
    /\ rPc # "read" => fwd = << >>
    /\ sPc \in Returned => back = << >> /\ fwd = << >> /\ rPc # "answer"

CleanInv == (shorts = 0 /\ changed = 0 /\ rPc \notin Failed /\ ~sClosed) => Clean

(* A read cut short, an answer changed and a closed socket are there to    *)
(* stay.                                                                   *)
LEMMA CleanBefore ==
    ASSUME TypeOK, [Next]_vars
    PROVE  /\ shorts' = 0 => shorts = 0
           /\ changed' = 0 => changed = 0
           /\ ~sClosed' => ~sClosed
<1>1. CASE Receiver
  BY <1>1, FaultsBefore
     DEF Receiver, R_Read, R_ReadTimedOut, R_ReadToFin, R_ReadThrow, R_Answer, R_AnswerThrow
<1>2. CASE Sender
  BY <1>2, FaultsBefore
     DEF Sender, S_Fill, S_Write, S_WriteThrow, S_ReadAnswer, S_ReadNothing, S_ReadThrow,
         S_Decide
<1>3. CASE S_Close \/ R_Close \/ Reset \/ Vanish \/ UNCHANGED vars
  BY <1>3, FaultsBefore DEF S_Close, R_Close, Reset, Vanish, vars
<1> QED
  BY <1>1, <1>2, <1>3 DEF Next

(* The connection stays clean. *)
LEMMA CleanStep ==
    ASSUME TypeOK, IntegrityInv, PartingInv, CleanInv, [Next]_vars
    PROVE  CleanInv'
<1> SUFFICES ASSUME shorts' = 0, changed' = 0, rPc' \notin Failed, ~sClosed' PROVE Clean'
  BY DEF CleanInv
<1>1. /\ shorts = 0 /\ InStep /\ ~sClosed /\ rPc \notin Failed
      /\ Parting /\ Clean /\ LocalInv /\ (Live => Phase)
  <2>1. shorts = 0 /\ changed = 0 /\ ~sClosed /\ InStep /\ Framed
    BY CleanBefore DEF InStep, Framed
  <2>2. rPc \notin Failed
    BY EndedStays, Pcs DEF Live, Failed
  <2> QED
    BY <2>1, <2>2 DEF PartingInv, Reliable, CleanInv, IntegrityInv
<1>2. /\ sPc \in {"fill", "write", "ack"} \cup Ended /\ fwd \in Seq(Cells)
      /\ back \in Seq(Answers)
  BY DEF TypeOK, SenderTypeOK, WireTypeOK
<1>3. CASE S_Fill
  <2>1. sPc' = "write" /\ UNCHANGED <<rPc, fwd, back>>
    BY <1>3 DEF S_Fill, receiverVars, wire
  <2> QED
    BY <1>1, <2>1 DEF Clean, Returned
<1>4. CASE S_Write \/ S_WriteThrow
  <2>1. /\ sPc = "write" /\ sPc' \notin Returned /\ rPc' = rPc
    BY <1>4 DEF S_Write, S_WriteThrow, receiverVars, Returned
  <2>2. Live /\ Idle
    BY <1>1, <2>1 DEF Parting, Phase
  <2>3. ~rClosed /\ rPc = "read" /\ Len(fwd) = 0
    BY <1>1, <2>2, Pcs DEF LocalInv, Live, Idle
  <2>4. Len(fwd') <= 2
    <3>1. CASE S_Write
      <4>1. PICK head \in {HeadCell(pkg), Junk}, tail \in {TailCell(pkg), Junk} :
                fwd' = fwd \o <<head, tail>>
        BY <2>3, <3>1 DEF S_Write, Written
      <4> QED
        BY <1>2, <2>3, <4>1
    <3>2. CASE S_WriteThrow
      <4>1. fwd' = fwd \/ fwd' = fwd \o <<HeadCell(pkg)>>
        BY <2>3, <3>2 DEF S_WriteThrow, Written
      <4>2. Len(fwd \o <<HeadCell(pkg)>>) = 1
        BY <1>2, <2>3
      <4> QED
        <5>1. CASE fwd' = fwd
          BY <2>3, <5>1
        <5>2. CASE fwd' = fwd \o <<HeadCell(pkg)>>
          BY <4>2, <5>2
        <5> QED
          BY <4>1, <5>1, <5>2
    <3> QED
      BY <1>4, <3>1, <3>2
  <2> QED
    BY <2>1, <2>3, <2>4 DEF Clean
<1>5. CASE S_ReadThrow
  BY <1>1, <1>5 DEF S_ReadThrow, Clean, Returned, receiverVars, wire
<1>6. CASE S_ReadAnswer
  <2>1. /\ sPc = "ack" /\ back # << >> /\ back' = Tail(back) /\ UNCHANGED <<rPc, fwd>>
    BY <1>6, Decides DEF S_ReadAnswer, receiverVars
  <2>2. back' = << >> /\ fwd = << >> /\ rPc # "answer"
    <3>1. CASE Live
      <4>1. Answered
        BY <1>1, <2>1, <3>1, AwaitsAnswer
      <4> QED
        BY <1>1, <1>2, <2>1, <4>1 DEF Answered
    <3>2. CASE ~Live
      <4>1. back = <<"APPROVE">> /\ rPc # "read" /\ rPc # "answer"
        BY <1>1, <2>1, <3>2 DEF Parting, Live
      <4>2. fwd = << >>
        BY <1>1, <4>1 DEF Clean
      <4> QED
        BY <2>1, <4>1, <4>2
    <3> QED
      BY <3>1, <3>2
  <2> QED
    BY <2>1, <2>2 DEF Clean
<1>7. CASE S_ReadNothing
  <2>1. sPc = "ack" /\ back = << >> /\ rClosed
    BY <1>7 DEF S_ReadNothing
  <2>2. ~Live
    BY <1>1, <2>1, Pcs DEF LocalInv, Live
  <2> QED
    BY <1>1, <2>1, <2>2 DEF Parting
<1>8. CASE R_Read
  <2>1. /\ Len(fwd) >= 2 /\ fwd' = SubSeq(fwd, 3, Len(fwd)) /\ sPc' = sPc
    BY <1>8 DEF R_Read, senderVars
  <2>2. sPc \notin Returned /\ Len(fwd) = 2
    <3>1. fwd # << >> /\ Len(fwd) \in Nat
      BY <1>2, <2>1
    <3>2. sPc \notin Returned
      BY <1>1, <3>1, Zenon DEF Clean
    <3>3. Len(fwd) <= 2
      BY <1>1 DEF Clean
    <3>4. Len(fwd) >= 2
      BY <2>1
    <3>5. Len(fwd) = 2
      <4> DEFINE n == Len(fwd)
      <4>1. n \in Nat /\ n <= 2 /\ n >= 2
        BY <3>1, <3>3, <3>4
      <4> HIDE DEF n
      <4>2. n = 2
        BY <4>1
      <4> QED
        BY <4>2 DEF n
    <3> QED
      BY <3>2, <3>5
  <2>3. Len(fwd') = 0 /\ fwd' = << >>
    BY <1>2, <2>1, <2>2
  <2> QED
    BY <2>1, <2>2, <2>3 DEF Clean
<1>9. CASE R_ReadTimedOut \/ R_ReadToFin
  BY <1>1, <1>9 DEF R_ReadTimedOut, R_ReadToFin
<1>10. CASE R_ReadThrow \/ R_AnswerThrow
  BY <1>10 DEF R_ReadThrow, R_AnswerThrow, Failed
<1>11. CASE R_Answer
  BY <1>1, <1>11 DEF R_Answer, senderVars, Clean
<1>12. CASE S_Close \/ R_Close \/ Reset \/ Vanish \/ UNCHANGED vars
  <2>1. UNCHANGED <<rPc, fwd, back>> /\ (sPc' = sPc \/ sPc' = "vanished")
    BY <1>1, <1>12 DEF S_Close, R_Close, Reset, Vanish, vars, senderVars, receiverVars, wire,
       Failed
  <2> QED
    BY <1>1, <2>1 DEF Clean, Returned
<1> QED
  BY <1>3, <1>4, <1>5, <1>6, <1>7, <1>8, <1>9, <1>10, <1>11, <1>12 DEF Next, Sender, Receiver

-----------------------------------------------------------------------------
(* The theorems *)

VerdictInv == PositionInv /\ PartingInv /\ AttemptsInv /\ CleanInv

(* Both ends begin in step; a chunk without bytes ends before it begins. *)
LEMMA InitVerdict == ASSUME Init, TypeOK PROVE VerdictInv
<1>1. /\ pos = 0 /\ packs = 0 /\ received = 0 /\ fwd = << >> /\ back = << >>
      /\ stream = "good" /\ sAttempts = Attempts /\ rAttempts = Attempts
      /\ PackSize \in Nat
      /\ IF call.amount /\ call.size = 0
         THEN sPc = "returned_true" /\ rPc = "returned_true"
         ELSE sPc = "fill" /\ rPc = "read"
  BY TunnelAssumption DEF Init
<1>2. PositionInv
  BY <1>1 DEF PositionInv
<1>3. Parting
  BY <1>1 DEF Parting, Live, Settled, NoHeads, Returned
<1>4. Counted
  BY <1>1 DEF Counted
<1>5. Clean
  BY <1>1 DEF Clean
<1> QED
  BY <1>2, <1>3, <1>4, <1>5 DEF VerdictInv, PartingInv, AttemptsInv, CleanInv

(* The invariant holds of every reachable state of a call. *)
THEOREM Verdicts == Spec => []VerdictInv
<1>1. Init /\ TypeOK => VerdictInv
  BY InitVerdict
<1>2. TypeOK /\ IntegrityInv /\ VerdictInv /\ [Next]_vars => VerdictInv'
  BY PositionStep, PartingStep, AttemptsStep, CleanStep DEF VerdictInv, IntegrityInv
<1> QED
  BY <1>1, <1>2, TypeCorrect, Integrity, PTL DEF Spec

(* Until an answer is changed on the way, what send_amount_from_stream and *)
(* send_stream return can be relied upon unless the receiving end has      *)
(* failed: the chunk, or the stream to its end or to where reading it      *)
(* failed, has been received.                                              *)
THEOREM SenderReturnsTheTruth == Spec => []SenderVerdictSound
<1>1. VerdictInv => SenderVerdictSound
  <2> SUFFICES ASSUME VerdictInv, InStep, rPc \notin Failed
               PROVE  /\ sPc = "returned_true"  => received = call.size
                      /\ sPc = "returned_false" => /\ received = pos
                                                   /\ stream = "eof" => received = call.len
    BY DEF SenderVerdictSound
  <2>1. sPc \in Returned => received = pos
    BY DEF VerdictInv, PartingInv, Reliable, Parting, Settled
  <2>2. /\ sPc = "returned_true" => pos = call.size
        /\ stream = "eof" => pos = call.len
    BY DEF VerdictInv, PositionInv
  <2> QED
    BY <2>1, <2>2 DEF Returned
<1> QED
  BY <1>1, Verdicts, PTL

(* Until an answer is changed on the way, a sending end that gives up on a *)
(* package does so only when the receiving end has given up on it, or      *)
(* failed otherwise, as well.                                              *)
THEOREM EndsGiveUpTogether == Spec => []GiveUpTogether
<1>1. VerdictInv => GiveUpTogether
  BY DEF VerdictInv, AttemptsInv, Counted, Reliable, GiveUpTogether
<1> QED
  BY <1>1, Verdicts, PTL

(* As long as every read returns the whole package and every answer        *)
(* arrives as it was sent, the ends that return leave the connection clean *)
(* for the next call.                                                      *)
THEOREM ReturnsClean == Spec => []CleanReturn
<1>1. VerdictInv /\ TypeOK => CleanReturn
  <2> SUFFICES ASSUME VerdictInv, TypeOK, shorts = 0, changed = 0, ~sClosed, ~rClosed
               PROVE  /\ rPc \in Returned => fwd = << >> /\ sPc \notin {"fill", "write"}
                      /\ (sPc \in Returned /\ rPc \notin Failed) =>
                             back = << >> /\ (stream = "bad" \/ rPc \in Returned)
    BY DEF CleanReturn
  <2>1. rPc \notin Failed => Clean /\ Parting
    BY DEF VerdictInv, CleanInv, PartingInv, Reliable, InStep, Framed
  <2>2. rPc \in Returned => rPc \notin Failed /\ ~Live /\ rPc # "read"
    BY DEF Returned, Failed, Live
  <2> QED
    BY <2>1, <2>2 DEF Clean, Parting
<1> QED
  BY <1>1, Verdicts, TypeCorrect, PTL

(* The ends never wait for each other, whatever becomes of the packages    *)
(* and of the answers: as long as the receiving end is in its call, a      *)
(* sending end without an answer has one that is about to give it, or has  *)
(* a whole package to read.  And as long as no answer is changed, no end   *)
(* waits for one that has returned, unless the source could not be read.   *)
NeverBothWait ==
    /\ (Framed /\ Live /\ sPc = "ack" /\ back = << >>) =>
           rPc = "answer" \/ (rPc = "read" /\ Len(fwd) >= 2)
    /\ Reliable => /\ sPc = "ack" /\ back = << >> => Live
                   /\ sPc \in Returned /\ Live => stream = "bad"

(* This is what keeps the exchange of packages and answers from stopping   *)
(* where no read has a timeout.                                            *)
THEOREM NoMutualWait == Spec => []NeverBothWait
<1>1. ASSUME TypeOK, IntegrityInv, Framed, Live, sPc = "ack", back = << >>
      PROVE  rPc = "answer" \/ (rPc = "read" /\ Len(fwd) >= 2)
  <2>1. Sent \/ Arrived \/ Answered
    BY <1>1 DEF IntegrityInv, Phase
  <2>2. shorts \in Nat
    BY <1>1 DEF TypeOK, WireTypeOK
  <2> QED
    BY <1>1, <2>1, <2>2 DEF Sent, Arrived, Answered
<1>2. ASSUME VerdictInv, Reliable, sPc = "ack", back = << >> PROVE Live
  BY <1>2 DEF VerdictInv, PartingInv, Parting
<1>3. ASSUME VerdictInv, Reliable, sPc \in Returned, Live PROVE stream = "bad"
  BY <1>3 DEF VerdictInv, PartingInv, Parting, Live, Returned
<1>4. TypeOK /\ IntegrityInv /\ VerdictInv => NeverBothWait
  BY <1>1, <1>2, <1>3 DEF NeverBothWait
<1> QED
  BY <1>4, TypeCorrect, Integrity, Verdicts, PTL

-----------------------------------------------------------------------------
(* What a changed answer costs *)

(* A sending end that returns has been told that its last package is       *)
(* stored, and leaves none to be stored again.  A receiving end that       *)
(* returns has the whole chunk, or the end of the stream, of which the     *)
(* sending end will read no more.                                          *)
Told ==
    /\ Live /\ sPc \in Returned =>
          Delivered /\ NoHeads(fwd) /\ (rPc = "answer" => rBuf[1].kind # "head")
    /\ rPc = "returned_true" => call.amount /\ received \in call.size .. (pos + Drift)
    /\ rPc = "returned_false" => Delivered /\ stream = "eof"

(* Once the receiving end has returned nothing makes it untrue. *)
LEMMA ToldStays ==
    ASSUME TypeOK, StreamInv, Told, [Next]_vars, rPc \in Returned
    PROVE  Told'
<1>1. rPc' = rPc /\ received' = received /\ call' = call /\ changed' = changed
  <2>1. ~Live /\ rPc \notin {"read", "answer"}
    BY DEF Live, Returned
  <2>2. ~Receiver
    BY <2>1 DEF Receiver, R_Read, R_ReadTimedOut, R_ReadToFin, R_ReadThrow, R_Answer,
                R_AnswerThrow
  <2>3. CASE Sender \/ S_Close \/ R_Close \/ Reset \/ UNCHANGED vars
    BY <2>3 DEF Sender, S_Fill, S_Write, S_WriteThrow, S_ReadAnswer, S_ReadNothing,
                S_ReadThrow, S_Decide, S_Close, R_Close, Reset, vars, receiverVars, faultVars
  <2>4. CASE Vanish
    BY <2>4 DEF Vanish, faultVars, Ended
  <2> QED
    BY <2>2, <2>3, <2>4 DEF Next
<1>2. /\ pos \in Nat /\ received \in Nat /\ Drift \in Nat /\ Drift' = Drift
      /\ call.size \in Nat
  BY <1>1, CallType, Exact, DriftStep DEF TypeOK, SenderTypeOK, ReceiverTypeOK
<1>3. \/ UNCHANGED <<pos, stream>>
      \/ stream = "good" /\ pos' \in Nat /\ pos' >= pos
  <2>1. CASE S_Fill
    <3>1. stream = "good" /\ pos' = pos + pkg'.size
      BY <2>1 DEF S_Fill, StreamInv, FillInv
    <3>2. TypeOK'
      BY <2>1, SenderKeepsTypes DEF Sender
    <3>3. pkg'.size \in Nat
      BY <3>2, TunnelAssumption DEF TypeOK, SenderTypeOK, Packages
    <3> QED
      BY <1>2, <3>1, <3>3
  <2>2. CASE ~S_Fill
    BY <2>2 DEF Next, Sender, S_Write, S_WriteThrow, S_ReadAnswer, S_ReadNothing,
                S_ReadThrow, S_Decide, S_Close, R_Close, Reset, Vanish, vars, senderVars,
                Receiver, R_Read, R_ReadTimedOut, R_ReadToFin, R_ReadThrow, R_Answer,
                R_AnswerThrow
  <2> QED
    BY <2>1, <2>2
<1> HIDE DEF Drift
<1>4. ~Live'
  BY <1>1 DEF Live, Returned
<1>5. rPc = "returned_true" => call'.amount /\ received' \in call'.size .. (pos' + Drift')
  BY <1>1, <1>2, <1>3 DEF Told
<1>6. rPc = "returned_false" => Delivered' /\ stream' = "eof"
  BY <1>1, <1>2, <1>3 DEF Told, Delivered, Around
<1> QED
  BY <1>1, <1>4, <1>5, <1>6 DEF Told

(* What a live receiving end answers and stores makes it true. *)
LEMMA ToldAnswer ==
    ASSUME TypeOK, StreamInv, LocalInv, Phase, Live, Told, R_Answer
    PROVE  Told'
<1>1. rPc = "answer" /\ UNCHANGED <<call, sPc, stream, pos, pkg, fwd>>
  BY DEF R_Answer, senderVars
<1>2. PICK answer \in Answers : changed' = IF answer = ImReady THEN changed ELSE changed + 1
  BY Answering
<1>3. received' = IF Intact(rBuf) THEN received + Size(rBuf) ELSE received
  BY DEF R_Answer
<1>4. Arrived \/ (sPc \in Ended /\ LeftOver)
  BY <1>1, Pcs DEF Phase, Idle, Sent, Answered, TypeOK, SenderTypeOK
<1>5. /\ Delivered \/ Undelivered
      /\ rBuf[1].kind = "head" => Undelivered /\ rBuf[1] = HeadCell(pkg)
  BY <1>1, <1>4 DEF Arrived, LeftOver, OwnBuffer
<1>6. /\ Delivered' \/ Undelivered'
      /\ (rBuf[1].kind = "head" /\ Intact(rBuf)) => Delivered'
      /\ (rBuf[1].kind # "head" /\ Delivered) => Delivered' /\ received' = received
  BY <1>1, <1>2, <1>3, <1>5, StaysAround DEF StreamInv
<1>7. /\ pos \in Nat /\ pkg.from \in Nat /\ pkg.from <= pos /\ call.size \in Nat
      /\ received' \in Nat /\ Drift' \in Nat
  <2>1. /\ pos \in Nat /\ pkg.from \in Nat /\ pkg.from <= pos /\ call.size \in Nat
    BY CallType DEF TypeOK, SenderTypeOK, Packages, StreamInv, PosInv
  <2>2. received \in Nat /\ PackSize \in Nat /\ Drift \in Nat
    BY Exact, TunnelAssumption DEF TypeOK, ReceiverTypeOK
  <2>3. Size(rBuf) \in Nat
    BY <1>5, TunnelAssumption DEF Size, HeadCell, TypeOK, SenderTypeOK, Packages
  <2>4. Drift' = Drift \/ Drift' = Drift + PackSize
    BY <1>2, DriftStep
  <2> HIDE DEF Drift
  <2> QED
    BY <1>3, <2>1, <2>2, <2>3, <2>4
<1> HIDE DEF Drift
<1>8. /\ rPc' \in {"read", "CTransferException"} \cup Returned
      /\ rPc' = "returned_true" => call.amount /\ received' >= call.size
      /\ rPc' = "returned_false" => Intact(rBuf) /\ Eof(rBuf)
  BY <1>3 DEF R_Answer, AfterPackage, Returned
<1>9. PICK d \in Nat : d = Drift'
  BY <1>7
<1>10. received' <= pos + d
  <2>1. \/ received' \in (pos - d) .. (pos + d)
        \/ received' \in (pkg.from - d) .. (pkg.from + d)
    BY <1>1, <1>6, <1>9 DEF Delivered, Undelivered, Around
  <2> QED
    BY <1>7, <2>1
<1>11. (Live' /\ sPc' \in Returned) =>
          Delivered' /\ NoHeads(fwd') /\ (rPc' = "answer" => rBuf'[1].kind # "head")
  BY <1>1, <1>6, <1>8 DEF Told, Returned
<1>12. rPc' = "returned_true" => call'.amount /\ received' \in call'.size .. (pos' + Drift')
  <2>1. rPc' = "returned_true" => call.amount /\ received' \in call.size .. (pos + d)
    BY <1>7, <1>8, <1>10
  <2> QED
    BY <1>1, <1>9, <2>1
<1>13. rPc' = "returned_false" => Delivered' /\ stream' = "eof"
  <2>1. Eof(rBuf) => rBuf[1].kind = "head" /\ pkg.eof
    BY <1>5 DEF Eof, HeadCell
  <2> QED
    BY <1>1, <1>6, <1>8, <2>1 DEF StreamInv, EofInv
<1> QED
  BY <1>11, <1>12, <1>13 DEF Told

(* No step makes it untrue. *)
LEMMA ToldStep ==
    ASSUME TypeOK, IntegrityInv, Framed => Told, [Next]_vars
    PROVE  Framed' => Told'
<1> SUFFICES ASSUME Framed' PROVE Told'
  OBVIOUS
<1>1. Framed /\ Told
  BY InStepBefore
<1>2. CASE rPc \in Returned
  BY <1>1, <1>2, ToldStays DEF IntegrityInv
<1>3. CASE rPc \in Failed
  <2>1. rPc' = rPc
    BY <1>3, EndedStays DEF Live, Failed
  <2> QED
    BY <1>3, <2>1 DEF Told, Live, Failed
<1>4. CASE Live
  <2>1. StreamInv /\ LocalInv /\ Phase
    BY <1>1, <1>4 DEF IntegrityInv
  <2>2. CASE R_Answer
    BY <1>1, <1>4, <2>1, <2>2, ToldAnswer
  <2>3. CASE R_Read \/ R_ReadTimedOut \/ R_ReadToFin
    <3>1. rPc' = "answer" /\ UNCHANGED <<call, received, sPc, stream, pos, pkg>>
      BY <2>3 DEF R_Read, R_ReadTimedOut, R_ReadToFin, senderVars
    <3>2. Delivered' = Delivered
      <4>1. changed' = changed
        BY <2>3 DEF R_Read, R_ReadTimedOut, R_ReadToFin, faultVars
      <4> QED
        BY <3>1, <4>1 DEF Delivered, Around, Drift
    <3>3. sPc \in Returned => NoHeads(fwd') /\ rBuf'[1].kind # "head"
      BY <1>1, <1>4, <2>1, <2>3, ReadSettled DEF Told
    <3> QED
      BY <1>1, <1>4, <3>1, <3>2, <3>3 DEF Told, Live, Returned
  <2>4. CASE R_ReadThrow \/ R_AnswerThrow
    <3>1. rPc' = "CSocketException"
      BY <2>4 DEF R_ReadThrow, R_AnswerThrow
    <3> QED
      BY <3>1 DEF Told, Live
  <2>5. CASE S_ReadAnswer
    <3>1. sPc = "ack" /\ Answered /\ S_Decide(back[1])
      <4>1. sPc = "ack" /\ back # << >> /\ S_Decide(Head(back))
        BY <2>5 DEF S_ReadAnswer
      <4>2. back \in Seq(Answers)
        BY DEF TypeOK, WireTypeOK
      <4>3. Head(back) = back[1]
        BY <4>1, <4>2
      <4> QED
        BY <1>4, <2>1, <4>1, <4>3, AwaitsAnswer
    <3>2. /\ UNCHANGED <<call, stream, pos, pkg, rPc, rBuf, received, fwd, changed>>
          /\ sPc' \in Returned => back[1] = "APPROVE"
      BY <3>1, Decides DEF receiverVars, Returned
    <3>3. Delivered' = Delivered
      BY <3>2 DEF Delivered, Around, Drift
    <3>4. rPc = "read" /\ NoHeads(fwd) /\ (back[1] = "APPROVE" => Delivered)
      BY <3>1 DEF Answered
    <3> QED
      BY <3>2, <3>3, <3>4 DEF Told, Live
  <2>6. CASE S_ReadNothing
    BY <1>4, <2>1, <2>6, Pcs DEF S_ReadNothing, LocalInv, Live
  <2>7. CASE S_Fill \/ S_Write \/ S_WriteThrow \/ S_ReadThrow
    <3>1. sPc' \notin Returned /\ rPc' = rPc
      BY <2>7 DEF S_Fill, S_Write, S_WriteThrow, S_ReadThrow, Returned, receiverVars
    <3> QED
      BY <1>4, <3>1 DEF Told, Live
  <2>8. CASE Vanish
    <3>1. \/ sPc' = "vanished" /\ rPc' = rPc
          \/ rPc' = "vanished"
      BY <2>8 DEF Vanish
    <3> QED
      BY <1>4, <3>1 DEF Told, Live, Returned
  <2>9. CASE S_Close \/ R_Close \/ Reset \/ UNCHANGED vars
    <3>1. /\ UNCHANGED <<call, stream, pos, pkg, rPc, rBuf, received, fwd, changed, sPc>>
      BY <2>9 DEF S_Close, R_Close, Reset, vars, senderVars, receiverVars, wire, faultVars
    <3> QED
      BY <1>1, <3>1 DEF Told, Live, Delivered, Around, Drift
  <2> QED
    BY <2>2, <2>3, <2>4, <2>5, <2>6, <2>7, <2>8, <2>9 DEF Next, Sender, Receiver
<1> QED
  BY <1>2, <1>3, <1>4 DEF TypeOK, ReceiverTypeOK, Live, Ended

(* A changed answer costs one package at most, repeated or lost: the       *)
(* receiving end is that close, for every answer changed, to what the      *)
(* sending end takes for delivered.                                        *)
THEOREM ChangedAnswersCost == Spec => []DriftBounded
<1>1. ASSUME Init, TypeOK PROVE Framed => Told
  <2>1. /\ sPc = "returned_true" <=> rPc = "returned_true"
        /\ sPc \notin Returned <=> rPc = "read"
        /\ rPc \notin {"returned_false", "answer"}
        /\ rPc = "returned_true" => call.amount /\ call.size = 0
        /\ received = 0 /\ pos = 0 /\ fwd = << >>
    BY <1>1 DEF Init, Returned
  <2>2. Drift \in Nat
    BY <1>1, Exact
  <2> HIDE DEF Drift
  <2>3. ~Live \/ sPc \notin Returned
    BY <2>1 DEF Live, Returned
  <2>4. rPc = "returned_true" => call.amount /\ received \in call.size .. (pos + Drift)
    BY <2>1, <2>2
  <2> QED
    BY <2>1, <2>3, <2>4 DEF Told
<1>2. ASSUME TypeOK, IntegrityInv, Framed => Told, Framed, rPc \notin Failed
      PROVE  received \in (Acknowledged - Drift) .. (pos + Drift)
  <2>1. /\ received \in Nat /\ pos \in Nat /\ pkg.from \in Nat /\ pkg.from <= pos
        /\ Drift \in Nat /\ call.size \in Nat
    BY <1>2, CallType, Exact
       DEF TypeOK, ReceiverTypeOK, SenderTypeOK, Packages, IntegrityInv, StreamInv, PosInv
  <2> HIDE DEF Drift
  <2>2. Acknowledged \in Nat /\ Acknowledged <= pos
    BY <2>1 DEF Acknowledged
  <2>3. Delivered \/ (Undelivered /\ sPc \notin {"fill"} \cup Returned)
          => received \in (Acknowledged - Drift) .. (pos + Drift)
    BY <2>1 DEF Delivered, Undelivered, Around, Acknowledged
  <2>4. CASE Live
    <3>1. Phase /\ Told
      BY <1>2, <2>4 DEF IntegrityInv
    <3>2. Delivered \/ Undelivered
      BY <1>2, <3>1 DEF Phase, Sent, Arrived, Answered, LeftOver, TypeOK, SenderTypeOK
    <3>3. sPc \in {"fill"} \cup Returned => Delivered
      BY <2>4, <3>1 DEF Phase, Told
    <3> QED
      BY <2>3, <3>2, <3>3
  <2>5. CASE rPc = "returned_true"
    <3>1. received \in call.size .. (pos + Drift) /\ pos <= call.size
      BY <1>2, <2>5 DEF Told, IntegrityInv, StreamInv, ChunkInv
    <3> QED
      BY <2>1, <2>2, <3>1
  <2>6. CASE rPc = "returned_false"
    BY <1>2, <2>3, <2>6 DEF Told
  <2> QED
    BY <1>2, <2>4, <2>5, <2>6, LiveOrReturned DEF Returned
<1>3. ASSUME TypeOK, IntegrityInv, Framed => Told PROVE DriftBounded
  BY <1>2, <1>3 DEF DriftBounded, Drift
<1> QED
  BY <1>1, <1>3, ToldStep, TypeCorrect, Integrity, PTL DEF Spec

-----------------------------------------------------------------------------
(* The tunnel implements the abstract transfer *)

(* With streams that work neither the source nor the copy is ever bad. *)
WorkingStreams == disk = "good" /\ stream # "bad"

(* Streams that cannot fail work. *)
LEMMA StreamsWork == ASSUME ~StreamsFail PROVE Spec => []WorkingStreams
<1>1. Init => WorkingStreams
  BY DEF Init, WorkingStreams
<1>2. WorkingStreams /\ [Next]_vars => WorkingStreams'
  <2> SUFFICES ASSUME WorkingStreams, [Next]_vars PROVE WorkingStreams'
    OBVIOUS
  <2>1. CASE S_Fill
    BY <2>1 DEF S_Fill, WorkingStreams, receiverVars
  <2>2. CASE R_Answer
    BY <2>2 DEF R_Answer, Store, WorkingStreams, senderVars
  <2>3. CASE UNCHANGED <<disk, stream>>
    BY <2>3 DEF WorkingStreams
  <2>4. CASE R_Read \/ R_ReadTimedOut \/ R_ReadToFin \/ R_ReadThrow \/ R_AnswerThrow
    BY <2>3, <2>4 DEF R_Read, R_ReadTimedOut, R_ReadToFin, R_ReadThrow, R_AnswerThrow, senderVars
  <2>5. CASE S_Write \/ S_WriteThrow \/ S_ReadAnswer \/ S_ReadNothing \/ S_ReadThrow
    BY <2>3, <2>5 DEF S_Write, S_WriteThrow, S_ReadAnswer, S_ReadNothing, S_ReadThrow,
                      S_Decide, receiverVars
  <2>6. CASE S_Close \/ R_Close \/ Reset \/ Vanish \/ UNCHANGED vars
    BY <2>3, <2>6 DEF S_Close, R_Close, Reset, Vanish, vars, senderVars, receiverVars
  <2> QED
    BY <2>1, <2>2, <2>4, <2>5, <2>6 DEF Next, Sender, Receiver
<1> QED
  BY <1>1, <1>2, PTL DEF Spec

(* How the places in the calls map to outcomes. *)
LEMMA Outcomes ==
    /\ sPc \notin Ended => SenderOutcome = "running"
    /\ sPc = "returned_true" => SenderOutcome = "true"
    /\ sPc = "returned_false" => SenderOutcome = "false"
    /\ sPc \in Failed => SenderOutcome = "failed"
    /\ rPc \notin Ended => ReceiverOutcome = "running"
    /\ rPc = "returned_true" => ReceiverOutcome = "true"
    /\ rPc = "returned_false" => ReceiverOutcome = "false"
    /\ rPc \in Failed => ReceiverOutcome = "failed"
BY DEF SenderOutcome, ReceiverOutcome, Ended, Returned, Failed

(* So they do after a step. *)
LEMMA OutcomesAfter ==
    /\ sPc' \notin Ended => SenderOutcome' = "running"
    /\ sPc' = "returned_true" => SenderOutcome' = "true"
    /\ sPc' = "returned_false" => SenderOutcome' = "false"
    /\ sPc' \in Failed => SenderOutcome' = "failed"
    /\ rPc' \notin Ended => ReceiverOutcome' = "running"
    /\ rPc' = "returned_true" => ReceiverOutcome' = "true"
    /\ rPc' = "returned_false" => ReceiverOutcome' = "false"
    /\ rPc' \in Failed => ReceiverOutcome' = "failed"
    /\ sPc' = sPc => SenderOutcome' = SenderOutcome
    /\ rPc' = rPc => ReceiverOutcome' = ReceiverOutcome
BY DEF SenderOutcome, ReceiverOutcome, Ended, Returned, Failed

(* The initial states of the tunnel are initial states of the transfer. *)
LEMMA RefinesInit == Init => Abstract!AInit
<1> SUFFICES ASSUME Init PROVE Abstract!AInit
  OBVIOUS
<1>1. SenderOutcome = (IF call.amount /\ call.size = 0 THEN "true" ELSE "running")
        /\ ReceiverOutcome = SenderOutcome
  BY Outcomes, Pcs DEF Init
<1> QED
  BY <1>1 DEF Init, Abstract!AInit

(* A package that is stored is a Receive; one that is not leaves the copy  *)
(* alone.                                                                  *)
LEMMA RefinesReceive ==
    ASSUME TypeOK, TypeOK', IntegrityInv, IntegrityInv', PositionInv, InStep, InStep',
           WorkingStreams, WorkingStreams', R_Answer, Intact(rBuf)
    PROVE  Abstract!Receive
<1>1. /\ rPc = "answer" /\ UNCHANGED <<call, sPc, stream, pos>>
      /\ received' = received + Size(rBuf)
      /\ rPc' \in {"read"} \cup Returned
  BY DEF R_Answer, AfterPackage, Returned, senderVars
<1>2. /\ Size(rBuf) \in Nat /\ received + Size(rBuf) <= pos
  BY <1>1, ApprovedIsNext DEF IntegrityInv, Live, InStep
<1>3. /\ received \in Nat /\ pos \in Nat /\ call.len \in Nat /\ call.size \in Nat
      /\ pos <= call.len /\ (call.amount => pos <= call.size)
  BY CallType DEF TypeOK, ReceiverTypeOK, SenderTypeOK, IntegrityInv, StreamInv, ChunkInv
<1>4. Len(out) = received /\ Len(out') = received' /\ out' = FirstBytes(Len(out'))
  BY DEF IntegrityInv, PrefixDelivered, WorkingStreams
<1>5. out' = Abstract!FirstBytes(received')
  BY <1>4, Zenon DEF FirstBytes, Abstract!FirstBytes
<1>6. received' \in Len(out) .. Abstract!Most
  <2>1. received' \in Nat /\ received' >= received /\ received' <= call.len
          /\ (call.amount => received' <= call.size)
    BY <1>1, <1>2, <1>3
  <2>2. Abstract!Most \in {call.len, call.size} /\ (Abstract!Most # call.len => call.amount)
    BY DEF Abstract!Most
  <2>3. received' <= Abstract!Most /\ Abstract!Most \in Nat
    BY <1>3, <2>1, <2>2
  <2> QED
    BY <1>3, <1>4, <2>1, <2>3
<1>7. ReceiverOutcome = "running" /\ SenderOutcome' = SenderOutcome
  BY <1>1, Outcomes, OutcomesAfter, Pcs
<1>8. \/ ReceiverOutcome' = ReceiverOutcome
      \/ ReceiverOutcome' \in {"true", "false"} /\ Abstract!Complete(ReceiverOutcome', received')
  <2>1. CASE rPc' = "read"
    BY <1>7, <2>1, OutcomesAfter, Pcs
  <2>2. CASE rPc' = "returned_true"
    <3>1. call.amount /\ received' = call.size
      BY <1>1, <2>2 DEF IntegrityInv, ReceiverVerdictSound
    <3> QED
      BY <2>2, <3>1, OutcomesAfter DEF Abstract!Complete
  <2>3. CASE rPc' = "returned_false"
    <3>1. received' = call.len /\ stream = "eof"
      BY <1>1, <2>3 DEF IntegrityInv, ReceiverVerdictSound
    <3>2. call.amount => call.len < call.size
      BY <3>1 DEF PositionInv
    <3> QED
      BY <2>3, <3>1, <3>2, OutcomesAfter DEF Abstract!Complete
  <2> QED
    BY <1>1, <2>1, <2>2, <2>3 DEF Returned
<1> QED
  BY <1>1, <1>5, <1>6, <1>7, <1>8 DEF Abstract!Receive

(* A sending end that returns is a Send, one that fails a Fail. *)
LEMMA RefinesSend ==
    ASSUME TypeOK', VerdictInv', InStep', WorkingStreams', sPc = "ack",
           UNCHANGED <<call, out, rPc>>, sPc' \in {"fill", "write"} \cup Ended
    PROVE  [Abstract!ANext]_(Abstract!avars)
<1>1. SenderOutcome = "running" /\ ReceiverOutcome' = ReceiverOutcome
  BY Outcomes, OutcomesAfter, Pcs
<1>2. CASE sPc' \in {"fill", "write"}
  BY <1>1, <1>2, OutcomesAfter, Pcs DEF Abstract!avars
<1>3. CASE sPc' \in Failed
  BY <1>1, <1>3, OutcomesAfter DEF Abstract!ANext, Abstract!Fail
<1>4. CASE sPc' \in Returned
  <2>1. SenderOutcome' \in {"true", "false"}
    BY <1>4, OutcomesAfter DEF Returned
  <2>2. CASE rPc \in Failed
    <3>1. ReceiverOutcome = "failed"
      BY <2>2, Outcomes
    <3> QED
      BY <1>1, <2>1, <3>1 DEF Abstract!ANext, Abstract!Send
  <2>3. CASE rPc \notin Failed
    <3>1. rPc' = sPc'
      BY <1>4, <2>3 DEF VerdictInv, PartingInv, Parting, Reliable, WorkingStreams
    <3>2. ReceiverOutcome' = SenderOutcome'
      BY <1>4, <3>1, OutcomesAfter DEF Returned
    <3> QED
      BY <1>1, <2>1, <3>2 DEF Abstract!ANext, Abstract!Send
  <2> QED
    BY <2>2, <2>3
<1> QED
  BY <1>2, <1>3, <1>4, Pcs

(* Every step of the tunnel is a step of the transfer or leaves it alone. *)
LEMMA RefinesStep ==
    ASSUME TypeOK, TypeOK', IntegrityInv, IntegrityInv', VerdictInv, VerdictInv',
           InStep, InStep', WorkingStreams, WorkingStreams', [Next]_vars
    PROVE  [Abstract!ANext]_(Abstract!avars)
<1>1. /\ sPc \in {"fill", "write", "ack"} \cup Ended /\ sPc' \in {"fill", "write", "ack"} \cup Ended
      /\ rPc \in {"read", "answer"} \cup Ended
  BY DEF TypeOK, SenderTypeOK, ReceiverTypeOK
<1>2. ASSUME UNCHANGED <<call, out>>,
             sPc' = sPc \/ (sPc \notin Ended /\ sPc' \notin Ended),
             rPc' = rPc \/ (rPc \notin Ended /\ rPc' \notin Ended)
      PROVE  [Abstract!ANext]_(Abstract!avars)
  BY <1>2, Outcomes, OutcomesAfter DEF Abstract!avars
<1>3. ASSUME UNCHANGED <<call, out, rPc>>, sPc \notin Ended, sPc' \in Failed
      PROVE  [Abstract!ANext]_(Abstract!avars)
  BY <1>3, Outcomes, OutcomesAfter DEF Abstract!ANext, Abstract!Fail
<1>4. ASSUME UNCHANGED <<call, out, sPc>>, rPc \notin Ended, rPc' \in Failed
      PROVE  [Abstract!ANext]_(Abstract!avars)
  BY <1>4, Outcomes, OutcomesAfter DEF Abstract!ANext, Abstract!Fail
<1>5. CASE S_Fill \/ S_Write
  BY <1>2, <1>5, Pcs DEF S_Fill, S_Write, receiverVars
<1>6. CASE S_WriteThrow \/ S_ReadThrow
  BY <1>3, <1>6, Pcs DEF S_WriteThrow, S_ReadThrow, receiverVars, Failed
<1>7. CASE S_ReadAnswer \/ S_ReadNothing
  <2>1. PICK answer : sPc = "ack" /\ S_Decide(answer)
    BY <1>7 DEF S_ReadAnswer, S_ReadNothing
  <2>2. UNCHANGED <<call, out, rPc>> /\ sPc' \in {"fill", "write"} \cup Ended
    BY <2>1, Decides DEF receiverVars, Ended, Failed
  <2> QED
    BY <2>1, <2>2, RefinesSend
<1>8. CASE R_Read \/ R_ReadTimedOut \/ R_ReadToFin
  BY <1>2, <1>8, Pcs DEF R_Read, R_ReadTimedOut, R_ReadToFin, senderVars
<1>9. CASE R_ReadThrow \/ R_AnswerThrow
  BY <1>4, <1>9, Pcs DEF R_ReadThrow, R_AnswerThrow, senderVars, Failed
<1>10. CASE R_Answer
  <2>1. CASE Intact(rBuf)
    BY <1>10, <2>1, RefinesReceive DEF VerdictInv, Abstract!ANext
  <2>2. CASE ~Intact(rBuf)
    <3>1. /\ rPc = "answer" /\ rPc' \in {"read", "CTransferException"}
          /\ UNCHANGED <<call, out, sPc>>
      BY <1>10, <2>2 DEF R_Answer, senderVars
    <3> QED
      BY <1>2, <1>4, <3>1, Pcs DEF Failed
  <2> QED
    BY <2>1, <2>2
<1>11. CASE S_Close \/ R_Close \/ Reset \/ UNCHANGED vars
  BY <1>2, <1>11 DEF S_Close, R_Close, Reset, vars, senderVars, receiverVars
<1>12. CASE Vanish
  BY <1>3, <1>4, <1>12 DEF Vanish, Failed
<1> QED
  BY <1>5, <1>6, <1>7, <1>8, <1>9, <1>10, <1>11, <1>12 DEF Next, Sender, Receiver

(* With streams that can be read and written, every step of the tunnel up  *)
(* to the first changed answer and the second read cut short is one of the *)
(* abstract transfer, for every call: the copy grows as a prefix of the    *)
(* stream, and the ends return the verdicts that the copy justifies or     *)
(* fail.                                                                   *)
THEOREM ImplementsTransfer ==
    ASSUME ~StreamsFail
    PROVE  Spec => AbstractTransfer
<1>1. ASSUME TypeOK, TypeOK', IntegrityInv, IntegrityInv', VerdictInv, VerdictInv',
             WorkingStreams, WorkingStreams', [Next]_vars
      PROVE  [InStep' => Abstract!ANext]_(Abstract!avars)
  <2>1. CASE InStep'
    BY <1>1, <2>1, InStepBefore, RefinesStep
  <2>2. CASE ~InStep'
    BY <2>2
  <2> QED
    BY <2>1, <2>2
<1>2. Spec => []WorkingStreams
  BY StreamsWork
<1> QED
  BY RefinesInit, <1>1, <1>2, TypeCorrect, Integrity, Verdicts, PTL
  DEF Spec, AbstractTransfer

(* On a network that changes no answer, and where no two reads of a call   *)
(* are cut short, the tunnel implements the transfer from end to end.      *)
THEOREM ImplementsTransferInStep ==
    ASSUME MaxChanged = 0, MaxShort < 2, ~StreamsFail
    PROVE  Spec => Abstract!ASpec
<1>1. TypeOK => InStep
  BY TunnelAssumption DEF TypeOK, WireTypeOK, InStep, Framed
<1>2. ASSUME TypeOK, TypeOK', IntegrityInv, IntegrityInv', VerdictInv, VerdictInv',
             InStep, InStep', WorkingStreams, WorkingStreams', [Next]_vars
      PROVE  [Abstract!ANext]_(Abstract!avars)
  BY <1>2, RefinesStep
<1>3. Spec => []WorkingStreams
  BY StreamsWork
<1> QED
  BY RefinesInit, <1>1, <1>2, <1>3, TypeCorrect, Integrity, Verdicts, PTL
  DEF Spec, Abstract!ASpec

=============================================================================
