---------------------------- MODULE SessionProofs ----------------------------
(***************************************************************************)
(* Proofs about Session: the types, that the server prints the answer to   *)
(* the command it was given, and that the two ends never both send as long *)
(* as every file can be opened.                                            *)
(***************************************************************************)
EXTENDS Session, TLAPS

-----------------------------------------------------------------------------
(* The inductive invariant *)

(* The server is in no command any more. *)
Over == ServerClosed \cup {"vanished"}

(* Commands and clients that carry one out have numbers, from 1 on. *)
Numbered ==
    /\ sPc \in Waiting \cup {"transfer"} => asked >= 1
    /\ cPc \in {"send", "recv_chunk"} => handling >= 1

SessionTypes == TypeOK /\ Numbered

(* What the connection holds, whatever has been typed: nothing goes to the *)
(* client but what the server is just sending, and nothing to the server   *)
(* but what the client is just sending or died sending.                    *)
WireInv ==
    /\ sPc \in {"prompt", "recv", "recv_status", "transfer"} => toClient = None
    /\ toClient # None => toClient.about = asked
    /\ (toClient # None /\ sPc = "send") => toClient.text = cmd /\ cmd \in seen
    /\ (toClient # None /\ sPc = "send_chunk") => toClient.text \in Chunks
    /\ toServer # None => cPc \in {"send", "gone"} /\ toServer.about = handling
    /\ next = "complain" => "unreadable" \in seen

(* The client has nothing to say before it has the server's message.       *)
SilentInv ==
    ("unreadable" \notin seen
        /\ (sPc = "prompt" \/ (sPc \in {"send", "send_chunk"} /\ toClient # None)))
        => toServer = None

(* Nobody has typed client alone, or getfile after it. *)
Plain == seen \cap {"client", "client_getfile"} = {}

(* The server waits for the answer to its message: the client is carrying  *)
(* out that command.                                                       *)
CaughtUpInv ==
    (Plain /\ (sPc \in {"recv", "recv_status"} \/ (sPc = "send" /\ toClient = None)))
        => handling = asked

(* A client that has offered a file is only waiting for a chunk size while *)
(* the server's getfile has the offer, or is over.                         *)
Offering == cPc = "send" /\ next = "recv_chunk"

OfferInv ==
    Plain =>
       /\ (Offering /\ toServer # None) =>
             /\ toServer.text = "status_1"
             /\ sPc \in Over \/ (sPc \in {"send", "recv_status"} /\ cmd = "getfile")
             /\ sPc = "send" => toClient = None
       /\ (cPc = "recv_chunk" \/ (Offering /\ toServer = None)) =>
             sPc \in {"send_chunk", "transfer"} \cup Over

SessionInv ==
    SessionTypes /\ WireInv /\ SilentInv /\ CaughtUpInv /\ OfferInv /\ ReplyMatches

-----------------------------------------------------------------------------
(* Types *)

(* A message is a record of its own kind and never None. *)
LEMMA Messages ==
    /\ None.text = "none" /\ None.about = 0
    /\ \A t, a : Message(t, a).text = t /\ Message(t, a).about = a
    /\ \A t, a : t # "none" => Message(t, a) # None
    /\ \A t, a, T : (t \in T /\ a \in 1 .. asked)
          => Message(t, a) \in [text : T, about : 1 .. asked]
<1>1. \A t, a : Message(t, a).text = t /\ Message(t, a).about = a
  BY DEF Message
<1>2. None.text = "none" /\ None.about = 0
  BY DEF None
<1>3. \A t, a, T : (t \in T /\ a \in 1 .. asked)
          => Message(t, a) \in [text : T, about : 1 .. asked]
  BY DEF Message
<1> QED
  BY <1>1, <1>2, <1>3

(* The state a session module starts in has the types. *)
LEMMA InitTypes == Init => SessionTypes
<1> SUFFICES ASSUME Init PROVE SessionTypes
  OBVIOUS
<1>1. cmd \in AllCommands /\ asked \in 0 .. MaxCommands /\ handling \in 0 .. asked
  BY SessionAssumption DEF Init, AllCommands
<1>2. printed \in (0 .. asked) \X (0 .. asked)
  BY DEF Init
<1>3. toClient = None /\ toServer = None /\ stale = FALSE /\ seen = {}
  BY DEF Init
<1>4. sPc = "accept" /\ cPc = "gone" /\ next = "recv" /\ sessions \in 0 .. MaxSessions
  BY SessionAssumption DEF Init
<1>5. Numbered
  BY <1>4 DEF Numbered, Waiting
<1>6. TypeOK
  BY <1>1, <1>2, <1>3, <1>4 DEF TypeOK, ServerClosed
<1> QED
  BY <1>5, <1>6 DEF SessionTypes

(* The server's steps keep the types. *)
LEMMA ServerKeepsTypes ==
    SessionTypes /\ (ServerStep \/ S_Command \/ S_Quit \/ S_Damaged \/ S_Vanish) => SessionTypes'
<1> SUFFICES ASSUME SessionTypes PROVE
      (ServerStep \/ S_Command \/ S_Quit \/ S_Damaged \/ S_Vanish) => SessionTypes'
  OBVIOUS
<1> USE SessionAssumption DEF SessionTypes, TypeOK, Numbered, Waiting, ServerClosed,
      clientVars, wireVars, serverVars
<1>1. ASSUME S_Command PROVE SessionTypes'
  <2>1. PICK c \in Commands :
          /\ cmd' = c /\ asked' = asked + 1 /\ seen' = seen \cup {c}
          /\ IF c = "client" THEN sPc' = "recv" /\ UNCHANGED toClient
             ELSE sPc' = "send" /\ toClient' = Message(c, asked + 1)
    BY <1>1 DEF S_Command
  <2>2. toClient' \in {None} \cup [text : Commands \cup Chunks, about : 1 .. asked + 1]
    BY <2>1 DEF Message
  <2>3. toServer' \in {None} \cup [text : ClientTexts, about : 1 .. asked + 1]
    BY <1>1 DEF S_Command
  <2> QED
    BY <1>1, <2>1, <2>2, <2>3 DEF S_Command
<1>2. ASSUME S_Print PROVE SessionTypes'
  <2>1. toServer.about \in 1 .. asked
    BY <1>2 DEF S_Print, S_Take
  <2>2. printed' \in (0 .. asked) \X (0 .. asked)
    BY <1>2, <2>1 DEF S_Print
  <2>3. stale' \in BOOLEAN /\ toServer' = None
    BY <1>2 DEF S_Print, S_Take
  <2> QED
    BY <1>2, <2>2, <2>3 DEF S_Print
<1>3. ASSUME S_Status PROVE SessionTypes'
  <2>1. stale' \in BOOLEAN /\ toServer' = None
    BY <1>3 DEF S_Status, S_Take
  <2>2. toClient' \in {None} \cup [text : Commands \cup Chunks, about : 1 .. asked]
    BY <1>3 DEF S_Status, Message
  <2>3. sPc' \in {"send_chunk", "accept", "prompt"}
    BY <1>3 DEF S_Status, AfterBindFailure
  <2> QED
    BY <1>3, <2>1, <2>2, <2>3 DEF S_Status
<1>4. ASSUME S_Saved PROVE SessionTypes'
  BY <1>4 DEF S_Saved
<1>5. ASSUME S_Sent PROVE SessionTypes'
  BY <1>5 DEF S_Sent, Answered
<1>6. ASSUME S_Drop \/ S_Die \/ S_Quit \/ S_Damaged PROVE SessionTypes'
  BY <1>6 DEF S_Drop, S_Die, S_Quit, S_Damaged
<1>7. ASSUME S_Vanish PROVE SessionTypes'
  BY <1>7 DEF S_Vanish
<1> QED
  BY <1>1, <1>2, <1>3, <1>4, <1>5, <1>6, <1>7 DEF ServerStep

(* The client's steps, and a new connection, keep the types. *)
LEMMA ClientKeepsTypes ==
    SessionTypes /\ (ClientStep \/ Connect \/ C_SentShort \/ C_Killed) => SessionTypes'
<1> SUFFICES ASSUME SessionTypes PROVE
      (ClientStep \/ Connect \/ C_SentShort \/ C_Killed) => SessionTypes'
  OBVIOUS
<1> USE SessionAssumption DEF SessionTypes, TypeOK, Numbered, Waiting, ServerClosed,
      clientVars, wireVars, serverVars
<1>1. ASSUME C_Interpret PROVE SessionTypes'
  <2>1. toClient.about \in 1 .. asked
    BY <1>1 DEF C_Interpret
  <2> DEFINE Said ==
        /\ toServer' \in {None} \cup [text : ClientTexts, about : 1 .. asked]
        /\ cPc' \in {"send", "gone"} /\ next' \in {"recv", "recv_chunk", "complain"}
        /\ seen' \subseteq Commands \cup Files
  <2>2. Said
    <3>1. ASSUME NEW text \in ClientTexts, NEW after, Say(text, toClient.about, after)
          PROVE  /\ toServer' \in {None} \cup [text : ClientTexts, about : 1 .. asked]
                 /\ cPc' = "send" /\ next' = after
      BY <2>1, <3>1 DEF Say, Message
    <3>2. ASSUME C_Getfile(toClient.about) PROVE Said
      <4>1. PICK file \in Files :
              /\ seen' = seen \cup {file}
              /\ \/ Say("error", toClient.about, "recv")
                 \/ Say("status_0", toClient.about, "complain")
                 \/ Say("status_1", toClient.about, "recv_chunk")
        BY <3>2 DEF C_Getfile
      <4> QED
        BY <4>1, <3>1 DEF ClientTexts
    <3>3. C_Getfile(toClient.about)
            \/ (cPc' = "gone" /\ UNCHANGED <<next, toServer, seen>>)
            \/ (Say("reply", toClient.about, "recv") /\ UNCHANGED seen)
      BY <1>1 DEF C_Interpret
    <3> QED
      BY <3>1, <3>2, <3>3 DEF ClientTexts
  <2>3. UNCHANGED <<serverVars, stale, sessions>> /\ toClient' = None
          /\ handling' = toClient.about
    BY <1>1 DEF C_Interpret
  <2> QED
    BY <2>1, <2>2, <2>3
<1>2. ASSUME C_Chunk PROVE SessionTypes'
  <2>1. handling \in 1 .. asked /\ toClient' = None
    BY <1>2 DEF C_Chunk
  <2>2. /\ toServer' \in {None} \cup [text : ClientTexts, about : 1 .. asked]
        /\ cPc' \in {"send", "gone", "transfer"} /\ next' \in {"recv", "recv_chunk", "complain"}
    BY <1>2, <2>1 DEF C_Chunk, Say, Message, ClientTexts
  <2> QED
    BY <1>2, <2>1, <2>2 DEF C_Chunk
<1>3. ASSUME C_Sent PROVE SessionTypes'
  <2>1. handling \in 1 .. asked
    BY <1>3 DEF C_Sent
  <2>2. /\ toServer' \in {None} \cup [text : ClientTexts, about : 1 .. asked]
        /\ cPc' \in {"send", "recv", "recv_chunk"} /\ next' \in {"recv", "recv_chunk", "complain"}
    BY <1>3, <2>1 DEF C_Sent, Say, Message, ClientTexts
  <2> QED
    BY <1>3, <2>1, <2>2 DEF C_Sent
<1>4. ASSUME C_Ends \/ C_SentShort \/ C_Killed PROVE SessionTypes'
  BY <1>4 DEF C_Ends, C_SentShort, C_Killed
<1>5. ASSUME Connect PROVE SessionTypes'
  <2>1. printed' \in (0 .. 0) \X (0 .. 0) /\ asked' = 0
    BY <1>5 DEF Connect
  <2>2. sessions' \in 0 .. MaxSessions
    BY <1>5 DEF Connect
  <2>3. toClient' = None /\ toServer' = None /\ stale' = FALSE /\ seen' = {}
    BY <1>5 DEF Connect
  <2>4. sPc' = "prompt" /\ cPc' = "recv" /\ next' = "recv" /\ handling' = 0 /\ UNCHANGED cmd
    BY <1>5 DEF Connect
  <2>5. Numbered'
    BY <2>4 DEF Numbered
  <2>6. printed' \in (0 .. asked') \X (0 .. asked') /\ asked' \in 0 .. MaxCommands
          /\ handling' \in 0 .. asked'
    BY <2>1, <2>4
  <2>7. sPc' \in Waiting \cup ServerClosed \cup {"prompt", "transfer", "vanished"}
          /\ cPc' \in {"recv", "send", "recv_chunk", "transfer", "gone"}
          /\ next' \in {"recv", "recv_chunk", "complain"} /\ cmd' \in AllCommands
    BY <2>4
  <2> QED
    BY <2>2, <2>3, <2>5, <2>6, <2>7
<1> QED
  BY <1>1, <1>2, <1>3, <1>4, <1>5 DEF ClientStep

(* Every step keeps the types. *)
LEMMA StepKeepsTypes == SessionTypes /\ [Next]_vars => SessionTypes'
<1>1. SessionTypes /\ UNCHANGED vars => SessionTypes'
  BY DEF vars, serverVars, clientVars, wireVars, SessionTypes, TypeOK, Numbered
<1> QED
  BY <1>1, ServerKeepsTypes, ClientKeepsTypes DEF Next

(* Every variable of a session keeps its type: a message is about a        *)
(* command of its session, and the counters stay within their bounds.      *)
THEOREM TypeCorrect == Spec => []TypeOK
<1>1. Spec => []SessionTypes
  BY InitTypes, StepKeepsTypes, PTL DEF Spec
<1>2. SessionTypes => TypeOK
  BY DEF SessionTypes
<1> QED
  BY <1>1, <1>2, PTL

-----------------------------------------------------------------------------
(* The dialogue *)

(* What each step does to the variables the invariant is about, but for    *)
(* the messages; one conjunct for each kind of step.                       *)
LEMMA Steps ==
    /\ S_Quit \/ S_Drop \/ S_Die \/ S_Damaged =>
          sPc' \in Over /\ UNCHANGED <<cmd, asked, printed, clientVars, wireVars, seen>>
    /\ S_Vanish => /\ sPc' \in Over /\ toClient' \in {toClient, None}
                   /\ UNCHANGED <<cmd, asked, printed, clientVars, toServer, seen>>
    /\ C_SentShort \/ C_Ends \/ C_Killed =>
          /\ cPc' = "gone" \/ (cPc = "transfer" /\ cPc' = "recv")
          /\ UNCHANGED <<serverVars, handling, next, wireVars, seen>>
<1>1. S_Quit \/ S_Drop \/ S_Die \/ S_Damaged =>
        sPc' \in Over /\ UNCHANGED <<cmd, asked, printed, clientVars, wireVars, seen>>
  BY DEF S_Quit, S_Drop, S_Die, S_Damaged, Over, ServerClosed
<1>2. S_Vanish => /\ sPc' \in Over /\ toClient' \in {toClient, None}
                  /\ UNCHANGED <<cmd, asked, printed, clientVars, toServer, seen>>
  BY DEF S_Vanish, Over
<1>3. C_SentShort \/ C_Ends \/ C_Killed =>
        /\ cPc' = "gone" \/ (cPc = "transfer" /\ cPc' = "recv")
        /\ UNCHANGED <<serverVars, handling, next, wireVars, seen>>
  BY DEF C_SentShort, C_Ends, C_Killed
<1> QED
  BY <1>1, <1>2, <1>3

(* What the client does with a message of the server's: it takes it, and   *)
(* says nothing, or something about that command.  It offers a file only   *)
(* when it is asked for one, and one more message is to follow only if the *)
(* file could not be opened.                                               *)
LEMMA Interprets ==
    ASSUME C_Interpret
    PROVE  /\ cPc = "recv" /\ toClient # None /\ toClient' = None
           /\ handling' = toClient.about /\ seen \subseteq seen'
           /\ seen' \subseteq seen \cup Files
           /\ \/ cPc' = "gone" /\ UNCHANGED <<next, toServer>>
              \/ /\ cPc' = "send" /\ toServer' # None /\ toServer'.about = toClient.about
                 /\ next' \in {"recv", "recv_chunk", "complain"}
                 /\ next' = "complain" => "unreadable" \in seen'
                 /\ next' = "recv_chunk" => /\ toServer'.text = "status_1"
                                            /\ toClient.text \in {"getfile", "client_getfile"}
<1> DEFINE About(m) == m # None /\ m.about = toClient.about
<1>1. cPc = "recv" /\ toClient # None /\ toClient' = None /\ handling' = toClient.about
  BY DEF C_Interpret
<1>2. ASSUME NEW text \in {"reply", "error", "status_0", "status_1"}, NEW after,
             Say(text, toClient.about, after)
      PROVE  About(toServer') /\ toServer'.text = text /\ cPc' = "send" /\ next' = after
  BY <1>2, Messages DEF Say
<1>3. CASE toClient.text \in {"getfile", "client_getfile"} /\ C_Getfile(toClient.about)
  <2>1. PICK file \in Files :
          /\ seen' = seen \cup {file}
          /\ \/ Say("error", toClient.about, "recv")
             \/ file = "unreadable" /\ Say("status_0", toClient.about, "complain")
             \/ Say("status_1", toClient.about, "recv_chunk")
    BY <1>3, SessionAssumption DEF C_Getfile
  <2> QED
    BY <1>1, <1>2, <1>3, <2>1
<1>4. CASE cPc' = "gone" /\ UNCHANGED <<next, toServer, seen>>
  BY <1>1, <1>4
<1>5. CASE Say("reply", toClient.about, "recv") /\ UNCHANGED seen
  BY <1>1, <1>2, <1>5
<1> QED
  BY <1>3, <1>4, <1>5 DEF C_Interpret

(* What the client does with a message it takes for a chunk size. *)
LEMMA ReadsChunk ==
    ASSUME C_Chunk
    PROVE  /\ cPc = "recv_chunk" /\ toClient # None /\ toClient' = None
           /\ UNCHANGED <<handling, seen>>
           /\ \/ cPc' \in {"transfer", "gone"} /\ UNCHANGED <<next, toServer>>
              \/ /\ cPc' = "send" /\ toServer' # None /\ toServer'.about = handling
                 /\ next' = "recv"
<1>1. Say("error", handling, "recv") =>
        /\ cPc' = "send" /\ toServer' # None /\ toServer'.about = handling /\ next' = "recv"
  BY Messages DEF Say
<1> QED
  BY <1>1 DEF C_Chunk

(* What the client does once its message has been taken: it complains as   *)
(* it meant to, or goes on.                                                *)
LEMMA GoesOn ==
    ASSUME C_Sent
    PROVE  /\ cPc = "send" /\ toServer = None /\ UNCHANGED <<handling, toClient, seen>>
           /\ \/ /\ next = "complain" /\ next' = "recv" /\ cPc' = "send"
                 /\ toServer' # None /\ toServer'.about = handling
              \/ next # "complain" /\ cPc' = next /\ UNCHANGED <<next, toServer>>
<1>1. Say("error", handling, "recv") =>
        /\ cPc' = "send" /\ toServer' # None /\ toServer'.about = handling /\ next' = "recv"
  BY Messages DEF Say
<1> QED
  BY <1>1 DEF C_Sent

(* What a new command does: it is noted, and either sent or, if it is      *)
(* client alone, only its answer awaited.                                  *)
LEMMA Commanded ==
    ASSUME S_Command
    PROVE  /\ sPc = "prompt" /\ asked' = asked + 1 /\ seen' = seen \cup {cmd'}
           /\ \/ cmd' = "client" /\ sPc' = "recv" /\ UNCHANGED toClient
              \/ /\ sPc' = "send" /\ toClient' # None
                 /\ toClient'.text = cmd' /\ toClient'.about = asked'
<1>1. PICK c \in Commands :
        /\ cmd' = c /\ asked' = asked + 1 /\ seen' = seen \cup {c}
        /\ IF c = "client" THEN sPc' = "recv" /\ UNCHANGED toClient
           ELSE sPc' = "send" /\ toClient' = Message(c, asked + 1)
  BY DEF S_Command
<1>2. c # "none"
  BY SessionAssumption DEF AllCommands
<1>3. CASE c = "client"
  BY <1>1, <1>3 DEF S_Command
<1>4. CASE c # "client"
  BY <1>1, <1>2, <1>4, Messages DEF S_Command
<1> QED
  BY <1>3, <1>4

(* Every step keeps what is known of the connection. *)
LEMMA WireStep == SessionTypes /\ WireInv /\ [Next]_vars => WireInv'
<1> SUFFICES ASSUME SessionTypes /\ WireInv, [Next]_vars PROVE WireInv'
  OBVIOUS
<1> USE DEF WireInv, Waiting, Over, ServerClosed, serverVars, clientVars, wireVars
<1>1. CASE S_Command
  BY <1>1, Commanded DEF S_Command
<1>2. CASE S_Print
  BY <1>2 DEF S_Print, S_Take
<1>3. CASE S_Status
  BY <1>3, Messages DEF S_Status, S_Take, AfterBindFailure, Chunks
<1>4. CASE S_Sent
  BY <1>4 DEF S_Sent, Answered
<1>5. CASE S_Saved
  BY <1>5 DEF S_Saved
<1>6. CASE S_Quit \/ S_Drop \/ S_Die \/ S_Damaged \/ S_Vanish
  BY <1>6, Steps
<1>7. CASE C_Interpret
  BY <1>7, Interprets DEF C_Interpret
<1>8. CASE C_Chunk
  BY <1>8, ReadsChunk DEF C_Chunk
<1>9. CASE C_Sent
  BY <1>9, GoesOn DEF C_Sent
<1>10. CASE C_SentShort \/ C_Ends \/ C_Killed
  BY <1>10, Steps
<1>11. CASE Connect
  BY <1>11 DEF Connect
<1>12. CASE UNCHANGED vars
  BY <1>12 DEF vars
<1> QED
  BY <1>1, <1>2, <1>3, <1>4, <1>5, <1>6, <1>7, <1>8, <1>9, <1>10, <1>11, <1>12
  DEF Next, ServerStep, ClientStep

(* A client that can open its files never speaks unasked. *)
LEMMA SilentStep == SessionTypes /\ WireInv /\ SilentInv /\ [Next]_vars => SilentInv'
<1> SUFFICES ASSUME SessionTypes /\ WireInv /\ SilentInv, [Next]_vars PROVE SilentInv'
  OBVIOUS
<1> USE DEF WireInv, SilentInv, Waiting, Over, ServerClosed, serverVars, clientVars, wireVars
<1>1. CASE S_Command
  BY <1>1, Commanded DEF S_Command
<1>2. CASE S_Print
  BY <1>2 DEF S_Print, S_Take
<1>3. CASE S_Status
  BY <1>3, Messages DEF S_Status, S_Take, AfterBindFailure, Chunks
<1>4. CASE S_Sent
  BY <1>4 DEF S_Sent, Answered
<1>5. CASE S_Saved
  BY <1>5 DEF S_Saved
<1>6. CASE S_Quit \/ S_Drop \/ S_Die \/ S_Damaged \/ S_Vanish
  BY <1>6, Steps
<1>7. CASE C_Interpret
  BY <1>7, Interprets DEF C_Interpret
<1>8. CASE C_Chunk
  BY <1>8, ReadsChunk DEF C_Chunk
<1>9. CASE C_Sent
  BY <1>9, GoesOn DEF C_Sent
<1>10. CASE C_SentShort \/ C_Ends \/ C_Killed
  BY <1>10, Steps
<1>11. CASE Connect
  BY <1>11 DEF Connect
<1>12. CASE UNCHANGED vars
  BY <1>12 DEF vars
<1> QED
  BY <1>1, <1>2, <1>3, <1>4, <1>5, <1>6, <1>7, <1>8, <1>9, <1>10, <1>11, <1>12
  DEF Next, ServerStep, ClientStep

(* The client carries out the command whose answer is awaited. *)
LEMMA CaughtUpStep == SessionTypes /\ WireInv /\ CaughtUpInv /\ OfferInv /\ [Next]_vars => CaughtUpInv'
<1> SUFFICES ASSUME SessionTypes /\ WireInv /\ CaughtUpInv /\ OfferInv, [Next]_vars PROVE CaughtUpInv'
  OBVIOUS
<1> USE DEF WireInv, CaughtUpInv, OfferInv, Offering, Plain, Waiting, Over, ServerClosed, serverVars, clientVars, wireVars
<1>1. CASE S_Command
  BY <1>1, Commanded DEF S_Command
<1>2. CASE S_Print
  BY <1>2 DEF S_Print, S_Take
<1>3. CASE S_Status
  BY <1>3, Messages DEF S_Status, S_Take, AfterBindFailure, Chunks
<1>4. CASE S_Sent
  BY <1>4 DEF S_Sent, Answered
<1>5. CASE S_Saved
  BY <1>5 DEF S_Saved
<1>6. CASE S_Quit \/ S_Drop \/ S_Die \/ S_Damaged \/ S_Vanish
  BY <1>6, Steps
<1>7. CASE C_Interpret
  BY <1>7, Interprets DEF C_Interpret
<1>8. CASE C_Chunk
  BY <1>8, ReadsChunk DEF C_Chunk
<1>9. CASE C_Sent
  BY <1>9, GoesOn DEF C_Sent
<1>10. CASE C_SentShort \/ C_Ends \/ C_Killed
  BY <1>10, Steps
<1>11. CASE Connect
  BY <1>11 DEF Connect
<1>12. CASE UNCHANGED vars
  BY <1>12 DEF vars
<1> QED
  BY <1>1, <1>2, <1>3, <1>4, <1>5, <1>6, <1>7, <1>8, <1>9, <1>10, <1>11, <1>12
  DEF Next, ServerStep, ClientStep

(* An offer is only ever made to the server's getfile. *)
LEMMA OfferStep == SessionTypes /\ WireInv /\ OfferInv /\ [Next]_vars => OfferInv'
<1> SUFFICES ASSUME SessionTypes /\ WireInv /\ OfferInv, [Next]_vars PROVE OfferInv'
  OBVIOUS
<1> USE DEF WireInv, OfferInv, Offering, Plain, Waiting, Over, ServerClosed, serverVars, clientVars, wireVars
<1>1. CASE S_Command
  BY <1>1, Commanded DEF S_Command
<1>2. CASE S_Print
  BY <1>2 DEF S_Print, S_Take
<1>3. CASE S_Status
  BY <1>3, Messages DEF S_Status, S_Take, AfterBindFailure, Chunks
<1>4. CASE S_Sent
  BY <1>4 DEF S_Sent, Answered
<1>5. CASE S_Saved
  BY <1>5 DEF S_Saved
<1>6. CASE S_Quit \/ S_Drop \/ S_Die \/ S_Damaged \/ S_Vanish
  BY <1>6, Steps
<1>7. CASE C_Interpret
  <2>1. UNCHANGED serverVars /\ toClient' = None /\ cPc' # "recv_chunk"
    BY <1>7, Interprets DEF C_Interpret
  <2>2. ASSUME Plain', cPc' = "send", next' = "recv_chunk"
        PROVE  /\ toServer' # None /\ toServer'.text = "status_1"
               /\ sPc \in Over \/ (sPc = "send" /\ cmd = "getfile")
    <3>1. /\ cPc = "recv" /\ toClient # None /\ toServer' # None
          /\ toServer'.text = "status_1" /\ toClient.text \in {"getfile", "client_getfile"}
          /\ seen \subseteq seen'
      BY <1>7, <2>2, Interprets
    <3>2. sPc \in Over \cup {"send", "send_chunk"}
      BY <3>1 DEF SessionTypes, TypeOK
    <3>3. sPc # "send_chunk"
      BY <3>1 DEF Chunks
    <3> QED
      BY <2>2, <3>1, <3>2, <3>3
  <2> QED
    BY <2>1, <2>2
<1>8. CASE C_Chunk
  BY <1>8, ReadsChunk DEF C_Chunk
<1>9. CASE C_Sent
  BY <1>9, GoesOn DEF C_Sent
<1>10. CASE C_SentShort \/ C_Ends \/ C_Killed
  BY <1>10, Steps
<1>11. CASE Connect
  BY <1>11 DEF Connect
<1>12. CASE UNCHANGED vars
  BY <1>12 DEF vars
<1> QED
  BY <1>1, <1>2, <1>3, <1>4, <1>5, <1>6, <1>7, <1>8, <1>9, <1>10, <1>11, <1>12
  DEF Next, ServerStep, ClientStep

(* What is printed is about the command it is printed for. *)
LEMMA ReplyStep == SessionTypes /\ WireInv /\ CaughtUpInv /\ ReplyMatches /\ [Next]_vars => ReplyMatches'
<1> SUFFICES ASSUME SessionTypes /\ WireInv /\ CaughtUpInv /\ ReplyMatches, [Next]_vars PROVE ReplyMatches'
  OBVIOUS
<1> USE DEF WireInv, CaughtUpInv, Plain, ReplyMatches, Waiting, Over, ServerClosed, serverVars, clientVars, wireVars
<1>1. CASE S_Command
  BY <1>1, Commanded DEF S_Command
<1>2. CASE S_Print
  BY <1>2 DEF S_Print, S_Take
<1>3. CASE S_Status
  BY <1>3, Messages DEF S_Status, S_Take, AfterBindFailure, Chunks
<1>4. CASE S_Sent
  BY <1>4 DEF S_Sent, Answered
<1>5. CASE S_Saved
  BY <1>5 DEF S_Saved
<1>6. CASE S_Quit \/ S_Drop \/ S_Die \/ S_Damaged \/ S_Vanish
  BY <1>6, Steps
<1>7. CASE C_Interpret
  BY <1>7, Interprets DEF C_Interpret
<1>8. CASE C_Chunk
  BY <1>8, ReadsChunk DEF C_Chunk
<1>9. CASE C_Sent
  BY <1>9, GoesOn DEF C_Sent
<1>10. CASE C_SentShort \/ C_Ends \/ C_Killed
  BY <1>10, Steps
<1>11. CASE Connect
  BY <1>11 DEF Connect
<1>12. CASE UNCHANGED vars
  BY <1>12 DEF vars
<1> QED
  BY <1>1, <1>2, <1>3, <1>4, <1>5, <1>6, <1>7, <1>8, <1>9, <1>10, <1>11, <1>12
  DEF Next, ServerStep, ClientStep

-----------------------------------------------------------------------------
(* The theorems *)

(* The invariant holds before anybody has connected. *)
LEMMA InitInv == Init => SessionInv
<1> SUFFICES ASSUME Init PROVE SessionInv
  OBVIOUS
<1>1. SessionTypes
  BY InitTypes
<1>2. WireInv /\ SilentInv /\ CaughtUpInv
  BY DEF Init, WireInv, SilentInv, CaughtUpInv
<1>3. OfferInv
  BY DEF Init, OfferInv, Offering
<1>4. ReplyMatches
  BY DEF Init, ReplyMatches
<1> QED
  BY <1>1, <1>2, <1>3, <1>4 DEF SessionInv

(* The invariant holds of every reachable state of a session. *)
THEOREM Invariant == Spec => []SessionInv
<1>1. SessionInv /\ [Next]_vars => SessionInv'
  BY StepKeepsTypes, WireStep, SilentStep, CaughtUpStep, OfferStep, ReplyStep DEF SessionInv
<1> QED
  BY InitInv, <1>1, PTL DEF Spec

(* What the server prints in answer to a command is what the client has to *)
(* say about that command, whatever is lost, damaged or killed.            *)
THEOREM RepliesMatch == Spec => []ReplyMatches
<1>1. SessionInv => ReplyMatches
  BY DEF SessionInv
<1> QED
  BY Invariant, <1>1, PTL

(* The two ends never both send, each waiting for the other's answer, as   *)
(* long as the client can open every file it is asked for; this is so for  *)
(* any commands, the ones typed by hand included.                          *)
THEOREM IsDialogue == Spec => []DialogueIfReadable
<1>1. SessionInv => DialogueIfReadable
  BY DEF SessionInv, SilentInv, DialogueIfReadable, Dialogue, Collision
<1> QED
  BY Invariant, <1>1, PTL

-----------------------------------------------------------------------------
(* What can cost the server its life *)

(* What makes a client leave, or stop short, while the server waits for it *)
(* in the tunnel: being told to, and a file that it offers or declines.    *)
Departures == {"client_", "client_disconnect", "good", "unreadable"}

(* Without faults and departures the server has no transfer, and no client *)
(* is gone before its session is over.                                     *)
QuietInv ==
    /\ ~stale
    /\ seen \cap Departures = {} =>
          /\ sPc \notin {"send_chunk", "transfer", "dead", "vanished"}
          /\ cPc \notin {"recv_chunk", "transfer"} /\ next = "recv"
          /\ cPc = "gone" => sPc \in ServerClosed
          /\ toServer.text # "status_1"

(* A client that interprets a command without a departure has an answer    *)
(* that offers nothing, and then awaits the next one.                      *)
LEMMA StaysQuiet ==
    ASSUME C_Interpret, seen' \cap Departures = {}
    PROVE  \/ cPc' = "gone" /\ toClient.text \in {"client_", "client_disconnect"}
           \/ cPc' = "send" /\ next' = "recv" /\ toServer'.text # "status_1"
<1>1. \A t, about : (t # "status_1" /\ Say(t, about, "recv"))
        => cPc' = "send" /\ next' = "recv" /\ toServer'.text # "status_1"
  BY Messages DEF Say
<1>2. CASE toClient.text \in {"getfile", "client_getfile"}
  <2>1. C_Getfile(toClient.about)
    BY <1>2 DEF C_Interpret
  <2>2. PICK file \in Files :
          /\ seen' = seen \cup {file}
          /\ CASE file = "missing"    -> Say("error", toClient.about, "recv")
               [] file = "unreadable" -> Say("status_0", toClient.about, "complain")
               [] file = "good"       -> Say("status_1", toClient.about, "recv_chunk")
    BY <2>1 DEF C_Getfile
  <2>3. file = "missing"
    BY <2>2, SessionAssumption DEF Departures
  <2> QED
    BY <1>1, <2>2, <2>3
<1>3. CASE toClient.text \in {"client_", "client_disconnect"}
  BY <1>3 DEF C_Interpret
<1>4. CASE toClient.text \notin {"getfile", "client_getfile", "client_", "client_disconnect"}
  BY <1>1, <1>4 DEF C_Interpret
<1> QED
  BY <1>2, <1>3, <1>4

(* Without faults the steps of a session keep it quiet. *)
LEMMA QuietStep ==
    ASSUME ~Faults, SessionInv, QuietInv, [Next]_vars PROVE QuietInv'
<1> USE DEF QuietInv, Waiting, ServerClosed, serverVars, clientVars, wireVars
<1>1. SessionTypes /\ WireInv /\ SilentInv
  BY DEF SessionInv
<1>2. seen \cap Departures = {} => "unreadable" \notin seen
  BY DEF Departures
<1>3. seen \cap Departures = {} => ~OutOfStep
  BY <1>1, <1>2 DEF OutOfStep, Collision, SilentInv
<1>4. CASE S_Command
  <2>1. /\ sPc = "prompt" /\ sPc' \in {"recv", "send"} /\ seen \subseteq seen'
        /\ UNCHANGED <<clientVars, toServer, stale>>
    BY <1>4, Commanded DEF S_Command
  <2> QED
    BY <2>1
<1>5. ASSUME S_Take PROVE ~stale' /\ toServer' = None /\ toServer # None
  <2>1. Faults = FALSE
    BY SessionAssumption
  <2> QED
    BY <1>5, <2>1 DEF S_Take
<1>6. CASE S_Print \/ S_Status
  <2>1. /\ S_Take /\ UNCHANGED <<clientVars, seen>>
        /\ sPc \in {"recv", "recv_status"}
        /\ sPc' \in {"prompt", "accept"} \/ (sPc' = "send_chunk" /\ toServer.text = "status_1")
    BY <1>6 DEF S_Print, S_Status, AfterBindFailure
  <2> QED
    BY <1>5, <2>1 DEF None
<1>7. CASE S_Sent \/ S_Saved
  BY <1>7 DEF S_Sent, Answered, S_Saved
<1>8. CASE S_Quit \/ S_Drop
  BY <1>8 DEF S_Quit, S_Drop
<1>9. CASE S_Die
  BY <1>3, <1>9 DEF S_Die
<1>10. CASE S_Damaged \/ S_Vanish \/ C_SentShort \/ C_Killed
  BY <1>10 DEF S_Damaged, S_Vanish, C_SentShort, C_Killed
<1>11. CASE C_Interpret
  <2>1. UNCHANGED <<serverVars, stale>> /\ seen \subseteq seen' /\ toClient # None
    BY <1>11, Interprets DEF C_Interpret
  <2>2. SUFFICES ASSUME seen' \cap Departures = {}
                 PROVE  /\ cPc' \in {"send", "gone"} /\ next' = "recv"
                        /\ cPc' = "gone" => sPc \in ServerClosed
                        /\ toServer'.text # "status_1"
    BY <2>1
  <2>3. seen \cap Departures = {}
    BY <2>1, <2>2
  <2>4. CASE cPc' = "gone" /\ toClient.text \in {"client_", "client_disconnect"}
    <3>1. sPc # "send"
      BY <1>1, <2>1, <2>3, <2>4 DEF WireInv, Departures
    <3>2. sPc \in {"accept", "exit"}
      BY <1>1, <2>1, <2>3, <3>1 DEF WireInv, SessionTypes, TypeOK
    <3>3. UNCHANGED <<next, toServer>>
      BY <1>11, <2>4, Interprets
    <3> QED
      BY <2>3, <2>4, <3>2, <3>3
  <2>5. CASE cPc' = "send" /\ next' = "recv" /\ toServer'.text # "status_1"
    BY <2>5
  <2> QED
    BY <1>11, <2>2, <2>4, <2>5, StaysQuiet
<1>12. CASE C_Chunk
  BY <1>12 DEF C_Chunk
<1>13. CASE C_Sent
  BY <1>13 DEF C_Sent
<1>14. CASE C_Ends
  BY <1>3, <1>14 DEF C_Ends
<1>15. CASE Connect
  BY <1>15 DEF Connect, None
<1>16. CASE UNCHANGED vars
  BY <1>16 DEF vars
<1> QED
  BY <1>4, <1>6, <1>7, <1>8, <1>9, <1>10, <1>11, <1>12, <1>13, <1>14, <1>15, <1>16
  DEF Next, ServerStep, ClientStep

(* With nothing lost and nobody killed, it takes a client that was told to *)
(* leave, or a file that a client offers or declines, for an exception     *)
(* that serve does not catch to end the server.                            *)
THEOREM OnlyDeparturesKill ==
    ASSUME ~Faults PROVE Spec => [](seen \cap Departures = {} => ServerSurvives)
<1>1. Init => QuietInv
  BY DEF Init, QuietInv, ServerClosed, None
<1>2. SessionInv /\ QuietInv /\ [Next]_vars => QuietInv'
  BY QuietStep
<1>3. QuietInv => (seen \cap Departures = {} => ServerSurvives)
  BY DEF QuietInv, ServerSurvives
<1> QED
  BY <1>1, <1>2, <1>3, Invariant, PTL DEF Spec

=============================================================================
