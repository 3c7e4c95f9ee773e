------------------------------ MODULE Session ------------------------------
(***************************************************************************)
(* The session of splitted_transfer: the prompt of ServerScript::serve and *)
(* the command loop of ClientScript::invite_and_play_with_server, joined   *)
(* by the command connection.                                              *)
(*                                                                         *)
(* Whole messages are sent here (msg_to_peer, msg_from_peer); the packages *)
(* below them are Tunnel's.  A message stays in the connection until the   *)
(* other end is in a call that takes it, and its sender waits for the      *)
(* answer until then.  A sender reads its answers from the same connection *)
(* that brings the other end's messages: when both ends are sending, each  *)
(* takes the first bytes of the other's package for four answers and gives *)
(* up.  (A byte of padding among them may look like APPROVE; what follows  *)
(* is out of step with the packages and ends in the same exceptions.)      *)
(*                                                                         *)
(* A message whose attempts are used up by damage ends both ends; damage   *)
(* that a repetition makes good does not show here.  Nothing protects the  *)
(* answers (Tunnel), and with one changed on its way a message may be      *)
(* taken twice, or count as taken when it was refused: that is left out,   *)
(* and what is said of sessions is said of those in which every answer     *)
(* arrives as it was sent.                                                 *)
(*                                                                         *)
(* What the chunks of a file do is GetFile's; a transfer is one state of   *)
(* either end here, with the ways out of it that GetFile has.              *)
(***************************************************************************)
EXTENDS Integers

CONSTANTS
    Commands,     \* what the user types at the server's prompt
    Files,        \* the states a requested file may be in at the client
    Faults,       \* TRUE: hosts, processes, disks and the network may fail
    MaxCommands,  \* bound: commands in a session
    MaxSessions   \* bound: sessions

(* "client"      the word and nothing after it                             *)
(* "client_"     blanks after it                                           *)
(* "client_ls"   any command the client answers with one message, be it an *)
(*               error: ls, cd, or a word it does not know                 *)
(* "client_0", "client_5"  numbers, which are words it does not know       *)
(* "client_getfile", "client_disconnect"  those, typed by hand             *)
(* "getfile"     the server's own                                          *)
(* Commands that stay at the server (ls, cd, !help and errors of theirs)   *)
(* change nothing and are left out.                                        *)
AllCommands == {"client", "client_", "client_ls", "client_0", "client_5",
                "client_getfile", "client_disconnect", "getfile"}

ASSUME SessionAssumption ==
    /\ Commands \subseteq AllCommands
    /\ Files \subseteq {"good", "unreadable", "missing"}
    /\ Faults \in BOOLEAN
    /\ MaxCommands \in Nat /\ MaxSessions \in Nat

VARIABLES
    sPc,       \* where the server is
    cmd,       \* the command it is carrying out
    asked,     \* the number of that command in its session
    printed,   \* the last reply printed: for which command, about which one
    cPc,       \* where the client is
    handling,  \* the number of the command the client is carrying out
    next,      \* what the client does once its message is answered
    toClient, toServer,  \* the message in either direction of the connection
    stale,     \* whether bytes of an earlier message are left on the way to
               \* the server, by a read that was cut short (Tunnel)
    sessions,  \* sessions so far
    seen       \* commands typed and files asked for in this session (history)

serverVars == <<sPc, cmd, asked, printed>>
clientVars == <<cPc, handling, next>>
wireVars   == <<toClient, toServer, stale>>
vars == <<serverVars, clientVars, wireVars, sessions, seen>>

None == [text |-> "none", about |-> 0]
Message(text, about) == [text |-> text, about |-> about]

Chunks       == {"chunk", "chunk_0"}
ClientTexts  == {"reply", "error", "status_0", "status_1"}

Waiting      == {"send", "recv", "recv_status", "send_chunk"}
ServerClosed == {"accept", "exit", "dead"}

(* Where the client waits without a timeout. *)
Untimed == {"recv", "send", "recv_chunk"}

Init ==
    /\ sPc = "accept" /\ cmd = "client" /\ asked = 0 /\ printed = <<0, 0>>
    /\ cPc = "gone" /\ handling = 0 /\ next = "recv"
    /\ toClient = None /\ toServer = None /\ stale = FALSE
    /\ sessions = 0 /\ seen = {}

(* Mutant of Connect: the last connection's messages are still there. *)
ConnectOldStream ==
    /\ sPc = "accept" /\ cPc = "gone" /\ sessions < MaxSessions
    /\ sessions' = sessions + 1
    /\ sPc' = "prompt" /\ asked' = 0 /\ printed' = <<0, 0>>
    /\ cPc' = "recv" /\ handling' = 0 /\ next' = "recv"
    /\ seen' = {}
    /\ UNCHANGED <<cmd, wireVars>>

(* A client connects, in a process of its own, and is accepted. *)
Connect ==
    /\ sPc = "accept" /\ cPc = "gone" /\ sessions < MaxSessions
    /\ sessions' = sessions + 1
    /\ sPc' = "prompt" /\ asked' = 0 /\ printed' = <<0, 0>>
    /\ cPc' = "recv" /\ handling' = 0 /\ next' = "recv"
    /\ toClient' = None /\ toServer' = None /\ stale' = FALSE
    /\ seen' = {}
    /\ UNCHANGED cmd

-----------------------------------------------------------------------------
(* The server *)

(* A line is read and interpret called.  An empty stream sends nothing.    *)
S_Command ==
    /\ sPc = "prompt" /\ asked < MaxCommands
    /\ \E c \in Commands :
          /\ cmd' = c /\ asked' = asked + 1 /\ seen' = seen \cup {c}
          /\ IF c = "client"
             THEN sPc' = "recv" /\ UNCHANGED toClient
             ELSE sPc' = "send" /\ toClient' = Message(c, asked + 1)
    /\ UNCHANGED <<printed, clientVars, toServer, stale, sessions>>

(* "!q", which leaves serve, or the end of the input, which does not. *)
S_Quit ==
    /\ sPc = "prompt"
    /\ sPc' \in {"exit", "accept"}
    /\ UNCHANGED <<cmd, asked, printed, clientVars, wireVars, sessions, seen>>

(* The message has been taken and approved. *)
Answered == sPc \in {"send", "send_chunk"} /\ toClient = None

S_Sent ==
    /\ Answered
    /\ sPc' = IF sPc = "send_chunk" THEN "transfer"
              ELSE IF cmd = "getfile" THEN "recv_status" ELSE "recv"
    /\ UNCHANGED <<cmd, asked, printed, clientVars, wireVars, sessions, seen>>

(* A message is read and approved, the last of it perhaps only once a read *)
(* timed out that left the rest of its package behind.  With bytes left by *)
(* an earlier message no package is ever read whole.                       *)
S_Take ==
    /\ toServer # None /\ ~stale
    /\ toServer' = None
    /\ stale' \in {FALSE, Faults}

(* client_cmd prints what comes. *)
S_Print ==
    /\ sPc = "recv" /\ S_Take
    /\ printed' = <<asked, toServer.about>>
    /\ sPc' = "prompt"
    /\ UNCHANGED <<cmd, asked, clientVars, toClient, sessions, seen>>

(* Mutant of AfterBindFailure: the prompt returns, and the client is left  *)
(* waiting for its chunk size.                                             *)
AfterBindFailureCaught == "prompt"

(* CSocketBindException is a CSocketException like any other. *)
AfterBindFailure == "accept"

(* getfile gets the status and size.  Anything else does not unpack, which *)
(* is an argument error like being declined.                               *)
S_Status ==
    /\ sPc = "recv_status" /\ S_Take
    /\ \/ /\ toServer.text = "status_1"
          /\ \/ /\ \E chunk \in Chunks : toClient' = Message(chunk, asked)
                /\ sPc' = "send_chunk"
             \/ sPc' = AfterBindFailure /\ UNCHANGED toClient
       \/ /\ toServer.text # "status_1"
          /\ sPc' = "prompt" /\ UNCHANGED toClient
    /\ UNCHANGED <<cmd, asked, printed, clientVars, sessions, seen>>

(* The whole file has been received; the client's last answer may be lost. *)
S_Saved ==
    /\ sPc = "transfer" /\ cPc = "transfer"
    /\ sPc' = "prompt"
    /\ cPc' = "recv" \/ (Faults /\ cPc' = "gone")
    /\ UNCHANGED <<cmd, asked, printed, handling, next, wireVars, sessions, seen>>

(* Both ends are sending. *)
Collision ==
    /\ sPc \in {"send", "send_chunk"} /\ toClient # None
    /\ cPc = "send" /\ toServer # None

(* The two ends no longer agree on what is a package and what an answer:   *)
(* they are both sending, or the server takes what is left of an earlier   *)
(* message for its answers or its package, and sends to a client that has  *)
(* what it needs.                                                          *)
OutOfStep == Collision \/ (sPc \in Waiting /\ stale)

(* Mutant of S_Drop: the command socket has no read timeout. *)
S_DropLost ==
    /\ sPc \in Waiting /\ cPc = "gone"
    /\ sPc' = "accept"
    /\ UNCHANGED <<cmd, asked, printed, clientVars, wireVars, sessions, seen>>

(* A CSocketException ends the session: any read of the command connection *)
(* has a timeout, in a transfer all but accept have, where a client leaves *)
(* the server that would not have a chunk of size zero.                    *)
S_Drop ==
    /\ sPc \in Waiting \/ (sPc = "transfer" /\ cPc # "send")
    /\ sPc' = "accept"
    /\ UNCHANGED <<cmd, asked, printed, clientVars, wireVars, sessions, seen>>

(* Reads that return nothing, since the client is gone or has stopped      *)
(* short, or no package, as the ends are out of step, use up the attempts: *)
(* CTransferException, which serve does not catch.  A client that took the *)
(* message before it went has approved it, and its answer is still read.   *)
S_Die ==
    /\ \/ OutOfStep
       \/ sPc \in Waiting /\ cPc = "gone" /\ ~Answered
       \/ sPc = "transfer" /\ cPc \in {"gone", "recv"}
       \/ sPc = "transfer" /\ cPc = "transfer" /\ Faults
    /\ sPc' = "dead"
    /\ UNCHANGED <<cmd, asked, printed, clientVars, wireVars, sessions, seen>>

(* The message that arrives has been damaged in every attempt. *)
S_Damaged ==
    /\ Faults /\ sPc \in {"recv", "recv_status"} /\ toServer # None
    /\ sPc' = "dead"
    /\ UNCHANGED <<cmd, asked, printed, clientVars, wireVars, sessions, seen>>

-----------------------------------------------------------------------------
(* The client *)

(* The client sends a message and then goes on to after. *)
Say(text, about, after) ==
    /\ toServer' = Message(text, about)
    /\ cPc' = "send" /\ next' = after

(* Mutant of C_Getfile: every failure is announced and then thrown. *)
C_GetfileTwice(about) ==
    \E file \in Files :
        /\ seen' = seen \cup {file}
        /\ IF file = "good" THEN Say("status_1", about, "recv_chunk")
                            ELSE Say("status_0", about, "complain")

(* getfile up to the first message.  An exception of file_size is the      *)
(* reply; a file that cannot be opened is announced and then thrown.       *)
C_Getfile(about) ==
    \E file \in Files :
        /\ seen' = seen \cup {file}
        /\ CASE file = "missing"    -> Say("error", about, "recv")
             [] file = "unreadable" -> Say("status_0", about, "complain")
             [] file = "good"       -> Say("status_1", about, "recv_chunk")

(* interpret.  No command at all throws outside of its try. *)
C_Interpret ==
    /\ cPc = "recv" /\ toClient # None
    /\ toClient' = None /\ handling' = toClient.about
    /\ CASE toClient.text \in {"getfile", "client_getfile"} -> C_Getfile(toClient.about)
         [] toClient.text \in {"client_", "client_disconnect"} ->
               cPc' = "gone" /\ UNCHANGED <<next, toServer, seen>>
         [] OTHER -> Say("reply", toClient.about, "recv") /\ UNCHANGED seen
    /\ UNCHANGED <<serverVars, stale, sessions>>

(* msg_from_peer( peer_cmd , chunk_sz ).  A number is a chunk size whoever *)
(* sent it; nobody listens for the one that is not from getfile.           *)
C_Chunk ==
    /\ cPc = "recv_chunk" /\ toClient # None
    /\ toClient' = None
    /\ CASE toClient.text = "chunk"    -> cPc' = "transfer" /\ UNCHANGED <<next, toServer>>
         [] toClient.text = "client_5" -> cPc' = "gone" /\ UNCHANGED <<next, toServer>>
         [] OTHER                      -> Say("error", handling, "recv")
    /\ UNCHANGED <<serverVars, handling, stale, sessions, seen>>

(* The server has the message. *)
C_Sent ==
    /\ cPc = "send" /\ toServer = None
    /\ IF next = "complain"
       THEN Say("error", handling, "recv")
       ELSE cPc' = next /\ UNCHANGED <<next, toServer>>
    /\ UNCHANGED <<serverVars, handling, toClient, stale, sessions, seen>>

(* An error of the disk looks like the end of the file. *)
C_SentShort ==
    /\ Faults /\ cPc = "transfer" /\ sPc = "transfer"
    /\ cPc' = "recv"
    /\ UNCHANGED <<serverVars, handling, next, wireVars, sessions, seen>>

(* Mutant of C_Ends: a client that waits for a command waits on. *)
C_EndsSending ==
    /\ cPc \in {"send", "transfer"} /\ (sPc \in ServerClosed \/ OutOfStep)
    /\ cPc' = "gone"
    /\ UNCHANGED <<serverVars, handling, next, wireVars, sessions, seen>>

(* Nothing the tunnel throws is caught: the client ends with its server.   *)
(* When nothing comes any more only a transfer's sockets tell, which have  *)
(* timeouts.                                                               *)
C_Ends ==
    /\ \/ cPc # "gone" /\ (sPc \in ServerClosed \/ OutOfStep)
       \/ cPc = "transfer" /\ sPc = "vanished"
    /\ cPc' = "gone"
    /\ UNCHANGED <<serverVars, handling, next, wireVars, sessions, seen>>

(* The process is killed, its kernel gives up sending to the server, or a  *)
(* message to it has been damaged in every attempt.                        *)
C_Killed ==
    /\ Faults /\ cPc # "gone"
    /\ cPc' = "gone"
    /\ UNCHANGED <<serverVars, handling, next, wireVars, sessions, seen>>

(* The server's host loses power or its network: nothing is closed, and    *)
(* what it has sent may be lost.                                           *)
S_Vanish ==
    /\ Faults /\ sPc \notin {"exit", "dead", "vanished"}
    /\ sPc' = "vanished"
    /\ toClient' \in {toClient, None}
    /\ UNCHANGED <<cmd, asked, printed, clientVars, toServer, stale, sessions, seen>>

-----------------------------------------------------------------------------

ServerStep == S_Sent \/ S_Print \/ S_Status \/ S_Saved \/ S_Drop \/ S_Die
ClientStep == C_Interpret \/ C_Chunk \/ C_Sent \/ C_Ends

Next == ServerStep \/ ClientStep \/ Connect \/ S_Command \/ S_Quit \/ S_Damaged
          \/ S_Vanish \/ C_SentShort \/ C_Killed

Spec == Init /\ [][Next]_vars

(* Neither process stops of its own; the user is free to type nothing, and *)
(* a transfer may leave the server in accept, which has no timeout.        *)
Fairness ==
    /\ WF_vars(sPc \in Waiting /\ ServerStep)
    /\ WF_vars(ClientStep)

FairSpec == Spec /\ Fairness

-----------------------------------------------------------------------------
(* Properties *)

(* Every variable has its type; a message is about a command that has been *)
(* given in this session, and the connection carries none before that.     *)
TypeOK ==
    /\ sPc \in Waiting \cup ServerClosed \cup {"prompt", "transfer", "vanished"}
    /\ cmd \in AllCommands /\ asked \in 0 .. MaxCommands
    /\ printed \in (0 .. asked) \X (0 .. asked)
    /\ cPc \in {"recv", "send", "recv_chunk", "transfer", "gone"}
    /\ handling \in 0 .. asked /\ next \in {"recv", "recv_chunk", "complain"}
    /\ toClient \in {None} \cup [text : Commands \cup Chunks, about : 1 .. asked]
    /\ toServer \in {None} \cup [text : ClientTexts, about : 1 .. asked]
    /\ stale \in BOOLEAN /\ sessions \in 0 .. MaxSessions /\ seen \subseteq Commands \cup Files

(* What the server prints in answer to a command is what the client has to *)
(* say about that command, as long as nobody has typed client alone, which *)
(* asks nothing, or getfile after it, which leaves the client waiting for  *)
(* a chunk size.                                                           *)
ReplyMatches ==
    seen \cap {"client", "client_getfile"} = {} => printed[1] = printed[2]

(* A session is a dialogue: the two ends never both send, each waiting for *)
(* the other's answer.                                                     *)
Dialogue == ~Collision

(* It is one for any commands, as long as every file can be opened.        *)
DialogueIfReadable == "unreadable" \notin seen => Dialogue

(* "Client disconnected unexpectfully": a lost client costs the session,   *)
(* and the server goes on to accept the next one.                          *)
ServerSurvives == sPc # "dead"

(* Every command comes to an end: the prompt returns, the session ends, or *)
(* the server is in a transfer.                                            *)
CommandEnds == (sPc \in Waiting) ~> (sPc \notin Waiting)

(* When the server is gone its client goes as well, wherever it waits, but *)
(* for one that hears nothing and waits in a call without a timeout.       *)
ClientFollows ==
    (sPc \in {"exit", "dead", "vanished"})
        ~> (cPc = "gone" \/ (sPc = "vanished" /\ cPc \in Untimed))

=============================================================================
