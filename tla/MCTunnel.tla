------------------------------ MODULE MCTunnel ------------------------------
(***************************************************************************)
(* Values for the model checker.  Packages of two bytes; streams that end  *)
(* inside a package, at the end of one, and inside or at the end of the    *)
(* chunk; and an empty stream, an empty chunk and a message.  The packages *)
(* that start at byte 2 have a second cell of zero bytes.                  *)
(***************************************************************************)
EXTENDS Tunnel

Chunk(len, size) ==
    [len |-> len, amount |-> TRUE, size |-> size, reads |-> TheEnds, writes |-> TheEnds]

Message(len) ==
    [len |-> len, amount |-> FALSE, size |-> 0, reads |-> TheEnds, writes |-> TheEnds]

(* Over a connection all of whose calls have timeouts, as the one of a     *)
(* chunk is,                                                               *)
TimedCalls == {Chunk(4, 3), Chunk(3, 4), Chunk(4, 2), Chunk(0, 1), Chunk(2, 0)}
                \cup {Message(0), Message(3), Message(4)}

With(calls, r, w) == {[c EXCEPT !.reads = r, !.writes = w] : c \in calls}

(* a message to the server, which reads with a timeout, and one from it;   *)
(* the client writes with one.                                             *)
ToServer   == With({Message(0), Message(3)}, {"receiver"}, {"sender"})
FromServer == With({Message(0), Message(3)}, {"sender"}, {"receiver"})

(* To see whether a timeout is ever needed, all calls without any. *)
AllCalls == TimedCalls \cup ToServer \cup FromServer \cup With(TimedCalls, {}, {})

MCBodies == {"zero", "tail0", "tail4"}

MCTailOf(p) ==
    CASE p.from = 0 -> "tail0"
      [] p.from < 4 -> "zero"
      [] OTHER      -> "tail4"

=============================================================================
