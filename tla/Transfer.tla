------------------------------ MODULE Transfer ------------------------------
(***************************************************************************)
(* What one call pair of the transfer tunnel promises, with no packages,   *)
(* checksums, answers or retries in sight.  A sending end reads a stream   *)
(* of call.len bytes and a receiving end writes what arrives to a file.    *)
(* With call.amount the pair is send_amount_from_stream /                  *)
(* recv_amount_to_stream and moves at most call.size bytes (one chunk);    *)
(* without it the pair is send_stream / recv_stream and moves everything.  *)
(* Bytes are named by their position in the stream, so the stream itself   *)
(* is <<1, 2, ..., call.len>>.                                             *)
(*                                                                         *)
(* The promise is an asymmetric one.  The copy is a prefix of the stream   *)
(* at every moment.  A receiving end that returns is never wrong about     *)
(* what it holds.  A sending end that returns agrees with the receiving    *)
(* end only as long as that end did not fail: it has no proof of delivery. *)
(***************************************************************************)
EXTENDS Integers, Sequences

CONSTANT Calls   \* the calls considered, in [len : Nat, amount : BOOLEAN, size : Nat]

VARIABLES
    call,      \* the call being made; never changes
    copy,      \* the bytes written to the receiving end's file
    sender,    \* how the sending end ended, or "running"
    receiver   \* how the receiving end ended, or "running"

avars == <<call, copy, sender, receiver>>

Ends == {"running", "true", "false", "failed"}

FirstBytes(n) == [i \in 1 .. n |-> i]

(* The bytes to be moved. *)
Most == IF call.amount /\ call.size < call.len THEN call.size ELSE call.len

(* "true" : the chunk is complete and the stream may go on;                *)
(* "false" : the stream ended short of the chunk, and all of it was moved. *)
(* A chunk that ends where the stream does is complete.                    *)
Complete(end, n) ==
    \/ end = "true"  /\ call.amount /\ n = call.size
    \/ end = "false" /\ n = call.len /\ (call.amount => call.len < call.size)

AInit ==
    /\ call \in Calls
    /\ copy = << >>
    /\ sender = IF call.amount /\ call.size = 0 THEN "true" ELSE "running"
    /\ receiver = sender

(* The copy grows by any number of bytes, and the receiving end may return *)
(* with the verdict that the bytes it then holds justify.                  *)
Receive ==
    /\ receiver = "running"
    /\ \E n \in Len(copy) .. Most :
          /\ copy' = FirstBytes(n)
          /\ \/ receiver' = receiver
             \/ receiver' \in {"true", "false"} /\ Complete(receiver', n)
    /\ UNCHANGED <<call, sender>>

(* The sending end returns, with the verdict of the receiving end unless   *)
(* that end has failed.                                                    *)
Send ==
    /\ sender = "running"
    /\ sender' \in {"true", "false"}
    /\ receiver \in {sender', "failed"}
    /\ UNCHANGED <<call, copy, receiver>>

(* Either end may give up at any time. *)
Fail ==
    \/ sender = "running" /\ sender' = "failed" /\ UNCHANGED <<call, copy, receiver>>
    \/ receiver = "running" /\ receiver' = "failed" /\ UNCHANGED <<call, copy, sender>>

ANext == Receive \/ Send \/ Fail

ASpec == AInit /\ [][ANext]_avars

=============================================================================
