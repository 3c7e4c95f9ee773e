--------------------------- MODULE SocketHandles ---------------------------
(***************************************************************************)
(* CSocket as the owner of a descriptor: an object points to an            *)
(* implementation on the heap (C_UniquePtr), which names a descriptor of   *)
(* the kernel and remembers in two bits what has been done with it.        *)
(*                                                                         *)
(* Any sequence of constructions, moves, destructions and operations on    *)
(* any objects is considered, moves of an object to itself included, and   *)
(* the kernel hands out any descriptor number that is free, so one that    *)
(* was closed comes back.  A call that throws without having changed       *)
(* anything is a stuttering step.  Sockets are blocking.                   *)
(***************************************************************************)
CONSTANTS
    Objects,   \* CSocket objects that may exist
    Impls,     \* addresses of CImplementation objects
    Fds        \* descriptor numbers

Null   == "null"     \* the pointer of an empty object
Unborn == "unborn"   \* no object is there
NoFd   == "none"     \* what is no descriptor

ASSUME SocketAssumption ==
    /\ Null \notin Impls /\ Unborn \notin Impls
    /\ NoFd \notin Fds

VARIABLES
    ptr,      \* impl_ of each object
    heap,     \* the addresses where an implementation lives
    impl,     \* what is there
    kernel    \* the kernel's side of each descriptor

vars == <<ptr, heap, impl, kernel>>

Types  == {"STREAM", "DATAGRAM"}   \* SEQPACKET differs from STREAM in nothing here
Phases == {"closed", "fresh", "bound", "listening", "connected"}

Implementations == [sock : Fds \cup {NoFd}, type : Types, connected : BOOLEAN, bound : BOOLEAN]

(* What is at an address where no implementation lives. *)
Nothing == [sock |-> NoFd, type |-> "STREAM", connected |-> FALSE, bound |-> FALSE]

Init ==
    /\ ptr = [h \in Objects |-> Unborn]
    /\ heap = {}
    /\ impl = [p \in Impls |-> Nothing]
    /\ kernel = [d \in Fds |-> [type |-> "STREAM", phase |-> "closed"]]

Holds(h)   == ptr[h] \in Impls
Fd(h)      == impl[ptr[h]].sock

(* An empty object is neither. *)
IsConnected(h) == Holds(h) /\ impl[ptr[h]].connected
IsBound(h)     == Holds(h) /\ impl[ptr[h]].bound

Free(d) == kernel[d].phase = "closed"

(* ::close of the descriptor of an object, if it has one. *)
Close(h) ==
    kernel' = IF Holds(h) THEN [kernel EXCEPT ![Fd(h)].phase = "closed"] ELSE kernel

-----------------------------------------------------------------------------
(* Objects come and go *)

Construct(h, type) ==
    /\ ptr[h] = Unborn
    /\ \E p \in Impls \ heap, d \in Fds :
          /\ Free(d)
          /\ ptr' = [ptr EXCEPT ![h] = p] /\ heap' = heap \cup {p}
          /\ impl' = [impl EXCEPT ![p] = [sock |-> d, type |-> type,
                                          connected |-> FALSE, bound |-> FALSE]]
          /\ kernel' = [kernel EXCEPT ![d] = [type |-> type, phase |-> "fresh"]]

(* Mutant of MoveConstruct: the source keeps its pointer. *)
MoveConstructCopy(h, g) ==
    /\ ptr[h] = Unborn /\ ptr[g] # Unborn
    /\ ptr' = [ptr EXCEPT ![h] = ptr[g]]
    /\ UNCHANGED <<heap, impl, kernel>>

(* The defaulted move constructor, h from g. *)
MoveConstruct(h, g) ==
    /\ ptr[h] = Unborn /\ ptr[g] # Unborn
    /\ ptr' = [ptr EXCEPT ![h] = ptr[g], ![g] = Null]
    /\ UNCHANGED <<heap, impl, kernel>>

(* Mutant of MoveAssign: what h held is not closed. *)
MoveAssignOpen(h, g) ==
    /\ ptr[h] # Unborn /\ ptr[g] # Unborn
    /\ ptr' = [ptr EXCEPT ![h] = ptr[g], ![g] = Null]
    /\ UNCHANGED <<heap, impl, kernel>>

(* h = std::move( g ).  What h held is closed, and its implementation is   *)
(* never deleted.  An object moved to itself ends up empty.                *)
MoveAssign(h, g) ==
    /\ ptr[h] # Unborn /\ ptr[g] # Unborn
    /\ Close(h)
    /\ ptr' = [ptr EXCEPT ![h] = ptr[g], ![g] = Null]
    /\ UNCHANGED <<heap, impl>>

Destroy(h) ==
    /\ ptr[h] # Unborn
    /\ Close(h)
    /\ ptr' = [ptr EXCEPT ![h] = Unborn]
    /\ heap' = heap \ {ptr[h]}
    /\ impl' = IF Holds(h) THEN [impl EXCEPT ![ptr[h]] = Nothing] ELSE impl

-----------------------------------------------------------------------------
(* Operations.  The kernel may refuse any of them for reasons of its own;  *)
(* Allows lists the phases in which it may agree.                          *)

Allows(call, type) ==
    CASE call = "bind"    -> {"fresh"}
      [] call = "listen"  -> {"fresh", "bound", "listening"}
      [] call = "accept"  -> {"listening"}
      [] call = "connect" -> {"fresh", "bound"} \cup
                             (IF type = "DATAGRAM" THEN {"connected"} ELSE {})

Agrees(h, call) == kernel[Fd(h)].phase \in Allows(call, kernel[Fd(h)].type)

Bind(h) ==
    /\ Holds(h) /\ Agrees(h, "bind")
    /\ kernel' = [kernel EXCEPT ![Fd(h)].phase = "bound"]
    /\ impl' = [impl EXCEPT ![ptr[h]].bound = TRUE]
    /\ UNCHANGED <<ptr, heap>>

Listen(h) ==
    /\ IsBound(h) /\ ~IsConnected(h)
    /\ impl[ptr[h]].type # "DATAGRAM"
    /\ Agrees(h, "listen")
    /\ kernel' = [kernel EXCEPT ![Fd(h)].phase = "listening"]
    /\ UNCHANGED <<ptr, heap, impl>>

(* Mutant of Accept: the flags are left as CImplementation sets them. *)
AcceptUnmarked(g, h) ==
    /\ Holds(h) /\ impl[ptr[h]].type # "DATAGRAM"
    /\ Agrees(h, "accept")
    /\ ptr[g] = Unborn
    /\ \E p \in Impls \ heap, d \in Fds :
          /\ Free(d)
          /\ ptr' = [ptr EXCEPT ![g] = p] /\ heap' = heap \cup {p}
          /\ impl' = [impl EXCEPT ![p] = [sock |-> d, type |-> impl[ptr[h]].type,
                                          connected |-> FALSE, bound |-> FALSE]]
          /\ kernel' = [kernel EXCEPT ![d] = [type |-> kernel[Fd(h)].type,
                                              phase |-> "connected"]]

(* g is the object returned by h.accept(). *)
Accept(g, h) ==
    /\ Holds(h) /\ impl[ptr[h]].type # "DATAGRAM"
    /\ Agrees(h, "accept")
    /\ ptr[g] = Unborn
    /\ \E p \in Impls \ heap, d \in Fds :
          /\ Free(d)
          /\ ptr' = [ptr EXCEPT ![g] = p] /\ heap' = heap \cup {p}
          /\ impl' = [impl EXCEPT ![p] = [sock |-> d, type |-> impl[ptr[h]].type,
                                          connected |-> TRUE, bound |-> TRUE]]
          /\ kernel' = [kernel EXCEPT ![d] = [type |-> kernel[Fd(h)].type,
                                              phase |-> "connected"]]

Connect(h) ==
    /\ Holds(h) /\ Agrees(h, "connect")
    /\ kernel' = [kernel EXCEPT ![Fd(h)].phase = "connected"]
    /\ impl' = [impl EXCEPT ![ptr[h]].connected = TRUE, ![ptr[h]].bound = TRUE]
    /\ UNCHANGED <<ptr, heap>>

Next ==
    \E h \in Objects :
        \/ \E type \in Types : Construct(h, type)
        \/ \E g \in Objects : MoveConstruct(h, g) \/ MoveAssign(h, g) \/ Accept(h, g)
        \/ Destroy(h)
        \/ Bind(h) \/ Listen(h) \/ Connect(h)

Spec == Init /\ [][Next]_vars

-----------------------------------------------------------------------------
(* Properties *)

(* Every variable has its type. *)
TypeOK ==
    /\ ptr \in [Objects -> Impls \cup {Null, Unborn}]
    /\ heap \subseteq Impls
    /\ impl \in [Impls -> Implementations]
    /\ kernel \in [Fds -> [type : Types, phase : Phases]]

(* An object that is not empty points to an implementation that lives and  *)
(* names an open descriptor, and no other object has either: no sequence   *)
(* of moves leads to a descriptor that is closed twice, or used after its  *)
(* number has been given to another socket.                                *)
OneOwner ==
    \A h \in Objects : Holds(h) =>
        /\ ptr[h] \in heap
        /\ Fd(h) \in Fds /\ ~Free(Fd(h))
        /\ \A g \in Objects \ {h} : Holds(g) => ptr[g] # ptr[h] /\ Fd(g) # Fd(h)

(* No descriptor is lost: one that is open has an object that will close   *)
(* it.                                                                     *)
NothingLost == \A d \in Fds : ~Free(d) => \E h \in Objects : Holds(h) /\ Fd(h) = d

(* What an object says of itself is what the kernel would say: is_bound is *)
(* true of a socket with an address, whoever gave it, and is_connected of  *)
(* one that was connected or accepted.                                     *)
FlagsAgree ==
    \A h \in Objects : Holds(h) =>
        LET i == impl[ptr[h]]
            k == kernel[i.sock]
        IN  /\ i.type = k.type
            /\ IsConnected(h) <=> k.phase = "connected"
            /\ IsBound(h) <=> k.phase # "fresh"

=============================================================================
