---------------------------- MODULE SocketProofs ----------------------------
(***************************************************************************)
(* Proofs about the socket handles, for any sets of objects, addresses and *)
(* descriptors.                                                            *)
(*                                                                         *)
(* Ownership is inductive together with the types and with the fact that   *)
(* no descriptor is lost.  A step that closes a descriptor is one that     *)
(* takes the pointer to it away; the moves hand a pointer over without a   *)
(* copy; and a new implementation and a new descriptor are at places that  *)
(* OneOwner says nobody has.                                               *)
(***************************************************************************)
EXTENDS SocketHandles, TLAPS

HandlesInv == TypeOK /\ OneOwner /\ NothingLost /\ FlagsAgree

(* A new object, constructed or accepted: an implementation at an address  *)
(* that was free, with a descriptor that was free and whose phase in the   *)
(* kernel is what the flags say.                                           *)
NewSocket(h, p, d, type, connected, phase) ==
    /\ ptr' = [ptr EXCEPT ![h] = p] /\ heap' = heap \cup {p}
    /\ impl' = [impl EXCEPT ![p] = [sock |-> d, type |-> type,
                                    connected |-> connected, bound |-> connected]]
    /\ kernel' = [kernel EXCEPT ![d] = [type |-> type, phase |-> phase]]

(* The invariant survives a new object. *)
LEMMA NewSocketStep ==
    ASSUME SocketAssumption, HandlesInv,
           NEW h \in Objects, ptr[h] = Unborn,
           NEW p \in Impls \ heap, NEW d \in Fds, Free(d),
           NEW type \in Types, NEW connected \in BOOLEAN, NEW phase \in {"fresh", "connected"},
           connected <=> phase = "connected",
           NewSocket(h, p, d, type, connected, phase)
    PROVE  HandlesInv'
<1> USE DEF HandlesInv, Holds, IsConnected, IsBound, Fd, Free
<1>1. TypeOK'
  BY DEF TypeOK, NewSocket, Implementations, Phases
<1>2. Holds(h)' /\ ptr'[h] = p /\ Fd(h)' = d /\ kernel'[d].phase = phase
  BY DEF TypeOK, NewSocket
<1>3. ASSUME NEW g \in Objects \ {h}
      PROVE  /\ ptr'[g] = ptr[g]
             /\ Holds(g) => /\ ptr[g] # p /\ Fd(g) # d
                            /\ impl'[ptr[g]] = impl[ptr[g]]
                            /\ kernel'[Fd(g)] = kernel[Fd(g)]
  BY <1>3 DEF TypeOK, OneOwner, NewSocket
<1>4. OneOwner'
  <2> SUFFICES ASSUME NEW g \in Objects, Holds(g)'
               PROVE  /\ ptr'[g] \in heap'
                      /\ Fd(g)' \in Fds /\ ~Free(Fd(g))'
                      /\ \A k \in Objects \ {g} :
                            Holds(k)' => ptr'[k] # ptr'[g] /\ Fd(k)' # Fd(g)'
    BY DEF OneOwner
  <2>1. CASE g = h
    BY <1>2, <1>3, <2>1 DEF NewSocket
  <2>2. CASE g # h
    BY <1>2, <1>3, <2>2 DEF NewSocket, OneOwner
  <2> QED
    BY <2>1, <2>2
<1>5. NothingLost'
  <2> SUFFICES ASSUME NEW e \in Fds, ~Free(e)'
               PROVE  \E g \in Objects : Holds(g)' /\ Fd(g)' = e
    BY DEF NothingLost
  <2>1. CASE e = d
    BY <1>2, <2>1
  <2>2. CASE e # d
    <3>1. ~Free(e)
      BY <2>2 DEF NewSocket, TypeOK
    <3>2. PICK g \in Objects : Holds(g) /\ Fd(g) = e
      BY <3>1 DEF NothingLost
    <3>3. g # h
      BY <3>2 DEF SocketAssumption
    <3> QED
      BY <1>3, <3>2, <3>3
  <2> QED
    BY <2>1, <2>2
<1>6. FlagsAgree'
  <2> SUFFICES ASSUME NEW g \in Objects, Holds(g)'
               PROVE  LET i == impl'[ptr'[g]]
                          k == kernel'[i.sock]
                      IN  /\ i.type = k.type
                          /\ i.connected <=> k.phase = "connected"
                          /\ i.bound <=> k.phase # "fresh"
    BY DEF FlagsAgree
  <2>1. CASE g = h
    BY <1>2, <2>1 DEF NewSocket, TypeOK
  <2>2. CASE g # h
    BY <1>3, <2>2 DEF FlagsAgree
  <2> QED
    BY <2>1, <2>2
<1> QED
  BY <1>1, <1>4, <1>5, <1>6

(* An operation changes the socket of the object it is called on, in       *)
(* implementation and kernel alike, and keeps the descriptor where it is.  *)
SocketChanges(h, connected, bound, phase) ==
    /\ UNCHANGED <<ptr, heap>>
    /\ kernel' = [kernel EXCEPT ![Fd(h)].phase = phase]
    /\ impl' = [impl EXCEPT ![ptr[h]].connected = connected, ![ptr[h]].bound = bound]

(* The invariant survives such an operation. *)
LEMMA OperationStep ==
    ASSUME HandlesInv,
           NEW h \in Objects, Holds(h),
           NEW connected \in BOOLEAN, NEW bound \in BOOLEAN, NEW phase \in Phases \ {"closed"},
           connected <=> phase = "connected", bound <=> phase # "fresh",
           SocketChanges(h, connected, bound, phase)
    PROVE  HandlesInv'
<1> USE DEF HandlesInv, Holds, IsConnected, IsBound, Fd, Free
<1>1. TypeOK'
  BY DEF TypeOK, SocketChanges, Implementations, OneOwner
<1>2. /\ ptr' = ptr /\ heap' = heap
      /\ Fd(h)' = Fd(h) /\ kernel'[Fd(h)].phase = phase
      /\ kernel'[Fd(h)].type = kernel[Fd(h)].type
      /\ impl'[ptr[h]].type = impl[ptr[h]].type
      /\ impl'[ptr[h]].connected = connected /\ impl'[ptr[h]].bound = bound
  BY DEF TypeOK, SocketChanges, Implementations, OneOwner
<1>3. ASSUME NEW g \in Objects \ {h}, Holds(g)
      PROVE  impl'[ptr[g]] = impl[ptr[g]] /\ kernel'[Fd(g)] = kernel[Fd(g)]
  BY <1>3 DEF TypeOK, OneOwner, SocketChanges
<1>4. ASSUME NEW g \in Objects, Holds(g)
      PROVE  Holds(g)' /\ ptr'[g] = ptr[g] /\ Fd(g)' = Fd(g) /\ ~Free(Fd(g))'
  BY <1>2, <1>3, <1>4 DEF OneOwner, TypeOK, Phases
<1>5. OneOwner'
  BY <1>2, <1>4 DEF OneOwner
<1>6. NothingLost'
  <2> SUFFICES ASSUME NEW e \in Fds, ~Free(e)'
               PROVE  \E g \in Objects : Holds(g)' /\ Fd(g)' = e
    BY DEF NothingLost
  <2>1. ~Free(e)
    <3>1. CASE e = Fd(h)
      BY <3>1 DEF OneOwner
    <3>2. CASE e # Fd(h)
      BY <3>2 DEF SocketChanges, TypeOK
    <3> QED
      BY <3>1, <3>2
  <2> QED
    BY <2>1, <1>4 DEF NothingLost
<1>7. FlagsAgree'
  BY <1>2, <1>3 DEF FlagsAgree
<1> QED
  BY <1>1, <1>5, <1>6, <1>7

(* The pointer of g goes to h, whose own descriptor is closed.             *)
LEMMA HandOverStep ==
    ASSUME SocketAssumption, HandlesInv,
           NEW h \in Objects, NEW g \in Objects, ptr[g] # Unborn,
           Close(h),
           ptr' = [ptr EXCEPT ![h] = ptr[g], ![g] = Null],
           UNCHANGED <<heap, impl>>
    PROVE  HandlesInv'
<1> USE DEF HandlesInv, Holds, IsConnected, IsBound, Fd, Free
<1>1. TypeOK'
  <2>1. ptr' \in [Objects -> Impls \cup {Null, Unborn}]
    BY DEF TypeOK
  <2>2. kernel' \in [Fds -> [type : Types, phase : Phases]]
    BY DEF TypeOK, Close, Phases, OneOwner
  <2> QED
    BY <2>1, <2>2 DEF TypeOK
(* Whoever holds a pointer now held it, or is h and has it from g; it is   *)
(* not the one that h gave up, so its descriptor is untouched.             *)
<1>2. ASSUME NEW k \in Objects, Holds(k)'
      PROVE  \E m \in Objects :
                /\ Holds(m) /\ ptr'[k] = ptr[m] /\ m = (IF k = h THEN g ELSE k)
                /\ m # h /\ k # g
                /\ Fd(k)' = Fd(m) /\ kernel'[Fd(m)] = kernel[Fd(m)]
  <2> DEFINE m == IF k = h THEN g ELSE k
  <2>1. k # g /\ ptr'[k] = ptr[m] /\ m # h /\ m \in Objects /\ Holds(m)
    BY <1>2 DEF TypeOK, SocketAssumption
  <2>2. Fd(k)' = Fd(m)
    BY <2>1
  <2>3. kernel'[Fd(m)] = kernel[Fd(m)]
    BY <2>1 DEF Close, OneOwner, TypeOK
  <2> QED
    BY <2>1, <2>2, <2>3
<1>3. OneOwner'
  <2> SUFFICES ASSUME NEW k \in Objects, Holds(k)'
               PROVE  /\ ptr'[k] \in heap'
                      /\ Fd(k)' \in Fds /\ ~Free(Fd(k))'
                      /\ \A n \in Objects \ {k} :
                            Holds(n)' => ptr'[n] # ptr'[k] /\ Fd(n)' # Fd(k)'
    BY DEF OneOwner
  <2>1. PICK m \in Objects :
           /\ Holds(m) /\ ptr'[k] = ptr[m] /\ m = (IF k = h THEN g ELSE k)
           /\ Fd(k)' = Fd(m) /\ kernel'[Fd(m)] = kernel[Fd(m)] /\ k # g
    BY <1>2
  <2>2. ptr'[k] \in heap' /\ Fd(k)' \in Fds /\ ~Free(Fd(k))'
    <3>1. ptr[m] \in heap /\ Fd(m) \in Fds /\ ~Free(Fd(m))
      BY <2>1 DEF OneOwner
    <3> QED
      BY <2>1, <3>1
  <2>3. ASSUME NEW n \in Objects \ {k}, Holds(n)'
        PROVE  ptr'[n] # ptr'[k] /\ Fd(n)' # Fd(k)'
    <3>1. PICK o \in Objects :
             /\ Holds(o) /\ ptr'[n] = ptr[o] /\ o = (IF n = h THEN g ELSE n)
             /\ Fd(n)' = Fd(o) /\ n # g
      BY <1>2, <2>3
    <3>2. o # m
      BY <2>1, <2>3, <3>1
    <3> QED
      BY <2>1, <3>1, <3>2 DEF OneOwner
  <2> QED
    BY <2>2, <2>3
<1>4. NothingLost'
  <2> SUFFICES ASSUME NEW e \in Fds, ~Free(e)'
               PROVE  \E k \in Objects : Holds(k)' /\ Fd(k)' = e
    BY DEF NothingLost
  <2>1. ~Free(e) /\ ~(Holds(h) /\ Fd(h) = e)
    BY DEF Close, TypeOK
  <2>2. PICK m \in Objects : Holds(m) /\ Fd(m) = e
    BY <2>1 DEF NothingLost
  <2>3. m # h
    BY <2>1, <2>2
  <2>4. CASE m = g
    BY <2>2, <2>3, <2>4 DEF TypeOK
  <2>5. CASE m # g
    BY <2>2, <2>3, <2>5 DEF TypeOK
  <2> QED
    BY <2>4, <2>5
<1>5. FlagsAgree'
  <2> SUFFICES ASSUME NEW k \in Objects, Holds(k)'
               PROVE  LET i == impl'[ptr'[k]]
                          d == kernel'[i.sock]
                      IN  /\ i.type = d.type
                          /\ i.connected <=> d.phase = "connected"
                          /\ i.bound <=> d.phase # "fresh"
    BY DEF FlagsAgree
  <2>1. PICK m \in Objects :
           Holds(m) /\ ptr'[k] = ptr[m] /\ Fd(k)' = Fd(m) /\ kernel'[Fd(m)] = kernel[Fd(m)]
    BY <1>2
  <2> QED
    BY <2>1, SMTT(20) DEF FlagsAgree
<1> QED
  BY <1>1, <1>3, <1>4, <1>5

(* The invariant survives a destructor. *)
LEMMA DestroyStep ==
    ASSUME SocketAssumption, HandlesInv, NEW h \in Objects, Destroy(h)
    PROVE  HandlesInv'
<1> USE DEF HandlesInv, Holds, IsConnected, IsBound, Fd, Free, Destroy
<1>1. TypeOK'
  BY DEF TypeOK, Close, Phases, Types, Nothing, Implementations
<1>2. ASSUME NEW k \in Objects, Holds(k)'
      PROVE  /\ Holds(k) /\ k # h /\ ptr'[k] = ptr[k]
             /\ impl'[ptr[k]] = impl[ptr[k]] /\ ptr[k] \in heap'
             /\ kernel'[Fd(k)] = kernel[Fd(k)]
  <2>1. k # h /\ ptr'[k] = ptr[k] /\ Holds(k)
    BY <1>2 DEF TypeOK, SocketAssumption
  <2>2. ptr[k] # ptr[h]
    BY <2>1 DEF OneOwner
  <2>3. kernel'[Fd(k)] = kernel[Fd(k)]
    BY <2>1 DEF Close, OneOwner, TypeOK
  <2> QED
    BY <2>1, <2>2, <2>3 DEF OneOwner, TypeOK
<1>3. OneOwner'
  BY <1>2 DEF OneOwner
<1>4. NothingLost'
  <2> SUFFICES ASSUME NEW e \in Fds, ~Free(e)'
               PROVE  \E k \in Objects : Holds(k)' /\ Fd(k)' = e
    BY DEF NothingLost
  <2>1. ~Free(e) /\ ~(Holds(h) /\ Fd(h) = e)
    BY DEF Close, TypeOK
  <2>2. PICK m \in Objects : Holds(m) /\ Fd(m) = e
    BY <2>1 DEF NothingLost
  <2>3. m # h
    BY <2>1, <2>2
  <2>4. ptr'[m] = ptr[m] /\ (Holds(h) => ptr[m] # ptr[h])
    BY <2>2, <2>3 DEF TypeOK, OneOwner
  <2> QED
    BY <2>2, <2>4 DEF TypeOK
<1>5. FlagsAgree'
  BY <1>2 DEF FlagsAgree
<1> QED
  BY <1>1, <1>3, <1>4, <1>5

(* HandlesInv is inductive: one case for each operation of CSocket.        *)
LEMMA HandlesStep == SocketAssumption /\ HandlesInv /\ [Next]_vars => HandlesInv'
<1> SUFFICES ASSUME SocketAssumption, HandlesInv, [Next]_vars PROVE HandlesInv'
  OBVIOUS
<1>1. ASSUME NEW h \in Objects, NEW type \in Types, Construct(h, type) PROVE HandlesInv'
  <2>1. PICK p \in Impls \ heap, d \in Fds :
           Free(d) /\ NewSocket(h, p, d, type, FALSE, "fresh")
    BY <1>1 DEF Construct, NewSocket
  <2> QED
    BY <1>1, <2>1, NewSocketStep DEF Construct
<1>2. ASSUME NEW h \in Objects, NEW g \in Objects, MoveConstruct(h, g) PROVE HandlesInv'
  <2>1. Close(h)
    BY <1>2 DEF MoveConstruct, Close, Holds, SocketAssumption
  <2> QED
    BY <1>2, <2>1, HandOverStep DEF MoveConstruct
<1>3. ASSUME NEW h \in Objects, NEW g \in Objects, MoveAssign(h, g) PROVE HandlesInv'
  BY <1>3, HandOverStep DEF MoveAssign
<1>4. ASSUME NEW h \in Objects, NEW g \in Objects, Accept(h, g) PROVE HandlesInv'
  <2> DEFINE type == kernel[Fd(g)].type
  <2>1. impl[ptr[g]].type = type
    BY <1>4 DEF Accept, HandlesInv, FlagsAgree, Fd
  <2>2. PICK p \in Impls \ heap, d \in Fds :
           Free(d) /\ NewSocket(h, p, d, type, TRUE, "connected")
    BY <1>4, <2>1 DEF Accept, NewSocket
  <2>3. type \in Types
    BY <1>4 DEF Accept, HandlesInv, TypeOK, OneOwner
  <2> QED
    BY <1>4, <2>2, <2>3, NewSocketStep DEF Accept
<1>5. ASSUME NEW h \in Objects, Destroy(h) PROVE HandlesInv'
  BY <1>5, DestroyStep
<1>6. ASSUME NEW h \in Objects, Bind(h) PROVE HandlesInv'
  <2>1. kernel[Fd(h)].phase = "fresh" /\ ~impl[ptr[h]].connected
        /\ impl[ptr[h]] \in Implementations /\ ptr[h] \in Impls
    BY <1>6 DEF Bind, Agrees, Allows, HandlesInv, FlagsAgree, IsConnected, Fd, TypeOK, Holds
  <2>2. SocketChanges(h, FALSE, TRUE, "bound")
    BY <1>6, <2>1 DEF Bind, SocketChanges, Implementations, HandlesInv, TypeOK
  <2> QED
    BY <1>6, <2>2, OperationStep DEF Bind, Phases
<1>7. ASSUME NEW h \in Objects, Listen(h) PROVE HandlesInv'
  <2>1. impl[ptr[h]] \in Implementations /\ ptr[h] \in Impls
        /\ impl[ptr[h]].bound = TRUE /\ impl[ptr[h]].connected = FALSE
    BY <1>7 DEF Listen, IsBound, IsConnected, HandlesInv, TypeOK, Holds, Implementations
  <2> DEFINE same == [impl EXCEPT ![ptr[h]].connected = FALSE, ![ptr[h]].bound = TRUE]
  <2>2. impl \in [Impls -> Implementations]
    BY DEF HandlesInv, TypeOK
  <2>3. same[ptr[h]] = impl[ptr[h]]
    BY <2>1, <2>2 DEF Implementations
  <2>4. same = impl
    BY <2>1, <2>2, <2>3
  <2>5. SocketChanges(h, FALSE, TRUE, "listening")
    BY <1>7, <2>4 DEF Listen, SocketChanges
  <2> QED
    BY <1>7, <2>5, OperationStep DEF Listen, IsBound, Phases
<1>8. ASSUME NEW h \in Objects, Connect(h) PROVE HandlesInv'
  <2>1. SocketChanges(h, TRUE, TRUE, "connected")
    BY <1>8 DEF Connect, SocketChanges
  <2> QED
    BY <1>8, <2>1, OperationStep DEF Connect, Phases
<1>9. CASE UNCHANGED vars
  BY <1>9 DEF vars, HandlesInv, TypeOK, OneOwner, NothingLost, FlagsAgree, Holds, IsConnected,
              IsBound, Fd, Free
<1> QED
  BY <1>1, <1>2, <1>3, <1>4, <1>5, <1>6, <1>7, <1>8, <1>9 DEF Next

LEMMA HandlesInit == SocketAssumption /\ Init => HandlesInv
BY DEF SocketAssumption, Init, HandlesInv, TypeOK, OneOwner, NothingLost, FlagsAgree,
       Holds, Fd, Free, Implementations, Types, Phases, Nothing, Null, Unborn

(* Ownership, types and flags, for any sequence of operations. *)
THEOREM Handles == Spec => []HandlesInv
<1>1. Init => HandlesInv
  BY HandlesInit, SocketAssumption
<1>2. HandlesInv /\ [Next]_vars => HandlesInv'
  BY HandlesStep, SocketAssumption
<1> QED
  BY <1>1, <1>2, PTL DEF Spec

(* No descriptor is closed twice or used after it was closed. *)
THEOREM OneOwnerAlways == Spec => []OneOwner
<1>1. HandlesInv => OneOwner
  BY DEF HandlesInv
<1> QED
  BY Handles, <1>1, PTL

(* No descriptor is left open without an object to close it. *)
THEOREM NothingLostEver == Spec => []NothingLost
<1>1. HandlesInv => NothingLost
  BY DEF HandlesInv
<1> QED
  BY Handles, <1>1, PTL

(* The flags agree with the kernel. *)
THEOREM FlagsAlwaysAgree == Spec => []FlagsAgree
<1>1. HandlesInv => FlagsAgree
  BY DEF HandlesInv
<1> QED
  BY Handles, <1>1, PTL

=============================================================================
