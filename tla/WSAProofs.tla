----------------------------- MODULE WSAProofs -----------------------------
(***************************************************************************)
(* Proofs about WSAManager: it does nothing to the handles that            *)
(* SocketHandles does not do, so what is proved of those holds; and        *)
(* Winsock stays up under every socket.                                    *)
(*                                                                         *)
(* As long as none has failed, start-ups are undone only when the count    *)
(* comes down to zero, so it never gets ahead of them (CountOK).  As long as no two objects    *)
(* have lived at a time the two go up and down together.  From then on one *)
(* start-up is left over for good: it can be undone only by a count that   *)
(* comes down to zero with one start-up left, and with one left the count  *)
(* is at zero or has wrapped below it.                                     *)
(***************************************************************************)
EXTENDS WSAManager, SocketProofs

(* What remains of the modulus: the count is the difference of the calls,  *)
(* or has wrapped once.                                                    *)
CountOK ==
    /\ clients = IF starts >= frees THEN starts - frees ELSE ClientsMod + starts - frees
    /\ ~failed => starts - frees <= startups

Untouched == startups = 0 /\ starts = frees /\ \A h \in Objects : ptr[h] = Unborn

First ==
    /\ startups = 1 /\ starts = frees + 1
    /\ \A g, h \in Objects : ptr[g] # Unborn /\ ptr[h] # Unborn => g = h

LeftOver == startups >= 2 \/ (startups = 1 /\ starts <= frees)

ManagerInv ==
    /\ ManagerTypeOK /\ CountOK
    /\ ~odd /\ ~failed => Untouched \/ First \/ LeftOver

(* One up and one down, modulo the count's range. *)
LEMMA Up == ASSUME NEW m \in Nat \ {0}, NEW x \in 0 .. m - 1
            PROVE  (x + 1) % m = IF x = m - 1 THEN 0 ELSE x + 1
OBVIOUS

LEMMA Down == ASSUME NEW m \in Nat \ {0}, NEW x \in 0 .. m - 1
              PROVE  (x - 1) % m = IF x = 0 THEN m - 1 ELSE x - 1
OBVIOUS

(* What attempt_init does to the count. *)
LEMMA InitStep ==
    ASSUME WSAAssumption, ManagerTypeOK, CountOK, AttemptInit, odd' \in BOOLEAN
    PROVE  /\ ManagerTypeOK' /\ CountOK' /\ starts' = starts + 1
           /\ ~failed' => ~failed /\ startups' = startups + 1
<1>1. clients' = IF clients = ClientsMod - 1 THEN 0 ELSE clients + 1
  BY Up DEF WSAAssumption, ManagerTypeOK, AttemptInit
<1>2. starts' = starts + 1 /\ starts' <= MaxStarts /\ frees' = frees
  BY DEF AttemptInit, ManagerTypeOK, WSAAssumption
<1>3. startups' \in Nat
  BY DEF AttemptInit, ManagerTypeOK
<1>4. failed' \in BOOLEAN
  BY DEF AttemptInit, ManagerTypeOK
<1>5. ~failed' => ~failed /\ startups' = startups + 1
  BY DEF AttemptInit
<1>6. ManagerTypeOK'
  BY <1>1, <1>2, <1>3, <1>4 DEF WSAAssumption, ManagerTypeOK
<1>7. CountOK'
  BY <1>1, <1>2, <1>5 DEF WSAAssumption, ManagerTypeOK, CountOK
<1> QED
  BY <1>2, <1>5, <1>6, <1>7

(* What attempt_free does to it: Winsock is told only when the calls come  *)
(* to be equally many.                                                     *)
LEMMA FreeStep ==
    ASSUME WSAAssumption, ManagerTypeOK, CountOK, AttemptFree, odd' \in BOOLEAN
    PROVE  /\ ManagerTypeOK' /\ CountOK'
           /\ frees' = frees + 1 /\ starts' = starts /\ failed' = failed
           /\ startups' = IF starts = frees + 1 /\ startups > 0 THEN startups - 1 ELSE startups
<1>1. clients' = IF clients = 0 THEN ClientsMod - 1 ELSE clients - 1
  BY Down DEF WSAAssumption, ManagerTypeOK, AttemptFree
<1>2. clients' = 0 <=> starts = frees + 1
  BY <1>1 DEF WSAAssumption, ManagerTypeOK, CountOK, AttemptFree
<1>3. frees' = frees + 1 /\ starts' = starts /\ frees' <= MaxFrees /\ failed' = failed
  BY DEF WSAAssumption, ManagerTypeOK, AttemptFree
<1>4. startups' = IF starts = frees + 1 /\ startups > 0 THEN startups - 1 ELSE startups
  BY <1>2 DEF AttemptFree
<1>5. failed' \in BOOLEAN
  BY <1>3 DEF ManagerTypeOK
<1>6. ManagerTypeOK'
  BY <1>1, <1>3, <1>4, <1>5 DEF WSAAssumption, ManagerTypeOK
<1>7. CountOK'
  BY <1>1, <1>3, <1>4 DEF WSAAssumption, ManagerTypeOK, CountOK
<1> QED
  BY <1>3, <1>4, <1>6, <1>7

(* A socket comes to be, or ::socket fails and only the count goes up.     *)
LEMMA OneMore ==
    ASSUME WSAAssumption, TypeOK, ManagerInv, AttemptInit, odd' = odd,
           ptr' = ptr \/ \E h \in Objects, p \in Impls : ptr' = [ptr EXCEPT ![h] = p]
    PROVE  ManagerInv'
<1> USE DEF ManagerInv
<1>1. /\ ManagerTypeOK' /\ CountOK' /\ starts' = starts + 1
      /\ ~failed' => ~failed /\ startups' = startups + 1
  BY InitStep DEF ManagerTypeOK
<1>2. frees' = frees
  BY DEF AttemptInit
<1>3. ~failed' => (Untouched => First')
  BY <1>1, <1>2 DEF Untouched, First, TypeOK
<1>4. ~failed' => (First \/ LeftOver => LeftOver')
  BY <1>1 DEF First, LeftOver, ManagerTypeOK
<1> QED
  BY <1>1, <1>3, <1>4

(* A destructor runs, or an object is assigned to another: the count goes  *)
(* down, and the first object goes or is not the only one.                 *)
LEMMA OneLess ==
    ASSUME WSAAssumption, TypeOK, ManagerInv, NEW h \in Objects, ptr[h] # Unborn,
           AttemptFree, odd' \in BOOLEAN, odd => odd',
           \/ ptr' = [ptr EXCEPT ![h] = Unborn]
           \/ \E g \in Objects : ptr[g] # Unborn /\ (g = h => odd')
    PROVE  ManagerInv'
<1> USE DEF ManagerInv
<1>1. /\ ManagerTypeOK' /\ CountOK'
      /\ frees' = frees + 1 /\ starts' = starts /\ failed' = failed
      /\ startups' = IF starts = frees + 1 /\ startups > 0 THEN startups - 1 ELSE startups
  BY FreeStep
<1> SUFFICES ASSUME ~odd', ~failed' PROVE Untouched' \/ First' \/ LeftOver'
  BY <1>1
<1>2. First \/ LeftOver
  BY <1>1 DEF Untouched, First, LeftOver
<1>3. CASE LeftOver
  BY <1>1, <1>3 DEF LeftOver, ManagerTypeOK
<1>4. CASE First
  <2>1. ptr' = [ptr EXCEPT ![h] = Unborn]
    BY <1>4 DEF First
  <2>2. \A g \in Objects : ptr'[g] = Unborn
    BY <1>4, <2>1 DEF First, TypeOK
  <2>3. startups' = 0 /\ starts' = frees'
    BY <1>1, <1>4 DEF First, ManagerTypeOK
  <2> QED
    BY <2>2, <2>3 DEF Untouched
<1> QED
  BY <1>2, <1>3, <1>4

(* The manager's invariant under every operation, over handles whose types *)
(* are right.                                                              *)
LEMMA ManagerStep ==
    WSAAssumption /\ TypeOK /\ ManagerInv /\ [WNext]_allVars => ManagerInv'
<1> SUFFICES ASSUME WSAAssumption, TypeOK, ManagerInv, [WNext]_allVars PROVE ManagerInv'
  OBVIOUS
<1>1. ASSUME NEW h \in Objects, NEW type \in Types, WConstruct(h, type) PROVE ManagerInv'
  BY <1>1, OneMore DEF WConstruct, Construct
<1>2. ASSUME NEW h \in Objects, NEW g \in Objects, WMoveConstruct(h, g) PROVE ManagerInv'
  BY <1>2 DEF WMoveConstruct, ManagerInv, ManagerTypeOK, CountOK
<1>3. ASSUME NEW h \in Objects, NEW g \in Objects, WMoveAssign(h, g) PROVE ManagerInv'
  <2>1. odd' \in BOOLEAN /\ (odd => odd') /\ (g = h => odd')
    BY <1>3 DEF WMoveAssign, ManagerInv, ManagerTypeOK
  <2> QED
    BY <1>3, <2>1, OneLess DEF WMoveAssign, MoveAssign
<1>4. ASSUME NEW h \in Objects, NEW g \in Objects, WAccept(h, g) PROVE ManagerInv'
  BY <1>4, OneMore DEF WAccept, Accept
<1>5. ASSUME NEW h \in Objects, WDestroy(h) PROVE ManagerInv'
  <2>1. odd' \in BOOLEAN /\ (odd => odd')
    BY <1>5 DEF WDestroy, ManagerInv, ManagerTypeOK
  <2> QED
    BY <1>5, <2>1, OneLess DEF WDestroy, Destroy
<1>6. CASE ConstructFails
  BY <1>6, OneMore DEF ConstructFails, vars
<1>7. ASSUME ptr' = ptr, UNCHANGED managerVars PROVE ManagerInv'
  BY <1>7 DEF managerVars, ManagerInv, ManagerTypeOK, CountOK, Untouched, First, LeftOver
<1>8. ASSUME NEW h \in Objects, WBind(h) \/ WListen(h) \/ WConnect(h) PROVE ManagerInv'
  BY <1>7, <1>8 DEF WBind, WListen, WConnect, Bind, Listen, Connect
<1>9. CASE UNCHANGED allVars
  BY <1>7, <1>9 DEF allVars, vars
<1> QED
  BY <1>1, <1>2, <1>3, <1>4, <1>5, <1>6, <1>8, <1>9 DEF WNext, WOperation

(* The first state: no object, no call.                                    *)
LEMMA ManagerInit == WSAAssumption /\ WInit => ManagerInv
<1> SUFFICES ASSUME WSAAssumption, WInit PROVE ManagerInv
  OBVIOUS
<1>1. ManagerTypeOK /\ CountOK
  <2>1. odd \in BOOLEAN /\ failed \in BOOLEAN
    <3>1. odd = FALSE /\ failed = FALSE
      BY DEF WInit
    <3> QED
      BY <3>1
  <2>2. clients = 0 /\ startups = 0 /\ starts = 0 /\ frees = 0
    BY DEF WInit
  <2> QED
    BY <2>1, <2>2 DEF WSAAssumption, ManagerTypeOK, CountOK
<1>2. Untouched
  BY DEF WInit, Init, Untouched
<1> QED
  BY <1>1, <1>2 DEF ManagerInv

(* Every operation of the Windows file is one of CSocket or changes no     *)
(* handle: what is proved of handles holds there too, until Winsock goes   *)
(* down under an open socket.                                              *)
THEOREM HandlesOnWindows == WSpec => Spec
<1>1. WInit => Init
  BY DEF WInit
<1>2. [WNext]_allVars => [Next]_vars
  BY DEF WNext, WOperation, allVars, Next, WConstruct, WMoveConstruct, WMoveAssign, WAccept, WDestroy,
         WBind, WListen, WConnect, ConstructFails
<1> QED
  BY <1>1, <1>2, PTL DEF WSpec, Spec

(* The count of the manager, for any number of sockets and any modulus     *)
(* that is not passed.                                                     *)
THEOREM Manager == WSpec => []ManagerInv
<1>1. WInit => ManagerInv
  BY ManagerInit, WSAAssumption
<1>2. TypeOK /\ ManagerInv /\ [WNext]_allVars => ManagerInv'
  BY ManagerStep, WSAAssumption
<1>3. HandlesInv => TypeOK
  BY DEF HandlesInv
<1> QED
  BY <1>1, <1>2, <1>3, HandlesOnWindows, Handles, PTL DEF WSpec

(* Winsock is up under every socket, unless one was move-constructed or    *)
(* moved to itself or a start-up has failed.                               *)
THEOREM WinsockStaysUp == WSpec => []WinsockUp
<1>1. ManagerInv => WinsockUp
  BY SocketAssumption DEF ManagerInv, ManagerTypeOK, WinsockUp, Untouched, First, LeftOver,
                          Holds, SocketAssumption
<1> QED
  BY Manager, <1>1, PTL

=============================================================================
