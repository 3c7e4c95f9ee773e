----------------------------- MODULE WSAManager -----------------------------
(***************************************************************************)
(* WSA_Manager, which keeps Winsock up under the sockets of the Windows    *)
(* file: its count of clients, next to the count Windows keeps.  The       *)
(* operations of CSocket are those of SocketHandles.                       *)
(*                                                                         *)
(* clients is a std::size_t that wraps.  Three things unbalance it: move   *)
(* assignment decrements it although both objects live on, and each of     *)
(* them decrements it again; the defaulted move constructor adds an object *)
(* without incrementing it; and a WSAStartup that fails is counted as one  *)
(* that succeeded, since it returns the error where the code expects       *)
(* SOCKET_ERROR, which it never returns.                                   *)
(*                                                                         *)
(* The module follows the program until Winsock goes down under an open    *)
(* socket, if it ever does.                                                *)
(***************************************************************************)
EXTENDS Integers, SocketHandles

CONSTANTS
    ClientsMod,   \* clients is kept modulo this number (2^64 in the code)
    MaxStarts,    \* bound: calls of attempt_init
    MaxFrees      \* bound: calls of attempt_free; neither wraps all the way

ASSUME WSAAssumption ==
    /\ ClientsMod \in Nat \ {0} /\ MaxStarts \in Nat /\ MaxFrees \in Nat
    /\ MaxStarts < ClientsMod /\ MaxFrees < ClientsMod

VARIABLES
    clients,   \* WSA_Manager::clients
    startups,  \* calls of WSAStartup that WSACleanup has not undone
    starts,    \* calls of attempt_init so far
    frees,     \* calls of attempt_free so far
    odd,       \* an object was move-constructed or moved to itself (history)
    failed     \* a call of WSAStartup has failed (history)

managerVars == <<clients, startups, starts, frees, odd, failed>>
allVars     == <<vars, managerVars>>

WInit ==
    /\ Init
    /\ clients = 0 /\ startups = 0 /\ starts = 0 /\ frees = 0
    /\ odd = FALSE /\ failed = FALSE

(* Whether WSAStartup fails or not, the client is counted.                 *)
AttemptInit ==
    /\ starts < MaxStarts
    /\ starts' = starts + 1
    /\ clients' = (clients + 1) % ClientsMod
    /\ \/ startups' = startups + 1 /\ UNCHANGED failed
       \/ failed' = TRUE /\ UNCHANGED startups
    /\ UNCHANGED frees

(* Mutant of AttemptFree: every call undoes a start-up. *)
AttemptFreeAlways ==
    /\ frees < MaxFrees
    /\ frees' = frees + 1
    /\ clients' = (clients - 1) % ClientsMod
    /\ startups' = IF startups > 0 THEN startups - 1 ELSE startups
    /\ UNCHANGED <<starts, failed>>

AttemptFree ==
    /\ frees < MaxFrees
    /\ frees' = frees + 1
    /\ clients' = (clients - 1) % ClientsMod
    /\ startups' = IF clients' = 0 /\ startups > 0 THEN startups - 1 ELSE startups
    /\ UNCHANGED <<starts, failed>>

(* ::socket needs Winsock, whoever started it. *)
WConstruct(h, type) ==
    Construct(h, type) /\ AttemptInit /\ startups' > 0 /\ UNCHANGED odd

(* ::socket fails: no object comes to be that would undo attempt_init. *)
ConstructFails == AttemptInit /\ UNCHANGED <<vars, odd>>

WAccept(g, h) == Accept(g, h) /\ AttemptInit /\ UNCHANGED odd

WMoveConstruct(h, g) ==
    /\ MoveConstruct(h, g)
    /\ odd' = TRUE
    /\ UNCHANGED <<clients, startups, starts, frees, failed>>

WMoveAssign(h, g) ==
    /\ MoveAssign(h, g) /\ AttemptFree
    /\ odd' = (odd \/ g = h)

WDestroy(h) == Destroy(h) /\ AttemptFree /\ UNCHANGED odd

WBind(h)    == Bind(h) /\ UNCHANGED managerVars
WListen(h)  == Listen(h) /\ UNCHANGED managerVars
WConnect(h) == Connect(h) /\ UNCHANGED managerVars

(* Winsock has not gone down under an open socket. *)
Followed == (\E h \in Objects : Holds(h)) => startups > 0

WOperation ==
    \/ \E h \in Objects :
          \/ \E type \in Types : WConstruct(h, type)
          \/ \E g \in Objects : WMoveConstruct(h, g) \/ WMoveAssign(h, g) \/ WAccept(h, g)
          \/ WDestroy(h)
          \/ WBind(h) \/ WListen(h) \/ WConnect(h)
    \/ ConstructFails

WNext == Followed /\ WOperation

WSpec == WInit /\ [][WNext]_allVars

-----------------------------------------------------------------------------
(* Properties *)

(* Every variable has its type. *)
ManagerTypeOK ==
    /\ clients \in 0 .. ClientsMod - 1 /\ startups \in Nat
    /\ starts \in 0 .. MaxStarts /\ frees \in 0 .. MaxFrees
    /\ odd \in BOOLEAN /\ failed \in BOOLEAN

(* Winsock is up as long as a socket exists, however wrong the count has   *)
(* become, if every start-up succeeds and the program does what this one   *)
(* does with its sockets: it constructs, accepts, destroys and assigns     *)
(* them to each other.  It does not construct one from another, nor move   *)
(* one to itself.  After one of those, or after a start-up that failed and *)
(* was counted, a single destructor may take Winsock down under an open    *)
(* socket.                                                                 *)
WinsockUp ==
    (~odd /\ ~failed /\ \E h \in Objects : Holds(h)) => startups > 0

=============================================================================
