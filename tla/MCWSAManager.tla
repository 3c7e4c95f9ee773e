---------------------------- MODULE MCWSAManager ----------------------------
(***************************************************************************)
(* The model checker's view of WSAManager: objects, addresses and          *)
(* descriptors are interchangeable.                                        *)
(***************************************************************************)
EXTENDS WSAManager, TLC

Symmetry == Permutations(Objects) \cup Permutations(Impls) \cup Permutations(Fds)

=============================================================================
