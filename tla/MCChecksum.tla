----------------------------- MODULE MCChecksum -----------------------------
(***************************************************************************)
(* Values for the model checker: the code's polynomial, and packages long  *)
(* enough for damage to be wider than it.                                  *)
(***************************************************************************)
EXTENDS Checksum

Ethernet == {0, 1, 2, 4, 5, 7, 8, 10, 11, 12, 16, 22, 23, 26}

SomeBytes == {{}, {0}, {7}}

=============================================================================
