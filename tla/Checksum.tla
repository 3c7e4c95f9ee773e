------------------------------ MODULE Checksum ------------------------------
(***************************************************************************)
(* crc32, and which damage to a package it cannot miss.                    *)
(*                                                                         *)
(* The sending end writes the checksum of its package into the header, the *)
(* receiving end compares it with the one of the package it has read.  The *)
(* two computations are run side by side here, a byte and then a bit at a  *)
(* time; where they differ is what the network did to the package.         *)
(*                                                                         *)
(* A register is the set of the bits that are set, bit 0 the lowest.       *)
(* (calc_checksum_hton swaps the bytes of both checksums alike.)           *)
(***************************************************************************)
EXTENDS Integers

CONSTANTS
    ByteBits,   \* BITS_IN_BYTE
    Poly,       \* POLY, the bits of 0x04C11DB7
    Top,        \* the highest of them
    Bytes,      \* the bytes considered
    MaxBytes    \* bound: bytes in a package

ASSUME ChecksumAssumption ==
    /\ ByteBits \in Nat \ {0} /\ Top \in Nat /\ ByteBits <= Top + 1
    /\ Poly \subseteq 0 .. Top /\ Top \in Poly
    /\ Bytes \subseteq SUBSET (0 .. ByteBits - 1)
    /\ MaxBytes \in Nat

VARIABLES
    sent, got,  \* acc, at the sending and at the receiving end
    bytes,      \* bytes taken so far
    bit,        \* each_bit, the bits of the last byte still to be divided
    room,       \* how far from the next bit the packages may still differ for
                \* the damage to be short; NoDamage before they differ
    wide        \* whether they have differed further than that

vars == <<sent, got, bytes, bit, room, wide>>

NoDamage == -1

Xor(a, b) == (a \ b) \cup (b \ a)

(* Mutant of Shifted: the register is shifted the other way. *)
ShiftedLeft(acc) == {i + 1 : i \in acc}

Shifted(acc) == {i \in 0 .. Top : i + 1 \in acc}

(* Mutant of Divided: the bit is tested after the shift. *)
DividedLate(acc) == Xor(Shifted(acc), IF 0 \in Shifted(acc) THEN Poly ELSE {})

(* One round of the inner loop. *)
Divided(acc) == Xor(Shifted(acc), IF 0 \in acc THEN Poly ELSE {})

Init ==
    /\ sent = {} /\ got = {}
    /\ bytes = 0 /\ bit = 0
    /\ room = NoDamage /\ wide = FALSE

(* Damage is short when its first and its last bit are at most as far      *)
(* apart as the lowest and the highest bit of a register, Top.             *)
Damage(bits) ==
    \/ bits = {} /\ UNCHANGED <<room, wide>>
    \/ /\ bits # {} /\ room = NoDamage
       /\ \E first \in bits :
             /\ \A i \in bits : first <= i
             /\ room' = first + Top + 1
       /\ UNCHANGED wide
    \/ /\ bits # {} /\ room # NoDamage
       /\ wide' = (wide \/ \E i \in bits : i >= room)
       /\ UNCHANGED room

(* acc ^= * current *)
TakeByte ==
    /\ bit = 0 /\ bytes < MaxBytes
    /\ \E b \in Bytes, c \in Bytes :
          /\ sent' = Xor(sent, b) /\ got' = Xor(got, c)
          /\ Damage(Xor(b, c))
    /\ bytes' = bytes + 1 /\ bit' = ByteBits

DivideBit ==
    /\ bit > 0
    /\ sent' = Divided(sent) /\ got' = Divided(got)
    /\ bit' = bit - 1
    /\ room' = IF room > 0 THEN room - 1 ELSE room
    /\ UNCHANGED <<bytes, wide>>

Next == TakeByte \/ DivideBit

Spec == Init /\ [][Next]_vars

-----------------------------------------------------------------------------
(* Properties *)

Registers == SUBSET (0 .. Top)

(* Every variable has its type; in particular no bit above the polynomial  *)
(* is ever set, so that of the 32 bits of the checksum 27 carry something. *)
TypeOK ==
    /\ sent \in Registers /\ got \in Registers
    /\ bytes \in 0 .. MaxBytes /\ bit \in 0 .. ByteBits
    /\ room \in Nat \cup {NoDamage} /\ wide \in BOOLEAN

Approved == sent = got

(* A package that arrives as it was sent is approved, and one that differs *)
(* from it within any Top + 1 bits is not, however long it is and whatever *)
(* the rest of it says.                                                    *)
VerdictRight ==
    bit = 0 => /\ room = NoDamage => Approved
               /\ (room # NoDamage /\ ~wide) => ~Approved

=============================================================================
