--------------------------- MODULE ChecksumProofs ---------------------------
(***************************************************************************)
(* What the checksum cannot miss, for every polynomial, package length and *)
(* content.                                                                *)
(*                                                                         *)
(* Dividing is linear, so the two registers differ by what the damage      *)
(* alone leaves in a register (Gap).  Short damage leaves something: its   *)
(* first bit stays the lowest one of the gap until it is divided, which    *)
(* sets the highest bit of the register; from then on some bit of the gap  *)
(* is above all the bits that the rest of the damage can reach.            *)
(***************************************************************************)
EXTENDS Checksum, TLAPS

Gap == Xor(sent, got)

(* The first bit of the damage has not been divided yet, *)
Ahead == \E first \in Gap : /\ first < bit /\ room = first + Top + 1
                            /\ \A i \in Gap : first <= i

(* or it has. *)
Behind == room <= Top /\ \E i \in Gap : i >= room

ShortDamageShows == (room # NoDamage /\ ~wide) => Ahead \/ Behind

ChecksumInv ==
    /\ TypeOK
    /\ room = NoDamage => sent = got
    /\ ShortDamageShows

-----------------------------------------------------------------------------
(* The registers *)

(* A round divides the difference of two registers as it divides them. *)
LEMMA DividedLinear ==
    ASSUME NEW a, NEW b
    PROVE  Xor(Divided(a), Divided(b)) = Divided(Xor(a, b))
<1>1. Shifted(Xor(a, b)) = Xor(Shifted(a), Shifted(b))
  BY DEF Shifted, Xor
<1>2. CASE 0 \in a /\ 0 \in b
  BY <1>1, <1>2 DEF Divided, Xor
<1>3. CASE 0 \in a /\ 0 \notin b
  BY <1>1, <1>3 DEF Divided, Xor
<1>4. CASE 0 \notin a /\ 0 \in b
  BY <1>1, <1>4 DEF Divided, Xor
<1>5. CASE 0 \notin a /\ 0 \notin b
  BY <1>1, <1>5 DEF Divided, Xor
<1> QED
  BY <1>2, <1>3, <1>4, <1>5

(* Adding a byte to each adds the difference of the bytes. *)
LEMMA XorLinear ==
    ASSUME NEW a, NEW b, NEW c, NEW d
    PROVE  Xor(Xor(a, b), Xor(c, d)) = Xor(Xor(a, c), Xor(b, d))
BY DEF Xor

(* Registers stay registers. *)
LEMMA RegisterTypes ==
    /\ \A a \in Registers, b \in Bytes : Xor(a, b) \in Registers
    /\ \A a \in Registers : Divided(a) \in Registers
    /\ \A b \in Bytes : b \in SUBSET (0 .. ByteBits - 1)
<1>1. \A b \in Bytes : b \in SUBSET (0 .. ByteBits - 1)
  BY ChecksumAssumption
<1>2. 0 .. ByteBits - 1 \subseteq 0 .. Top
  BY ChecksumAssumption
<1>3. \A a \in Registers, b \in Bytes : Xor(a, b) \in Registers
  BY <1>1, <1>2 DEF Xor, Registers
<1>4. \A a \in Registers : Divided(a) \in Registers
  BY ChecksumAssumption DEF Divided, Shifted, Xor, Registers
<1> QED
  BY <1>1, <1>3, <1>4

-----------------------------------------------------------------------------
(* The invariant *)

(* Both computations begin with the same empty register. *)
LEMMA ChecksumInit == ASSUME Init PROVE ChecksumInv
<1>1. sent \in Registers /\ got \in Registers /\ sent = got
  BY DEF Init, Registers
<1>2. bytes \in 0 .. MaxBytes /\ bit \in 0 .. ByteBits
  BY ChecksumAssumption DEF Init
<1>3. room = NoDamage /\ wide \in BOOLEAN
  BY DEF Init
<1> QED
  BY <1>1, <1>2, <1>3 DEF ChecksumInv, TypeOK, ShortDamageShows

(* Taking a byte keeps the invariant. *)
LEMMA TakeByteStep == ASSUME ChecksumInv, TakeByte PROVE ChecksumInv'
<1>1. PICK b \in Bytes, c \in Bytes :
         /\ sent' = Xor(sent, b) /\ got' = Xor(got, c)
         /\ Damage(Xor(b, c))
  BY DEF TakeByte
<1> DEFINE d == Xor(b, c)
<1>2. Gap' = Xor(Gap, d)
  BY <1>1, XorLinear DEF Gap
<1>3. d \in SUBSET (0 .. ByteBits - 1) /\ Top \in Nat /\ ByteBits \in Nat \ {0}
  BY RegisterTypes, ChecksumAssumption DEF Xor
<1>4. bit = 0 /\ bit' = ByteBits /\ bytes' = bytes + 1 /\ bytes < MaxBytes
  BY DEF TakeByte
<1>5. Damage(d)
  BY <1>1
<1>6. Gap \in Registers /\ room \in Nat \cup {NoDamage}
  BY DEF ChecksumInv, TypeOK, Gap, Xor, Registers
<1> HIDE DEF d
<1>7. TypeOK'
  <2>1. sent' \in Registers /\ got' \in Registers
    BY <1>1, RegisterTypes DEF ChecksumInv, TypeOK
  <2>2. bytes' \in 0 .. MaxBytes /\ bit' \in 0 .. ByteBits
    BY <1>3, <1>4, ChecksumAssumption DEF ChecksumInv, TypeOK
  <2>3. room' \in Nat \cup {NoDamage} /\ wide' \in BOOLEAN
    <3>1. room' \in Nat \cup {NoDamage}
      <4>1. \A i \in d : i + Top + 1 \in Nat
        BY <1>3
      <4> QED
        BY <1>5, <1>6, <4>1 DEF Damage
    <3>2. wide \in BOOLEAN
      BY DEF ChecksumInv, TypeOK
    <3>3. wide' = wide \/ wide' = (wide \/ \E i \in d : i >= room)
      BY <1>5, Zenon DEF Damage
    <3> QED
      BY <3>1, <3>2, <3>3, Zenon
  <2> QED
    BY <2>1, <2>2, <2>3 DEF TypeOK
<1>8. CASE d = {}
  <2>1. Gap' = Gap /\ UNCHANGED <<room, wide>>
    BY <1>2, <1>5, <1>8 DEF Xor, Damage
  <2>2. room' = NoDamage => sent' = got'
    BY <1>1, <1>8, <2>1 DEF ChecksumInv, Xor, d
  <2>3. ShortDamageShows'
    BY <1>3, <1>4, <1>6, <2>1 DEF ChecksumInv, ShortDamageShows, Ahead, Behind, Registers
  <2> QED
    BY <1>7, <2>2, <2>3 DEF ChecksumInv
<1>9. CASE d # {} /\ room = NoDamage
  <2>1. PICK first \in d : (\A i \in d : first <= i) /\ room' = first + Top + 1
    BY <1>5, <1>9 DEF Damage
  <2>2. Gap' = d
    BY <1>2, <1>9 DEF ChecksumInv, Gap, Xor
  <2>3. first < bit'
    BY <1>3, <1>4, <2>1
  <2>4. Ahead'
    BY <2>1, <2>2, <2>3 DEF Ahead
  <2>5. room' # NoDamage
    BY <1>3, <2>1 DEF NoDamage
  <2> QED
    BY <1>7, <2>4, <2>5 DEF ChecksumInv, ShortDamageShows
<1>10. CASE d # {} /\ room # NoDamage
  <2>1. wide' = (wide \/ \E i \in d : i >= room) /\ room' = room
    BY <1>5, <1>10 DEF Damage
  <2>2. ASSUME ~wide' PROVE Behind'
    <3>1. ~wide /\ \A i \in d : ~(i >= room)
      BY <2>1, <2>2
    <3>2. Behind
      BY <1>3, <1>4, <1>6, <1>10, <3>1
         DEF ChecksumInv, ShortDamageShows, Ahead, Registers
    <3>3. PICK i \in Gap : i >= room
      BY <3>2 DEF Behind
    <3>4. i \in Gap'
      BY <1>2, <3>1, <3>3 DEF Xor
    <3> QED
      BY <2>1, <3>2, <3>3, <3>4 DEF Behind
  <2> QED
    BY <1>7, <1>10, <2>1, <2>2 DEF ChecksumInv, ShortDamageShows
<1> QED
  BY <1>8, <1>9, <1>10

(* Dividing a bit keeps the invariant. *)
LEMMA DivideBitStep == ASSUME ChecksumInv, DivideBit PROVE ChecksumInv'
<1>1. /\ bit > 0 /\ bit' = bit - 1 /\ UNCHANGED <<bytes, wide>>
      /\ sent' = Divided(sent) /\ got' = Divided(got)
      /\ room' = IF room > 0 THEN room - 1 ELSE room
  BY DEF DivideBit
<1>2. /\ Top \in Nat /\ ByteBits \in Nat /\ bit \in 0 .. ByteBits
      /\ room \in Nat \cup {NoDamage} /\ Gap \in Registers
  BY ChecksumAssumption DEF ChecksumInv, TypeOK, Gap, Xor, Registers
<1>3. Gap' = Divided(Gap)
  BY <1>1, DividedLinear DEF Gap
<1>4. TypeOK'
  BY <1>1, <1>2, RegisterTypes DEF ChecksumInv, TypeOK, NoDamage
<1>5. room' = NoDamage => sent' = got'
  BY <1>1, <1>2 DEF ChecksumInv, NoDamage
<1>6. ASSUME room' # NoDamage, ~wide' PROVE Ahead' \/ Behind'
  <2>1. room \in Nat /\ (Ahead \/ Behind)
    BY <1>1, <1>2, <1>6 DEF ChecksumInv, ShortDamageShows, NoDamage
  <2>2. CASE 0 \in Gap
    <3>1. Top \in Gap'
      <4>1. Top \notin Shifted(Gap)
        BY <1>2 DEF Shifted, Registers
      <4> QED
        BY <1>3, <2>2, <4>1, ChecksumAssumption DEF Divided, Xor
    <3>2. room' <= Top
      BY <1>1, <1>2, <2>1, <2>2 DEF Ahead, Behind, Registers
    <3> QED
      BY <1>2, <3>1, <3>2 DEF Behind
  <2>3. CASE 0 \notin Gap
    <3>1. Gap' = Shifted(Gap)
      BY <1>3, <2>3 DEF Divided, Xor
    <3>2. \A i \in Gap : i - 1 \in Gap'
      BY <1>2, <2>3, <3>1 DEF Shifted, Registers
    <3>3. \A i \in Gap' : i + 1 \in Gap /\ i \in 0 .. Top
      BY <3>1 DEF Shifted
    <3>4. CASE Ahead
      <4>1. PICK first \in Gap : /\ first < bit /\ room = first + Top + 1
                                 /\ \A i \in Gap : first <= i
        BY <3>4 DEF Ahead
      <4>2. first \in 1 .. Top /\ first - 1 \in Gap'
        BY <1>2, <2>3, <3>2, <4>1 DEF Registers
      <4>3. first - 1 < bit' /\ room' = (first - 1) + Top + 1
        BY <1>1, <1>2, <4>1, <4>2
      <4>4. \A i \in Gap' : first - 1 <= i
        BY <3>3, <4>1, <4>2
      <4> QED
        BY <4>2, <4>3, <4>4 DEF Ahead
    <3>5. CASE Behind
      <4>1. PICK i \in Gap : i >= room
        BY <3>5 DEF Behind
      <4>2. i - 1 \in Gap' /\ i \in 1 .. Top
        BY <1>2, <2>3, <3>2, <4>1 DEF Registers
      <4>3. room' <= Top /\ i - 1 >= room'
        BY <1>1, <1>2, <2>1, <3>5, <4>1, <4>2 DEF Behind
      <4> QED
        BY <4>2, <4>3 DEF Behind
    <3> QED
      BY <2>1, <3>4, <3>5
  <2> QED
    BY <2>2, <2>3
<1> QED
  BY <1>4, <1>5, <1>6 DEF ChecksumInv, ShortDamageShows

-----------------------------------------------------------------------------
(* The theorems *)

(* What short damage leaves in a register is never divided away. *)
THEOREM ShortDamageStays == Spec => []ChecksumInv
<1>1. Init => ChecksumInv
  BY ChecksumInit
<1>2. ChecksumInv /\ [Next]_vars => ChecksumInv'
  <2> SUFFICES ASSUME ChecksumInv, [Next]_vars PROVE ChecksumInv'
    OBVIOUS
  <2>1. CASE UNCHANGED vars
    BY <2>1 DEF vars, ChecksumInv, TypeOK, ShortDamageShows, Ahead, Behind, Gap
  <2> QED
    BY <2>1, TakeByteStep, DivideBitStep DEF Next
<1> QED
  BY <1>1, <1>2, PTL DEF Spec

(* No bit above the polynomial is ever set in a checksum. *)
THEOREM ChecksumTypes == Spec => []TypeOK
<1>1. ChecksumInv => TypeOK
  BY DEF ChecksumInv
<1> QED
  BY <1>1, ShortDamageStays, PTL

(* A package is approved if it arrives as it was sent, and never if it was *)
(* damaged within as many bits as the polynomial spans.                    *)
THEOREM ChecksumVerdict == Spec => []VerdictRight
<1>1. ChecksumInv => VerdictRight
  <2> SUFFICES ASSUME ChecksumInv, bit = 0
               PROVE  /\ room = NoDamage => Approved
                      /\ (room # NoDamage /\ ~wide) => ~Approved
    BY DEF VerdictRight
  <2>1. room = NoDamage => Approved
    BY DEF ChecksumInv, Approved
  <2>2. ASSUME room # NoDamage, ~wide PROVE ~Approved
    <3>1. \E i \in Gap : TRUE
      BY <2>2 DEF ChecksumInv, ShortDamageShows, Ahead, Behind
    <3> QED
      BY <3>1 DEF Gap, Xor, Approved
  <2> QED
    BY <2>1, <2>2
<1> QED
  BY <1>1, ShortDamageStays, PTL

=============================================================================
