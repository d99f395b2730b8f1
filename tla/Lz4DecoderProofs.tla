--------------------------- MODULE Lz4DecoderProofs --------------------------
(***************************************************************************)
(* Proofs about Lz4Decoder.  For every call, whatever the bytes of the     *)
(* block, and although most of its copies are wider than what they are     *)
(* for, it writes nothing behind the output: the proof knows of the block  *)
(* only that it is made of bytes.                                          *)
(***************************************************************************)
EXTENDS Lz4Decoder, SequenceTheorems, WellFoundedInduction, TLAPS

Octet == {n \in Nat : n <= 255}
Word == {n \in Nat : n <= LZ4_DISTANCE_ABSOLUTE_MAX}

(***************************************************************************)
(* Every set of numbers that is not empty has a least element.             *)
(***************************************************************************)
LEMMA LeastElement ==
    ASSUME NEW T, T \subseteq Nat, T # {}
    PROVE  \E x \in T : \A y \in T : x <= y
<1> DEFINE R == {ss \in Nat \X Nat : ss[1] < ss[2]}
<1>1. IsWellFoundedOn(R, Nat)
  BY NatLessThanWellFounded, Zenon DEF OpToRel
<1>2. \E x \in T : \A y \in T : ~ (<<y, x>> \in R)
  <2> HIDE DEF R
  <2>1. QED BY <1>1, WFMin, Zenon
<1>3. \A x, y \in Nat : ~ (<<y, x>> \in R) => x <= y
  OBVIOUS
<1> HIDE DEF R
<1>4. QED BY <1>2, <1>3

LEMMA OctetIs ==
    ASSUME NEW x \in Octet
    PROVE  x \in Nat /\ x <= 255 /\ x # 1000
BY DEF Octet

(* Memory up to the fence behind e, and the fence where it has to be. *)
Fenced(m, e) ==
    /\ m = [a \in 0..(e + 64) |-> m[a]]
    /\ \A a \in 0..(e + 64) : (m[a] = 1000) <=> (a >= e)

(* A copy of n bytes to d, whatever it writes, if it does not write a fence. *)
LEMMA FenceStays ==
    ASSUME NEW e \in Nat, NEW m, Fenced(m, e),
           NEW d \in Nat, NEW n \in Int, d + n <= e,
           NEW new, new = [a \in DOMAIN m |-> new[a]],
           \A a \in DOMAIN m : IF a \in d..(d + n - 1) THEN new[a] # 1000
                               ELSE new[a] = m[a]
    PROVE  Fenced(new, e)
<1>1. DOMAIN m = 0..(e + 64)
  BY DEF Fenced
<1>2. new = [a \in 0..(e + 64) |-> new[a]]
  BY <1>1
<1>3. ASSUME NEW a \in 0..(e + 64)
      PROVE  (new[a] = 1000) <=> (a >= e)
  <2>1. IF a \in d..(d + n - 1) THEN new[a] # 1000 ELSE new[a] = m[a]
    BY <1>1
  <2>2. (m[a] = 1000) <=> (a >= e)
    BY DEF Fenced
  <2>3. QED BY <2>1, <2>2
<1>4. QED BY <1>2, <1>3 DEF Fenced

(* What lies below the fence is not the fence. *)
LEMMA BelowFence ==
    ASSUME NEW e \in Nat, NEW m, Fenced(m, e), NEW a \in Int, a < e
    PROVE  At(m, a) # 1000
BY DEF Fenced, At, Undefined

LEMMA ByteCopyInside ==
    ASSUME NEW e \in Nat, NEW m, Fenced(m, e),
           NEW d \in Nat, NEW s \in Int, NEW n \in Int, d + n <= e, s <= d
    PROVE  Fenced(ByteCopy(m, d, s, n), e)
<1>1. CASE d = s
  <2>1. ByteCopy(m, d, s, n) = [a \in DOMAIN m |-> m[a]]
    BY <1>1 DEF ByteCopy
  <2>2. QED BY <2>1 DEF Fenced
<1>2. CASE d # s
  <2> DEFINE new == ByteCopy(m, d, s, n)
  <2>1. d - s \in Nat \ {0}
    BY <1>2
  <2>2. ASSUME NEW a \in d..(d + n - 1)
        PROVE  At(m, s + ((a - d) % (d - s))) # 1000
    <3>1. a - d \in Nat
      OBVIOUS
    <3>2. ((a - d) % (d - s)) \in 0..(d - s - 1)
      BY <2>1, <3>1
    <3>3. s + ((a - d) % (d - s)) \in Int /\ s + ((a - d) % (d - s)) < e
      BY <3>2
    <3>4. QED BY <3>3, BelowFence
  <2>3. new = [a \in DOMAIN m |-> new[a]]
    BY DEF ByteCopy
  <2>4. ASSUME NEW a \in DOMAIN m
        PROVE  IF a \in d..(d + n - 1) THEN new[a] # 1000 ELSE new[a] = m[a]
    <3>1. new[a] = IF a \in d..(d + n - 1)
                   THEN At(m, s + ((a - d) % (d - s))) ELSE m[a]
      BY <1>2 DEF ByteCopy
    <3>2. QED BY <2>2, <3>1
  <2> HIDE DEF new
  <2>5. Fenced(new, e)
    BY <2>3, <2>4, FenceStays
  <2>6. QED BY <2>5 DEF new
<1>3. QED BY <1>1, <1>2

LEMMA MemcpyInside ==
    ASSUME NEW e \in Nat, NEW m, Fenced(m, e),
           NEW d \in Nat, NEW s \in Int, NEW n \in Int, d + n <= e, s <= d
    PROVE  Fenced(memcpy(m, d, s, n), e)
<1> DEFINE new == memcpy(m, d, s, n)
<1>1. new = [a \in DOMAIN m |-> new[a]]
  BY DEF memcpy
<1>2. ASSUME NEW a \in DOMAIN m
      PROVE  IF a \in d..(d + n - 1) THEN new[a] # 1000 ELSE new[a] = m[a]
  <2>1. CASE a \notin d..(d + n - 1)
    BY <2>1 DEF memcpy
  <2>2. CASE a \in d..(d + n - 1)
    <3>1. new[a] \in {At(m, s + a - d), 1001}
      BY <2>2 DEF memcpy, Undefined
    <3>2. s + a - d \in Int /\ s + a - d < e
      BY <2>2
    <3>3. At(m, s + a - d) # 1000
      BY <3>2, BelowFence
    <3>4. QED BY <2>2, <3>1, <3>3
  <2>3. QED BY <2>1, <2>2
<1> HIDE DEF new
<1>3. Fenced(new, e)
  BY <1>1, <1>2, FenceStays
<1>4. QED BY <1>3 DEF new

(* The bytes of the block are numbers up to 255, and behind it nothing is. *)
LEMMA SrcIs ==
    ASSUME src \in Seq(Octet), NEW p \in Nat
    PROVE  /\ Src(p) \in Nat /\ Src(p) # 1000
           /\ p < iend => Src(p) <= 255
           /\ p >= iend => Src(p) = 1001
<1>1. iend \in Nat /\ (p < iend => p + 1 \in 1..Len(src))
  BY DEF iend
<1>2. p < iend => src[p + 1] \in Octet
  BY <1>1, ElementOfSeq
<1>3. p < iend => Src(p) = src[p + 1]
  BY DEF Src
<1>4. p >= iend => Src(p) = 1001
  BY <1>1 DEF Src, Undefined
<1>5. CASE p < iend
  BY <1>1, <1>2, <1>3, <1>5, OctetIs
<1>6. CASE ~ (p < iend)
  BY <1>1, <1>4, <1>6
<1>7. QED BY <1>5, <1>6

LEMMA FromBlockInside ==
    ASSUME NEW e \in Nat, NEW m, Fenced(m, e), src \in Seq(Octet),
           NEW d \in Nat, NEW p \in Nat, NEW n \in Int, d + n <= e
    PROVE  Fenced(FromBlock(m, d, p, n), e)
<1> DEFINE new == FromBlock(m, d, p, n)
<1>1. new = [a \in DOMAIN m |-> new[a]]
  BY DEF FromBlock
<1>2. ASSUME NEW a \in DOMAIN m
      PROVE  IF a \in d..(d + n - 1) THEN new[a] # 1000 ELSE new[a] = m[a]
  <2>1. new[a] = IF a \in d..(d + n - 1) THEN Src(p + a - d) ELSE m[a]
    BY DEF FromBlock
  <2>2. a \in d..(d + n - 1) => p + a - d \in Nat
    OBVIOUS
  <2>3. a \in d..(d + n - 1) => Src(p + a - d) # 1000
    BY <2>2, SrcIs
  <2>4. QED BY <2>1, <2>3
<1> HIDE DEF new
<1>3. Fenced(new, e)
  BY <1>1, <1>2, FenceStays
<1>4. QED BY <1>3 DEF new

(* Of the dictionary apart only bytes are copied that are there. *)
LEMMA FromDictInside ==
    ASSUME NEW e \in Nat, NEW m, Fenced(m, e), NEW d \in Nat, NEW n \in Int,
           d + n <= e, input.bytes \in Seq(Octet), NEW p \in Nat,
           input.lost \in Nat, input.lost + p + n <= Len(input.bytes)
    PROVE  Fenced(FromDict(m, d, p, n), e)
<1> DEFINE new == FromDict(m, d, p, n)
<1>1. new = [a \in DOMAIN m |-> new[a]]
  BY DEF FromDict
<1>2. ASSUME NEW a \in DOMAIN m
      PROVE  IF a \in d..(d + n - 1) THEN new[a] # 1000 ELSE new[a] = m[a]
  <2>1. new[a] = IF a \in d..(d + n - 1)
                 THEN input.bytes[input.lost + p + a - d + 1] ELSE m[a]
    BY DEF FromDict
  <2>2. a \in d..(d + n - 1)
          => input.lost + p + a - d + 1 \in 1..Len(input.bytes)
    OBVIOUS
  <2>3. a \in d..(d + n - 1)
          => input.bytes[input.lost + p + a - d + 1] # 1000
    BY <2>2, ElementOfSeq, OctetIs
  <2>4. QED BY <2>1, <2>3, Zenon
<1> HIDE DEF new
<1>3. Fenced(new, e)
  BY <1>1, <1>2, FenceStays
<1>4. QED BY <1>3 DEF new

LEMMA CopiesInside ==
    ASSUME NEW e \in Nat, NEW m, Fenced(m, e), NEW w,
           NEW d \in Nat, NEW s \in Int, NEW n \in Int, d + n <= e, s <= d
    PROVE  Fenced(Copies(m, d, s, n, w), e)
<1>1. CASE d - s >= w
  BY <1>1, ByteCopyInside DEF Copies
<1>2. CASE ~ (d - s >= w)
  <2> DEFINE new == Copies(m, d, s, n, w)
  <2>1. new = [a \in DOMAIN m |-> IF a \in d..(d + n - 1) THEN 1001 ELSE m[a]]
    BY <1>2 DEF Copies, Undefined
  <2>2. /\ new = [a \in DOMAIN m |-> new[a]]
        /\ \A a \in DOMAIN m : IF a \in d..(d + n - 1) THEN new[a] # 1000
                                ELSE new[a] = m[a]
    BY <2>1
  <2> HIDE DEF new
  <2>3. Fenced(new, e)
    BY <2>2, FenceStays
  <2>4. QED BY <2>3 DEF new
<1>3. QED BY <1>1, <1>2

(* The rounds of a copy end less than a round behind its end. *)
LEMMA RoundsOf8 ==
    ASSUME NEW d \in Int, NEW to \in Int
    PROVE  \E n \in Nat : /\ n = 8 * Rounds(d, to, 8)
                          /\ n = 8 \/ n <= to - d + 7
<1>1. CASE to <= d
  BY <1>1 DEF Rounds
<1>2. CASE to > d
  <2>1. to - d + 7 \in Nat
    BY <1>2
  <2>2. /\ (to - d + 7) \div 8 \in Nat
        /\ 8 * ((to - d + 7) \div 8) <= to - d + 7
    BY <2>1
  <2>3. Rounds(d, to, 8) = (to - d + 7) \div 8
    BY <1>2 DEF Rounds
  <2>4. QED BY <2>2, <2>3
<1>3. QED BY <1>1, <1>2

LEMMA RoundsOf32 ==
    ASSUME NEW d \in Int, NEW to \in Int
    PROVE  \E n \in Nat : /\ n = 32 * Rounds(d, to, 32)
                          /\ n = 32 \/ n <= to - d + 31
<1>1. CASE to <= d
  BY <1>1 DEF Rounds
<1>2. CASE to > d
  <2>1. to - d + 31 \in Nat
    BY <1>2
  <2>2. /\ (to - d + 31) \div 32 \in Nat
        /\ 32 * ((to - d + 31) \div 32) <= to - d + 31
    BY <2>1
  <2>3. Rounds(d, to, 32) = (to - d + 31) \div 32
    BY <1>2 DEF Rounds
  <2>4. QED BY <2>2, <2>3
<1>3. QED BY <1>1, <1>2

LEMMA WildCopy8Inside ==
    ASSUME NEW e \in Nat, NEW m, Fenced(m, e), NEW d \in Nat, NEW s \in Int,
           NEW to \in Int, d + 8 <= e, to + 7 <= e, s <= d
    PROVE  Fenced(wildCopy8(m, d, s, to), e)
<1>1. PICK n \in Nat : /\ n = 8 * Rounds(d, to, 8)
                       /\ n = 8 \/ n <= to - d + 7
  BY RoundsOf8
<1>2. d + n <= e
  BY <1>1
<1>3. Fenced(Copies(m, d, s, n, 8), e)
  BY <1>1, <1>2, CopiesInside
<1>4. QED BY <1>1, <1>3 DEF wildCopy8

LEMMA WildCopy32Inside ==
    ASSUME NEW e \in Nat, NEW m, Fenced(m, e), NEW d \in Nat, NEW s \in Int,
           NEW to \in Int, d + 32 <= e, to + 31 <= e, s <= d
    PROVE  Fenced(wildCopy32(m, d, s, to), e)
<1>1. PICK n \in Nat : /\ n = 32 * Rounds(d, to, 32)
                       /\ n = 32 \/ n <= to - d + 31
  BY RoundsOf32
<1>2. d + n <= e
  BY <1>1
<1>3. Fenced(Copies(m, d, s, n, 16), e)
  BY <1>1, <1>2, CopiesInside
<1>4. QED BY <1>1, <1>3 DEF wildCopy32

(* What the two tables say of an offset below 8. *)
LEMMA Tables ==
    ASSUME NEW o \in 0..7
    PROVE  /\ inc32table[o + 1] \in 0..4
           /\ dec64table[o + 1] \in -4..3
<1>1. o + 1 \in {1, 2, 3, 4, 5, 6, 7, 8}
  OBVIOUS
<1>2. QED BY <1>1 DEF inc32table, dec64table

LEMMA FirstEightInside ==
    ASSUME NEW e \in Nat, NEW m, Fenced(m, e),
           NEW d \in Nat, NEW s \in Int, d + 8 <= e, s <= d
    PROVE  Fenced(FirstEight(m, d, s), e)
<1>1. CASE d - s < 8
  <2> DEFINE inc == inc32table[(d - s) + 1]
             zero == Zeros(m, d, 4)
             four == ByteCopy(zero, d, s, 4)
  <2>1. inc \in 0..4
    BY <1>1, Tables
  <2>2. /\ zero = [a \in DOMAIN m |-> zero[a]]
        /\ \A a \in DOMAIN m : IF a \in d..(d + 4 - 1) THEN zero[a] # 1000
                                ELSE zero[a] = m[a]
    BY DEF Zeros
  <2>3. FirstEight(m, d, s) = memcpy(four, d + 4, s + inc, 4)
    BY <1>1 DEF FirstEight
  <2> HIDE DEF inc, zero
  <2>4. Fenced(zero, e)
    <3>1. 4 \in Int /\ d + 4 <= e
      OBVIOUS
    <3>2. QED BY <2>2, <3>1, FenceStays
  <2>5. Fenced(four, e)
    BY <2>4, ByteCopyInside
  <2> HIDE DEF four
  <2>6. /\ d + 4 \in Nat /\ s + inc \in Int /\ s + inc <= d + 4
        /\ (d + 4) + 4 <= e
    BY <2>1
  <2>7. Fenced(memcpy(four, d + 4, s + inc, 4), e)
    BY <2>5, <2>6, MemcpyInside
  <2>8. QED BY <2>3, <2>7
<1>2. CASE ~ (d - s < 8)
  BY <1>2, MemcpyInside DEF FirstEight
<1>3. QED BY <1>1, <1>2

LEMMA AfterEightBehind ==
    ASSUME NEW d \in Nat, NEW s \in Int, s <= d
    PROVE  AfterEight(d, s) \in Int /\ AfterEight(d, s) <= d + 8
<1>1. CASE d - s < 8
  <2>1. /\ inc32table[(d - s) + 1] \in 0..4
        /\ dec64table[(d - s) + 1] \in -4..3
    BY <1>1, Tables
  <2>2. AfterEight(d, s)
          = s + inc32table[(d - s) + 1] - dec64table[(d - s) + 1]
    BY <1>1 DEF AfterEight
  <2>3. QED BY <2>1, <2>2
<1>2. CASE ~ (d - s < 8)
  BY <1>2 DEF AfterEight
<1>3. QED BY <1>1, <1>2

LEMMA UsingOffsetInside ==
    ASSUME NEW e \in Nat, NEW m, Fenced(m, e), NEW d \in Nat, NEW s \in Int,
           NEW to \in Int, d + 16 <= e, to + 7 <= e, s <= d
    PROVE  Fenced(CopyUsingOffset(m, d, s, to), e)
<1>1. CASE d - s \in {1, 2, 4}
  <2>1. PICK n \in Nat : /\ n = 8 * Rounds(d, to, 8)
                         /\ n = 8 \/ n <= to - d + 7
    BY RoundsOf8
  <2>2. d + n <= e
    BY <2>1
  <2>3. Fenced(ByteCopy(m, d, s, n), e)
    BY <2>1, <2>2, ByteCopyInside
  <2>4. QED BY <1>1, <2>1, <2>3 DEF CopyUsingOffset
<1>2. CASE d - s \notin {1, 2, 4}
  <2>1. Fenced(FirstEight(m, d, s), e)
    BY FirstEightInside
  <2>2. AfterEight(d, s) \in Int /\ AfterEight(d, s) <= d + 8
    BY AfterEightBehind
  <2>3. d + 8 \in Nat /\ (d + 8) + 8 <= e
    OBVIOUS
  <2>4. Fenced(wildCopy8(FirstEight(m, d, s), d + 8, AfterEight(d, s), to), e)
    BY <2>1, <2>2, <2>3, WildCopy8Inside
  <2>5. QED BY <1>2, <2>4 DEF CopyUsingOffset
<1>3. QED BY <1>1, <1>2

LEMMA Copy18Inside ==
    ASSUME NEW e \in Nat, NEW m, Fenced(m, e),
           NEW d \in Nat, NEW s \in Int, d + 18 <= e, s <= d
    PROVE  Fenced(Copy18(m, d, s), e)
<1> DEFINE one == memcpy(m, d, s, 8)
           two == memcpy(one, d + 8, s + 8, 8)
<1>1. Fenced(one, e)
  BY MemcpyInside
<1> HIDE DEF one
<1>2. /\ d + 8 \in Nat /\ s + 8 \in Int /\ (d + 8) + 8 <= e /\ s + 8 <= d + 8
      /\ d + 16 \in Nat /\ s + 16 \in Int /\ (d + 16) + 2 <= e /\ s + 16 <= d + 16
  OBVIOUS
<1>3. Fenced(two, e)
  BY <1>1, <1>2, MemcpyInside
<1> HIDE DEF two
<1>4. Fenced(memcpy(two, d + 16, s + 16, 2), e)
  BY <1>2, <1>3, MemcpyInside
<1>5. QED BY <1>4 DEF Copy18, one, two

LEMMA LastBytesInside ==
    ASSUME NEW e \in Nat, NEW m, Fenced(m, e), NEW d \in Nat, NEW s \in Int,
           NEW to \in Int, to <= e, s <= d
    PROVE  Fenced(LastBytes(m, d, s, e - 7, to), e)
<1>1. CASE d >= e - 7
  <2>1. to - d \in Int /\ d + (to - d) <= e
    OBVIOUS
  <2>2. Fenced(ByteCopy(m, d, s, to - d), e)
    BY <2>1, ByteCopyInside
  <2>3. QED BY <1>1, <2>2 DEF LastBytes
<1>2. CASE ~ (d >= e - 7)
  <2>1. /\ e - 7 \in Nat /\ d + 8 <= e /\ (e - 7) + 7 <= e
        /\ s + (e - 7) - d \in Int /\ s + (e - 7) - d <= e - 7
        /\ to - (e - 7) \in Int /\ (e - 7) + (to - (e - 7)) <= e
    BY <1>2
  <2> DEFINE wild == wildCopy8(m, d, s, e - 7)
  <2>2. Fenced(wild, e)
    BY <2>1, WildCopy8Inside
  <2> HIDE DEF wild
  <2>3. Fenced(ByteCopy(wild, e - 7, s + (e - 7) - d, to - (e - 7)), e)
    BY <2>1, <2>2, ByteCopyInside
  <2>4. QED BY <1>2, <2>3 DEF LastBytes, wild
<1>3. QED BY <1>1, <1>2
-----------------------------------------------------------------------------
Places == {"coding", "fast", "fastmatch", "fastcopy", "safe", "literals",
           "length", "match", "returned"}

DecoderTypeOK ==
    /\ input \in Inputs
    /\ seqs \in Seq(B!Sequence)
    /\ anchor \in Nat /\ anchor <= B!End
    /\ src \in Seq(Octet)
    /\ pc \in Places
    /\ ip \in Nat
    /\ op \in Nat /\ op <= oend
    /\ token \in Nat /\ length \in Nat
    /\ offset \in Word

(***************************************************************************)
(* How much of the block and of the output is left at every place of the   *)
(* decoder.  The fast loop has 64 bytes of room for its copies, a match    *)
(* has the 12 bytes that the end of a block keeps free, unless the caller  *)
(* asked for a part, and no byte is taken from behind the block.           *)
(***************************************************************************)
RoomAt(where, p, o, n) ==
    /\ where = "coding" => p = 0 /\ o = Prefix
    /\ where = "fast" => p < iend /\ o + 64 <= oend
    /\ where = "fastmatch" => p + 2 < iend /\ o + 32 <= oend
    /\ where = "fastcopy" => p < iend /\ n >= 4 /\ o + n + 64 < oend
    /\ where = "safe" => p < iend
    /\ where = "literals" => p <= iend
    /\ where \in {"length", "match"} =>
           p < iend /\ (o + 12 <= oend \/ input.partial)
    /\ where = "match" => n >= 4

RoomLeft == RoomAt(pc, ip, op, length)

DecoderInv == DecoderTypeOK /\ RoomLeft /\ Fenced(mem, oend)

LEMMA BytesAreOctets ==
    ASSUME NEW b \in Seq(Byte), Byte \subseteq Octet
    PROVE  b \in Seq(Octet)
BY SeqMonotonic

LEMMA CallTypes ==
    ASSUME input \in Inputs
    PROVE  /\ input.bytes \in Seq(Octet)
           /\ input.start \in Nat /\ input.start <= Len(input.bytes)
           /\ input.lost \in Nat /\ input.ext \in Nat /\ input.cut \in Nat
           /\ input.lost + input.ext <= input.start
           /\ input.dict # "usingExtDict" => input.ext = 0
           /\ input.room \in Nat /\ input.least \in Nat /\ input.partial \in BOOLEAN
<1>1. input.bytes \in Seq(Byte) /\ input.start \in 0..Len(input.bytes)
  BY DecoderAssumption DEF DecoderAssumption, B!InputsAssumption
<1>2. input.bytes \in Seq(Octet)
  <2>1. Byte \subseteq Octet
    <3>1. Byte \subseteq 0..255
      BY DecoderAssumption, Zenon DEF DecoderAssumption
    <3>2. QED BY <3>1 DEF Octet
  <2>2. input.bytes \in Seq(Byte)
    BY <1>1
  <2>3. QED BY <2>1, <2>2, BytesAreOctets
<1>3. /\ input.lost \in 0..input.start /\ input.ext \in 0..(input.start - input.lost)
      /\ input.cut \in Nat
      /\ input.dict # "usingExtDict" => input.ext = 0
      /\ input.partial \in BOOLEAN /\ input.room \in Nat /\ input.least \in Nat
  BY DecoderAssumption DEF DecoderAssumption
<1>4. Len(input.bytes) \in Nat
  BY <1>2
<1>5. input.start \in Nat /\ input.start <= Len(input.bytes)
  BY <1>1, <1>4
<1>6. /\ input.lost \in Nat /\ input.ext \in Nat
      /\ input.lost + input.ext <= input.start
  BY <1>3, <1>5
<1>7. QED BY <1>2, <1>3, <1>5, <1>6

LEMMA Ends ==
    ASSUME input \in Inputs, src \in Seq(Octet)
    PROVE  /\ Prefix \in Nat /\ oend \in Nat /\ iend \in Nat
           /\ oend = Prefix + input.room
<1>1. Prefix \in Nat
  BY CallTypes DEF Prefix, Apart
<1>2. iend \in Nat
  BY DEF iend
<1>3. QED BY <1>1, <1>2, CallTypes DEF oend

LEMMA EndsStay ==
    ASSUME UNCHANGED coderVars
    PROVE  /\ input' = input /\ seqs' = seqs /\ anchor' = anchor
           /\ oend' = oend /\ Prefix' = Prefix /\ B!End' = B!End
           /\ src' = src => iend' = iend
BY DEF coderVars, oend, Prefix, Apart, B!End, iend

(***************************************************************************)
(* The length that read_variable_length adds up, and where it stops: not   *)
(* behind check, unless it was called there.                               *)
(***************************************************************************)
LEMMA LengthRead ==
    ASSUME src \in Seq(Octet), NEW p \in Nat, NEW check \in Int
    PROVE  /\ ReadLength(p, check).n \in Nat
           /\ ReadLength(p, check).at \in Nat
           /\ ReadLength(p, check).at > p
           /\ ReadLength(p, check).stopped <=> ReadLength(p, check).at >= check
           /\ \/ ReadLength(p, check).at <= check
              \/ ReadLength(p, check).at = p + 1
<1> DEFINE Stops(k) == Src(p + k - 1) # 255 \/ p + k >= check
           Is(k) == /\ Stops(k)
                    /\ \A j \in 1..(k - 1) : Src(p + j - 1) = 255 /\ p + j < check
           T == {k \in Nat \ {0} : Stops(k)}
           chosen == CHOOSE k \in 1..(iend + 1) : Is(k)
<1>1. iend \in Nat
  BY DEF iend
<1>2. iend + 1 \in T
  <2>1. p + (iend + 1) - 1 \in Nat /\ p + (iend + 1) - 1 >= iend
    BY <1>1
  <2>2. Src(p + (iend + 1) - 1) = 1001
    BY <2>1, SrcIs
  <2>3. QED BY <1>1, <2>2
<1>3. PICK k \in T : \A j \in T : k <= j
  <2>1. T \subseteq Nat /\ T # {}
    BY <1>2
  <2> HIDE DEF T
  <2>2. QED BY <2>1, LeastElement
<1>4. k \in 1..(iend + 1)
  <2>1. k \in Nat \ {0}
    BY <1>3
  <2> HIDE DEF T
  <2>2. k <= iend + 1
    BY <1>2, <1>3
  <2>3. QED BY <1>1, <2>1, <2>2
<1>5. Is(k)
  <2>1. Stops(k)
    BY <1>3
  <2>2. ASSUME NEW j \in 1..(k - 1)
        PROVE  Src(p + j - 1) = 255 /\ p + j < check
    <3>1. j \in Nat \ {0} /\ j < k
      BY <1>4
    <3>2. ~ (k <= j)
      BY <3>1, <1>4
    <3>3. j \notin T
      BY <1>3, <3>2
    <3>4. ~ Stops(j)
      BY <3>1, <3>3
    <3>5. QED BY <3>1, <3>4
  <2>3. QED BY <2>1, <2>2
<1> HIDE DEF Is
<1>6. chosen \in 1..(iend + 1) /\ Is(chosen)
  BY <1>4, <1>5, Zenon
<1>7. ReadLength(p, check) =
         [n |-> 255 * (chosen - 1) + Src(p + chosen - 1), at |-> p + chosen,
          stopped |-> p + chosen >= check]
  BY DEF ReadLength, Is
<1> HIDE DEF chosen
<1>8. chosen \in Nat /\ chosen >= 1
  BY <1>1, <1>6
<1>9. Src(p + chosen - 1) \in Nat
  <2>1. p + chosen - 1 \in Nat
    BY <1>8
  <2>2. QED BY <2>1, SrcIs
<1>10. 255 * (chosen - 1) + Src(p + chosen - 1) \in Nat
  BY <1>8, <1>9
<1>11. p + chosen <= check \/ p + chosen = p + 1
  <2>1. CASE chosen = 1
    BY <2>1
  <2>2. CASE chosen # 1
    <3>1. chosen - 1 \in 1..(chosen - 1)
      BY <1>8, <2>2
    <3>2. p + (chosen - 1) < check
      BY <1>6, <3>1 DEF Is
    <3>3. QED BY <1>8, <3>2
  <2>3. QED BY <2>1, <2>2
<1>12. p + chosen \in Nat /\ p + chosen > p
  BY <1>8
<1> DEFINE r == ReadLength(p, check)
<1>13. /\ r.n = 255 * (chosen - 1) + Src(p + chosen - 1)
       /\ r.at = p + chosen
       /\ r.stopped = (p + chosen >= check)
  BY <1>7
<1> HIDE DEF r
<1>14. r.stopped <=> r.at >= check
  BY <1>13
<1>15. r.n \in Nat /\ r.at \in Nat /\ r.at > p /\ (r.at <= check \/ r.at = p + 1)
  BY <1>10, <1>11, <1>12, <1>13
<1>16. QED BY <1>14, <1>15 DEF r
-----------------------------------------------------------------------------
(* The bytes of a sequence are bytes, whatever its lengths. *)
LEMMA RestIsBytes ==
    ASSUME NEW n \in Nat
    PROVE  Rest(n) \in Seq(Octet)
<1>1. CASE n < 15
  <2>1. Rest(n) = <<>>
    BY <1>1 DEF Rest, RUN_MASK
  <2>2. QED BY <2>1, EmptySeq
<1>2. CASE n >= 15
  <2> DEFINE k == (n - 15) \div 255
             full == [i \in 1..k |-> 255]
             final == <<(n - 15) % 255>>
  <2>1. n - 15 \in Nat
    BY <1>2
  <2>2. k \in Nat /\ (n - 15) % 255 \in 0..254
    BY <2>1
  <2>3. Rest(n) = full \o final
    BY <1>2 DEF Rest, RUN_MASK
  <2> HIDE DEF k
  <2>4. full \in Seq(Octet)
    BY <2>2 DEF Octet
  <2>5. final \in Seq(Octet)
    BY <2>2 DEF Octet
  <2> HIDE DEF full, final
  <2>6. full \o final \in Seq(Octet)
    BY <2>4, <2>5, ConcatProperties
  <2>7. QED BY <2>3, <2>6
<1>3. QED BY <1>1, <1>2

LEMMA TokenIsByte ==
    ASSUME NEW ll \in Nat, NEW n \in Nat
    PROVE  /\ 16 * Nibble(ll) \in Octet
           /\ 16 * Nibble(ll) + Nibble(n) \in Octet
BY DEF Nibble, RUN_MASK, Octet

LEMMA OffsetIsBytes ==
    ASSUME NEW off \in Word
    PROVE  off % 256 \in Octet /\ off \div 256 \in Octet
BY DEF Octet, Word, LZ4_DISTANCE_ABSOLUTE_MAX

LEMMA SequenceIsBytes ==
    ASSUME input.bytes \in Seq(Octet),
           NEW at \in Nat, NEW ll \in Nat, NEW off \in Word, NEW ml \in Nat,
           at + ll <= Len(input.bytes), ml = 0 \/ ml >= 4
    PROVE  SequenceBytes([at |-> at, ll |-> ll, off |-> off, ml |-> ml])
               \in Seq(Octet)
<1> DEFINE s == [at |-> at, ll |-> ll, off |-> off, ml |-> ml]
           literals == SubSeq(input.bytes, at + 1, at + ll)
<1>1. s.at = at /\ s.ll = ll /\ s.off = off /\ s.ml = ml
  OBVIOUS
<1> HIDE DEF s
<1>2. literals \in Seq(Octet)
  <2>1. Len(input.bytes) \in Nat
    BY LenProperties
  <2>2. \A i \in (at + 1)..(at + ll) : i \in 1..Len(input.bytes)
    BY <2>1
  <2>3. \A i \in (at + 1)..(at + ll) : input.bytes[i] \in Octet
    BY <2>2, ElementOfSeq
  <2>4. QED BY <2>3, SubSeqProperties
<1>3. Rest(ll) \in Seq(Octet)
  BY RestIsBytes
<1>4. ASSUME ml = 0
      PROVE  SequenceBytes(s) \in Seq(Octet)
  <2> DEFINE token1 == <<16 * Nibble(ll)>>
  <2>1. SequenceBytes(s) = token1 \o Rest(ll) \o literals
    BY <1>1, <1>4 DEF SequenceBytes
  <2>2. 16 * Nibble(ll) \in Octet
    BY TokenIsByte
  <2>3. token1 \in Seq(Octet)
    BY <2>2
  <2> HIDE DEF token1, literals
  <2>4. token1 \o Rest(ll) \in Seq(Octet)
    BY <1>3, <2>3, ConcatProperties
  <2>5. token1 \o Rest(ll) \o literals \in Seq(Octet)
    BY <1>2, <2>4, ConcatProperties
  <2>6. QED BY <2>1, <2>5
<1>5. ASSUME ml # 0
      PROVE  SequenceBytes(s) \in Seq(Octet)
  <2> DEFINE n == ml - 4
             token1 == <<16 * Nibble(ll) + Nibble(n)>>
             two == <<off % 256, off \div 256>>
  <2>1. n \in Nat
    BY <1>5
  <2>2. Rest(n) \in Seq(Octet)
    BY <2>1, RestIsBytes
  <2>3. SequenceBytes(s)
          = token1 \o Rest(ll) \o literals \o two \o Rest(n)
    BY <1>1, <1>5 DEF SequenceBytes, MINMATCH
  <2> HIDE DEF n
  <2>4. 16 * Nibble(ll) + Nibble(n) \in Octet
    BY <2>1, TokenIsByte
  <2>5. token1 \in Seq(Octet)
    BY <2>4
  <2>6. off % 256 \in Octet /\ off \div 256 \in Octet
    BY OffsetIsBytes
  <2>7. two \in Seq(Octet)
    BY <2>6
  <2> HIDE DEF token1, literals, two
  <2>8. token1 \o Rest(ll) \in Seq(Octet)
    BY <1>3, <2>5, ConcatProperties
  <2>9. token1 \o Rest(ll) \o literals \in Seq(Octet)
    BY <1>2, <2>8, ConcatProperties
  <2>10. token1 \o Rest(ll) \o literals \o two \in Seq(Octet)
    BY <2>7, <2>9, ConcatProperties
  <2>11. token1 \o Rest(ll) \o literals \o two \o Rest(n) \in Seq(Octet)
    BY <2>2, <2>10, ConcatProperties
  <2>12. QED BY <2>3, <2>11
<1>6. SequenceBytes(s) \in Seq(Octet)
  BY <1>4, <1>5
<1>7. QED BY <1>6 DEF s

LEMMA DecoderInitInv ==
    ASSUME Init
    PROVE  DecoderInv
<1>1. /\ input \in Inputs /\ seqs = <<>> /\ anchor = input.start /\ src = <<>>
      /\ pc = "coding" /\ ip = 0 /\ op = Prefix
      /\ token = 0 /\ length = 0 /\ offset = 0
      /\ mem = [a \in 0..(oend + 64) |->
                   IF a < Prefix THEN input.bytes[Apart + a + 1]
                   ELSE IF a < oend THEN 0 ELSE 1000]
  BY DEF Init, B!Start, FASTLOOP_SAFE_DISTANCE, Fence
<1>2. src \in Seq(Octet) /\ seqs \in Seq(B!Sequence) /\ offset \in Word
  BY <1>1, EmptySeq DEF Word, LZ4_DISTANCE_ABSOLUTE_MAX
<1>3. /\ Prefix \in Nat /\ oend \in Nat /\ iend \in Nat
      /\ oend = Prefix + input.room
  BY <1>1, <1>2, Ends
<1>4. /\ input.bytes \in Seq(Octet) /\ Len(input.bytes) \in Nat
      /\ input.start \in Nat /\ input.start <= Len(input.bytes)
      /\ input.lost \in Nat /\ input.ext \in Nat
      /\ input.lost + input.ext <= input.start /\ input.room \in Nat
  BY <1>1, CallTypes, LenProperties
<1>5. DecoderTypeOK
  <2>1. anchor \in Nat /\ anchor <= B!End
    BY <1>1, <1>4 DEF B!End
  <2>2. op <= oend
    BY <1>1, <1>3, <1>4
  <2>3. QED BY <1>1, <1>2, <1>3, <2>1, <2>2 DEF DecoderTypeOK, Places
<1>6. RoomLeft
  BY <1>1 DEF RoomLeft, RoomAt
<1>7. Fenced(mem, oend)
  <2>1. mem = [a \in 0..(oend + 64) |-> mem[a]]
    BY <1>1
  <2>2. ASSUME NEW a \in 0..(oend + 64)
        PROVE  (mem[a] = 1000) <=> (a >= oend)
    <3>1. Prefix = input.start - Apart /\ Apart \in Nat
      BY <1>4 DEF Prefix, Apart
    <3>2. CASE a < Prefix
      <4>1. Apart + a + 1 \in 1..Len(input.bytes)
        BY <1>3, <1>4, <3>1, <3>2
      <4>2. input.bytes[Apart + a + 1] \in Octet
        BY <1>4, <4>1, ElementOfSeq
      <4>3. mem[a] = input.bytes[Apart + a + 1]
        BY <1>1, <3>2
      <4>4. mem[a] # 1000
        BY <4>2, <4>3, OctetIs
      <4>5. a < oend
        BY <1>3, <1>4, <3>2
      <4>6. QED BY <1>3, <4>4, <4>5
    <3>3. CASE ~ (a < Prefix)
      <4>1. mem[a] = IF a < oend THEN 0 ELSE 1000
        BY <1>1, <3>3
      <4>2. QED BY <1>3, <4>1
    <3>4. QED BY <3>2, <3>3
  <2>3. QED BY <2>1, <2>2 DEF Fenced
<1>8. QED BY <1>5, <1>6, <1>7 DEF DecoderInv
-----------------------------------------------------------------------------
(* The coder adds a sequence to the block. *)
LEMMA SequenceAdded ==
    ASSUME DecoderTypeOK,
           NEW ll \in Nat, NEW off \in Word, NEW ml \in Nat,
           anchor + ll <= B!End, ml = 0 \/ ml >= 4,
           seqs' = Append(seqs, [at |-> anchor, ll |-> ll, off |-> off, ml |-> ml]),
           src' = src \o SequenceBytes(seqs'[Len(seqs')])
    PROVE  seqs' \in Seq(B!Sequence) /\ src' \in Seq(Octet)
<1> DEFINE s == [at |-> anchor, ll |-> ll, off |-> off, ml |-> ml]
<1>1. /\ seqs \in Seq(B!Sequence) /\ src \in Seq(Octet) /\ input \in Inputs
      /\ anchor \in Nat
  BY DEF DecoderTypeOK
<1>2. s \in B!Sequence
  <2>1. off \in Nat
    BY DEF Word
  <2>2. QED BY <1>1, <2>1 DEF B!Sequence
<1>3. SequenceBytes(s) \in Seq(Octet)
  <2>1. input.bytes \in Seq(Octet)
    BY <1>1, CallTypes
  <2>2. anchor + ll <= Len(input.bytes)
    BY DEF B!End
  <2>3. QED BY <1>1, <2>1, <2>2, SequenceIsBytes
<1>4. seqs' = Append(seqs, s)
  OBVIOUS
<1> HIDE DEF s
<1>5. seqs' \in Seq(B!Sequence) /\ seqs'[Len(seqs')] = s
  BY <1>1, <1>2, <1>4
<1>6. src' = src \o SequenceBytes(s)
  BY <1>5, Zenon
<1>7. src \o SequenceBytes(s) \in Seq(Octet)
  BY <1>1, <1>3, ConcatProperties, Zenon
<1>8. QED BY <1>5, <1>6, <1>7, Zenon

LEMMA CodeKeepsInv ==
    ASSUME DecoderInv, Code
    PROVE  DecoderInv'
<1>1. /\ pc = "coding" /\ pc' = pc /\ mem' = mem /\ ip' = ip /\ op' = op
      /\ token' = token /\ length' = length /\ offset' = offset
  BY DEF Code, place
<1>2. /\ input' = input /\ seqs' \in Seq(B!Sequence) /\ src' \in Seq(Octet)
      /\ anchor' \in Nat /\ anchor' <= B!End
  <2>1. /\ DecoderTypeOK /\ anchor \in Nat /\ anchor <= B!End
        /\ src' = src \o SequenceBytes(seqs'[Len(seqs')])
    BY DEF DecoderInv, DecoderTypeOK, Code
  <2>2. B!End \in Nat
    <3>1. input.bytes \in Seq(Octet)
      BY CallTypes DEF DecoderInv, DecoderTypeOK
    <3>2. QED BY <3>1, LenProperties DEF B!End
  <2>3. CASE B!LastLiterals(B!End - anchor)
    <3> DEFINE ll == B!End - anchor
    <3>1. /\ input' = input /\ anchor' = anchor + ll
          /\ seqs' = Append(seqs, [at |-> anchor, ll |-> ll, off |-> 0, ml |-> 0])
      BY <2>3 DEF B!LastLiterals
    <3> 0 \in Word
      BY DEF Word, LZ4_DISTANCE_ABSOLUTE_MAX
    <3>2. ll \in Nat /\ anchor + ll = B!End
      BY <2>1, <2>2
    <3> HIDE DEF ll
    <3>3. seqs' \in Seq(B!Sequence) /\ src' \in Seq(Octet)
      BY <2>1, <3>1, <3>2, SequenceAdded
    <3>4. QED BY <2>1, <2>2, <3>1, <3>2, <3>3
  <2>4. ASSUME NEW p, NEW n, B!Emit(p, n)
        PROVE  /\ input' = input
               /\ seqs' \in Seq(B!Sequence) /\ src' \in Seq(Octet)
               /\ anchor' \in Nat /\ anchor' <= B!End
    <3>1. /\ input' = input /\ anchor' = p + n
          /\ p \in anchor..(B!End - 12) /\ n \in 4..(B!End - 5 - p)
      BY <2>4 DEF B!Emit, B!MFLIMIT, B!MINMATCH, B!LASTLITERALS
    <3>2. PICK off \in 1..DistanceMax :
             seqs' = Append(seqs, [at |-> anchor, ll |-> p - anchor,
                                   off |-> off, ml |-> n])
      BY <2>4 DEF B!Emit
    <3>3. off \in Word
      <4>1. DistanceMax \in Nat /\ DistanceMax <= LZ4_DISTANCE_ABSOLUTE_MAX
        BY DecoderAssumption, Zenon DEF DecoderAssumption, B!InputsAssumption
      <4>2. LZ4_DISTANCE_ABSOLUTE_MAX \in Nat
        BY DEF LZ4_DISTANCE_ABSOLUTE_MAX
      <4>3. off \in Nat /\ off <= LZ4_DISTANCE_ABSOLUTE_MAX
        BY <3>2, <4>1, <4>2
      <4>4. QED BY <4>3 DEF Word
    <3> DEFINE ll == p - anchor
    <3>4. /\ ll \in Nat /\ anchor + ll = p /\ p \in Nat
          /\ n \in Nat /\ n >= 4 /\ p + n <= B!End
          /\ anchor + ll <= B!End
      BY <2>1, <2>2, <3>1
    <3>5. seqs' = Append(seqs, [at |-> anchor, ll |-> ll, off |-> off, ml |-> n])
      BY <3>2
    <3> HIDE DEF ll
    <3>6. ll \in Nat /\ n \in Nat /\ anchor + ll <= B!End /\ n >= 4
      BY <3>4
    <3>7. seqs' \in Seq(B!Sequence) /\ src' \in Seq(Octet)
      BY <2>1, <3>3, <3>5, <3>6, SequenceAdded
    <3>8. QED BY <3>1, <3>4, <3>7
  <2>5. QED BY <2>3, <2>4 DEF Code
<1>3. oend' = oend /\ Prefix' = Prefix /\ B!End' = B!End
  BY <1>2 DEF oend, Prefix, Apart, B!End
<1>4. DecoderTypeOK'
  BY <1>1, <1>2, <1>3 DEF DecoderInv, DecoderTypeOK
<1>5. RoomLeft'
  BY <1>1, <1>3 DEF DecoderInv, RoomLeft, RoomAt
<1>6. Fenced(mem, oend)'
  BY <1>1, <1>3 DEF DecoderInv, Fenced
<1>7. QED BY <1>4, <1>5, <1>6 DEF DecoderInv
-----------------------------------------------------------------------------
(* What the steps of the decoder need to know of the state they are in. *)
LEMMA Known ==
    ASSUME DecoderInv
    PROVE  /\ input \in Inputs /\ src \in Seq(Octet) /\ pc \in Places
           /\ ip \in Nat /\ op \in Nat /\ op <= oend
           /\ token \in Nat /\ length \in Nat /\ offset \in Word
           /\ Prefix \in Nat /\ oend \in Nat /\ iend \in Nat
           /\ oend = Prefix + input.room
           /\ Fenced(mem, oend)
           /\ RoomAt(pc, ip, op, length)
BY Ends DEF DecoderInv, DecoderTypeOK, RoomLeft

LEMMA StepKeepsInv ==
    ASSUME DecoderInv, UNCHANGED coderVars, src' = src,
           pc' \in Places, ip' \in Nat, op' \in Nat, op' <= oend,
           token' \in Nat, length' \in Nat, offset' \in Word,
           RoomAt(pc', ip', op', length'), Fenced(mem', oend)
    PROVE  DecoderInv'
<1>1. /\ input' = input /\ seqs' = seqs /\ anchor' = anchor
      /\ oend' = oend /\ Prefix' = Prefix /\ B!End' = B!End
      /\ iend' = iend
  BY EndsStay
<1>2. DecoderTypeOK'
  BY <1>1 DEF DecoderInv, DecoderTypeOK
<1>3. RoomLeft'
  BY <1>1 DEF RoomLeft, RoomAt
<1>4. Fenced(mem, oend)'
  BY <1>1 DEF Fenced
<1>5. QED BY <1>2, <1>3, <1>4 DEF DecoderInv

(* The call returns and has written nothing more. *)
LEMMA Returns ==
    ASSUME NEW p, NEW o, NEW n
    PROVE  RoomAt("returned", p, o, n) /\ "returned" \in Places
BY DEF RoomAt, Places

LEMMA BeginKeepsInv ==
    ASSUME DecoderInv, UNCHANGED coderVars, Begin
    PROVE  DecoderInv'
<1>1. /\ pc = "coding" /\ src' = Block
      /\ mem' = mem /\ ip' = ip /\ op' = op /\ token' = token
      /\ length' = length /\ offset' = offset
  BY DEF Begin
<1>2. /\ src \in Seq(Octet) /\ Prefix \in Nat /\ oend \in Nat
      /\ oend = Prefix + input.room /\ ip = 0 /\ op = Prefix
  BY <1>1, Known DEF RoomAt
<1>3. input' = input /\ oend' = oend /\ Prefix' = Prefix
      /\ anchor' = anchor /\ seqs' = seqs /\ B!End' = B!End
  BY EndsStay
<1>4. Block \in Seq(Octet)
  <2> DEFINE n == Len(src) - input.cut
  <2>1. Len(src) \in Nat /\ n \in Int /\ n <= Len(src)
    BY <1>2, LenProperties, CallTypes DEF DecoderInv, DecoderTypeOK
  <2> HIDE DEF n
  <2>2. \A i \in 1..n : i \in 1..Len(src)
    BY <2>1
  <2>3. \A i \in 1..n : src[i] \in Octet
    BY <1>2, <2>2, ElementOfSeq
  <2>4. SubSeq(src, 1, n) \in Seq(Octet)
    BY <2>1, <2>3, SubSeqProperties
  <2>5. QED BY <2>4 DEF Block, n
<1>5. pc' \in Places /\ RoomLeft'
  <2>1. CASE pc' = "returned"
    BY <2>1 DEF Places, RoomLeft, RoomAt
  <2>2. CASE /\ Block # <<>>
             /\ pc' = IF input.room < 64 THEN "safe" ELSE "fast"
    <3>1. iend' = Len(Block)
      BY <1>1 DEF iend
    <3>2. Len(Block) \in Nat \ {0}
      BY <1>4, <2>2, EmptySeq
    <3>3. ip' < iend'
      BY <1>1, <1>2, <3>1, <3>2
    <3>4. CASE input.room < 64
      BY <2>2, <3>3, <3>4 DEF Places, RoomLeft, RoomAt
    <3>5. CASE ~ (input.room < 64)
      <4>1. input.room \in Nat
        BY CallTypes DEF DecoderInv, DecoderTypeOK
      <4>2. op' + 64 <= oend'
        BY <1>1, <1>2, <1>3, <3>5, <4>1
      <4>3. QED BY <2>2, <3>3, <3>5, <4>2 DEF Places, RoomLeft, RoomAt
    <3>6. QED BY <3>4, <3>5
  <2>3. QED BY <2>1, <2>2 DEF Begin, Return, FASTLOOP_SAFE_DISTANCE
<1>6. DecoderTypeOK'
  BY <1>1, <1>3, <1>4, <1>5 DEF DecoderInv, DecoderTypeOK
<1>7. Fenced(mem, oend)'
  BY <1>1, <1>3 DEF DecoderInv, Fenced
<1>8. QED BY <1>5, <1>6, <1>7 DEF DecoderInv

LEMMA LengthFailsKeepsInv ==
    ASSUME DecoderInv, UNCHANGED coderVars,
           LengthFails \/ MatchFails
    PROVE  DecoderInv'
<1>1. /\ pc' = "returned" /\ src' = src /\ mem' = mem /\ ip' = ip /\ op' = op
      /\ token' = token /\ length' = length /\ offset' = offset
  BY DEF LengthFails, MatchFails, Return
<1>2. QED BY <1>1, Known, Returns, StepKeepsInv
-----------------------------------------------------------------------------
(* How many literals there are, and where: not behind the block. *)
LEMMA LiteralsRead ==
    ASSUME src \in Seq(Octet), ip \in Nat, ip < iend,
           ~ LengthOutside(Src(ip)),
           NEW l, l = ReadLiterals(Src(ip))
    PROVE  /\ Src(ip) \in Nat
           /\ l.n \in Nat /\ l.at \in Nat /\ l.at <= iend
           /\ LiteralNibble(Src(ip)) = 15 => l.n >= 15
           /\ LiteralNibble(Src(ip)) # 15 => l.n <= 14
<1> DEFINE t == Src(ip)
<1>1. iend \in Nat
  BY DEF iend
<1>2. t \in Nat /\ t <= 255
  BY SrcIs
<1> HIDE DEF t
<1>3. t \div 16 \in Nat /\ t \div 16 <= 15
  BY <1>2
<1>4. CASE t \div 16 # 15
  <2>1. l = [n |-> t \div 16, at |-> ip + 1]
    BY <1>4 DEF ReadLiterals, LiteralNibble, RUN_MASK, t
  <2>2. l.n = t \div 16 /\ l.at = ip + 1
    BY <2>1
  <2>3. /\ l.n \in Nat /\ l.at \in Nat /\ l.at <= iend /\ l.n <= 14
    BY <1>1, <1>3, <1>4, <2>2
  <2>4. QED BY <1>2, <1>4, <2>3 DEF LiteralNibble, t
<1>5. CASE t \div 16 = 15
  <2> DEFINE r == ReadLength(ip + 1, iend - 15)
  <2>1. l = [n |-> 15 + r.n, at |-> r.at]
    BY <1>5 DEF ReadLiterals, LiteralNibble, RUN_MASK, t
  <2>2. ip + 1 < iend - 15
    BY <1>1, <1>5 DEF LengthOutside, LiteralNibble, RUN_MASK, t
  <2>3. /\ r.n \in Nat /\ r.at \in Nat
        /\ r.at <= iend - 15 \/ r.at = ip + 1 + 1
    <3>1. ip + 1 \in Nat /\ iend - 15 \in Int
      BY <1>1
    <3>2. QED BY <3>1, LengthRead
  <2> HIDE DEF r
  <2>4. l.n = 15 + r.n /\ l.at = r.at
    BY <2>1
  <2>5. l.n \in Nat /\ l.at \in Nat /\ l.at <= iend /\ l.n >= 15
    BY <1>1, <2>2, <2>3, <2>4
  <2>6. QED BY <1>2, <1>5, <2>5 DEF LiteralNibble, t
<1>6. QED BY <1>4, <1>5

LEMMA WordRead ==
    ASSUME src \in Seq(Octet), NEW p \in Nat, p + 1 < iend
    PROVE  LE16(p) \in Word
<1>1. /\ iend \in Nat /\ p + 1 \in Nat /\ p < iend
  BY DEF iend
<1>2. /\ Src(p) \in Nat /\ Src(p) <= 255
      /\ Src(p + 1) \in Nat /\ Src(p + 1) <= 255
  BY <1>1, SrcIs
<1>3. LE16(p) \in Nat /\ LE16(p) <= 65535
  BY <1>2 DEF LE16
<1>4. QED BY <1>3 DEF Word, LZ4_DISTANCE_ABSOLUTE_MAX

LEMMA FastLiteralsKeepsInv ==
    ASSUME DecoderInv, UNCHANGED coderVars, FastLiterals
    PROVE  DecoderInv'
<1> DEFINE t == Src(ip)
           l == ReadLiterals(t)
           long == LiteralNibble(t) = 15
<1>1. /\ pc = "fast" /\ ~ LengthOutside(t)
      /\ src' = src /\ token' = t /\ offset' = offset
  BY DEF FastLiterals
<1>2. /\ src \in Seq(Octet) /\ ip \in Nat /\ op \in Nat /\ length \in Nat
      /\ offset \in Word /\ oend \in Nat /\ iend \in Nat
      /\ Fenced(mem, oend) /\ ip < iend /\ op + 64 <= oend
  BY <1>1, Known DEF RoomAt
<1>3. /\ t \in Nat /\ l.n \in Nat /\ l.at \in Nat /\ l.at <= iend
      /\ long => l.n >= 15
      /\ ~ long => l.n <= 14
  BY <1>1, <1>2, LiteralsRead
<1>4. CASE /\ pc' = "literals" /\ ip' = l.at /\ length' = l.n
           /\ op' = op /\ mem' = mem
  <2>1. op' \in Nat /\ op' <= oend
    BY <1>2, <1>4
  <2>2. pc' \in Places /\ RoomAt(pc', ip', op', length')
    BY <1>3, <1>4 DEF Places, RoomAt
  <2>3. QED BY <1>1, <1>2, <1>3, <1>4, <2>1, <2>2, StepKeepsInv
<1>5. CASE /\ IF long THEN /\ op + l.n <= oend - 32
                           /\ l.at + l.n <= iend - 32
              ELSE l.at <= iend - 17
           /\ pc' = "fastmatch"
           /\ mem' = FromBlock(mem, op, l.at,
                         IF long THEN 32 * Rounds(op, op + l.n, 32) ELSE 16)
           /\ ip' = l.at + l.n /\ op' = op + l.n /\ length' = length
  <2> HIDE DEF l, long
  <2>1. /\ op' \in Nat /\ op' + 32 <= oend /\ op' <= oend
        /\ ip' \in Nat /\ ip' + 2 < iend
    <3>1. op' = op + l.n /\ ip' = l.at + l.n
      BY <1>5
    <3> op \in Nat /\ oend \in Nat /\ iend \in Nat /\ op + 64 <= oend
      BY <1>2
    <3> l.n \in Nat /\ l.at \in Nat
      BY <1>3
    <3>2. CASE long
      <4>1. op + l.n <= oend - 32 /\ l.at + l.n <= iend - 32
        BY <1>5, <3>2
      <4>2. QED BY <3>1, <4>1
    <3>3. CASE ~ long
      <4>1. l.at <= iend - 17 /\ l.n <= 14
        BY <1>3, <1>5, <3>3
      <4>2. QED BY <3>1, <4>1
    <3>4. QED BY <3>2, <3>3
  <2>2. Fenced(mem', oend)
    <3>1. CASE long
      <4>1. op + l.n \in Int /\ op \in Int
        BY <1>2, <1>3
      <4>2. PICK n \in Nat : /\ n = 32 * Rounds(op, op + l.n, 32)
                             /\ n = 32 \/ n <= (op + l.n) - op + 31
        BY <4>1, RoundsOf32
      <4>3. op + n <= oend
        BY <1>2, <1>3, <1>5, <3>1, <4>2
      <4>4. Fenced(FromBlock(mem, op, l.at, n), oend)
        BY <1>2, <1>3, <4>3, FromBlockInside
      <4>5. QED BY <1>5, <3>1, <4>2, <4>4
    <3>2. CASE ~ long
      <4>1. op + 16 <= oend /\ 16 \in Int
        BY <1>2
      <4>2. Fenced(FromBlock(mem, op, l.at, 16), oend)
        BY <1>2, <1>3, <4>1, FromBlockInside
      <4>3. QED BY <1>5, <3>2, <4>2
    <3>3. QED BY <3>1, <3>2
  <2>3. pc' \in Places /\ RoomAt(pc', ip', op', length')
    BY <1>5, <2>1 DEF Places, RoomAt
  <2>4. QED BY <1>1, <1>2, <1>3, <1>5, <2>1, <2>2, <2>3, StepKeepsInv
<1>6. \/ /\ pc' = "literals" /\ ip' = l.at /\ length' = l.n
         /\ op' = op /\ mem' = mem
      \/ /\ ~ (IF long THEN op + l.n > oend - 32 \/ l.at + l.n > iend - 32
               ELSE l.at > iend - 17)
         /\ pc' = "fastmatch"
         /\ mem' = FromBlock(mem, op, l.at,
                       IF long THEN 32 * Rounds(op, op + l.n, 32) ELSE 16)
         /\ ip' = l.at + l.n /\ op' = op + l.n /\ length' = length
  BY DEF FastLiterals, RUN_MASK
<1>7. ~ (IF long THEN op + l.n > oend - 32 \/ l.at + l.n > iend - 32
         ELSE l.at > iend - 17)
        => IF long THEN op + l.n <= oend - 32 /\ l.at + l.n <= iend - 32
           ELSE l.at <= iend - 17
  <2> HIDE DEF l, long
  <2>1. QED BY <1>2, <1>3
<1> HIDE DEF l, long
<1>8. QED BY <1>4, <1>5, <1>6, <1>7
-----------------------------------------------------------------------------
(* The length of a match, and where the block goes on behind it. *)
LEMMA MatchLengthRead ==
    ASSUME src \in Seq(Octet), token \in Nat, NEW p \in Nat, p < iend,
           NEW r, r = ReadLength(p, iend - 5 + 1),
           NEW long, long = (MatchNibble(token) = 15),
           NEW n, n = 4 + IF long THEN MatchNibble(token) + r.n
                          ELSE MatchNibble(token)
    PROVE  /\ n \in Nat /\ n >= 4
           /\ r.at \in Nat
           /\ ~ (long /\ r.stopped) => (IF long THEN r.at ELSE p) < iend
<1>1. iend \in Nat
  BY DEF iend
<1>2. token % 16 \in Nat
  <2>1. \A x \in Nat : x % 16 \in Nat
    OBVIOUS
  <2>2. QED BY <2>1
<1>3. /\ r.n \in Nat /\ r.at \in Nat
      /\ r.stopped <=> r.at >= iend - 5 + 1
  <2>1. iend - 5 + 1 \in Int
    BY <1>1
  <2>2. QED BY <2>1, LengthRead
<1>4. n \in Nat /\ n >= 4
  <2> DEFINE nibble == token % 16
  <2>1. nibble \in Nat /\ n = 4 + IF long THEN nibble + r.n ELSE nibble
    BY <1>2 DEF MatchNibble
  <2> HIDE DEF nibble
  <2>2. r.n \in Nat
    BY <1>3
  <2>3. QED BY <2>1, <2>2
<1>5. ~ (long /\ r.stopped) => (IF long THEN r.at ELSE p) < iend
  <2>1. CASE long
    <3>1. ~ r.stopped => r.at < iend
      BY <1>1, <1>3
    <3>2. QED BY <2>1, <3>1
  <2>2. CASE ~ long
    BY <2>2
  <2>3. QED BY <2>1, <2>2
<1>6. QED BY <1>3, <1>4, <1>5

LEMMA BehindOp ==
    ASSUME op \in Nat, NEW o \in Word
    PROVE  op - o \in Int /\ op - o <= op
<1>1. o \in Nat
  BY DEF Word
<1>2. QED BY <1>1

LEMMA FastMatchKeepsInv ==
    ASSUME DecoderInv, UNCHANGED coderVars, FastMatch
    PROVE  DecoderInv'
<1> DEFINE o == LE16(ip)
           long == MatchNibble(token) = 15
           r == ReadLength(ip + 2, iend - 5 + 1)
           n == 4 + IF long THEN MatchNibble(token) + r.n
                    ELSE MatchNibble(token)
           close == op + n >= oend - 64
<1>1. pc = "fastmatch"
  BY DEF FastMatch
<1>2. /\ src \in Seq(Octet) /\ ip \in Nat /\ op \in Nat /\ token \in Nat
      /\ oend \in Nat /\ iend \in Nat
      /\ Fenced(mem, oend) /\ ip + 2 < iend /\ op + 32 <= oend
  BY <1>1, Known DEF RoomAt
<1>3. ip + 2 \in Nat /\ ip + 1 < iend
  BY <1>2
<1>4. o \in Word
  BY <1>2, <1>3, WordRead
<1>5. /\ n \in Nat /\ n >= 4 /\ r.at \in Nat
      /\ ~ (long /\ r.stopped) => (IF long THEN r.at ELSE ip + 2) < iend
  BY <1>2, <1>3, MatchLengthRead
<1>6. /\ src' = src /\ token' = token /\ offset' = o /\ length' = n
      /\ ip' = IF long THEN r.at ELSE ip + 2
      /\ \/ pc' = "returned" /\ op' = op /\ mem' = mem
         \/ /\ ~ (long /\ r.stopped)
            /\ pc' = IF close THEN "match" ELSE "fastcopy"
            /\ op' = op /\ mem' = mem
         \/ /\ ~ (long /\ r.stopped) /\ ~ close
            /\ pc' = "fast"
            /\ op' = op + n /\ mem' = Copy18(mem, op, op - o)
  BY DEF FastMatch, Return, ML_MASK, MINMATCH, LASTLITERALS,
         FASTLOOP_SAFE_DISTANCE
<1>7. op - o \in Int /\ op - o <= op
  BY <1>2, <1>4, BehindOp
<1> HIDE DEF o, long, r, n
<1>8. ip' \in Nat
  BY <1>3, <1>5, <1>6
<1>9. CASE pc' = "returned" /\ op' = op /\ mem' = mem
  <2>1. op' \in Nat /\ op' <= oend
    BY <1>2, <1>9
  <2>2. QED BY <1>2, <1>4, <1>5, <1>6, <1>8, <1>9, <2>1, Returns, StepKeepsInv
<1>10. CASE /\ ~ (long /\ r.stopped)
            /\ pc' = IF close THEN "match" ELSE "fastcopy"
            /\ op' = op /\ mem' = mem
  <2>1. op' \in Nat /\ op' <= oend /\ op' + 12 <= oend
    BY <1>2, <1>10
  <2>2. ip' < iend
    BY <1>5, <1>6, <1>10
  <2>3. ~ close => op + n + 64 < oend
    BY <1>2, <1>5
  <2> HIDE DEF close
  <2>4. pc' \in Places /\ RoomAt(pc', ip', op', length')
    BY <1>5, <1>6, <1>10, <2>1, <2>2, <2>3 DEF Places, RoomAt
  <2>5. QED BY <1>2, <1>4, <1>5, <1>6, <1>8, <1>10, <2>1, <2>4, StepKeepsInv
<1>11. CASE /\ ~ (long /\ r.stopped) /\ ~ close
            /\ pc' = "fast"
            /\ op' = op + n /\ mem' = Copy18(mem, op, op - o)
  <2>1. op' \in Nat /\ op' <= oend /\ op' + 64 <= oend
    <3>1. op' = op + n
      BY <1>11
    <3>2. ~ close
      BY <1>11
    <3>3. op \in Nat /\ oend \in Nat /\ n \in Nat
      BY <1>2, <1>5
    <3>4. QED BY <3>1, <3>2, <3>3
  <2>2. ip' < iend
    BY <1>5, <1>6, <1>11
  <2>3. Fenced(mem', oend)
    <3>1. op + 18 <= oend
      BY <1>2
    <3>2. Fenced(Copy18(mem, op, op - o), oend)
      BY <1>2, <1>7, <3>1, Copy18Inside
    <3>3. QED BY <1>11, <3>2
  <2>4. pc' \in Places /\ RoomAt(pc', ip', op', length')
    BY <1>11, <2>1, <2>2 DEF Places, RoomAt
  <2>5. QED BY <1>2, <1>4, <1>5, <1>6, <1>8, <1>11, <2>1, <2>3, <2>4, StepKeepsInv
<1> HIDE DEF close
<1>12. QED BY <1>6, <1>9, <1>10, <1>11
-----------------------------------------------------------------------------
(***************************************************************************)
(* A match that begins in the dictionary apart does not begin in front of  *)
(* it, which is either tested or impossible, and is copied in two parts.   *)
(***************************************************************************)
LEMMA DictCopiedInside ==
    ASSUME DecoderInv, ~ Outside(match), InDictionary,
           NEW n \in Nat, op + n <= oend
    PROVE  Fenced(DictCopied(n), oend)
<1> DEFINE part == IF n <= -match THEN n ELSE -match
           m == FromDict(mem, op, input.ext + match, part)
           rest == n - part
<1>1. /\ op \in Nat /\ offset \in Word /\ oend \in Nat /\ Fenced(mem, oend)
      /\ input \in Inputs
  BY Known
<1>2. offset \in Nat /\ offset <= 65535
  BY <1>1 DEF Word, LZ4_DISTANCE_ABSOLUTE_MAX
<1>3. match \in Int /\ match >= -65535 /\ match < 0
  BY <1>1, <1>2 DEF match, InDictionary
<1>4. /\ input.bytes \in Seq(Octet) /\ input.start \in Nat
      /\ input.lost \in Nat /\ input.ext \in Nat
      /\ input.lost + input.ext <= input.start
      /\ input.start <= Len(input.bytes) /\ Len(input.bytes) \in Nat
  BY <1>1, CallTypes, LenProperties
<1>5. input.ext + match \in Nat
  <2>1. CASE input.ext < 65536
    <3>1. ~ (match + input.ext < 0)
      BY <2>1 DEF Outside
    <3>2. QED BY <1>3, <1>4, <3>1
  <2>2. CASE ~ (input.ext < 65536)
    BY <1>3, <1>4, <2>2
  <2>3. QED BY <2>1, <2>2
<1>6. part \in Nat /\ part <= n /\ part <= -match
  BY <1>3
<1>7. rest \in Nat /\ part + rest = n
  BY <1>6
<1> HIDE DEF part, rest
<1>8. Fenced(m, oend)
  <2>1. op + part <= oend /\ part \in Int
    BY <1>1, <1>6
  <2>2. input.lost + (input.ext + match) + part <= Len(input.bytes)
    BY <1>3, <1>4, <1>6
  <2>3. QED BY <1>1, <1>4, <1>5, <2>1, <2>2, FromDictInside
<1> HIDE DEF m
<1>9. /\ op + part \in Nat /\ 0 \in Int /\ 0 <= op + part
      /\ rest \in Int /\ (op + part) + rest <= oend
  BY <1>1, <1>6, <1>7
<1>10. /\ Fenced(ByteCopy(m, op + part, 0, rest), oend)
       /\ Fenced(memcpy(m, op + part, 0, rest), oend)
  BY <1>1, <1>8, <1>9, ByteCopyInside, MemcpyInside
<1>11. DictCopied(n) = IF rest > op + part THEN ByteCopy(m, op + part, 0, rest)
                         ELSE memcpy(m, op + part, 0, rest)
  BY DEF DictCopied, m, part, rest
<1>12. QED BY <1>10, <1>11

LEMMA MatchBehind ==
    ASSUME DecoderInv
    PROVE  match \in Int /\ match <= op
BY Known, BehindOp DEF match

LEMMA FastCopyKeepsInv ==
    ASSUME DecoderInv, UNCHANGED coderVars, FastCopy
    PROVE  DecoderInv'
<1> DEFINE to == op + length
<1>1. /\ pc = "fastcopy" /\ src' = src /\ ip' = ip /\ token' = token
      /\ length' = length /\ offset' = offset
      /\ \/ pc' = "returned" /\ op' = op /\ mem' = mem
         \/ /\ ~ Outside(match)
            /\ mem' = IF InDictionary THEN DictCopied(length)
                      ELSE IF offset < 16 THEN CopyUsingOffset(mem, op, match, to)
                      ELSE wildCopy32(mem, op, match, to)
            /\ op' = to /\ pc' = "fast"
  BY DEF FastCopy, Return
<1>2. /\ ip \in Nat /\ op \in Nat /\ op <= oend /\ token \in Nat
      /\ length \in Nat /\ offset \in Word /\ oend \in Nat /\ iend \in Nat
      /\ Fenced(mem, oend) /\ ip < iend
      /\ length >= 4 /\ op + length + 64 < oend
  BY <1>1, Known DEF RoomAt
<1>3. match \in Int /\ match <= op
  BY MatchBehind
<1>4. CASE pc' = "returned" /\ op' = op /\ mem' = mem
  BY <1>1, <1>2, <1>4, Returns, StepKeepsInv
<1>5. CASE /\ ~ Outside(match)
           /\ mem' = IF InDictionary THEN DictCopied(length)
                     ELSE IF offset < 16 THEN CopyUsingOffset(mem, op, match, to)
                     ELSE wildCopy32(mem, op, match, to)
           /\ op' = to /\ pc' = "fast"
  <2>1. /\ to \in Nat /\ to <= oend /\ to + 64 <= oend /\ to + 31 <= oend
        /\ to + 7 <= oend /\ op + 16 <= oend /\ op + 32 <= oend
    BY <1>2
  <2>2. Fenced(mem', oend)
    <3>1. CASE InDictionary
      <4>1. Fenced(DictCopied(length), oend)
        BY <1>2, <1>5, <2>1, <3>1, DictCopiedInside
      <4>2. QED BY <1>5, <3>1, <4>1
    <3>2. CASE ~ InDictionary
      <4> HIDE DEF to
      <4>1. Fenced(CopyUsingOffset(mem, op, match, to), oend)
        BY <1>2, <1>3, <2>1, UsingOffsetInside
      <4>2. Fenced(wildCopy32(mem, op, match, to), oend)
        BY <1>2, <1>3, <2>1, WildCopy32Inside
      <4>3. QED BY <1>5, <3>2, <4>1, <4>2
    <3>3. QED BY <3>1, <3>2
  <2> HIDE DEF to
  <2>3. pc' \in Places /\ RoomAt(pc', ip', op', length')
    BY <1>1, <1>2, <1>5, <2>1 DEF Places, RoomAt
  <2>4. QED BY <1>1, <1>2, <1>5, <2>1, <2>2, <2>3, StepKeepsInv
<1> HIDE DEF to
<1>6. QED BY <1>1, <1>4, <1>5
-----------------------------------------------------------------------------
(* Both shortcuts of the careful loop begin with 16 bytes of literals. *)
LEMMA ShortcutKeepsInv ==
    ASSUME DecoderInv, UNCHANGED coderVars, Shortcut
    PROVE  DecoderInv'
<1> DEFINE t == Src(ip)
           k == LiteralNibble(t)
           d == op + k
           p == ip + 1 + k
           o == LE16(p)
           more == MatchNibble(t)
<1>1. /\ pc = "safe" /\ k # 15 /\ ip + 1 < iend - 14 - 2
      /\ op <= oend - 14 - 18
      /\ src' = src /\ token' = t /\ offset' = o /\ ip' = p + 2
      /\ length' = length
      /\ \/ /\ more # 15
            /\ mem' = Copy18(FromBlock(mem, op, ip + 1, 16), d, d - o)
            /\ op' = d + more + 4 /\ pc' = pc
         \/ /\ mem' = FromBlock(mem, op, ip + 1, 16)
            /\ op' = d /\ pc' = "length"
  BY DEF Shortcut, InShortcut, RUN_MASK, ML_MASK, MINMATCH
<1>2. /\ src \in Seq(Octet) /\ ip \in Nat /\ op \in Nat /\ length \in Nat
      /\ oend \in Nat /\ iend \in Nat
      /\ Fenced(mem, oend) /\ ip < iend
  BY <1>1, Known DEF RoomAt
<1>3. t \in Nat /\ t <= 255
  BY <1>2, SrcIs
<1>4. k \in Nat /\ k <= 14 /\ more \in Nat /\ more <= 15
  <2> HIDE DEF t
  <2>1. t \div 16 \in Nat /\ t \div 16 <= 15 /\ t % 16 \in Nat /\ t % 16 <= 15
    BY <1>3
  <2>2. k = t \div 16 /\ more = t % 16
    BY DEF LiteralNibble, MatchNibble
  <2>3. k # 15
    BY <1>1
  <2> HIDE DEF k, more
  <2>4. QED BY <2>1, <2>2, <2>3
<1> HIDE DEF t, k, more
<1>5. /\ p \in Nat /\ p + 1 < iend /\ p + 2 \in Nat /\ p + 2 < iend
      /\ d \in Nat /\ d + 18 <= oend /\ d <= oend /\ d + 12 <= oend
      /\ op + 16 <= oend /\ ip + 1 \in Nat
  <2>1. ip + 1 < iend - 14 - 2 /\ op <= oend - 14 - 18
    BY <1>1
  <2>2. /\ ip \in Nat /\ op \in Nat /\ oend \in Nat /\ iend \in Nat
        /\ k \in Nat /\ k <= 14
    BY <1>2, <1>4
  <2>3. QED BY <2>1, <2>2
<1>6. o \in Word
  BY <1>2, <1>5, WordRead
<1> DEFINE m == FromBlock(mem, op, ip + 1, 16)
<1>7. Fenced(m, oend)
  <2>1. 16 \in Int
    OBVIOUS
  <2>2. QED BY <1>2, <1>5, <2>1, FromBlockInside
<1>8. ip' \in Nat /\ ip' < iend
  BY <1>1, <1>5
<1> HIDE DEF p, o, m
<1>9. CASE more # 15 /\ mem' = Copy18(m, d, d - o) /\ op' = d + more + 4
           /\ pc' = pc
  <2>1. op' \in Nat /\ op' <= oend
    <3>1. op' = d + more + 4 /\ more <= 14
      BY <1>4, <1>9
    <3>2. d \in Nat /\ more \in Nat /\ oend \in Nat /\ d + 18 <= oend
      BY <1>2, <1>4, <1>5
    <3>3. QED BY <3>1, <3>2
  <2> HIDE DEF d
  <2>2. d - o \in Int /\ d - o <= d
    <3>1. o \in Nat
      BY <1>6 DEF Word
    <3>2. QED BY <1>5, <3>1
  <2>3. Fenced(Copy18(m, d, d - o), oend)
    BY <1>2, <1>5, <1>7, <2>2, Copy18Inside
  <2>4. pc' \in Places /\ RoomAt(pc', ip', op', length')
    BY <1>1, <1>8, <1>9 DEF Places, RoomAt
  <2>5. QED BY <1>1, <1>2, <1>3, <1>6, <1>8, <1>9, <2>1, <2>3, <2>4, StepKeepsInv
<1>10. CASE mem' = m /\ op' = d /\ pc' = "length"
  <2> HIDE DEF d
  <2>1. op' \in Nat /\ op' <= oend /\ op' + 12 <= oend
    BY <1>5, <1>10
  <2>2. pc' \in Places /\ RoomAt(pc', ip', op', length')
    BY <1>8, <1>10, <2>1 DEF Places, RoomAt
  <2>3. QED BY <1>1, <1>2, <1>3, <1>6, <1>7, <1>8, <1>10, <2>1, <2>2, StepKeepsInv
<1> HIDE DEF d
<1>11. QED BY <1>1, <1>9, <1>10 DEF m

LEMMA SafeLiteralsKeepsInv ==
    ASSUME DecoderInv, UNCHANGED coderVars, SafeLiterals
    PROVE  DecoderInv'
<1> DEFINE l == ReadLiterals(Src(ip))
<1>1. /\ pc = "safe" /\ ~ LengthOutside(Src(ip)) /\ pc' = "literals"
      /\ src' = src /\ mem' = mem /\ op' = op /\ offset' = offset
      /\ token' = Src(ip) /\ ip' = l.at /\ length' = l.n
  BY DEF SafeLiterals
<1>2. /\ src \in Seq(Octet) /\ ip \in Nat /\ op \in Nat /\ op <= oend
      /\ offset \in Word /\ Fenced(mem, oend) /\ ip < iend
  BY <1>1, Known DEF RoomAt
<1>3. Src(ip) \in Nat /\ l.n \in Nat /\ l.at \in Nat /\ l.at <= iend
  BY <1>1, <1>2, LiteralsRead
<1> HIDE DEF l
<1>4. pc' \in Places /\ RoomAt(pc', ip', op', length')
  BY <1>1, <1>3 DEF Places, RoomAt
<1>5. QED BY <1>1, <1>2, <1>3, <1>4, StepKeepsInv
-----------------------------------------------------------------------------
LEMMA LeastOf ==
    ASSUME NEW a \in Nat, NEW b \in Nat, NEW c \in Nat
    PROVE  /\ Min({a, b}) \in Nat /\ Min({a, b}) <= a /\ Min({a, b}) <= b
           /\ Min({a, b, c}) \in Nat /\ Min({a, b, c}) <= a
           /\ Min({a, b, c}) <= b /\ Min({a, b, c}) <= c
<1>1. \E x \in {a, b} : \A y \in {a, b} : x <= y
  OBVIOUS
<1>2. \E x \in {a, b, c} : \A y \in {a, b, c} : x <= y
  OBVIOUS
<1>3. /\ Min({a, b}) \in {a, b}
      /\ \A y \in {a, b} : Min({a, b}) <= y
  BY <1>1, Zenon DEF Min
<1>4. /\ Min({a, b, c}) \in {a, b, c}
      /\ \A y \in {a, b, c} : Min({a, b, c}) <= y
  BY <1>2, Zenon DEF Min
<1>5. QED BY <1>3, <1>4

LEMMA CopyLiteralsKeepsInv ==
    ASSUME DecoderInv, UNCHANGED coderVars, CopyLiterals
    PROVE  DecoderInv'
<1>1. /\ pc = "literals" /\ ~ AtEnd /\ pc' = "length"
      /\ mem' = FromBlock(mem, op, ip, 8 * Rounds(op, op + length, 8))
      /\ op' = op + length /\ offset' = LE16(ip + length)
      /\ ip' = ip + length + 2
      /\ src' = src /\ token' = token /\ length' = length
  BY DEF CopyLiterals
<1>2. /\ src \in Seq(Octet) /\ ip \in Nat /\ op \in Nat /\ token \in Nat
      /\ length \in Nat /\ oend \in Nat /\ iend \in Nat
      /\ Fenced(mem, oend)
  BY <1>1, Known DEF RoomAt
<1>3. /\ op + length \in Nat /\ op + length + 12 <= oend
      /\ ip + length \in Nat /\ ip + length + 8 <= iend
      /\ op + length <= oend
      /\ (ip + length) + 1 < iend /\ ip + length + 2 \in Nat
      /\ ip + length + 2 < iend
  <2>1. /\ ~ (op + length > oend - 12)
        /\ ~ (ip + length > iend - (2 + 1 + 5))
    BY <1>1 DEF AtEnd, MFLIMIT, LASTLITERALS
  <2>2. ip \in Nat /\ op \in Nat /\ length \in Nat /\ oend \in Nat /\ iend \in Nat
    BY <1>2
  <2>3. QED BY <2>1, <2>2
<1>4. offset' \in Word
  BY <1>1, <1>2, <1>3, WordRead
<1>5. Fenced(mem', oend)
  <2>1. PICK n \in Nat : /\ n = 8 * Rounds(op, op + length, 8)
                         /\ n = 8 \/ n <= (op + length) - op + 7
    <3>1. op \in Int /\ op + length \in Int
      BY <1>2, <1>3
    <3>2. QED BY <3>1, RoundsOf8
  <2>2. op + n <= oend
    <3>1. /\ op \in Nat /\ length \in Nat /\ oend \in Nat
          /\ op + length + 12 <= oend
      BY <1>2, <1>3
    <3>2. QED BY <2>1, <3>1
  <2>3. Fenced(FromBlock(mem, op, ip, n), oend)
    BY <1>2, <2>2, FromBlockInside
  <2>4. QED BY <1>1, <2>1, <2>3
<1>6. pc' \in Places /\ RoomAt(pc', ip', op', length')
  BY <1>1, <1>3 DEF Places, RoomAt
<1>7. QED BY <1>1, <1>2, <1>3, <1>4, <1>5, <1>6, StepKeepsInv

LEMMA CopyLastLiteralsKeepsInv ==
    ASSUME DecoderInv, UNCHANGED coderVars, CopyLastLiterals
    PROVE  DecoderInv'
<1> DEFINE n == LastCopied
<1>1. /\ pc = "literals" /\ src' = src /\ token' = token /\ length' = length
      /\ \/ /\ pc' = "returned" /\ mem' = mem /\ ip' = ip /\ op' = op
            /\ offset' = offset
         \/ /\ input.partial \/ ~ (ip + length # iend \/ op + length > oend)
            /\ mem' = FromBlock(mem, op, ip, n) /\ op' = op + n
            /\ \/ pc' = "returned" /\ ip' = ip + n /\ offset' = offset
               \/ /\ input.partial /\ ~ (ip + n >= iend - 2)
                  /\ pc' = "length" /\ offset' = LE16(ip + n)
                  /\ ip' = ip + n + 2
  BY DEF CopyLastLiterals, Return
<1>2. /\ src \in Seq(Octet) /\ ip \in Nat /\ op \in Nat /\ op <= oend
      /\ token \in Nat /\ offset \in Word
      /\ length \in Nat /\ oend \in Nat /\ iend \in Nat
      /\ Fenced(mem, oend) /\ ip <= iend
  BY <1>1, Known DEF RoomAt
<1>3. CASE pc' = "returned" /\ mem' = mem /\ ip' = ip /\ op' = op /\ offset' = offset
  BY <1>1, <1>2, <1>3, Returns, StepKeepsInv
<1>4. CASE /\ input.partial \/ ~ (ip + length # iend \/ op + length > oend)
           /\ mem' = FromBlock(mem, op, ip, n) /\ op' = op + n
           /\ \/ pc' = "returned" /\ ip' = ip + n /\ offset' = offset
              \/ /\ input.partial /\ ~ (ip + n >= iend - 2)
                 /\ pc' = "length" /\ offset' = LE16(ip + n)
                 /\ ip' = ip + n + 2
  <2>1. n \in Nat /\ op + n <= oend
    <3>1. CASE input.partial
      <4>1. n = Min({length, iend - ip, oend - op})
        BY <3>1 DEF LastCopied
      <4>2. iend - ip \in Nat /\ oend - op \in Nat
        BY <1>2
      <4>3. n \in Nat /\ n <= oend - op
        BY <1>2, <4>1, <4>2, LeastOf
      <4> HIDE DEF n
      <4>4. op \in Nat /\ oend \in Nat
        BY <1>2
      <4>5. QED BY <4>3, <4>4
    <3>2. CASE ~ input.partial
      <4>1. n = length
        BY <3>2 DEF LastCopied
      <4>2. ~ (op + length > oend)
        BY <1>4, <3>2
      <4>3. QED BY <1>2, <4>1, <4>2
    <3>3. QED BY <3>1, <3>2
  <2> HIDE DEF n
  <2>2. Fenced(FromBlock(mem, op, ip, n), oend)
    BY <1>2, <2>1, FromBlockInside
  <2>3. Fenced(mem', oend)
    BY <1>4, <2>2
  <2>4. op' \in Nat /\ op' <= oend
    BY <1>2, <1>4, <2>1
  <2>5. CASE pc' = "returned" /\ ip' = ip + n /\ offset' = offset
    <3>1. ip' \in Nat
      BY <1>2, <2>1, <2>5
    <3>2. QED BY <1>1, <1>2, <2>3, <2>4, <2>5, <3>1, Returns, StepKeepsInv
  <2>6. CASE /\ input.partial /\ ~ (ip + n >= iend - 2)
             /\ pc' = "length" /\ offset' = LE16(ip + n)
             /\ ip' = ip + n + 2
    <3>1. /\ ip + n \in Nat /\ (ip + n) + 1 < iend
          /\ ip' \in Nat /\ ip' < iend
      BY <1>2, <2>1, <2>6
    <3>2. offset' \in Word
      BY <1>2, <2>6, <3>1, WordRead
    <3>3. pc' \in Places /\ RoomAt(pc', ip', op', length')
      BY <2>6, <3>1 DEF Places, RoomAt
    <3>4. QED BY <1>1, <1>2, <2>3, <2>4, <2>6, <3>1, <3>2, <3>3, StepKeepsInv
  <2>7. QED BY <1>4, <2>5, <2>6
<1> HIDE DEF n
<1>5. QED BY <1>1, <1>3, <1>4

LEMMA MatchLengthKeepsInv ==
    ASSUME DecoderInv, UNCHANGED coderVars, MatchLength
    PROVE  DecoderInv'
<1> DEFINE long == MatchNibble(token) = 15
           r == ReadLength(ip, iend - 5 + 1)
           n == 4 + IF long THEN MatchNibble(token) + r.n
                    ELSE MatchNibble(token)
<1>1. /\ pc = "length" /\ src' = src /\ mem' = mem /\ op' = op
      /\ token' = token /\ offset' = offset
      /\ length' = 4 + IF long THEN 15 + r.n ELSE MatchNibble(token)
      /\ ip' = IF long THEN r.at ELSE ip
      /\ \/ pc' = "returned"
         \/ ~ (long /\ r.stopped) /\ pc' = "match"
  BY DEF MatchLength, Return, ML_MASK, MINMATCH, LASTLITERALS
<1>2. /\ src \in Seq(Octet) /\ ip \in Nat /\ op \in Nat /\ op <= oend
      /\ token \in Nat /\ offset \in Word
      /\ oend \in Nat /\ iend \in Nat
      /\ Fenced(mem, oend) /\ ip < iend
      /\ op + 12 <= oend \/ input.partial
  BY <1>1, Known DEF RoomAt
<1>3. /\ n \in Nat /\ n >= 4 /\ r.at \in Nat
      /\ ~ (long /\ r.stopped) => (IF long THEN r.at ELSE ip) < iend
  BY <1>2, MatchLengthRead
<1>4. length' = n
  BY <1>1
<1> HIDE DEF long, r, n
<1>5. ip' \in Nat
  BY <1>1, <1>2, <1>3
<1>6. CASE pc' = "returned"
  BY <1>1, <1>2, <1>3, <1>4, <1>5, <1>6, Returns, StepKeepsInv
<1>7. CASE ~ (long /\ r.stopped) /\ pc' = "match"
  <2>1. ip' < iend
    BY <1>1, <1>3, <1>7
  <2>2. pc' \in Places /\ RoomAt(pc', ip', op', length')
    BY <1>1, <1>2, <1>3, <1>4, <1>7, <2>1 DEF Places, RoomAt
  <2>3. QED BY <1>1, <1>2, <1>3, <1>4, <1>5, <2>2, StepKeepsInv
<1>8. QED BY <1>1, <1>6, <1>7
-----------------------------------------------------------------------------
(* The ways in which a match is copied that end the step in the same way. *)
LEMMA CopiedPartKeepsInv ==
    ASSUME DecoderInv, UNCHANGED coderVars,
           pc = "match", pc' \in {"safe", "returned"},
           NEW n \in Nat, op + n <= oend, op' = op + n,
           UNCHANGED <<src, ip, token, length, offset>>,
           Fenced(mem', oend)
    PROVE  DecoderInv'
<1>1. /\ ip \in Nat /\ op \in Nat /\ token \in Nat /\ length \in Nat
      /\ offset \in Word /\ oend \in Nat /\ ip < iend
  BY Known DEF RoomAt
<1>2. op' \in Nat /\ op' <= oend
  BY <1>1
<1>3. pc' \in Places /\ RoomAt(pc', ip', op', length')
  BY <1>1 DEF Places, RoomAt
<1>4. src' = src /\ ip' = ip /\ token' = token /\ length' = length /\ offset' = offset
  OBVIOUS
<1>5. QED BY <1>1, <1>2, <1>3, <1>4, StepKeepsInv

LEMMA RestOfOutput ==
    ASSUME DecoderInv
    PROVE  /\ Min({length, oend - op}) \in Nat
           /\ op + Min({length, oend - op}) <= oend
<1> DEFINE n == Min({length, oend - op})
<1>1. op \in Nat /\ length \in Nat /\ op <= oend /\ oend \in Nat
  BY Known
<1>2. oend - op \in Nat
  BY <1>1
<1>3. n \in Nat /\ n <= oend - op
  BY <1>1, <1>2, LeastOf
<1> HIDE DEF n
<1>4. op + n <= oend
  BY <1>1, <1>3
<1>5. QED BY <1>3, <1>4 DEF n

LEMMA CopyDictMatchKeepsInv ==
    ASSUME DecoderInv, UNCHANGED coderVars, CopyDictMatch
    PROVE  DecoderInv'
<1> DEFINE over == op + length > oend - 5
           n == IF over THEN Min({length, oend - op}) ELSE length
<1>1. /\ pc = "match" /\ ~ Outside(match) /\ InDictionary
      /\ mem' = DictCopied(n) /\ op' = op + n /\ pc' = "safe"
      /\ UNCHANGED <<src, ip, token, length, offset>>
  BY DEF CopyDictMatch, LASTLITERALS
<1>2. n \in Nat /\ op + n <= oend
  <2>1. CASE over
    BY <2>1, RestOfOutput
  <2>2. CASE ~ over
    <3>1. op \in Nat /\ length \in Nat /\ oend \in Nat
      BY Known
    <3>2. QED BY <2>2, <3>1
  <2>3. QED BY <2>1, <2>2
<1> HIDE DEF over, n
<1>3. Fenced(mem', oend)
  BY <1>1, <1>2, DictCopiedInside
<1>4. QED BY <1>1, <1>2, <1>3, CopiedPartKeepsInv

LEMMA CopyPartKeepsInv ==
    ASSUME DecoderInv, UNCHANGED coderVars, CopyPart
    PROVE  DecoderInv'
<1> DEFINE n == Min({length, oend - op})
<1>1. /\ pc = "match" /\ pc' \in {"safe", "returned"}
      /\ mem' = IF match + n > op THEN ByteCopy(mem, op, match, n)
                ELSE memcpy(mem, op, match, n)
      /\ op' = op + n
      /\ UNCHANGED <<src, ip, token, length, offset>>
  BY DEF CopyPart, Return
<1>2. n \in Nat /\ op + n <= oend
  BY RestOfOutput
<1>3. match \in Int /\ match <= op
  BY MatchBehind
<1>4. op \in Nat /\ oend \in Nat /\ Fenced(mem, oend)
  BY Known
<1> HIDE DEF n
<1>5. n \in Int
  BY <1>2
<1>6. /\ Fenced(ByteCopy(mem, op, match, n), oend)
      /\ Fenced(memcpy(mem, op, match, n), oend)
  BY <1>2, <1>3, <1>4, <1>5, ByteCopyInside, MemcpyInside
<1>7. Fenced(mem', oend)
  BY <1>1, <1>6
<1>8. QED BY <1>1, <1>2, <1>7, CopiedPartKeepsInv

(***************************************************************************)
(* The first 8 bytes of a match have room behind them, also where the      *)
(* match turns out to end too near to the end.                             *)
(***************************************************************************)
LEMMA CopyMatchKeepsInv ==
    ASSUME DecoderInv, UNCHANGED coderVars, CopyMatch
    PROVE  DecoderInv'
<1> DEFINE m == FirstEight(mem, op, match)
           s == AfterEight(op, match)
           d == op + 8
           e == op + length
           near == op + length > oend - 12
<1>1. /\ pc = "match" /\ ~ (input.partial /\ near)
      /\ UNCHANGED <<src, ip, token, length, offset>>
      /\ \/ pc' = "returned" /\ mem' = m /\ op' = op
         \/ /\ ~ (near /\ e > oend - 5)
            /\ mem' = IF near THEN LastBytes(m, d, s, oend - 7, e)
                      ELSE IF length > 16
                      THEN wildCopy8(memcpy(m, d, s, 8), d + 8, s + 8, e)
                      ELSE memcpy(m, d, s, 8)
            /\ op' = e /\ pc' = "safe"
  <2>1. oend - (8 - 1) = oend - 7
    BY Known
  <2>2. QED BY <2>1 DEF CopyMatch, NearEnd, MATCH_SAFEGUARD_DISTANCE,
               LASTLITERALS, WILDCOPYLENGTH, Return
<1>2. /\ op \in Nat /\ length \in Nat /\ length >= 4 /\ oend \in Nat
      /\ op + 12 <= oend \/ input.partial
      /\ Fenced(mem, oend)
  BY <1>1, Known DEF RoomAt
<1>3. op + 12 <= oend
  <2>1. CASE input.partial
    <3>1. ~ near
      BY <1>1, <2>1
    <3>2. QED BY <1>2, <3>1
  <2>2. QED BY <1>2, <2>1
<1>4. match \in Int /\ match <= op
  BY MatchBehind
<1>5. Fenced(m, oend)
  <2>1. op + 8 <= oend
    BY <1>2, <1>3
  <2>2. QED BY <1>2, <1>4, <2>1, FirstEightInside
<1>6. s \in Int /\ s <= d
  BY <1>2, <1>4, AfterEightBehind
<1> HIDE DEF m, s
<1>7. CASE pc' = "returned" /\ mem' = m /\ op' = op
  <2>1. 0 \in Nat /\ op + 0 <= oend /\ op' = op + 0
    BY <1>2, <1>3, <1>7
  <2>2. Fenced(mem', oend) /\ pc' \in {"safe", "returned"}
    BY <1>5, <1>7
  <2>3. QED BY <1>1, <2>1, <2>2, CopiedPartKeepsInv
<1>8. CASE /\ ~ (near /\ e > oend - 5)
           /\ mem' = IF near THEN LastBytes(m, d, s, oend - 7, e)
                     ELSE IF length > 16
                     THEN wildCopy8(memcpy(m, d, s, 8), d + 8, s + 8, e)
                     ELSE memcpy(m, d, s, 8)
           /\ op' = e /\ pc' = "safe"
  <2>1. d \in Nat /\ e \in Nat
    BY <1>2
  <2>2. e <= oend
    <3>1. ~ (near /\ e > oend - 5)
      BY <1>8
    <3>2. QED BY <1>2, <3>1
  <2>3. Fenced(mem', oend)
    <3>1. CASE near
      <4> HIDE DEF d, e
      <4>1. Fenced(LastBytes(m, d, s, oend - 7, e), oend)
        <5>1. e \in Int
          BY <2>1
        <5>2. QED BY <1>2, <1>5, <1>6, <2>1, <2>2, <5>1, LastBytesInside
      <4>2. QED BY <1>8, <3>1, <4>1
    <3>2. CASE ~ near
      <4>1. e + 12 <= oend /\ e >= op + 4
        BY <1>2, <3>2
      <4>2. /\ d + 8 <= oend /\ 8 \in Int
        BY <1>2, <4>1
      <4> HIDE DEF near
      <4>3. Fenced(memcpy(m, d, s, 8), oend)
        BY <1>2, <1>5, <1>6, <2>1, <4>2, MemcpyInside
      <4>4. CASE length > 16
        <5>1. d + 8 + 8 <= oend /\ e + 7 <= oend
          BY <1>2, <4>1, <4>4
        <5> HIDE DEF d, e
        <5>2. d + 8 \in Nat /\ s + 8 \in Int /\ s + 8 <= d + 8 /\ e \in Int
          BY <1>6, <2>1
        <5>3. Fenced(wildCopy8(memcpy(m, d, s, 8), d + 8, s + 8, e), oend)
          BY <1>2, <4>3, <5>1, <5>2, WildCopy8Inside
        <5>4. QED BY <1>8, <3>2, <4>4, <5>3
      <4>5. CASE ~ (length > 16)
        BY <1>8, <3>2, <4>3, <4>5
      <4>6. QED BY <4>4, <4>5
    <3>3. QED BY <3>1, <3>2
  <2>4. op + length <= oend /\ op' = op + length /\ pc' \in {"safe", "returned"}
    BY <1>8, <2>2
  <2>5. QED BY <1>1, <1>2, <2>3, <2>4, CopiedPartKeepsInv
<1> HIDE DEF d, e, near
<1>9. QED BY <1>1, <1>7, <1>8
-----------------------------------------------------------------------------
LEMMA DecoderStutters ==
    ASSUME DecoderInv, UNCHANGED vars
    PROVE  DecoderInv'
<1>1. /\ input' = input /\ seqs' = seqs /\ anchor' = anchor /\ src' = src
      /\ mem' = mem /\ pc' = pc /\ ip' = ip /\ op' = op
      /\ token' = token /\ length' = length /\ offset' = offset
  BY DEF vars, coderVars, decoderVars, place
<1>2. /\ oend' = oend /\ Prefix' = Prefix /\ B!End' = B!End
      /\ iend' = iend
  BY <1>1 DEF oend, Prefix, Apart, B!End, iend
<1>3. QED BY <1>1, <1>2
          DEF DecoderInv, DecoderTypeOK, RoomLeft, RoomAt, Fenced

LEMMA DecoderInvInductive ==
    ASSUME DecoderInv, [Next]_vars
    PROVE  DecoderInv'
<1>1. CASE Code
  BY <1>1, CodeKeepsInv
<1>2. CASE Decode
  <2>1. UNCHANGED coderVars
    BY <1>2 DEF Decode
  <2>2. CASE Begin
    BY <2>1, <2>2, BeginKeepsInv
  <2>3. CASE LengthFails \/ MatchFails
    BY <2>1, <2>3, LengthFailsKeepsInv
  <2>4. CASE FastLiterals
    BY <2>1, <2>4, FastLiteralsKeepsInv
  <2>5. CASE FastMatch
    BY <2>1, <2>5, FastMatchKeepsInv
  <2>6. CASE FastCopy
    BY <2>1, <2>6, FastCopyKeepsInv
  <2>7. CASE Shortcut
    BY <2>1, <2>7, ShortcutKeepsInv
  <2>8. CASE SafeLiterals
    BY <2>1, <2>8, SafeLiteralsKeepsInv
  <2>9. CASE CopyLiterals
    BY <2>1, <2>9, CopyLiteralsKeepsInv
  <2>10. CASE CopyLastLiterals
    BY <2>1, <2>10, CopyLastLiteralsKeepsInv
  <2>11. CASE MatchLength
    BY <2>1, <2>11, MatchLengthKeepsInv
  <2>12. CASE CopyDictMatch
    BY <2>1, <2>12, CopyDictMatchKeepsInv
  <2>13. CASE CopyPart
    BY <2>1, <2>13, CopyPartKeepsInv
  <2>14. CASE CopyMatch
    BY <2>1, <2>14, CopyMatchKeepsInv
  <2>15. QED
    BY <1>2, <2>2, <2>3, <2>4, <2>5, <2>6, <2>7, <2>8, <2>9, <2>10, <2>11,
       <2>12, <2>13, <2>14 DEF Decode
<1>3. CASE UNCHANGED vars
  BY <1>3, DecoderStutters
<1>4. QED BY <1>1, <1>2, <1>3 DEF Next

THEOREM DecoderInvariant == Spec => []DecoderInv
<1>1. Init => DecoderInv
  BY DecoderInitInv
<1>2. DecoderInv /\ [Next]_vars => DecoderInv'
  BY DecoderInvInductive
<1>3. QED BY <1>1, <1>2, PTL DEF Spec

(***************************************************************************)
(* The decoder never writes behind the output buffer.                      *)
(***************************************************************************)
THEOREM WritesOnlyInside == Spec => []WritesInside
<1>1. DecoderInv => WritesInside
  <2>1. SUFFICES ASSUME DecoderInv, NEW a \in DOMAIN mem
                 PROVE  (mem[a] = 1000) <=> (a >= oend)
    BY DEF WritesInside, Fence
  <2>2. QED BY <2>1 DEF DecoderInv, Fenced
<1>2. QED BY <1>1, DecoderInvariant, PTL
=============================================================================
