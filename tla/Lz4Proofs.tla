------------------------------ MODULE Lz4Proofs ------------------------------
(***************************************************************************)
(* Proofs about what an LZ4 block is and about the coders that write one.  *)
(*                                                                         *)
(* The first part is about Lz4Block: for every text, dictionary and        *)
(* distance, and every choice of matches, a block is never longer than     *)
(* LZ4_COMPRESSBOUND says, and reading it gives the text back.             *)
(*                                                                         *)
(* The second part is about Lz4Compress: for every call, every table and   *)
(* every limit on what is tried, the fast, the hash-chain and the optimal  *)
(* coder stay inside the output and the text, and every step of theirs is  *)
(* a step of Lz4Block.                                                     *)
(*                                                                         *)
(* The third part is about Lz4HcMatch: what the search returns is a match  *)
(* the coders of the HC levels may take, it reads no four bytes it must    *)
(* not read, and its shortcuts miss no longer match.                       *)
(***************************************************************************)
EXTENDS Lz4Compress, Lz4HcMatch, SequenceTheorems, WellFoundedInduction, TLAPS

BlockTypeOK ==
    /\ input \in Inputs
    /\ seqs \in Seq(Sequence)
    /\ anchor \in Start..End
    /\ size \in Nat
    /\ result \in {"coding", "coded", "refused"}
    /\ out \in Seq(Byte)
    /\ read \in 0..Len(seqs)
    /\ result # "coded" => read = 0

(***************************************************************************)
(* What the sequences cost: at most one byte more for every 255 they       *)
(* cover, and two more when the last literals are written.                 *)
(***************************************************************************)
Cost == 255 * size <= 256 * (anchor - Start) + (IF result = "coded" THEN 510 ELSE 0)

(* Sequence k begins where this says; behind the last one it is anchor. *)
Begins(k) == IF k = Len(seqs) + 1 THEN anchor ELSE seqs[k].at

(* The sequences cover the text from its beginning to anchor without gaps. *)
Covered ==
    /\ Begins(1) = Start
    /\ \A k \in 1..Len(seqs) :
          Begins(k + 1) = seqs[k].at + seqs[k].ll + seqs[k].ml
    /\ \A k \in 1..(Len(seqs) + 1) : Begins(k) \in Start..End

(* Every match repeats bytes of the text. *)
MatchesAgree ==
    \A k \in 1..Len(seqs) :
        seqs[k].ml > 0 =>
            IsMatch(seqs[k].at + seqs[k].ll, seqs[k].off, seqs[k].ml)

(* The reader has come to the beginning of the next sequence. *)
ReaderInStep ==
    /\ out = SubSeq(input.bytes, 1, Len(out))
    /\ Len(out) = Begins(read + 1)

BlockInv == BlockTypeOK /\ Cost /\ Covered /\ MatchesAgree /\ ReaderInStep
-----------------------------------------------------------------------------
(***************************************************************************)
(* Every set of numbers that is not empty has a least element.             *)
(***************************************************************************)
LEMMA LeastElement ==
    ASSUME NEW T, T \subseteq Nat, T # {}
    PROVE  \E x \in T : \A y \in T : x <= y
<1> DEFINE R == {ss \in Nat \X Nat : ss[1] < ss[2]}
<1>1. IsWellFoundedOn(R, Nat)
  BY NatLessThanWellFounded, Zenon DEF OpToRel
<1>2. \E x \in T : \A y \in T : ~ (<<y, x>> \in R)
  <2> HIDE DEF R
  <2>1. QED BY <1>1, WFMin, Zenon
<1>3. \A x, y \in Nat : ~ (<<y, x>> \in R) => x <= y
  OBVIOUS
<1> HIDE DEF R
<1>4. QED BY <1>2, <1>3

(* Every set of numbers below a bound that is not empty has a largest one. *)
LEMMA LargestBelow ==
    ASSUME NEW S, S \subseteq Int, S # {}, NEW p \in Int, \A q \in S : q < p
    PROVE  Max(S) \in S /\ \A q \in S : q <= Max(S)
<1> DEFINE T == {p - q : q \in S}
<1>1. T \subseteq Nat /\ T # {}
  <2>1. PICK q \in S : TRUE
    OBVIOUS
  <2>2. p - q \in T
    OBVIOUS
  <2>3. ASSUME NEW q1 \in S PROVE p - q1 \in Nat
    OBVIOUS
  <2>4. QED BY <2>2, <2>3
<1>2. PICK t \in T : \A u \in T : t <= u
  <2> HIDE DEF T
  <2>1. QED BY <1>1, LeastElement
<1>3. PICK x \in S : t = p - x
  OBVIOUS
<1>4. ASSUME NEW q \in S PROVE x >= q
  <2>1. p - q \in T
    OBVIOUS
  <2>2. t <= p - q
    BY <1>2, <2>1
  <2>3. QED BY <1>3, <2>2
<1>5. \E y \in S : \A q \in S : y >= q
  BY <1>4
<1>6. Max(S) \in S /\ \A q \in S : Max(S) >= q
  BY <1>5 DEF Max
<1>7. \A q \in S : Max(S) >= q => q <= Max(S)
  BY <1>6
<1>8. QED BY <1>6, <1>7

(* The input of a state is a list of bytes with a dictionary in front. *)
LEMMA InputTypes ==
    ASSUME input \in Inputs
    PROVE  /\ input.bytes \in Seq(Byte)
           /\ Start \in Nat /\ End \in Nat /\ Start <= End
BY InputsAssumption DEF InputsAssumption, Start, End

(***************************************************************************)
(* What a length needs behind the token is at most one byte in every 255   *)
(* beyond the first 15, and one more.                                      *)
(***************************************************************************)
LEMMA ExtraBytesBounded ==
    ASSUME NEW n \in Nat
    PROVE  /\ ExtraBytes(n) \in Nat
           /\ n < 15 => ExtraBytes(n) = 0
           /\ n >= 15 => 255 * ExtraBytes(n) <= n + 240
<1>1. CASE n < 15
  BY <1>1 DEF ExtraBytes, RUN_MASK
<1>2. CASE n >= 15
  <2>1. n - 15 \in Nat
    BY <1>2
  <2>2. (n - 15) \div 255 \in Nat /\ 255 * ((n - 15) \div 255) <= n - 15
    BY <2>1
  <2>3. ExtraBytes(n) = ((n - 15) \div 255) + 1
    BY <1>2 DEF ExtraBytes, RUN_MASK
  <2>4. QED BY <1>2, <2>2, <2>3
<1>3. QED BY <1>1, <1>2

(* A whole sequence is no longer than what it covers and a 255th of that. *)
LEMMA SequenceCost ==
    ASSUME NEW ll \in Nat, NEW ml \in Nat, ml >= 4
    PROVE  /\ SequenceSize(ll, ml) \in Nat
           /\ 255 * SequenceSize(ll, ml) <= 256 * (ll + ml)
<1>1. /\ ml - 4 \in Nat
      /\ SequenceSize(ll, ml) = 1 + ExtraBytes(ll) + ll + 2 + ExtraBytes(ml - 4)
  BY DEF SequenceSize, LiteralsSize, MINMATCH
<1>2. ExtraBytes(ll) \in Nat /\ 255 * ExtraBytes(ll) <= ll + 240
  BY ExtraBytesBounded
<1>3. ExtraBytes(ml - 4) \in Nat
  BY <1>1, ExtraBytesBounded
<1>4. CASE ml - 4 < 15
  <2>1. ExtraBytes(ml - 4) = 0
    BY <1>1, <1>4, ExtraBytesBounded
  <2>2. QED BY <1>1, <1>2, <2>1
<1>5. CASE ml - 4 >= 15
  <2>1. 255 * ExtraBytes(ml - 4) <= (ml - 4) + 240
    BY <1>1, <1>5, ExtraBytesBounded
  <2>2. QED BY <1>1, <1>2, <1>3, <1>5, <2>1
<1>6. QED BY <1>1, <1>4, <1>5

LEMMA LiteralsCost ==
    ASSUME NEW n \in Nat
    PROVE  /\ LiteralsSize(n) \in Nat
           /\ 255 * LiteralsSize(n) <= 256 * n + 495
BY ExtraBytesBounded DEF LiteralsSize
-----------------------------------------------------------------------------
(* Remainders, for any divisor. *)
LEMMA RemainderOfSmall ==
    ASSUME NEW d \in Nat, NEW m \in Nat \ {0}
    PROVE  d % m \in 0..(m - 1) /\ (d < m => d % m = d)
OBVIOUS

LEMMA RemainderOfDifference ==
    ASSUME NEW d \in Nat, NEW m \in Nat \ {0}, d >= m
    PROVE  d % m = (d - m) % m
<1>1. PICK q \in Int, r \in 0..(m - 1) : d - m = m * q + r /\ r = (d - m) % m
  <2>1. d - m \in Nat
    OBVIOUS
  <2>2. /\ (d - m) \div m \in Int /\ (d - m) % m \in 0..(m - 1)
        /\ d - m = m * ((d - m) \div m) + ((d - m) % m)
    BY <2>1
  <2>3. QED BY <2>2
<1>2. d % m \in 0..(m - 1) /\ d \div m \in Int /\ d = m * (d \div m) + (d % m)
  OBVIOUS
<1> DEFINE z == (d \div m) - (q + 1)
<1>3. z \in Int /\ m * z = r - (d % m) /\ r - (d % m) < m /\ r - (d % m) > -m
  <2>1. d = m * (q + 1) + r
    BY <1>1
  <2>2. m * ((d \div m) - (q + 1)) = r - (d % m)
    BY <1>2, <2>1
  <2>3. QED BY <1>1, <1>2, <2>2
<1> HIDE DEF z
<1>4. z < 1
  <2>1. SUFFICES ASSUME z >= 1 PROVE FALSE
    BY <1>3
  <2>2. m * z >= m
    BY <1>3, <2>1
  <2>3. QED BY <1>2, <1>3, <2>2
<1>5. z > -1
  <2>1. SUFFICES ASSUME z <= -1 PROVE FALSE
    BY <1>3
  <2>2. m * z <= -m
    BY <1>3, <2>1
  <2>3. QED BY <1>2, <1>3, <2>2
<1>6. z = 0
  BY <1>3, <1>4, <1>5
<1>7. d % m = r
  BY <1>1, <1>2, <1>3, <1>6
<1>8. QED BY <1>1, <1>7

(***************************************************************************)
(* A match that overlaps itself: if each of n bytes is the one off bytes   *)
(* before it, they are the off bytes in front of them over and over again. *)
(***************************************************************************)
LEMMA Repetition ==
    ASSUME input \in Inputs,
           NEW p \in Nat, NEW off \in Nat, NEW n \in Nat,
           IsMatch(p, off, n)
    PROVE  \A d \in 0..(n - 1) : At(p + d) = At(p - off + (d % off))
<1> DEFINE rem(d) == d % off
           Differing == {d \in 0..(n - 1) : At(p + d) # At(p - off + rem(d))}
<1>1. off \in Nat \ {0} /\ off <= p /\ \A i \in p..(p + n - 1) : At(i) = At(i - off)
  BY DEF IsMatch
<1>2. /\ \A d \in Nat : d < off => rem(d) = d
      /\ \A d \in Nat : d >= off => rem(d) = rem(d - off)
  BY <1>1, RemainderOfSmall, RemainderOfDifference
<1>3. Differing \subseteq Nat
  OBVIOUS
<1>4. SUFFICES ASSUME Differing # {} PROVE FALSE
  OBVIOUS
<1> HIDE DEF rem
<1>5. PICK d \in Differing : \A e \in Differing : d <= e
  <2> HIDE DEF Differing
  <2>1. QED BY <1>3, <1>4, LeastElement
<1>6. d \in 0..(n - 1) /\ d \in Nat /\ At(p + d) # At(p - off + rem(d))
  OBVIOUS
<1>7. At(p + d) = At(p + d - off)
  BY <1>1, <1>6
<1>8. CASE d < off
  <2>1. p - off + rem(d) = p + d - off
    BY <1>1, <1>2, <1>6, <1>8
  <2>2. QED BY <1>6, <1>7, <2>1
<1>9. CASE d >= off
  <2>1. d - off \in 0..(n - 1) /\ d - off < d
    BY <1>1, <1>6, <1>9
  <2>2. d - off \notin Differing
    <3> HIDE DEF Differing
    <3>1. QED BY <1>5, <1>6, <2>1
  <2>3. At(p + (d - off)) = At(p - off + rem(d - off))
    BY <2>1, <2>2
  <2>4. rem(d) = rem(d - off) /\ p + (d - off) = p + d - off
    BY <1>1, <1>2, <1>6, <1>9
  <2>5. QED BY <1>6, <1>7, <2>3, <2>4
<1>10. QED BY <1>1, <1>6, <1>8, <1>9

(* Copying a match behind the beginning of the text gives more of the text. *)
LEMMA CopiedIsText ==
    ASSUME input \in Inputs,
           NEW p \in Nat, NEW off \in Nat, NEW n \in Nat,
           p + n <= End, IsMatch(p, off, n)
    PROVE  Copied(SubSeq(input.bytes, 1, p), off, n) = SubSeq(input.bytes, 1, p + n)
<1> DEFINE o == SubSeq(input.bytes, 1, p)
           c == Copied(o, off, n)
<1>1. input.bytes \in Seq(Byte) /\ End = Len(input.bytes)
  BY InputTypes DEF End
<1>2. off \in Nat \ {0} /\ off <= p
  BY DEF IsMatch
<1>3. o \in Seq(Byte) /\ Len(o) = p /\ \A i \in 1..p : o[i] = input.bytes[i]
  BY <1>1
<1>4. ASSUME NEW i \in 1..(p + n), i > p
      PROVE  o[p - off + 1 + ((i - p - 1) % off)] = input.bytes[i]
  <2> DEFINE d == i - p - 1
  <2>1. d \in 0..(n - 1) /\ d \in Nat
    BY <1>4
  <2>2. d % off \in 0..(off - 1)
    BY <1>2, <2>1, RemainderOfSmall
  <2>3. At(p + d) = At(p - off + (d % off))
    BY <2>1, Repetition
  <2>4. /\ At(p + d) = input.bytes[i]
        /\ At(p - off + (d % off)) = input.bytes[p - off + 1 + (d % off)]
    <3>1. p + d + 1 = i
      BY <1>4
    <3>2. p - off + (d % off) + 1 = p - off + 1 + (d % off)
      BY <1>2, <2>2
    <3>3. QED BY <3>1, <3>2 DEF At
  <2>5. p - off + 1 + (d % off) \in 1..p
    BY <1>2, <2>2
  <2>6. QED BY <1>3, <2>3, <2>4, <2>5
<1>5. c = [i \in 1..(p + n) |-> IF i <= p THEN o[i]
                                 ELSE o[p - off + 1 + ((i - p - 1) % off)]]
  BY <1>3 DEF Copied
<1>6. c = [i \in 1..(p + n) |-> input.bytes[i]]
  <2> HIDE DEF o, c
  <2>1. ASSUME NEW i \in 1..(p + n)
        PROVE  (IF i <= p THEN o[i] ELSE o[p - off + 1 + ((i - p - 1) % off)])
                    = input.bytes[i]
    BY <1>3, <1>4
  <2>2. QED BY <1>5, <2>1
<1>7. SubSeq(input.bytes, 1, p + n) = [i \in 1..(p + n) |-> input.bytes[i]]
  BY <1>1
<1>8. QED BY <1>6, <1>7
-----------------------------------------------------------------------------
(* The first state: nothing is covered, and the dictionary has been read. *)
LEMMA BlockInitInv ==
    BlockInit => BlockInv
<1> SUFFICES ASSUME BlockInit PROVE BlockInv
  OBVIOUS
<1> USE DEF BlockInit
<1>1. input \in Inputs /\ Start \in Nat /\ End \in Nat /\ Start <= End
  BY InputTypes
<1>2. /\ out = SubSeq(input.bytes, 1, Start)
      /\ out \in Seq(Byte) /\ Len(out) = Start
  BY <1>1, InputTypes DEF End
<1>3. BlockTypeOK
  BY <1>1, <1>2 DEF BlockTypeOK
<1>4. Cost
  BY <1>1 DEF Cost
<1>5. Covered /\ Begins(1) = Start
  BY <1>1 DEF Covered, Begins
<1>6. MatchesAgree
  BY DEF MatchesAgree
<1>7. ReaderInStep
  BY <1>2, <1>5 DEF ReaderInStep
<1>8. QED BY <1>3, <1>4, <1>5, <1>6, <1>7 DEF BlockInv

(***************************************************************************)
(* A sequence that begins at anchor is added, whose match agrees with the  *)
(* text: what held of the sequences before holds of all of them.           *)
(***************************************************************************)
LEMMA AppendedSequence ==
    ASSUME BlockInv, input' = input, NEW e \in Sequence,
           e.at = anchor, seqs' = Append(seqs, e),
           anchor' = anchor + e.ll + e.ml, anchor' <= End,
           e.ml > 0 => IsMatch(e.at + e.ll, e.off, e.ml)
    PROVE  /\ seqs' \in Seq(Sequence) /\ Len(seqs') = Len(seqs) + 1
           /\ anchor' \in (Start..End)'
           /\ Covered' /\ MatchesAgree'
           /\ Begins(1)' = Begins(1)
<1>1. /\ seqs \in Seq(Sequence) /\ anchor \in Start..End
      /\ Start \in Nat /\ End \in Nat
  BY InputTypes DEF BlockInv, BlockTypeOK
<1>2. e.at \in Nat /\ e.ll \in Nat /\ e.ml \in Nat
  BY DEF Sequence
<1>3. /\ seqs' \in Seq(Sequence) /\ Len(seqs') = Len(seqs) + 1
      /\ \A k \in 1..Len(seqs) : seqs'[k] = seqs[k]
      /\ seqs'[Len(seqs) + 1] = e
  BY <1>1
<1>4. Start' = Start /\ End' = End
  BY DEF Start, End
<1>5. anchor' \in Start..End
  BY <1>1, <1>2
<1>6. \A k \in 1..(Len(seqs) + 1) : Begins(k)' = Begins(k)
  BY <1>1, <1>3 DEF Begins
<1>7. \A k \in Nat : k = Len(seqs) + 2 => Begins(k)' = anchor'
  BY <1>1, <1>3 DEF Begins
<1>8. Covered'
  <2>1. Begins(1)' = Start'
    BY <1>1, <1>4, <1>6 DEF BlockInv, Covered
  <2>2. ASSUME NEW k \in 1..(Len(seqs) + 1)
        PROVE  Begins(k + 1)' = seqs'[k].at + seqs'[k].ll + seqs'[k].ml
    <3>1. CASE k <= Len(seqs)
      BY <1>1, <1>3, <1>6, <2>2, <3>1 DEF BlockInv, Covered
    <3>2. CASE k = Len(seqs) + 1
      BY <1>1, <1>3, <1>7, <3>2
    <3>3. QED BY <1>1, <2>2, <3>1, <3>2
  <2>3. ASSUME NEW k \in 1..(Len(seqs) + 2)
        PROVE  Begins(k)' \in Start..End
    <3>1. CASE k <= Len(seqs) + 1
      BY <1>1, <1>6, <2>3, <3>1 DEF BlockInv, Covered
    <3>2. CASE k = Len(seqs) + 2
      BY <1>5, <1>7, <3>2
    <3>3. QED BY <1>1, <2>3, <3>1, <3>2
  <2>4. /\ \A k \in 1..Len(seqs') :
              Begins(k + 1)' = seqs'[k].at + seqs'[k].ll + seqs'[k].ml
        /\ \A k \in 1..(Len(seqs') + 1) : Begins(k)' \in Start'..End'
    BY <1>1, <1>3, <1>4, <2>2, <2>3
  <2>5. QED BY <2>1, <2>4 DEF Covered
<1>9. MatchesAgree'
  <2>1. ASSUME NEW k \in 1..Len(seqs'), seqs'[k].ml > 0
        PROVE  IsMatch(seqs[k].at + seqs[k].ll, seqs[k].off, seqs[k].ml)'
    <3>1. IsMatch(seqs'[k].at + seqs'[k].ll, seqs'[k].off, seqs'[k].ml)
      <4>1. CASE k <= Len(seqs)
        BY <1>1, <1>3, <2>1, <4>1 DEF BlockInv, MatchesAgree
      <4>2. CASE k = Len(seqs) + 1
        BY <1>3, <2>1, <4>2
      <4>3. QED BY <1>1, <1>3, <2>1, <4>1, <4>2
    <3>2. QED BY <3>1 DEF IsMatch, At
  <2>2. QED BY <2>1 DEF MatchesAgree
<1>10. QED BY <1>1, <1>3, <1>4, <1>5, <1>6, <1>8, <1>9

(* The reader does not move while the block is written. *)
LEMMA ReaderWaits ==
    ASSUME BlockInv, read = 0, input' = input, UNCHANGED reader,
           Begins(1)' = Begins(1)
    PROVE  ReaderInStep'
<1>1. out' = out /\ read' = 0
  BY DEF reader
<1>2. Len(out) = Begins(1)
  BY DEF BlockInv, ReaderInStep
<1>3. QED BY <1>1, <1>2 DEF BlockInv, ReaderInStep
-----------------------------------------------------------------------------
(* One step of the coder or of the reader keeps the invariant. *)
LEMMA EmitKeepsInv ==
    ASSUME BlockInv, NEW p, NEW n, Emit(p, n)
    PROVE  BlockInv'
<1>1. /\ result = "coding" /\ result' = "coding" /\ read = 0
      /\ input \in Inputs /\ input' = input /\ UNCHANGED reader
      /\ size \in Nat /\ anchor \in Start..End
      /\ Start \in Nat /\ End \in Nat
  BY InputTypes DEF Emit, BlockInv, BlockTypeOK
<1>2. /\ p \in Nat /\ anchor <= p /\ n \in Nat /\ n >= 4 /\ p + n <= End
      /\ anchor' = p + n /\ size' = size + SequenceSize(p - anchor, n)
  BY <1>1 DEF Emit, MINMATCH, MFLIMIT, LASTLITERALS
<1>3. PICK off \in 1..DistanceMax :
          /\ seqs' = Append(seqs, [at |-> anchor, ll |-> p - anchor,
                                   off |-> off, ml |-> n])
          /\ IsMatch(p, off, n)
  BY DEF Emit
<1> DEFINE e == [at |-> anchor, ll |-> p - anchor, off |-> off, ml |-> n]
<1>4. /\ e \in Sequence /\ e.at = anchor
      /\ anchor' = anchor + e.ll + e.ml /\ anchor' <= End
      /\ IsMatch(e.at + e.ll, e.off, e.ml)
  <2>1. off \in Nat /\ anchor + (p - anchor) = p
    BY <1>1, <1>2, InputsAssumption DEF InputsAssumption
  <2>2. QED BY <1>1, <1>2, <1>3, <2>1 DEF Sequence
<1>5. /\ seqs' \in Seq(Sequence) /\ Len(seqs') = Len(seqs) + 1
      /\ anchor' \in (Start..End)'
      /\ Covered' /\ MatchesAgree' /\ Begins(1)' = Begins(1)
  <2> HIDE DEF e
  <2>1. seqs' = Append(seqs, e)
    BY <1>3 DEF e
  <2>2. QED BY <1>1, <1>4, <2>1, AppendedSequence
<1>6. ReaderInStep'
  BY <1>1, <1>5, ReaderWaits
<1>7. /\ SequenceSize(p - anchor, n) \in Nat
      /\ 255 * SequenceSize(p - anchor, n) <= 256 * ((p - anchor) + n)
  BY <1>1, <1>2, SequenceCost
<1>8. Cost'
  <2>1. 255 * size <= 256 * (anchor - Start) /\ Start' = Start
    BY <1>1 DEF BlockInv, Cost, Start
  <2>2. 255 * size' <= 256 * (anchor' - Start)
    BY <1>1, <1>2, <1>7, <2>1
  <2>3. anchor' \in Nat /\ 256 * (anchor' - Start) + 0 = 256 * (anchor' - Start)
    BY <1>1, <1>2
  <2>4. QED BY <1>1, <2>1, <2>2, <2>3 DEF Cost
<1>9. BlockTypeOK'
  <2>1. size' \in Nat
    BY <1>1, <1>2, <1>7
  <2>2. out' = out /\ read' = 0
    BY <1>1 DEF reader
  <2>3. QED BY <1>1, <1>5, <2>1, <2>2 DEF BlockInv, BlockTypeOK
<1>10. QED BY <1>5, <1>6, <1>8, <1>9 DEF BlockInv

LEMMA LastLiteralsKeepInv ==
    ASSUME BlockInv, NEW n \in 0..TextLength, LastLiterals(n)
    PROVE  BlockInv'
<1>1. /\ result = "coding" /\ result' = "coded" /\ read = 0
      /\ input \in Inputs /\ input' = input /\ UNCHANGED reader
      /\ size \in Nat /\ anchor \in Start..End
      /\ Start \in Nat /\ End \in Nat /\ n \in Nat
  BY InputTypes DEF LastLiterals, BlockInv, BlockTypeOK, TextLength
<1>2. /\ anchor' = anchor + n /\ anchor + n <= End
      /\ size' = size + LiteralsSize(n)
  BY DEF LastLiterals
<1> DEFINE e == [at |-> anchor, ll |-> n, off |-> 0, ml |-> 0]
<1>3. seqs' = Append(seqs, e)
  BY DEF LastLiterals
<1>4. /\ e \in Sequence /\ e.at = anchor /\ e.ml = 0
      /\ anchor' = anchor + e.ll + e.ml /\ anchor' <= End
  BY <1>1, <1>2 DEF Sequence
<1>5. /\ seqs' \in Seq(Sequence) /\ Len(seqs') = Len(seqs) + 1
      /\ anchor' \in (Start..End)'
      /\ Covered' /\ MatchesAgree' /\ Begins(1)' = Begins(1)
  <2> HIDE DEF e
  <2>1. ~ (e.ml > 0)
    BY <1>4
  <2>2. QED BY <1>1, <1>3, <1>4, <2>1, AppendedSequence
<1>6. ReaderInStep'
  BY <1>1, <1>5, ReaderWaits
<1>7. LiteralsSize(n) \in Nat /\ 255 * LiteralsSize(n) <= 256 * n + 495
  BY <1>1, LiteralsCost
<1>8. Cost'
  <2>1. 255 * size <= 256 * (anchor - Start) /\ Start' = Start
    BY <1>1 DEF BlockInv, Cost, Start
  <2>2. 255 * size' <= 256 * (anchor' - Start) + 510
    BY <1>1, <1>2, <1>7, <2>1
  <2>3. QED BY <1>1, <2>1, <2>2 DEF Cost
<1>9. BlockTypeOK'
  <2>1. size' \in Nat
    BY <1>1, <1>2, <1>7
  <2>2. out' = out /\ read' = 0
    BY <1>1 DEF reader
  <2>3. QED BY <1>1, <1>5, <2>1, <2>2 DEF BlockInv, BlockTypeOK
<1>10. QED BY <1>5, <1>6, <1>8, <1>9 DEF BlockInv

LEMMA RefuseKeepsInv ==
    ASSUME BlockInv, Refuse
    PROVE  BlockInv'
<1>1. /\ result = "coding" /\ result' = "refused"
      /\ UNCHANGED <<input, seqs, anchor, size, out, read>>
  BY DEF Refuse, reader
<1>2. BlockTypeOK'
  BY <1>1 DEF BlockInv, BlockTypeOK, Start, End
<1>3. Cost' /\ Covered' /\ MatchesAgree' /\ ReaderInStep'
  BY <1>1 DEF BlockInv, Cost, Covered, Begins, MatchesAgree, IsMatch, At,
              ReaderInStep, Start, End
<1>4. QED BY <1>2, <1>3 DEF BlockInv

(* Two neighbouring pieces of a list make one. *)
LEMMA JoinedPieces ==
    ASSUME NEW b \in Seq(Byte), NEW a \in Nat, NEW q \in Nat,
           a <= q, q <= Len(b)
    PROVE  SubSeq(b, 1, a) \o SubSeq(b, a + 1, q) = SubSeq(b, 1, q)
<1> DEFINE x == SubSeq(b, 1, a)
           y == SubSeq(b, a + 1, q)
           z == SubSeq(b, 1, q)
<1>1. x \in Seq(Byte) /\ Len(x) = a /\ \A i \in 1..a : x[i] = b[i]
  OBVIOUS
<1>2. y \in Seq(Byte) /\ Len(y) = q - a /\ \A i \in 1..(q - a) : y[i] = b[a + i]
  OBVIOUS
<1>3. z \in Seq(Byte) /\ Len(z) = q /\ \A i \in 1..q : z[i] = b[i]
  OBVIOUS
<1> HIDE DEF x, y, z
<1>4. /\ x \o y \in Seq(Byte) /\ Len(x \o y) = q
      /\ \A i \in 1..q : (x \o y)[i] = IF i <= a THEN x[i] ELSE y[i - a]
  <2>1. x \o y \in Seq(Byte) /\ Len(x \o y) = Len(x) + Len(y)
    BY <1>1, <1>2, ConcatProperties
  <2>2. \A i \in 1..(Len(x) + Len(y)) :
            (x \o y)[i] = IF i <= Len(x) THEN x[i] ELSE y[i - Len(x)]
    BY <1>1, <1>2, ConcatProperties
  <2>3. Len(x) + Len(y) = q
    BY <1>1, <1>2
  <2>4. QED BY <1>1, <2>1, <2>2, <2>3
<1>5. ASSUME NEW i \in 1..q PROVE (x \o y)[i] = z[i]
  <2>1. CASE i <= a
    <3>1. i \in 1..a
      BY <2>1
    <3>2. (x \o y)[i] = x[i]
      BY <1>4, <2>1
    <3>3. QED BY <1>1, <1>3, <3>1, <3>2
  <2>2. CASE i > a
    <3>1. i - a \in 1..(q - a) /\ a + (i - a) = i /\ ~ (i <= a)
      BY <2>2
    <3>2. (x \o y)[i] = y[i - a]
      BY <1>4, <3>1
    <3>3. y[i - a] = b[a + (i - a)]
      BY <1>2, <3>1
    <3>4. QED BY <1>3, <3>1, <3>2, <3>3
  <2>3. i <= a \/ i > a
    OBVIOUS
  <2>4. QED BY <2>1, <2>2, <2>3
<1>6. x \o y = z
  BY <1>3, <1>4, <1>5
<1>7. QED BY <1>6 DEF x, y, z

LEMMA ReadSequenceKeepsInv ==
    ASSUME BlockInv, ReadSequence
    PROVE  BlockInv'
<1>1. /\ result = "coded" /\ read < Len(seqs) /\ read' = read + 1
      /\ UNCHANGED <<input, seqs, anchor, size, result>>
  BY DEF ReadSequence, writer
<1>2. /\ input \in Inputs /\ input.bytes \in Seq(Byte)
      /\ Start \in Nat /\ End \in Nat /\ End = Len(input.bytes)
      /\ seqs \in Seq(Sequence) /\ read \in 0..Len(seqs)
  BY InputTypes DEF BlockInv, BlockTypeOK, End
<1> DEFINE s == seqs[read + 1]
           p == s.at + s.ll
           o == out \o SubSeq(input.bytes, s.at + 1, s.at + s.ll)
<1>3. /\ s \in Sequence /\ s.at \in Nat /\ s.ll \in Nat /\ s.ml \in Nat
      /\ s.off \in Nat /\ p \in Nat
  <2>1. s \in Sequence
    BY <1>1, <1>2
  <2> HIDE DEF s
  <2>2. QED BY <2>1 DEF Sequence
<1>4. Begins(read + 1) = s.at /\ Begins(read + 2) = p + s.ml /\ p + s.ml <= End
  <2>1. Begins(read + 1) = s.at
    BY <1>1, <1>2 DEF Begins
  <2>2. Begins((read + 1) + 1) = s.at + s.ll + s.ml
    <3>1. read + 1 \in 1..Len(seqs)
      BY <1>1, <1>2
    <3>2. QED BY <3>1 DEF BlockInv, Covered
  <2>3. Begins((read + 1) + 1) \in Start..End
    BY <1>1, <1>2 DEF BlockInv, Covered
  <2>4. (read + 1) + 1 = read + 2
    BY <1>2
  <2> HIDE DEF s
  <2>5. QED BY <1>2, <1>3, <2>1, <2>2, <2>3, <2>4
<1>5. o = SubSeq(input.bytes, 1, p)
  <2> HIDE DEF s
  <2>1. out = SubSeq(input.bytes, 1, s.at)
    <3>1. Len(out) = s.at
      BY <1>4 DEF BlockInv, ReaderInStep
    <3>2. QED BY <3>1 DEF BlockInv, ReaderInStep
  <2>2. s.at <= p /\ p <= Len(input.bytes)
    BY <1>2, <1>3, <1>4
  <2>3. SubSeq(input.bytes, 1, s.at) \o SubSeq(input.bytes, s.at + 1, p)
            = SubSeq(input.bytes, 1, p)
    <3> HIDE DEF p
    <3>1. QED BY <1>2, <1>3, <2>2, JoinedPieces
  <2>4. QED BY <2>1, <2>3
<1>6. out' = SubSeq(input.bytes, 1, p + s.ml)
  <2>1. out' = IF s.ml = 0 THEN o ELSE Copied(o, s.off, s.ml)
    BY DEF ReadSequence
  <2>2. CASE s.ml = 0
    <3> HIDE DEF s, p, o
    <3>1. p + s.ml = p
      BY <1>3, <2>2
    <3>2. QED BY <1>5, <2>1, <2>2, <3>1
  <2>3. CASE s.ml # 0
    <3>1. IsMatch(p, s.off, s.ml)
      BY <1>1, <1>2, <1>3, <2>3 DEF BlockInv, MatchesAgree
    <3> HIDE DEF s, p, o
    <3>2. Copied(SubSeq(input.bytes, 1, p), s.off, s.ml)
              = SubSeq(input.bytes, 1, p + s.ml)
      BY <1>2, <1>3, <1>4, <3>1, CopiedIsText
    <3>3. QED BY <1>5, <2>1, <2>3, <3>2
  <2>4. QED BY <2>2, <2>3
<1>7. out' \in Seq(Byte) /\ Len(out') = p + s.ml
  <2> HIDE DEF s, p
  <2>1. QED BY <1>2, <1>3, <1>4, <1>6
<1>8. BlockTypeOK'
  BY <1>1, <1>2, <1>7 DEF BlockInv, BlockTypeOK, Start, End
<1>9. ReaderInStep'
  <2>1. Begins(read + 1)' = Begins(read + 2)
    BY <1>1, <1>2 DEF Begins
  <2>2. QED BY <1>1, <1>4, <1>6, <1>7, <2>1 DEF ReaderInStep
<1>10. Cost' /\ Covered' /\ MatchesAgree'
  BY <1>1 DEF BlockInv, Cost, Covered, Begins, MatchesAgree, IsMatch, At, Start, End
<1>11. QED BY <1>8, <1>9, <1>10 DEF BlockInv

LEMMA BlockInvInductive ==
    BlockInv /\ [BlockNext]_blockVars => BlockInv'
<1> SUFFICES ASSUME BlockInv, [BlockNext]_blockVars PROVE BlockInv'
  OBVIOUS
<1>1. ASSUME NEW end \in (anchor + MINMATCH)..(End - LASTLITERALS),
             NEW n \in MINMATCH..(end - anchor), Emit(end - n, n)
      PROVE  BlockInv'
  BY <1>1, EmitKeepsInv
<1>2. ASSUME NEW n \in 0..TextLength, LastLiterals(n)
      PROVE  BlockInv'
  BY <1>2, LastLiteralsKeepInv
<1>3. CASE Refuse
  BY <1>3, RefuseKeepsInv
<1>4. CASE ReadSequence
  BY <1>4, ReadSequenceKeepsInv
<1>5. CASE UNCHANGED blockVars
  BY <1>5 DEF blockVars, writer, reader, BlockInv, BlockTypeOK, Cost, Covered, Begins,
              MatchesAgree, IsMatch, At, ReaderInStep, Start, End
<1>6. QED BY <1>1, <1>2, <1>3, <1>4, <1>5 DEF BlockNext
-----------------------------------------------------------------------------
LEMMA BlockInvariant == BlockSpec => []BlockInv
BY BlockInitInv, BlockInvInductive, PTL DEF BlockSpec

(***************************************************************************)
(* The variables of a block keep their types.                              *)
(***************************************************************************)
THEOREM BlockTypeCorrect == BlockSpec => []BlockTypeOK
<1>1. BlockInv => BlockTypeOK
  BY DEF BlockInv
<1>2. QED BY <1>1, BlockInvariant, PTL

(***************************************************************************)
(* A block is no longer than LZ4_COMPRESSBOUND of its text, whatever       *)
(* matches a coder chooses.  The callers size their buffers by it.         *)
(***************************************************************************)
THEOREM NeverAboveBound == BlockSpec => []WithinBound
<1>1. BlockInv => WithinBound
  <2> SUFFICES ASSUME BlockInv, result = "coded"
               PROVE  size <= LZ4_COMPRESSBOUND(TextLength)
    BY DEF WithinBound
  <2>1. /\ size \in Nat /\ anchor \in Start..End /\ Start \in Nat /\ End \in Nat
        /\ 255 * size <= 256 * (anchor - Start) + 510
    BY InputTypes DEF BlockInv, BlockTypeOK, Cost
  <2> DEFINE n == End - Start
  <2>2. n \in Nat /\ 255 * size <= 256 * n + 510
    BY <2>1
  <2> HIDE DEF n
  <2>3. n \div 255 \in Nat /\ n < 255 * (n \div 255) + 255
    BY <2>2
  <2>4. size <= n + (n \div 255) + 16
    BY <2>1, <2>2, <2>3
  <2>5. QED BY <2>4 DEF n, LZ4_COMPRESSBOUND, TextLength
<1>2. QED BY <1>1, BlockInvariant, PTL

(***************************************************************************)
(* Round trip: reading the sequences one after the other gives the text    *)
(* back, for every text and dictionary, also from matches that overlap     *)
(* themselves.                                                             *)
(***************************************************************************)
THEOREM TextComesBack == BlockSpec => []Regenerates
<1>1. BlockInv => Regenerates
  BY DEF BlockInv, ReaderInStep, Regenerates, Begins
<1>2. QED BY <1>1, BlockInvariant, PTL
-----------------------------------------------------------------------------
(***************************************************************************)
(* The coders.  A match that may be written: it begins and ends where the  *)
(* rules of a block allow it, and repeats bytes that the decoder has.      *)
(***************************************************************************)
MatchOK(p, off, n) ==
    /\ p \in Nat /\ n \in Nat /\ n >= MINMATCH
    /\ p <= mflimit /\ p + n <= matchlimit
    /\ off \in 1..DistanceMax
    /\ IsMatch(p, off, n)

GoodMatch(m) == m \in Match /\ MatchOK(m.at, m.off, m.len)

(***************************************************************************)
(* What all coders keep up while they code.  The last match leaves the     *)
(* literals behind it that the end of the block needs, in the text and,    *)
(* if the output is to be filled, in the output.                           *)
(***************************************************************************)
LastMatch == seqs[Len(seqs)].ml

EnoughLeft(left, ml) == left >= 6 /\ left + ml >= 13

EndsWell ==
    seqs # <<>> =>
        /\ LastMatch >= MINMATCH
        /\ anchor - LastMatch <= mflimit /\ anchor <= matchlimit
        /\ input.dir = "fillOutput" => EnoughLeft(input.room - size, LastMatch)

CodingTypeOK ==
    /\ input \in Inputs
    /\ seqs \in Seq(Sequence)
    /\ anchor \in Start..End
    /\ size \in Nat
    /\ result \in {"coding", "coded", "refused"}
    /\ ip \in Start..End

SizeInRoom == limited => size <= input.room

Common ==
    /\ CodingTypeOK
    /\ pc = "returned" <=> result # "coding"
    /\ SizeInRoom
    /\ pc = "call" => seqs = <<>> /\ size = 0 /\ anchor = Start /\ ip = Start
    /\ result = "coding" =>
          /\ EndsWell
          /\ pc # "call" /\ input.dir = "fillOutput" => size < input.room

(***************************************************************************)
(* The fast coder.  What a lookup may return lies before ip; after a match *)
(* that was extended backwards the table may hold positions behind ip, but *)
(* those belong to the match.                                              *)
(***************************************************************************)
FoundAt(i, m) ==
    /\ i \in Nat /\ m \in 0..(i - 1) /\ anchor <= i /\ i <= mflimit
    /\ i - m <= DistanceMax
    /\ SameFour(i, m)

AtSearch ==
    /\ op = size /\ nb >= 64
    /\ ip > Start /\ anchor <= ip /\ ip <= mflimit + 1
    /\ \A t \in table : t < ip

AtFound ==
    /\ op = size /\ filled = ip
    /\ FoundAt(ip, match)
    /\ \A t \in table : t <= ip

AtMatch ==
    /\ op = size + LiteralsSize(ip - anchor)
    /\ FoundAt(ip, match)
    /\ \A t \in table :
          t > ip => /\ t <= filled /\ t <= mflimit
                    /\ IsMatch(ip, ip - match, t + MINMATCH - ip)

AtTest ==
    /\ op = size
    /\ anchor = ip /\ ip >= Start + MINMATCH /\ ip <= mflimit
    /\ \A t \in table : t < ip

FastTyped ==
    /\ table \subseteq (-input.gap)..End
    /\ step \in Nat \ {0} /\ nb \in Nat /\ op \in Nat

FastInv ==
    input.coder = "fast" =>
        /\ pc \in {"call", "search", "found", "match", "test", "last", "returned"}
        /\ FastTyped
        /\ pc = "call" => op = 0 /\ \A t \in table : t <= Start
        /\ pc = "search" => AtSearch
        /\ pc = "found" => AtFound
        /\ pc = "match" => AtMatch
        /\ pc = "test" => AtTest

(***************************************************************************)
(* The hash-chain coder.  Its matches can be written, begin in order, and  *)
(* end later the later they were found; of two that overlap, eight bytes   *)
(* at least are covered, which leaves each of them four.                   *)
(***************************************************************************)
HcInv ==
    input.coder = "hc" =>
        /\ pc \in {"call", "first", "second", "third", "both", "last", "returned"}
        /\ nextToUpdate \in Nat
        /\ pc = "call" => nextToUpdate <= ip
        /\ pc = "first" => anchor <= ip /\ nextToUpdate <= ip
        /\ pc = "second" => /\ GoodMatch(m0) /\ GoodMatch(m1)
                            /\ anchor <= m0.at
                            /\ m0.at <= m1.at /\ m1.at <= m0.at + 2
                            /\ MatchEnd(m0) <= MatchEnd(m1)
                            /\ nextToUpdate <= SecondAt
        /\ pc = "third" => /\ GoodMatch(m1) /\ GoodMatch(m2)
                           /\ anchor <= m1.at /\ m1.at <= m2.at
                           /\ MatchEnd(m1) <= mflimit
                           /\ m2.at <= MatchEnd(m1) + 1
                           /\ MatchEnd(m2) >= m1.at + 8
                           /\ nextToUpdate <= ThirdAt(m2)
        /\ pc = "both" => /\ GoodMatch(m2)
                          /\ anchor <= m2.at
                          /\ nextToUpdate <= MatchEnd(m2)

(***************************************************************************)
(* The optimal coder.  Before the walk back a cell says how its position   *)
(* is reached; the walk back makes it say how the position is left.  The   *)
(* positions on the way that has been chosen are a set that each step      *)
(* stays in until it reaches the last position.                            *)
(***************************************************************************)
Cell == [mlen : Nat, off : Nat, litlen : Nat, price : Int]

StepOK(p, s) == s.mlen = 1 \/ MatchOK(p, s.off, s.mlen)

Reached(p) ==
    /\ opt[p].mlen \in 1..p
    /\ StepOK(ip + p - opt[p].mlen, opt[p])

Way(base, P) ==
    \A q \in P : /\ q \in Nat /\ q < last
                 /\ StepOK(base + q, opt[q])
                 /\ q + opt[q].mlen \in P \/ q + opt[q].mlen >= last

TableOK == opt \in [DOMAIN opt -> Cell] /\ 0..last \subseteq DOMAIN opt

PriceInv ==
    /\ last < OptNum /\ cur \in 1..last
    /\ ip + last <= matchlimit
    /\ nextToUpdate <= ip + cur
    /\ opt \in [0..(last + TRAILING_LITERALS) -> Cell]
    /\ opt[0].mlen = 1
    /\ \A p \in 1..(last + TRAILING_LITERALS) : Reached(p)

BackInv ==
    /\ last < OptNum /\ cur \in 0..(last - 1)
    /\ ip + last <= matchlimit
    /\ nextToUpdate <= ip + last
    /\ TableOK
    /\ opt[0].mlen = 1
    /\ \A p \in 1..cur : Reached(p)
    /\ sel \in [mlen : Nat, off : Nat]
    /\ StepOK(ip + cur, sel)
    /\ \E P \in SUBSET Nat :
          /\ Way(ip, P)
          /\ \A q \in P : q > cur
          /\ cur + sel.mlen \in P \/ cur + sel.mlen >= last

EmitInv ==
    /\ cur \in Nat
    /\ nextToUpdate <= ip - cur + last
    /\ TableOK
    /\ cur < last => /\ ip - cur + last <= matchlimit
                     /\ \E P \in SUBSET Nat : Way(ip - cur, P) /\ cur \in P

OptInv ==
    input.coder = "opt" =>
        /\ pc \in {"call", "opt", "price", "back", "emit", "last", "returned"}
        /\ nextToUpdate \in Nat
        /\ pc = "call" => nextToUpdate <= ip
        /\ pc \in {"opt", "price", "back", "emit"} => anchor <= ip
        /\ pc = "opt" => nextToUpdate <= ip
        /\ pc \in {"price", "back", "emit"} => last \in Nat \ {0}
        /\ pc = "price" => PriceInv
        /\ pc = "back" => BackInv
        /\ pc = "emit" => EmitInv

IInv == Common /\ FastInv /\ HcInv /\ OptInv
-----------------------------------------------------------------------------
(* The constants of an input, and the numbers the coders compare with. *)
LEMMA Limits ==
    ASSUME input \in Inputs
    PROVE  /\ input.bytes \in Seq(Byte)
           /\ Start \in Nat /\ End \in Nat /\ Start <= End
           /\ mflimit = End - 12 /\ matchlimit = End - 5
           /\ input.room \in Nat /\ input.dir \in Directives
           /\ input.mode \in {"prefix", "ext", "ctx"}
           /\ DistanceMax \in Nat \ {0}
BY InputTypes, InputsAssumption, CallsAssumption
   DEF InputsAssumption, CallsAssumption, mflimit, matchlimit, MFLIMIT, LASTLITERALS

LEMMA LimitsStay ==
    ASSUME input' = input
    PROVE  /\ Start' = Start /\ End' = End
           /\ mflimit' = mflimit /\ matchlimit' = matchlimit
           /\ limited' = limited /\ TextLength' = TextLength
BY DEF Start, End, mflimit, matchlimit, limited, TextLength

(* LZ4_count stops at the first difference, or at its limit. *)
LEMMA CountStops ==
    ASSUME NEW i \in Nat, NEW m \in Int, NEW limit \in Nat, i <= limit
    PROVE  /\ Count(i, m, limit) \in 0..(limit - i)
           /\ \/ Count(i, m, limit) = limit - i
              \/ At(i + Count(i, m, limit)) # At(m + Count(i, m, limit))
           /\ \A k \in 0..(Count(i, m, limit) - 1) : At(i + k) = At(m + k)
<1> DEFINE Stop(n) == n = limit - i \/ At(i + n) # At(m + n)
           T == {n \in 0..(limit - i) : Stop(n)}
           Q(n) == Stop(n) /\ \A k \in 0..(n - 1) : At(i + k) = At(m + k)
<1>1. T \subseteq Nat /\ limit - i \in T
  OBVIOUS
<1>2. PICK n \in T : \A y \in T : n <= y
  <2> HIDE DEF T
  <2>1. QED BY <1>1, LeastElement
<1>3. n \in 0..(limit - i) /\ Stop(n)
  OBVIOUS
<1>4. ASSUME NEW k \in 0..(n - 1) PROVE At(i + k) = At(m + k)
  <2>1. k \in 0..(limit - i) /\ ~ (n <= k)
    BY <1>3
  <2>2. k \notin T
    <3> HIDE DEF T
    <3>1. QED BY <1>2, <2>1
  <2>3. QED BY <2>1, <2>2
<1>5. \E x \in 0..(limit - i) : Q(x)
  BY <1>3, <1>4
<1>6. Count(i, m, limit) = CHOOSE x \in 0..(limit - i) : Q(x)
  BY DEF Count
<1>7. Count(i, m, limit) \in 0..(limit - i) /\ Q(Count(i, m, limit))
  <2> HIDE DEF Q
  <2>1. QED BY <1>5, <1>6
<1>8. QED BY <1>7

(* Going backwards stops at the first difference, or at one of the limits. *)
LEMMA CountBackStops ==
    ASSUME NEW i \in Nat, NEW m \in Nat, NEW iMin \in Nat, NEW mMin \in Nat,
           iMin <= i, mMin <= m
    PROVE  /\ CountBack(i, m, iMin, mMin) \in Nat
           /\ CountBack(i, m, iMin, mMin) <= i - iMin
           /\ CountBack(i, m, iMin, mMin) <= m - mMin
           /\ \A k \in 1..CountBack(i, m, iMin, mMin) : At(i - k) = At(m - k)
<1> DEFINE most == IF i - iMin < m - mMin THEN i - iMin ELSE m - mMin
           Stop(n) == n = most \/ At(i - n - 1) # At(m - n - 1)
           T == {n \in 0..most : Stop(n)}
           Q(n) == Stop(n) /\ \A k \in 1..n : At(i - k) = At(m - k)
<1>1. most \in Nat /\ most <= i - iMin /\ most <= m - mMin
  OBVIOUS
<1>2. T \subseteq Nat /\ most \in T
  BY <1>1
<1>3. PICK n \in T : \A y \in T : n <= y
  <2> HIDE DEF T
  <2>1. QED BY <1>2, LeastElement
<1>4. n \in 0..most /\ Stop(n)
  OBVIOUS
<1>5. ASSUME NEW k \in 1..n PROVE At(i - k) = At(m - k)
  <2> HIDE DEF most
  <2>1. k - 1 \in 0..most /\ ~ (n <= k - 1)
    BY <1>1, <1>4
  <2>2. k - 1 \notin T
    <3> HIDE DEF T
    <3>1. QED BY <1>3, <2>1
  <2>3. At(i - (k - 1) - 1) = At(m - (k - 1) - 1)
    BY <2>1, <2>2
  <2>4. i - (k - 1) - 1 = i - k /\ m - (k - 1) - 1 = m - k
    BY <1>4
  <2>5. QED BY <2>3, <2>4
<1>6. \E x \in 0..most : Q(x)
  BY <1>4, <1>5
<1>7. CountBack(i, m, iMin, mMin) = CHOOSE x \in 0..most : Q(x)
  BY DEF CountBack
<1>8. CountBack(i, m, iMin, mMin) \in 0..most /\ Q(CountBack(i, m, iMin, mMin))
  <2> HIDE DEF Q, most
  <2>1. QED BY <1>6, <1>7
<1> HIDE DEF most
<1>9. QED BY <1>1, <1>8

(***************************************************************************)
(* The estimate of WriteLastLiterals is exact, and what LastRun leaves out *)
(* makes the rest fit: the literals are fewer than there are, they fill no *)
(* more than the output, and are enough for the rules about the end.       *)
(***************************************************************************)
LEMMA EstimateExact ==
    ASSUME NEW n \in Nat
    PROVE  ExtraBytes(n) = (n + 240) \div 255
<1>1. CASE n < 15
  BY <1>1 DEF ExtraBytes, RUN_MASK
<1>2. CASE n >= 15
  <2>1. (n - 15) \div 255 \in Int /\ 255 * ((n - 15) \div 255) <= n - 15
        /\ n - 15 < 255 * ((n - 15) \div 255) + 255
    BY <1>2
  <2>2. (n + 240) \div 255 \in Int /\ 255 * ((n + 240) \div 255) <= n + 240
        /\ n + 240 < 255 * ((n + 240) \div 255) + 255
    OBVIOUS
  <2>3. ExtraBytes(n) = ((n - 15) \div 255) + 1
    BY <1>2 DEF ExtraBytes, RUN_MASK
  <2>4. QED BY <2>1, <2>2, <2>3
<1>3. QED BY <1>1, <1>2

LEMMA LastRunFits ==
    ASSUME NEW left \in Nat, left >= 1, NEW run \in Nat,
           1 + ExtraBytes(run) + run > left
    PROVE  /\ LastRun(left) \in Nat /\ LastRun(left) <= run
           /\ LiteralsSize(LastRun(left)) <= left
           /\ left >= 6 => LastRun(left) >= 5
           /\ \A ml \in Nat : left >= 6 /\ left + ml >= 13 => LastRun(left) + ml >= 12
<1> DEFINE q == (left + 240) \div 256
           e == ExtraBytes(run)
           n == LastRun(left)
<1>1. q \in Int /\ 256 * q <= left + 240 /\ left + 240 < 256 * q + 256
  OBVIOUS
<1>2. n = left - 1 - q
  BY DEF LastRun, RUN_MASK
<1>3. e \in Int /\ 255 * e <= run + 240
  BY EstimateExact
<1> HIDE DEF q, e, n
<1>4. n \in Nat
  BY <1>1, <1>2
<1>5. n <= run
  BY <1>1, <1>2, <1>3 DEF e
<1>6. ExtraBytes(n) \in Int /\ 255 * ExtraBytes(n) <= n + 240
  BY <1>4, EstimateExact
<1>7. ExtraBytes(n) <= q
  BY <1>1, <1>2, <1>4, <1>6
<1>8. LiteralsSize(n) <= left
  BY <1>1, <1>2, <1>6, <1>7 DEF LiteralsSize
<1>9. left <= 15 => n = left - 1
  BY <1>1, <1>2
<1>10. left >= 16 => n >= 14
  BY <1>1, <1>2
<1>11. left >= 6 => n >= 5
  BY <1>4, <1>9, <1>10
<1>12. ASSUME NEW ml \in Nat, left >= 6, left + ml >= 13
       PROVE  n + ml >= 12
  BY <1>4, <1>9, <1>10, <1>12
<1>13. QED BY <1>4, <1>5, <1>8, <1>11, <1>12 DEF n
-----------------------------------------------------------------------------
-----------------------------------------------------------------------------
(***************************************************************************)
(* What a step of a coder may do to the block.  A step that leaves it as   *)
(* it is; the call returns 0; a sequence is added; the last literals are.  *)
(* Each is a step of Lz4Block, and keeps what all coders keep up.          *)
(***************************************************************************)
LEMMA IdleStep ==
    ASSUME Common, result = "coding", UNCHANGED <<input, reader>>,
           UNCHANGED <<seqs, anchor, size, result>>,
           pc' \notin {"call", "returned"}, ip' \in Start..End,
           pc = "call" /\ input.dir = "fillOutput" => size < input.room
    PROVE  Common' /\ [BlockNext]_blockVars
<1>1. UNCHANGED blockVars
  BY DEF blockVars, writer, reader
<1>2. /\ input' = input /\ seqs' = seqs /\ anchor' = anchor /\ size' = size
      /\ result' = "coding"
      /\ Start' = Start /\ End' = End /\ mflimit' = mflimit
      /\ matchlimit' = matchlimit /\ limited' = limited
  BY LimitsStay
<1>3. CodingTypeOK'
  BY <1>2 DEF Common, CodingTypeOK
<1>4. SizeInRoom' /\ EndsWell'
  BY <1>2 DEF Common, SizeInRoom, EndsWell, LastMatch
<1>5. input.dir = "fillOutput" => size < input.room
  BY DEF Common
<1>6. Common'
  BY <1>2, <1>3, <1>4, <1>5 DEF Common
<1>7. QED BY <1>1, <1>6

LEMMA GiveUpStep ==
    ASSUME Common, result = "coding", UNCHANGED <<input, reader>>, GiveUp
    PROVE  Common' /\ [BlockNext]_blockVars
<1>1. /\ input' = input /\ seqs' = seqs /\ anchor' = anchor /\ size' = size
      /\ result' = "refused" /\ pc' = "returned" /\ ip' = ip
      /\ Start' = Start /\ End' = End /\ limited' = limited
  BY LimitsStay DEF GiveUp
<1>2. Refuse
  BY <1>1 DEF Refuse
<1>3. CodingTypeOK'
  BY <1>1 DEF Common, CodingTypeOK
<1>4. SizeInRoom'
  BY <1>1 DEF Common, SizeInRoom
<1>5. Common'
  BY <1>1, <1>3, <1>4 DEF Common
<1>6. QED BY <1>2, <1>5 DEF BlockNext

LEMMA SequenceStep ==
    ASSUME Common, result = "coding", UNCHANGED <<input, reader>>,
           UNCHANGED result,
           NEW p, NEW off, NEW n, NEW s, AddSequence(p, off, n, s),
           MatchOK(p, off, n), anchor <= p,
           s = size + SequenceSize(p - anchor, n),
           limited => s <= input.room,
           input.dir = "fillOutput" => EnoughLeft(input.room - s, n),
           pc' \notin {"call", "returned"}, ip' \in Start..End
    PROVE  Common' /\ [BlockNext]_blockVars
<1> DEFINE e == [at |-> anchor, ll |-> p - anchor, off |-> off, ml |-> n]
<1>1. /\ input \in Inputs /\ seqs \in Seq(Sequence)
      /\ anchor \in Start..End /\ size \in Nat
  BY DEF Common, CodingTypeOK
<1>2. /\ Start \in Nat /\ End \in Nat /\ mflimit = End - 12 /\ matchlimit = End - 5
      /\ input.room \in Nat /\ DistanceMax \in Nat
  BY <1>1, Limits
<1>3. /\ input' = input /\ result' = "coding"
      /\ Start' = Start /\ End' = End /\ mflimit' = mflimit
      /\ matchlimit' = matchlimit /\ limited' = limited
  BY LimitsStay
<1>4. /\ p \in Nat /\ n \in Nat /\ n >= 4 /\ p <= End - 12 /\ p + n <= End - 5
      /\ off \in 1..DistanceMax /\ IsMatch(p, off, n)
  BY <1>2 DEF MatchOK, MINMATCH
<1>5. seqs' = Append(seqs, e) /\ anchor' = p + n /\ size' = s
  BY DEF AddSequence
<1>6. e \in Sequence
  <2>1. off \in Nat /\ p - anchor \in Nat /\ anchor \in Nat
    BY <1>1, <1>2, <1>4
  <2>2. QED BY <1>4, <2>1 DEF Sequence
<1>7. Emit(p, n)
  <2>1. /\ p \in anchor..(End - MFLIMIT)
        /\ n \in MINMATCH..(End - LASTLITERALS - p)
    BY <1>1, <1>2, <1>4 DEF MFLIMIT, MINMATCH, LASTLITERALS
  <2>2. QED BY <1>4, <1>5, <2>1 DEF Emit
<1>8. BlockNext
  <2>1. /\ p + n \in (anchor + MINMATCH)..(End - LASTLITERALS)
        /\ n \in MINMATCH..((p + n) - anchor)
        /\ (p + n) - n = p
    BY <1>1, <1>2, <1>4 DEF MINMATCH, LASTLITERALS
  <2>2. Emit((p + n) - n, n)
    BY <1>7, <2>1
  <2>3. QED BY <1>5, <2>1, <2>2 DEF BlockNext
<1>9. /\ seqs' \in Seq(Sequence) /\ Len(seqs') = Len(seqs) + 1
      /\ seqs'[Len(seqs')] = e
  <2> HIDE DEF e
  <2>1. QED BY <1>1, <1>5, <1>6
<1>10. seqs'[Len(seqs')].ml = n
  BY <1>9
<1>11. SequenceSize(p - anchor, n) \in Nat
  <2>1. p - anchor \in Nat /\ n - 4 \in Nat
    BY <1>1, <1>2, <1>4
  <2>2. QED BY <2>1, ExtraBytesBounded DEF SequenceSize, LiteralsSize, MINMATCH
<1>12. CodingTypeOK'
  <2>1. anchor' \in Start..End
    BY <1>1, <1>2, <1>4, <1>5
  <2>2. size' \in Nat
    BY <1>1, <1>5, <1>11
  <2>3. QED BY <1>1, <1>3, <1>9, <2>1, <2>2 DEF CodingTypeOK
<1>13. SizeInRoom'
  BY <1>3, <1>5 DEF SizeInRoom
<1>14. EndsWell'
  <2>1. n >= MINMATCH /\ anchor' - n <= mflimit /\ anchor' <= matchlimit
    BY <1>2, <1>4, <1>5 DEF MINMATCH
  <2>2. input'.dir = "fillOutput" => EnoughLeft(input'.room - size', n)
    BY <1>3, <1>5
  <2>3. QED BY <1>3, <1>10, <2>1, <2>2 DEF EndsWell, LastMatch, EnoughLeft
<1>15. input'.dir = "fillOutput" => size' < input'.room
  BY <1>1, <1>2, <1>3, <1>5, <1>11 DEF EnoughLeft
<1>16. Common'
  BY <1>3, <1>12, <1>13, <1>14, <1>15 DEF Common
<1>17. QED BY <1>8, <1>16

(* The last literals, as many as n, if they follow the rules and fit. *)
LEMMA EndBlockStep ==
    ASSUME Common, result = "coding", UNCHANGED <<input, reader>>,
           NEW n \in Nat, EndBlock(n),
           anchor + n <= End, EndOfBlockRules(n),
           limited => size + LiteralsSize(n) <= input.room
    PROVE  Common' /\ [BlockNext]_blockVars
<1> DEFINE e == [at |-> anchor, ll |-> n, off |-> 0, ml |-> 0]
<1>1. /\ input \in Inputs /\ seqs \in Seq(Sequence)
      /\ anchor \in Start..End /\ size \in Nat /\ Start \in Nat /\ End \in Nat
  BY Limits DEF Common, CodingTypeOK
<1>2. /\ input' = input /\ Start' = Start /\ End' = End /\ limited' = limited
  BY LimitsStay
<1>3. /\ seqs' = Append(seqs, e) /\ anchor' = anchor + n
      /\ size' = size + LiteralsSize(n) /\ result' = "coded"
      /\ pc' = "returned" /\ ip' = anchor + n
  BY DEF EndBlock
<1>4. LastLiterals(n)
  BY <1>3 DEF LastLiterals
<1>5. BlockNext
  <2>1. n \in 0..TextLength
    BY <1>1 DEF TextLength
  <2>2. QED BY <1>4, <2>1 DEF BlockNext
<1>6. seqs' \in Seq(Sequence)
  <2>1. e \in Sequence
    BY <1>1 DEF Sequence
  <2> HIDE DEF e
  <2>2. QED BY <1>1, <1>3, <2>1
<1>7. anchor' \in Start..End /\ ip' \in Start..End
  BY <1>1, <1>3
<1>8. size' \in Nat
  <2>1. LiteralsSize(n) \in Nat
    BY ExtraBytesBounded DEF LiteralsSize
  <2>2. QED BY <1>1, <1>3, <2>1
<1>9. CodingTypeOK'
  BY <1>1, <1>2, <1>3, <1>6, <1>7, <1>8 DEF CodingTypeOK
<1>10. SizeInRoom'
  BY <1>2, <1>3 DEF SizeInRoom
<1>11. Common'
  BY <1>2, <1>3, <1>9, <1>10 DEF Common
<1>12. QED BY <1>5, <1>11

LEMMA LastLiteralsStep ==
    ASSUME Common, UNCHANGED <<input, reader>>, WriteLastLiterals
    PROVE  /\ Common' /\ [BlockNext]_blockVars
           /\ pc' = "returned"
<1> DEFINE run  == End - anchor
           left == input.room - size
<1>1. /\ pc = "last" /\ result = "coding"
  BY DEF WriteLastLiterals, Common
<1>2. /\ input \in Inputs /\ seqs \in Seq(Sequence)
      /\ anchor \in Start..End /\ size \in Nat /\ Start \in Nat /\ End \in Nat
      /\ mflimit = End - 12 /\ matchlimit = End - 5
      /\ input.room \in Nat /\ input.dir \in Directives
  BY Limits DEF Common, CodingTypeOK
<1>3. run \in Nat /\ left \in Int /\ anchor + run = End
  BY <1>2
<1>4. run + 255 - RUN_MASK = run + 240
  BY <1>3 DEF RUN_MASK
<1>5. ExtraBytes(run) \in Nat /\ (run + 255 - RUN_MASK) \div 255 = ExtraBytes(run)
  BY <1>3, <1>4, EstimateExact, ExtraBytesBounded
<1>6. seqs # <<>> => LastMatch \in Nat
  <2>1. ASSUME seqs # <<>> PROVE seqs[Len(seqs)] \in Sequence
    BY <1>2, <2>1
  <2>2. QED BY <2>1 DEF LastMatch, Sequence
<1>7. CASE GiveUp
  BY <1>1, <1>7, GiveUpStep DEF GiveUp
<1>8. CASE /\ EndBlock(run)
           /\ limited => size + 1 + ExtraBytes(run) + run <= input.room
  <2>1. EndOfBlockRules(run)
    <3>1. EndsWell
      BY <1>1 DEF Common
    <3>2. ASSUME seqs # <<>>
          PROVE  run >= LASTLITERALS /\ LastMatch + run >= MFLIMIT
      <4>1. anchor - LastMatch <= End - 12 /\ anchor <= End - 5 /\ LastMatch >= 4
        BY <1>2, <3>1, <3>2 DEF EndsWell, MINMATCH
      <4>2. QED BY <1>2, <1>6, <3>2, <4>1 DEF LASTLITERALS, MFLIMIT, MINMATCH
    <3>3. QED BY <3>2 DEF EndOfBlockRules, LastMatch
  <2>2. limited => size + LiteralsSize(run) <= input.room
    BY <1>2, <1>3, <1>5, <1>8 DEF LiteralsSize
  <2>3. anchor + run <= End
    BY <1>2
  <2> HIDE DEF run
  <2>4. QED BY <1>1, <1>3, <1>8, <2>1, <2>2, <2>3, EndBlockStep DEF EndBlock
<1>9. CASE /\ input.dir = "fillOutput" /\ EndBlock(LastRun(left))
           /\ size + 1 + ExtraBytes(run) + run > input.room
  <2> DEFINE n == LastRun(left)
  <2>1. left \in Nat /\ left >= 1 /\ 1 + ExtraBytes(run) + run > left
    BY <1>1, <1>2, <1>3, <1>5, <1>9 DEF Common
  <2> HIDE DEF run, left
  <2>2. /\ n \in Nat /\ n <= run /\ LiteralsSize(n) <= left
        /\ left >= 6 => n >= 5
        /\ \A ml \in Nat : left >= 6 /\ left + ml >= 13 => n + ml >= 12
    BY <1>3, <2>1, LastRunFits
  <2> HIDE DEF n
  <2>3. EndOfBlockRules(n)
    <3>1. SUFFICES ASSUME seqs # <<>>
                   PROVE  n >= 5 /\ LastMatch + n >= 12
      BY DEF EndOfBlockRules, LastMatch, LASTLITERALS, MFLIMIT
    <3>2. EnoughLeft(left, LastMatch)
      BY <1>1, <1>9, <3>1 DEF Common, EndsWell, left
    <3>3. LastMatch \in Nat
      BY <1>6, <3>1
    <3>4. n + LastMatch >= 12 /\ n >= 5
      BY <2>1, <2>2, <3>2, <3>3 DEF EnoughLeft
    <3>5. QED BY <2>2, <3>3, <3>4
  <2>4. anchor + n <= End
    BY <1>2, <1>3, <2>2
  <2>5. size + LiteralsSize(n) <= input.room
    <3>1. LiteralsSize(n) \in Nat
      BY <2>2, ExtraBytesBounded DEF LiteralsSize
    <3>2. QED BY <1>2, <2>1, <2>2, <3>1 DEF left
  <2>6. EndBlock(n)
    BY <1>9 DEF n
  <2>7. QED BY <1>1, <2>2, <2>3, <2>4, <2>5, <2>6, EndBlockStep DEF EndBlock
<1>10. QED
  <2>1. ~ (limited /\ size + 1 + ExtraBytes(run) + run > input.room) =>
           (limited => size + 1 + ExtraBytes(run) + run <= input.room)
    <3> HIDE DEF run
    <3>1. QED BY <1>2, <1>3, <1>5
  <2>2. \/ GiveUp
        \/ /\ EndBlock(run)
           /\ ~ (limited /\ size + 1 + ExtraBytes(run) + run > input.room)
        \/ /\ input.dir = "fillOutput" /\ EndBlock(LastRun(left))
           /\ size + 1 + ExtraBytes(run) + run > input.room
    BY <1>5 DEF WriteLastLiterals
  <2> HIDE DEF run, left
  <2>3. QED BY <1>7, <1>8, <1>9, <2>1, <2>2

(* A call that may not even write the token, and one that begins. *)
LEMMA CallFailsStep ==
    ASSUME Common, UNCHANGED <<input, reader>>, CallFails
    PROVE  Common' /\ [BlockNext]_blockVars /\ pc' = "returned"
BY GiveUpStep DEF CallFails, GiveUp, Common

LEMMA BeginCallStep ==
    ASSUME Common, UNCHANGED <<input, reader>>, NEW least, NEW first,
           BeginCall(least, first),
           first \notin {"call", "returned"}, ip' \in Start..End
    PROVE  Common' /\ [BlockNext]_blockVars
<1>1. /\ pc = "call" /\ result = "coding" /\ size = 0 /\ input.room \in Nat
  BY Limits DEF BeginCall, Common, CodingTypeOK
<1>2. pc' \notin {"call", "returned"}
  BY DEF BeginCall
<1>3. input.dir = "fillOutput" => size < input.room
  BY <1>1 DEF BeginCall, limited
<1>4. UNCHANGED <<seqs, anchor, size, result>>
  BY DEF BeginCall
<1>5. QED BY <1>1, <1>2, <1>3, <1>4, IdleStep

-----------------------------------------------------------------------------
(* Four equal bytes are a match, and equal bytes behind a match extend it. *)
LEMMA SameFourMatches ==
    ASSUME NEW i \in Nat, NEW m \in 0..(i - 1), SameFour(i, m)
    PROVE  IsMatch(i, i - m, 4)
<1>1. i - m \in 1..i
  OBVIOUS
<1>2. ASSUME NEW k \in i..(i + 4 - 1) PROVE At(k) = At(k - (i - m))
  <2>1. k - i \in 0..3 /\ i + (k - i) = k /\ m + (k - i) = k - (i - m)
    OBVIOUS
  <2>2. At(i + (k - i)) = At(m + (k - i))
    BY <2>1 DEF SameFour
  <2>3. QED BY <2>1, <2>2
<1>3. QED BY <1>1, <1>2 DEF IsMatch

LEMMA MatchExtends ==
    ASSUME NEW p \in Nat, NEW off \in Nat, NEW n \in Nat, NEW c \in Nat,
           IsMatch(p, off, n),
           \A k \in 0..(c - 1) : At(p + n + k) = At(p - off + n + k)
    PROVE  IsMatch(p, off, n + c)
<1>1. ASSUME NEW k \in p..(p + (n + c) - 1) PROVE At(k) = At(k - off)
  <2>1. CASE k <= p + n - 1
    BY <2>1 DEF IsMatch
  <2>2. CASE k >= p + n
    <3>1. /\ k - p - n \in 0..(c - 1)
          /\ p + n + (k - p - n) = k
          /\ p - off + n + (k - p - n) = k - off
      BY <2>2
    <3>2. At(p + n + (k - p - n)) = At(p - off + n + (k - p - n))
      BY <3>1
    <3>3. QED BY <3>1, <3>2
  <2>3. QED BY <2>1, <2>2
<1>2. QED BY <1>1 DEF IsMatch

LEMMA MatchShortens ==
    ASSUME NEW p \in Nat, NEW off \in Nat, NEW n \in Nat, NEW c \in Nat,
           c <= n, IsMatch(p, off, n)
    PROVE  IsMatch(p, off, c)
BY DEF IsMatch

(* The four equal bytes that were found, with those before them. *)
LEMMA MatchBackwards ==
    ASSUME NEW i \in Nat, NEW m \in 0..(i - 1), SameFour(i, m),
           NEW b \in Nat, b <= m,
           \A k \in 1..b : At(i - k) = At(m - k)
    PROVE  IsMatch(i - b, i - m, 4 + b)
<1>1. i - b \in Nat /\ i - m \in 1..(i - b)
  OBVIOUS
<1>2. ASSUME NEW k \in (i - b)..((i - b) + (4 + b) - 1)
      PROVE  At(k) = At(k - (i - m))
  <2>1. CASE k < i
    <3>1. i - k \in 1..b /\ i - (i - k) = k /\ m - (i - k) = k - (i - m)
      BY <2>1
    <3>2. At(i - (i - k)) = At(m - (i - k))
      BY <3>1
    <3>3. QED BY <3>1, <3>2
  <2>2. CASE k >= i
    <3>1. k - i \in 0..3 /\ i + (k - i) = k /\ m + (k - i) = k - (i - m)
      BY <2>2
    <3>2. At(i + (k - i)) = At(m + (k - i))
      BY <3>1 DEF SameFour
    <3>3. QED BY <3>1, <3>2
  <2>3. QED BY <2>1, <2>2
<1>3. QED BY <1>1, <1>2 DEF IsMatch

(***************************************************************************)
(* No lookup that passes lies before the dictionary: the table of another  *)
(* stream is too far back there, and so is an earlier block unless the     *)
(* dictionary is small, which dictIssue says.                              *)
(***************************************************************************)
LEMMA PassedInside ==
    ASSUME input \in Inputs, input.coder = "fast",
           NEW t \in SUBSET ((-input.gap)..End), \A x \in t : x < ip,
           ip \in Nat, ip > Start,
           NEW m \in Candidates(t), Passed(m, ip)
    PROVE  /\ m \in 0..(ip - 1) /\ ip - m <= DistanceMax
<1>1. /\ Start \in Nat /\ End \in Nat /\ DistanceMax \in Nat \ {0}
      /\ input.mode \in {"prefix", "ext", "ctx"}
      /\ input.gap \in Nat /\ DictMax \in Nat /\ DictMax > DistanceMax
  BY Limits, FastAssumption DEF FastAssumption
<1>2. m + DistanceMax >= ip /\ ~ (dictIssue /\ m < 0)
  <2>1. m \in Int
    BY <1>1 DEF Candidates, LoadedTable, HASH_UNIT
  <2>2. QED BY <1>1, <2>1 DEF Passed, TooFar
<1>3. m \in Int /\ m < ip
  BY <1>1 DEF Candidates, LoadedTable, HASH_UNIT
<1>4. m >= 0
  <2>1. CASE input.mode = "ctx"
    BY <1>1, <1>2, <1>3, <2>1 DEF Candidates, LoadedTable, HASH_UNIT
  <2>2. CASE input.mode # "ctx"
    <3>1. m \in t /\ m >= -input.gap
      BY <1>1, <2>2 DEF Candidates
    <3>2. CASE input.gap = 0
      BY <1>1, <1>3, <3>1, <3>2
    <3>3. CASE Start >= DictMax
      BY <1>1, <1>2, <1>3, <3>3
    <3>4. CASE dictIssue
      BY <1>2, <1>3, <3>4
    <3>5. QED BY <1>1, <2>2, <3>2, <3>3, <3>4 DEF dictIssue
  <2>3. QED BY <2>1, <2>2
<1>5. QED BY <1>1, <1>2, <1>3, <1>4
-----------------------------------------------------------------------------
-----------------------------------------------------------------------------
(***************************************************************************)
(* The steps of the fast coder, one by one: each keeps FastInv and is a    *)
(* step of Lz4Block.                                                       *)
(***************************************************************************)
LEMMA FastBasics ==
    ASSUME Common, FastInv, input.coder = "fast", input' = input
    PROVE  /\ input \in Inputs /\ Start \in Nat /\ End \in Nat /\ Start <= End
           /\ mflimit = End - 12 /\ matchlimit = End - 5
           /\ input.room \in Nat /\ input.gap \in Nat /\ input.accel \in Nat \ {0}
           /\ input.dir \in Directives /\ DistanceMax \in Nat \ {0}
           /\ anchor \in Start..End /\ ip \in Start..End /\ size \in Nat
           /\ FastTyped
           /\ Start' = Start /\ End' = End /\ mflimit' = mflimit
           /\ pc # "returned" => result = "coding"
<1>1. input \in Inputs
  BY DEF Common, CodingTypeOK
<1>2. QED BY <1>1, Limits, LimitsStay, FastAssumption
             DEF Common, CodingTypeOK, FastInv, FastAssumption

LEMMA FastBeginStep ==
    ASSUME Common, FastInv, input.coder = "fast", UNCHANGED <<input, reader>>,
           FastBegin
    PROVE  Common' /\ FastInv' /\ [BlockNext]_blockVars
<1>1. /\ pc = "call" /\ input' = input /\ op' = 0 /\ size' = 0
      /\ anchor = Start /\ ip = Start /\ anchor' = Start
      /\ \A t \in table : t <= Start
  BY DEF FastBegin, BeginCall, Common, FastInv
<1>2. /\ Start \in Nat /\ End \in Nat /\ Start <= End /\ mflimit = End - 12
      /\ input.gap \in Nat /\ input.accel \in Nat \ {0} /\ FastTyped
      /\ Start' = Start /\ End' = End /\ mflimit' = mflimit
  BY <1>1, FastBasics
<1>3. step' = 1 /\ nb' = input.accel * 64
  BY DEF FastBegin, RestartSearch
<1>4. nb' \in Nat /\ nb' >= 64
  <2>1. input.accel \in Nat /\ input.accel >= 1
    BY <1>2
  <2>2. input.accel * 64 \in Nat /\ input.accel * 64 >= 64
    BY <2>1
  <2>3. QED BY <1>3, <2>2
<1>5. CASE TextLength <= MFLIMIT
  <2>1. pc' = "last" /\ ip' = Start /\ table' = table
    BY <1>1, <1>2, <1>5 DEF FastBegin, BeginCall, LZ4_minLength, MFLIMIT, TextLength
  <2>2. Common' /\ [BlockNext]_blockVars
    <3>1. ip' \in Start..End /\ BeginCall(LZ4_minLength, "search")
      BY <1>2, <2>1 DEF FastBegin
    <3>2. QED BY <3>1, BeginCallStep
  <2>3. FastTyped'
    BY <1>1, <1>2, <1>3, <1>4, <2>1 DEF FastTyped
  <2>4. FastInv'
    BY <2>1, <2>3 DEF FastInv
  <2>5. QED BY <2>2, <2>4
<1>6. CASE TextLength > MFLIMIT
  <2>1. Start <= End - 13
    BY <1>2, <1>6 DEF TextLength, MFLIMIT
  <2>2. ~ (TextLength <= MFLIMIT)
    BY <1>2, <1>6 DEF TextLength, MFLIMIT
  <2>3. pc' = "search" /\ ip' = Start + 1 /\ table' = table \cup {Start}
    BY <1>1, <1>2, <2>2 DEF FastBegin, BeginCall, LZ4_minLength, MFLIMIT, TextLength
  <2>4. Common' /\ [BlockNext]_blockVars
    <3>1. ip' \in Start..End /\ BeginCall(LZ4_minLength, "search")
      BY <1>2, <2>1, <2>3 DEF FastBegin
    <3>2. QED BY <3>1, BeginCallStep
  <2>5. FastTyped'
    BY <1>1, <1>2, <1>3, <1>4, <2>3 DEF FastTyped
  <2>6. AtSearch'
    <3>1. \A t \in table' : t < ip'
      BY <1>1, <1>2, <2>3 DEF FastTyped
    <3>2. QED BY <1>1, <1>2, <1>4, <2>1, <2>3, <3>1 DEF AtSearch
  <2>7. FastInv'
    BY <2>3, <2>5, <2>6 DEF FastInv
  <2>8. QED BY <2>4, <2>7
<1>7. TextLength \in Int /\ MFLIMIT \in Int
  BY <1>2 DEF TextLength, MFLIMIT
<1>8. QED BY <1>5, <1>6, <1>7

LEMMA SearchEndsStep ==
    ASSUME Common, FastInv, input.coder = "fast", UNCHANGED <<input, reader>>,
           SearchEnds
    PROVE  Common' /\ FastInv' /\ [BlockNext]_blockVars
<1>1. /\ pc = "search" /\ pc' = "last" /\ input' = input /\ ip' = ip
      /\ UNCHANGED <<seqs, anchor, size, result>>
      /\ table' = table /\ step' = step /\ nb' = nb /\ op' = op
  BY DEF SearchEnds, fastVars
<1>2. /\ ip \in Start..End /\ FastTyped /\ End' = End /\ result = "coding"
  BY <1>1, FastBasics
<1>3. Common' /\ [BlockNext]_blockVars
  BY <1>1, <1>2, IdleStep
<1>4. FastTyped'
  BY <1>1, <1>2 DEF FastTyped
<1>5. FastInv'
  BY <1>1, <1>4 DEF FastInv
<1>6. QED BY <1>3, <1>5

LEMMA SearchMissesStep ==
    ASSUME Common, FastInv, input.coder = "fast", UNCHANGED <<input, reader>>,
           SearchMisses
    PROVE  Common' /\ FastInv' /\ [BlockNext]_blockVars
<1>1. /\ pc = "search" /\ pc' = "search" /\ input' = input
      /\ ip' = ip + step /\ ip + step <= mflimit + 1
      /\ UNCHANGED <<seqs, anchor, size, result>>
      /\ table' = table \cup {ip}
      /\ step' = Shifted(nb) /\ nb' = nb + 1 /\ op' = op
  BY DEF SearchMisses, NextPosition
<1>2. /\ ip \in Start..End /\ FastTyped /\ End' = End /\ Start' = Start
      /\ mflimit' = mflimit /\ mflimit = End - 12 /\ result = "coding"
      /\ Start \in Nat /\ End \in Nat /\ anchor \in Start..End /\ input.gap \in Nat
  BY <1>1, FastBasics
<1>3. AtSearch
  BY <1>1 DEF FastInv
<1>4. ip' \in Start..End
  BY <1>1, <1>2 DEF FastTyped
<1>5. Common' /\ [BlockNext]_blockVars
  BY <1>1, <1>2, <1>4, IdleStep
<1>6. step' \in Nat \ {0} /\ nb' \in Nat /\ nb' >= 64
  <2>1. nb \in Nat /\ nb >= 64
    BY <1>2, <1>3 DEF FastTyped, AtSearch
  <2>2. nb \div 64 \in Nat /\ nb \div 64 >= 1
    BY <2>1
  <2>3. QED BY <1>1, <2>1, <2>2 DEF Shifted
<1>7. FastTyped'
  BY <1>1, <1>2, <1>6 DEF FastTyped
<1>8. AtSearch'
  <2>1. step \in Nat \ {0} /\ table \subseteq (-input.gap)..End
    BY <1>2 DEF FastTyped
  <2>2. \A t \in table' : t < ip'
    BY <1>1, <1>2, <1>3, <2>1 DEF AtSearch
  <2>3. QED BY <1>1, <1>2, <1>3, <1>6, <2>1, <2>2 DEF AtSearch
<1>9. FastInv'
  BY <1>1, <1>7, <1>8 DEF FastInv
<1>10. QED BY <1>5, <1>9

(* What a lookup has returned is where it was, after the step too. *)
LEMMA FoundStays ==
    ASSUME input' = input, NEW i, NEW m, FoundAt(i, m),
           anchor' = anchor, ip' = i, match' = m
    PROVE  FoundAt(ip, match)'
BY LimitsStay DEF FoundAt, SameFour, At

LEMMA SearchHitsStep ==
    ASSUME Common, FastInv, input.coder = "fast", UNCHANGED <<input, reader>>,
           SearchHits
    PROVE  Common' /\ FastInv' /\ [BlockNext]_blockVars
<1>1. /\ pc = "search" /\ input' = input
      /\ ip' = ip /\ ip + step <= mflimit + 1
      /\ UNCHANGED <<seqs, anchor, size, result>>
      /\ table' = table \cup {ip} /\ filled' = ip
      /\ step' = step /\ nb' = nb /\ op' = op
      /\ match' \in Candidates(table) /\ Hit(match')
      /\ pc' = IF match' < 0 THEN "outside" ELSE "found"
  BY DEF SearchHits, NextPosition
<1>2. /\ ip \in Start..End /\ FastTyped /\ End' = End /\ Start' = Start
      /\ mflimit' = mflimit /\ mflimit = End - 12 /\ result = "coding"
      /\ Start \in Nat /\ End \in Nat /\ anchor \in Start..End /\ input.gap \in Nat
      /\ input \in Inputs
  BY <1>1, FastBasics
<1>3. AtSearch
  BY <1>1 DEF FastInv
<1>4. match' \in 0..(ip - 1) /\ ip - match' <= DistanceMax
  <2>1. /\ table \in SUBSET ((-input.gap)..End) /\ \A x \in table : x < ip
        /\ ip \in Nat /\ ip > Start /\ Passed(match', ip)
    BY <1>1, <1>2, <1>3 DEF AtSearch, FastTyped, Hit
  <2>2. QED BY <1>1, <1>2, <2>1, PassedInside
<1>5. pc' = "found" /\ SameFour(ip, match')
  BY <1>1, <1>2, <1>4 DEF Hit
<1>6. FoundAt(ip, match')
  BY <1>1, <1>2, <1>3, <1>4, <1>5 DEF FoundAt, AtSearch, FastTyped
<1>7. Common' /\ [BlockNext]_blockVars
  BY <1>1, <1>2, <1>5, IdleStep
<1>8. FastTyped'
  BY <1>1, <1>2 DEF FastTyped
<1>9. AtFound'
  <2>1. FoundAt(ip, match)'
    BY <1>1, <1>6, FoundStays
  <2>2. \A t \in table' : t <= ip'
    BY <1>1, <1>2, <1>3 DEF AtSearch, FastTyped
  <2>3. QED BY <1>1, <1>3, <2>1, <2>2 DEF AtFound, AtSearch
<1>10. FastInv'
  BY <1>1, <1>5, <1>8, <1>9 DEF FastInv
<1>11. QED BY <1>7, <1>10

LEMMA EncodeLiteralsStep ==
    ASSUME Common, FastInv, input.coder = "fast", UNCHANGED <<input, reader>>,
           EncodeLiterals
    PROVE  Common' /\ FastInv' /\ [BlockNext]_blockVars
<1> DEFINE b  == CountBack(ip, match, anchor, LowLimit(match))
           ll == ip - b - anchor
<1>1. /\ pc = "found" /\ input' = input
      /\ \/ GiveUp /\ UNCHANGED fastVars
         \/ pc' = "last" /\ UNCHANGED <<seqs, anchor, size, result, ip, fastVars>>
         \/ /\ ip' = ip - b /\ match' = match - b
            /\ op' = op + LiteralsSize(ll)
            /\ pc' = "match"
            /\ UNCHANGED <<seqs, anchor, size, result, filled, step, nb, table>>
  BY DEF EncodeLiterals
<1>2. /\ ip \in Start..End /\ FastTyped /\ End' = End /\ Start' = Start
      /\ mflimit' = mflimit /\ mflimit = End - 12 /\ result = "coding"
      /\ Start \in Nat /\ End \in Nat /\ anchor \in Start..End /\ input.gap \in Nat
      /\ input \in Inputs /\ DistanceMax \in Nat
  BY <1>1, FastBasics
<1>3. AtFound
  BY <1>1 DEF FastInv
<1>4. CASE GiveUp /\ UNCHANGED fastVars
  <2>1. pc' = "returned" /\ table' = table /\ step' = step /\ nb' = nb /\ op' = op
    BY <1>4 DEF GiveUp, fastVars
  <2>2. FastTyped'
    BY <1>1, <1>2, <2>1 DEF FastTyped
  <2>3. FastInv'
    BY <1>1, <2>1, <2>2 DEF FastInv
  <2>4. QED BY <1>1, <1>2, <1>4, <2>3, GiveUpStep
<1>5. CASE pc' = "last" /\ UNCHANGED <<seqs, anchor, size, result, ip, fastVars>>
  <2>1. table' = table /\ step' = step /\ nb' = nb /\ op' = op
    BY <1>5 DEF fastVars
  <2>2. FastTyped'
    BY <1>1, <1>2, <2>1 DEF FastTyped
  <2>3. FastInv'
    BY <1>1, <1>5, <2>2 DEF FastInv
  <2>4. Common' /\ [BlockNext]_blockVars
    BY <1>1, <1>2, <1>5, IdleStep
  <2>5. QED BY <2>3, <2>4
<1>6. CASE /\ ip' = ip - b /\ match' = match - b
           /\ op' = op + LiteralsSize(ll)
           /\ pc' = "match"
           /\ UNCHANGED <<seqs, anchor, size, result, filled, step, nb, table>>
  <2>1. /\ ip \in Nat /\ match \in 0..(ip - 1) /\ anchor <= ip /\ ip <= mflimit
        /\ ip - match <= DistanceMax /\ SameFour(ip, match)
        /\ op = size /\ filled = ip /\ \A t \in table : t <= ip
    BY <1>3 DEF AtFound, FoundAt
  <2>2. LowLimit(match) \in Nat /\ LowLimit(match) <= match
    BY <1>2, <2>1 DEF LowLimit
  <2>3. /\ b \in Nat /\ b <= ip - anchor /\ b <= match
        /\ \A k \in 1..b : At(ip - k) = At(match - k)
    <3>1. /\ ip \in Nat /\ match \in Nat /\ anchor \in Nat /\ LowLimit(match) \in Nat
          /\ anchor <= ip /\ LowLimit(match) <= match
      BY <1>2, <2>1, <2>2
    <3>2. b \in Nat /\ b <= ip - anchor /\ b <= match - LowLimit(match)
      BY <3>1, CountBackStops
    <3>3. \A k \in 1..b : At(ip - k) = At(match - k)
      BY <3>1, CountBackStops
    <3> HIDE DEF b
    <3>4. QED BY <2>1, <2>2, <3>1, <3>2, <3>3
  <2> HIDE DEF b
  <2> DEFINE i == ip - b
             m == match - b
  <2>4. /\ i \in Nat /\ m \in 0..(i - 1) /\ anchor <= i /\ i <= mflimit
        /\ i - m = ip - match /\ i <= ip
    BY <1>2, <2>1, <2>3
  <2>5. IsMatch(i, ip - match, 4 + b)
    BY <2>1, <2>3, MatchBackwards
  <2>6. FoundAt(i, m)
    <3>1. ASSUME NEW k \in 0..3 PROVE At(i + k) = At(m + k)
      <4>1. i + k \in i..(i + (4 + b) - 1) /\ (i + k) - (ip - match) = m + k
        BY <2>1, <2>3, <2>4
      <4> HIDE DEF i, m
      <4>2. QED BY <2>5, <4>1 DEF IsMatch
    <3> HIDE DEF i, m
    <3>2. QED BY <2>1, <2>4, <3>1 DEF FoundAt, SameFour
  <2>7. Common' /\ [BlockNext]_blockVars
    <3>1. ip' \in Start..End
      BY <1>2, <1>6, <2>3, <2>4
    <3>2. QED BY <1>1, <1>2, <1>6, <3>1, IdleStep
  <2>8. ll \in Nat /\ LiteralsSize(ll) \in Nat
    <3>1. ll \in Nat
      BY <1>2, <2>1, <2>3
    <3>2. QED BY <3>1, ExtraBytesBounded DEF LiteralsSize
  <2>9. FastTyped'
    BY <1>1, <1>2, <1>6, <2>8 DEF FastTyped
  <2>10. AtMatch'
    <3>1. FoundAt(ip, match)'
      BY <1>1, <1>6, <2>6, FoundStays
    <3>2. op' = size' + LiteralsSize(ip - anchor)'
      BY <1>6, <2>1 DEF LiteralsSize, ExtraBytes
    <3>3. ASSUME NEW t \in table', t > ip'
          PROVE  /\ t <= filled' /\ t <= mflimit'
                 /\ IsMatch(ip, ip - match, t + MINMATCH - ip)'
      <4>1. t \in Int /\ t <= ip /\ t > i /\ ip <= mflimit
        BY <1>2, <1>6, <2>1, <3>3 DEF FastTyped
      <4>2. IsMatch(i, ip - match, t + 4 - i)
        <5>1. ip - match \in Nat /\ t + 4 - i \in Nat /\ t + 4 - i <= 4 + b
          BY <2>1, <2>3, <2>4, <4>1
        <5> HIDE DEF i
        <5>2. QED BY <2>3, <2>4, <2>5, <5>1, MatchShortens
      <4>3. ip' - match' = ip - match
        BY <1>6, <2>4
      <4>4. IsMatch(ip, ip - match, t + MINMATCH - ip)'
        <5>1. ip' = i /\ input' = input
          BY <1>1, <1>6
        <5> HIDE DEF i
        <5>2. QED BY <4>2, <4>3, <5>1 DEF IsMatch, At, MINMATCH
      <4>5. QED BY <1>2, <1>6, <2>1, <4>1, <4>4
    <3>4. QED BY <3>1, <3>2, <3>3 DEF AtMatch
  <2>11. FastInv'
    BY <1>1, <1>6, <2>9, <2>10 DEF FastInv
  <2>12. QED BY <2>7, <2>11
<1>7. QED BY <1>1, <1>4, <1>5, <1>6

LEMMA RewindsStep ==
    ASSUME Common, FastInv, input.coder = "fast", UNCHANGED <<input, reader>>,
           Rewinds
    PROVE  Common' /\ FastInv' /\ [BlockNext]_blockVars
<1>1. /\ pc = "match" /\ pc' = "last" /\ input' = input /\ ip' = ip
      /\ UNCHANGED <<seqs, anchor, size, result>>
      /\ table' = table /\ step' = step /\ nb' = nb /\ op' = size
  BY DEF Rewinds
<1>2. /\ ip \in Start..End /\ FastTyped /\ End' = End /\ result = "coding"
      /\ size \in Nat
  BY <1>1, FastBasics
<1>3. Common' /\ [BlockNext]_blockVars
  BY <1>1, <1>2, IdleStep
<1>4. FastTyped'
  BY <1>1, <1>2 DEF FastTyped
<1>5. FastInv'
  BY <1>1, <1>4 DEF FastInv
<1>6. QED BY <1>3, <1>5

(***************************************************************************)
(* The match that is counted from four equal bytes on is the longest one   *)
(* there is before the last five bytes.                                    *)
(***************************************************************************)
LEMMA CountedMatch ==
    ASSUME input \in Inputs, NEW i, NEW m, FoundAt(i, m)
    PROVE  LET full == Count(i + MINMATCH, m + MINMATCH, matchlimit)
           IN /\ full \in Nat /\ i + 4 + full <= matchlimit
              /\ IsMatch(i, i - m, 4 + full)
              /\ \A n \in Nat : i + n <= matchlimit /\ IsMatch(i, i - m, n)
                                    => n <= 4 + full
<1> DEFINE full == Count(i + 4, m + 4, matchlimit)
<1>1. /\ End \in Nat /\ mflimit = End - 12 /\ matchlimit = End - 5
      /\ i \in Nat /\ m \in 0..(i - 1) /\ i <= mflimit /\ SameFour(i, m)
  BY Limits DEF FoundAt
<1>2. /\ full \in 0..(matchlimit - (i + 4))
      /\ \/ full = matchlimit - (i + 4)
         \/ At((i + 4) + full) # At((m + 4) + full)
      /\ \A k \in 0..(full - 1) : At((i + 4) + k) = At((m + 4) + k)
  <2>1. i + 4 \in Nat /\ m + 4 \in Int /\ matchlimit \in Nat /\ i + 4 <= matchlimit
    BY <1>1
  <2>2. QED BY <2>1, CountStops
<1> HIDE DEF full
<1>3. full \in Nat /\ i + 4 + full <= matchlimit
  BY <1>1, <1>2
<1>4. IsMatch(i, i - m, 4 + full)
  <2>1. IsMatch(i, i - m, 4)
    BY <1>1, SameFourMatches
  <2>2. i - m \in Nat /\ i - (i - m) + 4 = m + 4
    BY <1>1
  <2>3. QED BY <1>1, <1>2, <1>3, <2>1, <2>2, MatchExtends
<1>5. ASSUME NEW n \in Nat, i + n <= matchlimit, IsMatch(i, i - m, n), n > 4 + full
      PROVE  FALSE
  <2>1. At((i + 4) + full) # At((m + 4) + full)
    BY <1>1, <1>2, <1>3, <1>5
  <2>2. /\ (i + 4) + full \in i..(i + n - 1)
        /\ ((i + 4) + full) - (i - m) = (m + 4) + full
    BY <1>1, <1>3, <1>5
  <2>3. QED BY <1>5, <2>1, <2>2 DEF IsMatch
<1>6. \A n \in Nat : i + n <= matchlimit /\ IsMatch(i, i - m, n) => n <= 4 + full
  BY <1>3, <1>5
<1>7. QED BY <1>3, <1>4, <1>6 DEF full, MINMATCH

(***************************************************************************)
(* The tests for room in EncodeMatch leave six bytes and, behind a short   *)
(* match, nine.                                                            *)
(***************************************************************************)
LEMMA FullFits ==
    ASSUME NEW o \in Nat, NEW room \in Nat, NEW full \in Nat,
           o + 6 + ((full + 240) \div 255) <= room
    PROVE  /\ o + ExtraBytes(full) <= room
           /\ o + 9 <= room => EnoughLeft(room - (o + ExtraBytes(full)), 4 + full)
<1>1. /\ ExtraBytes(full) = (full + 240) \div 255 /\ ExtraBytes(full) \in Nat
      /\ full < 15 => ExtraBytes(full) = 0
  BY EstimateExact, ExtraBytesBounded
<1>2. QED BY <1>1 DEF EnoughLeft

LEMMA CutFits ==
    ASSUME NEW o \in Nat, NEW room \in Nat, NEW full \in Nat, NEW cut,
           o + 9 <= room, o + 6 + ((full + 240) \div 255) > room,
           cut = 14 + (room - o - 6) * 255
    PROVE  /\ cut \in Nat /\ cut <= full
           /\ o + ExtraBytes(cut) <= room
           /\ EnoughLeft(room - (o + ExtraBytes(cut)), 4 + cut)
<1> DEFINE x == room - o - 6
<1>1. x \in Nat /\ x >= 3
  OBVIOUS
<1>2. cut = 14 + x * 255
  OBVIOUS
<1>3. o + 6 + x = room
  OBVIOUS
<1> HIDE DEF x
<1>4. cut \in Nat
  BY <1>1, <1>2
<1>5. /\ (full + 240) \div 255 \in Int
      /\ 255 * ((full + 240) \div 255) <= full + 240
  OBVIOUS
<1>6. (full + 240) \div 255 >= x + 1
  BY <1>1, <1>3, <1>5
<1>7. cut <= full
  BY <1>1, <1>2, <1>5, <1>6
<1>8. /\ (cut + 240) \div 255 \in Int
      /\ 255 * ((cut + 240) \div 255) <= cut + 240
      /\ cut + 240 < 255 * ((cut + 240) \div 255) + 255
  BY <1>4
<1>9. ExtraBytes(cut) = x
  <2>1. (cut + 240) \div 255 = x
    BY <1>1, <1>2, <1>8
  <2>2. QED BY <1>4, <2>1, EstimateExact
<1>10. QED BY <1>1, <1>2, <1>3, <1>4, <1>7, <1>9 DEF EnoughLeft

LEMMA EncodeMatchStep ==
    ASSUME Common, FastInv, input.coder = "fast", UNCHANGED <<input, reader>>,
           EncodeMatch
    PROVE  Common' /\ FastInv' /\ [BlockNext]_blockVars
<1> DEFINE o    == op + 2
           full == Count(ip + MINMATCH, match + MINMATCH, matchlimit)
           over == limited /\ o + (1 + LASTLITERALS) + ((full + 240) \div 255)
                                                               > input.room
           cut  == 15 - 1 + (input.room - o - 1 - LASTLITERALS) * 255
           code == IF over THEN cut ELSE full
           end  == ip + MINMATCH + code
           off  == ip - match
           s    == o + ExtraBytes(code)
<1>1. /\ pc = "match" /\ input' = input
      /\ ~ (/\ input.dir = "fillOutput"
            /\ op + 2 + 1 + MFLIMIT - MINMATCH > input.room)
      /\ \/ over /\ input.dir = "limitedOutput" /\ GiveUp /\ UNCHANGED fastVars
         \/ /\ ~ (over /\ input.dir = "limitedOutput")
            /\ AddSequence(ip, off, MINMATCH + code, s)
            /\ op' = s
            /\ ip' = end
            /\ table' = IF over THEN table \ (end..filled) ELSE table
            /\ pc' = IF end > mflimit THEN "last" ELSE "test"
            /\ UNCHANGED <<result, match, filled, step, nb>>
  BY DEF EncodeMatch
<1>2. /\ ip \in Start..End /\ FastTyped /\ End' = End /\ Start' = Start
      /\ mflimit' = mflimit /\ mflimit = End - 12 /\ matchlimit = End - 5
      /\ result = "coding" /\ size \in Nat /\ input.room \in Nat
      /\ Start \in Nat /\ End \in Nat /\ anchor \in Start..End /\ input.gap \in Nat
      /\ input \in Inputs /\ DistanceMax \in Nat /\ input.dir \in Directives
  BY <1>1, FastBasics
<1>3. /\ op = size + LiteralsSize(ip - anchor) /\ op \in Nat
      /\ FoundAt(ip, match)
      /\ \A t \in table :
            t > ip => /\ t <= filled /\ t <= mflimit
                      /\ IsMatch(ip, ip - match, t + MINMATCH - ip)
  BY <1>1, <1>2 DEF FastInv, AtMatch, FastTyped
<1>4. /\ ip \in Nat /\ match \in 0..(ip - 1) /\ anchor <= ip /\ ip <= mflimit
      /\ ip - match <= DistanceMax
  BY <1>3 DEF FoundAt
<1>5. CASE GiveUp /\ UNCHANGED fastVars
  <2>1. pc' = "returned" /\ table' = table /\ step' = step /\ nb' = nb /\ op' = op
    BY <1>5 DEF GiveUp, fastVars
  <2>2. FastTyped'
    BY <1>1, <1>2, <2>1 DEF FastTyped
  <2>3. FastInv'
    BY <1>1, <2>1, <2>2 DEF FastInv
  <2>4. QED BY <1>1, <1>2, <1>5, <2>3, GiveUpStep
<1>6. CASE /\ ~ (over /\ input.dir = "limitedOutput")
           /\ AddSequence(ip, off, MINMATCH + code, s)
           /\ op' = s
           /\ ip' = end
           /\ table' = IF over THEN table \ (end..filled) ELSE table
           /\ pc' = IF end > mflimit THEN "last" ELSE "test"
           /\ UNCHANGED <<result, match, filled, step, nb>>
  <2>1. /\ full \in Nat /\ ip + 4 + full <= matchlimit
        /\ IsMatch(ip, off, 4 + full)
        /\ \A n \in Nat : ip + n <= matchlimit /\ IsMatch(ip, off, n)
                              => n <= 4 + full
    BY <1>2, <1>3, CountedMatch
  <2>2. /\ o \in Nat
        /\ over => o + 6 + ((full + 240) \div 255) > input.room
        /\ limited /\ ~ over => ~ (o + 6 + ((full + 240) \div 255) > input.room)
    <3>1. o \in Nat
      BY <1>3
    <3>2. o + (1 + LASTLITERALS) + ((full + 240) \div 255)
              = o + 6 + ((full + 240) \div 255)
      BY <2>1, <3>1 DEF LASTLITERALS
    <3> HIDE DEF o, full
    <3>3. QED BY <3>1, <3>2, Zenon
  <2>3. input.dir = "fillOutput" => o + 9 <= input.room
    BY <1>1, <1>2, <1>3 DEF MFLIMIT, MINMATCH
  <2>4. over => input.dir = "fillOutput"
    BY <1>2, <1>6 DEF limited, Directives
  <2>5. cut = 14 + (input.room - o - 6) * 255
    BY <1>2, <2>2 DEF LASTLITERALS
  <2>6. (full + 240) \div 255 \in Int
    BY <2>1
  <2> HIDE DEF o, full, cut, over
  <2>7. /\ code \in Nat /\ code <= full
        /\ limited => s <= input.room
        /\ input.dir = "fillOutput" => EnoughLeft(input.room - s, 4 + code)
    <3>1. CASE over
      <4>0. /\ o + 9 <= input.room
            /\ o + 6 + ((full + 240) \div 255) > input.room
        BY <2>2, <2>3, <2>4, <3>1, Zenon
      <4>1. /\ cut \in Nat /\ cut <= full /\ o + ExtraBytes(cut) <= input.room
            /\ EnoughLeft(input.room - (o + ExtraBytes(cut)), 4 + cut)
        BY <1>2, <2>1, <2>2, <2>5, <4>0, CutFits
      <4>2. QED BY <3>1, <4>1
    <3>2. CASE ~ over
      <4>1. code = full
        BY <3>2
      <4>2. ASSUME limited PROVE s <= input.room
        <5>0. ~ (o + 6 + ((full + 240) \div 255) > input.room)
          BY <2>2, <3>2, <4>2, Zenon
        <5>1. o + 6 + ((full + 240) \div 255) <= input.room
          BY <1>2, <2>2, <2>6, <5>0
        <5>2. QED BY <1>2, <2>1, <2>2, <4>1, <5>1, FullFits
      <4>3. ASSUME input.dir = "fillOutput"
            PROVE  EnoughLeft(input.room - s, 4 + code)
        <5>1. limited
          BY <4>3 DEF limited
        <5>0. ~ (o + 6 + ((full + 240) \div 255) > input.room)
          BY <2>2, <3>2, <5>1, Zenon
        <5>2. o + 6 + ((full + 240) \div 255) <= input.room
          BY <1>2, <2>2, <2>6, <5>0
        <5>3. QED BY <1>2, <2>1, <2>2, <2>3, <4>1, <4>3, <5>2, FullFits
      <4>4. QED BY <2>1, <4>1, <4>2, <4>3
    <3>3. QED BY <3>1, <3>2
  <2>8. /\ end = ip + 4 + code /\ end \in Nat /\ end <= matchlimit
        /\ end \in Start..End /\ end >= Start + 4
    BY <1>2, <1>4, <2>1, <2>7 DEF MINMATCH
  <2>9. s \in Nat /\ s = size + SequenceSize(ip - anchor, 4 + code)
    <3>1. ExtraBytes(code) \in Nat
      BY <2>7, ExtraBytesBounded
    <3>2. LiteralsSize(ip - anchor) \in Nat
      <4>1. ip - anchor \in Nat
        BY <1>2, <1>4
      <4>2. QED BY <4>1, ExtraBytesBounded DEF LiteralsSize
    <3>3. SequenceSize(ip - anchor, 4 + code)
              = LiteralsSize(ip - anchor) + 2 + ExtraBytes(code)
      <4>1. (4 + code) - MINMATCH = code
        BY <2>7 DEF MINMATCH
      <4>2. QED BY <4>1 DEF SequenceSize
    <3>4. s = op + 2 + ExtraBytes(code)
      BY DEF o
    <3>5. QED BY <1>2, <1>3, <3>1, <3>2, <3>3, <3>4
  <2>10. MatchOK(ip, off, 4 + code)
    <3>1. IsMatch(ip, off, 4 + code)
      BY <1>4, <2>1, <2>7, MatchShortens
    <3>2. off \in 1..DistanceMax
      BY <1>2, <1>4
    <3>3. 4 + code \in Nat /\ 4 + code >= MINMATCH /\ ip + (4 + code) <= matchlimit
      BY <1>2, <1>4, <2>1, <2>7 DEF MINMATCH
    <3>4. QED BY <1>4, <3>1, <3>2, <3>3 DEF MatchOK
  <2>11. pc' \in {"last", "test"} /\ ip' \in Start..End
    BY <1>6, <2>8
  <2>12. Common' /\ [BlockNext]_blockVars
    <3>1. AddSequence(ip, off, 4 + code, s)
      BY <1>6 DEF MINMATCH
    <3> HIDE DEF s, code, off
    <3>2. QED BY <1>2, <1>4, <1>6, <2>7, <2>9, <2>10, <2>11, <3>1, SequenceStep
  <2>13. /\ anchor' = ip + (4 + code) /\ size' = s /\ op' = s
    BY <1>6 DEF AddSequence, MINMATCH
  <2>14. FastTyped'
    BY <1>1, <1>2, <1>6, <2>9 DEF FastTyped
  <2>15. CASE pc' = "last"
    BY <1>1, <2>12, <2>14, <2>15 DEF FastInv
  <2>16. CASE pc' = "test"
    <3>1. end <= mflimit
      BY <1>2, <1>6, <2>8, <2>16
    <3>2. ASSUME NEW t \in table' PROVE t < ip'
      <4>1. t \in table /\ t \in Int
        BY <1>2, <1>6, <3>2 DEF FastTyped
      <4>2. CASE t <= ip
        BY <1>4, <1>6, <2>7, <2>8, <4>1, <4>2
      <4>3. CASE t > ip
        <5>1. t <= filled /\ t <= mflimit /\ IsMatch(ip, off, t + 4 - ip)
          BY <1>3, <4>1, <4>3 DEF MINMATCH
        <5>2. t + 4 - ip <= 4 + full
          <6>1. t + 4 - ip \in Nat /\ ip + (t + 4 - ip) <= matchlimit
            BY <1>2, <1>4, <4>1, <4>3, <5>1
          <6> HIDE DEF off
          <6>2. QED BY <2>1, <5>1, <6>1
        <5>3. CASE ~ over
          BY <1>4, <1>6, <2>1, <2>8, <4>1, <5>2, <5>3
        <5>4. CASE over
          <6>1. t \notin end..filled
            BY <1>6, <3>2, <5>4
          <6>2. QED
            <7>1. filled \in Int => ~ (end <= t)
              BY <2>8, <4>1, <5>1, <6>1
            <7>2. CASE t < end
              BY <1>6, <7>2
            <7>3. CASE end <= t
              BY <2>8, <4>1, <5>1, <6>1, <7>3
            <7>4. QED BY <2>8, <4>1, <7>2, <7>3
        <5>5. QED BY <5>3, <5>4
      <4>4. QED BY <1>4, <4>1, <4>2, <4>3
    <3>3. AtTest'
      <4>1. anchor' = ip'
        BY <1>4, <1>6, <2>7, <2>8, <2>13
      <4>2. ip' >= Start' + MINMATCH /\ ip' <= mflimit'
        BY <1>2, <1>6, <2>8, <3>1 DEF MINMATCH
      <4>3. QED BY <2>13, <3>2, <4>1, <4>2 DEF AtTest
    <3>4. FastInv'
      BY <1>1, <2>14, <2>16, <3>3 DEF FastInv
    <3>5. QED BY <2>12, <3>4
  <2>17. QED BY <2>11, <2>15, <2>16
<1>7. QED BY <1>1, <1>5, <1>6

LEMMA TestHitsStep ==
    ASSUME Common, FastInv, input.coder = "fast", UNCHANGED <<input, reader>>,
           TestHits
    PROVE  Common' /\ FastInv' /\ [BlockNext]_blockVars
<1>1. /\ pc = "test" /\ input' = input /\ ip' = ip
      /\ UNCHANGED <<seqs, anchor, size, result>>
      /\ table' = Filled \cup {ip} /\ filled' = filled
      /\ step' = step /\ nb' = nb /\ op' = op + 1
      /\ match' \in Candidates(Filled) /\ Hit(match')
      /\ pc' = IF match' < 0 THEN "outside" ELSE "match"
  BY DEF TestHits
<1>2. /\ ip \in Start..End /\ FastTyped /\ End' = End /\ Start' = Start
      /\ mflimit' = mflimit /\ mflimit = End - 12 /\ result = "coding"
      /\ Start \in Nat /\ End \in Nat /\ anchor \in Start..End /\ input.gap \in Nat
      /\ input \in Inputs
  BY <1>1, FastBasics
<1>3. AtTest
  BY <1>1 DEF FastInv
<1>4. /\ Filled \in SUBSET ((-input.gap)..End) /\ \A x \in Filled : x < ip
      /\ ip \in Nat /\ ip > Start /\ Passed(match', ip)
  BY <1>1, <1>2, <1>3 DEF AtTest, FastTyped, Hit, Filled, MINMATCH
<1>5. match' \in 0..(ip - 1) /\ ip - match' <= DistanceMax
  <2> HIDE DEF Filled
  <2>1. QED BY <1>1, <1>2, <1>4, PassedInside
<1>6. pc' = "match" /\ SameFour(ip, match')
  BY <1>1, <1>2, <1>5 DEF Hit
<1>7. FoundAt(ip, match')
  BY <1>1, <1>2, <1>3, <1>5, <1>6 DEF FoundAt, AtTest
<1>8. Common' /\ [BlockNext]_blockVars
  BY <1>1, <1>2, <1>6, IdleStep
<1>9. FastTyped'
  BY <1>1, <1>2, <1>4 DEF FastTyped
<1>10. AtMatch'
  <2>1. FoundAt(ip, match)'
    BY <1>1, <1>7, FoundStays
  <2>2. \A t \in table' : ~ (t > ip')
    <3>1. \A t \in Filled : t \in Int /\ t < ip
      BY <1>2, <1>4
    <3>2. QED BY <1>1, <1>2, <3>1
  <2>3. op' = size' + LiteralsSize(ip - anchor)'
    <3>1. ip' - anchor' = 0 /\ size \in Nat
      BY <1>1, <1>2, <1>3 DEF AtTest, Common, CodingTypeOK
    <3>2. LiteralsSize(ip - anchor)' = 1
      BY <3>1 DEF LiteralsSize, ExtraBytes, RUN_MASK
    <3>3. QED BY <1>1, <1>3, <3>2 DEF AtTest
  <2>4. QED BY <2>1, <2>2, <2>3 DEF AtMatch
<1>11. FastInv'
  BY <1>1, <1>6, <1>9, <1>10 DEF FastInv
<1>12. QED BY <1>8, <1>11

LEMMA TestMissesStep ==
    ASSUME Common, FastInv, input.coder = "fast", UNCHANGED <<input, reader>>,
           TestMisses
    PROVE  Common' /\ FastInv' /\ [BlockNext]_blockVars
<1>1. /\ pc = "test" /\ pc' = "search" /\ input' = input /\ ip' = ip + 1
      /\ UNCHANGED <<seqs, anchor, size, result>>
      /\ table' = Filled \cup {ip} /\ op' = op
      /\ step' = 1 /\ nb' = input.accel * 64
  BY DEF TestMisses, RestartSearch
<1>2. /\ ip \in Start..End /\ FastTyped /\ End' = End /\ Start' = Start
      /\ mflimit' = mflimit /\ mflimit = End - 12 /\ result = "coding"
      /\ Start \in Nat /\ End \in Nat /\ anchor \in Start..End /\ input.gap \in Nat
      /\ input \in Inputs /\ input.accel \in Nat \ {0}
  BY <1>1, FastBasics
<1>3. AtTest
  BY <1>1 DEF FastInv
<1>4. nb' \in Nat /\ nb' >= 64
  <2>1. input.accel \in Nat /\ input.accel >= 1
    BY <1>2
  <2>2. input.accel * 64 \in Nat /\ input.accel * 64 >= 64
    BY <2>1
  <2>3. QED BY <1>1, <2>2
<1>5. ip' \in Start..End /\ ip' <= mflimit + 1 /\ ip' > Start
  BY <1>1, <1>2, <1>3 DEF AtTest, MINMATCH
<1>6. Common' /\ [BlockNext]_blockVars
  BY <1>1, <1>2, <1>5, IdleStep
<1>7. Filled \subseteq (-input.gap)..End /\ \A x \in Filled : x < ip
  BY <1>2, <1>3 DEF AtTest, FastTyped, Filled, MINMATCH
<1>8. FastTyped'
  BY <1>1, <1>2, <1>4, <1>7 DEF FastTyped
<1>9. AtSearch'
  <2>1. \A t \in table' : t < ip'
    BY <1>1, <1>2, <1>7
  <2>2. anchor' <= ip'
    BY <1>1, <1>2, <1>3 DEF AtTest
  <2>3. QED BY <1>1, <1>2, <1>3, <1>4, <1>5, <2>1, <2>2 DEF AtSearch, AtTest
<1>10. FastInv'
  BY <1>1, <1>8, <1>9 DEF FastInv
<1>11. QED BY <1>6, <1>10

(* A step of the fast coder. *)
LEMMA FastStep ==
    ASSUME IInv, FastNext, UNCHANGED <<hcVars, optVars>>
    PROVE  IInv' /\ [BlockNext]_blockVars
<1>1. /\ Common /\ FastInv /\ input.coder = "fast" /\ input'.coder = "fast"
      /\ UNCHANGED <<input, reader>>
  BY DEF IInv, FastNext
<1>2. Common' /\ FastInv' /\ [BlockNext]_blockVars
  <2>1. ASSUME pc' = "returned", UNCHANGED fastVars
        PROVE  FastInv'
    <3>1. FastTyped /\ End' = End /\ input' = input
      BY <1>1, FastBasics
    <3>2. FastTyped'
      BY <2>1, <3>1 DEF FastTyped, fastVars
    <3>3. QED BY <2>1, <3>2 DEF FastInv
  <2>2. CASE CallFails /\ UNCHANGED fastVars
    BY <1>1, <2>1, <2>2, CallFailsStep
  <2>3. CASE WriteLastLiterals /\ UNCHANGED fastVars
    BY <1>1, <2>1, <2>3, LastLiteralsStep
  <2>4. QED BY <1>1, <2>2, <2>3, FastBeginStep, SearchEndsStep, SearchMissesStep,
               SearchHitsStep, EncodeLiteralsStep, RewindsStep, EncodeMatchStep,
               TestHitsStep, TestMissesStep DEF FastNext
<1>3. HcInv' /\ OptInv'
  BY <1>1 DEF HcInv, OptInv
<1>4. QED BY <1>2, <1>3 DEF IInv
-----------------------------------------------------------------------------
-----------------------------------------------------------------------------
(***************************************************************************)
(* The matches of the hash-chain and the optimal coder.  What a good match *)
(* is made of; it stays good while the input does; a part of it that is    *)
(* long enough is good as well.                                            *)
(***************************************************************************)
LEMMA GoodBasics ==
    ASSUME input \in Inputs, NEW m, GoodMatch(m)
    PROVE  /\ m \in Match
           /\ m.at \in Nat /\ m.len \in Nat /\ m.off \in Nat
           /\ m.off \in 1..DistanceMax
           /\ m.len >= 4 /\ m.at <= End - 12 /\ m.at + m.len <= End - 5
           /\ MatchEnd(m) = m.at + m.len /\ MatchEnd(m) \in Nat
           /\ MatchEnd(m) \in 0..End
           /\ IsMatch(m.at, m.off, m.len)
BY Limits DEF GoodMatch, MatchOK, Match, MatchEnd, MINMATCH

LEMMA GoodStays ==
    ASSUME input' = input, NEW m, GoodMatch(m)
    PROVE  /\ m0' = m => GoodMatch(m0)'
           /\ m1' = m => GoodMatch(m1)'
           /\ m2' = m => GoodMatch(m2)'
BY DEF GoodMatch, MatchOK, IsMatch, At, mflimit, matchlimit, End

LEMMA InsideMatch ==
    ASSUME NEW p \in Nat, NEW off, NEW n \in Nat, IsMatch(p, off, n),
           NEW a \in Nat, NEW c \in Nat, p <= a, a + c <= p + n
    PROVE  IsMatch(a, off, c)
BY DEF IsMatch

LEMMA GoodPart ==
    ASSUME input \in Inputs, NEW m, GoodMatch(m),
           NEW a \in Nat, NEW n \in Nat, m.at <= a, a + n <= m.at + m.len,
           n >= 4, a <= mflimit
    PROVE  GoodMatch([at |-> a, len |-> n, off |-> m.off])
<1>1. /\ m.at \in Nat /\ m.len \in Nat /\ m.off \in Nat
      /\ m.off \in 1..DistanceMax /\ IsMatch(m.at, m.off, m.len)
      /\ m.at + m.len <= End - 5 /\ matchlimit = End - 5 /\ End \in Nat
  BY GoodBasics, Limits
<1>2. IsMatch(a, m.off, n)
  BY <1>1, InsideMatch
<1>3. MatchOK(a, m.off, n)
  BY <1>1, <1>2 DEF MatchOK, MINMATCH
<1>4. QED BY <1>1, <1>3 DEF GoodMatch, Match

(* The smaller of two numbers. *)
LEMMA OneOrOther ==
    ASSUME NEW x \in Int, NEW y \in Int
    PROVE  /\ Min({x, y}) \in {x, y}
           /\ Min({x, y}) <= x /\ Min({x, y}) <= y
<1> DEFINE z == IF x <= y THEN x ELSE y
<1>1. z \in {x, y} /\ \A v \in {x, y} : z <= v
  OBVIOUS
<1> HIDE DEF z
<1>2. Min({x, y}) \in {x, y} /\ \A v \in {x, y} : Min({x, y}) <= v
  BY <1>1 DEF Min
<1>3. QED BY <1>2

(***************************************************************************)
(* What a search returns is a good match that begins at low or later, at   *)
(* the position of the search at the latest, and is longer than longest.   *)
(***************************************************************************)
LEMMA HighLimitInside ==
    ASSUME input \in Inputs, NEW i \in Nat, i <= mflimit,
           NEW m \in 0..(i - 1), Comparable(i, m)
    PROVE  /\ HighLimit(i, m) \in Nat /\ i + 4 <= HighLimit(i, m)
           /\ HighLimit(i, m) <= matchlimit
<1>1. Start \in Nat /\ End \in Nat /\ mflimit = End - 12 /\ matchlimit = End - 5
  BY Limits
<1>2. CASE input.mode = "ctx" /\ m < Start
  <2>1. m + 4 <= Start
    BY <1>1, <1>2 DEF Comparable, MINMATCH
  <2>2. HighLimit(i, m) = Min({matchlimit, i + Start - m})
    BY <1>2 DEF HighLimit
  <2> DEFINE x == matchlimit
             y == i + Start - m
  <2>3. x \in Int /\ y \in Int /\ i + 4 <= x /\ i + 4 <= y
    BY <1>1, <2>1
  <2> HIDE DEF x, y
  <2>4. Min({x, y}) \in {x, y} /\ Min({x, y}) <= x
    BY <2>3, OneOrOther
  <2>5. Min({x, y}) \in Nat /\ i + 4 <= Min({x, y})
    BY <2>3, <2>4
  <2>6. QED BY <2>2, <2>4, <2>5 DEF x, y
<1>3. CASE ~ (input.mode = "ctx" /\ m < Start)
  <2>1. HighLimit(i, m) = matchlimit
    BY <1>3 DEF HighLimit
  <2>2. QED BY <1>1, <2>1
<1>4. QED BY <1>2, <1>3

LEMMA LengthsCounted ==
    ASSUME input \in Inputs, NEW i \in Nat, i <= mflimit,
           NEW low, NEW off \in Offsets(i), NEW n \in Lengths(i, off, low)
    PROVE  /\ n \in Nat /\ n >= 4 /\ i + n <= matchlimit
           /\ \A k \in 0..(n - 1) : At(i + k) = At(i - off + k)
<1> DEFINE h == HighLimit(i, i - off)
           full == Count(i, i - off, h)
<1>1. off \in 1..i /\ i - off \in 0..(i - 1) /\ Comparable(i, i - off)
  BY DEF Offsets
<1>2. h \in Nat /\ i + 4 <= h /\ h <= matchlimit /\ matchlimit \in Int
  BY <1>1, HighLimitInside, Limits
<1>3. full \in 0..(h - i) /\ full >= 4
  <2>1. i - off \in Int /\ i <= h
    BY <1>1, <1>2
  <2>2. /\ full \in 0..(h - i)
        /\ full = h - i \/ At(i + full) # At((i - off) + full)
    BY <1>2, <2>1, CountStops
  <2>3. full \in 0..3 => At(i + full) = At((i - off) + full)
    BY DEF Offsets, SameFour
  <2> HIDE DEF full
  <2>4. QED BY <1>2, <2>2, <2>3
<1>4. \A k \in 0..(full - 1) : At(i + k) = At(i - off + k)
  <2>1. i - off \in Int /\ i <= h
    BY <1>1, <1>2
  <2>2. QED BY <1>2, <2>1, CountStops
<1>5. n \in MINMATCH..full \/ n = full
  BY DEF Lengths
<1> HIDE DEF full, h
<1>6. n \in Nat /\ n <= full /\ n >= 4
  BY <1>2, <1>3, <1>5 DEF MINMATCH
<1>7. QED BY <1>2, <1>3, <1>4, <1>6

LEMMA WiderIsGood ==
    ASSUME input \in Inputs, NEW i \in Nat, NEW low \in Nat, NEW longest \in Nat,
           low <= i, i <= mflimit, NEW m \in Wider(i, low, longest)
    PROVE  /\ GoodMatch(m) /\ low <= m.at /\ m.at <= i /\ m.len > longest
           /\ low = i => m.at = i
<1>1. PICK off \in Offsets(i) :
         m \in {[at |-> i - CountBack(i, i - off, low, LowLimit(i - off)),
                 len |-> n + CountBack(i, i - off, low, LowLimit(i - off)),
                 off |-> off] : n \in Lengths(i, off, low)}
  BY DEF Wider
<1> DEFINE back == CountBack(i, i - off, low, LowLimit(i - off))
<1>2. PICK n \in Lengths(i, off, low) :
         m = [at |-> i - back, len |-> n + back, off |-> off]
  BY <1>1
<1>3. m.len > longest
  BY DEF Wider
<1>4. /\ off \in 1..i /\ i - off \in 0..(i - 1)
      /\ Comparable(i, i - off) /\ SameFour(i, i - off)
  BY DEF Offsets
<1>5. /\ Start \in Nat /\ End \in Nat /\ mflimit = End - 12 /\ matchlimit = End - 5
      /\ DistanceMax \in Nat
  BY Limits
<1>6. LowLimit(i - off) \in Nat /\ LowLimit(i - off) <= i - off
  BY <1>4, <1>5, Limits DEF LowLimit
<1>7. /\ back \in Nat /\ back <= i - low
      /\ back <= (i - off) - LowLimit(i - off)
  <2>1. i - off \in Nat
    BY <1>4
  <2>2. QED BY <1>6, <2>1, CountBackStops
<1>8. \A k \in 1..back : At(i - k) = At((i - off) - k)
  <2>1. i - off \in Nat
    BY <1>4
  <2>2. QED BY <1>6, <2>1, CountBackStops
<1> HIDE DEF back
<1>9. n \in Nat /\ n >= 4 /\ i + n <= matchlimit
  BY LengthsCounted
<1>10. \A k \in 0..(n - 1) : At(i + k) = At(i - off + k)
  BY LengthsCounted
<1>11. /\ m.at = i - back /\ m.len = n + back /\ m.off = off /\ i - back \in Nat
       /\ back <= i - off /\ off \in Nat /\ n + back \in Nat
  BY <1>2, <1>4, <1>6, <1>7, <1>9
<1>12. off <= DistanceMax
  BY <1>4, <1>5 DEF Comparable
<1>13. IsMatch(i - back, off, n + back)
  <2>1. off \in 1..(i - back)
    BY <1>4, <1>7, <1>11
  <2>2. ASSUME NEW k \in (i - back)..((i - back) + (n + back) - 1)
        PROVE  At(k) = At(k - off)
    <3>1. CASE k < i
      <4>1. i - k \in 1..back /\ i - (i - k) = k /\ (i - off) - (i - k) = k - off
        BY <1>4, <1>7, <1>11, <3>1
      <4>2. At(i - (i - k)) = At((i - off) - (i - k))
        BY <1>8, <4>1
      <4>3. QED BY <4>1, <4>2
    <3>2. CASE k >= i
      <4>1. k - i \in 0..(n - 1) /\ i + (k - i) = k /\ i - off + (k - i) = k - off
        BY <1>4, <1>7, <1>9, <1>11, <3>2
      <4>2. At(i + (k - i)) = At(i - off + (k - i))
        BY <1>10, <4>1
      <4>3. QED BY <4>1, <4>2
    <3>3. QED BY <1>7, <1>11, <3>1, <3>2
  <2>3. QED BY <2>1, <2>2 DEF IsMatch
<1>14. MatchOK(m.at, m.off, m.len)
  <2>1. m.len >= MINMATCH
    BY <1>7, <1>9, <1>11 DEF MINMATCH
  <2>2. m.at <= mflimit /\ m.at + m.len <= matchlimit
    BY <1>5, <1>7, <1>9, <1>11
  <2>3. QED BY <1>4, <1>5, <1>11, <1>12, <1>13, <2>1, <2>2 DEF MatchOK
<1>15. m \in Match
  BY <1>2, <1>11 DEF Match
<1>16. low <= m.at /\ m.at <= i /\ (low = i => m.at = i)
  BY <1>7, <1>11
<1>17. QED BY <1>3, <1>14, <1>15, <1>16 DEF GoodMatch

LEMMA FoundIsGood ==
    ASSUME input \in Inputs, NEW i \in Nat, NEW low \in Nat, NEW longest \in Nat,
           low <= i, i <= mflimit, NEW m \in Found(i, low, longest)
    PROVE  /\ GoodMatch(m) /\ low <= m.at /\ m.at <= i /\ m.len > longest
           /\ low = i => m.at = i
<1>1. m \in Wider(i, low, longest)
  BY DEF Found
<1>2. QED BY <1>1, WiderIsGood

-----------------------------------------------------------------------------
(***************************************************************************)
(* A good match is written where there is room for it, and cut where the   *)
(* output ends.  The tests for room leave what the end of the block needs. *)
(***************************************************************************)
LEMMA HasRoomFits ==
    ASSUME Common, NEW m, GoodMatch(m), anchor <= m.at, HasRoom(m)
    PROVE  LET s == size + SequenceSize(m.at - anchor, m.len)
           IN /\ limited => s <= input.room
              /\ input.dir = "fillOutput" => EnoughLeft(input.room - s, m.len)
<1> DEFINE ll == m.at - anchor
           n == m.len - 4
           s == size + SequenceSize(ll, m.len)
           q == n \div 255
<1>1. /\ m.at \in Nat /\ m.len \in Nat /\ m.len >= 4
      /\ anchor \in Nat /\ size \in Nat /\ input.room \in Nat /\ Start \in Nat
      /\ End \in Nat
  BY GoodBasics, Limits DEF Common, CodingTypeOK
<1>2. ll \in Nat /\ n \in Nat /\ LiteralsSize(ll) \in Nat
  <2>1. ll \in Nat /\ n \in Nat
    BY <1>1
  <2>2. QED BY <2>1, ExtraBytesBounded DEF LiteralsSize
<1>3. limited => size + LiteralsSize(ll) + 2 + q + 6 <= oend
  BY DEF HasRoom, RoomForMatch, MINMATCH, LASTLITERALS
<1>4. ExtraBytes(n) \in Nat /\ ExtraBytes(n) <= q + 1 /\ q \in Nat
  <2>1. ExtraBytes(n) = (n + 240) \div 255
    BY <1>2, EstimateExact
  <2>2. ExtraBytes(n) \in Nat
    BY <1>2, ExtraBytesBounded
  <2>3. QED BY <1>2, <2>1, <2>2
<1>5. s = size + LiteralsSize(ll) + 2 + ExtraBytes(n)
  BY <1>1, <1>2, <1>4 DEF SequenceSize, MINMATCH
<1>6. oend <= input.room /\ (input.dir = "fillOutput" => oend = input.room - 5)
  BY <1>1 DEF oend, LASTLITERALS
<1>7. oend \in Int
  BY <1>1 DEF oend, LASTLITERALS
<1>8. input.dir = "fillOutput" => limited
  BY DEF limited
<1> HIDE DEF ll, n, q, s
<1>9. limited => s <= oend - 5
  BY <1>1, <1>2, <1>3, <1>4, <1>5, <1>7
<1>10. s \in Nat
  BY <1>1, <1>2, <1>4, <1>5
<1>11. limited => s <= input.room
  BY <1>1, <1>6, <1>7, <1>9, <1>10
<1>12. ASSUME input.dir = "fillOutput" PROVE EnoughLeft(input.room - s, m.len)
  <2>1. input.room - s >= 10
    BY <1>1, <1>6, <1>7, <1>8, <1>9, <1>10, <1>12
  <2>2. QED BY <1>1, <1>10, <2>1 DEF EnoughLeft
<1>13. QED BY <1>11, <1>12 DEF s, ll

LEMMA EncodeSequenceStep ==
    ASSUME Common, result = "coding", UNCHANGED <<input, reader>>,
           NEW m, GoodMatch(m), anchor <= m.at,
           NEW next, next \notin {"call", "returned"}, EncodeSequence(m, next)
    PROVE  /\ Common' /\ [BlockNext]_blockVars
           /\ pc' = next /\ anchor' = MatchEnd(m) /\ ip' = MatchEnd(m)
<1> DEFINE s == size + SequenceSize(m.at - anchor, m.len)
<1>1. /\ HasRoom(m) /\ AddSequence(m.at, m.off, m.len, s)
      /\ pc' = next /\ ip' = MatchEnd(m) /\ UNCHANGED result
  BY DEF EncodeSequence, Write
<1>2. /\ limited => s <= input.room
      /\ input.dir = "fillOutput" => EnoughLeft(input.room - s, m.len)
  BY <1>1, HasRoomFits
<1>3. MatchEnd(m) = m.at + m.len /\ MatchEnd(m) \in Start..End
  BY Limits, GoodBasics DEF Common, CodingTypeOK
<1>4. MatchOK(m.at, m.off, m.len)
  BY DEF GoodMatch
<1> HIDE DEF s
<1>5. anchor' = MatchEnd(m)
  BY <1>1, <1>3 DEF AddSequence
<1>6. Common' /\ [BlockNext]_blockVars
  BY <1>1, <1>2, <1>3, <1>4, SequenceStep DEF s
<1>7. QED BY <1>1, <1>5, <1>6

(* What is left of a match at the end of the output. *)
LEMMA ClippedFits ==
    ASSUME Common, NEW m, GoodMatch(m), anchor <= m.at,
           input.dir = "fillOutput", NEW c \in Clipped(m)
    PROVE  LET s == size + SequenceSize(c.at - anchor, c.len)
           IN /\ GoodMatch(c) /\ c.at = m.at
              /\ s <= input.room
              /\ EnoughLeft(input.room - s, c.len)
<1> DEFINE ll == m.at - anchor
           after == size + 1 + ((ll + 240) \div 255) + ll
           x == oend - 3 - after
           maxMl == MINMATCH + (ML_MASK - 1) + (oend - 3 - after) * 255
           cut == [m EXCEPT !.len = Min({m.len, maxMl})]
           len == Min({m.len, maxMl})
           n == len - 4
           s == size + SequenceSize(ll, len)
<1>1. /\ m \in Match /\ m.at \in Nat /\ m.len \in Nat /\ m.len >= 4
      /\ anchor \in Nat /\ size \in Nat /\ input.room \in Nat /\ Start \in Nat
      /\ End \in Nat /\ m.at <= mflimit /\ input \in Inputs
  BY GoodBasics, Limits DEF Common, CodingTypeOK
<1>2. ll \in Nat
  BY <1>1
<1>3. oend = input.room - 5 /\ oend \in Int
  BY <1>1 DEF oend, LASTLITERALS
<1>4. after = size + LiteralsSize(ll) /\ after \in Nat
  <2>1. ExtraBytes(ll) = (ll + 240) \div 255 /\ ExtraBytes(ll) \in Nat
    BY <1>2, EstimateExact, ExtraBytesBounded
  <2> HIDE DEF ll
  <2>2. QED BY <1>1, <1>2, <2>1 DEF LiteralsSize
<1>5. c = cut /\ after <= oend - 3
      /\ (oend + LASTLITERALS) - (after + 2) - 1 + cut.len >= MFLIMIT
  BY DEF Clipped
<1>6. c = [at |-> m.at, len |-> len, off |-> m.off]
  BY <1>1, <1>5 DEF Match
<1>7. c.at = m.at /\ c.len = len /\ cut.len = len
  BY <1>5, <1>6
<1> HIDE DEF ll, after
<1>8. x \in Nat /\ maxMl = 18 + x * 255
  BY <1>3, <1>4, <1>5 DEF MINMATCH, ML_MASK
<1>9. maxMl \in Nat /\ maxMl >= 18
  BY <1>8
<1> HIDE DEF x, maxMl
<1>10. len \in Nat /\ len >= 4 /\ len <= m.len /\ len <= maxMl
  <2>1. m.len \in Int /\ maxMl \in Int
    BY <1>1, <1>9
  <2>2. len \in {m.len, maxMl} /\ len <= m.len /\ len <= maxMl
    BY <2>1, OneOrOther
  <2> HIDE DEF len
  <2>3. QED BY <1>1, <1>9, <2>2
<1> HIDE DEF len
<1>11. GoodMatch(c)
  BY <1>1, <1>6, <1>10, GoodPart
<1>12. n \in Nat /\ n <= 14 + x * 255
  BY <1>8, <1>9, <1>10
<1>13. ExtraBytes(n) \in Nat /\ ExtraBytes(n) <= x /\ (n < 15 => ExtraBytes(n) = 0)
  <2>1. ExtraBytes(n) = (n + 240) \div 255
    BY <1>12, EstimateExact
  <2>2. ExtraBytes(n) \in Nat /\ (n < 15 => ExtraBytes(n) = 0)
    BY <1>12, ExtraBytesBounded DEF ExtraBytes, RUN_MASK
  <2>3. (n + 240) \div 255 <= x
    <3> HIDE DEF n
    <3>1. 255 * ((n + 240) \div 255) <= n + 240 /\ (n + 240) \div 255 \in Int
      BY <1>12
    <3>2. QED BY <1>8, <1>12, <3>1
  <2>4. QED BY <2>1, <2>2, <2>3
<1>14. s = after + 2 + ExtraBytes(n)
  <2>1. SequenceSize(ll, len) = LiteralsSize(ll) + 2 + ExtraBytes(n)
    BY DEF SequenceSize, MINMATCH
  <2>2. LiteralsSize(ll) \in Nat
    BY <1>2, ExtraBytesBounded DEF LiteralsSize
  <2> HIDE DEF n
  <2>3. QED BY <1>1, <1>4, <1>13, <2>1, <2>2
<1>15. after + 3 + x = oend
  BY <1>3, <1>4 DEF x
<1>16. len = n + 4
  BY <1>10
<1> HIDE DEF n, s
<1>17. input.room - s >= 6 /\ s \in Nat
  BY <1>1, <1>3, <1>4, <1>8, <1>13, <1>14, <1>15
<1>18. input.room - s + len >= 13
  <2>1. input.room - (after + 2) - 1 + len >= 12
    BY <1>1, <1>3, <1>4, <1>5, <1>7, <1>10 DEF LASTLITERALS, MFLIMIT
  <2>2. QED BY <1>1, <1>4, <1>10, <1>12, <1>13, <1>14, <1>16, <1>17, <2>1
<1>19. s = size + SequenceSize(c.at - anchor, c.len)
  BY <1>7 DEF s, ll
<1>20. s <= input.room /\ EnoughLeft(input.room - s, c.len)
  BY <1>1, <1>7, <1>17, <1>18 DEF EnoughLeft
<1>21. QED BY <1>7, <1>11, <1>19, <1>20

LEMMA OverflowStep ==
    ASSUME Common, result = "coding", UNCHANGED <<input, reader>>,
           NEW m, GoodMatch(m), anchor <= m.at, pc # "call", Overflow(m)
    PROVE  /\ Common' /\ [BlockNext]_blockVars
           /\ pc' \in {"last", "returned"}
<1>1. CASE GiveUp
  BY <1>1, GiveUpStep DEF GiveUp
<1>2. CASE /\ pc' = "last"
           /\ UNCHANGED <<seqs, anchor, size, result, ip>>
  <2>1. ip' \in Start..End
    BY <1>2 DEF Common, CodingTypeOK
  <2>2. QED BY <1>2, <2>1, IdleStep
<1>3. ASSUME input.dir = "fillOutput", pc' = "last", UNCHANGED result,
             NEW c \in Clipped(m), Write(c), ip' = MatchEnd(c)
      PROVE  Common' /\ [BlockNext]_blockVars
  <2> DEFINE s == size + SequenceSize(c.at - anchor, c.len)
  <2>1. /\ GoodMatch(c) /\ c.at = m.at /\ s <= input.room
        /\ EnoughLeft(input.room - s, c.len)
    BY <1>3, ClippedFits
  <2>2. MatchEnd(c) \in Start..End
    BY <2>1, Limits, GoodBasics DEF Common, CodingTypeOK
  <2>3. AddSequence(c.at, c.off, c.len, s)
    BY <1>3 DEF Write
  <2>4. MatchOK(c.at, c.off, c.len)
    BY <2>1 DEF GoodMatch
  <2> HIDE DEF s
  <2>5. QED BY <1>3, <2>1, <2>2, <2>3, <2>4, SequenceStep DEF s
<1>4. QED BY <1>1, <1>2, <1>3 DEF Overflow, GiveUp

-----------------------------------------------------------------------------
(***************************************************************************)
(* Two matches whose borders are negotiated.  The first keeps four bytes   *)
(* at least, the second begins behind them, keeps its end and four bytes.  *)
(***************************************************************************)
Overlapping(a, b) ==
    /\ GoodMatch(a) /\ GoodMatch(b)
    /\ MatchEnd(a) <= mflimit /\ a.at <= b.at
    /\ MatchEnd(b) >= a.at + 8

LEMMA FirstLengthFits ==
    ASSUME input \in Inputs, NEW a, NEW b, Overlapping(a, b)
    PROVE  /\ FirstLength(a, b) \in 4..a.len
           /\ a.at + FirstLength(a, b) + 4 <= MatchEnd(b)
<1> DEFINE S == {a.len, 18, MatchEnd(b) - 4 - a.at}
<1>1. /\ a.at \in Nat /\ a.len \in Nat /\ a.len >= 4 /\ MatchEnd(b) \in Nat
      /\ MatchEnd(b) >= a.at + 8
  BY GoodBasics DEF Overlapping
<1>2. FirstLength(a, b) = Min(S)
  BY DEF FirstLength, OPTIMAL_ML, ML_MASK, MINMATCH
<1>3. \E z \in S : \A v \in S : z <= v
  <2> DEFINE x == a.len
             y == MatchEnd(b) - 4 - a.at
             u == IF x <= 18 THEN x ELSE 18
             z == IF u <= y THEN u ELSE y
  <2>1. x \in Int /\ y \in Int
    BY <1>1
  <2> HIDE DEF x, y
  <2>2. z \in {x, 18, y} /\ \A v \in {x, 18, y} : z <= v
    BY <2>1
  <2> HIDE DEF z
  <2>3. QED BY <2>2 DEF x, y
<1>4. Min(S) \in S /\ \A v \in S : Min(S) <= v
  <2> HIDE DEF S
  <2>1. QED BY <1>3 DEF Min
<1>5. /\ Min(S) <= a.len /\ Min(S) <= MatchEnd(b) - 4 - a.at
      /\ Min(S) \in Int /\ Min(S) >= 4
  <2>1. \A v \in S : v \in Int /\ v >= 4
    BY <1>1
  <2>2. QED BY <1>4, <2>1
<1>6. QED BY <1>1, <1>2, <1>5

LEMMA ShiftIs ==
    ASSUME NEW m \in Match, NEW n \in Int, NEW t, t = Shift(m, n)
    PROVE  t = [at |-> m.at + n, len |-> m.len - n, off |-> m.off]
BY DEF Shift, Match

LEMMA SqueezedFits ==
    ASSUME input \in Inputs, NEW a, NEW b, Overlapping(a, b)
    PROVE  LET s == Squeezed(a, b)
           IN /\ GoodMatch(s) /\ MatchEnd(s) = MatchEnd(b)
              /\ s.at >= a.at + 4 /\ s.at >= b.at /\ s.len <= b.len
              /\ s.at <= b.at \/ s.at <= MatchEnd(a)
              /\ b.at - a.at < OPTIMAL_ML => s.at >= a.at + FirstLength(a, b)
<1> DEFINE n == FirstLength(a, b)
           c == n - (b.at - a.at)
           s == Squeezed(a, b)
<1>1. /\ a.at \in Nat /\ a.len \in Nat /\ MatchEnd(a) = a.at + a.len
      /\ b \in Match /\ b.at \in Nat /\ b.len \in Nat /\ MatchEnd(b) = b.at + b.len
      /\ MatchEnd(a) <= mflimit /\ mflimit \in Int /\ a.at <= b.at
      /\ GoodMatch(b)
  BY GoodBasics, Limits DEF Overlapping
<1>2. n \in 4..a.len /\ a.at + n + 4 <= MatchEnd(b)
  BY FirstLengthFits
<1>3. OPTIMAL_ML = 18
  BY DEF OPTIMAL_ML, ML_MASK, MINMATCH
<1> HIDE DEF n
<1>4. CASE b.at - a.at < 18 /\ c > 0
  <2>1. s = [at |-> b.at + c, len |-> b.len - c, off |-> b.off]
    <3>1. s = Shift(b, c)
      BY <1>3, <1>4 DEF Squeezed, n
    <3> HIDE DEF s, c
    <3>2. QED BY <1>1, <3>1 DEF Shift, Match
  <2>2. /\ b.at + c = a.at + n /\ c \in Int /\ c > 0
        /\ (b.at + c) + (b.len - c) = b.at + b.len
        /\ b.len - c >= 4 /\ b.at + c <= mflimit
    BY <1>1, <1>2, <1>4
  <2> HIDE DEF s, c
  <2>3. GoodMatch(s)
    BY <1>1, <2>1, <2>2, GoodPart
  <2>4. s.at = a.at + n /\ s.at = b.at + c /\ s.len = b.len - c
    BY <2>1, <2>2
  <2>5. MatchEnd(s) = MatchEnd(b)
    BY <1>1, <2>2, <2>4 DEF MatchEnd
  <2>6. s.at >= a.at + 4 /\ s.at >= b.at /\ s.len <= b.len /\ s.at <= MatchEnd(a)
    BY <1>1, <1>2, <2>2, <2>4
  <2>7. QED BY <1>1, <1>2, <2>3, <2>4, <2>5, <2>6 DEF s, n
<1>5. CASE ~ (b.at - a.at < 18 /\ c > 0)
  <2>1. s = b
    BY <1>3, <1>5 DEF Squeezed, n
  <2>2. s.at >= a.at + 4 /\ (b.at - a.at < 18 => s.at >= a.at + n)
    BY <1>1, <1>2, <1>5, <2>1
  <2>3. QED BY <1>1, <1>3, <2>1, <2>2 DEF n
<1>6. QED BY <1>4, <1>5

(* The first of two is cut where the second begins. *)
LEMMA TrimmedFits ==
    ASSUME input \in Inputs, NEW a, GoodMatch(a), NEW b, b.at \in Nat,
           b.at >= a.at + 4
    PROVE  /\ GoodMatch(Trimmed(a, b)) /\ Trimmed(a, b).at = a.at
           /\ MatchEnd(Trimmed(a, b)) <= b.at
<1> DEFINE n == Min({a.len, b.at - a.at})
<1>1. /\ a \in Match /\ a.at \in Nat /\ a.len \in Nat /\ a.len >= 4
      /\ a.at <= mflimit
  BY GoodBasics, Limits DEF Match
<1>2. Trimmed(a, b) = [at |-> a.at, len |-> n, off |-> a.off]
  BY <1>1 DEF Trimmed, Match
<1>3. n \in {a.len, b.at - a.at} /\ n <= a.len /\ n <= b.at - a.at
  <2>1. a.len \in Int /\ b.at - a.at \in Int
    BY <1>1
  <2>2. QED BY <2>1, OneOrOther
<1> HIDE DEF n
<1>4. n \in Nat /\ n >= 4 /\ a.at + n <= b.at /\ a.at + n <= a.at + a.len
  BY <1>1, <1>3
<1>5. GoodMatch([at |-> a.at, len |-> n, off |-> a.off])
  BY <1>1, <1>4, GoodPart
<1>6. Trimmed(a, b).at = a.at /\ MatchEnd(Trimmed(a, b)) = a.at + n
  BY <1>2 DEF MatchEnd
<1>7. QED BY <1>2, <1>4, <1>5, <1>6
-----------------------------------------------------------------------------
-----------------------------------------------------------------------------
(***************************************************************************)
(* The steps of the hash-chain coder.                                      *)
(***************************************************************************)
LEMMA HcBasics ==
    ASSUME Common, UNCHANGED <<input, reader>>, pc # "returned"
    PROVE  /\ input' = input /\ input \in Inputs /\ result = "coding"
           /\ Start \in Nat /\ End \in Nat /\ anchor \in Start..End /\ anchor \in Nat
           /\ ip \in Start..End /\ ip \in Nat
           /\ Start' = Start /\ End' = End /\ mflimit' = mflimit
           /\ mflimit = End - 12 /\ matchlimit = End - 5
BY Limits, LimitsStay DEF Common, CodingTypeOK

(* Once the call ends only the type of nextToUpdate matters. *)
LEMMA HcEnds ==
    ASSUME HcInv, input.coder = "hc", input' = input,
           pc' \in {"last", "returned"}, nextToUpdate' \in Nat
    PROVE  HcInv'
BY DEF HcInv

LEMMA HcBeginStep ==
    ASSUME Common, HcInv, input.coder = "hc", UNCHANGED <<input, reader>>, HcBegin
    PROVE  /\ Common' /\ HcInv' /\ [BlockNext]_blockVars
           /\ nextToUpdate' >= nextToUpdate
<1>1. /\ pc = "call" /\ BeginCall(LZ4_minLength, "first") /\ ip' = ip
      /\ nextToUpdate' = nextToUpdate /\ anchor' = anchor
      /\ pc' \in {"last", "first"}
  BY DEF HcBegin, BeginCall, hcVars
<1>2. /\ input' = input /\ ip \in Start..End /\ ip \in Nat
  BY <1>1, HcBasics
<1>3. nextToUpdate \in Nat /\ nextToUpdate <= ip /\ anchor = Start /\ ip = Start
  BY <1>1 DEF HcInv, Common
<1>4. Common' /\ [BlockNext]_blockVars
  BY <1>1, <1>2, BeginCallStep
<1>5. HcInv'
  BY <1>1, <1>2, <1>3 DEF HcInv
<1>6. QED BY <1>1, <1>3, <1>4, <1>5

LEMMA SearchFirstStep ==
    ASSUME Common, HcInv, input.coder = "hc", UNCHANGED <<input, reader>>,
           SearchFirst
    PROVE  /\ Common' /\ HcInv' /\ [BlockNext]_blockVars
           /\ nextToUpdate' >= nextToUpdate
<1>1. /\ pc = "first" /\ UNCHANGED <<seqs, anchor, size, result, m2>>
      /\ \/ pc' = "last" /\ UNCHANGED <<ip, m0, m1, nextToUpdate>>
         \/ /\ ip <= mflimit /\ nextToUpdate' = ip
            /\ ip' = ip + 1 /\ pc' = pc
         \/ /\ ip <= mflimit /\ nextToUpdate' = ip
            /\ \E m \in Found(ip, ip, MINMATCH - 1) : m0' = m /\ m1' = m
            /\ pc' = "second" /\ ip' = ip
  BY DEF SearchFirst, Searches
<1>2. /\ input' = input /\ ip \in Start..End /\ ip \in Nat /\ result = "coding"
      /\ anchor \in Nat /\ End \in Nat /\ mflimit = End - 12 /\ Start \in Nat
      /\ input \in Inputs
  BY <1>1, HcBasics
<1>3. nextToUpdate \in Nat /\ nextToUpdate <= ip /\ anchor <= ip
  BY <1>1 DEF HcInv
<1>4. CASE pc' = "last" /\ UNCHANGED <<ip, m0, m1, nextToUpdate>>
  BY <1>1, <1>2, <1>3, <1>4, IdleStep, HcEnds
<1>5. CASE ip <= mflimit /\ nextToUpdate' = ip /\ ip' = ip + 1 /\ pc' = pc
  <2>1. ip' \in Start..End
    BY <1>2, <1>5
  <2>2. Common' /\ [BlockNext]_blockVars
    BY <1>1, <1>2, <1>5, <2>1, IdleStep
  <2>3. HcInv'
    BY <1>1, <1>2, <1>3, <1>5 DEF HcInv
  <2>4. QED BY <1>3, <1>5, <2>2, <2>3
<1>6. ASSUME ip <= mflimit, nextToUpdate' = ip, pc' = "second", ip' = ip,
             NEW m \in Found(ip, ip, MINMATCH - 1), m0' = m, m1' = m
      PROVE  Common' /\ HcInv' /\ [BlockNext]_blockVars
  <2>1. Common' /\ [BlockNext]_blockVars
    BY <1>1, <1>2, <1>6, IdleStep
  <2>2. GoodMatch(m) /\ m.at = ip
    <3>1. MINMATCH - 1 \in Nat
      BY DEF MINMATCH
    <3>2. QED BY <1>2, <1>6, <3>1, FoundIsGood
  <2>3. m.len \in Nat /\ m.len >= 4 /\ m.at \in Nat /\ MatchEnd(m) = m.at + m.len
    BY <1>2, <2>2, GoodBasics
  <2>4. GoodMatch(m0)' /\ GoodMatch(m1)'
    BY <1>2, <1>6, <2>2, GoodStays
  <2>5. SecondAt' = m.at + m.len - 2 /\ MatchEnd(m0)' = MatchEnd(m1)'
    BY <1>6, <2>3 DEF SecondAt, MatchEnd
  <2>6. nextToUpdate' <= SecondAt' /\ nextToUpdate' \in Nat
    BY <1>2, <1>6, <2>2, <2>3, <2>5
  <2>7. MatchEnd(m0)' <= MatchEnd(m1)'
    BY <1>6, <2>3 DEF MatchEnd
  <2>8. anchor' <= m0'.at /\ m0'.at <= m1'.at /\ m1'.at <= m0'.at + 2
    BY <1>1, <1>2, <1>3, <1>6, <2>2
  <2>9. HcInv'
    BY <1>2, <1>6, <2>4, <2>6, <2>7, <2>8 DEF HcInv
  <2>10. QED BY <2>1, <2>9
<1>7. QED
  <2>1. nextToUpdate' >= nextToUpdate
    BY <1>1, <1>3
  <2>2. QED BY <1>1, <1>4, <1>5, <1>6, <2>1

(* What the invariant says while a second match is looked for. *)
LEMMA SecondBasics ==
    ASSUME Common, HcInv, input.coder = "hc", UNCHANGED <<input, reader>>,
           pc = "second"
    PROVE  /\ GoodMatch(m0) /\ GoodMatch(m1)
           /\ m0.at \in Nat /\ m0.len \in Nat /\ MatchEnd(m0) = m0.at + m0.len
           /\ m1.at \in Nat /\ m1.len \in Nat /\ MatchEnd(m1) = m1.at + m1.len
           /\ m0.len >= 4 /\ m1.len >= 4
           /\ anchor <= m0.at /\ m0.at <= m1.at /\ m1.at <= m0.at + 2
           /\ MatchEnd(m0) <= MatchEnd(m1)
           /\ MatchEnd(m1) \in Start..End
           /\ SecondAt = m1.at + m1.len - 2 /\ SecondAt \in Nat
           /\ nextToUpdate \in Nat /\ nextToUpdate <= SecondAt
<1>1. /\ input \in Inputs /\ anchor \in Start..End /\ Start \in Nat /\ End \in Nat
  BY HcBasics
<1>2. /\ GoodMatch(m0) /\ GoodMatch(m1)
      /\ anchor <= m0.at /\ m0.at <= m1.at /\ m1.at <= m0.at + 2
      /\ MatchEnd(m0) <= MatchEnd(m1)
      /\ nextToUpdate \in Nat /\ nextToUpdate <= SecondAt
  BY DEF HcInv
<1>3. /\ m0.at \in Nat /\ m0.len \in Nat /\ MatchEnd(m0) = m0.at + m0.len
      /\ m1.at \in Nat /\ m1.len \in Nat /\ MatchEnd(m1) = m1.at + m1.len
      /\ m0.len >= 4 /\ m1.len >= 4 /\ MatchEnd(m1) \in 0..End
  BY <1>1, <1>2, GoodBasics
<1>4. SecondAt = m1.at + m1.len - 2
  BY <1>3 DEF SecondAt
<1>5. SecondAt \in Nat /\ MatchEnd(m1) \in Start..End
  BY <1>1, <1>2, <1>3, <1>4
<1>6. QED BY <1>2, <1>3, <1>4, <1>5

LEMMA EncodeOnlyMatchStep ==
    ASSUME Common, HcInv, input.coder = "hc", UNCHANGED <<input, reader>>,
           EncodeOnlyMatch
    PROVE  /\ Common' /\ HcInv' /\ [BlockNext]_blockVars
           /\ nextToUpdate' >= nextToUpdate
<1>1. /\ pc = "second"
      /\ EncodeSequence(m1, "first") \/ Overflow(m1)
      /\ nextToUpdate' = nextToUpdate \/ nextToUpdate' = SecondAt
  BY DEF EncodeOnlyMatch, Searches
<1>2. input' = input /\ input \in Inputs /\ result = "coding" /\ anchor \in Nat
  BY <1>1, HcBasics
<1>3. /\ GoodMatch(m1) /\ anchor <= m1.at /\ MatchEnd(m1) \in Start..End
      /\ m1.at \in Nat /\ m1.len \in Nat /\ MatchEnd(m1) = m1.at + m1.len
      /\ SecondAt = m1.at + m1.len - 2 /\ SecondAt \in Nat
      /\ nextToUpdate \in Nat /\ nextToUpdate <= SecondAt
  <2>1. m0.at \in Nat /\ m1.at \in Nat /\ anchor <= m0.at /\ m0.at <= m1.at
    BY <1>1, SecondBasics
  <2>2. anchor <= m1.at
    BY <1>2, <2>1
  <2>3. QED BY <1>1, <2>2, SecondBasics
<1>4. nextToUpdate' \in Nat /\ nextToUpdate' >= nextToUpdate
      /\ nextToUpdate' <= SecondAt
  BY <1>1, <1>3
<1>5. CASE EncodeSequence(m1, "first")
  <2>1. /\ Common' /\ [BlockNext]_blockVars
        /\ pc' = "first" /\ anchor' = MatchEnd(m1) /\ ip' = MatchEnd(m1)
    BY <1>2, <1>3, <1>5, EncodeSequenceStep
  <2>2. anchor' <= ip' /\ nextToUpdate' <= ip'
    BY <1>3, <1>4, <2>1
  <2>3. HcInv'
    BY <1>2, <1>4, <2>1, <2>2 DEF HcInv
  <2>4. QED BY <1>4, <2>1, <2>3
<1>6. CASE Overflow(m1)
  <2>1. Common' /\ [BlockNext]_blockVars /\ pc' \in {"last", "returned"}
    BY <1>1, <1>2, <1>3, <1>6, OverflowStep
  <2>2. QED BY <1>2, <1>4, <2>1, HcEnds
<1>7. QED BY <1>1, <1>5, <1>6

LEMMA SearchSecondStep ==
    ASSUME Common, HcInv, input.coder = "hc", UNCHANGED <<input, reader>>,
           SearchSecond
    PROVE  /\ Common' /\ HcInv' /\ [BlockNext]_blockVars
           /\ nextToUpdate' >= nextToUpdate
<1>1. /\ pc = "second" /\ MatchEnd(m1) <= mflimit
      /\ nextToUpdate' = SecondAt /\ ip' = m1'.at
      /\ UNCHANGED <<seqs, anchor, size, result, m0>>
  BY DEF SearchSecond, Searches
<1> DEFINE first(m) == IF m0.at < m1.at /\ m.at < m1.at + m0.len THEN m0 ELSE m1
<1>2. PICK m \in Found(SecondAt, m1.at, m1.len) :
         IF m.at - first(m).at < 3
         THEN m1' = m /\ pc' = "second" /\ UNCHANGED m2
         ELSE m1' = first(m) /\ m2' = m /\ pc' = "third"
  BY DEF SearchSecond
<1>3. /\ input' = input /\ input \in Inputs /\ result = "coding" /\ anchor \in Nat
      /\ Start \in Nat /\ End \in Nat /\ anchor \in Start..End
      /\ mflimit = End - 12 /\ mflimit' = mflimit
  BY <1>1, HcBasics
<1>4. /\ GoodMatch(m0) /\ GoodMatch(m1)
      /\ m0.at \in Nat /\ m0.len \in Nat /\ MatchEnd(m0) = m0.at + m0.len
      /\ m1.at \in Nat /\ m1.len \in Nat /\ MatchEnd(m1) = m1.at + m1.len
      /\ m0.len >= 4 /\ m1.len >= 4
      /\ anchor <= m0.at /\ m0.at <= m1.at /\ m1.at <= m0.at + 2
      /\ MatchEnd(m0) <= MatchEnd(m1)
      /\ SecondAt = m1.at + m1.len - 2 /\ SecondAt \in Nat
      /\ nextToUpdate \in Nat /\ nextToUpdate <= SecondAt
  BY <1>1, SecondBasics
<1>5. /\ GoodMatch(m) /\ m1.at <= m.at /\ m.at <= SecondAt /\ m.len > m1.len
  <2>1. SecondAt \in Nat /\ m1.at <= SecondAt /\ SecondAt <= mflimit
    BY <1>1, <1>3, <1>4
  <2>2. QED BY <1>2, <1>3, <1>4, <2>1, FoundIsGood
<1>6. /\ m.at \in Nat /\ m.len \in Nat /\ MatchEnd(m) = m.at + m.len
      /\ MatchEnd(m) \in 0..End
  BY <1>3, <1>5, GoodBasics
<1>7. nextToUpdate' \in Nat /\ nextToUpdate' >= nextToUpdate
  BY <1>1, <1>4
<1>8. first(m) \in {m0, m1}
  OBVIOUS
<1>9. CASE m.at - first(m).at < 3
  <2>1. m1' = m /\ pc' = "second" /\ ip' = m.at
    BY <1>1, <1>2, <1>9
  <2>2. m.at <= m0.at + 2
    <3>1. CASE first(m) = m0
      BY <1>4, <1>6, <1>9, <3>1
    <3>2. CASE first(m) = m1 /\ m0.at = m1.at
      BY <1>4, <1>6, <1>9, <3>2
    <3>3. CASE first(m) = m1 /\ m0.at # m1.at
      <4>1. m0.at < m1.at
        BY <1>4, <3>3
      <4>2. m.at < m1.at + 3
        BY <1>4, <1>6, <1>9, <3>3
      <4>3. m.at < m1.at + m0.len
        BY <1>4, <1>6, <4>2
      <4>4. first(m) = m0
        BY <4>1, <4>3
      <4>5. QED BY <3>3, <4>4
    <3> HIDE DEF first
    <3>4. QED BY <1>8, <3>1, <3>2, <3>3
  <2>3. ip' \in Start..End
    BY <1>3, <1>4, <1>5, <1>6, <2>1
  <2>4. Common' /\ [BlockNext]_blockVars
    BY <1>1, <1>3, <2>1, <2>3, IdleStep
  <2>5. GoodMatch(m0)' /\ GoodMatch(m1)'
    BY <1>1, <1>3, <1>4, <1>5, <2>1, GoodStays
  <2>6. SecondAt' = m.at + m.len - 2
    BY <1>6, <2>1 DEF SecondAt, MatchEnd
  <2>7. nextToUpdate' <= SecondAt'
    BY <1>1, <1>4, <1>5, <1>6, <2>6
  <2>8. MatchEnd(m0)' <= MatchEnd(m1)'
    <3>1. MatchEnd(m0)' = m0.at + m0.len /\ MatchEnd(m1)' = m.at + m.len
      BY <1>1, <2>1 DEF MatchEnd
    <3>2. QED BY <1>4, <1>5, <1>6, <3>1
  <2>9. anchor' <= m0'.at /\ m0'.at <= m1'.at /\ m1'.at <= m0'.at + 2
    BY <1>1, <1>3, <1>4, <1>5, <1>6, <2>1, <2>2
  <2>10. HcInv'
    BY <1>3, <1>7, <2>1, <2>5, <2>7, <2>8, <2>9 DEF HcInv
  <2>11. QED BY <1>7, <2>4, <2>10
<1>10. CASE ~ (m.at - first(m).at < 3)
  <2>1. m1' = first(m) /\ m2' = m /\ pc' = "third" /\ ip' = first(m).at
    BY <1>1, <1>2, <1>10
  <2>2. first(m) = m0 => m.at < m1.at + m0.len \/ m0 = m1
    OBVIOUS
  <2> DEFINE f == first(m)
  <2>3. f \in {m0, m1} /\ f.at \in Nat /\ f.len \in Nat /\ MatchEnd(f) = f.at + f.len
    BY <1>4, <1>8
  <2>4. m.at >= f.at + 3
    <3> HIDE DEF f
    <3>1. m.at - f.at >= 3
      <4>1. ~ (m.at - f.at < 3)
        BY <1>10 DEF f
      <4>2. QED BY <1>6, <2>3, <4>1
    <3>2. QED BY <1>6, <2>3, <3>1
  <2>5. m.at <= MatchEnd(f) + 1
    <3>1. CASE f = m1
      BY <1>4, <1>5, <1>6, <3>1
    <3>2. CASE f = m0 /\ m.at < m1.at + m0.len
      BY <1>4, <1>6, <3>2
    <3>3. QED BY <2>2, <2>3, <3>1, <3>2
  <2> HIDE DEF f
  <2>6. /\ GoodMatch(f) /\ anchor <= f.at /\ f.at <= m1.at
        /\ MatchEnd(f) <= MatchEnd(m1)
    <3>1. anchor <= m1.at /\ MatchEnd(m1) <= MatchEnd(m1) /\ m1.at <= m1.at
      BY <1>3, <1>4
    <3>2. QED BY <1>4, <2>3, <3>1
  <2>7. /\ m1' = f /\ m2' = m /\ pc' = "third" /\ ip' = f.at
    BY <2>1 DEF f
  <2>8. ip' \in Start..End
    BY <1>3, <1>4, <2>3, <2>6, <2>7, SecondBasics, <1>1
  <2>9. Common' /\ [BlockNext]_blockVars
    BY <1>1, <1>3, <2>7, <2>8, IdleStep
  <2>10. GoodMatch(m1)' /\ GoodMatch(m2)'
    BY <1>3, <1>5, <2>6, <2>7, GoodStays
  <2>11. /\ MatchEnd(m1)' = MatchEnd(f) /\ MatchEnd(m2)' = MatchEnd(m)
         /\ ThirdAt(m2)' = m.at + m.len - 3
    BY <1>6, <2>7 DEF MatchEnd, ThirdAt
  <2>12. nextToUpdate' <= ThirdAt(m2)'
    BY <1>1, <1>4, <1>5, <1>6, <2>11
  <2>13. MatchEnd(m1)' <= mflimit'
    BY <1>1, <1>3, <1>4, <2>3, <2>6, <2>11
  <2>14. m2'.at <= MatchEnd(m1)' + 1
    BY <2>5, <2>7, <2>11
  <2>15. MatchEnd(m2)' >= m1'.at + 8
    BY <1>4, <1>5, <1>6, <2>3, <2>4, <2>7, <2>11
  <2>16. anchor' <= m1'.at /\ m1'.at <= m2'.at
    BY <1>1, <1>6, <2>3, <2>4, <2>6, <2>7
  <2>17. HcInv'
    BY <1>3, <1>7, <2>7, <2>10, <2>12, <2>13, <2>14, <2>15, <2>16 DEF HcInv
  <2>18. QED BY <1>7, <2>9, <2>17
<1>11. QED BY <1>9, <1>10

(***************************************************************************)
(* What the invariant says while a third match is looked for, and what the *)
(* negotiation makes of the second.                                        *)
(***************************************************************************)
LEMMA ThirdBasics ==
    ASSUME Common, HcInv, input.coder = "hc", UNCHANGED <<input, reader>>,
           pc = "third", NEW s, s = Squeezed(m1, m2)
    PROVE  /\ GoodMatch(m1) /\ GoodMatch(m2) /\ Overlapping(m1, m2)
           /\ m1.at \in Nat /\ m1.len \in Nat /\ MatchEnd(m1) = m1.at + m1.len
           /\ MatchEnd(m1) \in Start..End /\ MatchEnd(m1) <= mflimit
           /\ m1.len >= 4 /\ anchor <= m1.at
           /\ GoodMatch(s) /\ Overlapping(m1, s)
           /\ s.at \in Nat /\ s.len \in Nat /\ MatchEnd(s) = s.at + s.len
           /\ s.len >= 4 /\ s.at >= m1.at + 4 /\ s.at <= MatchEnd(m1) + 1
           /\ MatchEnd(s) >= m1.at + 8
           /\ ThirdAt(s) = s.at + s.len - 3 /\ ThirdAt(s) \in Nat
           /\ nextToUpdate \in Nat /\ nextToUpdate <= ThirdAt(s)
<1>1. /\ input \in Inputs /\ anchor \in Start..End /\ Start \in Nat /\ End \in Nat
      /\ mflimit = End - 12
  BY HcBasics
<1>2. /\ GoodMatch(m1) /\ GoodMatch(m2)
      /\ anchor <= m1.at /\ m1.at <= m2.at
      /\ MatchEnd(m1) <= mflimit
      /\ m2.at <= MatchEnd(m1) + 1
      /\ MatchEnd(m2) >= m1.at + 8
      /\ nextToUpdate \in Nat /\ nextToUpdate <= ThirdAt(m2)
  BY DEF HcInv
<1>3. Overlapping(m1, m2)
  BY <1>2 DEF Overlapping
<1>4. /\ GoodMatch(s) /\ MatchEnd(s) = MatchEnd(m2)
      /\ s.at >= m1.at + 4
      /\ s.at <= m2.at \/ s.at <= MatchEnd(m1)
  BY <1>1, <1>3, SqueezedFits
<1>5. /\ m1.at \in Nat /\ m1.len \in Nat /\ MatchEnd(m1) = m1.at + m1.len
      /\ m2.at \in Nat /\ m2.len \in Nat /\ MatchEnd(m2) = m2.at + m2.len
      /\ m1.len >= 4 /\ MatchEnd(m1) \in 0..End
  BY <1>1, <1>2, GoodBasics
<1>6. /\ s.at \in Nat /\ s.len \in Nat /\ MatchEnd(s) = s.at + s.len /\ s.len >= 4
  BY <1>1, <1>4, GoodBasics
<1>7. ThirdAt(s) = s.at + s.len - 3 /\ ThirdAt(s) = ThirdAt(m2)
  BY <1>4, <1>6 DEF ThirdAt
<1>8. ThirdAt(s) \in Nat /\ s.at <= MatchEnd(m1) + 1
  BY <1>2, <1>4, <1>5, <1>6, <1>7
<1>9. Overlapping(m1, s)
  BY <1>2, <1>4, <1>5, <1>6 DEF Overlapping
<1>10. MatchEnd(m1) \in Start..End
  BY <1>1, <1>2, <1>5
<1>11. MatchEnd(s) >= m1.at + 8 /\ nextToUpdate <= ThirdAt(s)
  BY <1>2, <1>4, <1>7
<1>12. QED BY <1>2, <1>3, <1>4, <1>5, <1>6, <1>7, <1>8, <1>9, <1>10, <1>11

(* The third match. *)
LEMMA ThirdFound ==
    ASSUME Common, HcInv, input.coder = "hc", UNCHANGED <<input, reader>>,
           pc = "third", NEW s, s = Squeezed(m1, m2), NEW m \in Thirds(s)
    PROVE  /\ GoodMatch(m) /\ m.at \in Nat /\ m.len \in Nat
           /\ MatchEnd(m) = m.at + m.len
           /\ s.at <= m.at /\ m.at <= ThirdAt(s) /\ m.len > s.len
           /\ MatchEnd(s) <= mflimit
<1>1. MatchEnd(s) <= mflimit /\ m \in Found(ThirdAt(s), s.at, s.len)
  BY DEF Thirds
<1>2. input \in Inputs /\ mflimit \in Int
  BY HcBasics
<1>3. /\ s.at \in Nat /\ s.len \in Nat /\ MatchEnd(s) = s.at + s.len
      /\ s.len >= 4 /\ ThirdAt(s) = s.at + s.len - 3 /\ ThirdAt(s) \in Nat
  BY ThirdBasics
<1>4. s.at <= ThirdAt(s) /\ ThirdAt(s) <= mflimit
  BY <1>1, <1>2, <1>3
<1>5. GoodMatch(m) /\ s.at <= m.at /\ m.at <= ThirdAt(s) /\ m.len > s.len
  BY <1>1, <1>2, <1>3, <1>4, FoundIsGood
<1>6. QED BY <1>1, <1>2, <1>5, GoodBasics

LEMMA EncodeBothStep ==
    ASSUME Common, HcInv, input.coder = "hc", UNCHANGED <<input, reader>>,
           EncodeBoth
    PROVE  /\ Common' /\ HcInv' /\ [BlockNext]_blockVars
           /\ nextToUpdate' >= nextToUpdate
<1> DEFINE s == Squeezed(m1, m2)
           f == Trimmed(m1, s)
<1>1. /\ pc = "third"
      /\ EncodeSequence(f, "both") \/ Overflow(f)
      /\ nextToUpdate' = nextToUpdate \/ nextToUpdate' = ThirdAt(s)
      /\ m2' = s
  BY DEF EncodeBoth, Searches
<1>2. /\ input' = input /\ input \in Inputs /\ result = "coding" /\ anchor \in Nat
  BY <1>1, HcBasics
<1>3. /\ GoodMatch(m1) /\ anchor <= m1.at /\ m1.at \in Nat
      /\ GoodMatch(s) /\ s.at \in Nat /\ s.len \in Nat /\ MatchEnd(s) = s.at + s.len
      /\ s.at >= m1.at + 4
      /\ ThirdAt(s) = s.at + s.len - 3 /\ ThirdAt(s) \in Nat
      /\ nextToUpdate \in Nat /\ nextToUpdate <= ThirdAt(s)
  <2> HIDE DEF s
  <2>1. s = Squeezed(m1, m2)
    BY DEF s
  <2>2. QED BY <1>1, <2>1, ThirdBasics
<1> HIDE DEF s
<1>4. GoodMatch(f) /\ f.at = m1.at /\ MatchEnd(f) <= s.at
  BY <1>2, <1>3, TrimmedFits
<1> HIDE DEF f
<1>5. nextToUpdate' \in Nat /\ nextToUpdate' >= nextToUpdate
      /\ nextToUpdate' <= ThirdAt(s)
  BY <1>1, <1>3
<1>6. anchor <= f.at
  BY <1>3, <1>4
<1>7. CASE EncodeSequence(f, "both")
  <2>1. /\ Common' /\ [BlockNext]_blockVars
        /\ pc' = "both" /\ anchor' = MatchEnd(f)
    BY <1>2, <1>4, <1>6, <1>7, EncodeSequenceStep
  <2>2. anchor' <= m2'.at
    BY <1>1, <1>4, <2>1
  <2>3. GoodMatch(m2)'
    BY <1>1, <1>2, <1>3, GoodStays
  <2>4. MatchEnd(m2)' = s.at + s.len
    BY <1>1 DEF MatchEnd
  <2>5. nextToUpdate' <= MatchEnd(m2)'
    BY <1>3, <1>5, <2>4
  <2>6. HcInv'
    BY <1>2, <1>5, <2>1, <2>2, <2>3, <2>5 DEF HcInv
  <2>7. QED BY <1>5, <2>1, <2>6
<1>8. CASE Overflow(f)
  <2>1. Common' /\ [BlockNext]_blockVars /\ pc' \in {"last", "returned"}
    BY <1>1, <1>2, <1>4, <1>6, <1>8, OverflowStep
  <2>2. QED BY <1>2, <1>5, <2>1, HcEnds
<1>9. QED BY <1>1, <1>7, <1>8

LEMMA EncodeSecondStep ==
    ASSUME Common, HcInv, input.coder = "hc", UNCHANGED <<input, reader>>,
           EncodeSecond
    PROVE  /\ Common' /\ HcInv' /\ [BlockNext]_blockVars
           /\ nextToUpdate' >= nextToUpdate
<1>1. /\ pc = "both"
      /\ EncodeSequence(m2, "first") \/ Overflow(m2)
      /\ nextToUpdate' = nextToUpdate
  BY DEF EncodeSecond, hcVars
<1>2. input' = input /\ input \in Inputs /\ result = "coding"
  BY <1>1, HcBasics
<1>3. /\ GoodMatch(m2) /\ anchor <= m2.at /\ nextToUpdate \in Nat
      /\ nextToUpdate <= MatchEnd(m2)
  BY <1>1 DEF HcInv
<1>4. MatchEnd(m2) \in Nat
  BY <1>2, <1>3, GoodBasics
<1>5. CASE EncodeSequence(m2, "first")
  <2>1. /\ Common' /\ [BlockNext]_blockVars
        /\ pc' = "first" /\ anchor' = MatchEnd(m2) /\ ip' = MatchEnd(m2)
    BY <1>2, <1>3, <1>5, EncodeSequenceStep
  <2>2. anchor' <= ip' /\ nextToUpdate' <= ip'
    BY <1>1, <1>3, <1>4, <2>1
  <2>3. HcInv'
    BY <1>1, <1>2, <1>3, <2>1, <2>2 DEF HcInv
  <2>4. QED BY <1>1, <1>3, <2>1, <2>3
<1>6. CASE Overflow(m2)
  <2>1. Common' /\ [BlockNext]_blockVars /\ pc' \in {"last", "returned"}
    BY <1>1, <1>2, <1>3, <1>6, OverflowStep
  <2>2. nextToUpdate' \in Nat /\ nextToUpdate' >= nextToUpdate
    BY <1>1, <1>3
  <2>3. QED BY <1>2, <2>1, <2>2, HcEnds
<1>7. QED BY <1>1, <1>5, <1>6

LEMMA DropSecondStep ==
    ASSUME Common, HcInv, input.coder = "hc", UNCHANGED <<input, reader>>,
           DropSecond
    PROVE  /\ Common' /\ HcInv' /\ [BlockNext]_blockVars
           /\ nextToUpdate' >= nextToUpdate
<1> DEFINE s == Squeezed(m1, m2)
<1>1. /\ pc = "third" /\ nextToUpdate' = ThirdAt(s)
      /\ UNCHANGED <<pc, ip, seqs, anchor, size, result, m0, m1>>
  BY DEF DropSecond, Searches
<1>2. PICK m \in Thirds(s) : m.at < MatchEnd(m1) /\ m2' = m
  BY DEF DropSecond
<1>3. /\ input' = input /\ input \in Inputs /\ result = "coding" /\ anchor \in Nat
      /\ ip \in Start..End /\ mflimit' = mflimit
  BY <1>1, HcBasics
<1> HIDE DEF s
<1>4. s = Squeezed(m1, m2)
  BY DEF s
<1>5. /\ GoodMatch(m1) /\ anchor <= m1.at /\ m1.at \in Nat
      /\ MatchEnd(m1) \in Start..End /\ MatchEnd(m1) <= mflimit
      /\ s.at \in Nat /\ s.len \in Nat /\ MatchEnd(s) = s.at + s.len
      /\ s.at >= m1.at + 4 /\ MatchEnd(s) >= m1.at + 8
      /\ ThirdAt(s) = s.at + s.len - 3 /\ ThirdAt(s) \in Nat
      /\ nextToUpdate \in Nat /\ nextToUpdate <= ThirdAt(s)
  BY <1>1, <1>4, ThirdBasics
<1>6. /\ GoodMatch(m) /\ m.at \in Nat /\ m.len \in Nat
      /\ MatchEnd(m) = m.at + m.len
      /\ s.at <= m.at /\ m.len > s.len
  BY <1>1, <1>4, ThirdFound
<1>7. Common' /\ [BlockNext]_blockVars
  BY <1>1, <1>3, IdleStep
<1>8. GoodMatch(m1)' /\ GoodMatch(m2)'
  BY <1>1, <1>2, <1>3, <1>5, <1>6, GoodStays
<1>9. /\ MatchEnd(m1)' = MatchEnd(m1) /\ MatchEnd(m2)' = MatchEnd(m)
      /\ ThirdAt(m2)' = m.at + m.len - 3
  BY <1>1, <1>2, <1>6 DEF MatchEnd, ThirdAt
<1>10. nextToUpdate' <= ThirdAt(m2)' /\ MatchEnd(m2)' >= m1'.at + 8
  BY <1>1, <1>5, <1>6, <1>9
<1>11. /\ MatchEnd(m1)' <= mflimit' /\ m2'.at <= MatchEnd(m1)' + 1
       /\ anchor' <= m1'.at /\ m1'.at <= m2'.at
  <2>1. MatchEnd(m1) \in Int
    BY <1>3, <1>5, GoodBasics
  <2>2. QED BY <1>1, <1>2, <1>3, <1>5, <1>6, <1>9, <2>1
<1>12. nextToUpdate' \in Nat /\ nextToUpdate' >= nextToUpdate
  BY <1>1, <1>5
<1>13. HcInv'
  BY <1>1, <1>3, <1>8, <1>10, <1>11, <1>12 DEF HcInv
<1>14. QED BY <1>7, <1>12, <1>13

(* What is left of the second match, or the third in its place. *)
LEMMA RemainderFits ==
    ASSUME Common, HcInv, input.coder = "hc", UNCHANGED <<input, reader>>,
           pc = "third", NEW s, s = Squeezed(m1, m2), NEW m \in Thirds(s),
           m.at >= MatchEnd(m1), m.at < MatchEnd(m1) + 3
    PROVE  LET r == Remainder(s, m)
           IN /\ GoodMatch(r) /\ MatchEnd(m1) <= r.at /\ r.at <= m.at
              /\ MatchEnd(r) <= MatchEnd(m)
<1> DEFINE r == Remainder(s, m)
           d == MatchEnd(m1) - s.at
<1>1. /\ input \in Inputs /\ mflimit \in Int
  BY HcBasics
<1>2. /\ m1.at \in Nat /\ m1.len \in Nat /\ MatchEnd(m1) = m1.at + m1.len
      /\ MatchEnd(m1) <= mflimit /\ GoodMatch(s)
      /\ s.at \in Nat /\ s.len \in Nat /\ MatchEnd(s) = s.at + s.len
  BY ThirdBasics
<1>3. /\ GoodMatch(m) /\ m.at \in Nat /\ m.len \in Nat
      /\ MatchEnd(m) = m.at + m.len
      /\ s.at <= m.at /\ m.len > s.len
  BY ThirdFound
<1>4. CASE r = m
  BY <1>2, <1>3, <1>4
<1>5. CASE r # m /\ s.at < MatchEnd(m1)
  <2>1. r = Shift(s, d) /\ ~ (r.len < 4)
    BY <1>5 DEF Remainder, MINMATCH
  <2>2. Shift(s, d) = [at |-> s.at + d, len |-> s.len - d, off |-> s.off]
    <3>1. s \in Match /\ d \in Int
      BY <1>2 DEF GoodMatch
    <3>2. QED BY <3>1, ShiftIs
  <2>3. /\ s.at + d = MatchEnd(m1) /\ d \in Nat
        /\ (s.at + d) + (s.len - d) = s.at + s.len
    BY <1>2, <1>5
  <2> HIDE DEF r, d
  <2>4. r.at = MatchEnd(m1) /\ r.len = s.len - d
    BY <2>1, <2>2, <2>3
  <2>5. s.len - d >= 4 /\ s.len - d \in Nat
    BY <1>2, <2>1, <2>3, <2>4
  <2>6. GoodMatch(r)
    <3>1. /\ s.at + d \in Nat /\ s.at <= s.at + d /\ s.at + d <= mflimit
          /\ (s.at + d) + (s.len - d) <= s.at + s.len
      BY <1>2, <2>3
    <3>2. QED BY <1>1, <1>2, <2>1, <2>2, <2>5, <3>1, GoodPart
  <2>7. MatchEnd(r) = s.at + s.len
    BY <2>3, <2>4 DEF MatchEnd
  <2>8. QED BY <1>2, <1>3, <2>4, <2>6, <2>7 DEF r
<1>6. CASE r # m /\ ~ (s.at < MatchEnd(m1))
  <2>1. r = s
    BY <1>6 DEF Remainder
  <2>2. QED BY <1>2, <1>3, <1>6, <2>1
<1>7. QED BY <1>4, <1>5, <1>6

LEMMA SkipSecondStep ==
    ASSUME Common, HcInv, input.coder = "hc", UNCHANGED <<input, reader>>,
           SkipSecond
    PROVE  /\ Common' /\ HcInv' /\ [BlockNext]_blockVars
           /\ nextToUpdate' >= nextToUpdate
<1> DEFINE s == Squeezed(m1, m2)
<1>1. /\ pc = "third" /\ nextToUpdate' = ThirdAt(s)
      /\ EncodeSequence(m1, "second") \/ Overflow(m1)
  BY DEF SkipSecond, Searches
<1>2. PICK m \in Thirds(s) :
         /\ m.at >= MatchEnd(m1) /\ m.at < MatchEnd(m1) + 3
         /\ m0' = Remainder(s, m) /\ m1' = m
  BY DEF SkipSecond
<1>3. /\ input' = input /\ input \in Inputs /\ result = "coding" /\ anchor \in Nat
  BY <1>1, HcBasics
<1> HIDE DEF s
<1>4. s = Squeezed(m1, m2)
  BY DEF s
<1>5. /\ GoodMatch(m1) /\ anchor <= m1.at
      /\ MatchEnd(m1) \in Start..End /\ MatchEnd(m1) \in Nat
      /\ s.at \in Nat /\ s.len \in Nat /\ MatchEnd(s) = s.at + s.len
      /\ ThirdAt(s) = s.at + s.len - 3 /\ ThirdAt(s) \in Nat
      /\ nextToUpdate \in Nat /\ nextToUpdate <= ThirdAt(s)
  BY <1>1, <1>3, <1>4, ThirdBasics, GoodBasics
<1>6. /\ GoodMatch(m) /\ m.at \in Nat /\ m.len \in Nat
      /\ MatchEnd(m) = m.at + m.len
      /\ s.at <= m.at /\ m.len > s.len
  BY <1>1, <1>4, ThirdFound
<1> DEFINE r == Remainder(s, m)
<1>7. /\ GoodMatch(r) /\ MatchEnd(m1) <= r.at /\ r.at <= m.at
      /\ MatchEnd(r) <= MatchEnd(m)
  BY <1>1, <1>2, <1>4, RemainderFits
<1> HIDE DEF r
<1>8. m0' = r
  BY <1>2 DEF r
<1>9. nextToUpdate' \in Nat /\ nextToUpdate' >= nextToUpdate
  BY <1>1, <1>5
<1>10. CASE EncodeSequence(m1, "second")
  <2>1. /\ Common' /\ [BlockNext]_blockVars
        /\ pc' = "second" /\ anchor' = MatchEnd(m1)
    BY <1>3, <1>5, <1>10, EncodeSequenceStep
  <2>2. GoodMatch(m0)' /\ GoodMatch(m1)'
    BY <1>2, <1>3, <1>6, <1>7, <1>8, GoodStays
  <2>3. /\ MatchEnd(m0)' = MatchEnd(r) /\ MatchEnd(m1)' = MatchEnd(m)
        /\ SecondAt' = m.at + m.len - 2
    BY <1>2, <1>6, <1>8 DEF MatchEnd, SecondAt
  <2>4. nextToUpdate' <= SecondAt'
    BY <1>1, <1>5, <1>6, <2>3
  <2>5. /\ anchor' <= m0'.at /\ m0'.at <= m1'.at /\ m1'.at <= m0'.at + 2
    <3>1. r.at \in Nat
      BY <1>3, <1>7, GoodBasics
    <3>2. QED BY <1>2, <1>5, <1>6, <1>7, <1>8, <2>1, <3>1
  <2>6. HcInv'
    BY <1>3, <1>7, <1>9, <2>1, <2>2, <2>3, <2>4, <2>5 DEF HcInv
  <2>7. QED BY <1>9, <2>1, <2>6
<1>11. CASE Overflow(m1)
  <2>1. Common' /\ [BlockNext]_blockVars /\ pc' \in {"last", "returned"}
    BY <1>1, <1>3, <1>5, <1>11, OverflowStep
  <2>2. QED BY <1>3, <1>9, <2>1, HcEnds
<1>12. QED BY <1>1, <1>10, <1>11

(***************************************************************************)
(* Of three matches the first is written; the second, moved if it has to   *)
(* be, takes its place, and the third covers eight bytes of it.            *)
(***************************************************************************)
LEMMA OfThree ==
    ASSUME Common, HcInv, input.coder = "hc", UNCHANGED <<input, reader>>,
           pc = "third", NEW s, s = Squeezed(m1, m2), NEW m \in Thirds(s),
           m.at >= MatchEnd(m1) + 3,
           NEW moved, moved = IF s.at < MatchEnd(m1) THEN Squeezed(m1, s) ELSE s,
           NEW first,
           first = IF s.at >= MatchEnd(m1) THEN m1
                   ELSE IF s.at - m1.at < OPTIMAL_ML
                        THEN [m1 EXCEPT !.len = FirstLength(m1, s)]
                        ELSE Trimmed(m1, s)
    PROVE  /\ GoodMatch(first) /\ first.at = m1.at /\ MatchEnd(first) <= moved.at
           /\ GoodMatch(moved) /\ MatchEnd(moved) = MatchEnd(s)
           /\ moved.at <= m.at /\ MatchEnd(m) >= moved.at + 8
<1>1. input \in Inputs
  BY HcBasics
<1>2. /\ GoodMatch(m1) /\ Overlapping(m1, s)
      /\ m1.at \in Nat /\ m1.len \in Nat /\ MatchEnd(m1) = m1.at + m1.len
      /\ MatchEnd(m1) <= mflimit
      /\ GoodMatch(s) /\ s.at \in Nat /\ s.len \in Nat
      /\ MatchEnd(s) = s.at + s.len
      /\ s.len >= 4 /\ s.at >= m1.at + 4 /\ s.at <= MatchEnd(m1) + 1
      /\ ThirdAt(s) = s.at + s.len - 3
  BY ThirdBasics
<1>3. /\ m.at \in Nat /\ m.len \in Nat /\ MatchEnd(m) = m.at + m.len
      /\ m.at <= ThirdAt(s) /\ m.len > s.len
  BY ThirdFound
<1>4. CASE s.at >= MatchEnd(m1)
  <2>1. moved = s /\ first = m1
    BY <1>2, <1>4
  <2>2. s.len >= 5 \/ s.at = MatchEnd(m1)
    BY <1>2, <1>3, <1>4
  <2>3. m.at + m.len >= s.at + 8
    BY <1>2, <1>3, <1>4, <2>2
  <2>4. s.at <= m.at
    BY <1>2, <1>3
  <2>5. QED BY <1>2, <1>3, <1>4, <2>1, <2>3, <2>4
<1>5. CASE s.at < MatchEnd(m1)
  <2>1. moved = Squeezed(m1, s)
    BY <1>5
  <2>2. /\ GoodMatch(moved) /\ MatchEnd(moved) = MatchEnd(s)
        /\ moved.at >= s.at
        /\ moved.at <= s.at \/ moved.at <= MatchEnd(m1)
        /\ s.at - m1.at < OPTIMAL_ML => moved.at >= m1.at + FirstLength(m1, s)
    BY <1>1, <1>2, <2>1, SqueezedFits
  <2>3. moved.at \in Nat
    BY <1>1, <2>2, GoodBasics
  <2>4. moved.at <= MatchEnd(m1)
    BY <1>2, <1>5, <2>2, <2>3
  <2>5. moved.at <= m.at /\ MatchEnd(m) >= moved.at + 8
    BY <1>2, <1>3, <2>3, <2>4
  <2>6. CASE s.at - m1.at < OPTIMAL_ML
    <3> DEFINE n == FirstLength(m1, s)
    <3>1. n \in 4..m1.len
      BY <1>1, <1>2, FirstLengthFits
    <3>2. moved.at >= m1.at + n
      BY <2>2, <2>6
    <3>3. first = [m1 EXCEPT !.len = n]
      BY <1>2, <1>5, <2>6
    <3> HIDE DEF n
    <3>4. first = [at |-> m1.at, len |-> n, off |-> m1.off]
      BY <1>2, <3>3 DEF GoodMatch, Match
    <3>5. n \in Nat /\ n >= 4 /\ m1.at + n <= m1.at + m1.len /\ m1.at <= mflimit
      BY <1>2, <3>1 DEF GoodMatch, MatchOK
    <3>6. GoodMatch(first)
      BY <1>1, <1>2, <3>4, <3>5, GoodPart
    <3>7. first.at = m1.at /\ MatchEnd(first) = m1.at + n
      BY <3>4 DEF MatchEnd
    <3>8. QED BY <2>2, <2>5, <3>2, <3>6, <3>7
  <2>7. CASE ~ (s.at - m1.at < OPTIMAL_ML)
    <3>1. first = Trimmed(m1, s)
      BY <1>2, <1>5, <2>7
    <3>2. GoodMatch(first) /\ first.at = m1.at /\ MatchEnd(first) <= s.at
      BY <1>1, <1>2, <3>1, TrimmedFits
    <3>3. MatchEnd(first) \in Nat
      BY <1>1, <3>2, GoodBasics
    <3>4. MatchEnd(first) <= moved.at
      BY <1>2, <2>2, <2>3, <3>2, <3>3
    <3>5. QED BY <2>2, <2>5, <3>2, <3>4
  <2>8. QED BY <2>6, <2>7
<1>6. QED BY <1>2, <1>4, <1>5

LEMMA EncodeOfThreeStep ==
    ASSUME Common, HcInv, input.coder = "hc", UNCHANGED <<input, reader>>,
           EncodeOfThree
    PROVE  /\ Common' /\ HcInv' /\ [BlockNext]_blockVars
           /\ nextToUpdate' >= nextToUpdate
<1> DEFINE s == Squeezed(m1, m2)
           moved == IF s.at < MatchEnd(m1) THEN Squeezed(m1, s) ELSE s
           first == IF s.at >= MatchEnd(m1) THEN m1
                    ELSE IF s.at - m1.at < OPTIMAL_ML
                         THEN [m1 EXCEPT !.len = FirstLength(m1, s)]
                         ELSE Trimmed(m1, s)
<1>1. /\ pc = "third" /\ nextToUpdate' = ThirdAt(s)
      /\ EncodeSequence(first, "third") \/ Overflow(first)
  BY DEF EncodeOfThree, Searches
<1>2. PICK m \in Thirds(s) :
         m.at >= MatchEnd(m1) + 3 /\ m1' = moved /\ m2' = m
  BY DEF EncodeOfThree
<1>3. /\ input' = input /\ input \in Inputs /\ result = "coding" /\ anchor \in Nat
      /\ mflimit' = mflimit /\ mflimit \in Int
  BY <1>1, HcBasics
<1> HIDE DEF s
<1>4. s = Squeezed(m1, m2)
  BY DEF s
<1>5. /\ GoodMatch(m1) /\ anchor <= m1.at
      /\ s.at \in Nat /\ s.len \in Nat /\ MatchEnd(s) = s.at + s.len
      /\ ThirdAt(s) = s.at + s.len - 3 /\ ThirdAt(s) \in Nat
      /\ nextToUpdate \in Nat /\ nextToUpdate <= ThirdAt(s)
  BY <1>1, <1>3, <1>4, ThirdBasics
<1>6. /\ GoodMatch(m) /\ m.at \in Nat /\ m.len \in Nat
      /\ MatchEnd(m) = m.at + m.len /\ MatchEnd(s) <= mflimit
      /\ s.at <= m.at /\ m.at <= ThirdAt(s) /\ m.len > s.len
  BY <1>1, <1>4, ThirdFound
<1>7. /\ GoodMatch(first) /\ first.at = m1.at /\ MatchEnd(first) <= moved.at
      /\ GoodMatch(moved) /\ MatchEnd(moved) = MatchEnd(s)
      /\ moved.at <= m.at /\ MatchEnd(m) >= moved.at + 8
  BY <1>1, <1>2, <1>4, OfThree
<1> HIDE DEF moved, first
<1>8. nextToUpdate' \in Nat /\ nextToUpdate' >= nextToUpdate
  BY <1>1, <1>5
<1>9. anchor <= first.at
  BY <1>5, <1>7
<1>10. CASE EncodeSequence(first, "third")
  <2>1. /\ Common' /\ [BlockNext]_blockVars
        /\ pc' = "third" /\ anchor' = MatchEnd(first)
    BY <1>3, <1>7, <1>9, <1>10, EncodeSequenceStep
  <2>2. GoodMatch(m1)' /\ GoodMatch(m2)'
    BY <1>2, <1>3, <1>6, <1>7, GoodStays
  <2>3. /\ MatchEnd(m1)' = MatchEnd(moved) /\ MatchEnd(m2)' = MatchEnd(m)
        /\ ThirdAt(m2)' = m.at + m.len - 3
    BY <1>2, <1>6 DEF MatchEnd, ThirdAt
  <2>4. nextToUpdate' <= ThirdAt(m2)'
    BY <1>1, <1>5, <1>6, <2>3
  <2>5. MatchEnd(m1)' <= mflimit' /\ m2'.at <= MatchEnd(m1)' + 1
    BY <1>2, <1>3, <1>5, <1>6, <1>7, <2>3
  <2>6. anchor' <= m1'.at /\ m1'.at <= m2'.at /\ MatchEnd(m2)' >= m1'.at + 8
    BY <1>2, <1>7, <2>1, <2>3
  <2>7. HcInv'
    BY <1>3, <1>8, <2>1, <2>2, <2>4, <2>5, <2>6 DEF HcInv
  <2>8. QED BY <1>8, <2>1, <2>7
<1>11. CASE Overflow(first)
  <2>1. Common' /\ [BlockNext]_blockVars /\ pc' \in {"last", "returned"}
    BY <1>1, <1>3, <1>7, <1>9, <1>11, OverflowStep
  <2>2. QED BY <1>3, <1>8, <2>1, HcEnds
<1>12. QED BY <1>1, <1>10, <1>11

(* A step of the hash-chain coder. *)
LEMMA HcStep ==
    ASSUME IInv, HcNext, UNCHANGED <<fastVars, optVars>>
    PROVE  /\ IInv' /\ [BlockNext]_blockVars
           /\ nextToUpdate' >= nextToUpdate
<1>1. /\ Common /\ HcInv /\ input.coder = "hc" /\ input'.coder = "hc"
      /\ UNCHANGED <<input, reader>>
  BY DEF IInv, HcNext
<1>2. /\ Common' /\ HcInv' /\ [BlockNext]_blockVars
      /\ nextToUpdate' >= nextToUpdate
  <2>1. ASSUME pc' = "returned", UNCHANGED hcVars
        PROVE  HcInv' /\ nextToUpdate' >= nextToUpdate
    <3>1. nextToUpdate \in Nat /\ nextToUpdate' = nextToUpdate
      BY <1>1, <2>1 DEF HcInv, hcVars
    <3>2. QED BY <1>1, <2>1, <3>1, HcEnds
  <2>2. CASE CallFails /\ UNCHANGED hcVars
    BY <1>1, <2>1, <2>2, CallFailsStep
  <2>3. CASE WriteLastLiterals /\ UNCHANGED hcVars
    BY <1>1, <2>1, <2>3, LastLiteralsStep
  <2>4. QED BY <1>1, <2>2, <2>3, HcBeginStep, SearchFirstStep, EncodeOnlyMatchStep,
               SearchSecondStep, EncodeBothStep, EncodeSecondStep, DropSecondStep,
               SkipSecondStep, EncodeOfThreeStep DEF HcNext
<1>3. FastInv' /\ OptInv'
  BY <1>1 DEF FastInv, OptInv
<1>4. QED BY <1>2, <1>3 DEF IInv
-----------------------------------------------------------------------------
-----------------------------------------------------------------------------
(***************************************************************************)
(* The optimal coder: the matches it looks for, and the sizes it takes for *)
(* prices.                                                                 *)
(***************************************************************************)
LEMMA LongerIsGood ==
    ASSUME input \in Inputs, NEW i \in Nat, i <= mflimit, NEW n \in Nat,
           NEW m \in Longer(i, n)
    PROVE  /\ GoodMatch(m) /\ m.at = i
           /\ m.at \in Nat /\ m.len \in Nat /\ m.off \in Nat /\ m.len >= 4
           /\ MatchEnd(m) = i + m.len /\ i + m.len <= matchlimit
           /\ IsMatch(i, m.off, m.len) /\ m.off \in 1..DistanceMax
<1>1. PICK x \in Found(i, i, n) : m = Favoured(x)
  BY DEF Longer
<1>2. GoodMatch(x) /\ x.at = i
  <2>1. i <= i
    OBVIOUS
  <2>2. QED BY <1>1, <2>1, FoundIsGood
<1>3. /\ x \in Match /\ x.at \in Nat /\ x.len \in Nat /\ x.len >= 4
  BY <1>2, GoodBasics
<1>4. GoodMatch(m) /\ m.at = i
  <2>1. CASE m = x
    BY <1>2, <2>1
  <2>2. CASE m # x
    <3>1. x.len >= 19 /\ m = [x EXCEPT !.len = 18]
      BY <1>1, <1>3, <2>2 DEF Favoured
    <3>2. m = [at |-> x.at, len |-> 18, off |-> x.off]
      BY <1>3, <3>1 DEF Match
    <3>3. x.at + 18 <= x.at + x.len /\ x.at <= mflimit
      BY <1>2, <1>3, <3>1
    <3>4. GoodMatch(m)
      BY <1>2, <1>3, <3>2, <3>3, GoodPart
    <3>5. QED BY <1>2, <3>2, <3>4
  <2>3. QED BY <2>1, <2>2
<1>5. m.at + m.len <= matchlimit
  BY <1>4 DEF GoodMatch, MatchOK
<1>6. QED BY <1>4, <1>5, GoodBasics

LEMMA PricesAreNumbers ==
    /\ \A n \in Nat : literalsPrice(n) \in Int
    /\ \A ll \in Nat : \A n \in Nat : n >= 4 => SequenceSize(ll, n) \in Int
<1>1. ASSUME NEW n \in Nat PROVE literalsPrice(n) \in Int
  BY ExtraBytesBounded DEF literalsPrice
<1>2. ASSUME NEW ll \in Nat, NEW n \in Nat, n >= 4 PROVE SequenceSize(ll, n) \in Int
  <2>1. ExtraBytes(ll) \in Nat /\ ExtraBytes(n - 4) \in Nat
    BY <1>2, ExtraBytesBounded
  <2>2. QED BY <1>2, <2>1 DEF SequenceSize, LiteralsSize, MINMATCH
<1>3. QED BY <1>1, <1>2

(* The three literals behind a table take nothing away from it. *)
LEMMA TrailedKeeps ==
    ASSUME NEW n \in Nat, NEW t, t \in [0..n -> Cell]
    PROVE  /\ Trailed(t, n) \in [0..(n + TRAILING_LITERALS) -> Cell]
           /\ \A p \in 0..n : Trailed(t, n)[p] = t[p]
           /\ \A p \in (n + 1)..(n + TRAILING_LITERALS) : Trailed(t, n)[p].mlen = 1
<1> DEFINE c(p) == IF p <= n THEN t[p]
                   ELSE Literal(p - n, t[n].price + literalsPrice(p - n))
<1>1. Trailed(t, n) = [p \in 0..(n + 3) |-> c(p)]
  BY DEF Trailed, TRAILING_LITERALS
<1>2. ASSUME NEW p \in 0..(n + 3) PROVE c(p) \in Cell
  <2>1. CASE p <= n
    BY <2>1
  <2>2. CASE p > n
    <3>1. p - n \in Nat /\ t[n] \in Cell
      BY <2>2
    <3>2. literalsPrice(p - n) \in Int
      BY <3>1, PricesAreNumbers
    <3>3. t[n].price + literalsPrice(p - n) \in Int
      BY <3>1, <3>2 DEF Cell
    <3>4. c(p) = Literal(p - n, t[n].price + literalsPrice(p - n))
      BY <2>2
    <3>5. QED BY <3>1, <3>3, <3>4 DEF Literal, Cell
  <2>3. QED BY <2>1, <2>2
<1>3. ASSUME NEW p \in (n + 1)..(n + 3) PROVE c(p).mlen = 1
  BY DEF Literal
<1>4. \A p \in 0..n : c(p) = t[p]
  OBVIOUS
<1> HIDE DEF c
<1>5. QED BY <1>1, <1>2, <1>3, <1>4 DEF TRAILING_LITERALS

(* How a cell and a way carry over to the next state. *)
LEMMA ReachedStays ==
    ASSUME input' = input, NEW i, ip' = i, NEW t, opt' = t, NEW p,
           t[p].mlen \in 1..p, StepOK(i + p - t[p].mlen, t[p])
    PROVE  Reached(p)'
BY LimitsStay DEF Reached, StepOK, MatchOK, IsMatch, At

LEMMA SelectedStays ==
    ASSUME input' = input, NEW i, ip' = i, NEW c, cur' = c, NEW s, sel' = s,
           StepOK(i + c, s)
    PROVE  StepOK(ip + cur, sel)'
BY LimitsStay DEF StepOK, MatchOK, IsMatch, At

LEMMA WayStays ==
    ASSUME input' = input, NEW b, NEW t, opt' = t, NEW n, last' = n, NEW P,
           \A q \in P : /\ q \in Nat /\ q < n
                        /\ StepOK(b + q, t[q])
                        /\ q + t[q].mlen \in P \/ q + t[q].mlen >= n
    PROVE  /\ ip' = b => Way(ip, P)'
           /\ ip' - cur' = b => Way(ip - cur, P)'
<1>1. ASSUME NEW q \in P
      PROVE  /\ ip' = b => StepOK(ip + q, opt[q])'
             /\ ip' - cur' = b => StepOK(ip - cur + q, opt[q])'
  BY LimitsStay DEF StepOK, MatchOK, IsMatch, At
<1>2. QED BY <1>1 DEF Way
-----------------------------------------------------------------------------
-----------------------------------------------------------------------------
(***************************************************************************)
(* The steps of the optimal coder.                                         *)
(***************************************************************************)
LEMMA OptBasics ==
    ASSUME Common, OptInv, input.coder = "opt", UNCHANGED <<input, reader>>,
           pc # "returned"
    PROVE  /\ input' = input /\ input \in Inputs /\ result = "coding"
           /\ Start \in Nat /\ End \in Nat /\ anchor \in Start..End /\ anchor \in Nat
           /\ ip \in Start..End /\ ip \in Nat
           /\ Start' = Start /\ End' = End /\ mflimit' = mflimit
           /\ matchlimit' = matchlimit
           /\ mflimit = End - 12 /\ matchlimit = End - 5
           /\ nextToUpdate \in Nat /\ OptNum \in Nat
           /\ sufficient \in Int /\ sufficient < OptNum
<1>1. input \in Inputs /\ nextToUpdate \in Nat
  BY DEF Common, CodingTypeOK, OptInv
<1>2. OptNum \in Nat /\ input.enough \in Nat
  BY <1>1, OptAssumption DEF OptAssumption
<1>3. sufficient \in {input.enough, OptNum - 1} /\ sufficient <= OptNum - 1
  <2>1. input.enough \in Int /\ OptNum - 1 \in Int
    BY <1>2
  <2>2. QED BY <2>1, OneOrOther DEF sufficient
<1>4. sufficient \in Int /\ sufficient < OptNum
  BY <1>2, <1>3
<1>5. QED BY <1>1, <1>2, <1>4, HcBasics, LimitsStay

LEMMA OptEnds ==
    ASSUME OptInv, input.coder = "opt", input' = input,
           pc' \in {"last", "returned"}, nextToUpdate' \in Nat
    PROVE  OptInv'
BY DEF OptInv

LEMMA OptBeginStep ==
    ASSUME Common, OptInv, input.coder = "opt", UNCHANGED <<input, reader>>,
           OptBegin, UNCHANGED nextToUpdate
    PROVE  /\ Common' /\ OptInv' /\ [BlockNext]_blockVars
           /\ nextToUpdate' >= nextToUpdate
<1>1. /\ pc = "call" /\ BeginCall(0, "opt") /\ ip' = ip
      /\ anchor' = anchor /\ pc' \in {"last", "opt"}
  BY DEF OptBegin, BeginCall
<1>2. /\ input' = input /\ ip \in Start..End /\ ip \in Nat
  BY <1>1, OptBasics
<1>3. nextToUpdate \in Nat /\ nextToUpdate <= ip /\ anchor = Start /\ ip = Start
  BY <1>1 DEF OptInv, Common
<1>4. Common' /\ [BlockNext]_blockVars
  BY <1>1, <1>2, BeginCallStep
<1>5. OptInv'
  BY <1>1, <1>2, <1>3 DEF OptInv
<1>6. QED BY <1>3, <1>4, <1>5

(* The first table: literals, then the match with each of its lengths. *)
LEMMA FirstTableFits ==
    ASSUME Common, input' = input, NEW m, GoodMatch(m), m.at = ip, anchor <= ip,
           ip \in Nat, ip' = ip, opt' = FirstTable(m)
    PROVE  /\ opt' \in [0..(m.len + TRAILING_LITERALS) -> Cell]
           /\ opt'[0].mlen = 1
           /\ \A p \in 1..(m.len + TRAILING_LITERALS) : Reached(p)'
<1> DEFINE ll == ip - anchor
           c(p) == IF p < MINMATCH
                   THEN Literal(ll + p, literalsPrice(ll + p))
                   ELSE ByMatch(p, m.off, ll, SequenceSize(ll, p))
           n == m.len
           t == [p \in 0..n |-> c(p)]
<1>1. /\ n \in Nat /\ n >= 4 /\ m.off \in Nat /\ m.off \in 1..DistanceMax
      /\ anchor \in Nat /\ IsMatch(ip, m.off, n)
      /\ ip <= mflimit /\ ip + n <= matchlimit
      /\ mflimit \in Int /\ matchlimit \in Int
  <2>1. input \in Inputs /\ anchor \in Start..End
    BY DEF Common, CodingTypeOK
  <2>2. anchor \in Nat /\ mflimit \in Int /\ matchlimit \in Int
    BY <2>1, Limits
  <2>3. ip <= mflimit /\ ip + n <= matchlimit
    BY DEF GoodMatch, MatchOK
  <2>4. QED BY <2>1, <2>2, <2>3, GoodBasics
<1>2. ll \in Nat
  BY <1>1
<1>3. opt' = Trailed(t, n)
  BY DEF FirstTable
<1> HIDE DEF ll, n
<1>4. ASSUME NEW p \in 0..n PROVE c(p) \in Cell
  <2>1. CASE p < 4
    <3>1. ll + p \in Nat /\ literalsPrice(ll + p) \in Int
      BY <1>1, <1>2, PricesAreNumbers
    <3>2. QED BY <2>1, <3>1 DEF MINMATCH, Literal, Cell
  <2>2. CASE p >= 4
    <3>1. SequenceSize(ll, p) \in Int /\ p \in Nat
      BY <1>1, <1>2, <2>2, PricesAreNumbers
    <3>2. ~ (p < MINMATCH)
      BY <2>2, <3>1 DEF MINMATCH
    <3>3. c(p) = ByMatch(p, m.off, ll, SequenceSize(ll, p))
      BY <3>2
    <3>4. QED BY <1>1, <1>2, <3>1, <3>3 DEF ByMatch, Cell
  <2>3. QED BY <1>1, <2>1, <2>2
<1>5. t \in [0..n -> Cell]
  <2> HIDE DEF c
  <2>1. QED BY <1>4
<1>6. ASSUME NEW p \in 0..n
      PROVE  \/ t[p].mlen = 1
             \/ p >= 4 /\ t[p].mlen = p /\ t[p].off = m.off
  <2>1. t[p] = c(p)
    <3> HIDE DEF c
    <3>1. QED OBVIOUS
  <2> HIDE DEF t
  <2>2. QED BY <1>1, <2>1 DEF MINMATCH, Literal, ByMatch
<1>7. t[0].mlen = 1
  BY <1>1, <1>6
<1> HIDE DEF t
<1>8. /\ opt' \in [0..(n + TRAILING_LITERALS) -> Cell]
      /\ \A p \in 0..n : opt'[p] = t[p]
      /\ \A p \in (n + 1)..(n + TRAILING_LITERALS) : opt'[p].mlen = 1
  <2>1. n \in Nat
    BY <1>1
  <2>2. QED BY <1>3, <1>5, <2>1, TrailedKeeps
<1>9. ASSUME NEW p \in 1..(n + TRAILING_LITERALS) PROVE Reached(p)'
  <2>1. p \in Nat /\ p >= 1 /\ (p <= n \/ p \in (n + 1)..(n + TRAILING_LITERALS))
    BY <1>1 DEF TRAILING_LITERALS
  <2>2. \/ opt'[p].mlen = 1
        \/ p \in 4..n /\ opt'[p].mlen = p /\ opt'[p].off = m.off
    BY <1>1, <1>6, <1>8, <2>1
  <2>3. CASE opt'[p].mlen = 1
    <3>1. opt'[p].mlen \in 1..p
      BY <2>1, <2>3
    <3>2. StepOK(ip + p - opt'[p].mlen, opt'[p])
      BY <2>3 DEF StepOK
    <3>3. QED BY <3>1, <3>2, ReachedStays
  <2>4. CASE p \in 4..n /\ opt'[p].mlen = p /\ opt'[p].off = m.off
    <3>1. opt'[p].mlen \in 1..p /\ ip + p - opt'[p].mlen = ip
      BY <1>1, <2>1, <2>4
    <3>2. MatchOK(ip, m.off, p)
      <4>1. IsMatch(ip, m.off, p)
        BY <1>1, <2>1, <2>4, MatchShortens
      <4>2. ip + p <= matchlimit /\ p >= MINMATCH
        BY <1>1, <2>1, <2>4 DEF MINMATCH
      <4>3. QED BY <1>1, <2>1, <4>1, <4>2 DEF MatchOK
    <3>3. StepOK(ip + p - opt'[p].mlen, opt'[p])
      BY <2>4, <3>1, <3>2 DEF StepOK
    <3>4. QED BY <3>1, <3>3, ReachedStays
  <2>5. QED BY <2>2, <2>3, <2>4
<1>10. opt'[0].mlen = 1
  BY <1>1, <1>7, <1>8
<1>11. QED BY <1>8, <1>9, <1>10 DEF n

LEMMA OptSearchStep ==
    ASSUME Common, OptInv, input.coder = "opt", UNCHANGED <<input, reader>>,
           OptSearch
    PROVE  /\ Common' /\ OptInv' /\ [BlockNext]_blockVars
           /\ nextToUpdate' >= nextToUpdate
<1>1. pc = "opt"
  BY DEF OptSearch
<1>2. \/ /\ pc' = "last"
         /\ UNCHANGED <<ip, seqs, anchor, size, result, nextToUpdate, optVars>>
      \/ /\ ip <= mflimit /\ nextToUpdate' = ip /\ ip' = ip + 1
         /\ UNCHANGED <<pc, seqs, anchor, size, result, optVars>>
      \/ /\ ip <= mflimit /\ nextToUpdate' = ip
         /\ \E m \in Longer(ip, MINMATCH - 1) :
               \/ EncodeSequence(m, "opt") \/ Overflow(m)
               \/ /\ m.len <= sufficient
                  /\ opt' = FirstTable(m) /\ last' = m.len /\ cur' = 1
                  /\ pc' = "price"
                  /\ UNCHANGED <<ip, seqs, anchor, size, result, sel>>
  BY DEF OptSearch, Searches
<1>3. /\ input' = input /\ input \in Inputs /\ result = "coding"
      /\ Start \in Nat /\ End \in Nat /\ anchor \in Nat
      /\ ip \in Start..End /\ ip \in Nat /\ mflimit = End - 12
      /\ matchlimit' = matchlimit /\ matchlimit = End - 5
      /\ nextToUpdate \in Nat /\ OptNum \in Nat
      /\ sufficient \in Int /\ sufficient < OptNum
  BY <1>1, OptBasics
<1>4. anchor <= ip /\ nextToUpdate <= ip
  BY <1>1 DEF OptInv
<1>5. CASE /\ pc' = "last"
           /\ UNCHANGED <<ip, seqs, anchor, size, result, nextToUpdate, optVars>>
  BY <1>1, <1>3, <1>5, IdleStep, OptEnds
<1>6. CASE /\ ip <= mflimit /\ nextToUpdate' = ip /\ ip' = ip + 1
           /\ UNCHANGED <<pc, seqs, anchor, size, result, optVars>>
  <2>1. ip' \in Start..End
    BY <1>3, <1>6
  <2>2. Common' /\ [BlockNext]_blockVars
    BY <1>1, <1>3, <1>6, <2>1, IdleStep
  <2>3. anchor' <= ip' /\ nextToUpdate' <= ip' /\ nextToUpdate' \in Nat
    BY <1>3, <1>4, <1>6
  <2>4. OptInv'
    BY <1>1, <1>3, <1>6, <2>3 DEF OptInv
  <2>5. QED BY <1>4, <1>6, <2>2, <2>4
<1>7. ASSUME ip <= mflimit, nextToUpdate' = ip, NEW m \in Longer(ip, MINMATCH - 1)
      PROVE  /\ GoodMatch(m) /\ m.at = ip /\ m.len \in Nat /\ m.len >= 4
             /\ MatchEnd(m) = ip + m.len /\ ip + m.len <= matchlimit
  <2>1. MINMATCH - 1 \in Nat
    BY DEF MINMATCH
  <2>2. QED BY <1>3, <1>7, <2>1, LongerIsGood
<1>8. ASSUME ip <= mflimit, nextToUpdate' = ip, NEW m \in Longer(ip, MINMATCH - 1),
             EncodeSequence(m, "opt")
      PROVE  Common' /\ OptInv' /\ [BlockNext]_blockVars
  <2>1. /\ Common' /\ [BlockNext]_blockVars
        /\ pc' = "opt" /\ anchor' = MatchEnd(m) /\ ip' = MatchEnd(m)
    BY <1>3, <1>4, <1>7, <1>8, EncodeSequenceStep
  <2>2. anchor' <= ip' /\ nextToUpdate' <= ip' /\ nextToUpdate' \in Nat
    BY <1>3, <1>7, <1>8, <2>1
  <2>3. QED BY <1>3, <2>1, <2>2 DEF OptInv
<1>9. ASSUME ip <= mflimit, nextToUpdate' = ip, NEW m \in Longer(ip, MINMATCH - 1),
             Overflow(m)
      PROVE  Common' /\ OptInv' /\ [BlockNext]_blockVars
  <2>1. Common' /\ [BlockNext]_blockVars /\ pc' \in {"last", "returned"}
    BY <1>1, <1>3, <1>4, <1>7, <1>9, OverflowStep
  <2>2. nextToUpdate' \in Nat
    BY <1>3, <1>9
  <2>3. QED BY <1>3, <2>1, <2>2, OptEnds
<1>10. ASSUME ip <= mflimit, nextToUpdate' = ip, NEW m \in Longer(ip, MINMATCH - 1),
              m.len <= sufficient,
              opt' = FirstTable(m), last' = m.len, cur' = 1, pc' = "price",
              UNCHANGED <<ip, seqs, anchor, size, result, sel>>
       PROVE  Common' /\ OptInv' /\ [BlockNext]_blockVars
  <2>1. Common' /\ [BlockNext]_blockVars
    BY <1>1, <1>3, <1>10, IdleStep
  <2>2. /\ GoodMatch(m) /\ m.at = ip /\ m.len \in Nat /\ m.len >= 4
        /\ ip + m.len <= matchlimit
    BY <1>7, <1>10
  <2>3. /\ opt' \in [0..(m.len + TRAILING_LITERALS) -> Cell]
        /\ opt'[0].mlen = 1
        /\ \A p \in 1..(m.len + TRAILING_LITERALS) : Reached(p)'
    BY <1>3, <1>4, <1>10, <2>2, FirstTableFits
  <2>4. /\ last' < OptNum /\ cur' \in 1..last' /\ ip' + last' <= matchlimit'
        /\ nextToUpdate' <= ip' + cur'
    BY <1>3, <1>10, <2>2
  <2>5. PriceInv'
    BY <1>10, <2>3, <2>4 DEF PriceInv
  <2>6. nextToUpdate' \in Nat /\ anchor' <= ip' /\ last' \in Nat \ {0}
    BY <1>3, <1>4, <1>10, <2>2
  <2>7. OptInv'
    BY <1>3, <1>10, <2>5, <2>6 DEF OptInv
  <2>8. QED BY <2>1, <2>7
<1>11. nextToUpdate' >= nextToUpdate
  BY <1>2, <1>3, <1>4
<1>12. QED BY <1>2, <1>5, <1>6, <1>8, <1>9, <1>10, <1>11

(* What the invariant says while prices are made. *)
LEMMA PriceBasics ==
    ASSUME Common, OptInv, input.coder = "opt", UNCHANGED <<input, reader>>,
           pc = "price"
    PROVE  /\ anchor <= ip /\ last \in Nat /\ last < OptNum
           /\ cur \in Nat /\ cur \in 1..last
           /\ ip + last <= matchlimit /\ nextToUpdate <= ip + cur
           /\ opt \in [0..(last + 3) -> Cell]
           /\ opt[0].mlen = 1
           /\ \A p \in 1..(last + 3) :
                 opt[p].mlen \in 1..p /\ StepOK(ip + p - opt[p].mlen, opt[p])
BY DEF OptInv, PriceInv, Reached, TRAILING_LITERALS

LEMMA NewPricesAreNumbers ==
    ASSUME last \in Nat, cur \in 1..last, opt \in [0..(last + 3) -> Cell]
    PROVE  /\ LitBefore \in Nat
           /\ \A n \in Nat : n >= 4 => MatchPrice(n) \in Int
           /\ \A k \in Nat : LiteralPrice(k) \in Int
<1>1. /\ opt[cur].mlen \in Nat /\ opt[cur].litlen \in Nat /\ opt[cur].price \in Int
  BY DEF Cell
<1>2. LitBefore \in Nat
  BY <1>1 DEF LitBefore
<1>3. ASSUME NEW n \in Nat, n >= 4 PROVE MatchPrice(n) \in Int
  <2> DEFINE b == IF opt[cur].mlen # 1 THEN opt[cur].price
                  ELSE IF cur > LitBefore THEN opt[cur - LitBefore].price ELSE 0
  <2>1. SequenceSize(LitBefore, n) \in Int
    BY <1>2, <1>3, PricesAreNumbers
  <2>2. cur > LitBefore => opt[cur - LitBefore].price \in Int
    <3>1. cur > LitBefore => cur - LitBefore \in 0..(last + 3)
      BY <1>2
    <3>2. QED BY <3>1 DEF Cell
  <2>3. b \in Int
    BY <1>1, <2>2
  <2>4. MatchPrice(n) = SequenceSize(LitBefore, n) + b
    BY DEF MatchPrice
  <2> HIDE DEF b
  <2>5. QED BY <2>1, <2>3, <2>4
<1>4. ASSUME NEW k \in Nat PROVE LiteralPrice(k) \in Int
  <2>1. opt[cur].litlen + k \in Nat
    BY <1>1, <1>4
  <2>2. /\ literalsPrice(opt[cur].litlen) \in Int
        /\ literalsPrice(opt[cur].litlen + k) \in Int
    BY <1>1, <2>1, PricesAreNumbers
  <2>3. QED BY <1>1, <2>2 DEF LiteralPrice
<1>5. QED BY <1>2, <1>3, <1>4

(***************************************************************************)
(* The table with a match at cur in it.  It grows by no more than the      *)
(* match reaches, and has no holes: where it is new the match is taken.    *)
(***************************************************************************)
LEMMA NewTableFits ==
    ASSUME Common, OptInv, input.coder = "opt", UNCHANGED <<input, reader>>,
           pc = "price", Searching,
           NEW m, GoodMatch(m), m.at = ip + cur,
           ip' = ip, opt' = NewTable(m)
    PROVE  /\ NewLast(m) \in {last, cur + m.len} /\ NewLast(m) >= last
           /\ opt' \in [0..(NewLast(m) + TRAILING_LITERALS) -> Cell]
           /\ opt'[0].mlen = 1
           /\ \A p \in 1..(NewLast(m) + TRAILING_LITERALS) : Reached(p)'
<1> DEFINE n == NewLast(m)
           k == m.len
           lit(p) == p \in (cur + 1)..(cur + 3)
                         /\ LiteralPrice(p - cur) < opt[p].price
           c(p) == IF lit(p)
                   THEN Literal(opt[cur].litlen + p - cur, LiteralPrice(p - cur))
                   ELSE IF p \in (cur + MINMATCH)..(cur + m.len) /\ Cheaper(p)
                   THEN ByMatch(p - cur, m.off, LitBefore, MatchPrice(p - cur))
                   ELSE opt[p]
           t == [p \in 0..n |-> c(p)]
<1>1. /\ input' = input /\ ip \in Nat /\ mflimit = End - 12 /\ End \in Nat
      /\ matchlimit = End - 5 /\ input \in Inputs
  BY OptBasics
<1>2. /\ last \in Nat /\ cur \in Nat /\ cur \in 1..last
      /\ opt \in [0..(last + 3) -> Cell]
      /\ opt[0].mlen = 1
      /\ \A p \in 1..(last + 3) :
            opt[p].mlen \in 1..p /\ StepOK(ip + p - opt[p].mlen, opt[p])
  BY PriceBasics
<1>3. /\ k \in Nat /\ k >= 4 /\ m.off \in Nat /\ m.off \in 1..DistanceMax
      /\ IsMatch(ip + cur, m.off, k) /\ (ip + cur) + k <= matchlimit
      /\ ip + cur <= mflimit /\ ip + cur \in Nat
  <2>1. (ip + cur) + k <= matchlimit /\ ip + cur <= mflimit
    BY DEF GoodMatch, MatchOK
  <2>2. QED BY <1>1, <2>1, GoodBasics
<1>4. cur < last
  BY DEF Searching
<1>5. /\ LitBefore \in Nat
      /\ \A x \in Nat : x >= 4 => MatchPrice(x) \in Int
      /\ \A x \in Nat : LiteralPrice(x) \in Int
  BY <1>2, NewPricesAreNumbers
<1>6. n \in {last, cur + k} /\ n >= last /\ n \in Nat
  <2>1. n = last \/ (n = cur + k /\ cur + k > last)
    BY DEF NewLast
  <2> HIDE DEF n, k
  <2>2. QED BY <1>2, <1>3, <2>1
<1>7. opt' = Trailed(t, n)
  BY DEF NewTable, MINMATCH
<1>8. ASSUME NEW p \in 0..n
      PROVE  \/ /\ p \in (cur + 1)..(cur + 3)
                /\ c(p) = Literal(opt[cur].litlen + p - cur, LiteralPrice(p - cur))
             \/ /\ p \in (cur + 4)..(cur + k)
                /\ c(p) = ByMatch(p - cur, m.off, LitBefore, MatchPrice(p - cur))
             \/ p <= last + 3 /\ c(p) = opt[p]
  <2>1. CASE lit(p)
    BY <2>1
  <2>2. CASE ~ lit(p) /\ p \in (cur + MINMATCH)..(cur + m.len) /\ Cheaper(p)
    BY <2>2 DEF MINMATCH
  <2>3. CASE ~ lit(p) /\ ~ (p \in (cur + MINMATCH)..(cur + m.len) /\ Cheaper(p))
    <3>1. c(p) = opt[p]
      BY <2>3
    <3>2. p > last + 3 => Cheaper(p)
      BY DEF Cheaper, TRAILING_LITERALS
    <3>3. p > last + 3 => p \in (cur + MINMATCH)..(cur + m.len)
      <4> HIDE DEF n
      <4>1. QED BY <1>2, <1>3, <1>4, <1>6 DEF MINMATCH
    <3>4. ~ (p > last + 3)
      <4> HIDE DEF lit
      <4>1. QED BY <2>3, <3>2, <3>3
    <3> HIDE DEF c, n
    <3>5. QED BY <1>2, <1>6, <3>1, <3>4
  <2>4. QED BY <2>1, <2>2, <2>3
<1> HIDE DEF c, n, k
<1>9. ASSUME NEW p \in 0..n
      PROVE  /\ c(p) \in Cell
             /\ p = 0 => c(p).mlen = 1
             /\ p >= 1 => /\ c(p).mlen \in 1..p
                          /\ StepOK(ip + p - c(p).mlen, c(p))
  <2>1. CASE /\ p \in (cur + 1)..(cur + 3)
             /\ c(p) = Literal(opt[cur].litlen + p - cur, LiteralPrice(p - cur))
    <3>1. /\ opt[cur].litlen \in Nat /\ p - cur \in Nat /\ p >= 1
      BY <1>2, <2>1 DEF Cell
    <3>2. opt[cur].litlen + p - cur \in Nat /\ LiteralPrice(p - cur) \in Int
      BY <1>2, <1>5, <3>1
    <3>3. c(p) \in Cell /\ c(p).mlen = 1
      BY <2>1, <3>2 DEF Literal, Cell
    <3>4. QED BY <3>1, <3>3 DEF StepOK
  <2>2. CASE /\ p \in (cur + 4)..(cur + k)
             /\ c(p) = ByMatch(p - cur, m.off, LitBefore, MatchPrice(p - cur))
    <3>1. p - cur \in Nat /\ p - cur >= 4 /\ p - cur <= k /\ p - cur \in 1..p
      BY <1>2, <1>3, <2>2
    <3>2. MatchPrice(p - cur) \in Int
      BY <1>5, <3>1
    <3>3. c(p) \in Cell /\ c(p).mlen = p - cur /\ c(p).off = m.off
      BY <1>3, <1>5, <2>2, <3>1, <3>2 DEF ByMatch, Cell
    <3>4. ip + p - c(p).mlen = ip + cur
      BY <1>1, <1>2, <3>3
    <3>5. MatchOK(ip + cur, m.off, p - cur)
      <4>1. IsMatch(ip + cur, m.off, p - cur)
        BY <1>3, <3>1, MatchShortens
      <4>2. (ip + cur) + (p - cur) <= matchlimit /\ p - cur >= MINMATCH
        BY <1>1, <1>2, <1>3, <3>1 DEF MINMATCH
      <4>3. QED BY <1>3, <3>1, <4>1, <4>2 DEF MatchOK
    <3>6. StepOK(ip + p - c(p).mlen, c(p))
      BY <3>3, <3>4, <3>5 DEF StepOK
    <3>7. QED BY <1>2, <2>2, <3>1, <3>3, <3>6
  <2>3. CASE p <= last + 3 /\ c(p) = opt[p]
    <3>1. p \in 0..(last + 3)
      BY <1>2, <1>6, <2>3
    <3>2. QED BY <1>2, <2>3, <3>1
  <2>4. QED BY <1>8, <2>1, <2>2, <2>3
<1>10. t \in [0..n -> Cell] /\ \A p \in 0..n : t[p] = c(p)
  BY <1>9
<1> HIDE DEF t
<1>11. /\ opt' \in [0..(n + TRAILING_LITERALS) -> Cell]
       /\ \A p \in 0..n : opt'[p] = c(p)
       /\ \A p \in (n + 1)..(n + TRAILING_LITERALS) : opt'[p].mlen = 1
  BY <1>6, <1>7, <1>10, TrailedKeeps
<1>12. ASSUME NEW p \in 1..(n + TRAILING_LITERALS) PROVE Reached(p)'
  <2>1. p \in Nat /\ p >= 1 /\ (p \in 0..n \/ p \in (n + 1)..(n + TRAILING_LITERALS))
    BY <1>6 DEF TRAILING_LITERALS
  <2>2. opt'[p].mlen \in 1..p /\ StepOK(ip + p - opt'[p].mlen, opt'[p])
    <3>1. CASE p \in 0..n
      BY <1>9, <1>11, <2>1, <3>1
    <3>2. CASE p \in (n + 1)..(n + TRAILING_LITERALS)
      BY <1>11, <2>1, <3>2 DEF StepOK
    <3>3. QED BY <2>1, <3>1, <3>2
  <2>3. QED BY <1>1, <2>2, ReachedStays
<1>13. opt'[0].mlen = 1
  <2>1. 0 \in 0..n
    BY <1>6
  <2>2. QED BY <1>9, <1>11, <2>1
<1>14. QED BY <1>6, <1>11, <1>12, <1>13 DEF n, k

LEMMA PriceSkipsStep ==
    ASSUME Common, OptInv, input.coder = "opt", UNCHANGED <<input, reader>>,
           PriceSkips
    PROVE  /\ Common' /\ OptInv' /\ [BlockNext]_blockVars
           /\ nextToUpdate' >= nextToUpdate
<1>1. /\ pc = "price" /\ cur < last
      /\ nextToUpdate' = nextToUpdate \/ nextToUpdate' = ip + cur
      /\ cur' = cur + 1
      /\ UNCHANGED <<pc, ip, seqs, anchor, size, result, opt, last, sel>>
  BY DEF PriceSkips, Searching, Searches
<1>2. /\ input' = input /\ result = "coding" /\ ip \in Start..End /\ ip \in Nat
      /\ matchlimit' = matchlimit /\ nextToUpdate \in Nat
  BY <1>1, OptBasics
<1>3. /\ anchor <= ip /\ last \in Nat /\ last < OptNum
      /\ cur \in Nat /\ cur \in 1..last
      /\ ip + last <= matchlimit /\ nextToUpdate <= ip + cur
      /\ opt \in [0..(last + 3) -> Cell]
      /\ opt[0].mlen = 1
      /\ \A p \in 1..(last + 3) :
            opt[p].mlen \in 1..p /\ StepOK(ip + p - opt[p].mlen, opt[p])
  BY <1>1, PriceBasics
<1>4. Common' /\ [BlockNext]_blockVars
  BY <1>1, <1>2, IdleStep
<1>5. /\ nextToUpdate' \in Nat /\ nextToUpdate' >= nextToUpdate
      /\ nextToUpdate' <= ip' + cur' /\ cur' \in 1..last'
  BY <1>1, <1>2, <1>3
<1>6. \A p \in 1..(last' + TRAILING_LITERALS) : Reached(p)'
  BY <1>1, <1>2, <1>3, ReachedStays DEF TRAILING_LITERALS
<1>7. PriceInv'
  BY <1>1, <1>2, <1>3, <1>5, <1>6 DEF PriceInv, TRAILING_LITERALS
<1>8. OptInv'
  BY <1>1, <1>2, <1>3, <1>5, <1>7 DEF OptInv
<1>9. QED BY <1>4, <1>5, <1>8

LEMMA PriceMatchStep ==
    ASSUME Common, OptInv, input.coder = "opt", UNCHANGED <<input, reader>>,
           PriceMatch
    PROVE  /\ Common' /\ OptInv' /\ [BlockNext]_blockVars
           /\ nextToUpdate' >= nextToUpdate
<1>1. /\ pc = "price" /\ Searching /\ cur < last /\ ip + cur <= mflimit
      /\ nextToUpdate' = ip + cur
      /\ UNCHANGED <<ip, seqs, anchor, size, result>>
  BY DEF PriceMatch, Searching, Searches
<1>2. PICK m \in Longer(ip + cur, Minimum) :
         \/ /\ sel' = [mlen |-> m.len, off |-> m.off]
            /\ last' = cur + 1 /\ pc' = "back"
            /\ UNCHANGED <<opt, cur>>
         \/ /\ ~ AtOnce(m)
            /\ opt' = NewTable(m) /\ last' = NewLast(m) /\ cur' = cur + 1
            /\ UNCHANGED <<pc, sel>>
  BY DEF PriceMatch
<1>3. /\ input' = input /\ input \in Inputs /\ result = "coding"
      /\ ip \in Start..End /\ ip \in Nat /\ Start \in Nat /\ End \in Nat
      /\ mflimit = End - 12 /\ matchlimit = End - 5
      /\ matchlimit' = matchlimit /\ nextToUpdate \in Nat /\ OptNum \in Nat
  BY <1>1, OptBasics
<1>4. /\ anchor <= ip /\ last \in Nat /\ last < OptNum
      /\ cur \in Nat /\ cur \in 1..last
      /\ ip + last <= matchlimit /\ nextToUpdate <= ip + cur
      /\ opt \in [0..(last + 3) -> Cell]
      /\ opt[0].mlen = 1
      /\ \A p \in 1..(last + 3) :
            opt[p].mlen \in 1..p /\ StepOK(ip + p - opt[p].mlen, opt[p])
  BY <1>1, PriceBasics
<1>5. /\ GoodMatch(m) /\ m.at = ip + cur /\ m.len \in Nat /\ m.len >= 4
      /\ m.off \in Nat /\ (ip + cur) + m.len <= matchlimit
  <2>1. Minimum \in Nat /\ ip + cur \in Nat
    BY <1>1, <1>3, <1>4 DEF Minimum, MINMATCH
  <2>2. QED BY <1>1, <1>3, <2>1, LongerIsGood
<1>6. pc' \in {"back", "price"}
  BY <1>1, <1>2
<1>7. Common' /\ [BlockNext]_blockVars
  BY <1>1, <1>3, <1>6, IdleStep
<1>8. /\ nextToUpdate' \in Nat /\ nextToUpdate' >= nextToUpdate
      /\ anchor' <= ip'
  BY <1>1, <1>3, <1>4
<1>9. CASE /\ sel' = [mlen |-> m.len, off |-> m.off]
           /\ last' = cur + 1 /\ pc' = "back"
           /\ UNCHANGED <<opt, cur>>
  <2>1. /\ last' < OptNum /\ cur' \in 0..(last' - 1) /\ ip' + last' <= matchlimit'
        /\ nextToUpdate' <= ip' + last' /\ last' \in Nat \ {0}
    BY <1>1, <1>3, <1>4, <1>9
  <2>2. TableOK'
    <3>1. DOMAIN opt = 0..(last + 3) /\ 0..(cur + 1) \subseteq 0..(last + 3)
      BY <1>1, <1>4
    <3>2. opt' \in [DOMAIN opt' -> Cell] /\ 0..last' \subseteq DOMAIN opt'
      BY <1>4, <1>9, <3>1
    <3>3. QED BY <3>2 DEF TableOK
  <2>3. \A p \in 1..cur' : Reached(p)'
    <3>1. ASSUME NEW p \in 1..cur
          PROVE  opt[p].mlen \in 1..p /\ StepOK(ip + p - opt[p].mlen, opt[p])
      BY <1>4
    <3>2. QED BY <1>1, <1>3, <1>9, <3>1, ReachedStays
  <2>4. sel' \in [mlen : Nat, off : Nat]
    BY <1>5, <1>9
  <2>5. StepOK(ip + cur, sel)'
    <3>1. MatchOK(ip + cur, m.off, m.len)
      BY <1>5 DEF GoodMatch
    <3>2. StepOK(ip + cur, [mlen |-> m.len, off |-> m.off])
      BY <3>1 DEF StepOK
    <3>3. QED BY <1>1, <1>3, <1>9, <3>2, SelectedStays
  <2>6. /\ Way(ip, {})'
        /\ \A q \in {} : q > cur'
        /\ cur' + sel'.mlen >= last'
    BY <1>4, <1>5, <1>9 DEF Way
  <2>7. opt'[0].mlen = 1
    BY <1>4, <1>9
  <2>8. (\E P \in SUBSET Nat :
          /\ Way(ip, P)
          /\ \A q \in P : q > cur
          /\ cur + sel.mlen \in P \/ cur + sel.mlen >= last)'
    BY <2>6
  <2>9. BackInv'
    BY <2>1, <2>2, <2>3, <2>4, <2>5, <2>7, <2>8 DEF BackInv
  <2>10. OptInv'
    BY <1>3, <1>8, <1>9, <2>1, <2>9 DEF OptInv
  <2>11. QED BY <1>7, <1>8, <2>10
<1>10. CASE /\ ~ AtOnce(m)
            /\ opt' = NewTable(m) /\ last' = NewLast(m) /\ cur' = cur + 1
            /\ UNCHANGED <<pc, sel>>
  <2>1. ~ (m.len + cur >= OptNum)
    BY <1>10, Zenon DEF AtOnce
  <2>2. /\ NewLast(m) \in {last, cur + m.len} /\ NewLast(m) >= last
        /\ opt' \in [0..(NewLast(m) + TRAILING_LITERALS) -> Cell]
        /\ opt'[0].mlen = 1
        /\ \A p \in 1..(NewLast(m) + TRAILING_LITERALS) : Reached(p)'
    BY <1>1, <1>5, <1>10, NewTableFits
  <2>3. /\ last' < OptNum /\ cur' \in 1..last' /\ ip' + last' <= matchlimit'
        /\ last' \in Nat \ {0}
    BY <1>1, <1>3, <1>4, <1>5, <1>10, <2>1, <2>2
  <2>4. nextToUpdate' <= ip' + cur'
    BY <1>1, <1>3, <1>4, <1>10
  <2>5. PriceInv'
    BY <1>10, <2>2, <2>3, <2>4 DEF PriceInv
  <2>6. OptInv'
    BY <1>1, <1>3, <1>8, <1>10, <2>3, <2>5 DEF OptInv
  <2>7. QED BY <1>7, <1>8, <2>6
<1>11. QED BY <1>2, <1>9, <1>10

LEMMA PriceEndsStep ==
    ASSUME Common, OptInv, input.coder = "opt", UNCHANGED <<input, reader>>,
           PriceEnds, UNCHANGED nextToUpdate
    PROVE  /\ Common' /\ OptInv' /\ [BlockNext]_blockVars
           /\ nextToUpdate' >= nextToUpdate
<1>1. /\ pc = "price" /\ pc' = "back"
      /\ sel' = [mlen |-> opt[last].mlen, off |-> opt[last].off]
      /\ cur' = last - opt[last].mlen
      /\ UNCHANGED <<ip, seqs, anchor, size, result, opt, last>>
  BY DEF PriceEnds
<1>2. /\ input' = input /\ result = "coding" /\ ip \in Start..End /\ ip \in Nat
      /\ matchlimit' = matchlimit /\ nextToUpdate \in Nat
  BY <1>1, OptBasics
<1>3. /\ anchor <= ip /\ last \in Nat /\ last < OptNum
      /\ cur \in Nat /\ cur \in 1..last
      /\ ip + last <= matchlimit /\ nextToUpdate <= ip + cur
      /\ opt \in [0..(last + 3) -> Cell]
      /\ opt[0].mlen = 1
      /\ \A p \in 1..(last + 3) :
            opt[p].mlen \in 1..p /\ StepOK(ip + p - opt[p].mlen, opt[p])
  BY <1>1, PriceBasics
<1>4. /\ opt[last].mlen \in 1..last
      /\ StepOK(ip + last - opt[last].mlen, opt[last])
      /\ opt[last].off \in Nat
  <2>1. last \in 1..(last + 3) /\ last \in 0..(last + 3)
    BY <1>3
  <2>2. QED BY <1>3, <2>1 DEF Cell
<1>5. Common' /\ [BlockNext]_blockVars
  BY <1>1, <1>2, IdleStep
<1>6. /\ cur' \in 0..(last' - 1) /\ last' \in Nat \ {0}
      /\ nextToUpdate' <= ip' + last' /\ cur' + sel'.mlen = last'
  <2>1. sel'.mlen = opt[last].mlen
    BY <1>1
  <2> DEFINE n == opt[last].mlen
  <2>2. n \in 1..last /\ cur' = last - n /\ sel'.mlen = n /\ last' = last
    BY <1>1, <1>4, <2>1
  <2> HIDE DEF n
  <2>3. QED BY <1>1, <1>2, <1>3, <2>2
<1>7. TableOK'
  <2>1. DOMAIN opt = 0..(last + 3) /\ 0..last \subseteq 0..(last + 3)
    BY <1>3
  <2>2. opt' \in [DOMAIN opt' -> Cell] /\ 0..last' \subseteq DOMAIN opt'
    BY <1>1, <1>3, <2>1
  <2>3. QED BY <2>2 DEF TableOK
<1>8. \A p \in 1..cur' : Reached(p)'
  <2>1. ASSUME NEW p \in 1..cur'
        PROVE  opt[p].mlen \in 1..p /\ StepOK(ip + p - opt[p].mlen, opt[p])
    BY <1>1, <1>3, <1>4
  <2>2. QED BY <1>1, <1>2, <2>1, ReachedStays
<1>9. sel' \in [mlen : Nat, off : Nat]
  BY <1>1, <1>3, <1>4
<1>10. StepOK(ip + cur, sel)'
  <2>1. ip + cur' = ip + last - opt[last].mlen
    BY <1>1, <1>2, <1>3, <1>4
  <2>2. StepOK(ip + cur', sel')
    BY <1>1, <1>4, <2>1 DEF StepOK
  <2>3. QED BY <1>1, <1>2, <2>2, SelectedStays
<1>11. (\E P \in SUBSET Nat :
          /\ Way(ip, P)
          /\ \A q \in P : q > cur
          /\ cur + sel.mlen \in P \/ cur + sel.mlen >= last)'
  <2>1. Way(ip, {})'
    BY DEF Way
  <2>2. cur' + sel'.mlen >= last'
    BY <1>1, <1>3, <1>6
  <2>3. QED BY <2>1, <2>2
<1>12. BackInv'
  BY <1>1, <1>2, <1>3, <1>6, <1>7, <1>8, <1>9, <1>10, <1>11 DEF BackInv
<1>13. OptInv'
  BY <1>1, <1>2, <1>3, <1>6, <1>12 DEF OptInv
<1>14. QED BY <1>2, <1>5, <1>13

LEMMA CellIs ==
    ASSUME NEW c \in Cell, NEW a, NEW b, NEW t,
           t = [c EXCEPT !.mlen = a, !.off = b]
    PROVE  t = [mlen |-> a, off |-> b, litlen |-> c.litlen, price |-> c.price]
BY DEF Cell

(***************************************************************************)
(* The walk back puts its position on the way: the step that leaves it     *)
(* leads to a position on the way, or to the last one.                     *)
(***************************************************************************)
LEMMA WayGrows ==
    ASSUME UNCHANGED <<input, last>>, cur \in Nat, cur < last,
           NEW i, NEW P \in SUBSET Nat, Way(i, P),
           \A q \in P : q > cur,
           cur + sel.mlen \in P \/ cur + sel.mlen >= last,
           StepOK(i + cur, sel),
           opt'[cur].mlen = sel.mlen, opt'[cur].off = sel.off,
           \A q \in P : opt'[q] = opt[q],
           NEW Q, Q = P \cup {cur}
    PROVE  /\ ip' = i => Way(ip, Q)'
           /\ ip' - cur' = i => Way(ip - cur, Q)'
<1>1. ASSUME NEW q \in Q
      PROVE  /\ q \in Nat /\ q < last
             /\ StepOK(i + q, opt'[q])
             /\ q + opt'[q].mlen \in Q \/ q + opt'[q].mlen >= last
  <2>1. CASE q = cur
    BY <2>1 DEF StepOK
  <2>2. CASE q \in P
    BY <2>2 DEF Way
  <2>3. QED BY <2>1, <2>2
<1>2. QED BY <1>1, WayStays

LEMMA GoBackStep ==
    ASSUME Common, OptInv, input.coder = "opt", UNCHANGED <<input, reader>>,
           GoBack, UNCHANGED nextToUpdate
    PROVE  /\ Common' /\ OptInv' /\ [BlockNext]_blockVars
           /\ nextToUpdate' >= nextToUpdate
<1> DEFINE s == opt[cur]
           n == s.mlen
<1>1. /\ pc = "back"
      /\ opt' = [opt EXCEPT ![cur].mlen = sel.mlen, ![cur].off = sel.off]
      /\ sel' = [mlen |-> s.mlen, off |-> s.off]
      /\ \/ n > cur /\ cur' = 0 /\ pc' = "emit"
         \/ ~ (n > cur) /\ cur' = cur - n /\ pc' = pc
      /\ UNCHANGED <<ip, seqs, anchor, size, result, last>>
  BY DEF GoBack
<1>2. /\ input' = input /\ result = "coding" /\ ip \in Start..End /\ ip \in Nat
      /\ matchlimit' = matchlimit /\ nextToUpdate \in Nat /\ anchor \in Nat
  BY <1>1, OptBasics
<1>3. BackInv /\ anchor <= ip /\ last \in Nat \ {0}
  BY <1>1 DEF OptInv
<1>4. /\ last < OptNum /\ cur \in Nat /\ cur < last
      /\ ip + last <= matchlimit
      /\ nextToUpdate <= ip + last
      /\ opt \in [DOMAIN opt -> Cell] /\ 0..last \subseteq DOMAIN opt
      /\ opt[0].mlen = 1
      /\ sel.mlen \in Nat /\ sel.off \in Nat
      /\ StepOK(ip + cur, sel)
  <2>1. cur \in 0..(last - 1) /\ last \in Nat
    BY <1>3 DEF BackInv
  <2>2. cur \in Nat /\ cur < last
    BY <2>1
  <2>3. QED BY <1>3, <2>2 DEF BackInv, TableOK
<1>5. \A p \in 1..cur : opt[p].mlen \in 1..p /\ StepOK(ip + p - opt[p].mlen, opt[p])
  BY <1>3 DEF BackInv, Reached
<1>6. PICK P \in SUBSET Nat :
         /\ Way(ip, P)
         /\ \A q \in P : q > cur
         /\ cur + sel.mlen \in P \/ cur + sel.mlen >= last
  BY <1>3 DEF BackInv
<1>7. /\ cur \in DOMAIN opt /\ s \in Cell /\ n \in Nat /\ s.off \in Nat
  <2>1. cur \in 0..last
    BY <1>3, <1>4
  <2>2. QED BY <1>4, <2>1 DEF Cell
<1> DEFINE x == [mlen |-> sel.mlen, off |-> sel.off, litlen |-> s.litlen,
                 price |-> s.price]
<1>8. opt' = [opt EXCEPT ![cur] = x] /\ x \in Cell
  <2>1. x \in Cell
    BY <1>4, <1>7 DEF Cell
  <2>2. opt' = [opt EXCEPT ![cur] = [s EXCEPT !.mlen = sel.mlen, !.off = sel.off]]
    BY <1>1, <1>4, <1>7, Zenon
  <2>3. [s EXCEPT !.mlen = sel.mlen, !.off = sel.off] = x
    BY <1>7, CellIs
  <2>4. QED BY <2>1, <2>2, <2>3
<1> HIDE DEF x
<1>9. /\ opt' \in [DOMAIN opt' -> Cell] /\ 0..last \subseteq DOMAIN opt'
      /\ \A q \in DOMAIN opt : q # cur => opt'[q] = opt[q]
      /\ opt'[cur] = x
  BY <1>4, <1>7, <1>8
<1>10. opt'[cur].mlen = sel.mlen /\ opt'[cur].off = sel.off
  BY <1>9 DEF x
<1>11. TableOK'
  BY <1>1, <1>9 DEF TableOK
<1>12. \A q \in P : opt'[q] = opt[q]
  <2>1. ASSUME NEW q \in P PROVE q \in 0..last /\ q # cur
    BY <1>3, <1>4, <1>6 DEF Way
  <2>2. QED BY <1>4, <1>9, <2>1
<1>13. PICK Q \in SUBSET Nat : Q = P \cup {cur}
  BY <1>4
<1>14. /\ ip' = ip => Way(ip, Q)'
       /\ ip' - cur' = ip => Way(ip - cur, Q)'
  <2>1. UNCHANGED <<input, last>>
    BY <1>1, <1>2
  <2> DEFINE i == ip
  <2>2. Way(i, P) /\ StepOK(i + cur, sel)
    BY <1>4, <1>6
  <2> HIDE DEF i
  <2>3. ip' = i => Way(ip, Q)'
    BY <1>4, <1>6, <1>10, <1>12, <1>13, <2>1, <2>2, WayGrows
  <2>4. ip' - cur' = i => Way(ip - cur, Q)'
    BY <1>4, <1>6, <1>10, <1>12, <1>13, <2>1, <2>2, WayGrows
  <2>5. QED BY <2>3, <2>4 DEF i
<1>15. Common' /\ [BlockNext]_blockVars
  BY <1>1, <1>2, IdleStep
<1>16. CASE n > cur /\ cur' = 0 /\ pc' = "emit"
  <2>1. cur = 0
    <3>1. CASE cur >= 1
      <4>1. n <= cur
        BY <1>4, <1>5, <3>1
      <4> HIDE DEF n
      <4>2. QED BY <1>4, <1>7, <1>16, <4>1
    <3>2. QED BY <1>4, <3>1
  <2>2. ip' - cur' = ip /\ ip' - cur' + last' = ip + last
    BY <1>1, <1>2, <1>3, <1>16
  <2>3. Way(ip - cur, Q)' /\ cur' \in Q
    BY <1>13, <1>14, <1>16, <2>1, <2>2
  <2>4. (\E R \in SUBSET Nat : Way(ip - cur, R) /\ cur \in R)'
    BY <2>3
  <2>5. EmitInv'
    BY <1>1, <1>2, <1>4, <1>11, <1>16, <2>2, <2>4 DEF EmitInv
  <2>6. OptInv'
    BY <1>1, <1>2, <1>3, <1>16, <2>5 DEF OptInv
  <2>7. QED BY <1>2, <1>15, <2>6
<1>17. CASE ~ (n > cur) /\ cur' = cur - n /\ pc' = pc
  <2>1. cur >= 1 /\ n \in 1..cur /\ StepOK(ip + cur - n, s)
    <3>1. cur # 0
      BY <1>4, <1>17
    <3>2. cur \in 1..cur
      BY <1>4, <3>1
    <3>3. QED BY <1>5, <3>2
  <2> HIDE DEF n
  <2>2. cur' \in 0..(last' - 1) /\ cur' < cur /\ cur' + n = cur
    BY <1>1, <1>3, <1>4, <1>17, <2>1
  <2>3. opt'[0].mlen = 1
    <3>1. 0 \in DOMAIN opt /\ 0 # cur
      BY <1>3, <1>4, <2>1
    <3>2. QED BY <1>4, <1>9, <3>1
  <2>4. \A p \in 1..cur' : Reached(p)'
    <3>1. ASSUME NEW p \in 1..cur'
          PROVE  opt'[p].mlen \in 1..p /\ StepOK(ip + p - opt'[p].mlen, opt'[p])
      <4>1. p \in 1..cur /\ p \in 0..last /\ p # cur
        BY <1>3, <1>4, <2>2
      <4>2. opt'[p] = opt[p]
        BY <1>4, <1>9, <4>1
      <4>3. QED BY <1>5, <4>1, <4>2
    <3>2. QED BY <1>1, <1>2, <3>1, ReachedStays
  <2>5. sel' \in [mlen : Nat, off : Nat] /\ sel'.mlen = n
    <3> HIDE DEF s
    <3>1. QED BY <1>1, <1>7 DEF n
  <2>6. StepOK(ip + cur, sel)'
    <3>1. ip + cur' = ip + cur - n
      BY <1>2, <1>4, <1>17, <2>1
    <3>2. StepOK(ip + cur', sel')
      BY <1>1, <2>1, <3>1 DEF StepOK
    <3>3. QED BY <1>1, <1>2, <3>2, SelectedStays
  <2>7. Way(ip, Q)'
    BY <1>1, <1>14
  <2>8. \A q \in Q : q > cur'
    BY <1>4, <1>6, <1>13, <2>2
  <2>9. cur' + sel'.mlen \in Q
    BY <1>13, <2>2, <2>5
  <2>10. (\E R \in SUBSET Nat :
            /\ Way(ip, R)
            /\ \A q \in R : q > cur
            /\ cur + sel.mlen \in R \/ cur + sel.mlen >= last)'
    BY <2>7, <2>8, <2>9
  <2>11. BackInv'
    BY <1>1, <1>2, <1>4, <1>11, <2>2, <2>3, <2>4, <2>5, <2>6, <2>10 DEF BackInv
  <2>12. OptInv'
    BY <1>1, <1>2, <1>3, <1>17, <2>11 DEF OptInv
  <2>13. QED BY <1>2, <1>15, <2>12
<1>18. QED BY <1>1, <1>16, <1>17

LEMMA EmitSequenceStep ==
    ASSUME Common, OptInv, input.coder = "opt", UNCHANGED <<input, reader>>,
           EmitSequence, UNCHANGED nextToUpdate
    PROVE  /\ Common' /\ OptInv' /\ [BlockNext]_blockVars
           /\ nextToUpdate' >= nextToUpdate
<1> DEFINE n == opt[cur].mlen
           m == [at |-> ip, len |-> n, off |-> opt[cur].off]
<1>1. /\ pc = "emit" /\ UNCHANGED <<opt, last, sel>>
      /\ \/ /\ cur >= last /\ pc' = "opt"
            /\ UNCHANGED <<ip, seqs, anchor, size, result, cur>>
         \/ /\ cur < last /\ n = 1 /\ ip' = ip + 1 /\ cur' = cur + 1
            /\ UNCHANGED <<pc, seqs, anchor, size, result>>
         \/ /\ cur < last /\ n # 1
            /\ EncodeSequence(m, "emit") \/ Overflow(m)
            /\ cur' = cur + n
  BY DEF EmitSequence
<1>2. /\ input' = input /\ result = "coding" /\ ip \in Start..End /\ ip \in Nat
      /\ matchlimit' = matchlimit /\ nextToUpdate \in Nat /\ anchor \in Nat
      /\ matchlimit = End - 5 /\ End \in Nat /\ Start \in Nat
  BY <1>1, OptBasics
<1>3. /\ anchor <= ip /\ last \in Nat \ {0} /\ cur \in Nat
      /\ nextToUpdate <= ip - cur + last
      /\ opt \in [DOMAIN opt -> Cell] /\ 0..last \subseteq DOMAIN opt
  BY <1>1 DEF OptInv, EmitInv, TableOK
<1>4. nextToUpdate' \in Nat /\ nextToUpdate' >= nextToUpdate /\ TableOK'
  BY <1>1, <1>2, <1>3 DEF TableOK
<1>5. CASE /\ cur >= last /\ pc' = "opt"
           /\ UNCHANGED <<ip, seqs, anchor, size, result, cur>>
  <2>1. Common' /\ [BlockNext]_blockVars
    BY <1>1, <1>2, <1>5, IdleStep
  <2>2. anchor' <= ip' /\ nextToUpdate' <= ip'
    BY <1>2, <1>3, <1>5
  <2>3. OptInv'
    BY <1>2, <1>4, <1>5, <2>2 DEF OptInv
  <2>4. QED BY <1>4, <2>1, <2>3
<1>6. ASSUME cur < last
      PROVE  /\ ip - cur + last <= matchlimit /\ n \in Nat
             /\ opt[cur] \in Cell
             /\ StepOK(ip, opt[cur])
             /\ \E P \in SUBSET Nat :
                   /\ Way(ip - cur, P)
                   /\ cur + n \in P \/ cur + n >= last
  <2>1. ip - cur + last <= matchlimit
    BY <1>1, <1>6 DEF OptInv, EmitInv
  <2>2. PICK P \in SUBSET Nat : Way(ip - cur, P) /\ cur \in P
    BY <1>1, <1>6 DEF OptInv, EmitInv
  <2>3. cur \in 0..last /\ opt[cur] \in Cell /\ n \in Nat
    BY <1>3, <1>6 DEF Cell
  <2>4. StepOK(ip - cur + cur, opt[cur]) /\ (cur + n \in P \/ cur + n >= last)
    BY <2>2 DEF Way
  <2>5. ip - cur + cur = ip
    BY <1>2, <1>3
  <2>6. QED BY <2>1, <2>2, <2>3, <2>4, <2>5
<1>7. ASSUME cur < last, ip' - cur' = ip - cur, cur' = cur + n
      PROVE  EmitInv'
  <2>1. PICK P \in SUBSET Nat :
           /\ Way(ip - cur, P)
           /\ cur + n \in P \/ cur + n >= last
    BY <1>6, <1>7
  <2>2. Way(ip - cur, P)'
    BY <1>1, <1>2, <1>7, <2>1, WayStays DEF Way
  <2>3. cur' < last' => cur' \in P
    BY <1>1, <1>3, <1>6, <1>7, <2>1
  <2>4. cur' < last' => (\E Q \in SUBSET Nat : Way(ip - cur, Q) /\ cur \in Q)'
    BY <2>2, <2>3
  <2>5. /\ cur' \in Nat /\ nextToUpdate' <= ip' - cur' + last'
        /\ ip' - cur' + last' <= matchlimit'
    <3>1. n \in Nat /\ ip - cur + last <= matchlimit
      BY <1>6, <1>7
    <3>2. cur' \in Nat
      BY <1>3, <1>7, <3>1
    <3>3. ip' - cur' + last' = ip - cur + last
      BY <1>1, <1>7
    <3>4. QED BY <1>1, <1>2, <1>3, <1>4, <3>1, <3>2, <3>3
  <2>6. QED BY <1>4, <2>4, <2>5 DEF EmitInv
<1>8. CASE /\ cur < last /\ n = 1 /\ ip' = ip + 1 /\ cur' = cur + 1
           /\ UNCHANGED <<pc, seqs, anchor, size, result>>
  <2>1. ip' \in Start..End /\ ip' - cur' = ip - cur /\ cur' = cur + n
    BY <1>2, <1>3, <1>6, <1>8
  <2>2. Common' /\ [BlockNext]_blockVars
    BY <1>1, <1>2, <1>8, <2>1, IdleStep
  <2>3. EmitInv'
    BY <1>7, <1>8, <2>1
  <2>4. anchor' <= ip' /\ last' \in Nat \ {0}
    BY <1>1, <1>2, <1>3, <1>8
  <2>5. OptInv'
    BY <1>1, <1>2, <1>4, <1>8, <2>3, <2>4 DEF OptInv
  <2>6. QED BY <1>4, <2>2, <2>5
<1>9. ASSUME cur < last, n # 1
      PROVE  GoodMatch(m) /\ m.at = ip
  <2>1. MatchOK(ip, opt[cur].off, n)
    BY <1>6, <1>9 DEF StepOK
  <2>2. m \in Match
    <3>1. opt[cur].off \in Nat /\ n \in Nat
      BY <1>6, <1>9 DEF Cell
    <3>2. QED BY <1>2, <3>1 DEF Match
  <2>3. QED BY <2>1, <2>2 DEF GoodMatch
<1>10. CASE cur < last /\ n # 1 /\ EncodeSequence(m, "emit") /\ cur' = cur + n
  <2>1. MatchEnd(m) = ip + n
    BY DEF MatchEnd
  <2>2. GoodMatch(m) /\ anchor <= m.at
    BY <1>3, <1>9, <1>10
  <2> HIDE DEF m
  <2>3. /\ Common' /\ [BlockNext]_blockVars
        /\ pc' = "emit" /\ anchor' = MatchEnd(m) /\ ip' = MatchEnd(m)
    BY <1>2, <1>10, <2>2, EncodeSequenceStep
  <2>4. ip' = ip + n /\ anchor' = ip' /\ n \in Nat
    BY <1>6, <1>10, <2>1, <2>3
  <2> HIDE DEF n
  <2>5. ip' - cur' = ip - cur
    BY <1>2, <1>3, <1>10, <2>4
  <2>6. EmitInv'
    BY <1>7, <1>10, <2>5
  <2>7. anchor' <= ip' /\ last' \in Nat \ {0}
    BY <1>1, <1>2, <1>3, <2>4
  <2>8. OptInv'
    BY <1>2, <1>4, <2>3, <2>6, <2>7 DEF OptInv
  <2>9. QED BY <1>4, <2>3, <2>8
<1>11. CASE cur < last /\ n # 1 /\ Overflow(m)
  <2>1. GoodMatch(m) /\ anchor <= m.at
    BY <1>3, <1>9, <1>11
  <2> HIDE DEF m, n
  <2>2. Common' /\ [BlockNext]_blockVars /\ pc' \in {"last", "returned"}
    BY <1>1, <1>2, <1>11, <2>1, OverflowStep
  <2>3. QED BY <1>2, <1>4, <2>2, OptEnds
<1>12. QED
  <2> HIDE DEF m, n
  <2>1. QED BY <1>1, <1>5, <1>8, <1>10, <1>11

(* A step of the optimal coder. *)
LEMMA OptStep ==
    ASSUME IInv, OptNext, UNCHANGED fastVars
    PROVE  /\ IInv' /\ [BlockNext]_blockVars
           /\ nextToUpdate' >= nextToUpdate
<1>1. /\ Common /\ OptInv /\ input.coder = "opt" /\ input'.coder = "opt"
      /\ UNCHANGED <<input, reader>>
  BY DEF IInv, OptNext
<1>2. /\ Common' /\ OptInv' /\ [BlockNext]_blockVars
      /\ nextToUpdate' >= nextToUpdate
  <2>1. ASSUME pc' = "returned", UNCHANGED nextToUpdate
        PROVE  OptInv' /\ nextToUpdate' >= nextToUpdate
    <3>1. nextToUpdate \in Nat
      BY <1>1 DEF OptInv
    <3>2. QED BY <1>1, <2>1, <3>1, OptEnds
  <2>2. CASE CallFails /\ UNCHANGED nextToUpdate
    BY <1>1, <2>1, <2>2, CallFailsStep
  <2>3. CASE WriteLastLiterals /\ UNCHANGED nextToUpdate
    BY <1>1, <2>1, <2>3, LastLiteralsStep
  <2>4. QED BY <1>1, <2>2, <2>3, OptBeginStep, OptSearchStep, PriceSkipsStep,
               PriceMatchStep, PriceEndsStep, GoBackStep, EmitSequenceStep
            DEF OptNext
<1>3. FastInv' /\ HcInv'
  BY <1>1 DEF FastInv, HcInv
<1>4. QED BY <1>2, <1>3 DEF IInv
-----------------------------------------------------------------------------
-----------------------------------------------------------------------------
(***************************************************************************)
(* The invariant of a call, whichever coder it is handed to.               *)
(***************************************************************************)
LEMMA InitInv ==
    ASSUME Init
    PROVE  IInv
<1>1. /\ input \in Inputs /\ seqs = <<>> /\ anchor = Start /\ size = 0
      /\ result = "coding" /\ pc = "call" /\ ip = Start
      /\ op = 0 /\ step = 1 /\ nb = 0 /\ nextToUpdate = Start
      /\ table = IF input.coder = "fast" THEN OwnTable ELSE {}
  BY DEF Init, CoderInit, BlockInit, FastInit, HcInit
<1>2. /\ Start \in Nat /\ End \in Nat /\ Start <= End /\ input.room \in Nat
  BY <1>1, Limits
<1>3. CodingTypeOK /\ SizeInRoom
  <2>1. <<>> \in Seq(Sequence)
    OBVIOUS
  <2>2. QED BY <1>1, <1>2, <2>1 DEF CodingTypeOK, SizeInRoom
<1>4. Common
  BY <1>1, <1>3 DEF Common, EndsWell
<1>5. FastInv
  <2>1. SUFFICES ASSUME input.coder = "fast" PROVE FastInv
    BY DEF FastInv
  <2>2. input.gap \in Nat
    BY <1>1, <2>1, FastAssumption DEF FastAssumption
  <2>3. table \subseteq (-input.gap)..End /\ \A t \in table : t <= Start
    BY <1>1, <1>2, <2>1, <2>2 DEF OwnTable, HASH_UNIT
  <2>4. QED BY <1>1, <2>3 DEF FastInv, FastTyped
<1>6. HcInv /\ OptInv
  BY <1>1, <1>2 DEF HcInv, OptInv
<1>7. QED BY <1>4, <1>5, <1>6 DEF IInv

LEMMA StutterInv ==
    ASSUME IInv, UNCHANGED compressVars
    PROVE  IInv'
<1>1. /\ input' = input /\ seqs' = seqs /\ anchor' = anchor /\ size' = size
      /\ result' = result /\ pc' = pc /\ ip' = ip
      /\ op' = op /\ match' = match /\ filled' = filled /\ step' = step
      /\ nb' = nb /\ table' = table
      /\ m0' = m0 /\ m1' = m1 /\ m2' = m2 /\ nextToUpdate' = nextToUpdate
      /\ opt' = opt /\ cur' = cur /\ last' = last /\ sel' = sel
  BY DEF compressVars, blockVars, writer, reader, fastVars, hcVars, matchVars, optVars
<1>2. /\ Start' = Start /\ End' = End /\ mflimit' = mflimit
      /\ matchlimit' = matchlimit /\ limited' = limited
  BY <1>1, LimitsStay
<1>3. Common'
  BY <1>1, <1>2 DEF IInv, Common, CodingTypeOK, SizeInRoom, EndsWell, LastMatch
<1>4. FastInv'
  BY <1>1, <1>2 DEF IInv, FastInv, FastTyped, AtSearch, AtFound, AtMatch, AtTest,
                    FoundAt, SameFour, IsMatch, At, LiteralsSize, ExtraBytes
<1>5. HcInv'
  BY <1>1, <1>2 DEF IInv, HcInv, GoodMatch, MatchOK, IsMatch, At, MatchEnd,
                    SecondAt, ThirdAt
<1>6. OptInv'
  <2>1. ASSUME NEW p, NEW off, NEW n
        PROVE  MatchOK(p, off, n)' <=> MatchOK(p, off, n)
    BY <1>1, <1>2 DEF MatchOK, IsMatch, At
  <2>2. ASSUME NEW p, NEW s PROVE StepOK(p, s)' <=> StepOK(p, s)
    BY <2>1 DEF StepOK
  <2>3. ASSUME NEW p PROVE Reached(p)' <=> Reached(p)
    BY <1>1, <2>2 DEF Reached
  <2>4. ASSUME NEW base, NEW P PROVE Way(base, P)' <=> Way(base, P)
    BY <1>1, <2>2 DEF Way
  <2>5. TableOK' <=> TableOK
    BY <1>1 DEF TableOK
  <2>6. PriceInv => PriceInv'
    BY <1>1, <1>2, <2>3 DEF PriceInv
  <2>7. BackInv => BackInv'
    BY <1>1, <1>2, <2>2, <2>3, <2>4, <2>5 DEF BackInv
  <2>8. EmitInv => EmitInv'
    BY <1>1, <1>2, <2>4, <2>5 DEF EmitInv
  <2>9. QED BY <1>1, <2>6, <2>7, <2>8 DEF IInv, OptInv
<1>7. QED BY <1>3, <1>4, <1>5, <1>6 DEF IInv

(* Every step keeps it, is one of Lz4Block, and searches forward. *)
LEMMA CompressStep ==
    ASSUME IInv, [Next]_compressVars
    PROVE  /\ IInv' /\ [BlockNext]_blockVars
           /\ [nextToUpdate' >= nextToUpdate]_nextToUpdate
<1>1. CASE FastNext /\ UNCHANGED <<hcVars, optVars>>
  BY <1>1, FastStep DEF hcVars
<1>2. CASE HcNext /\ UNCHANGED <<fastVars, optVars>>
  BY <1>2, HcStep
<1>3. CASE OptNext /\ UNCHANGED fastVars
  BY <1>3, OptStep
<1>4. CASE UNCHANGED compressVars
  BY <1>4, StutterInv DEF compressVars, hcVars
<1>5. QED BY <1>1, <1>2, <1>3, <1>4 DEF Next

(***************************************************************************)
(* The inductive invariant: at the head of each loop of                    *)
(* LZ4_compress_generic, LZ4HC_compress_hashChain and                      *)
(* LZ4HC_compress_optimal the matches, positions, prices and rooms are     *)
(* what the rest of the loop relies on.                                    *)
(***************************************************************************)
THEOREM Invariant == Spec => []IInv
<1>1. Init => IInv
  BY InitInv
<1>2. IInv /\ [Next]_compressVars => IInv'
  BY CompressStep
<1>3. QED BY <1>1, <1>2, PTL DEF Spec

(***************************************************************************)
(* The fast coder compares no bytes in front of the dictionary             *)
(* (LZ4_compress_generic, dictIssue), whatever an earlier block or         *)
(* another stream has left in the table.                                   *)
(***************************************************************************)
THEOREM ComparesInside == Spec => []ReadsInside
<1>1. IInv => ReadsInside
  <2>1. ASSUME IInv, pc = "outside" PROVE FALSE
    <3>1. input.coder \in {"fast", "hc", "opt"}
      BY <2>1, CallsAssumption DEF IInv, Common, CodingTypeOK, CallsAssumption
    <3>2. QED BY <2>1, <3>1 DEF IInv, FastInv, HcInv, OptInv
  <2>2. QED BY <2>1 DEF ReadsInside
<1>2. QED BY <1>1, Invariant, PTL

(***************************************************************************)
(* The table of prices on the stack of LZ4HC_compress_optimal is never     *)
(* left, and each position on the way back is left by a literal or by a    *)
(* match that may be written.                                              *)
(***************************************************************************)
THEOREM PricesStayInTable == Spec => []TableFits
<1>1. IInv => TableFits
  <2>1. SUFFICES ASSUME IInv PROVE TableFits
    OBVIOUS
  <2>2. OptNum \in Nat /\ input \in Inputs /\ ip \in Nat /\ End \in Nat
        /\ matchlimit = End - 5
    BY <2>1, Limits, OptAssumption DEF IInv, Common, CodingTypeOK, OptAssumption
  <2>3. input.coder = "opt" \/ pc \notin {"price", "back", "emit"}
    <3>1. input.coder \in {"fast", "hc", "opt"}
      BY <2>2, CallsAssumption DEF CallsAssumption
    <3>2. QED BY <2>1, <3>1 DEF IInv, FastInv, HcInv
  <2>4. ASSUME input.coder = "opt", pc \in {"price", "back"}
        PROVE  last < OptNum /\ cur \in 0..(OptNum - 1)
    <3>1. last \in Nat \ {0} /\ last < OptNum /\ cur \in 0..last
      BY <2>1, <2>4 DEF IInv, OptInv, PriceInv, BackInv
    <3>2. QED BY <2>2, <3>1
  <2>5. ASSUME input.coder = "opt", pc = "emit", cur < last
        PROVE  opt[cur].mlen \in {1} \cup MINMATCH..End
    <3>1. EmitInv /\ cur \in Nat
      BY <2>1, <2>5 DEF IInv, OptInv, EmitInv
    <3>2. PICK P \in SUBSET Nat : Way(ip - cur, P) /\ cur \in P
      BY <2>5, <3>1 DEF EmitInv
    <3>3. StepOK(ip - cur + cur, opt[cur]) /\ ip - cur + cur = ip
      BY <2>2, <3>1, <3>2 DEF Way
    <3>4. opt[cur].mlen = 1 \/ MatchOK(ip, opt[cur].off, opt[cur].mlen)
      BY <3>3 DEF StepOK
    <3>5. QED BY <2>2, <3>4 DEF MatchOK, MINMATCH
  <2>6. QED BY <2>3, <2>4, <2>5 DEF TableFits
<1>2. QED BY <1>1, Invariant, PTL

(***************************************************************************)
(* The hash-chain and the optimal coder never search in front of a         *)
(* position they have put into the tables (LZ4HC_InsertAndGetWiderMatch),  *)
(* although they go back to matches they had passed.                       *)
(***************************************************************************)
THEOREM SearchesOnlyForward == Spec => SearchesForward
<1>1. IInv /\ [Next]_compressVars => [nextToUpdate' >= nextToUpdate]_nextToUpdate
  BY CompressStep
<1>2. QED BY <1>1, Invariant, PTL DEF Spec, SearchesForward

(***************************************************************************)
(* The refinement: every step of every coder is a step of Lz4Block or      *)
(* leaves the block alone, so that what is proved of Lz4Block holds of     *)
(* LZ4_compress_fast_continue and LZ4_compress_HC_continue.                *)
(***************************************************************************)
THEOREM EveryCoderWritesBlocks == Spec => ImplementsBlock
<1>1. Init => BlockInit
  BY DEF Init, CoderInit
<1>2. IInv /\ [Next]_compressVars => [BlockNext]_blockVars
  BY CompressStep
<1>3. QED BY <1>1, <1>2, Invariant, PTL DEF Spec, ImplementsBlock, BlockSpec

(***************************************************************************)
(* No block that a coder returns is longer than LZ4_COMPRESSBOUND says:    *)
(* the output the callers allocate is large enough for each of the three.  *)
(***************************************************************************)
THEOREM CodersWithinBound == Spec => []WithinBound
BY EveryCoderWritesBlocks, NeverAboveBound, PTL DEF ImplementsBlock
-----------------------------------------------------------------------------
(***************************************************************************)
(* What is written to the output, by the sequence in work and by copies    *)
(* that go further than they need to.  An end of what is written is inside *)
(* if it is in the room the coder was given or, where it was given none,   *)
(* if it costs no more than the text up to somewhere, a byte in every 255  *)
(* of it, and 16 (CostsFit).                                               *)
(***************************************************************************)
Fits(e) == e \in Nat /\ e <= Capacity

LEMMA CapacityIs ==
    ASSUME input \in Inputs
    PROVE  Capacity \in Nat
<1> DEFINE t == End - Start
<1>1. t \in Nat /\ TextLength = t /\ input.room \in Nat
  BY Limits DEF TextLength
<1> HIDE DEF t
<1>2. t \div 255 \in Nat
  BY <1>1
<1>3. QED BY <1>1, <1>2 DEF Capacity, LZ4_COMPRESSBOUND

LEMMA CostsFit ==
    ASSUME input \in Inputs, NEW e \in Nat, limited => e <= input.room,
           NEW n \in Nat, Start + n <= End, 255 * e <= 256 * n + 4080
    PROVE  Fits(e)
<1> DEFINE t == End - Start
           q == t \div 255
<1>1. t \in Nat /\ n <= t
  BY Limits
<1> HIDE DEF t
<1>2. q \in Nat /\ t < 255 * q + 255
  BY <1>1
<1> HIDE DEF q
<1>3. e <= t + q + 16
  BY <1>1, <1>2
<1>4. QED BY <1>3 DEF Fits, Capacity, LZ4_COMPRESSBOUND, TextLength, t, q

LEMMA FitsStays ==
    ASSUME UNCHANGED input, UNCHANGED top, Fits(top)
    PROVE  Fits(top)'
<1>1. Capacity' = Capacity
  BY LimitsStay DEF Capacity
<1>2. QED BY <1>1 DEF Fits

(* What ends where it fits keeps all that has been written inside. *)
LEMMA TouchesInside ==
    ASSUME input \in Inputs, UNCHANGED input, Fits(top), NEW ends,
           \A e \in ends : Fits(e), Touches(ends)
    PROVE  Fits(top)'
<1> DEFINE S == {top} \cup ends
           c == Capacity + 1
<1>1. Capacity \in Nat /\ Capacity' = Capacity
  <2>1. Capacity' = Capacity
    BY LimitsStay DEF Capacity
  <2>2. QED BY <2>1, CapacityIs
<1>2. S \subseteq Int /\ S # {} /\ c \in Int /\ \A q \in S : q < c
  BY <1>1 DEF Fits
<1>3. top' = Max(S)
  BY DEF Touches
<1>4. \A q \in S : Fits(q)
  OBVIOUS
<1> HIDE DEF S, c
<1>5. Max(S) \in S
  BY <1>2, LargestBelow
<1>6. Fits(top')
  BY <1>3, <1>4, <1>5
<1>7. QED BY <1>1, <1>6 DEF Fits

(***************************************************************************)
(* LZ4_wildCopy8 goes eight bytes beyond the literals where there are      *)
(* none, and seven at most where there are some; the tests for room        *)
(* estimate the bytes of their length by one less.                         *)
(***************************************************************************)
LEMMA LiteralsReachIs ==
    ASSUME NEW o \in Nat, NEW ll \in Nat
    PROVE  /\ LiteralsReach(o, ll) \in Nat /\ LiteralsSize(ll) \in Nat
           /\ LiteralsReach(o, ll) <= o + LiteralsSize(ll) + 8
           /\ LiteralsReach(o, ll) <= o + 1 + (ll \div 255) + ll + 8
           /\ LiteralsSize(ll) <= 1 + (ll \div 255) + ll + 1
<1> DEFINE x == ExtraBytes(ll)
           d == ll \div 255
           w == (ll + 7) \div 8
<1>1. x \in Nat /\ (ll = 0 => x = 0) /\ 255 * x <= ll + 240
  BY ExtraBytesBounded
<1>2. d \in Nat /\ ll < 255 * d + 255
  OBVIOUS
<1>3. w \in Nat /\ 8 * w <= ll + 7
  OBVIOUS
<1>4. LiteralsSize(ll) = 1 + x + ll
  BY DEF LiteralsSize
<1>5. LiteralsReach(o, ll) = o + 1 + x + 8 * (IF ll = 0 THEN 1 ELSE w)
  BY DEF LiteralsReach, WildCopy8
<1> HIDE DEF x, w
<1>6. x <= d + 1
  <2> HIDE DEF d
  <2>1. QED BY <1>1, <1>2
<1>7. CASE ll = 0
  <2>1. d = 0
    BY <1>7
  <2> HIDE DEF d
  <2>2. QED BY <1>1, <1>4, <1>5, <1>7, <2>1 DEF d
<1>8. CASE ll # 0
  <2> HIDE DEF d
  <2>1. LiteralsReach(o, ll) = o + 1 + x + 8 * w
    BY <1>5, <1>8
  <2>2. QED BY <1>1, <1>2, <1>3, <1>4, <1>6, <1>8, <2>1 DEF d
<1>9. QED BY <1>7, <1>8

LEMMA LiteralsFit ==
    ASSUME input \in Inputs, BlockInv, result = "coding",
           NEW ll \in Nat, anchor + ll <= End,
           limited => LiteralsReach(size, ll) <= input.room
    PROVE  Fits(LiteralsReach(size, ll))
<1> DEFINE n == anchor - Start + ll
           e == LiteralsReach(size, ll)
<1>1. /\ size \in Nat /\ anchor \in Start..End /\ Start \in Nat /\ End \in Nat
      /\ 255 * size <= 256 * (anchor - Start)
  BY InputTypes DEF BlockInv, BlockTypeOK, Cost
<1>2. e \in Nat /\ e <= size + LiteralsSize(ll) + 8
  BY <1>1, LiteralsReachIs
<1>3. LiteralsSize(ll) \in Nat /\ 255 * LiteralsSize(ll) <= 256 * ll + 495
  BY LiteralsCost
<1>4. n \in Nat /\ Start + n <= End
  BY <1>1
<1>5. 255 * e <= 256 * n + 4080
  <2> HIDE DEF e
  <2>1. QED BY <1>1, <1>2, <1>3
<1> HIDE DEF n, e
<1>6. QED BY <1>2, <1>4, <1>5, CostsFit DEF e

(* What is behind the literals of a sequence: its offset. *)
LEMMA OffsetFits ==
    ASSUME input \in Inputs, BlockInv, result = "coding",
           NEW ll \in Nat, anchor + ll <= End,
           limited => size + LiteralsSize(ll) + 2 <= input.room
    PROVE  Fits(size + LiteralsSize(ll) + 2)
<1> DEFINE n == anchor - Start + ll
           e == size + LiteralsSize(ll) + 2
<1>1. /\ size \in Nat /\ anchor \in Start..End /\ Start \in Nat /\ End \in Nat
      /\ 255 * size <= 256 * (anchor - Start)
  BY InputTypes DEF BlockInv, BlockTypeOK, Cost
<1>2. LiteralsSize(ll) \in Nat /\ 255 * LiteralsSize(ll) <= 256 * ll + 495
  BY LiteralsCost
<1>3. n \in Nat /\ Start + n <= End /\ e \in Nat
  BY <1>1, <1>2
<1>4. 255 * e <= 256 * n + 4080
  BY <1>1, <1>2
<1> HIDE DEF n, e
<1>5. QED BY <1>3, <1>4, CostsFit DEF e

(* Where the block ends after a step is inside. *)
LEMMA EndFits ==
    ASSUME input \in Inputs, NEW e \in Nat, limited => e <= input.room,
           NEW a \in Start..End, 255 * e <= 256 * (a - Start) + 510
    PROVE  Fits(e)
<1> DEFINE n == a - Start
<1>1. Start \in Nat /\ End \in Nat
  BY InputTypes
<1>2. n \in Nat /\ Start + n <= End
  BY <1>1
<1>3. 255 * e <= 256 * n + 510
  OBVIOUS
<1> HIDE DEF n
<1>4. 255 * e <= 256 * n + 4080
  BY <1>2, <1>3
<1>5. QED BY <1>2, <1>4, CostsFit

LEMMA SizeFits ==
    ASSUME BlockInv', Common', UNCHANGED input
    PROVE  Fits(size')
<1>1. /\ input \in Inputs /\ Start' = Start /\ End' = End /\ limited' = limited
      /\ input' = input
  BY LimitsStay DEF Common, CodingTypeOK
<1>2. /\ size' \in Nat /\ anchor' \in Start'..End'
      /\ limited' => size' <= input'.room
  BY DEF Common, CodingTypeOK, SizeInRoom
<1>3. PICK e \in Nat : e = size'
  BY <1>2
<1>4. PICK a \in Start..End : a = anchor'
  BY <1>1, <1>2
<1>5. limited => e <= input.room
  BY <1>1, <1>2, <1>3
<1>6. 255 * e <= 256 * (a - Start) + (IF result' = "coded" THEN 510 ELSE 0)
  <2>1. 255 * size' <= 256 * (anchor' - Start')
                          + (IF result' = "coded" THEN 510 ELSE 0)
    BY DEF BlockInv, Cost
  <2>2. QED BY <1>1, <1>3, <1>4, <2>1
<1>7. 255 * e <= 256 * (a - Start) + 510
  <2>1. Start \in Nat /\ End \in Nat
    BY <1>1, InputTypes
  <2>2. QED BY <1>6, <2>1
<1>8. Fits(e)
  BY <1>1, <1>5, <1>7, EndFits
<1>9. QED BY <1>3, <1>8

(***************************************************************************)
(* What the hash-chain and the optimal coder write is of a good match that *)
(* begins behind what has been written.                                    *)
(***************************************************************************)
WritesGood ==
    \E m : GoodMatch(m) /\ anchor <= m.at /\ (EncodeSequence(m, pc') \/ Overflow(m))

LEMMA GoodWritten ==
    ASSUME NEW m, GoodMatch(m), anchor <= m.at, NEW next,
           EncodeSequence(m, next) \/ Overflow(m)
    PROVE  WritesGood
<1>1. EncodeSequence(m, next) => EncodeSequence(m, pc')
  BY DEF EncodeSequence
<1>2. EncodeSequence(m, pc') \/ Overflow(m)
  BY <1>1
<1>3. QED BY <1>2, Zenon DEF WritesGood

LEMMA HcWrites ==
    ASSUME Common, HcInv, HcNext
    PROVE  WritesGood \/ WriteLastLiterals \/ top' = top
<1>1. input.coder = "hc" /\ UNCHANGED <<input, reader>>
  BY DEF HcNext
<1>2. CASE EncodeOnlyMatch
  <2>1. pc = "second" /\ (EncodeSequence(m1, "first") \/ Overflow(m1))
    BY <1>2 DEF EncodeOnlyMatch
  <2>2. anchor \in Nat
    BY <1>1, <2>1, HcBasics
  <2>3. GoodMatch(m1) /\ anchor <= m1.at
    BY <1>1, <2>1, <2>2, SecondBasics
  <2>4. QED BY <2>1, <2>3, GoodWritten
<1>3. CASE EncodeBoth
  <2> DEFINE s == Squeezed(m1, m2)
             f == Trimmed(m1, s)
  <2>1. pc = "third" /\ (EncodeSequence(f, "both") \/ Overflow(f))
    BY <1>3 DEF EncodeBoth
  <2>2. s = Squeezed(m1, m2)
    OBVIOUS
  <2> HIDE DEF s
  <2>3. /\ GoodMatch(m1) /\ anchor <= m1.at /\ s.at \in Nat /\ s.at >= m1.at + 4
        /\ input \in Inputs
    BY <1>1, <2>1, <2>2, ThirdBasics, HcBasics
  <2>4. GoodMatch(f) /\ f.at = m1.at
    BY <2>3, TrimmedFits
  <2> HIDE DEF f
  <2>5. QED BY <2>1, <2>3, <2>4, GoodWritten
<1>4. CASE EncodeSecond
  <2>1. pc = "both" /\ (EncodeSequence(m2, "first") \/ Overflow(m2))
    BY <1>4 DEF EncodeSecond
  <2>2. GoodMatch(m2) /\ anchor <= m2.at
    BY <1>1, <2>1 DEF HcInv
  <2>3. QED BY <2>1, <2>2, GoodWritten
<1>5. CASE SkipSecond
  <2>1. pc = "third" /\ (EncodeSequence(m1, "second") \/ Overflow(m1))
    BY <1>5 DEF SkipSecond
  <2>2. GoodMatch(m1) /\ anchor <= m1.at
    BY <1>1, <2>1, ThirdBasics
  <2>3. QED BY <2>1, <2>2, GoodWritten
<1>6. CASE EncodeOfThree
  <2> DEFINE s == Squeezed(m1, m2)
             moved == IF s.at < MatchEnd(m1) THEN Squeezed(m1, s) ELSE s
             first == IF s.at >= MatchEnd(m1) THEN m1
                      ELSE IF s.at - m1.at < OPTIMAL_ML
                           THEN [m1 EXCEPT !.len = FirstLength(m1, s)]
                           ELSE Trimmed(m1, s)
  <2>1. pc = "third" /\ (EncodeSequence(first, "third") \/ Overflow(first))
    BY <1>6 DEF EncodeOfThree
  <2>2. PICK m \in Thirds(s) : m.at >= MatchEnd(m1) + 3
    BY <1>6 DEF EncodeOfThree
  <2> HIDE DEF s
  <2>3. s = Squeezed(m1, m2)
    BY DEF s
  <2>4. anchor <= m1.at
    BY <1>1, <2>1, <2>3, ThirdBasics
  <2>5. GoodMatch(first) /\ first.at = m1.at
    BY <1>1, <2>1, <2>2, <2>3, OfThree
  <2> HIDE DEF first
  <2>6. QED BY <2>1, <2>4, <2>5, GoodWritten
<1>7. CASE \/ CallFails \/ HcBegin \/ SearchFirst \/ SearchSecond \/ DropSecond
  BY <1>7 DEF CallFails, HcBegin, BeginCall, SearchFirst, SearchSecond, DropSecond
<1>8. QED BY <1>2, <1>3, <1>4, <1>5, <1>6, <1>7 DEF HcNext

LEMMA OptWrites ==
    ASSUME Common, OptInv, OptNext
    PROVE  WritesGood \/ WriteLastLiterals \/ top' = top
<1>1. input.coder = "opt" /\ UNCHANGED <<input, reader>>
  BY DEF OptNext
<1>2. CASE OptSearch
  <2>1. \/ top' = top
        \/ /\ pc = "opt" /\ ip <= mflimit
           /\ \E m \in Longer(ip, MINMATCH - 1) :
                 EncodeSequence(m, "opt") \/ Overflow(m)
    BY <1>2 DEF OptSearch
  <2>2. ASSUME pc = "opt", ip <= mflimit, NEW m \in Longer(ip, MINMATCH - 1),
               EncodeSequence(m, "opt") \/ Overflow(m)
        PROVE  WritesGood
    <3>1. input \in Inputs /\ ip \in Nat /\ anchor <= ip
      BY <1>1, <2>2, OptBasics DEF OptInv
    <3>2. MINMATCH - 1 \in Nat
      BY DEF MINMATCH
    <3>3. GoodMatch(m) /\ m.at = ip
      BY <2>2, <3>1, <3>2, LongerIsGood
    <3>4. QED BY <2>2, <3>1, <3>3, GoodWritten
  <2>3. QED BY <2>1, <2>2
<1>3. CASE EmitSequence
  <2> DEFINE n == opt[cur].mlen
             m == [at |-> ip, len |-> n, off |-> opt[cur].off]
  <2>1. \/ top' = top
        \/ pc = "emit" /\ cur < last /\ n # 1
           /\ (EncodeSequence(m, "emit") \/ Overflow(m))
    BY <1>3 DEF EmitSequence
  <2>2. ASSUME pc = "emit", cur < last, n # 1
        PROVE  GoodMatch(m) /\ anchor <= m.at
    <3>1. /\ ip \in Nat /\ cur \in Nat /\ last \in Nat /\ anchor <= ip
          /\ TableOK /\ EmitInv
      BY <1>1, <2>2, OptBasics DEF OptInv, EmitInv
    <3>2. opt[cur] \in Cell
      <4>1. cur \in DOMAIN opt
        BY <2>2, <3>1 DEF TableOK
      <4>2. QED BY <3>1, <4>1 DEF TableOK
    <3>3. StepOK(ip - cur + cur, opt[cur])
      BY <2>2, <3>1 DEF EmitInv, Way
    <3>4. ip - cur + cur = ip
      BY <3>1
    <3>5. MatchOK(ip, opt[cur].off, n)
      BY <2>2, <3>3, <3>4 DEF StepOK
    <3>6. m \in Match
      BY <3>1, <3>2 DEF Match, Cell
    <3>7. QED BY <3>1, <3>5, <3>6 DEF GoodMatch
  <2> HIDE DEF m, n
  <2>3. QED BY <2>1, <2>2, GoodWritten
<1>4. CASE CallFails \/ OptBegin \/ PriceSkips \/ PriceMatch \/ PriceEnds \/ GoBack
  BY <1>4 DEF CallFails, OptBegin, BeginCall, PriceSkips, PriceMatch, PriceEnds, GoBack
<1>5. QED BY <1>2, <1>3, <1>4 DEF OptNext

(***************************************************************************)
(* A sequence that has passed the test for its literals writes them inside *)
(* although they are copied eight at a time; so does one whose match is    *)
(* cut, which is tested by what is left behind the literals.               *)
(***************************************************************************)
LEMMA MatchWithin ==
    ASSUME Common, NEW m, GoodMatch(m), anchor <= m.at
    PROVE  /\ input \in Inputs /\ size \in Nat /\ input.room \in Nat
           /\ m.at - anchor \in Nat /\ anchor + (m.at - anchor) <= End
           /\ oend \in Int /\ oend <= input.room
           /\ input.dir = "fillOutput" => oend = input.room - 5
<1>1. /\ m.at \in Nat /\ m.at <= mflimit /\ input \in Inputs /\ size \in Nat
      /\ anchor \in Nat /\ End \in Nat /\ mflimit = End - 12 /\ input.room \in Nat
  BY GoodBasics, Limits DEF Common, CodingTypeOK
<1>2. QED BY <1>1 DEF oend, LASTLITERALS

LEMMA LiteralsWithin ==
    ASSUME Common, BlockInv, result = "coding",
           NEW m, GoodMatch(m), anchor <= m.at, RoomForLiterals(m)
    PROVE  /\ Fits(LiteralsReach(size, m.at - anchor))
           /\ Fits(size + LiteralsSize(m.at - anchor) + 2)
<1> DEFINE ll == m.at - anchor
           d == ll \div 255
           x == LiteralsReach(size, ll)
           y == LiteralsSize(ll)
<1>1. /\ input \in Inputs /\ size \in Nat /\ input.room \in Nat
      /\ ll \in Nat /\ anchor + ll <= End /\ oend \in Int /\ oend <= input.room
  BY MatchWithin
<1>2. limited => size + 1 + d + ll + 8 <= oend
  BY DEF RoomForLiterals, LASTLITERALS
<1> HIDE DEF ll
<1>3. d \in Nat
  BY <1>1
<1>4. /\ x \in Nat /\ x <= size + 1 + d + ll + 8
      /\ y \in Nat /\ y <= 1 + d + ll + 1
  BY <1>1, LiteralsReachIs
<1> HIDE DEF d, x, y
<1>5. limited => x <= input.room /\ size + y + 2 <= input.room
  BY <1>1, <1>2, <1>3, <1>4
<1>6. QED BY <1>1, <1>5, LiteralsFit, OffsetFits DEF x, y, ll

LEMMA ClippedWithin ==
    ASSUME Common, BlockInv, result = "coding", input.dir = "fillOutput",
           NEW m, GoodMatch(m), anchor <= m.at, NEW c \in Clipped(m)
    PROVE  Fits(LiteralsReach(size, c.at - anchor))
<1> DEFINE ll == m.at - anchor
           x == LiteralsReach(size, ll)
           y == LiteralsSize(ll)
<1>1. /\ input \in Inputs /\ size \in Nat /\ input.room \in Nat
      /\ ll \in Nat /\ anchor + ll <= End /\ oend = input.room - 5
  BY MatchWithin
<1>2. c.at = m.at
  BY ClippedFits
<1>3. size + 1 + ((ll + 240) \div 255) + ll <= oend - 3
  BY DEF Clipped
<1> HIDE DEF ll
<1>4. ExtraBytes(ll) = (ll + 240) \div 255 /\ ExtraBytes(ll) \in Nat
  BY <1>1, EstimateExact, ExtraBytesBounded
<1>5. size + y <= oend - 3
  BY <1>1, <1>3, <1>4 DEF LiteralsSize
<1>6. x \in Nat /\ y \in Nat /\ x <= size + y + 8
  BY <1>1, LiteralsReachIs
<1> HIDE DEF x, y
<1>7. x <= input.room
  BY <1>1, <1>5, <1>6
<1>8. QED BY <1>1, <1>2, <1>7, LiteralsFit DEF x, ll

LEMMA GoodWriteFits ==
    ASSUME Common, BlockInv, result = "coding", UNCHANGED input, Fits(top),
           Common', BlockInv', WritesGood
    PROVE  Fits(top)'
<1>1. PICK m : GoodMatch(m) /\ anchor <= m.at /\ (EncodeSequence(m, pc') \/ Overflow(m))
  BY DEF WritesGood
<1>2. input \in Inputs /\ Fits(size')
  BY SizeFits DEF Common, CodingTypeOK
<1>3. CASE EncodeSequence(m, pc')
  <2>1. /\ RoomForLiterals(m) /\ Touches(Ends(m))
        /\ size' = size + SequenceSize(m.at - anchor, m.len)
    BY <1>3 DEF EncodeSequence, HasRoom, Write, AddSequence
  <2>2. Fits(LiteralsReach(size, m.at - anchor))
    BY <1>1, <2>1, LiteralsWithin
  <2>3. \A e \in Ends(m) : Fits(e)
    BY <1>2, <2>1, <2>2 DEF Ends
  <2>4. QED BY <1>2, <2>1, <2>3, TouchesInside
<1>4. CASE Overflow(m)
  <2>1. \A e \in EndsBegun(m) : Fits(e)
    <3>1. CASE RoomForLiterals(m)
      <4>1. /\ Fits(LiteralsReach(size, m.at - anchor))
            /\ Fits(size + LiteralsSize(m.at - anchor) + 2)
        BY <1>1, <3>1, LiteralsWithin
      <4>2. QED BY <4>1 DEF EndsBegun
    <3>2. CASE ~ RoomForLiterals(m)
      BY <3>2 DEF EndsBegun
    <3>3. QED BY <3>1, <3>2
  <2>2. CASE Touches(EndsBegun(m))
    BY <1>2, <2>1, <2>2, TouchesInside
  <2>3. ASSUME input.dir = "fillOutput", NEW c \in Clipped(m), Write(c),
               Touches(EndsBegun(m) \cup Ends(c))
        PROVE  Fits(top)'
    <3>1. Fits(LiteralsReach(size, c.at - anchor))
      BY <1>1, <2>3, ClippedWithin
    <3>2. size' = size + SequenceSize(c.at - anchor, c.len)
      BY <2>3 DEF Write, AddSequence
    <3>3. \A e \in EndsBegun(m) \cup Ends(c) : Fits(e)
      BY <1>2, <2>1, <3>1, <3>2 DEF Ends
    <3>4. QED BY <1>2, <2>3, <3>3, TouchesInside
  <2>4. QED BY <1>4, <2>2, <2>3 DEF Overflow
<1>5. QED BY <1>1, <1>3, <1>4

(* The last literals: the block ends with them. *)
LEMMA LastLiteralsFit ==
    ASSUME Common, UNCHANGED input, Fits(top), Common', BlockInv', WriteLastLiterals
    PROVE  Fits(top)'
<1>1. input \in Inputs /\ Fits(size')
  BY SizeFits DEF Common, CodingTypeOK
<1>2. ASSUME NEW n, EndBlock(n) PROVE Fits(top)'
  <2>1. Touches({size'})
    BY <1>2 DEF EndBlock
  <2>2. QED BY <1>1, <2>1, TouchesInside
<1>3. ASSUME UNCHANGED top PROVE Fits(top)'
  BY <1>3, FitsStays
<1>4. QED BY <1>2, <1>3 DEF WriteLastLiterals

(***************************************************************************)
(* The fast coder writes a literal length and its literals, then an        *)
(* offset, then a match length: each test leaves what the next write       *)
(* needs.                                                                  *)
(***************************************************************************)
FastRoom ==
    input.coder = "fast" /\ limited =>
        /\ pc = "match" => op + 5 <= input.room
        /\ pc = "test" => op + 6 <= input.room

TopInv == Fits(top) /\ FastRoom

LEMMA EncodeLiteralsFits ==
    ASSUME Common, FastInv, input.coder = "fast", UNCHANGED <<input, reader>>,
           BlockInv, TopInv, EncodeLiterals
    PROVE  TopInv'
<1> DEFINE b  == CountBack(ip, match, anchor, LowLimit(match))
           ll == ip - b - anchor
           d  == ll \div 255
           x  == LiteralsReach(size, ll)
           y  == LiteralsSize(ll)
<1>1. /\ pc = "found" /\ input' = input
      /\ \/ pc' \in {"returned", "last"} /\ UNCHANGED top
         \/ /\ op' = op + LiteralsSize(ll) /\ pc' = "match"
            /\ Touches({LiteralsReach(op, ll)})
            /\ ~ (/\ input.dir = "limitedOutput"
                  /\ op + 1 + ll + (2 + 1 + LASTLITERALS) + (ll \div 255)
                                                               > input.room)
            /\ ~ (/\ input.dir = "fillOutput"
                  /\ op + 1 + ((ll + 240) \div 255) + ll + 2 + 1
                                     + MFLIMIT - MINMATCH > input.room)
  BY DEF EncodeLiterals, GiveUp
<1>2. /\ input \in Inputs /\ result = "coding" /\ size \in Nat /\ anchor \in Nat
      /\ Start \in Nat /\ End \in Nat /\ mflimit = End - 12 /\ input.room \in Nat
      /\ anchor \in Start..End /\ input.dir \in Directives
  BY <1>1, FastBasics
<1>3. /\ ip \in Nat /\ match \in 0..(ip - 1) /\ anchor <= ip /\ ip <= mflimit
      /\ op = size
  BY <1>1 DEF FastInv, AtFound, FoundAt
<1>4. b \in Nat /\ b <= ip - anchor
  <2>1. LowLimit(match) \in Nat /\ LowLimit(match) <= match /\ match \in Nat
    BY <1>2, <1>3 DEF LowLimit
  <2>2. QED BY <1>2, <1>3, <2>1, CountBackStops
<1> HIDE DEF b
<1>5. ll \in Nat /\ anchor + ll <= End
  BY <1>2, <1>3, <1>4
<1>6. CASE pc' \in {"returned", "last"} /\ UNCHANGED top
  <2>1. Fits(top)'
    BY <1>1, <1>6, FitsStays DEF TopInv
  <2>2. QED BY <1>6, <2>1 DEF TopInv, FastRoom
<1>7. CASE op' = op + LiteralsSize(ll) /\ pc' = "match"
           /\ Touches({LiteralsReach(op, ll)}) /\ ~ (pc' \in {"returned", "last"})
  <2>1. /\ input.dir = "limitedOutput" => size + 1 + d + ll + 8 <= input.room
        /\ input.dir = "fillOutput" => size + y + 11 <= input.room
    <3> HIDE DEF ll
    <3>1. ExtraBytes(ll) = (ll + 240) \div 255 /\ ExtraBytes(ll) \in Nat
      BY <1>5, EstimateExact, ExtraBytesBounded
    <3>2. y = 1 + (ll + 240) \div 255 + ll /\ (ll + 240) \div 255 \in Nat
      BY <3>1 DEF LiteralsSize
    <3>3. d \in Nat
      BY <1>5
    <3> HIDE DEF d, y
    <3>4. ASSUME input.dir = "limitedOutput"
          PROVE  size + 1 + d + ll + 8 <= input.room
      <4>1. ~ (op + 1 + ll + (2 + 1 + 5) + d > input.room)
        BY <1>1, <1>7, <3>4 DEF d, LASTLITERALS
      <4>2. QED BY <1>2, <1>3, <1>5, <3>3, <4>1
    <3>5. ASSUME input.dir = "fillOutput"
          PROVE  size + y + 11 <= input.room
      <4>1. ~ (op + 1 + ((ll + 240) \div 255) + ll + 2 + 1 + 12 - 4 > input.room)
        BY <1>1, <1>7, <3>5 DEF MFLIMIT, MINMATCH
      <4>2. QED BY <1>2, <1>3, <1>5, <3>2, <4>1
    <3>6. QED BY <3>4, <3>5
  <2> HIDE DEF ll
  <2>2. /\ x \in Nat /\ y \in Nat /\ d \in Nat
        /\ x <= size + y + 8 /\ x <= size + 1 + d + ll + 8
        /\ y <= 1 + d + ll + 1
    <3>1. size \in Nat
      BY <1>2
    <3>2. ll \in Nat
      BY <1>5
    <3>3. d \in Nat
      BY <3>2
    <3>4. QED BY <3>1, <3>2, <3>3, LiteralsReachIs
  <2> HIDE DEF d, x, y
  <2>3. limited => x <= input.room /\ size + y + 5 <= input.room
    <3>1. CASE input.dir = "limitedOutput"
      BY <1>2, <1>5, <2>1, <2>2, <3>1
    <3>2. CASE input.dir = "fillOutput"
      BY <1>2, <1>5, <2>1, <2>2, <3>2
    <3>3. QED BY <1>2, <3>1, <3>2 DEF limited, Directives
  <2>4. Fits(x)
    BY <1>2, <1>5, <2>3, LiteralsFit DEF x
  <2>5. Touches({x})
    BY <1>3, <1>7 DEF x
  <2>6. Fits(top)'
    BY <1>1, <1>2, <2>4, <2>5, TouchesInside DEF TopInv
  <2>7. op' = size + y
    BY <1>3, <1>7 DEF y
  <2>8. limited' = limited
    BY <1>1, LimitsStay
  <2>9. FastRoom'
    BY <1>1, <1>7, <2>3, <2>7, <2>8 DEF FastRoom
  <2>10. QED BY <2>6, <2>9 DEF TopInv
<1>8. QED BY <1>1, <1>6, <1>7

(***************************************************************************)
(* The bytes of a match length are written four at a time, as long as      *)
(* there are 1020 to count: three bytes too many at most.                  *)
(***************************************************************************)
LEMMA LengthWithin ==
    ASSUME NEW o \in Nat, NEW code \in Nat
    PROVE  /\ LengthReach(o, code) \in Nat
           /\ LengthReach(o, code) <= o + ExtraBytes(code) + 3
           /\ 255 * LengthReach(o, code) <= 255 * o + 1020 + code
<1> DEFINE r == (code - 15) \div 1020
           x == ExtraBytes(code)
<1>1. x \in Nat
  BY ExtraBytesBounded
<1>2. 4 * 255 = 1020
  OBVIOUS
<1>3. CASE code < 15
  <2>1. LengthReach(o, code) = o
    BY <1>3 DEF LengthReach, ML_MASK
  <2> HIDE DEF x
  <2>2. QED BY <1>1, <1>3, <2>1 DEF x
<1>4. CASE code >= 15
  <2>1. LengthReach(o, code) = o + 4 + 4 * r
    BY <1>2, <1>4 DEF LengthReach, ML_MASK
  <2>2. r \in Nat /\ 1020 * r <= code - 15
    BY <1>4
  <2>3. x = (code + 240) \div 255
    BY EstimateExact
  <2>4. (code + 240) \div 255 \in Nat
        /\ code + 240 < 255 * ((code + 240) \div 255) + 255
    OBVIOUS
  <2> HIDE DEF r, x
  <2>5. 4 * r + 1 <= x
    BY <1>1, <1>4, <2>2, <2>3, <2>4
  <2>6. QED BY <1>1, <1>4, <2>1, <2>2, <2>5 DEF x
<1>5. QED BY <1>3, <1>4

LEMMA EncodeMatchFits ==
    ASSUME Common, FastInv, input.coder = "fast", UNCHANGED <<input, reader>>,
           BlockInv, TopInv, EncodeMatch
    PROVE  TopInv'
<1> DEFINE o    == op + 2
           full == Count(ip + MINMATCH, match + MINMATCH, matchlimit)
           over == limited /\ o + (1 + LASTLITERALS) + ((full + 240) \div 255)
                                                               > input.room
           cut  == 15 - 1 + (input.room - o - 1 - LASTLITERALS) * 255
           code == IF over THEN cut ELSE full
           end  == ip + MINMATCH + code
           x    == ExtraBytes(code)
           e    == LengthReach(o, code)
           ll   == ip - anchor
<1>1. /\ pc = "match" /\ input' = input
      /\ ~ (/\ input.dir = "fillOutput"
            /\ op + 2 + 1 + MFLIMIT - MINMATCH > input.room)
      /\ \/ pc' = "returned" /\ Touches({o})
         \/ /\ ~ (over /\ input.dir = "limitedOutput")
            /\ op' = o + x /\ Touches({e}) /\ pc' \in {"last", "test"}
  BY DEF EncodeMatch, GiveUp
<1>2. /\ input \in Inputs /\ result = "coding" /\ size \in Nat /\ anchor \in Nat
      /\ Start \in Nat /\ End \in Nat /\ mflimit = End - 12 /\ matchlimit = End - 5
      /\ input.room \in Nat /\ anchor \in Start..End /\ input.dir \in Directives
  BY <1>1, FastBasics
<1>3. /\ op = size + LiteralsSize(ll) /\ FoundAt(ip, match)
      /\ ip \in Nat /\ anchor <= ip /\ ip <= mflimit
  BY <1>1 DEF FastInv, AtMatch, FoundAt
<1>4. /\ ll \in Nat /\ anchor + ll <= End
      /\ LiteralsSize(ll) \in Nat /\ 255 * LiteralsSize(ll) <= 256 * ll + 495
  <2>1. ll \in Nat /\ anchor + ll <= End
    BY <1>2, <1>3
  <2>2. QED BY <2>1, LiteralsCost
<1>5. op \in Nat /\ o \in Nat
  BY <1>2, <1>3, <1>4
<1>6. limited => op + 5 <= input.room
  BY <1>1 DEF TopInv, FastRoom
<1>7. limited' = limited
  BY <1>1, LimitsStay
<1>8. CASE pc' = "returned" /\ Touches({o})
  <2>1. limited => size + LiteralsSize(ll) + 2 <= input.room
    BY <1>2, <1>3, <1>4, <1>6
  <2>2. Fits(size + LiteralsSize(ll) + 2)
    BY <1>2, <1>4, <2>1, OffsetFits
  <2>3. Fits(o)
    BY <1>3, <2>2
  <2> HIDE DEF o
  <2>4. Fits(top)'
    BY <1>1, <1>2, <1>8, <2>3, TouchesInside DEF TopInv
  <2>5. QED BY <1>8, <2>4 DEF TopInv, FastRoom
<1>9. CASE /\ ~ (over /\ input.dir = "limitedOutput")
           /\ op' = o + x /\ Touches({e}) /\ pc' \in {"last", "test"}
  <2>1. full \in Nat /\ ip + 4 + full <= matchlimit
    BY <1>2, <1>3, CountedMatch
  <2>2. (full + 240) \div 255 \in Int
    BY <2>1
  <2>3. input.dir = "fillOutput" => o + 9 <= input.room
    BY <1>1, <1>2, <1>5 DEF MFLIMIT, MINMATCH
  <2>4. /\ over => o + 6 + ((full + 240) \div 255) > input.room
        /\ limited /\ ~ over => ~ (o + 6 + ((full + 240) \div 255) > input.room)
        /\ over => limited
    <3>1. o + (1 + LASTLITERALS) + ((full + 240) \div 255)
              = o + 6 + ((full + 240) \div 255)
      BY <1>5, <2>2 DEF LASTLITERALS
    <3> HIDE DEF o, full
    <3>2. QED BY <3>1, Zenon
  <2>5. over => input.dir = "fillOutput"
    <3> HIDE DEF over
    <3>1. QED BY <1>2, <1>9, <2>4 DEF limited, Directives
  <2>6. cut = 14 + (input.room - o - 6) * 255
    BY <1>2, <1>5 DEF LASTLITERALS
  <2> HIDE DEF o, full, over, cut
  <2>7. code \in Nat /\ code <= full /\ (limited => o + x + 6 <= input.room)
    <3>1. CASE over
      <4>1. /\ o + 9 <= input.room
            /\ o + 6 + ((full + 240) \div 255) > input.room
        BY <2>3, <2>4, <2>5, <3>1
      <4>2. cut \in Nat /\ cut <= full
        BY <1>2, <1>5, <2>1, <2>6, <4>1, CutFits
      <4>3. ExtraBytes(cut) <= input.room - o - 6 /\ ExtraBytes(cut) \in Nat
        <5> DEFINE k == input.room - o - 6
                   q == (cut + 240) \div 255
        <5>1. k \in Nat /\ cut = 14 + k * 255
          BY <1>2, <1>5, <2>6, <4>1
        <5> HIDE DEF k
        <5>2. q \in Nat /\ 255 * q <= cut + 240
          BY <4>2
        <5> HIDE DEF q
        <5>3. q <= k
          BY <5>1, <5>2
        <5>4. ExtraBytes(cut) = q
          BY <4>2, EstimateExact DEF q
        <5>5. QED BY <5>2, <5>3, <5>4 DEF k
      <4>4. QED BY <1>2, <1>5, <3>1, <4>2, <4>3
    <3>2. CASE ~ over
      <4>1. code = full
        BY <3>2
      <4>2. ExtraBytes(full) = (full + 240) \div 255
        BY <2>1, EstimateExact
      <4>3. ASSUME limited PROVE o + x + 6 <= input.room
        <5>1. ~ (o + 6 + ((full + 240) \div 255) > input.room)
          BY <2>4, <3>2, <4>3, Zenon
        <5>2. QED BY <1>2, <1>5, <2>2, <4>1, <4>2, <5>1
      <4>4. QED BY <2>1, <4>1, <4>3
    <3>3. QED BY <3>1, <3>2
  <2> HIDE DEF code
  <2>8. /\ e \in Nat /\ e <= o + x + 3
        /\ 255 * e <= 255 * o + 1020 + code
    <3>1. o \in Nat
      BY <1>5
    <3>2. code \in Nat
      BY <2>7
    <3>3. QED BY <3>1, <3>2, LengthWithin
  <2>9. x \in Nat
    BY <2>7, ExtraBytesBounded
  <2> HIDE DEF e, x
  <2>10. limited => e <= input.room
    BY <1>2, <1>5, <2>7, <2>8, <2>9
  <2>11. /\ anchor \in Nat /\ 255 * size <= 256 * (anchor - Start)
    BY <1>2 DEF BlockInv, Cost
  <2> DEFINE n == anchor - Start + ll + code
  <2>12. n \in Nat /\ Start + n <= End
    BY <1>2, <1>3, <1>4, <2>1, <2>7
  <2>13. 255 * o <= 256 * (anchor - Start + ll) + 1005
    BY <1>2, <1>3, <1>4, <2>11 DEF o
  <2>14. 255 * e <= 256 * n + 4080
    <3> HIDE DEF ll
    <3>1. QED BY <1>2, <1>4, <1>5, <2>7, <2>8, <2>13
  <2> HIDE DEF n
  <2>15. Fits(e)
    BY <1>2, <2>8, <2>10, <2>12, <2>14, CostsFit
  <2>16. Fits(top)'
    BY <1>1, <1>2, <1>9, <2>15, TouchesInside DEF TopInv
  <2>17. FastRoom'
    BY <1>1, <1>7, <1>9, <2>7 DEF FastRoom
  <2>18. QED BY <2>16, <2>17 DEF TopInv
<1>10. QED BY <1>1, <1>8, <1>9

LEMMA TestHitsFits ==
    ASSUME Common, FastInv, input.coder = "fast", UNCHANGED <<input, reader>>,
           BlockInv, TopInv, TestHits
    PROVE  TopInv'
<1>1. /\ pc = "test" /\ input' = input /\ op' = op + 1 /\ pc' # "test"
      /\ Touches({op + 1})
  BY DEF TestHits
<1>2. /\ input \in Inputs /\ result = "coding" /\ size \in Nat /\ input.room \in Nat
      /\ Start \in Nat /\ End \in Nat /\ anchor \in Start..End
      /\ limited' = limited
  BY <1>1, FastBasics, LimitsStay
<1>3. op = size /\ (limited => op + 6 <= input.room)
  BY <1>1 DEF FastInv, AtTest, TopInv, FastRoom
<1> DEFINE e == op + 1
           n == anchor - Start
<1>4. 255 * size <= 256 * (anchor - Start)
  BY <1>2 DEF BlockInv, Cost
<1>5. /\ e \in Nat /\ (limited => e <= input.room)
      /\ n \in Nat /\ Start + n <= End /\ 255 * e <= 256 * n + 4080
  BY <1>2, <1>3, <1>4
<1> HIDE DEF e, n
<1>6. Fits(e)
  BY <1>2, <1>5, CostsFit
<1>7. Fits(top)'
  BY <1>1, <1>2, <1>6, TouchesInside DEF TopInv, e
<1>8. limited => op' + 5 <= input.room
  BY <1>1, <1>2, <1>3
<1>9. FastRoom'
  BY <1>1, <1>2, <1>8 DEF FastRoom
<1>10. QED BY <1>7, <1>9 DEF TopInv

(* Every step of every coder writes inside the output. *)
LEMMA FastFits ==
    ASSUME Common, FastInv, FastNext, BlockInv, TopInv, Common', BlockInv'
    PROVE  TopInv'
<1>1. input.coder = "fast" /\ UNCHANGED <<input, reader>>
  BY DEF FastNext
<1>2. CASE WriteLastLiterals
  <2>1. pc' = "returned"
    BY <1>1, <1>2, LastLiteralsStep
  <2>2. Fits(top)'
    BY <1>1, <1>2, LastLiteralsFit DEF TopInv
  <2>3. QED BY <2>1, <2>2 DEF TopInv, FastRoom
<1>3. CASE \/ CallFails \/ FastBegin \/ SearchEnds \/ SearchMisses \/ SearchHits
           \/ Rewinds \/ TestMisses
  <2>1. top' = top /\ pc' \notin {"match", "test"}
    BY <1>3 DEF CallFails, GiveUp, FastBegin, BeginCall, SearchEnds, SearchMisses,
                SearchHits, Rewinds, TestMisses
  <2>2. Fits(top)'
    BY <1>1, <2>1, FitsStays DEF TopInv
  <2>3. QED BY <2>1, <2>2 DEF TopInv, FastRoom
<1>4. QED BY <1>1, <1>2, <1>3, EncodeLiteralsFits, EncodeMatchFits, TestHitsFits
          DEF FastNext

LEMMA WritesInside ==
    ASSUME IInv, BlockInv, TopInv, [Next]_compressVars, IInv', BlockInv'
    PROVE  TopInv'
<1>1. Common /\ FastInv /\ HcInv /\ OptInv /\ Common' /\ Fits(top)
  BY DEF IInv, TopInv
<1>2. CASE FastNext
  BY <1>1, <1>2, FastFits
<1>3. CASE HcNext \/ OptNext
  <2>1. input.coder # "fast" /\ UNCHANGED input
    BY <1>3 DEF HcNext, OptNext
  <2>2. WritesGood \/ WriteLastLiterals \/ top' = top
    BY <1>1, <1>3, HcWrites, OptWrites
  <2>3. CASE WritesGood
    <3>1. result = "coding"
      <4>1. CASE HcNext
        <5>1. pc # "returned"
          BY <4>1 DEF HcNext, CallFails, HcBegin, BeginCall, SearchFirst,
                      EncodeOnlyMatch, SearchSecond, EncodeBoth, EncodeSecond,
                      DropSecond, SkipSecond, EncodeOfThree, WriteLastLiterals
        <5>2. QED BY <1>1, <5>1 DEF Common, CodingTypeOK
      <4>2. CASE OptNext
        <5>1. pc # "returned"
          BY <4>2 DEF OptNext, CallFails, OptBegin, BeginCall, OptSearch, PriceSkips,
                      PriceMatch, PriceEnds, GoBack, EmitSequence, WriteLastLiterals
        <5>2. QED BY <1>1, <5>1 DEF Common, CodingTypeOK
      <4>3. QED BY <1>3, <4>1, <4>2
    <3>2. Fits(top)'
      BY <1>1, <2>1, <2>3, <3>1, GoodWriteFits
    <3>3. QED BY <2>1, <3>2 DEF TopInv, FastRoom
  <2>4. CASE WriteLastLiterals
    <3>1. Fits(top)'
      BY <1>1, <2>1, <2>4, LastLiteralsFit
    <3>2. QED BY <2>1, <3>1 DEF TopInv, FastRoom
  <2>5. CASE top' = top
    <3>1. Fits(top)'
      BY <1>1, <2>1, <2>5, FitsStays
    <3>2. QED BY <2>1, <3>1 DEF TopInv, FastRoom
  <2>6. QED BY <2>2, <2>3, <2>4, <2>5
<1>4. CASE UNCHANGED compressVars
  <2>1. /\ input' = input /\ top' = top /\ pc' = pc /\ op' = op
        /\ limited' = limited
    BY <1>4, LimitsStay DEF compressVars, blockVars, writer, reader, fastVars
  <2>2. Fits(top)'
    BY <1>1, <2>1, FitsStays
  <2>3. QED BY <2>1, <2>2 DEF TopInv, FastRoom
<1>5. QED BY <1>2, <1>3, <1>4 DEF Next

LEMMA TopInvariant == Spec => []TopInv
<1>1. Init => TopInv
  <2>1. SUFFICES ASSUME Init PROVE TopInv
    OBVIOUS
  <2>2. input \in Inputs /\ top = 0 /\ pc = "call"
    BY <2>1 DEF Init, CoderInit, BlockInit
  <2>3. Fits(top)
    <3>1. Capacity \in Nat
      BY <2>2, CapacityIs
    <3>2. QED BY <2>2, <3>1 DEF Fits
  <2>4. QED BY <2>2, <2>3 DEF TopInv, FastRoom
<1>2. /\ TopInv /\ IInv /\ BlockInv /\ [Next]_compressVars
      /\ IInv' /\ BlockInv'
      => TopInv'
  BY WritesInside
<1>3. Spec => []BlockInv
  BY EveryCoderWritesBlocks, BlockInvariant, PTL DEF ImplementsBlock
<1>4. QED BY <1>1, <1>2, <1>3, Invariant, PTL DEF Spec

(***************************************************************************)
(* What all coders keep has its type; ip never leaves the text.            *)
(***************************************************************************)
THEOREM TypeCorrect == Spec => []CoderTypeOK
<1>1. IInv /\ TopInv => CoderTypeOK
  BY DEF IInv, Common, CodingTypeOK, CoderTypeOK, TopInv, Fits
<1>2. QED BY <1>1, Invariant, TopInvariant, PTL

(***************************************************************************)
(* No coder writes a byte past the end of the output, for every text,      *)
(* dictionary and room: neither the sequence in work, which may be given   *)
(* up, cut or taken back, nor the copies of eight and of four bytes where  *)
(* fewer are meant (LZ4_wildCopy8 and LZ4_write32), although the tests for *)
(* room are estimates; and where nothing is tested (notLimited) an output  *)
(* of LZ4_COMPRESSBOUND bytes is enough for them as well.                  *)
(***************************************************************************)
THEOREM NeverPastTheEnd == Spec => []StaysInRoom
<1>1. TopInv => StaysInRoom
  BY DEF TopInv, Fits, StaysInRoom
<1>2. QED BY <1>1, TopInvariant, PTL
-----------------------------------------------------------------------------
(***************************************************************************)
(* The search of the HC coders.  Where it is, and what its tables, its     *)
(* runs and its comparisons are.                                           *)
(***************************************************************************)
LEMMA SearchLimits ==
    ASSUME input \in Inputs
    PROVE  /\ ipIndex \in Nat /\ input.low \in Nat /\ input.longest \in Nat
           /\ Start \in Nat /\ End \in Nat
           /\ Start <= input.low /\ input.low <= ipIndex
           /\ ipIndex <= mflimit /\ ipIndex + 7 <= matchlimit
           /\ mflimit = End - 12 /\ matchlimit = End - 5
           /\ lookBack = ipIndex - input.low
           /\ input.mode \in {"prefix", "ext", "ctx"}
           /\ lowLimit \in Nat /\ lowLimit <= Start
           /\ input.mode = "ctx" => lowLimit = Start
           /\ dictLimit = IF input.mode = "prefix" THEN 0 ELSE Start
           /\ lowestMatchIndex \in Nat /\ lowLimit <= lowestMatchIndex
           /\ ipIndex - DistanceMax <= lowestMatchIndex
           /\ input.attempts \in Nat
           /\ DistanceMax \in Nat \ {0} /\ Base = DistanceMax + 1
<1>1. /\ Start \in Nat /\ End \in Nat /\ Start <= End
      /\ mflimit = End - 12 /\ matchlimit = End - 5
      /\ DistanceMax \in Nat \ {0}
      /\ input.mode \in {"prefix", "ext", "ctx"}
  BY Limits
<1>2. /\ ipIndex \in Start..(End - 12) /\ input.low \in Start..ipIndex
      /\ input.longest \in Nat /\ input.attempts \in Nat
  BY SearchAssumption DEF SearchAssumption, Start, End, ipIndex, MFLIMIT
<1>3. ipIndex <= mflimit /\ ipIndex + 7 <= matchlimit
  BY <1>1, <1>2
<1>4. ipIndex \in Nat /\ input.low \in Nat
  BY <1>1, <1>2, <1>3
<1>5. /\ lowLimit \in Nat /\ lowLimit <= Start
      /\ input.mode = "ctx" => lowLimit = Start
  BY <1>1 DEF lowLimit
<1>6. /\ lowestMatchIndex \in Nat /\ lowLimit <= lowestMatchIndex
      /\ ipIndex - DistanceMax <= lowestMatchIndex
  BY <1>1, <1>4, <1>5 DEF lowestMatchIndex
<1>7. /\ lookBack = ipIndex - input.low /\ Base = DistanceMax + 1
      /\ dictLimit = IF input.mode = "prefix" THEN 0 ELSE Start
  BY DEF lookBack, dictLimit, Base, ipIndex
<1>8. Start <= input.low /\ input.low <= ipIndex
  BY <1>1, <1>2, <1>4
<1>9. QED BY <1>1, <1>2, <1>3, <1>4, <1>5, <1>6, <1>7, <1>8

(* The larger of two numbers. *)
LEMMA LargerOfTwo ==
    ASSUME NEW x \in Int, NEW y \in Int
    PROVE  /\ Max({x, y}) \in {x, y}
           /\ x <= Max({x, y}) /\ y <= Max({x, y})
<1> DEFINE z == (IF x >= y THEN x ELSE y) + 1
<1>1. z \in Int /\ \A q \in {x, y} : q < z
  OBVIOUS
<1> HIDE DEF z
<1>2. Max({x, y}) \in {x, y} /\ \A q \in {x, y} : q <= Max({x, y})
  BY <1>1, LargestBelow
<1>3. QED BY <1>2

(***************************************************************************)
(* The newest position before p is one of the table, or what an empty      *)
(* bucket has; so is the one a delta leads to, if it is not further back   *)
(* than any match.                                                         *)
(***************************************************************************)
LEMMA NewestIs ==
    ASSUME input \in Inputs, NEW t, t \subseteq Nat, NEW p \in Nat
    PROVE  /\ Newest(t, p) \in t \cup {-Base}
           /\ Newest(t, p) \in Int /\ Newest(t, p) < p
<1> DEFINE S == {q \in t : q < p /\ SameBucket(p, q)} \cup {-Base}
<1>1. Base \in Nat /\ Base > 0
  BY SearchLimits
<1>2. S \subseteq Int /\ S # {} /\ \A q \in S : q < p
  <2>1. -Base \in S /\ -Base \in Int /\ -Base < p
    BY <1>1
  <2>2. ASSUME NEW q \in S PROVE q \in Int /\ q < p
    BY <2>1
  <2>3. QED BY <2>1, <2>2
<1>3. S \subseteq t \cup {-Base}
  OBVIOUS
<1>4. Newest(t, p) = Max(S)
  BY DEF Newest
<1> HIDE DEF S
<1>5. Max(S) \in S
  <2>1. p \in Int
    OBVIOUS
  <2>2. QED BY <1>2, <2>1, LargestBelow
<1>6. QED BY <1>2, <1>3, <1>4, <1>5

LEMMA DeltaIs ==
    ASSUME input \in Inputs, NEW t, t \subseteq Nat, NEW p \in Int
    PROVE  /\ DeltaIn(t, p) \in Nat /\ DeltaIn(t, p) >= 1
           /\ p \in t => \/ p - DeltaIn(t, p) \in t \cup {-Base}
                         \/ DeltaIn(t, p) = DistanceMax
<1>1. DistanceMax \in Nat /\ DistanceMax >= 1
  BY SearchLimits
<1>2. CASE p \notin t
  BY <1>1, <1>2 DEF DeltaIn
<1>3. CASE p \in t
  <2> DEFINE n == Newest(t, p)
  <2>1. n \in t \cup {-Base} /\ n \in Int /\ n < p
    BY <1>3, NewestIs
  <2>2. DeltaIn(t, p) = Min({p - n, DistanceMax})
    BY <1>3 DEF DeltaIn
  <2> HIDE DEF n
  <2>3. p - n \in Nat /\ p - n >= 1 /\ p - (p - n) = n
    BY <2>1
  <2>4. Min({p - n, DistanceMax}) \in {p - n, DistanceMax}
    <3>1. p - n \in Int /\ DistanceMax \in Int
      BY <1>1, <2>3
    <3>2. QED BY <3>1, OneOrOther
  <2>5. QED BY <1>1, <2>1, <2>2, <2>3, <2>4
<1>4. QED BY <1>2, <1>3

(* A run goes on to the first other byte, or to the end of what may match. *)
LEMMA RunIs ==
    ASSUME input \in Inputs, NEW p \in Nat, p <= matchlimit
    PROVE  /\ Run(p) \in 0..(matchlimit - p)
           /\ Run(p) = matchlimit - p \/ At(p + Run(p)) # At(ipIndex)
           /\ \A k \in 0..(Run(p) - 1) : At(p + k) = At(ipIndex)
<1> DEFINE most == matchlimit - p
           Stop(n) == n = most \/ At(p + n) # At(ipIndex)
           T == {n \in 0..most : Stop(n)}
           Q(n) == Stop(n) /\ \A k \in 0..(n - 1) : At(p + k) = At(ipIndex)
<1>1. most \in Nat
  BY SearchLimits
<1>2. T \subseteq Nat /\ most \in T
  BY <1>1
<1>3. PICK n \in T : \A y \in T : n <= y
  <2> HIDE DEF T
  <2>1. QED BY <1>2, LeastElement
<1>4. n \in 0..most /\ Stop(n)
  OBVIOUS
<1>5. ASSUME NEW k \in 0..(n - 1) PROVE At(p + k) = At(ipIndex)
  <2> HIDE DEF most
  <2>1. k \in 0..most /\ ~ (n <= k)
    BY <1>1, <1>4
  <2>2. k \notin T
    <3> HIDE DEF T
    <3>1. QED BY <1>3, <2>1
  <2>3. QED BY <2>1, <2>2
<1>6. \E x \in 0..most : Q(x)
  BY <1>4, <1>5
<1>7. Run(p) = CHOOSE x \in 0..most : Q(x)
  BY DEF Run
<1>8. Run(p) \in 0..most /\ Q(Run(p))
  <2> HIDE DEF Q, most
  <2>1. QED BY <1>6, <1>7
<1>9. QED BY <1>8

LEMMA RunBackIs ==
    ASSUME input \in Inputs, NEW p \in Nat, lowLimit <= p
    PROVE  /\ RunBack(p) \in 0..(p - lowLimit)
           /\ \A k \in 1..RunBack(p) : At(p - k) = At(ipIndex)
<1> DEFINE most == p - lowLimit
           Stop(n) == n = most \/ At(p - n - 1) # At(ipIndex)
           T == {n \in 0..most : Stop(n)}
           Q(n) == Stop(n) /\ \A k \in 1..n : At(p - k) = At(ipIndex)
<1>1. most \in Nat
  BY SearchLimits
<1>2. T \subseteq Nat /\ most \in T
  BY <1>1
<1>3. PICK n \in T : \A y \in T : n <= y
  <2> HIDE DEF T
  <2>1. QED BY <1>2, LeastElement
<1>4. n \in 0..most /\ Stop(n)
  OBVIOUS
<1>5. ASSUME NEW k \in 1..n PROVE At(p - k) = At(ipIndex)
  <2> HIDE DEF most
  <2>1. k - 1 \in 0..most /\ ~ (n <= k - 1)
    BY <1>1, <1>4
  <2>2. k - 1 \notin T
    <3> HIDE DEF T
    <3>1. QED BY <1>3, <2>1
  <2>3. At(p - (k - 1) - 1) = At(ipIndex)
    BY <2>1, <2>2
  <2>4. p - (k - 1) - 1 = p - k
    BY <1>4
  <2>5. QED BY <2>3, <2>4
<1>6. \E x \in 0..most : Q(x)
  BY <1>4, <1>5
<1>7. RunBack(p) = CHOOSE x \in 0..most : Q(x)
  BY DEF RunBack
<1>8. RunBack(p) \in 0..most /\ Q(RunBack(p))
  <2> HIDE DEF Q, most
  <2>1. QED BY <1>6, <1>7
<1>9. QED BY <1>8

(***************************************************************************)
(* What the search compares is what the contract allows: positions in      *)
(* front of it that are not too far back, of which no four bytes lie       *)
(* astride the end of a dictionary.                                        *)
(***************************************************************************)
LEMMA InsertedComparable ==
    ASSUME input \in Inputs, NEW p \in Inserted, lowestMatchIndex <= p
    PROVE  /\ p \in Nat /\ p < ipIndex /\ ~ Astride(p)
           /\ Comparable(ipIndex, p)
<1>1. p \in Nat /\ lowLimit <= p /\ p < ipIndex /\ ~ Astride(p)
  BY SearchLimits DEF Inserted
<1>2. ipIndex - p <= DistanceMax
  BY <1>1, SearchLimits
<1>3. input.mode # "prefix" => p >= Start \/ p + MINMATCH <= Start
  BY <1>1, SearchLimits DEF Astride, MINMATCH
<1>4. input.mode = "ctx" => p >= Start
  BY <1>1, SearchLimits
<1>5. QED BY <1>1, <1>2, <1>3, <1>4, SearchLimits DEF Comparable

LEMMA DictInsertedComparable ==
    ASSUME input \in Inputs, input.mode = "ctx", ipIndex - Start < DistanceMax,
           NEW p \in DictInserted, ipIndex - p <= DistanceMax
    PROVE  /\ p \in Nat /\ p < ipIndex /\ ~ Astride(p)
           /\ Comparable(ipIndex, p)
<1>1. p \in Nat /\ p < Start /\ ~ Astride(p)
  BY SearchLimits DEF DictInserted
<1>2. p + MINMATCH <= Start
  BY <1>1, SearchLimits DEF Astride, MINMATCH
<1>3. QED BY <1>1, <1>2, SearchLimits DEF Comparable

(* A match that Wider has, put together from what it is made of. *)
LEMMA WiderIs ==
    ASSUME input \in Inputs, NEW p \in Nat, p < ipIndex,
           Comparable(ipIndex, p), SameFour(ipIndex, p),
           NEW n \in Lengths(ipIndex, ipIndex - p, input.low),
           NEW back, back = CountBack(ipIndex, p, input.low, LowLimit(p)),
           NEW longest, n + back > longest
    PROVE  [at |-> ipIndex - back, len |-> n + back, off |-> ipIndex - p]
               \in Wider(ipIndex, input.low, longest)
<1> DEFINE off == ipIndex - p
           m == [at |-> ipIndex - back, len |-> n + back, off |-> off]
           Backs(o) == CountBack(ipIndex, ipIndex - o, input.low, LowLimit(ipIndex - o))
           Of(o) == {[at |-> ipIndex - Backs(o), len |-> l + Backs(o), off |-> o] :
                         l \in Lengths(ipIndex, o, input.low)}
<1>1. ipIndex \in Nat
  BY SearchLimits
<1>2. off \in 1..ipIndex /\ ipIndex - off = p
  BY <1>1
<1>3. off \in Offsets(ipIndex)
  BY <1>2 DEF Offsets
<1>4. Backs(off) = back
  BY <1>2
<1>5. m \in Of(off)
  BY <1>4
<1>6. m.len > longest
  OBVIOUS
<1>7. Wider(ipIndex, input.low, longest)
        = {x \in UNION {Of(o) : o \in Offsets(ipIndex)} : x.len > longest}
  BY DEF Wider
<1> HIDE DEF Of, m
<1>8. m \in UNION {Of(o) : o \in Offsets(ipIndex)}
  BY <1>3, <1>5
<1>9. m \in Wider(ipIndex, input.low, longest)
  BY <1>6, <1>7, <1>8
<1>10. QED BY <1>9 DEF m

LEMMA NoWayBack ==
    ASSUME input \in Inputs, NEW p \in Nat, p < ipIndex
    PROVE  /\ CountBack(ipIndex, p, input.low, LowLimit(p)) \in Nat
           /\ lookBack = 0 => CountBack(ipIndex, p, input.low, LowLimit(p)) = 0
<1>1. LowLimit(p) \in Nat /\ LowLimit(p) <= p
  BY SearchLimits DEF LowLimit
<1>2. /\ CountBack(ipIndex, p, input.low, LowLimit(p)) \in Nat
      /\ CountBack(ipIndex, p, input.low, LowLimit(p)) <= ipIndex - input.low
  BY <1>1, SearchLimits, CountBackStops
<1>3. QED BY <1>2, SearchLimits

LEMMA CandidateIsWider ==
    ASSUME input \in Inputs, NEW p \in Nat, p < ipIndex,
           Comparable(ipIndex, p), SameFour(ipIndex, p),
           NEW longest \in Nat, Candidate(p).len > longest
    PROVE  Candidate(p) \in Wider(ipIndex, input.low, longest)
<1> DEFINE back == CountBack(ipIndex, p, input.low, LowLimit(p))
           full == Count(ipIndex, p, HighLimit(ipIndex, p))
<1>1. back \in Nat /\ (lookBack = 0 => back = 0)
  BY NoWayBack
<1>2. Candidate(p) = [at |-> ipIndex - back, off |-> ipIndex - p, len |-> full + back]
  BY <1>1 DEF Candidate
<1>3. ipIndex \in Nat /\ ipIndex - (ipIndex - p) = p
  BY SearchLimits
<1>4. full \in Lengths(ipIndex, ipIndex - p, input.low)
  <2>1. full >= 4 /\ full \in Nat
    <3>1. /\ HighLimit(ipIndex, p) \in Nat
          /\ ipIndex + 4 <= HighLimit(ipIndex, p)
      <4>1. p \in 0..(ipIndex - 1) /\ ipIndex <= mflimit
        BY <1>3, SearchLimits
      <4>2. QED BY <1>3, <4>1, HighLimitInside
    <3> DEFINE h == HighLimit(ipIndex, p)
    <3>2. /\ full \in 0..(h - ipIndex)
          /\ full = h - ipIndex \/ At(ipIndex + full) # At(p + full)
      <4>1. p \in Int /\ ipIndex <= h /\ h \in Nat /\ full = Count(ipIndex, p, h)
        BY <1>3, <3>1
      <4> HIDE DEF h, full
      <4>2. QED BY <1>3, <4>1, CountStops
    <3>3. full \in 0..3 => At(ipIndex + full) = At(p + full)
      BY DEF SameFour
    <3> HIDE DEF full
    <3>4. QED BY <1>3, <3>1, <3>2, <3>3
  <2> HIDE DEF full
  <2>2. full \in MINMATCH..full
    BY <2>1 DEF MINMATCH
  <2>3. QED BY <1>3, <2>2 DEF Lengths, full
<1>5. full + back > longest
  BY <1>2
<1> HIDE DEF back, full
<1>6. [at |-> ipIndex - back, len |-> full + back, off |-> ipIndex - p]
        \in Wider(ipIndex, input.low, longest)
  BY <1>4, <1>5, WiderIs DEF back
<1>7. QED BY <1>2, <1>6
-----------------------------------------------------------------------------
(***************************************************************************)
(* The invariant of the search.  While it follows the chain it is at a     *)
(* position of the table, or has come to the end of what it may look at;   *)
(* in front of itself in any case.  It leaves the chain it began with only *)
(* by chainSwap.  And the longest match so far is one of the contract.     *)
(***************************************************************************)
SearchTypeOK ==
    /\ input \in Inputs
    /\ phase \in {"chain", "swap", "dict", "returned"}
    /\ matchIndex \in Int /\ nbAttempts \in Nat
    /\ matchChainPos \in Nat /\ pos \in Nat /\ accel \in Nat
    /\ distanceToNextMatch \in Nat /\ distanceToNextMatch >= 1

InTable ==
    /\ matchIndex < ipIndex
    /\ phase \in {"chain", "swap"} /\ lowestMatchIndex <= matchIndex =>
           matchIndex \in Inserted
    /\ phase = "swap" =>
           input.swap /\ lowestMatchIndex <= matchIndex /\ nbAttempts > 0
    /\ phase = "dict" =>
           /\ input.mode = "ctx" /\ ipIndex - Start < DistanceMax
           /\ ipIndex - matchIndex <= DistanceMax => matchIndex \in DictInserted
    /\ ~ input.swap => matchChainPos = 0

InContract(b) ==
    \/ b = [at |-> ipIndex, off |-> 0, len |-> input.longest]
    \/ b \in Wider(ipIndex, input.low, input.longest)

SearchInv == SearchTypeOK /\ InTable /\ InContract(best)

LEMMA ContractLength ==
    ASSUME input \in Inputs, NEW b, InContract(b)
    PROVE  b.len \in Nat /\ b.len >= input.longest
<1>1. CASE b = [at |-> ipIndex, off |-> 0, len |-> input.longest]
  BY <1>1, SearchLimits
<1>2. CASE b \in Wider(ipIndex, input.low, input.longest)
  <2>1. GoodMatch(b) /\ b.len > input.longest
    BY <1>2, SearchLimits, WiderIsGood
  <2>2. QED BY <2>1, GoodBasics, SearchLimits
<1>3. QED BY <1>1, <1>2 DEF InContract

(* A longer match of the contract in place of another. *)
LEMMA LongerInContract ==
    ASSUME input \in Inputs, NEW b, InContract(b), NEW m,
           m \in Wider(ipIndex, input.low, b.len)
    PROVE  InContract(m)
<1>1. b.len \in Nat /\ b.len >= input.longest /\ input.longest \in Nat
  BY ContractLength, SearchLimits
<1>2. m.len \in Nat
  BY <1>1, SearchLimits, WiderIsGood, GoodBasics
<1>3. m \in Wider(ipIndex, input.low, input.longest)
  BY <1>1, <1>2 DEF Wider
<1>4. QED BY <1>3 DEF InContract

(* Following the chain of a position of the table, or of another one. *)
LEMMA ChainFollowed ==
    ASSUME input \in Inputs, NEW p \in Inserted,
           NEW q, q = p - Delta(p)
    PROVE  /\ q \in Int /\ q < ipIndex
           /\ lowestMatchIndex <= q => q \in Inserted
<1>1. Inserted \subseteq Nat /\ p \in Nat /\ p < ipIndex
  BY SearchLimits DEF Inserted
<1>2. /\ Delta(p) \in Nat /\ Delta(p) >= 1
      /\ p - Delta(p) \in Inserted \cup {-Base} \/ Delta(p) = DistanceMax
  <2>1. Delta(p) = DeltaIn(Inserted, p) /\ p \in Int
    BY <1>1 DEF Delta
  <2>2. QED BY <1>1, <2>1, DeltaIs
<1>3. q \in Int /\ q < ipIndex
  BY <1>1, <1>2, SearchLimits
<1>4. CASE q = -Base
  BY <1>4, SearchLimits
<1>5. CASE Delta(p) = DistanceMax
  <2>1. q < ipIndex - DistanceMax
    BY <1>1, <1>5, SearchLimits
  <2>2. QED BY <1>3, <2>1, SearchLimits
<1>6. QED BY <1>2, <1>3, <1>4, <1>5

LEMMA BetterInContract ==
    ASSUME SearchInv, phase \in {"chain", "swap"}, lowestMatchIndex <= matchIndex
    PROVE  InContract(Better) /\ Better.len >= best.len
<1>1. /\ input \in Inputs /\ InContract(best) /\ matchIndex \in Inserted
      /\ best.len \in Nat
  BY ContractLength DEF SearchInv, SearchTypeOK, InTable
<1>2. CASE Matches(matchIndex) /\ Candidate(matchIndex).len > best.len
  <2>1. Better = Candidate(matchIndex)
    BY <1>2 DEF Better
  <2>2. /\ matchIndex \in Nat /\ matchIndex < ipIndex
        /\ Comparable(ipIndex, matchIndex) /\ SameFour(ipIndex, matchIndex)
    BY <1>1, <1>2, InsertedComparable DEF Matches
  <2>3. Better \in Wider(ipIndex, input.low, best.len)
    BY <1>1, <1>2, <2>1, <2>2, CandidateIsWider
  <2>4. InContract(Better)
    BY <1>1, <2>3, LongerInContract
  <2>5. Better.len \in Nat
    BY <1>1, <2>4, ContractLength
  <2>6. QED BY <1>1, <1>2, <2>1, <2>4, <2>5
<1>3. CASE ~ (Matches(matchIndex) /\ Candidate(matchIndex).len > best.len)
  BY <1>1, <1>3 DEF Better
<1>4. QED BY <1>2, <1>3

(***************************************************************************)
(* The run of one byte the candidate lies in: it begins segment bytes      *)
(* before its end, not in front of the window, and four bytes at least     *)
(* belong to it.                                                           *)
(***************************************************************************)
Begin == matchCandidateIdx - backLength

LEMMA RunAround ==
    ASSUME SearchTypeOK, InTable, phase \in {"chain", "swap"},
           lowestMatchIndex <= matchIndex, InPattern
    PROVE  /\ matchCandidateIdx \in Nat /\ matchCandidateIdx < ipIndex
           /\ Begin \in Nat /\ lowestMatchIndex <= Begin
           /\ Begin <= matchCandidateIdx
           /\ forwardPatternLength \in Nat /\ forwardPatternLength >= 4
           /\ srcPatternLength \in Nat /\ srcPatternLength >= 4
           /\ ipIndex + srcPatternLength <= matchlimit
           /\ segment \in Nat
           /\ Begin + segment = matchCandidateIdx + forwardPatternLength
           /\ \A k \in 0..(segment - 1) : At(Begin + k) = At(ipIndex)
           /\ \A k \in 0..(srcPatternLength - 1) : At(ipIndex + k) = At(ipIndex)
<1> DEFINE c == matchCandidateIdx
           f == Run(c)
           b == RunBack(c)
           r == Run(ipIndex)
<1>1. input \in Inputs /\ matchIndex \in Int /\ matchIndex < ipIndex
  BY DEF SearchTypeOK, InTable
<1>2. c \in Nat /\ c < ipIndex /\ lowestMatchIndex <= c /\ lowLimit <= c
      /\ c + 8 <= matchlimit
  <2>1. c \in Int /\ c < ipIndex
    BY <1>1, SearchLimits DEF matchCandidateIdx
  <2>2. lowestMatchIndex <= c
    BY DEF InPattern
  <2> HIDE DEF c
  <2>3. QED BY <1>1, <2>1, <2>2, SearchLimits
<1> HIDE DEF c
<1>3. f \in 0..(matchlimit - c) /\ (f = matchlimit - c \/ At(c + f) # At(ipIndex))
      /\ \A k \in 0..(f - 1) : At(c + k) = At(ipIndex)
  <2>1. c <= matchlimit
    BY <1>1, <1>2, SearchLimits
  <2>2. QED BY <1>1, <1>2, <2>1, RunIs
<1>4. r \in 0..(matchlimit - ipIndex)
      /\ (r = matchlimit - ipIndex \/ At(ipIndex + r) # At(ipIndex))
      /\ \A k \in 0..(r - 1) : At(ipIndex + k) = At(ipIndex)
  <2>1. ipIndex \in Nat /\ ipIndex <= matchlimit
    BY <1>1, SearchLimits
  <2>2. QED BY <1>1, <2>1, RunIs
<1>5. b \in 0..(c - lowLimit) /\ \A k \in 1..b : At(c - k) = At(ipIndex)
  BY <1>1, <1>2, RunBackIs
<1> HIDE DEF f, b, r
<1>6. \A k \in 0..3 : At(ipIndex + k) = At(ipIndex) /\ At(c + k) = At(ipIndex)
  <2>1. /\ \A k \in 1..3 : At(ipIndex + k) = At(ipIndex)
        /\ \A k \in 0..3 : At(ipIndex + k) = At(c + k)
    BY DEF InPattern, OneByteRun, SameFour, c
  <2>2. At(ipIndex + 0) = At(ipIndex)
    BY <1>1, SearchLimits
  <2>3. \A k \in 0..3 : k = 0 \/ k \in 1..3
    OBVIOUS
  <2>4. QED BY <2>1, <2>2, <2>3
<1>7. f \in Nat /\ f >= 4 /\ r \in Nat /\ r >= 4 /\ ipIndex + r <= matchlimit
  <2>1. f \in Nat /\ r \in Nat /\ ipIndex + r <= matchlimit
    BY <1>1, <1>2, <1>3, <1>4, SearchLimits
  <2>2. f \notin 0..3
    BY <1>1, <1>2, <1>3, <1>6, SearchLimits
  <2>3. r \notin 0..3
    BY <1>1, <1>4, <1>6, SearchLimits
  <2>4. QED BY <2>1, <2>2, <2>3
<1> DEFINE begin == Max({c - b, lowestMatchIndex})
<1>8. begin \in Nat /\ lowestMatchIndex <= begin /\ c - b <= begin /\ begin <= c
  <2>1. c - b \in Int /\ c - b <= c /\ lowestMatchIndex \in Int
    BY <1>1, <1>2, <1>5, SearchLimits
  <2>2. /\ begin \in {c - b, lowestMatchIndex}
        /\ c - b <= begin /\ lowestMatchIndex <= begin
    BY <2>1, LargerOfTwo
  <2> HIDE DEF begin
  <2>3. QED BY <1>1, <1>2, <2>1, <2>2, SearchLimits
<1>9. /\ backLength = c - begin /\ segment = (c - begin) + f
      /\ forwardPatternLength = f /\ srcPatternLength = r
  BY DEF backLength, segment, forwardPatternLength, srcPatternLength, c, f, b, r
<1> HIDE DEF begin
<1>10. Begin = begin
  BY <1>2, <1>8, <1>9 DEF Begin, c
<1>11. segment \in Nat /\ begin + segment = c + f
  BY <1>2, <1>7, <1>8, <1>9
<1>12. ASSUME NEW k \in 0..(segment - 1) PROVE At(begin + k) = At(ipIndex)
  <2>1. CASE begin + k < c
    <3>1. c - (begin + k) \in 1..b /\ c - (c - (begin + k)) = begin + k
      BY <1>2, <1>5, <1>8, <1>11, <2>1
    <3>2. At(c - (c - (begin + k))) = At(ipIndex)
      BY <1>5, <3>1
    <3>3. QED BY <3>1, <3>2
  <2>2. CASE begin + k >= c
    <3>1. (begin + k) - c \in 0..(f - 1) /\ c + ((begin + k) - c) = begin + k
      BY <1>2, <1>7, <1>8, <1>11, <2>2
    <3>2. At(c + ((begin + k) - c)) = At(ipIndex)
      BY <1>3, <3>1
    <3>3. QED BY <3>1, <3>2
  <2>3. QED BY <1>2, <1>8, <1>11, <2>1, <2>2
<1>13. /\ segment \in Nat /\ Begin + segment = c + f
       /\ \A k \in 0..(segment - 1) : At(Begin + k) = At(ipIndex)
  BY <1>10, <1>11, <1>12
<1>14. QED BY <1>2, <1>4, <1>7, <1>8, <1>9, <1>10, <1>13 DEF c

(***************************************************************************)
(* Where a jump leads is in the table: in front of the end of a dictionary *)
(* or behind it, because the candidate is in the same run.                 *)
(***************************************************************************)
LEMMA JumpInTable ==
    ASSUME input \in Inputs, matchCandidateIdx \in Nat,
           matchCandidateIdx < ipIndex, ProtectDictEnd(matchCandidateIdx),
           NEW q \in Int, lowestMatchIndex <= q, q <= matchCandidateIdx
    PROVE  /\ Protected(q) \in Inserted
           /\ ProtectDictEnd(q) => q \in Inserted
<1> DEFINE c == matchCandidateIdx
<1>1. /\ dictLimit \in Nat /\ lowLimit \in Nat /\ lowLimit <= q
      /\ q < ipIndex /\ ipIndex \in Nat /\ c \in Nat /\ c < ipIndex
      /\ input.mode # "prefix" => dictLimit = Start
  BY SearchLimits
<1>2. c >= dictLimit \/ c + 4 <= dictLimit
  BY <1>1 DEF ProtectDictEnd
<1>3. CASE ProtectDictEnd(q)
  <2>1. q >= dictLimit \/ q + 4 <= dictLimit
    BY <1>1, <1>3 DEF ProtectDictEnd
  <2>2. ~ Astride(q)
    BY <1>1, <2>1, SearchLimits DEF Astride, MINMATCH
  <2>3. q \in Inserted
    BY <1>1, <2>2 DEF Inserted
  <2>4. QED BY <1>3, <2>3 DEF Protected
<1>4. CASE ~ ProtectDictEnd(q)
  <2>1. q < dictLimit /\ q + 4 > dictLimit
    BY <1>1, <1>4 DEF ProtectDictEnd
  <2>2. dictLimit <= c
    BY <1>1, <1>2, <2>1
  <2>3. dictLimit \in lowLimit..(ipIndex - 1)
    BY <1>1, <2>1, <2>2
  <2>4. ~ Astride(dictLimit)
    BY <1>1, SearchLimits DEF Astride
  <2>5. dictLimit \in Inserted
    BY <2>3, <2>4 DEF Inserted
  <2>6. QED BY <1>4, <2>5 DEF Protected
<1>5. QED BY <1>3, <1>4

(* What is taken of a run without a comparison is a match all the same. *)
LEMMA RunIsWider ==
    ASSUME SearchTypeOK, InTable, phase \in {"chain", "swap"},
           lowestMatchIndex <= matchIndex, InPattern,
           ProtectDictEnd(Begin), lookBack = 0,
           NEW longest \in Nat, Min({segment, srcPatternLength}) > longest
    PROVE  [at |-> ipIndex, off |-> ipIndex - Begin,
            len |-> Min({segment, srcPatternLength})]
               \in Wider(ipIndex, input.low, longest)
<1> DEFINE n == Min({segment, srcPatternLength})
<1>1. /\ Begin \in Nat /\ lowestMatchIndex <= Begin
      /\ Begin <= matchCandidateIdx
      /\ matchCandidateIdx \in Nat /\ matchCandidateIdx < ipIndex
      /\ forwardPatternLength \in Nat /\ forwardPatternLength >= 4
      /\ srcPatternLength \in Nat /\ srcPatternLength >= 4
      /\ ipIndex + srcPatternLength <= matchlimit
      /\ segment \in Nat
      /\ Begin + segment = matchCandidateIdx + forwardPatternLength
  BY RunAround
<1>2. /\ \A k \in 0..(segment - 1) : At(Begin + k) = At(ipIndex)
      /\ \A k \in 0..(srcPatternLength - 1) : At(ipIndex + k) = At(ipIndex)
  BY RunAround
<1>3. input \in Inputs
  BY DEF SearchTypeOK
<1>4. Begin < ipIndex /\ segment >= 4
  BY <1>1, <1>3, SearchLimits
<1>5. n \in {segment, srcPatternLength} /\ n <= segment /\ n <= srcPatternLength
  <2>1. segment \in Int /\ srcPatternLength \in Int
    BY <1>1
  <2>2. QED BY <2>1, OneOrOther
<1> HIDE DEF n
<1>6. n \in Nat /\ n >= 4 /\ ipIndex + n <= matchlimit
  BY <1>1, <1>3, <1>4, <1>5, SearchLimits
<1>7. \A k \in 0..(n - 1) : At(ipIndex + k) = At(Begin + k)
  BY <1>1, <1>2, <1>5, <1>6
<1>8. Begin \in Inserted
  <2>1. ProtectDictEnd(matchCandidateIdx)
    BY DEF InPattern
  <2>2. Begin \in Int
    BY <1>1
  <2>3. QED BY <1>1, <1>3, <2>1, <2>2, JumpInTable
<1>9. Comparable(ipIndex, Begin)
  BY <1>1, <1>3, <1>8, InsertedComparable
<1>10. SameFour(ipIndex, Begin)
  <2>1. \A k \in 0..3 : k \in 0..(n - 1)
    BY <1>6
  <2>2. QED BY <1>7, <2>1 DEF SameFour
<1>11. ipIndex \in Nat /\ ipIndex - (ipIndex - Begin) = Begin
       /\ input.low = ipIndex /\ matchlimit \in Int
  BY <1>1, <1>3, SearchLimits
<1>12. HighLimit(ipIndex, Begin) = matchlimit
  <2>1. input.mode = "ctx" => Begin >= Start
    BY <1>1, <1>3, SearchLimits
  <2>2. QED BY <1>1, <1>3, <2>1, SearchLimits DEF HighLimit
<1>13. n \in Lengths(ipIndex, ipIndex - Begin, input.low)
  <2> DEFINE full == Count(ipIndex, Begin, matchlimit)
  <2>1. /\ full \in 0..(matchlimit - ipIndex)
        /\ full = matchlimit - ipIndex \/ At(ipIndex + full) # At(Begin + full)
    <3>1. /\ Begin \in Int /\ matchlimit \in Nat /\ ipIndex <= matchlimit
          /\ ipIndex \in Nat
      BY <1>1, <1>6, <1>11
    <3>2. QED BY <3>1, CountStops
  <2> HIDE DEF full
  <2>2. full \in Nat /\ n <= full
    <3>1. full \in Nat
      BY <1>6, <1>11, <2>1
    <3>2. full \notin 0..(n - 1)
      BY <1>6, <1>7, <1>11, <2>1
    <3>3. QED BY <1>6, <3>1, <3>2
  <2>3. OneByteRun(ipIndex)
    BY DEF InPattern
  <2>4. n \in MINMATCH..full
    BY <1>6, <2>2 DEF MINMATCH
  <2>5. QED BY <1>11, <1>12, <2>3, <2>4 DEF Lengths, full
<1> DEFINE back == CountBack(ipIndex, Begin, input.low, LowLimit(Begin))
<1>14. back = 0
  BY <1>1, <1>3, <1>4, NoWayBack
<1>15. n + back > longest /\ n + back = n /\ ipIndex - back = ipIndex
  BY <1>6, <1>11, <1>14 DEF n
<1> HIDE DEF back
<1>16. [at |-> ipIndex - back, len |-> n + back, off |-> ipIndex - Begin]
         \in Wider(ipIndex, input.low, longest)
  BY <1>1, <1>3, <1>4, <1>9, <1>10, <1>13, <1>15, WiderIs DEF back
<1>17. QED BY <1>15, <1>16 DEF n
-----------------------------------------------------------------------------
(***************************************************************************)
(* The steps of the search.                                                *)
(***************************************************************************)
LEMMA SearchInitInv ==
    ASSUME SearchInit
    PROVE  SearchInv
<1>1. input \in Inputs /\ phase = "chain" /\ matchIndex = Newest(Inserted, ipIndex)
  BY DEF SearchInit
<1>2. Inserted \subseteq Nat /\ ipIndex \in Nat
  BY <1>1, SearchLimits DEF Inserted
<1>3. /\ matchIndex \in Inserted \cup {-Base} /\ matchIndex \in Int
      /\ matchIndex < ipIndex
  BY <1>1, <1>2, NewestIs
<1>4. lowestMatchIndex <= matchIndex => matchIndex \in Inserted
  BY <1>1, <1>3, SearchLimits
<1>5. SearchTypeOK
  BY <1>1, <1>3, SearchLimits DEF SearchInit, SearchTypeOK
<1>6. InTable
  BY <1>1, <1>3, <1>4 DEF SearchInit, InTable
<1>7. InContract(best)
  BY DEF SearchInit, InContract
<1>8. QED BY <1>5, <1>6, <1>7 DEF SearchInv

(* What depends on the input alone stays. *)
LEMMA SearchStays ==
    ASSUME input' = input
    PROVE  /\ ipIndex' = ipIndex /\ lowestMatchIndex' = lowestMatchIndex
           /\ Inserted' = Inserted /\ DictInserted' = DictInserted /\ Start' = Start
<1>1. /\ ipIndex' = ipIndex /\ lowLimit' = lowLimit /\ Start' = Start
      /\ lowestMatchIndex' = lowestMatchIndex
  BY DEF ipIndex, lowestMatchIndex, lowLimit, Start
<1>2. Inserted' = Inserted /\ DictInserted' = DictInserted
  BY <1>1 DEF Inserted, DictInserted, Astride
<1>3. QED BY <1>1, <1>2

LEMMA WiderStays ==
    ASSUME input' = input
    PROVE  Wider(ipIndex, input.low, input.longest)'
               = Wider(ipIndex, input.low, input.longest)
<1>1. \A p : At(p)' = At(p)
  BY DEF At
<1>2. /\ matchlimit' = matchlimit /\ Start' = Start /\ ipIndex' = ipIndex
      /\ \A m : LowLimit(m)' = LowLimit(m)
  BY DEF matchlimit, End, Start, ipIndex, LowLimit
<1>3. \A i, m, l : Count(i, m, l)' = Count(i, m, l)
  BY <1>1 DEF Count
<1>4. \A i, m, iMin, mMin : CountBack(i, m, iMin, mMin)' = CountBack(i, m, iMin, mMin)
  BY <1>1 DEF CountBack
<1>5. /\ \A i, m : SameFour(i, m)' = SameFour(i, m)
      /\ \A i : OneByteRun(i)' = OneByteRun(i)
  BY <1>1 DEF SameFour, OneByteRun
<1>6. /\ \A i, m : Comparable(i, m)' = Comparable(i, m)
      /\ \A i, m : HighLimit(i, m)' = HighLimit(i, m)
  BY <1>2 DEF Comparable, HighLimit
<1>7. \A i : Offsets(i)' = Offsets(i)
  BY <1>5, <1>6 DEF Offsets
<1>8. \A i, off, low : Lengths(i, off, low)' = Lengths(i, off, low)
  BY <1>3, <1>5, <1>6 DEF Lengths
<1>9. \A i, low, longest : Wider(i, low, longest)' = Wider(i, low, longest)
  BY <1>2, <1>4, <1>7, <1>8 DEF Wider
<1>10. QED BY <1>2, <1>9

LEMMA ContractStays ==
    ASSUME input' = input, NEW STATE b, InContract(b), best' = b
    PROVE  InContract(best)'
<1>1. Wider(ipIndex, input.low, input.longest)' = Wider(ipIndex, input.low, input.longest)
  BY WiderStays
<1>2. QED BY <1>1 DEF InContract, ipIndex

(***************************************************************************)
(* A step after which the search is on a chain again.                      *)
(***************************************************************************)
LEMMA BackOnChain ==
    ASSUME SearchInv, input' = input, phase' = "chain", nbAttempts' \in Nat,
           UNCHANGED <<matchChainPos, loop>>,
           NEW STATE q, q \in Int, q < ipIndex,
           lowestMatchIndex <= q => q \in Inserted,
           matchIndex' = q,
           NEW STATE b, InContract(b), best' = b
    PROVE  SearchInv'
<1>1. SearchTypeOK'
  BY DEF SearchInv, SearchTypeOK, loop
<1>2. InTable'
  <2>1. ipIndex' = ipIndex /\ lowestMatchIndex' = lowestMatchIndex
        /\ Inserted' = Inserted
    BY SearchStays
  <2>2. matchIndex' < ipIndex'
        /\ (lowestMatchIndex' <= matchIndex' => matchIndex' \in Inserted')
    BY <2>1
  <2>3. (~ input.swap => matchChainPos = 0)'
    BY DEF SearchInv, InTable
  <2>4. QED BY <2>2, <2>3 DEF InTable
<1>3. InContract(best)'
  BY ContractStays
<1>4. QED BY <1>1, <1>2, <1>3 DEF SearchInv

(* Where a step may be taken from. *)
LEMMA StaysWhere ==
    ASSUME SearchInv, Stays
    PROVE  /\ phase \in {"chain", "swap"} /\ lowestMatchIndex <= matchIndex
           /\ nbAttempts - 1 \in Nat /\ matchIndex \in Inserted
           /\ InContract(Better)
<1>1. phase \in {"chain", "swap"} /\ lowestMatchIndex <= matchIndex /\ nbAttempts > 0
  BY DEF SearchInv, InTable, Stays, OnChain, AllTried
<1>2. nbAttempts - 1 \in Nat
  BY <1>1 DEF SearchInv, SearchTypeOK
<1>3. matchIndex \in Inserted
  BY <1>1 DEF SearchInv, InTable
<1>4. InContract(Better)
  BY <1>1, BetterInContract
<1>5. QED BY <1>1, <1>2, <1>3, <1>4

(***************************************************************************)
(* Where chainSwap is asked for, every position of the window is in the    *)
(* table, wherever a chain of another position leads.                      *)
(***************************************************************************)
LEMMA AllInTable ==
    ASSUME input \in Inputs, input.swap, NEW q \in Int, q < ipIndex,
           lowestMatchIndex <= q
    PROVE  q \in Inserted
<1>1. input.mode \in {"prefix", "ctx"}
  BY SearchLimits, SearchAssumption DEF SearchAssumption
<1>2. /\ q \in lowLimit..(ipIndex - 1)
      /\ input.mode = "ctx" => Start <= q
  BY SearchLimits
<1>3. ~ Astride(q)
  BY <1>1, <1>2, SearchLimits DEF Astride
<1>4. QED BY <1>2, <1>3 DEF Inserted

LEMMA BeginSwapStep ==
    ASSUME SearchInv, BeginSwap
    PROVE  SearchInv'
<1>1. /\ input' = input /\ phase' = "swap" /\ best' = Better
      /\ matchIndex' = matchIndex /\ nbAttempts' = nbAttempts
      /\ matchChainPos' = matchChainPos
      /\ pos' = 0 /\ accel' = 16 /\ distanceToNextMatch' = 1
  BY DEF BeginSwap
<1>2. /\ phase = "chain" /\ lowestMatchIndex <= matchIndex /\ nbAttempts > 0
      /\ input.swap
  BY DEF BeginSwap, OnChain, Swaps
<1>3. SearchTypeOK'
  BY <1>1 DEF SearchInv, SearchTypeOK
<1>4. InTable'
  <2>1. ipIndex' = ipIndex /\ lowestMatchIndex' = lowestMatchIndex
        /\ Inserted' = Inserted
    BY <1>1, SearchStays
  <2>2. matchIndex < ipIndex /\ matchIndex \in Inserted
    BY <1>2 DEF SearchInv, InTable
  <2>3. QED BY <1>1, <1>2, <2>1, <2>2 DEF InTable
<1>5. InContract(best)'
  <2>1. InContract(Better)
    BY <1>2, BetterInContract
  <2>2. QED BY <1>1, <2>1, ContractStays
<1>6. QED BY <1>3, <1>4, <1>5 DEF SearchInv

LEMMA TryPositionStep ==
    ASSUME SearchInv, TryPosition
    PROVE  SearchInv'
<1>1. /\ input' = input /\ phase = "swap" /\ phase' = phase /\ best' = best
      /\ matchIndex' = matchIndex /\ nbAttempts' = nbAttempts
      /\ pos' = pos + accel \div 16
  BY DEF TryPosition
<1>2. /\ input \in Inputs /\ matchIndex \in Inserted /\ matchIndex < ipIndex
      /\ input.swap /\ lowestMatchIndex <= matchIndex /\ nbAttempts > 0
      /\ pos \in Nat /\ accel \in Nat
  BY <1>1 DEF SearchInv, SearchTypeOK, InTable
<1>3. Delta(matchIndex + pos) \in Nat /\ Delta(matchIndex + pos) >= 1
  <2>1. Inserted \subseteq Nat /\ matchIndex + pos \in Int
    BY <1>2, SearchLimits DEF Inserted
  <2>2. QED BY <1>2, <2>1, DeltaIs DEF Delta
<1>4. /\ distanceToNextMatch' \in Nat /\ distanceToNextMatch' >= 1
      /\ matchChainPos' \in Nat /\ accel' \in Nat
  BY <1>2, <1>3 DEF TryPosition, SearchInv, SearchTypeOK
<1>5. SearchTypeOK'
  <2>1. pos' \in Nat
    BY <1>1, <1>2
  <2>2. QED BY <1>1, <1>4, <2>1 DEF SearchInv, SearchTypeOK
<1>6. InTable'
  <2>1. ipIndex' = ipIndex /\ lowestMatchIndex' = lowestMatchIndex
        /\ Inserted' = Inserted
    BY <1>1, SearchStays
  <2>2. QED BY <1>1, <1>2, <2>1 DEF InTable
<1>7. InContract(best)'
  BY <1>1, ContractStays DEF SearchInv
<1>8. QED BY <1>5, <1>6, <1>7 DEF SearchInv

LEMMA SwapChainStep ==
    ASSUME SearchInv, SwapChain
    PROVE  SearchInv'
<1>1. /\ phase = "swap" /\ input' = input /\ phase' = "chain" /\ best' = best
      /\ matchIndex' = matchIndex - distanceToNextMatch
      /\ nbAttempts' = nbAttempts - 1 /\ UNCHANGED <<matchChainPos, loop>>
  BY DEF SwapChain, AllTried
<1>2. /\ input \in Inputs /\ matchIndex \in Int /\ matchIndex < ipIndex
      /\ input.swap /\ nbAttempts > 0 /\ nbAttempts \in Nat
      /\ distanceToNextMatch \in Nat /\ InContract(best)
  BY <1>1 DEF SearchInv, SearchTypeOK, InTable
<1> DEFINE q == matchIndex - distanceToNextMatch
<1>3. q \in Int /\ q < ipIndex /\ nbAttempts' \in Nat
  BY <1>1, <1>2, SearchLimits
<1>4. matchIndex' = q
  BY <1>1
<1> HIDE DEF q
<1>5. lowestMatchIndex <= q => q \in Inserted
  BY <1>2, <1>3, AllInTable
<1>6. QED BY <1>1, <1>2, <1>3, <1>4, <1>5, BackOnChain

LEMMA JumpToEndStep ==
    ASSUME SearchInv, JumpToEnd
    PROVE  SearchInv'
<1> DEFINE q == matchCandidateIdx + forwardPatternLength - srcPatternLength
<1>1. /\ Stays /\ InPattern /\ FitsRun /\ matchIndex' = Protected(q)
      /\ best' = Better /\ input' = input /\ phase' = "chain"
      /\ nbAttempts' = nbAttempts - 1 /\ UNCHANGED <<matchChainPos, loop>>
  BY DEF JumpToEnd
<1>2. /\ phase \in {"chain", "swap"} /\ lowestMatchIndex <= matchIndex
      /\ nbAttempts' \in Nat /\ InContract(Better)
  BY <1>1, StaysWhere
<1>3. SearchTypeOK /\ InTable /\ input \in Inputs
  BY DEF SearchInv, SearchTypeOK
<1>4. /\ Begin \in Nat /\ lowestMatchIndex <= Begin
      /\ Begin <= matchCandidateIdx
      /\ matchCandidateIdx \in Nat /\ matchCandidateIdx < ipIndex
      /\ forwardPatternLength \in Nat /\ srcPatternLength \in Nat
      /\ segment \in Nat
      /\ Begin + segment = matchCandidateIdx + forwardPatternLength
  BY <1>1, <1>2, <1>3, RunAround
<1>5. segment >= srcPatternLength /\ forwardPatternLength <= srcPatternLength
  BY <1>1 DEF FitsRun
<1>6. q \in Int /\ lowestMatchIndex <= q /\ q <= matchCandidateIdx
  BY <1>3, <1>4, <1>5, SearchLimits
<1> HIDE DEF q
<1>7. Protected(q) \in Inserted
  <2>1. ProtectDictEnd(matchCandidateIdx)
    BY <1>1 DEF InPattern
  <2>2. QED BY <1>3, <1>4, <1>6, <2>1, JumpInTable
<1>8. Protected(q) \in Int /\ Protected(q) < ipIndex
  BY <1>3, <1>7, SearchLimits DEF Inserted
<1>9. QED BY <1>1, <1>2, <1>7, <1>8, BackOnChain

LEMMA JumpToBeginStep ==
    ASSUME SearchInv, JumpToBegin
    PROVE  SearchInv'
<1> DEFINE maxML == Min({segment, srcPatternLength})
           found == [at |-> ipIndex, off |-> ipIndex - Begin, len |-> maxML]
<1>1. /\ Stays /\ InPattern
      /\ input' = input /\ phase' = "chain"
      /\ nbAttempts' = nbAttempts - 1 /\ UNCHANGED <<matchChainPos, loop>>
  BY DEF JumpToBegin
<1>2. \/ matchIndex' = Protected(Begin) /\ best' = Better
      \/ /\ ProtectDictEnd(Begin) /\ lookBack = 0
         /\ best' = IF maxML > Better.len THEN found ELSE Better
         /\ matchIndex' = Begin - Delta(Begin)
  BY DEF JumpToBegin, Begin
<1>3. /\ phase \in {"chain", "swap"} /\ lowestMatchIndex <= matchIndex
      /\ nbAttempts' \in Nat /\ InContract(Better)
  BY <1>1, StaysWhere
<1>4. SearchTypeOK /\ InTable /\ input \in Inputs
  BY DEF SearchInv, SearchTypeOK
<1>5. /\ Begin \in Nat /\ lowestMatchIndex <= Begin
      /\ Begin <= matchCandidateIdx
      /\ matchCandidateIdx \in Nat /\ matchCandidateIdx < ipIndex
  BY <1>1, <1>3, <1>4, RunAround
<1>6. /\ Protected(Begin) \in Inserted
      /\ ProtectDictEnd(Begin) => Begin \in Inserted
  <2>1. ProtectDictEnd(matchCandidateIdx) /\ Begin \in Int
    BY <1>1, <1>5 DEF InPattern
  <2>2. QED BY <1>4, <1>5, <2>1, JumpInTable
<1>7. CASE matchIndex' = Protected(Begin) /\ best' = Better
  <2>1. Protected(Begin) \in Int /\ Protected(Begin) < ipIndex
    BY <1>4, <1>6, SearchLimits DEF Inserted
  <2>2. QED BY <1>1, <1>3, <1>6, <1>7, <2>1, BackOnChain
<1>8. CASE /\ ProtectDictEnd(Begin) /\ lookBack = 0
           /\ best' = IF maxML > Better.len THEN found ELSE Better
           /\ matchIndex' = Begin - Delta(Begin)
  <2> DEFINE q == Begin - Delta(Begin)
             b == IF maxML > Better.len THEN found ELSE Better
  <2>1. matchIndex' = q /\ best' = b
    BY <1>8
  <2>2. q \in Int /\ q < ipIndex /\ (lowestMatchIndex <= q => q \in Inserted)
    BY <1>4, <1>6, <1>8, ChainFollowed
  <2>3. Better.len \in Nat
    BY <1>3, <1>4, ContractLength
  <2>4. InContract(b)
    <3>1. CASE maxML > Better.len
      <4>1. found \in Wider(ipIndex, input.low, Better.len)
        BY <1>1, <1>3, <1>4, <1>8, <2>3, <3>1, RunIsWider
      <4> HIDE DEF found
      <4>2. InContract(found)
        BY <1>3, <1>4, <4>1, LongerInContract
      <4>3. QED BY <3>1, <4>2
    <3>2. CASE ~ (maxML > Better.len)
      BY <1>3, <3>2
    <3>3. QED BY <3>1, <3>2
  <2> HIDE DEF q, b
  <2>5. QED BY <1>1, <1>3, <2>1, <2>2, <2>4, BackOnChain
<1>9. QED BY <1>2, <1>7, <1>8

LEMMA FollowChainStep ==
    ASSUME SearchInv, FollowChain
    PROVE  SearchInv'
<1> DEFINE q == matchIndex - Delta(matchIndex + matchChainPos)
<1>1. /\ Stays /\ matchIndex' = q
      /\ best' = Better /\ input' = input /\ phase' = "chain"
      /\ nbAttempts' = nbAttempts - 1 /\ UNCHANGED <<matchChainPos, loop>>
  BY DEF FollowChain
<1>2. /\ phase \in {"chain", "swap"} /\ lowestMatchIndex <= matchIndex
      /\ nbAttempts' \in Nat /\ InContract(Better) /\ matchIndex \in Inserted
  BY <1>1, StaysWhere
<1>3. /\ input \in Inputs /\ matchIndex \in Int /\ matchIndex < ipIndex
      /\ matchChainPos \in Nat
      /\ ~ input.swap => matchChainPos = 0
  BY DEF SearchInv, SearchTypeOK, InTable
<1>4. q \in Int /\ q < ipIndex /\ (lowestMatchIndex <= q => q \in Inserted)
  <2>1. CASE ~ input.swap
    <3>1. matchIndex + matchChainPos = matchIndex
      BY <1>3, <2>1
    <3>2. q = matchIndex - Delta(matchIndex)
      BY <3>1
    <3> HIDE DEF q
    <3>3. QED BY <1>2, <1>3, <3>2, ChainFollowed
  <2>2. CASE input.swap
    <3>1. /\ Delta(matchIndex + matchChainPos) \in Nat
          /\ Delta(matchIndex + matchChainPos) >= 1
      <4>1. Inserted \subseteq Nat /\ matchIndex + matchChainPos \in Int
        BY <1>3, SearchLimits DEF Inserted
      <4>2. QED BY <1>3, <4>1, DeltaIs DEF Delta
    <3>2. q \in Int /\ q < ipIndex
      BY <1>3, <3>1, SearchLimits
    <3> HIDE DEF q
    <3>3. QED BY <1>3, <2>2, <3>2, AllInTable
  <2>3. QED BY <2>1, <2>2
<1> HIDE DEF q
<1>5. QED BY <1>1, <1>2, <1>4, BackOnChain

LEMMA EndOfChainStep ==
    ASSUME SearchInv, EndOfChain
    PROVE  SearchInv'
<1> DEFINE S == {q \in DictInserted : SameBucket(ipIndex, q)} \cup {-Base}
<1>1. /\ input' = input /\ nbAttempts' = nbAttempts /\ best' = best
      /\ matchChainPos' = matchChainPos /\ loop' = loop
  BY DEF EndOfChain
<1>2. \/ phase' = "returned" /\ matchIndex' = matchIndex
      \/ /\ phase' = "dict" /\ input.mode = "ctx"
         /\ ipIndex - lowestMatchIndex < DistanceMax /\ matchIndex' = Max(S)
  BY DEF EndOfChain
<1>3. /\ input \in Inputs /\ matchIndex \in Int /\ matchIndex < ipIndex
      /\ ~ input.swap => matchChainPos = 0
  BY DEF SearchInv, SearchTypeOK, InTable
<1>4. Max(S) \in DictInserted \cup {-Base} /\ Max(S) \in Int /\ Max(S) < ipIndex
  <2>1. /\ -Base \in S /\ -Base \in Int /\ -Base < ipIndex
        /\ DictInserted \subseteq Nat /\ \A q \in DictInserted : q < ipIndex
    BY <1>3, SearchLimits DEF DictInserted
  <2>2. S \subseteq Int /\ S # {} /\ \A q \in S : q < ipIndex
    <3>1. ASSUME NEW q \in S PROVE q \in Int /\ q < ipIndex
      BY <2>1
    <3>2. QED BY <2>1, <3>1
  <2>3. S \subseteq DictInserted \cup {-Base}
    OBVIOUS
  <2> HIDE DEF S
  <2>4. Max(S) \in S
    <3>1. ipIndex \in Int
      BY <1>3, SearchLimits
    <3>2. QED BY <2>2, <3>1, LargestBelow
  <2>5. QED BY <2>2, <2>3, <2>4
<1> HIDE DEF S
<1>5. SearchTypeOK'
  BY <1>1, <1>2, <1>4 DEF SearchInv, SearchTypeOK, loop
<1>6. InTable'
  <2>1. /\ ipIndex' = ipIndex /\ lowestMatchIndex' = lowestMatchIndex
        /\ DictInserted' = DictInserted /\ Start' = Start
    BY <1>1, SearchStays
  <2>2. CASE phase' = "returned" /\ matchIndex' = matchIndex
    BY <1>1, <1>3, <2>1, <2>2 DEF InTable
  <2>3. CASE /\ phase' = "dict" /\ input.mode = "ctx"
             /\ ipIndex - lowestMatchIndex < DistanceMax /\ matchIndex' = Max(S)
    <3>1. ipIndex - Max(S) <= DistanceMax => Max(S) \in DictInserted
      BY <1>3, <1>4, SearchLimits
    <3>2. ipIndex - Start < DistanceMax
      BY <1>3, <2>3, SearchLimits DEF lowestMatchIndex
    <3>3. QED BY <1>1, <1>3, <1>4, <2>1, <2>3, <3>1, <3>2 DEF InTable
  <2>4. QED BY <1>2, <2>2, <2>3
<1>7. InContract(best)'
  BY <1>1, ContractStays DEF SearchInv
<1>8. QED BY <1>5, <1>6, <1>7 DEF SearchInv

LEMMA FollowDictStep ==
    ASSUME SearchInv, FollowDict
    PROVE  SearchInv'
<1> DEFINE p == matchIndex
           q == matchIndex - DeltaIn(DictInserted, matchIndex)
           b == IF SameFour(ipIndex, matchIndex) /\ Candidate(matchIndex).len > best.len
                THEN Candidate(matchIndex) ELSE best
<1>1. /\ phase = "dict" /\ ipIndex - p <= DistanceMax /\ nbAttempts > 0
      /\ nbAttempts' = nbAttempts - 1 /\ best' = b /\ matchIndex' = q
      /\ input' = input /\ phase' = phase /\ matchChainPos' = matchChainPos
      /\ loop' = loop
  BY DEF FollowDict, InDict
<1>2. /\ input \in Inputs /\ input.mode = "ctx" /\ ipIndex - Start < DistanceMax
      /\ p \in DictInserted /\ nbAttempts \in Nat /\ InContract(best)
      /\ ~ input.swap => matchChainPos = 0
  BY <1>1 DEF SearchInv, SearchTypeOK, InTable
<1>3. /\ p \in Nat /\ p < ipIndex /\ Comparable(ipIndex, p)
  BY <1>1, <1>2, DictInsertedComparable
<1>4. InContract(b)
  <2>1. CASE SameFour(ipIndex, p) /\ Candidate(p).len > best.len
    <3>1. best.len \in Nat
      BY <1>2, ContractLength
    <3>2. Candidate(p) \in Wider(ipIndex, input.low, best.len)
      BY <1>2, <1>3, <2>1, <3>1, CandidateIsWider
    <3>3. InContract(Candidate(p))
      BY <1>2, <3>2, LongerInContract
    <3>4. QED BY <2>1, <3>3
  <2>2. CASE ~ (SameFour(ipIndex, p) /\ Candidate(p).len > best.len)
    BY <1>2, <2>2
  <2>3. QED BY <2>1, <2>2
<1>5. /\ q \in Int /\ q < ipIndex
      /\ ipIndex - q <= DistanceMax => q \in DictInserted
  <2>1. DictInserted \subseteq Nat
    BY <1>2, SearchLimits DEF DictInserted
  <2> DEFINE d == DeltaIn(DictInserted, p)
  <2>2. d \in Nat /\ d >= 1 /\ (p - d \in DictInserted \cup {-Base} \/ d = DistanceMax)
    <3>1. p \in Int
      BY <1>3
    <3>2. QED BY <1>2, <2>1, <3>1, DeltaIs
  <2>3. q = p - d
    OBVIOUS
  <2> HIDE DEF d, q
  <2>4. QED BY <1>2, <1>3, <2>2, <2>3, SearchLimits
<1> HIDE DEF q, b
<1>6. SearchTypeOK'
  <2>1. nbAttempts' \in Nat
    BY <1>1, <1>2
  <2>2. QED BY <1>1, <1>5, <2>1 DEF SearchInv, SearchTypeOK, loop
<1>7. InTable'
  <2>1. /\ ipIndex' = ipIndex /\ DictInserted' = DictInserted /\ Start' = Start
    BY <1>1, SearchStays
  <2>2. QED BY <1>1, <1>2, <1>5, <2>1 DEF InTable
<1>8. InContract(best)'
  BY <1>1, <1>4, ContractStays
<1>9. QED BY <1>6, <1>7, <1>8 DEF SearchInv

LEMMA SearchQuiet ==
    ASSUME SearchInv, EndOfDict \/ UNCHANGED searchVars
    PROVE  SearchInv'
<1>1. /\ input' = input /\ nbAttempts' = nbAttempts /\ best' = best
      /\ matchChainPos' = matchChainPos /\ loop' = loop /\ matchIndex' = matchIndex
      /\ phase' = phase \/ phase' = "returned"
  BY DEF EndOfDict, searchVars
<1>2. SearchTypeOK'
  BY <1>1 DEF SearchInv, SearchTypeOK, loop
<1>3. InTable'
  <2>1. /\ ipIndex' = ipIndex /\ lowestMatchIndex' = lowestMatchIndex
        /\ Inserted' = Inserted /\ DictInserted' = DictInserted /\ Start' = Start
    BY <1>1, SearchStays
  <2>2. QED BY <1>1, <2>1 DEF SearchInv, InTable
<1>4. InContract(best)'
  BY <1>1, ContractStays DEF SearchInv
<1>5. QED BY <1>2, <1>3, <1>4 DEF SearchInv

(***************************************************************************)
(* The invariant of LZ4HC_InsertAndGetWiderMatch: the search is in its     *)
(* tables, and the longest match so far one that it may return.            *)
(***************************************************************************)
THEOREM SearchInvariant == SearchSpec => []SearchInv
<1>1. SearchInit => SearchInv
  BY SearchInitInv
<1>2. SearchInv /\ [SearchNext]_searchVars => SearchInv'
  <2> SUFFICES ASSUME SearchInv, [SearchNext]_searchVars PROVE SearchInv'
    OBVIOUS
  <2>1. CASE BeginSwap
    BY <2>1, BeginSwapStep
  <2>2. CASE TryPosition
    BY <2>2, TryPositionStep
  <2>3. CASE SwapChain
    BY <2>3, SwapChainStep
  <2>4. CASE JumpToEnd
    BY <2>4, JumpToEndStep
  <2>5. CASE JumpToBegin
    BY <2>5, JumpToBeginStep
  <2>6. CASE FollowChain
    BY <2>6, FollowChainStep
  <2>7. CASE EndOfChain
    BY <2>7, EndOfChainStep
  <2>8. CASE FollowDict
    BY <2>8, FollowDictStep
  <2>9. CASE EndOfDict
    BY <2>9, SearchQuiet
  <2>10. CASE UNCHANGED searchVars
    BY <2>10, SearchQuiet
  <2>11. QED
    BY <2>1, <2>2, <2>3, <2>4, <2>5, <2>6, <2>7, <2>8, <2>9, <2>10 DEF SearchNext
<1>3. QED BY <1>1, <1>2, PTL DEF SearchSpec

(***************************************************************************)
(* What LZ4HC_InsertAndGetWiderMatch returns is what the coders of the HC  *)
(* levels take it for: no match longer than the one they have, or one that *)
(* is really there.                                                        *)
(***************************************************************************)
THEOREM SearchKeepsContract == SearchSpec => []KeepsContract
<1>1. SearchInv => KeepsContract
  <2> SUFFICES ASSUME SearchInv PROVE KeepsContract
    OBVIOUS
  <2>1. CASE best = [at |-> ipIndex, off |-> 0, len |-> input.longest]
    BY <2>1 DEF KeepsContract
  <2>2. CASE best \in Wider(ipIndex, input.low, input.longest)
    BY <2>2 DEF KeepsContract
  <2>3. QED BY <2>1, <2>2 DEF SearchInv, InContract
<1>2. QED BY <1>1, SearchInvariant, PTL

(***************************************************************************)
(* The assertions of the search: it compares four bytes only in front of   *)
(* the position it searches for, and never those astride the end of a      *)
(* dictionary.                                                             *)
(***************************************************************************)
THEOREM WordsInside == SearchSpec => []ReadsWords
<1>1. SearchInv => ReadsWords
  <2> SUFFICES ASSUME SearchInv, OnChain \/ (phase = "dict" /\ InDict)
               PROVE  matchIndex < ipIndex /\ ~ Astride(matchIndex)
    BY DEF ReadsWords
  <2>1. input \in Inputs /\ matchIndex < ipIndex
    BY DEF SearchInv, SearchTypeOK, InTable
  <2>2. CASE OnChain
    <3>1. matchIndex \in Inserted
      BY <2>2 DEF OnChain, SearchInv, InTable
    <3>2. QED BY <2>1, <3>1 DEF Inserted
  <2>3. CASE phase = "dict" /\ InDict
    <3>1. matchIndex \in DictInserted
      BY <2>3 DEF InDict, SearchInv, InTable
    <3>2. QED BY <2>1, <3>1 DEF DictInserted
  <2>4. QED BY <2>2, <2>3
<1>2. QED BY <1>1, SearchInvariant, PTL
-----------------------------------------------------------------------------
(***************************************************************************)
(* What the search finds.  A match at p reaches as far as its bytes go, to *)
(* both sides.  Open are the positions of the table that could be a match, *)
(* but for those that are too near when matches are wanted that are quick  *)
(* to decode; DictOpen those in the tables of another stream.              *)
(***************************************************************************)
Full(p) == Count(ipIndex, p, HighLimit(ipIndex, p))

Reach(p) == Candidate(p).len

Near(p) == input.favor /\ ipIndex - p < 8

Open ==
    {p \in Inserted : lowestMatchIndex <= p /\ SameFour(ipIndex, p) /\ ~ Near(p)}

DictOpen ==
    {p \in DictInserted :
        /\ input.mode = "ctx" /\ ipIndex - Start < DistanceMax
        /\ ipIndex - p <= DistanceMax
        /\ SameFour(ipIndex, p)}

(***************************************************************************)
(* The invariant.  For every match longer than n there is one as long at q *)
(* or in front of it, where the search still comes to.  The search follows *)
(* the chain of the position c bytes behind its own, and the four bytes    *)
(* there belong to what it has found.  While it looks for a better chain,  *)
(* it is at one of the longest matches it knows.                           *)
(***************************************************************************)
Pending(q, n) ==
    \A p \in Open : Reach(p) > n => \E y \in Open : y <= q /\ Reach(y) >= Reach(p)

OnChainOf(q, c) ==
    lowestMatchIndex <= q =>
        q + c < ipIndex /\ SameBucket(ipIndex + c, q + c)

Following(q, c, n) ==
    /\ Pending(q, n) /\ OnChainOf(q, c)
    /\ c = 0 \/ (input.swap /\ c + MINMATCH <= n)

Swapping(q, c, n, d) ==
    /\ SameFour(ipIndex, q) /\ Reach(q) = n /\ q + n <= ipIndex
    /\ d = 1 \/ d = Delta(q + c)

NoneOpen(n) == \A p \in Open : Reach(p) <= n

PendingInDict(q, n) ==
    /\ \A p \in DictOpen : Reach(p) > n => p <= q
    /\ ipIndex - q <= DistanceMax => SameBucket(ipIndex, q)

NoneInDict(n) == \A p \in DictOpen : Reach(p) <= n

FindInv ==
    (input.pattern => lookBack = 0) =>
        /\ phase \in {"chain", "swap"} => Following(matchIndex, matchChainPos, best.len)
        /\ phase = "swap" =>
               Swapping(matchIndex, matchChainPos, best.len, distanceToNextMatch)
        /\ phase = "dict" => NoneOpen(best.len) /\ PendingInDict(matchIndex, best.len)
        /\ phase = "returned" /\ nbAttempts > 0 =>
               NoneOpen(best.len) /\ NoneInDict(best.len)

(* All of it depends on the input alone. *)
LEMMA FindStays ==
    ASSUME input' = input
    PROVE  /\ (input.pattern => lookBack = 0)' = (input.pattern => lookBack = 0)
           /\ \A q, c, n : Following(q, c, n)' = Following(q, c, n)
           /\ \A q, c, n, d : Swapping(q, c, n, d)' = Swapping(q, c, n, d)
           /\ \A q, n : PendingInDict(q, n)' = PendingInDict(q, n)
           /\ \A n : NoneOpen(n)' = NoneOpen(n) /\ NoneInDict(n)' = NoneInDict(n)
<1>1. \A p : At(p)' = At(p)
  BY DEF At
<1>2. /\ matchlimit' = matchlimit /\ Start' = Start /\ ipIndex' = ipIndex
      /\ lookBack' = lookBack /\ lowestMatchIndex' = lowestMatchIndex
      /\ Inserted' = Inserted /\ DictInserted' = DictInserted
      /\ \A m : LowLimit(m)' = LowLimit(m)
  BY SearchStays DEF matchlimit, End, Start, ipIndex, LowLimit, lookBack
<1>3. \A i, m, l : Count(i, m, l)' = Count(i, m, l)
  BY <1>1 DEF Count
<1>4. \A i, m, iMin, mMin : CountBack(i, m, iMin, mMin)' = CountBack(i, m, iMin, mMin)
  BY <1>1 DEF CountBack
<1>5. /\ \A i, m : SameFour(i, m)' = SameFour(i, m)
      /\ \A i, m : HighLimit(i, m)' = HighLimit(i, m)
      /\ \A p : Near(p)' = Near(p)
  BY <1>1, <1>2 DEF SameFour, HighLimit, Near
<1>6. \A p, q : SameBucket(p, q)' = SameBucket(p, q)
  BY <1>5 DEF SameBucket
<1>7. \A p : Reach(p)' = Reach(p)
  BY <1>2, <1>3, <1>4, <1>5 DEF Reach, Candidate
<1>8. Open' = Open
  BY <1>2, <1>5 DEF Open
<1>9. DictOpen' = DictOpen
  BY <1>2, <1>5 DEF DictOpen
<1>10. Base' = Base
  BY DEF Base
<1>11. \A t, p : Newest(t, p)' = Newest(t, p)
  BY <1>6, <1>10 DEF Newest
<1>12. \A p : Delta(p)' = Delta(p)
  BY <1>2, <1>11 DEF Delta, DeltaIn
<1>13. \A q, n : Pending(q, n)' = Pending(q, n)
  BY <1>7, <1>8 DEF Pending
<1>14. \A q, c : OnChainOf(q, c)' = OnChainOf(q, c)
  BY <1>2, <1>6 DEF OnChainOf
<1>15. \A q, c, n : Following(q, c, n)' = Following(q, c, n)
  BY <1>13, <1>14 DEF Following
<1>16. \A q, c, n, d : Swapping(q, c, n, d)' = Swapping(q, c, n, d)
  BY <1>2, <1>5, <1>7, <1>12 DEF Swapping
<1>17. \A q, n : PendingInDict(q, n)' = PendingInDict(q, n)
  BY <1>2, <1>6, <1>7, <1>9 DEF PendingInDict
<1>18. \A n : NoneOpen(n)' = NoneOpen(n) /\ NoneInDict(n)' = NoneInDict(n)
  BY <1>7, <1>8, <1>9 DEF NoneOpen, NoneInDict
<1>19. (input.pattern => lookBack = 0)' = (input.pattern => lookBack = 0)
  BY <1>2
<1>20. QED BY <1>15, <1>16, <1>17, <1>18, <1>19

(* How far a match reaches. *)
LEMMA ReachIs ==
    ASSUME input \in Inputs, NEW p \in Nat, p < ipIndex,
           Comparable(ipIndex, p), SameFour(ipIndex, p)
    PROVE  /\ Full(p) \in Nat /\ Full(p) >= 4
           /\ HighLimit(ipIndex, p) \in Nat
           /\ ipIndex + Full(p) <= HighLimit(ipIndex, p)
           /\ \/ ipIndex + Full(p) = HighLimit(ipIndex, p)
              \/ At(ipIndex + Full(p)) # At(p + Full(p))
           /\ \A k \in 0..(Full(p) - 1) : At(ipIndex + k) = At(p + k)
           /\ Reach(p) \in Nat
           /\ Reach(p) >= Full(p) /\ Reach(p) <= Full(p) + lookBack
           /\ lookBack = 0 => Reach(p) = Full(p)
<1> DEFINE h == HighLimit(ipIndex, p)
           full == Full(p)
           back == CountBack(ipIndex, p, input.low, LowLimit(p))
<1>1. ipIndex \in Nat /\ lookBack \in Nat /\ lookBack = ipIndex - input.low
  BY SearchLimits
<1>2. h \in Nat /\ ipIndex + 4 <= h
  <2>1. p \in 0..(ipIndex - 1) /\ ipIndex <= mflimit
    BY <1>1, SearchLimits
  <2>2. QED BY <1>1, <2>1, HighLimitInside
<1>3. /\ full \in 0..(h - ipIndex)
      /\ full = h - ipIndex \/ At(ipIndex + full) # At(p + full)
      /\ \A k \in 0..(full - 1) : At(ipIndex + k) = At(p + k)
  <2>1. p \in Int /\ ipIndex <= h /\ h \in Nat /\ full = Count(ipIndex, p, h)
    BY <1>1, <1>2 DEF Full
  <2> HIDE DEF h, full
  <2>2. /\ Count(ipIndex, p, h) \in 0..(h - ipIndex)
        /\ \/ Count(ipIndex, p, h) = h - ipIndex
           \/ At(ipIndex + Count(ipIndex, p, h)) # At(p + Count(ipIndex, p, h))
        /\ \A k \in 0..(Count(ipIndex, p, h) - 1) : At(ipIndex + k) = At(p + k)
    BY <1>1, <2>1, CountStops
  <2>3. QED BY <2>1, <2>2
<1>4. full \in 0..3 => At(ipIndex + full) = At(p + full)
  BY DEF SameFour
<1>5. /\ back \in Nat /\ back <= lookBack
      /\ lookBack = 0 => back = 0
  <2>1. LowLimit(p) \in Nat /\ LowLimit(p) <= p
    BY SearchLimits DEF LowLimit
  <2>2. back \in Nat /\ back <= ipIndex - input.low
    BY <2>1, SearchLimits, CountBackStops
  <2> HIDE DEF back
  <2>3. QED BY <1>1, <2>2
<1>6. Reach(p) = full + back
  <2>1. Candidate(p).len = full + (IF lookBack = 0 THEN 0 ELSE back)
    BY DEF Candidate, Full
  <2> HIDE DEF full, back
  <2>2. QED BY <1>5, <2>1 DEF Reach
<1> HIDE DEF h, full, back
<1>7. full \in Nat /\ full >= 4 /\ ipIndex + full <= h
  BY <1>1, <1>2, <1>3, <1>4
<1>8. ipIndex + full = h \/ At(ipIndex + full) # At(p + full)
  BY <1>1, <1>2, <1>3, <1>7
<1>9. /\ Reach(p) \in Nat /\ Reach(p) >= full /\ Reach(p) <= full + lookBack
      /\ lookBack = 0 => Reach(p) = full
  BY <1>1, <1>5, <1>6, <1>7
<1>10. QED BY <1>2, <1>3, <1>7, <1>8, <1>9 DEF full, h

LEMMA OpenIs ==
    ASSUME input \in Inputs, NEW p \in Open
    PROVE  /\ p \in Nat /\ p < ipIndex /\ p \in Inserted /\ lowestMatchIndex <= p
           /\ Comparable(ipIndex, p) /\ SameFour(ipIndex, p) /\ ~ Near(p)
<1>1. /\ p \in Inserted /\ lowestMatchIndex <= p
      /\ SameFour(ipIndex, p) /\ ~ Near(p)
  BY DEF Open
<1>2. QED BY <1>1, InsertedComparable

LEMMA DictOpenIs ==
    ASSUME input \in Inputs, NEW p \in DictOpen
    PROVE  /\ p \in Nat /\ p < ipIndex /\ p \in DictInserted
           /\ Comparable(ipIndex, p) /\ SameFour(ipIndex, p)
           /\ ipIndex - p <= DistanceMax
<1>1. /\ p \in DictInserted /\ SameFour(ipIndex, p) /\ ipIndex - p <= DistanceMax
      /\ input.mode = "ctx" /\ ipIndex - Start < DistanceMax
  BY DEF DictOpen
<1>2. QED BY <1>1, DictInsertedComparable

(***************************************************************************)
(* Every match the contract has lies at a position of one of the tables,   *)
(* and is no longer than it reaches.                                       *)
(***************************************************************************)
LEMMA WiderReaches ==
    ASSUME input \in Inputs, NEW n \in Nat, NEW m \in Wider(ipIndex, input.low, n)
    PROVE  \E p \in Nat : /\ m.off = ipIndex - p /\ Reach(p) > n
                          /\ Near(p) \/ p \in Open \/ p \in DictOpen
<1>1. PICK off \in Offsets(ipIndex) :
         m \in {[at |-> ipIndex - CountBack(ipIndex, ipIndex - off, input.low,
                                            LowLimit(ipIndex - off)),
                 len |-> l + CountBack(ipIndex, ipIndex - off, input.low,
                                       LowLimit(ipIndex - off)),
                 off |-> off] : l \in Lengths(ipIndex, off, input.low)}
  BY DEF Wider
<1> DEFINE p == ipIndex - off
           back == CountBack(ipIndex, p, input.low, LowLimit(p))
<1>2. PICK l \in Lengths(ipIndex, off, input.low) :
         m = [at |-> ipIndex - back, len |-> l + back, off |-> off]
  BY <1>1
<1>3. m.len > n
  BY DEF Wider
<1>4. ipIndex \in Nat /\ DistanceMax \in Nat
  BY SearchLimits
<1>5. off \in 1..ipIndex /\ Comparable(ipIndex, p) /\ SameFour(ipIndex, p)
  BY DEF Offsets
<1>6. p \in Nat /\ p < ipIndex /\ off = ipIndex - p
  BY <1>4, <1>5
<1>7. m.off = off /\ m.len = l + back
  BY <1>2
<1>8. l \in Int /\ l <= Full(p)
  <2>1. Full(p) \in Nat
    BY <1>5, <1>6, ReachIs
  <2>2. l \in MINMATCH..Full(p) \/ l = Full(p)
    BY DEF Lengths, Full
  <2>3. QED BY <2>1, <2>2 DEF MINMATCH
<1>9. Reach(p) = Full(p) + back
  <2>1. back \in Nat /\ (lookBack = 0 => back = 0)
    BY <1>6, NoWayBack
  <2>2. Candidate(p).len = Full(p) + (IF lookBack = 0 THEN 0 ELSE back)
    BY DEF Candidate, Full
  <2>3. Full(p) \in Nat
    BY <1>5, <1>6, ReachIs
  <2> HIDE DEF back
  <2>4. QED BY <2>1, <2>2, <2>3 DEF Reach
<1>10. back \in Nat /\ Full(p) \in Nat
  BY <1>5, <1>6, NoWayBack, ReachIs
<1>11. Reach(p) > n
  <2> HIDE DEF back, p
  <2>1. QED BY <1>3, <1>7, <1>8, <1>9, <1>10
<1>12. Near(p) \/ p \in Open \/ p \in DictOpen
  <2> HIDE DEF p
  <2>1. CASE input.mode = "ctx" /\ p < Start
    <3>1. /\ p + MINMATCH <= Start /\ ipIndex - Start < DistanceMax
          /\ ipIndex - p <= DistanceMax
      BY <1>5, <1>6, <2>1, SearchLimits DEF Comparable, MINMATCH
    <3>2. p \in 0..(Start - 1) /\ ~ Astride(p)
      BY <1>6, <2>1, <3>1, SearchLimits DEF Astride, MINMATCH
    <3>3. p \in DictInserted
      BY <3>2 DEF DictInserted
    <3>4. QED BY <1>5, <2>1, <3>1, <3>3 DEF DictOpen
  <2>2. CASE ~ (input.mode = "ctx" /\ p < Start)
    <3>1. ipIndex - p <= DistanceMax
      BY <1>5 DEF Comparable
    <3>2. lowLimit <= p /\ lowestMatchIndex <= p
      BY <1>4, <1>6, <2>2, <3>1, SearchLimits DEF lowLimit, lowestMatchIndex
    <3>3. ~ Astride(p)
      BY <1>5, <1>6, SearchLimits DEF Comparable, Astride, MINMATCH
    <3>4. p \in lowLimit..(ipIndex - 1)
      BY <1>4, <1>6, <3>2, SearchLimits
    <3>5. p \in Inserted
      BY <3>3, <3>4 DEF Inserted
    <3>6. QED BY <1>5, <3>2, <3>5 DEF Open
  <2>3. QED BY <2>1, <2>2
<1> HIDE DEF p, back
<1>13. m.off = ipIndex - p
  BY <1>6, <1>7
<1>14. QED BY <1>6, <1>11, <1>12, <1>13
-----------------------------------------------------------------------------
(* Positions in one bucket. *)
LEMMA OneBucket ==
    ASSUME NEW x, NEW y, NEW z, SameBucket(x, y)
    PROVE  /\ SameBucket(y, x)
           /\ SameBucket(y, z) => SameBucket(x, z)
           /\ SameBucket(x, z) => SameBucket(y, z)
BY DEF SameBucket, SameFour

LEMMA NewestOfBucket ==
    ASSUME input \in Inputs, NEW t, t \subseteq Nat, NEW p \in Nat
    PROVE  /\ \/ Newest(t, p) = -Base
              \/ Newest(t, p) \in t /\ SameBucket(p, Newest(t, p))
           /\ \A y \in t : y < p /\ SameBucket(p, y) => y <= Newest(t, p)
<1> DEFINE S == {q \in t : q < p /\ SameBucket(p, q)} \cup {-Base}
<1>1. Base \in Nat /\ Base > 0
  BY SearchLimits
<1>2. S \subseteq Int /\ S # {} /\ \A q \in S : q < p
  <2>1. -Base \in S /\ -Base \in Int /\ -Base < p
    BY <1>1
  <2>2. ASSUME NEW q \in S PROVE q \in Int /\ q < p
    BY <2>1
  <2>3. QED BY <2>1, <2>2
<1>3. \A q \in S : q = -Base \/ (q \in t /\ SameBucket(p, q))
  OBVIOUS
<1>4. \A y \in t : y < p /\ SameBucket(p, y) => y \in S
  OBVIOUS
<1>5. Newest(t, p) = Max(S)
  BY DEF Newest
<1> HIDE DEF S
<1>6. Max(S) \in S /\ \A q \in S : q <= Max(S)
  <2>1. p \in Int
    OBVIOUS
  <2>2. QED BY <1>2, <2>1, LargestBelow
<1>7. QED BY <1>3, <1>4, <1>5, <1>6

LEMMA NextInTable ==
    ASSUME input \in Inputs, NEW t, t \subseteq Nat, NEW p \in t
    PROVE  /\ DeltaIn(t, p) \in Nat /\ DeltaIn(t, p) >= 1
           /\ \A y \in t : y < p /\ SameBucket(p, y) => y <= p - DeltaIn(t, p)
           /\ \/ DeltaIn(t, p) = DistanceMax
              \/ p - DeltaIn(t, p) \in t /\ SameBucket(p, p - DeltaIn(t, p))
<1> DEFINE n == Newest(t, p)
           d == DeltaIn(t, p)
<1>1. /\ DistanceMax \in Nat /\ DistanceMax >= 1 /\ Base = DistanceMax + 1
      /\ p \in Nat
  BY SearchLimits
<1>2. d \in Nat /\ d >= 1
  <2>1. p \in Int
    BY <1>1
  <2>2. QED BY <2>1, DeltaIs
<1>3. n \in Int /\ n < p
  BY <1>1, NewestIs
<1>4. /\ n = -Base \/ (n \in t /\ SameBucket(p, n))
      /\ \A y \in t : y < p /\ SameBucket(p, y) => y <= n
  BY <1>1, NewestOfBucket
<1>5. d = Min({p - n, DistanceMax})
  BY DEF DeltaIn
<1> HIDE DEF n, d
<1>6. d \in {p - n, DistanceMax} /\ d <= p - n /\ d <= DistanceMax
  <2>1. p - n \in Int /\ DistanceMax \in Int
    BY <1>1, <1>3
  <2>2. QED BY <1>5, <2>1, OneOrOther
<1>7. ASSUME NEW y \in t, y < p, SameBucket(p, y) PROVE y <= p - d
  <2>1. y <= n /\ y \in Int
    BY <1>4, <1>7
  <2>2. QED BY <1>1, <1>2, <1>3, <1>6, <2>1
<1>8. d = DistanceMax \/ (p - d \in t /\ SameBucket(p, p - d))
  <2>1. CASE d = DistanceMax
    BY <2>1
  <2>2. CASE d # DistanceMax
    <3>1. d = p - n /\ p - d = n
      BY <1>1, <1>3, <1>6, <2>2
    <3>2. n # -Base
      BY <1>1, <1>3, <1>6, <3>1
    <3>3. QED BY <1>4, <3>1, <3>2
  <2>3. QED BY <2>1, <2>2
<1>9. QED BY <1>2, <1>7, <1>8 DEF d

(***************************************************************************)
(* The step to the next position of the chain c bytes behind passes over   *)
(* no position that has the same four bytes there.                         *)
(***************************************************************************)
LEMMA ChainPasses ==
    ASSUME input \in Inputs, NEW m \in Inserted, lowestMatchIndex <= m,
           NEW c \in Nat, c = 0 \/ input.swap, m + c < ipIndex,
           SameBucket(ipIndex + c, m + c),
           NEW q, q = m - Delta(m + c)
    PROVE  /\ OnChainOf(q, c)
           /\ \A y \in Inserted :
                  y < m /\ lowestMatchIndex <= y /\ SameBucket(ipIndex + c, y + c)
                      => y <= q
<1> DEFINE d == Delta(m + c)
<1>1. /\ Inserted \subseteq Nat /\ m \in Nat /\ m < ipIndex /\ ipIndex \in Nat
      /\ lowestMatchIndex \in Nat /\ ipIndex - DistanceMax <= lowestMatchIndex
      /\ DistanceMax \in Nat
  BY SearchLimits DEF Inserted
<1>2. ASSUME NEW y \in Inserted, lowestMatchIndex <= y, y + c < ipIndex
      PROVE  y + c \in Inserted
  <2>1. CASE c = 0
    <3>1. y + c = y
      BY <1>1, <1>2, <2>1
    <3>2. QED BY <1>2, <3>1
  <2>2. CASE input.swap
    <3>1. y + c \in Int /\ lowestMatchIndex <= y + c
      BY <1>1, <1>2
    <3>2. QED BY <1>2, <2>2, <3>1, AllInTable
  <2>3. QED BY <2>1, <2>2
<1>3. m + c \in Inserted
  BY <1>2
<1>4. /\ d \in Nat /\ d >= 1
      /\ \A y \in Inserted : y < m + c /\ SameBucket(m + c, y) => y <= (m + c) - d
      /\ d = DistanceMax \/ SameBucket(m + c, (m + c) - d)
  BY <1>1, <1>3, NextInTable DEF Delta
<1> HIDE DEF d
<1>5. q = m - d /\ q \in Int /\ q + c = (m + c) - d /\ q + c < ipIndex
  BY <1>1, <1>4 DEF d
<1>6. OnChainOf(q, c)
  <2> SUFFICES ASSUME lowestMatchIndex <= q
               PROVE  SameBucket(ipIndex + c, q + c)
    BY <1>5 DEF OnChainOf
  <2>1. d # DistanceMax
    BY <1>1, <1>5
  <2>2. SameBucket(m + c, q + c)
    BY <1>4, <1>5, <2>1
  <2>3. QED BY <2>2, OneBucket
<1>7. ASSUME NEW y \in Inserted, y < m, lowestMatchIndex <= y,
             SameBucket(ipIndex + c, y + c)
      PROVE  y <= q
  <2>1. y \in Nat /\ y + c < m + c /\ y + c < ipIndex
    BY <1>1, <1>7
  <2>2. y + c \in Inserted
    BY <1>2, <1>7, <2>1
  <2>3. SameBucket(m + c, y + c)
    BY <1>7, OneBucket
  <2>4. y + c <= (m + c) - d
    BY <1>4, <2>1, <2>2, <2>3
  <2>5. QED BY <1>1, <1>4, <1>5, <2>1, <2>4
<1>8. QED BY <1>6, <1>7

LEMMA OpenOnChain ==
    ASSUME input \in Inputs, NEW y \in Open, NEW c \in Nat,
           c = 0 \/ (input.swap /\ Reach(y) >= c + 4)
    PROVE  SameBucket(ipIndex + c, y + c)
<1>1. /\ y \in Nat /\ y < ipIndex /\ ipIndex \in Nat
      /\ Comparable(ipIndex, y) /\ SameFour(ipIndex, y)
  BY OpenIs, SearchLimits
<1>2. CASE c = 0
  <2>1. ipIndex + c = ipIndex /\ y + c = y
    BY <1>1, <1>2
  <2>2. QED BY <1>1, <2>1 DEF SameBucket
<1>3. CASE input.swap /\ Reach(y) >= c + 4
  <2>1. lookBack = 0
    BY <1>3, SearchAssumption, SearchLimits DEF SearchAssumption, ipIndex
  <2>2. Full(y) \in Nat /\ Full(y) >= c + 4
    BY <1>1, <1>3, <2>1, ReachIs
  <2>3. \A k \in 0..(Full(y) - 1) : At(ipIndex + k) = At(y + k)
    BY <1>1, ReachIs
  <2>4. ASSUME NEW k \in 0..3 PROVE At((ipIndex + c) + k) = At((y + c) + k)
    <3>1. c + k \in 0..(Full(y) - 1)
      BY <2>2
    <3>2. ipIndex + (c + k) = (ipIndex + c) + k /\ y + (c + k) = (y + c) + k
      BY <1>1
    <3>3. At(ipIndex + (c + k)) = At(y + (c + k))
      BY <2>3, <3>1
    <3>4. QED BY <3>2, <3>3
  <2>5. QED BY <2>4 DEF SameBucket, SameFour
<1>4. QED BY <1>2, <1>3
-----------------------------------------------------------------------------
(***************************************************************************)
(* What is compared at an open position: the two bytes asked for first do  *)
(* not keep a longer match from being seen.                                *)
(***************************************************************************)
LEMMA OpenIsTaken ==
    ASSUME SearchInv, matchIndex \in Open
    PROVE  Reach(matchIndex) <= Better.len
<1>1. /\ input \in Inputs /\ InContract(best) /\ best.len \in Nat
      /\ best.len >= input.longest
  BY ContractLength DEF SearchInv, SearchTypeOK
<1>2. /\ matchIndex \in Nat /\ matchIndex < ipIndex
      /\ Comparable(ipIndex, matchIndex) /\ SameFour(ipIndex, matchIndex)
      /\ ~ Near(matchIndex)
  BY <1>1, OpenIs
<1>3. /\ Reach(matchIndex) \in Nat /\ Full(matchIndex) \in Nat
      /\ Reach(matchIndex) <= Full(matchIndex) + lookBack
      /\ \A k \in 0..(Full(matchIndex) - 1) : At(ipIndex + k) = At(matchIndex + k)
  BY <1>1, <1>2, ReachIs
<1>4. /\ input.low \in Nat /\ ipIndex \in Nat /\ lookBack = ipIndex - input.low
      /\ lookBack \in Nat /\ input.longest > lookBack /\ input.longest \in Nat
  BY <1>1, SearchLimits, SearchAssumption DEF SearchAssumption, ipIndex
<1>5. CASE Reach(matchIndex) > best.len
  <2>1. ASSUME NEW k \in 0..1
        PROVE  At(input.low + best.len - 1 + k) = At(matchIndex - lookBack + best.len - 1 + k)
    <3> DEFINE j == best.len - 1 + k - lookBack
    <3>1. j \in 0..(Full(matchIndex) - 1)
      BY <1>1, <1>3, <1>4, <1>5
    <3>2. At(ipIndex + j) = At(matchIndex + j)
      <4> HIDE DEF j
      <4>1. QED BY <1>3, <3>1
    <3>3. /\ ipIndex + j = input.low + best.len - 1 + k
          /\ matchIndex + j = matchIndex - lookBack + best.len - 1 + k
      BY <1>1, <1>2, <1>4
    <3> HIDE DEF j
    <3>4. QED BY <3>2, <3>3
  <2>2. LooksLonger(matchIndex)
    BY <2>1 DEF LooksLonger
  <2>3. Matches(matchIndex)
    BY <1>2, <2>2 DEF Matches, Comparing, Near
  <2>4. Better = Candidate(matchIndex)
    BY <1>5, <2>3 DEF Better, Reach
  <2>5. QED BY <1>3, <2>4 DEF Reach
<1>6. CASE ~ (Reach(matchIndex) > best.len)
  <2>1. Better.len >= best.len /\ Better.len \in Nat
    <3>1. Better = best \/ (Better = Candidate(matchIndex) /\ Candidate(matchIndex).len > best.len)
      BY DEF Better
    <3>2. Better = best
      BY <1>6, <3>1 DEF Reach
    <3>3. QED BY <1>1, <3>2
  <2>2. QED BY <1>1, <1>3, <1>6, <2>1
<1>7. QED BY <1>5, <1>6

(***************************************************************************)
(* What is still to come after the candidate lies in front of it: all of   *)
(* it must be where the search goes next, or be no longer than the match   *)
(* that is taken.                                                          *)
(***************************************************************************)
LEMMA StillPending ==
    ASSUME SearchInv, Stays, Pending(matchIndex, best.len),
           NEW n \in Nat, n >= Better.len, NEW q \in Int,
           \A y \in Open : y < matchIndex /\ Reach(y) > n =>
               \E z \in Open : z <= q /\ Reach(z) >= Reach(y)
    PROVE  Pending(q, n)
<1>1. /\ input \in Inputs /\ phase \in {"chain", "swap"} /\ lowestMatchIndex <= matchIndex
      /\ matchIndex \in Int
  BY StaysWhere DEF SearchInv, SearchTypeOK
<1>2. best.len \in Nat /\ Better.len \in Nat /\ Better.len >= best.len
  <2>1. InContract(best) /\ InContract(Better) /\ Better.len >= best.len
    BY <1>1, BetterInContract DEF SearchInv
  <2>2. QED BY <1>1, <2>1, ContractLength
<1>3. \A y \in Open : y \in Nat /\ Reach(y) \in Nat
  BY <1>1, OpenIs, ReachIs
<1>4. ASSUME NEW p \in Open, Reach(p) > n
      PROVE  \E z \in Open : z <= q /\ Reach(z) >= Reach(p)
  <2>1. Reach(p) > best.len
    BY <1>2, <1>3, <1>4
  <2>2. PICK y \in Open : y <= matchIndex /\ Reach(y) >= Reach(p)
    BY <2>1 DEF Pending
  <2>3. Reach(y) > n /\ Reach(y) > Better.len
    BY <1>2, <1>3, <1>4, <2>2
  <2>4. y # matchIndex
    <3>1. CASE y = matchIndex
      <4>1. Reach(y) <= Better.len
        BY <3>1, OpenIsTaken
      <4>2. QED BY <1>2, <1>3, <2>3, <4>1
    <3>2. QED BY <3>1
  <2>5. y < matchIndex
    BY <1>1, <1>3, <2>2, <2>4
  <2>6. PICK z \in Open : z <= q /\ Reach(z) >= Reach(y)
    BY <2>3, <2>5
  <2>7. Reach(z) >= Reach(p)
    BY <1>3, <2>2, <2>6
  <2>8. QED BY <2>6, <2>7
<1>5. QED BY <1>4 DEF Pending

(* Back on a chain. *)
LEMMA BackFollowing ==
    ASSUME input' = input, phase' = "chain", matchChainPos' = matchChainPos,
           NEW STATE q, matchIndex' = q, NEW STATE b, best' = b,
           (input.pattern => lookBack = 0) => Following(q, matchChainPos, b.len)
    PROVE  FindInv'
<1>1. /\ (input.pattern => lookBack = 0)' = (input.pattern => lookBack = 0)
      /\ \A x, c, n : Following(x, c, n)' = Following(x, c, n)
  BY FindStays
<1>2. Following(matchIndex, matchChainPos, best.len)'
        = Following(q, matchChainPos, b.len)
  BY <1>1
<1>3. QED BY <1>1, <1>2 DEF FindInv

LEMMA FindInitInv ==
    ASSUME SearchInit
    PROVE  FindInv
<1>1. /\ input \in Inputs /\ phase = "chain" /\ matchIndex = Newest(Inserted, ipIndex)
      /\ matchChainPos = 0
  BY DEF SearchInit
<1>2. Inserted \subseteq Nat /\ ipIndex \in Nat /\ \A y \in Inserted : y < ipIndex
  BY <1>1, SearchLimits DEF Inserted
<1>3. /\ matchIndex \in Int /\ matchIndex < ipIndex
      /\ matchIndex = -Base \/ SameBucket(ipIndex, matchIndex)
      /\ \A y \in Inserted : y < ipIndex /\ SameBucket(ipIndex, y) => y <= matchIndex
  BY <1>1, <1>2, NewestIs, NewestOfBucket
<1>4. Pending(matchIndex, best.len)
  <2>1. ASSUME NEW p \in Open PROVE p <= matchIndex /\ Reach(p) >= Reach(p)
    <3>1. p \in Inserted /\ SameBucket(ipIndex, p) /\ Reach(p) \in Nat
      BY <1>1, OpenIs, ReachIs DEF SameBucket
    <3>2. QED BY <1>2, <1>3, <3>1
  <2>2. QED BY <2>1 DEF Pending
<1>5. OnChainOf(matchIndex, matchChainPos)
  <2>1. lowestMatchIndex <= matchIndex => matchIndex # -Base
    BY <1>1, <1>3, SearchLimits
  <2>2. matchIndex + matchChainPos = matchIndex /\ ipIndex + matchChainPos = ipIndex
    BY <1>1, <1>2, <1>3
  <2>3. QED BY <1>3, <2>1, <2>2 DEF OnChainOf
<1>6. Following(matchIndex, matchChainPos, best.len)
  BY <1>1, <1>4, <1>5 DEF Following
<1>7. QED BY <1>1, <1>6 DEF FindInv

LEMMA FindBeginSwap ==
    ASSUME SearchInv, FindInv, BeginSwap
    PROVE  FindInv'
<1> SUFFICES ASSUME input.pattern => lookBack = 0
             PROVE  /\ Following(matchIndex, matchChainPos, best.len)'
                    /\ Swapping(matchIndex, matchChainPos, best.len, distanceToNextMatch)'
  <2>1. input' = input /\ phase' = "swap"
    BY DEF BeginSwap
  <2>2. (input.pattern => lookBack = 0)' = (input.pattern => lookBack = 0)
    BY <2>1, FindStays
  <2>3. QED BY <2>1, <2>2 DEF FindInv
<1>1. /\ input' = input /\ phase = "chain" /\ best' = Better
      /\ matchIndex' = matchIndex /\ matchChainPos' = matchChainPos
      /\ distanceToNextMatch' = 1 /\ lowestMatchIndex <= matchIndex
      /\ input.swap /\ Length = Better.len /\ matchIndex + Better.len <= ipIndex
  BY DEF BeginSwap, OnChain, Swaps
<1>2. /\ input \in Inputs /\ matchIndex \in Int /\ matchChainPos \in Nat
      /\ matchIndex \in Inserted
  BY <1>1 DEF SearchInv, SearchTypeOK, InTable
<1>3. /\ best.len \in Nat /\ Better.len \in Nat /\ Better.len >= best.len
      /\ Better.len > 0
  <2>1. InContract(best) /\ InContract(Better) /\ Better.len >= best.len
    BY <1>1, BetterInContract DEF SearchInv
  <2>2. /\ best.len \in Nat /\ Better.len \in Nat
        /\ Better.len >= input.longest /\ best.len >= input.longest
    BY <1>2, <2>1, ContractLength
  <2>3. input.longest > 0 /\ input.longest \in Nat
    <3>1. input.longest > lookBack
      BY <1>2, SearchAssumption DEF SearchAssumption, lookBack
    <3>2. QED BY <1>2, <3>1, SearchLimits
  <2>4. QED BY <2>1, <2>2, <2>3
<1>4. Following(matchIndex, matchChainPos, best.len)
  BY <1>1 DEF FindInv
<1>5. Following(matchIndex, matchChainPos, Better.len)
  <2>1. \A y \in Open : Reach(y) \in Nat
    BY <1>2, OpenIs, ReachIs
  <2>2. Pending(matchIndex, Better.len)
    BY <1>3, <1>4, <2>1 DEF Following, Pending
  <2>3. matchChainPos = 0 \/ (input.swap /\ matchChainPos + MINMATCH <= Better.len)
    BY <1>2, <1>3, <1>4 DEF Following, MINMATCH
  <2>4. QED BY <1>4, <2>2, <2>3 DEF Following
<1>6. Swapping(matchIndex, matchChainPos, Better.len, 1)
  <2>1. Matches(matchIndex) /\ Candidate(matchIndex).len = Better.len
    BY <1>1, <1>3 DEF Length
  <2>2. QED BY <1>1, <2>1 DEF Swapping, Reach, Matches
<1>7. /\ \A x, c, n : Following(x, c, n)' = Following(x, c, n)
      /\ \A x, c, n, d : Swapping(x, c, n, d)' = Swapping(x, c, n, d)
  BY <1>1, FindStays
<1>8. QED BY <1>1, <1>5, <1>6, <1>7

LEMMA FindTryPosition ==
    ASSUME SearchInv, FindInv, TryPosition
    PROVE  FindInv'
<1> SUFFICES ASSUME input.pattern => lookBack = 0
             PROVE  /\ Following(matchIndex, matchChainPos, best.len)'
                    /\ Swapping(matchIndex, matchChainPos, best.len, distanceToNextMatch)'
  <2>1. input' = input /\ phase' = "swap"
    BY DEF TryPosition
  <2>2. (input.pattern => lookBack = 0)' = (input.pattern => lookBack = 0)
    BY <2>1, FindStays
  <2>3. QED BY <2>1, <2>2 DEF FindInv
<1>1. /\ input' = input /\ phase = "swap" /\ best' = best /\ matchIndex' = matchIndex
      /\ pos <= best.len - MINMATCH
  BY DEF TryPosition
<1>2. \/ distanceToNextMatch' = Delta(matchIndex + pos) /\ matchChainPos' = pos
      \/ distanceToNextMatch' = distanceToNextMatch /\ matchChainPos' = matchChainPos
  BY DEF TryPosition
<1>3. /\ Following(matchIndex, matchChainPos, best.len)
      /\ Swapping(matchIndex, matchChainPos, best.len, distanceToNextMatch)
  BY <1>1 DEF FindInv
<1>4. /\ \A x, c, n : Following(x, c, n)' = Following(x, c, n)
      /\ \A x, c, n, d : Swapping(x, c, n, d)' = Swapping(x, c, n, d)
  BY <1>1, FindStays
<1>5. CASE distanceToNextMatch' = distanceToNextMatch /\ matchChainPos' = matchChainPos
  BY <1>1, <1>3, <1>4, <1>5
<1>6. CASE distanceToNextMatch' = Delta(matchIndex + pos) /\ matchChainPos' = pos
  <2>1. /\ input \in Inputs /\ matchIndex \in Inserted /\ pos \in Nat
        /\ lowestMatchIndex <= matchIndex /\ input.swap /\ InContract(best)
    BY <1>1 DEF SearchInv, SearchTypeOK, InTable
  <2>2. /\ matchIndex \in Nat /\ matchIndex < ipIndex /\ ipIndex \in Nat
        /\ Comparable(ipIndex, matchIndex) /\ best.len \in Nat
        /\ SameFour(ipIndex, matchIndex) /\ Reach(matchIndex) = best.len
        /\ matchIndex + best.len <= ipIndex
    BY <1>3, <2>1, InsertedComparable, ContractLength, SearchLimits DEF Swapping
  <2>3. lookBack = 0
    BY <2>1, SearchAssumption, SearchLimits DEF SearchAssumption, ipIndex
  <2>4. /\ Full(matchIndex) = best.len
        /\ \A k \in 0..(Full(matchIndex) - 1) : At(ipIndex + k) = At(matchIndex + k)
    BY <2>1, <2>2, <2>3, ReachIs
  <2>5. pos + 4 <= best.len
    BY <1>1, <2>1, <2>2 DEF MINMATCH
  <2>6. OnChainOf(matchIndex, pos)
    <3>1. matchIndex + pos < ipIndex
      BY <2>1, <2>2, <2>5
    <3>2. ASSUME NEW k \in 0..3
          PROVE  At((ipIndex + pos) + k) = At((matchIndex + pos) + k)
      <4>1. pos + k \in 0..(Full(matchIndex) - 1)
        BY <2>1, <2>2, <2>4, <2>5
      <4>2. /\ ipIndex + (pos + k) = (ipIndex + pos) + k
            /\ matchIndex + (pos + k) = (matchIndex + pos) + k
        BY <2>1, <2>2
      <4>3. At(ipIndex + (pos + k)) = At(matchIndex + (pos + k))
        BY <2>4, <4>1
      <4>4. QED BY <4>2, <4>3
    <3>3. QED BY <3>1, <3>2 DEF OnChainOf, SameBucket, SameFour
  <2>7. Following(matchIndex, pos, best.len)
    BY <1>3, <2>1, <2>5, <2>6 DEF Following, MINMATCH
  <2>8. Swapping(matchIndex, pos, best.len, Delta(matchIndex + pos))
    BY <1>3 DEF Swapping
  <2>9. QED BY <1>1, <1>4, <1>6, <2>7, <2>8
<1>7. QED BY <1>2, <1>5, <1>6

LEMMA FindSwapChain ==
    ASSUME SearchInv, FindInv, SwapChain
    PROVE  FindInv'
<1> DEFINE c == matchChainPos
           q == matchIndex - distanceToNextMatch
<1>1. /\ phase = "swap" /\ input' = input /\ phase' = "chain" /\ best' = best
      /\ matchIndex' = q /\ matchChainPos' = matchChainPos
      /\ distanceToNextMatch > 1
  BY DEF SwapChain, AllTried
<1>2. /\ input \in Inputs /\ matchIndex \in Inserted /\ c \in Nat
      /\ lowestMatchIndex <= matchIndex /\ input.swap /\ InContract(best)
  BY <1>1 DEF SearchInv, SearchTypeOK, InTable
<1>3. ASSUME input.pattern => lookBack = 0 PROVE Following(q, c, best.len)
  <2>1. /\ Following(matchIndex, c, best.len)
        /\ Swapping(matchIndex, c, best.len, distanceToNextMatch)
    BY <1>1, <1>3 DEF FindInv
  <2>2. distanceToNextMatch = Delta(matchIndex + c) /\ Reach(matchIndex) = best.len
    BY <1>1, <2>1 DEF Swapping
  <2>3. matchIndex + c < ipIndex /\ SameBucket(ipIndex + c, matchIndex + c)
    BY <1>2, <2>1 DEF Following, OnChainOf
  <2>4. /\ OnChainOf(q, c)
        /\ \A y \in Inserted :
               y < matchIndex /\ lowestMatchIndex <= y /\ SameBucket(ipIndex + c, y + c)
                   => y <= q
    BY <1>2, <2>2, <2>3, ChainPasses
  <2>5. matchIndex \in Nat /\ best.len \in Nat
    BY <1>2, InsertedComparable, ContractLength
  <2>6. c = 0 \/ (input.swap /\ c + 4 <= best.len)
    BY <2>1 DEF Following, MINMATCH
  <2>7. ASSUME NEW p \in Open, Reach(p) > best.len
        PROVE  \E y \in Open : y <= q /\ Reach(y) >= Reach(p)
    <3>1. PICK y \in Open : y <= matchIndex /\ Reach(y) >= Reach(p)
      BY <2>1, <2>7 DEF Following, Pending
    <3>2. /\ y \in Nat /\ y \in Inserted /\ lowestMatchIndex <= y
          /\ Reach(y) \in Nat /\ Reach(p) \in Nat
      BY <1>2, OpenIs, ReachIs
    <3>3. y < matchIndex /\ (c = 0 \/ Reach(y) >= c + 4)
      <4>1. Reach(y) > best.len
        BY <2>5, <2>7, <3>1, <3>2
      <4>2. y # matchIndex
        BY <2>2, <2>5, <3>2, <4>1
      <4>3. y < matchIndex
        BY <2>5, <3>1, <3>2, <4>2
      <4>4. CASE c + 4 <= best.len
        <5>1. Reach(y) >= c + 4
          BY <1>2, <2>5, <3>2, <4>1, <4>4
        <5>2. QED BY <4>3, <5>1
      <4>5. QED BY <2>6, <4>3, <4>4
    <3>4. SameBucket(ipIndex + c, y + c)
      BY <1>2, <3>3, OpenOnChain
    <3>5. y <= q
      BY <2>4, <3>2, <3>3, <3>4
    <3>6. QED BY <3>1, <3>5
  <2>8. Pending(q, best.len)
    BY <2>7 DEF Pending
  <2>9. QED BY <2>1, <2>4, <2>8 DEF Following
<1> HIDE DEF c, q
<1>4. (input.pattern => lookBack = 0) => Following(q, matchChainPos, best.len)
  BY <1>3 DEF c
<1>5. QED BY <1>1, <1>4, BackFollowing

LEMMA FindFollowChain ==
    ASSUME SearchInv, FindInv, FollowChain
    PROVE  FindInv'
<1> DEFINE c == matchChainPos
           q == matchIndex - Delta(matchIndex + c)
<1>1. /\ Stays /\ input' = input /\ phase' = "chain" /\ best' = Better
      /\ matchIndex' = q /\ matchChainPos' = matchChainPos
  BY DEF FollowChain
<1>2. /\ phase \in {"chain", "swap"} /\ lowestMatchIndex <= matchIndex
      /\ InContract(Better) /\ matchIndex \in Inserted
  BY <1>1, StaysWhere
<1>3. input \in Inputs /\ c \in Nat /\ matchIndex \in Int /\ InContract(best)
  BY DEF SearchInv, SearchTypeOK
<1>4. ASSUME input.pattern => lookBack = 0 PROVE Following(q, c, Better.len)
  <2>1. Following(matchIndex, c, best.len)
    BY <1>2, <1>4 DEF FindInv
  <2>2. c = 0 \/ (input.swap /\ c + 4 <= best.len)
    BY <2>1 DEF Following, MINMATCH
  <2>3. matchIndex + c < ipIndex /\ SameBucket(ipIndex + c, matchIndex + c)
    BY <1>2, <2>1 DEF Following, OnChainOf
  <2>4. /\ OnChainOf(q, c)
        /\ \A y \in Inserted :
               y < matchIndex /\ lowestMatchIndex <= y /\ SameBucket(ipIndex + c, y + c)
                   => y <= q
    BY <1>2, <1>3, <2>2, <2>3, ChainPasses
  <2>5. Better.len \in Nat /\ best.len \in Nat /\ Better.len >= best.len
    BY <1>2, <1>3, BetterInContract, ContractLength
  <2>6. q \in Int
    <3>1. Inserted \subseteq Nat /\ matchIndex + c \in Int
      BY <1>3, SearchLimits DEF Inserted
    <3>2. Delta(matchIndex + c) \in Nat
      BY <1>3, <3>1, DeltaIs DEF Delta
    <3>3. QED BY <1>3, <3>2
  <2>7. ASSUME NEW y \in Open, y < matchIndex, Reach(y) > Better.len
        PROVE  \E z \in Open : z <= q /\ Reach(z) >= Reach(y)
    <3>1. /\ y \in Nat /\ y \in Inserted /\ lowestMatchIndex <= y /\ Reach(y) \in Nat
      BY <1>3, OpenIs, ReachIs
    <3>2. c = 0 \/ (input.swap /\ Reach(y) >= c + 4)
      BY <1>3, <2>2, <2>5, <2>7, <3>1
    <3>3. SameBucket(ipIndex + c, y + c)
      BY <1>3, <3>2, OpenOnChain
    <3>4. y <= q
      BY <2>4, <2>7, <3>1, <3>3
    <3>5. Reach(y) >= Reach(y)
      BY <3>1
    <3>6. QED BY <3>4, <3>5
  <2>8. Pending(q, Better.len)
    <3>1. Pending(matchIndex, best.len) /\ Better.len >= Better.len
      BY <2>1, <2>5 DEF Following
    <3> HIDE DEF q
    <3>2. QED BY <1>1, <2>5, <2>6, <2>7, <3>1, StillPending
  <2>9. c = 0 \/ (input.swap /\ c + MINMATCH <= Better.len)
    BY <1>3, <2>2, <2>5 DEF MINMATCH
  <2>10. QED BY <2>4, <2>8, <2>9 DEF Following
<1> HIDE DEF c, q
<1>5. (input.pattern => lookBack = 0) => Following(q, matchChainPos, Better.len)
  BY <1>4 DEF c
<1>6. QED BY <1>1, <1>5, BackFollowing

(* A jump does not lead behind the candidate. *)
LEMMA JumpInFront ==
    ASSUME input \in Inputs, matchCandidateIdx \in Nat,
           ProtectDictEnd(matchCandidateIdx),
           NEW q \in Int, q <= matchCandidateIdx
    PROVE  q <= Protected(q) /\ Protected(q) <= matchCandidateIdx
<1>1. dictLimit \in Nat
  BY SearchLimits
<1>2. matchCandidateIdx >= dictLimit \/ matchCandidateIdx + 4 <= dictLimit
  BY <1>1 DEF ProtectDictEnd
<1>3. CASE ProtectDictEnd(q)
  BY <1>3 DEF Protected
<1>4. CASE ~ ProtectDictEnd(q)
  <2>1. q < dictLimit /\ q + 4 > dictLimit
    BY <1>1, <1>4 DEF ProtectDictEnd
  <2>2. Protected(q) = dictLimit
    BY <1>4 DEF Protected
  <2>3. QED BY <1>1, <1>2, <2>1, <2>2
<1>5. QED BY <1>3, <1>4

(***************************************************************************)
(* A match in the run of the candidate reaches to the end of its run, or   *)
(* as far as the run that is searched for, and if the two do not end       *)
(* together, no further.                                                   *)
(***************************************************************************)
RunEnd == matchCandidateIdx + forwardPatternLength

LEMMA RunReaches ==
    ASSUME SearchTypeOK, InTable, phase \in {"chain", "swap"},
           lowestMatchIndex <= matchIndex, InPattern,
           NEW y \in Inserted, Begin <= y, y <= matchCandidateIdx
    PROVE  /\ y \in Nat /\ y < ipIndex /\ lowestMatchIndex <= y
           /\ Comparable(ipIndex, y) /\ SameFour(ipIndex, y)
           /\ RunEnd \in Nat /\ srcPatternLength \in Nat /\ RunEnd - y >= 4
           /\ RunEnd - y <= Full(y) \/ srcPatternLength <= Full(y)
           /\ RunEnd - y < srcPatternLength => Full(y) <= RunEnd - y
           /\ RunEnd - y > srcPatternLength => Full(y) <= srcPatternLength
<1> DEFINE c == matchCandidateIdx
           r == srcPatternLength
           f == forwardPatternLength
           e == RunEnd
           b == At(ipIndex)
<1>1. /\ input \in Inputs /\ ipIndex \in Nat /\ matchlimit \in Int
      /\ lowestMatchIndex \in Nat /\ lowLimit <= lowestMatchIndex
      /\ input.mode = "ctx" => lowLimit = Start
      /\ Start \in Nat
  BY SearchLimits DEF SearchTypeOK
<1>2. /\ c \in Nat /\ c < ipIndex /\ Begin \in Nat /\ lowestMatchIndex <= Begin
      /\ f \in Nat /\ f >= 4 /\ r \in Nat /\ r >= 4 /\ ipIndex + r <= matchlimit
      /\ segment \in Nat /\ Begin + segment = c + f
  BY RunAround
<1>3. /\ \A k \in 0..(segment - 1) : At(Begin + k) = b
      /\ \A k \in 0..(r - 1) : At(ipIndex + k) = b
  BY RunAround
<1>4. e = c + f
  BY DEF RunEnd
<1>5. e = matchlimit \/ At(e) # b
  <2>1. c <= matchlimit
    BY <1>1, <1>2
  <2>2. f \in 0..(matchlimit - c) /\ (f = matchlimit - c \/ At(c + f) # b)
    BY <1>1, <1>2, <2>1, RunIs DEF forwardPatternLength
  <2> HIDE DEF c, f, e, b
  <2>3. QED BY <1>1, <1>2, <1>4, <2>2
<1>6. ipIndex + r = matchlimit \/ At(ipIndex + r) # b
  <2>1. ipIndex <= matchlimit
    BY <1>1, SearchLimits
  <2>2. r = matchlimit - ipIndex \/ At(ipIndex + r) # b
    BY <1>1, <2>1, RunIs DEF srcPatternLength
  <2> HIDE DEF r, b
  <2>3. QED BY <1>1, <1>2, <2>2
<1>7. y \in Nat /\ y < ipIndex /\ lowestMatchIndex <= y
  BY <1>1, <1>2, SearchLimits DEF Inserted
<1>8. Comparable(ipIndex, y)
  BY <1>1, <1>7, InsertedComparable
<1>9. HighLimit(ipIndex, y) = matchlimit
  <2>1. input.mode = "ctx" => Start <= y
    BY <1>1, <1>7, SearchLimits
  <2>2. QED BY <1>1, <1>7, <2>1 DEF HighLimit
<1> HIDE DEF c, r, f, e, b
<1>10. e \in Nat /\ e - y \in Nat /\ e - y >= 4
  BY <1>2, <1>4, <1>7 DEF c
<1>11. ASSUME NEW k \in Nat, y + k < e PROVE At(y + k) = b
  <2>1. (y + k) - Begin \in 0..(segment - 1) /\ Begin + ((y + k) - Begin) = y + k
    BY <1>2, <1>4, <1>7, <1>11
  <2>2. At(Begin + ((y + k) - Begin)) = b
    BY <1>3, <2>1
  <2>3. QED BY <2>1, <2>2
<1>12. SameFour(ipIndex, y)
  <2>1. ASSUME NEW k \in 0..3 PROVE At(ipIndex + k) = At(y + k)
    <3>1. k \in Nat /\ y + k < e /\ k \in 0..(r - 1)
      BY <1>2, <1>7, <1>10
    <3>2. QED BY <1>3, <1>11, <3>1
  <2>2. QED BY <2>1 DEF SameFour
<1> DEFINE n == Full(y)
<1>13. /\ n \in Nat /\ ipIndex + n <= matchlimit
       /\ ipIndex + n = matchlimit \/ At(ipIndex + n) # At(y + n)
       /\ \A k \in 0..(n - 1) : At(ipIndex + k) = At(y + k)
  BY <1>1, <1>7, <1>8, <1>9, <1>12, ReachIs
<1> HIDE DEF n
<1>14. e - y <= n \/ r <= n
  <2> SUFFICES ASSUME n < e - y, n < r PROVE FALSE
    BY <1>2, <1>10, <1>13
  <2>1. At(y + n) = b
    <3>1. y + n < e
      BY <1>7, <1>10, <1>13
    <3>2. QED BY <1>11, <1>13, <3>1
  <2>2. At(ipIndex + n) = b
    <3>1. n \in 0..(r - 1)
      BY <1>2, <1>13
    <3>2. QED BY <1>3, <3>1
  <2>3. ipIndex + n # matchlimit
    BY <1>1, <1>2, <1>13
  <2>4. QED BY <1>13, <2>1, <2>2, <2>3
<1>15. ASSUME e - y < r PROVE n <= e - y
  <2> SUFFICES ASSUME n > e - y PROVE FALSE
    BY <1>10, <1>13
  <2>1. e - y \in 0..(n - 1) /\ e - y \in 0..(r - 1) /\ y + (e - y) = e
    BY <1>2, <1>7, <1>10, <1>13, <1>15
  <2>2. At(ipIndex + (e - y)) = At(e)
    BY <1>13, <2>1
  <2>3. At(ipIndex + (e - y)) = b
    BY <1>3, <2>1
  <2>4. e # matchlimit
    BY <1>1, <1>2, <1>7, <1>10, <1>15
  <2>5. QED BY <1>5, <2>2, <2>3, <2>4
<1>16. ASSUME e - y > r PROVE n <= r
  <2> SUFFICES ASSUME n > r PROVE FALSE
    BY <1>2, <1>13
  <2>1. r \in 0..(n - 1)
    BY <1>2, <1>13
  <2>2. At(ipIndex + r) = At(y + r)
    BY <1>13, <2>1
  <2>3. At(y + r) = b
    <3>1. y + r < e
      BY <1>2, <1>7, <1>10, <1>16
    <3>2. QED BY <1>2, <1>11, <3>1
  <2>4. ipIndex + r # matchlimit
    BY <1>1, <1>2, <1>13
  <2>5. QED BY <1>6, <2>2, <2>3, <2>4
<1>17. QED BY <1>2, <1>7, <1>8, <1>10, <1>12, <1>14, <1>15, <1>16 DEF e, r, n

(***************************************************************************)
(* A jump to P in the run of the candidate: the match at P is longer than  *)
(* any that begins between P and the candidate, if no run there ends where *)
(* the one that is searched for does.                                      *)
(***************************************************************************)
LEMMA JumpFollows ==
    ASSUME SearchInv, FindInv, input.pattern => lookBack = 0,
           Stays, InPattern, NEW P \in Inserted,
           Begin <= P, P <= matchCandidateIdx,
           \A y \in Int : P < y /\ y <= matchCandidateIdx
                              => RunEnd - y # srcPatternLength
    PROVE  Following(P, matchChainPos, Better.len)
<1>1. /\ phase \in {"chain", "swap"} /\ lowestMatchIndex <= matchIndex
      /\ InContract(Better) /\ matchIndex \in Inserted
  BY StaysWhere
<1>2. /\ SearchTypeOK /\ InTable /\ input \in Inputs /\ matchIndex \in Int
      /\ matchCandidateIdx = matchIndex - 1 /\ ipIndex \in Nat
  BY SearchLimits DEF SearchInv, SearchTypeOK, matchCandidateIdx
<1>3. matchChainPos = 0 /\ lookBack = 0
  BY DEF InPattern
<1>4. /\ P \in Nat /\ P < ipIndex /\ lowestMatchIndex <= P
      /\ Comparable(ipIndex, P) /\ SameFour(ipIndex, P)
      /\ RunEnd \in Nat /\ srcPatternLength \in Nat
      /\ RunEnd - P <= Full(P) \/ srcPatternLength <= Full(P)
  BY <1>1, <1>2, RunReaches
<1>5. Reach(P) = Full(P) /\ Full(P) \in Nat
  BY <1>2, <1>3, <1>4, ReachIs
<1>6. Pending(matchIndex, best.len)
  BY <1>1 DEF FindInv, Following
<1>7. Better.len \in Nat
  BY <1>1, <1>2, ContractLength
<1>8. ASSUME NEW y \in Open, y < matchIndex, Reach(y) > Better.len
      PROVE  \E z \in Open : z <= P /\ Reach(z) >= Reach(y)
  <2>1. /\ y \in Nat /\ y < ipIndex /\ y \in Inserted /\ ~ Near(y)
        /\ Reach(y) = Full(y) /\ Full(y) \in Nat
    BY <1>2, <1>3, OpenIs, ReachIs
  <2>2. CASE y <= P
    <3>1. Reach(y) >= Reach(y)
      BY <2>1
    <3>2. QED BY <2>2, <3>1
  <2>3. CASE P < y
    <3>1. y <= matchCandidateIdx
      BY <1>2, <1>8, <2>1
    <3>2. Begin <= y
      <4>1. Begin \in Nat
        BY <1>1, <1>2, RunAround
      <4>2. QED BY <1>4, <2>1, <2>3, <4>1
    <3>3. /\ RunEnd - y < srcPatternLength => Full(y) <= RunEnd - y
          /\ RunEnd - y > srcPatternLength => Full(y) <= srcPatternLength
      BY <1>1, <1>2, <2>1, <3>1, <3>2, RunReaches
    <3>4. RunEnd - y # srcPatternLength
      BY <2>1, <2>3, <3>1
    <3>5. Reach(P) >= Reach(y)
      BY <1>4, <1>5, <2>1, <2>3, <3>3, <3>4
    <3>6. ~ Near(P)
      BY <1>2, <1>4, <2>1, <2>3 DEF Near
    <3>7. P \in Open
      BY <1>4, <3>6 DEF Open
    <3>8. P <= P
      BY <1>4
    <3>9. QED BY <3>5, <3>7, <3>8
  <2>4. QED BY <1>4, <2>1, <2>2, <2>3
<1>9. Pending(P, Better.len)
  <2>1. Better.len >= Better.len /\ P \in Int
    BY <1>4, <1>7
  <2>2. QED BY <1>6, <1>7, <1>8, <2>1, StillPending
<1>10. OnChainOf(P, matchChainPos)
  <2>1. P + 0 = P /\ ipIndex + 0 = ipIndex
    BY <1>2, <1>4
  <2>2. QED BY <1>3, <1>4, <2>1 DEF OnChainOf, SameBucket
<1>11. QED BY <1>3, <1>9, <1>10 DEF Following

LEMMA FindJumpToEnd ==
    ASSUME SearchInv, FindInv, JumpToEnd
    PROVE  FindInv'
<1> DEFINE q == matchCandidateIdx + forwardPatternLength - srcPatternLength
           P == Protected(q)
<1>1. /\ Stays /\ InPattern /\ FitsRun /\ matchIndex' = P
      /\ best' = Better /\ input' = input /\ phase' = "chain"
      /\ matchChainPos' = matchChainPos
  BY DEF JumpToEnd
<1>2. /\ phase \in {"chain", "swap"} /\ lowestMatchIndex <= matchIndex
  BY <1>1, StaysWhere
<1>3. SearchTypeOK /\ InTable /\ input \in Inputs
  BY DEF SearchInv, SearchTypeOK
<1>4. /\ Begin \in Nat /\ lowestMatchIndex <= Begin /\ lowestMatchIndex \in Nat
      /\ matchCandidateIdx \in Nat /\ matchCandidateIdx < ipIndex
      /\ forwardPatternLength \in Nat /\ srcPatternLength \in Nat
      /\ segment \in Nat
      /\ Begin + segment = matchCandidateIdx + forwardPatternLength
  BY <1>1, <1>2, <1>3, RunAround, SearchLimits
<1>5. segment >= srcPatternLength /\ forwardPatternLength <= srcPatternLength
  BY <1>1 DEF FitsRun
<1>6. /\ q \in Int /\ lowestMatchIndex <= q /\ q <= matchCandidateIdx /\ Begin <= q
      /\ q = RunEnd - srcPatternLength
  BY <1>4, <1>5 DEF RunEnd
<1>7. ProtectDictEnd(matchCandidateIdx)
  BY <1>1 DEF InPattern
<1> HIDE DEF q
<1>8. P \in Inserted
  BY <1>3, <1>4, <1>6, <1>7, JumpInTable
<1>9. q <= P /\ P <= matchCandidateIdx
  BY <1>3, <1>4, <1>6, <1>7, JumpInFront
<1>10. P \in Int
  BY <1>3, <1>8, SearchLimits DEF Inserted
<1> HIDE DEF P
<1>11. Begin <= P
  BY <1>4, <1>6, <1>9, <1>10
<1>12. RunEnd \in Int
  BY <1>4 DEF RunEnd
<1>13. ASSUME NEW y \in Int, P < y PROVE RunEnd - y # srcPatternLength
  BY <1>4, <1>6, <1>9, <1>10, <1>12, <1>13
<1>14. (input.pattern => lookBack = 0) => Following(P, matchChainPos, Better.len)
  BY <1>1, <1>8, <1>9, <1>11, <1>13, JumpFollows
<1>15. QED BY <1>1, <1>14, BackFollowing

LEMMA FindJumpToBegin ==
    ASSUME SearchInv, FindInv, JumpToBegin
    PROVE  FindInv'
<1> DEFINE maxML == Min({segment, srcPatternLength})
           found == [at |-> ipIndex, off |-> ipIndex - Begin, len |-> maxML]
           b     == IF maxML > Better.len THEN found ELSE Better
           q     == Begin - Delta(Begin)
           P     == Protected(Begin)
<1>1. /\ Stays /\ InPattern /\ ~ FitsRun
      /\ input' = input /\ phase' = "chain" /\ matchChainPos' = matchChainPos
  BY DEF JumpToBegin
<1>2. \/ matchIndex' = P /\ best' = Better
         /\ (~ ProtectDictEnd(Begin) \/ lookBack > 0)
      \/ /\ ProtectDictEnd(Begin) /\ lookBack = 0
         /\ best' = b /\ matchIndex' = q
  BY DEF JumpToBegin, Begin
<1>3. /\ phase \in {"chain", "swap"} /\ lowestMatchIndex <= matchIndex
      /\ InContract(Better) /\ matchIndex \in Inserted
  BY <1>1, StaysWhere
<1>4. /\ SearchTypeOK /\ InTable /\ input \in Inputs /\ matchIndex \in Int
      /\ matchCandidateIdx = matchIndex - 1
  BY DEF SearchInv, SearchTypeOK, matchCandidateIdx
<1>5. /\ Begin \in Nat /\ lowestMatchIndex <= Begin /\ lowestMatchIndex \in Nat
      /\ Begin <= matchCandidateIdx
      /\ matchCandidateIdx \in Nat /\ matchCandidateIdx < ipIndex
      /\ forwardPatternLength \in Nat /\ srcPatternLength \in Nat
      /\ segment \in Nat /\ RunEnd \in Nat
      /\ RunEnd = Begin + segment
      /\ RunEnd = matchCandidateIdx + forwardPatternLength
  BY <1>1, <1>3, <1>4, RunAround, SearchLimits DEF RunEnd
<1>6. ProtectDictEnd(matchCandidateIdx)
  BY <1>1 DEF InPattern
<1>7. segment < srcPatternLength \/ forwardPatternLength > srcPatternLength
  BY <1>1, <1>5 DEF FitsRun
<1>8. ASSUME NEW y \in Int, Begin < y, y <= matchCandidateIdx
      PROVE  RunEnd - y # srcPatternLength
  BY <1>5, <1>7, <1>8
<1>9. /\ P \in Inserted /\ Begin <= P /\ P <= matchCandidateIdx
      /\ ProtectDictEnd(Begin) => Begin \in Inserted
  <2>1. Begin \in Int
    BY <1>5
  <2>2. QED BY <1>4, <1>5, <1>6, <2>1, JumpInTable, JumpInFront
<1>10. ASSUME ~ ProtectDictEnd(Begin) \/ lookBack > 0, matchIndex' = P, best' = Better
       PROVE  FindInv'
  <2> HIDE DEF P
  <2>1. P \in Int
    BY <1>4, <1>9, SearchLimits DEF Inserted
  <2>2. \A y \in Int : P < y /\ y <= matchCandidateIdx => RunEnd - y # srcPatternLength
    BY <1>5, <1>8, <1>9, <2>1
  <2>3. (input.pattern => lookBack = 0) => Following(P, matchChainPos, Better.len)
    BY <1>1, <1>9, <2>2, JumpFollows
  <2>4. QED BY <1>1, <1>10, <2>3, BackFollowing
<1>11. ASSUME ProtectDictEnd(Begin), lookBack = 0, best' = b, matchIndex' = q
       PROVE  FindInv'
  <2>1. Better.len \in Nat /\ best.len \in Nat
    <3>1. InContract(best)
      BY DEF SearchInv
    <3>2. QED BY <1>3, <1>4, <3>1, ContractLength
  <2>2. maxML \in {segment, srcPatternLength} /\ maxML <= segment /\ maxML <= srcPatternLength
    <3>1. segment \in Int /\ srcPatternLength \in Int
      BY <1>5
    <3>2. QED BY <3>1, OneOrOther
  <2>3. b.len \in Nat /\ b.len >= Better.len /\ b.len >= maxML
    <3>1. maxML \in Nat /\ found.len = maxML
      BY <1>5, <2>2
    <3> HIDE DEF maxML, found
    <3>2. QED BY <2>1, <3>1
  <2>4. Begin \in Inserted
    BY <1>9, <1>11
  <2>5. SameFour(ipIndex, Begin) /\ Begin < ipIndex
    <3>1. Begin <= Begin
      BY <1>5
    <3>2. QED BY <1>1, <1>3, <1>4, <1>5, <2>4, <3>1, RunReaches
  <2>6. /\ OnChainOf(q, 0)
        /\ \A y \in Inserted :
               y < Begin /\ lowestMatchIndex <= y /\ SameBucket(ipIndex, y) => y <= q
    <3>1. ipIndex + 0 = ipIndex /\ Begin + 0 = Begin
      BY <1>4, <1>5, SearchLimits
    <3>2. SameBucket(ipIndex + 0, Begin + 0) /\ Begin + 0 < ipIndex
      BY <2>5, <3>1 DEF SameBucket
    <3>3. q = Begin - Delta(Begin + 0)
      BY <3>1
    <3> HIDE DEF q
    <3>4. /\ OnChainOf(q, 0)
          /\ \A y \in Inserted :
                 y < Begin /\ lowestMatchIndex <= y /\ SameBucket(ipIndex + 0, y + 0)
                     => y <= q
      BY <1>4, <1>5, <2>4, <3>2, <3>3, ChainPasses
    <3>5. \A y \in Inserted : y + 0 = y
      BY <1>4, SearchLimits DEF Inserted
    <3>6. QED BY <3>1, <3>4, <3>5
  <2>7. q \in Int
    <3>1. Inserted \subseteq Nat /\ Begin \in Int
      BY <1>4, <1>5, SearchLimits DEF Inserted
    <3>2. Delta(Begin) \in Nat
      BY <1>4, <3>1, DeltaIs DEF Delta
    <3>3. QED BY <1>5, <3>2
  <2> HIDE DEF q, b
  <2>8. ASSUME NEW y \in Open, y < matchIndex, Reach(y) > b.len
        PROVE  \E z \in Open : z <= q /\ Reach(z) >= Reach(y)
    <3>1. /\ y \in Nat /\ y \in Inserted /\ lowestMatchIndex <= y
          /\ Reach(y) = Full(y) /\ Full(y) \in Nat /\ SameFour(ipIndex, y)
      BY <1>4, <1>11, OpenIs, ReachIs
    <3>2. y < Begin
      <4> SUFFICES ASSUME Begin <= y PROVE FALSE
        BY <1>5, <3>1
      <4>1. y <= matchCandidateIdx
        BY <1>4, <2>8, <3>1
      <4>2. /\ RunEnd - y < srcPatternLength => Full(y) <= RunEnd - y
            /\ RunEnd - y > srcPatternLength => Full(y) <= srcPatternLength
        BY <1>1, <1>3, <1>4, <3>1, <4>1, RunReaches
      <4>3. Full(y) <= maxML
        <5> HIDE DEF maxML
        <5>1. CASE forwardPatternLength > srcPatternLength
          <6>1. RunEnd - y > srcPatternLength /\ segment > srcPatternLength
            BY <1>5, <3>1, <4>1, <5>1
          <6>2. QED BY <1>5, <2>2, <3>1, <4>2, <6>1
        <5>2. CASE segment < srcPatternLength
          <6>1. RunEnd - y < srcPatternLength /\ RunEnd - y <= segment
            BY <1>5, <3>1, <5>2
          <6>2. CASE forwardPatternLength > srcPatternLength
            BY <5>1, <6>2
          <6>3. Full(y) <= segment /\ maxML \in Nat
            BY <1>5, <2>2, <3>1, <4>2, <6>1
          <6>4. maxML = segment
            BY <1>5, <2>2, <5>2
          <6>5. QED BY <6>3, <6>4
        <5>3. QED BY <1>7, <5>1, <5>2
      <4>4. maxML \in Nat
        BY <1>5, <2>2
      <4> HIDE DEF maxML
      <4>5. QED BY <2>3, <2>8, <3>1, <4>3, <4>4
    <3>3. y <= q
      BY <2>6, <3>1, <3>2 DEF SameBucket
    <3>4. Reach(y) >= Reach(y)
      BY <3>1
    <3>5. QED BY <3>3, <3>4
  <2>9. ASSUME input.pattern => lookBack = 0
        PROVE  Following(q, matchChainPos, b.len)
    <3>1. Pending(matchIndex, best.len)
      BY <1>3, <2>9 DEF FindInv, Following
    <3>2. Pending(q, b.len)
      BY <1>1, <2>3, <2>7, <2>8, <3>1, StillPending
    <3>3. matchChainPos = 0
      BY <1>1 DEF InPattern
    <3>4. QED BY <2>6, <3>2, <3>3 DEF Following
  <2>10. QED BY <1>1, <1>11, <2>9, BackFollowing
<1>12. QED BY <1>2, <1>10, <1>11

LEMMA FindEndOfChain ==
    ASSUME SearchInv, FindInv, EndOfChain
    PROVE  FindInv'
<1> DEFINE S == {q \in DictInserted : SameBucket(ipIndex, q)} \cup {-Base}
<1>1. /\ phase = "chain" /\ ~ OnChain
      /\ input' = input /\ nbAttempts' = nbAttempts /\ best' = best
  BY DEF EndOfChain
<1>2. \/ /\ phase' = "returned" /\ matchIndex' = matchIndex
         /\ ~ (/\ input.mode = "ctx" /\ nbAttempts > 0
               /\ ipIndex - lowestMatchIndex < DistanceMax)
      \/ phase' = "dict" /\ nbAttempts > 0 /\ matchIndex' = Max(S)
  BY DEF EndOfChain
<1>3. /\ input \in Inputs /\ matchIndex \in Int /\ nbAttempts \in Nat
      /\ InContract(best) /\ best.len \in Nat
  BY ContractLength DEF SearchInv, SearchTypeOK
<1>4. /\ (input.pattern => lookBack = 0)' = (input.pattern => lookBack = 0)
      /\ \A q, n : PendingInDict(q, n)' = PendingInDict(q, n)
      /\ \A n : NoneOpen(n)' = NoneOpen(n) /\ NoneInDict(n)' = NoneInDict(n)
  BY <1>1, FindStays
<1>5. ASSUME input.pattern => lookBack = 0, nbAttempts > 0
      PROVE  NoneOpen(best.len)
  <2>1. Pending(matchIndex, best.len)
    BY <1>1, <1>5 DEF FindInv, Following
  <2>2. ~ (lowestMatchIndex <= matchIndex)
    BY <1>1, <1>3, <1>5, SearchLimits DEF OnChain
  <2>3. ASSUME NEW p \in Open, Reach(p) > best.len PROVE FALSE
    <3>1. PICK y \in Open : y <= matchIndex
      BY <2>1, <2>3 DEF Pending
    <3>2. y \in Nat /\ lowestMatchIndex <= y /\ lowestMatchIndex \in Nat
      BY <1>3, OpenIs, SearchLimits
    <3>3. QED BY <1>3, <2>2, <3>1, <3>2
  <2>4. \A p \in Open : Reach(p) \in Nat
    BY <1>3, OpenIs, ReachIs
  <2>5. ASSUME NEW p \in Open PROVE Reach(p) <= best.len
    <3>1. ~ (Reach(p) > best.len)
      BY <2>3
    <3>2. QED BY <1>3, <2>4, <3>1
  <2>6. QED BY <2>5 DEF NoneOpen
<1>6. CASE /\ phase' = "returned" /\ matchIndex' = matchIndex
           /\ ~ (/\ input.mode = "ctx" /\ nbAttempts > 0
                 /\ ipIndex - lowestMatchIndex < DistanceMax)
  <2>1. nbAttempts > 0 => NoneInDict(best.len)
    <3> SUFFICES ASSUME nbAttempts > 0, NEW p \in DictOpen PROVE FALSE
      BY DEF NoneInDict
    <3>1. input.mode = "ctx" /\ ipIndex - Start < DistanceMax
      BY DEF DictOpen
    <3>2. lowestMatchIndex = Start
      BY <1>3, <3>1, SearchLimits DEF lowestMatchIndex
    <3>3. QED BY <1>6, <3>1, <3>2
  <2>2. QED BY <1>1, <1>4, <1>5, <1>6, <2>1 DEF FindInv
<1>7. CASE phase' = "dict" /\ nbAttempts > 0 /\ matchIndex' = Max(S)
  <2>1. /\ -Base \in S /\ -Base \in Int /\ -Base < ipIndex /\ ipIndex \in Int
        /\ DictInserted \subseteq Nat /\ \A q \in DictInserted : q < ipIndex
    BY <1>3, SearchLimits DEF DictInserted
  <2>2. S \subseteq Int /\ S # {} /\ \A q \in S : q < ipIndex
    <3>1. ASSUME NEW q \in S PROVE q \in Int /\ q < ipIndex
      BY <2>1
    <3>2. QED BY <2>1, <3>1
  <2>3. \A q \in S : q = -Base \/ SameBucket(ipIndex, q)
    OBVIOUS
  <2>4. \A q \in DictInserted : SameBucket(ipIndex, q) => q \in S
    OBVIOUS
  <2> HIDE DEF S
  <2>5. Max(S) \in S /\ \A q \in S : q <= Max(S)
    BY <2>1, <2>2, LargestBelow
  <2>6. PendingInDict(Max(S), best.len)
    <3>1. ASSUME NEW p \in DictOpen PROVE p <= Max(S)
      <4>1. p \in DictInserted /\ SameBucket(ipIndex, p)
        BY <1>3, DictOpenIs DEF SameBucket
      <4>2. QED BY <2>4, <2>5, <4>1
    <3>2. ipIndex - Max(S) <= DistanceMax => Max(S) # -Base
      BY <1>3, SearchLimits
    <3>3. QED BY <2>3, <2>5, <3>1, <3>2 DEF PendingInDict
  <2>7. (input.pattern => lookBack = 0) => NoneOpen(best.len)
    BY <1>5, <1>7
  <2>8. QED BY <1>1, <1>4, <1>7, <2>6, <2>7 DEF FindInv
<1>8. QED BY <1>2, <1>6, <1>7

LEMMA FindFollowDict ==
    ASSUME SearchInv, FindInv, FollowDict
    PROVE  FindInv'
<1> DEFINE p == matchIndex
           q == matchIndex - DeltaIn(DictInserted, matchIndex)
           b == IF SameFour(ipIndex, matchIndex) /\ Candidate(matchIndex).len > best.len
                THEN Candidate(matchIndex) ELSE best
<1>1. /\ phase = "dict" /\ ipIndex - p <= DistanceMax /\ nbAttempts > 0
      /\ best' = b /\ matchIndex' = q /\ input' = input /\ phase' = "dict"
  BY DEF FollowDict, InDict
<1>2. /\ input \in Inputs /\ p \in DictInserted /\ best.len \in Nat
      /\ input.mode = "ctx" /\ ipIndex - Start < DistanceMax
  <2>1. input \in Inputs /\ InContract(best)
    BY DEF SearchInv, SearchTypeOK
  <2>2. QED BY <1>1, <2>1, ContractLength DEF SearchInv, InTable
<1>3. p \in Nat /\ p < ipIndex /\ Comparable(ipIndex, p)
  BY <1>1, <1>2, DictInsertedComparable
<1>4. /\ b.len \in Nat /\ b.len >= best.len
      /\ SameFour(ipIndex, p) => Reach(p) <= b.len
  <2>1. CASE SameFour(ipIndex, p)
    <3>1. Reach(p) \in Nat
      BY <1>2, <1>3, <2>1, ReachIs
    <3>2. QED BY <1>2, <2>1, <3>1 DEF Reach
  <2>2. CASE ~ SameFour(ipIndex, p)
    BY <1>2, <2>2
  <2>3. QED BY <2>1, <2>2
<1>5. /\ DictInserted \subseteq Nat /\ DistanceMax \in Nat /\ ipIndex \in Nat
      /\ Start <= ipIndex /\ Start \in Nat
  BY <1>2, SearchLimits DEF DictInserted
<1> DEFINE d == DeltaIn(DictInserted, p)
<1>6. /\ d \in Nat /\ d >= 1
      /\ \A y \in DictInserted : y < p /\ SameBucket(p, y) => y <= p - d
      /\ d = DistanceMax \/ SameBucket(p, p - d)
  BY <1>2, <1>5, NextInTable
<1>7. q = p - d
  OBVIOUS
<1> HIDE DEF d, q, b
<1>8. ASSUME input.pattern => lookBack = 0
      PROVE  NoneOpen(b.len) /\ PendingInDict(q, b.len)
  <2>1. /\ NoneOpen(best.len) /\ PendingInDict(p, best.len)
    BY <1>1, <1>8 DEF FindInv
  <2>2. SameBucket(ipIndex, p)
    BY <1>1, <2>1 DEF PendingInDict
  <2>3. NoneOpen(b.len)
    <3>1. \A x \in Open : Reach(x) \in Nat
      BY <1>2, OpenIs, ReachIs
    <3>2. QED BY <1>2, <1>4, <2>1, <3>1 DEF NoneOpen
  <2>4. ASSUME NEW x \in DictOpen, Reach(x) > b.len PROVE x <= q
    <3>1. /\ x \in Nat /\ x \in DictInserted /\ SameFour(ipIndex, x)
          /\ Reach(x) \in Nat
      BY <1>2, DictOpenIs, ReachIs
    <3>2. x <= p
      BY <1>2, <1>4, <2>1, <2>4, <3>1 DEF PendingInDict
    <3>3. x # p
      BY <1>4, <2>4, <3>1
    <3>4. x < p
      BY <1>3, <3>1, <3>2, <3>3
    <3>5. SameBucket(p, x)
      <4>1. SameBucket(ipIndex, x)
        BY <3>1 DEF SameBucket
      <4>2. QED BY <2>2, <4>1, OneBucket
    <3>6. QED BY <1>6, <1>7, <3>1, <3>4, <3>5
  <2>5. ASSUME ipIndex - q <= DistanceMax PROVE SameBucket(ipIndex, q)
    <3>1. p < Start
      BY <1>2, <1>5 DEF DictInserted
    <3>2. d # DistanceMax
      BY <1>3, <1>5, <1>6, <1>7, <2>5, <3>1
    <3>3. SameBucket(p, q)
      BY <1>6, <1>7, <3>2
    <3>4. QED BY <2>2, <3>3, OneBucket
  <2>6. QED BY <2>3, <2>4, <2>5 DEF PendingInDict
<1>9. /\ (input.pattern => lookBack = 0)' = (input.pattern => lookBack = 0)
      /\ \A x, n : PendingInDict(x, n)' = PendingInDict(x, n)
      /\ \A n : NoneOpen(n)' = NoneOpen(n)
  BY <1>1, FindStays
<1>10. QED BY <1>1, <1>8, <1>9 DEF FindInv

LEMMA FindQuiet ==
    ASSUME SearchInv, FindInv, EndOfDict \/ UNCHANGED searchVars
    PROVE  FindInv'
<1>1. input' = input
  BY DEF EndOfDict, searchVars
<1>2. /\ (input.pattern => lookBack = 0)' = (input.pattern => lookBack = 0)
      /\ \A q, c, n : Following(q, c, n)' = Following(q, c, n)
      /\ \A q, c, n, d : Swapping(q, c, n, d)' = Swapping(q, c, n, d)
      /\ \A q, n : PendingInDict(q, n)' = PendingInDict(q, n)
      /\ \A n : NoneOpen(n)' = NoneOpen(n) /\ NoneInDict(n)' = NoneInDict(n)
  BY <1>1, FindStays
<1>3. CASE UNCHANGED searchVars
  BY <1>2, <1>3 DEF FindInv, searchVars, loop
<1>4. CASE EndOfDict
  <2>1. /\ phase = "dict" /\ ~ InDict /\ phase' = "returned"
        /\ matchIndex' = matchIndex /\ nbAttempts' = nbAttempts /\ best' = best
    BY <1>4 DEF EndOfDict
  <2>2. ASSUME input.pattern => lookBack = 0, nbAttempts > 0
        PROVE  NoneOpen(best.len) /\ NoneInDict(best.len)
    <3>1. /\ NoneOpen(best.len) /\ PendingInDict(matchIndex, best.len)
      BY <2>1, <2>2 DEF FindInv
    <3>2. /\ input \in Inputs /\ matchIndex \in Int /\ best.len \in Nat
      BY ContractLength DEF SearchInv, SearchTypeOK
    <3>3. ~ (ipIndex - matchIndex <= DistanceMax)
      BY <2>1, <2>2 DEF InDict
    <3>4. ASSUME NEW p \in DictOpen PROVE Reach(p) <= best.len
      <4>1. /\ p \in Nat /\ ipIndex - p <= DistanceMax /\ Reach(p) \in Nat
            /\ ipIndex \in Nat /\ DistanceMax \in Nat
        BY <3>2, DictOpenIs, ReachIs, SearchLimits
      <4>2. Reach(p) > best.len => p <= matchIndex
        BY <3>1 DEF PendingInDict
      <4>3. QED BY <3>2, <3>3, <4>1, <4>2
    <3>5. QED BY <3>1, <3>4 DEF NoneInDict
  <2>3. QED BY <1>2, <2>1, <2>2 DEF FindInv
<1>5. QED BY <1>3, <1>4

(***************************************************************************)
(* LZ4HC_InsertAndGetWiderMatch misses no longer match: wherever chain     *)
(* swaps and jumps lead, one as long as any it passes over is still to     *)
(* come, or is the one it has.                                             *)
(***************************************************************************)
THEOREM SearchMissesNone == SearchSpec => []FindsLongest
<1>1. SearchInit => FindInv
  BY FindInitInv
<1>2. SearchInv /\ FindInv /\ [SearchNext]_searchVars => FindInv'
  <2> SUFFICES ASSUME SearchInv, FindInv, [SearchNext]_searchVars PROVE FindInv'
    OBVIOUS
  <2>1. CASE BeginSwap
    BY <2>1, FindBeginSwap
  <2>2. CASE TryPosition
    BY <2>2, FindTryPosition
  <2>3. CASE SwapChain
    BY <2>3, FindSwapChain
  <2>4. CASE JumpToEnd
    BY <2>4, FindJumpToEnd
  <2>5. CASE JumpToBegin
    BY <2>5, FindJumpToBegin
  <2>6. CASE FollowChain
    BY <2>6, FindFollowChain
  <2>7. CASE EndOfChain
    BY <2>7, FindEndOfChain
  <2>8. CASE FollowDict
    BY <2>8, FindFollowDict
  <2>9. CASE EndOfDict
    BY <2>9, FindQuiet
  <2>10. CASE UNCHANGED searchVars
    BY <2>10, FindQuiet
  <2>11. QED
    BY <2>1, <2>2, <2>3, <2>4, <2>5, <2>6, <2>7, <2>8, <2>9, <2>10 DEF SearchNext
<1>3. SearchInv /\ FindInv => FindsLongest
  <2> SUFFICES ASSUME SearchInv, FindInv, phase = "returned", nbAttempts > 0,
                      input.pattern => lookBack = 0,
                      NEW m \in Wider(ipIndex, input.low, best.len)
               PROVE  input.favor /\ m.off < 8
    BY DEF FindsLongest
  <2>1. NoneOpen(best.len) /\ NoneInDict(best.len)
    BY DEF FindInv
  <2>2. input \in Inputs /\ best.len \in Nat
    BY ContractLength DEF SearchInv, SearchTypeOK
  <2>3. PICK p \in Nat : /\ m.off = ipIndex - p /\ Reach(p) > best.len
                         /\ Near(p) \/ p \in Open \/ p \in DictOpen
    BY <2>2, WiderReaches
  <2>4. CASE Near(p)
    BY <2>3, <2>4 DEF Near
  <2>5. CASE p \in Open \/ p \in DictOpen
    <3>1. Reach(p) <= best.len
      BY <2>1, <2>5 DEF NoneOpen, NoneInDict
    <3>2. Reach(p) \in Nat
      BY <2>2, <2>5, OpenIs, DictOpenIs, ReachIs
    <3>3. QED BY <2>2, <2>3, <3>1, <3>2
  <2>6. QED BY <2>3, <2>4, <2>5
<1>4. QED BY <1>1, <1>2, <1>3, SearchInvariant, PTL DEF SearchSpec
=============================================================================
