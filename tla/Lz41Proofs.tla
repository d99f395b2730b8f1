------------------------------- MODULE Lz41Proofs -------------------------------
(***************************************************************************)
(* Proofs about the LZ41 compressor, and the decompressor on its result,   *)
(* for every original size up to LZ4's limit, every block size and every   *)
(* length LZ4 may give a block.                                            *)
(***************************************************************************)
EXTENDS Lz41, TLAPS

\* The number of blocks coded so far: the table holds one offset more.
Blocks == Len(offsets) - 1

\* How far the loop has come: as long as bytes are left, only whole blocks were read;
\* and the last block read began before the end of the file.
LoopPosition ==
    /\ in_offset < size => in_offset = Blocks * block_size
    /\ Blocks >= 1 => (Blocks - 1) * block_size < size

\* What the blocks may have cost: one byte each for a file too short for a length byte,
\* two bytes each otherwise, and one more for every 255 literals.
Overhead == IF size < 15 THEN 1 ELSE 2

LoopCost == written_bytes <= HeaderSize + in_offset + (in_offset \div 255) + Overhead * Blocks

TailCost ==
    written_bytes <= HeaderSize + size + (size \div 255) + Overhead * Blocks
                     + IntSize * (Len(offsets) + 3)

Cost == IF pc \in {"compress", "max_blocks_overflow", "compression_error"}
        THEN LoopCost ELSE TailCost

IInv == TypeOK /\ LoopPosition /\ Cost
-----------------------------------------------------------------------------
\* Division by the block size, as the two inequalities the proofs use.
LEMMA DivBounds ==
    ASSUME NEW n \in Nat, NEW b \in Nat \ {0}
    PROVE  /\ n \div b \in Nat
           /\ (n \div b) * b <= n
           /\ n < (n \div b + 1) * b
  BY SMT

\* A product of naturals is monotone, and strictly less forces a smaller factor.
LEMMA FactorLess ==
    ASSUME NEW k \in Nat, NEW q \in Nat, NEW b \in Nat \ {0}, k * b < q * b
    PROVE  k < q
<1>1. SUFFICES ASSUME q <= k PROVE FALSE
  OBVIOUS
<1>2. q * b <= k * b
  <2>1. (k - q) * b >= 0
    BY <1>1, SMT
  <2>2. (k - q) * b = k * b - q * b
    BY SMT
  <2>3. k * b \in Int /\ q * b \in Int
    BY SMT
  <2> QED
    BY <2>1, <2>2, <2>3, SMT
<1> QED
  BY <1>2, SMT

\* The bound LZ4 documents is at least 16 bytes more than its input.
LEMMA BoundAtLeast ==
    ASSUME NEW n \in Nat, n <= LZ4_MAX_INPUT_SIZE
    PROVE  LZ4_compressBound(n) \in Nat /\ LZ4_compressBound(n) >= n + 16
  BY SMT DEF LZ4_compressBound, LZ4_MAX_INPUT_SIZE

\* Room in the jump table: if block k begins inside the file, the table's malloc holds
\* its offset and the end offset behind it, for any block size.
LEMMA TableRoom ==
    ASSUME NEW n \in Nat, n <= LZ4_MAX_INPUT_SIZE, NEW b \in Nat \ {0},
           NEW k \in Nat, k * b < n
    PROVE  k + 2 <= LZ4_compressBound(n) \div b + b
<1> DEFINE c == LZ4_compressBound(n)
           q == c \div b
<1>1. c \in Nat /\ c >= n + 16
  BY BoundAtLeast
<1>2. q \in Nat /\ c < (q + 1) * b
  BY <1>1, DivBounds
<1> HIDE DEF c, q
<1>3. CASE b = 1
  <2>1. c < q + 1
    BY <1>1, <1>2, <1>3, SMT
  <2> QED
    BY <1>1, <1>2, <1>3, <2>1, SMT DEF c, q
<1>4. CASE b >= 2
  <2>1. k * b < (q + 1) * b
    <3>1. k * b \in Nat /\ (q + 1) * b \in Nat
      BY <1>2, SMT
    <3> QED
      BY <1>1, <1>2, <3>1, SMT
  <2>2. k < q + 1
    BY <1>2, <2>1, FactorLess
  <2> QED
    BY <1>2, <1>4, <2>2, SMT DEF c, q
<1> QED
  BY <1>3, <1>4, SMT
-----------------------------------------------------------------------------
\* Everything in the compressed bytes is a cell at an address.
ImageOK == \A a \in DOMAIN image : a \in Nat /\ image[a] \in Cell

\* What one block adds to the table and to the output.
LEMMA BlockStep ==
    ASSUME IInv, CompressBlock, CodecAssumption
    PROVE  IInv'
<1> USE DEF IInv
<1>1. /\ size \in Nat /\ block_size \in Nat \ {0} /\ in_offset \in 0..size
      /\ offsets \in Seq(Nat) /\ Len(offsets) >= 1 /\ Len(offsets) \in Nat
      /\ written_bytes \in Nat /\ in_offset < size
  BY SMT DEF TypeOK, CompressBlock
<1>2. PICK cmpBytes \in BlockLengths(AmountToRead) :
        /\ written_bytes' = written_bytes + cmpBytes
        /\ offsets' = Append(offsets, offsets[Len(offsets)] + cmpBytes)
  BY DEF CompressBlock
<1> DEFINE n == AmountToRead
<1>3. n \in 1..block_size /\ in_offset' = in_offset + n /\ in_offset' <= size
      /\ (in_offset' < size => n = block_size)
  BY <1>1, SMT DEF CompressBlock, AmountToRead, Smaller
<1>4. cmpBytes \in Nat \ {0} /\ cmpBytes <= LiteralRun(n)
  BY <1>2 DEF BlockLengths, CodecAssumption
<1>5. UNCHANGED <<size, block_size, api, currentBlock, length, table, read_at, restored>>
  BY DEF CompressBlock, params, decVars
<1>6. pc = "compress" /\ pc' \in {"compress", "max_blocks_overflow"}
  BY DEF CompressBlock
<1>7. offsets' \in Seq(Nat) /\ Len(offsets') = Len(offsets) + 1
  <2>1. offsets[Len(offsets)] + cmpBytes \in Nat
    BY <1>1, <1>4, SMT
  <2> QED
    BY <1>1, <1>2, <2>1, SMT
<1> HIDE DEF n
<1>8. TypeOK'
  <2>1. ImageOK'
    <3>1. PICK c \in BlockLengths(AmountToRead) :
            image' = Store(image, written_bytes,
                           BlockCell(in_offset, AmountToRead, c, ResetStream(history)))
      BY DEF CompressBlock
    <3>2. c \in Nat /\ AmountToRead \in Nat /\ in_offset \in Nat
      BY <1>1, <1>3, <3>1, SMT DEF BlockLengths, CodecAssumption, n
    <3> DEFINE cell == BlockCell(in_offset, AmountToRead, c, ResetStream(history))
    <3>3. cell \in Cell
      BY <3>2 DEF BlockCell, Cell, ResetStream
    <3>4. \A a \in DOMAIN image : a \in Nat /\ image[a] \in Cell
      BY DEF TypeOK
    <3> HIDE DEF cell
    <3>5. image' = [a \in DOMAIN image \cup {written_bytes} |->
                     IF a = written_bytes THEN cell ELSE image[a]]
      BY <3>1 DEF Store, cell
    <3> QED
      BY <1>1, <3>3, <3>4, <3>5 DEF ImageOK
  <2>2. history' \in BOOLEAN
    BY DEF CompressBlock
  <2>3. /\ in_offset' \in 0..size' /\ written_bytes' \in Nat
        /\ offsets' \in Seq(Nat) /\ Len(offsets') >= 1
    BY <1>1, <1>2, <1>3, <1>4, <1>5, <1>7, SMT
  <2>4. pc' \in {"compress", "packed", "decode", "restored"} \cup ErrorCodes
    BY <1>6 DEF ErrorCodes
  <2> QED
    BY <1>5, <2>1, <2>2, <2>3, <2>4 DEF TypeOK, ImageOK
<1>9. LoopPosition'
  <2>1. in_offset = Blocks * block_size /\ Blocks \in Nat /\ Blocks' = Blocks + 1
    BY <1>1, <1>7, SMT DEF LoopPosition, Blocks
  <2>2. (Blocks + 1) * block_size = Blocks * block_size + block_size
    BY <1>1, <2>1, SMT
  <2>3. in_offset' < size' => in_offset' = Blocks' * block_size'
    BY <1>1, <1>3, <1>5, <2>1, <2>2, SMT
  <2>4. (Blocks' - 1) * block_size' < size'
    BY <1>1, <1>5, <2>1, SMT
  <2> QED
    BY <2>3, <2>4 DEF LoopPosition
<1>10. Cost'
  <2>1. Blocks \in Nat /\ Blocks' = Blocks + 1 /\ Overhead \in {1, 2} /\ Overhead' = Overhead
    BY <1>1, <1>5, <1>7, SMT DEF Blocks, Overhead
  <2>2. cmpBytes <= n + n \div 255 + Overhead
    BY <1>1, <1>3, <1>4, SMT DEF LiteralRun, Overhead
  <2>3. n \div 255 + in_offset \div 255 <= (in_offset + n) \div 255
    BY <1>1, <1>3, SMT
  <2>4. Overhead * (Blocks + 1) = Overhead * Blocks + Overhead /\ Overhead * Blocks \in Nat
    BY <2>1, SMT
  <2>5. LoopCost
    BY <1>6 DEF Cost
  <2>6. LoopCost'
    BY <1>1, <1>2, <1>3, <1>4, <2>1, <2>2, <2>3, <2>4, <2>5, SMT DEF LoopCost, HeaderSize
  <2> QED
    BY <1>6, <2>6 DEF Cost
<1> QED
  BY <1>8, <1>9, <1>10

\* The jump table and the three numbers behind it.
LEMMA TailStep ==
    ASSUME IInv, WriteTail
    PROVE  IInv'
<1> USE DEF IInv
<1>1. /\ size \in Nat /\ block_size \in Nat \ {0} /\ in_offset = size
      /\ offsets \in Seq(Nat) /\ Len(offsets) >= 1 /\ Len(offsets) \in Nat
      /\ written_bytes \in Nat /\ pc = "compress" /\ pc' = "packed"
  BY SMT DEF TypeOK, WriteTail
<1>2. /\ UNCHANGED <<size, block_size, api, in_offset, offsets, history, currentBlock, length>>
      /\ written_bytes' = written_bytes + IntSize * Len(Trailer)
  BY DEF WriteTail, params, decVars
<1>3. Len(Trailer) = Len(offsets) + 3
  BY <1>1, SMT DEF Trailer
<1>4. TypeOK'
  <2>1. ImageOK'
    <3> DEFINE at(i) == written_bytes + IntSize * (i - 1)
               places == {at(i) : i \in 1..Len(Trailer)}
               val(a) == Trailer[(a - written_bytes) \div IntSize + 1]
    <3>1. image' = [a \in DOMAIN image \cup places |->
                     IF a \in places THEN IntCell(val(a)) ELSE image[a]]
      BY DEF WriteTail
    <3>2. \A i \in 1..Len(Trailer) :
            at(i) \in Nat /\ (at(i) - written_bytes) \div IntSize + 1 = i
      BY <1>1, <1>3, SMT DEF IntSize
    <3>3. \A i \in 1..Len(Trailer) : Trailer[i] \in Nat
      BY <1>1, <1>3, SMT DEF Trailer
    <3>4. \A a \in places : a \in Nat /\ val(a) \in Nat
      BY <3>2, <3>3
    <3>5. \A a \in places : IntCell(val(a)) \in Cell
      BY <3>4 DEF IntCell, Cell
    <3>6. \A a \in DOMAIN image : a \in Nat /\ image[a] \in Cell
      BY DEF TypeOK
    <3> HIDE DEF places, val
    <3> QED
      BY <3>1, <3>4, <3>5, <3>6 DEF ImageOK
  <2>2. written_bytes' \in Nat
    BY <1>1, <1>2, <1>3, SMT DEF IntSize
  <2> QED
    BY <1>1, <1>2, <2>1, <2>2 DEF TypeOK, ImageOK
<1>5. LoopPosition'
  BY <1>2 DEF LoopPosition, Blocks
<1>6. Cost'
  <2>1. LoopCost
    BY <1>1 DEF Cost
  <2>2. Blocks \in Nat /\ Overhead \in {1, 2}
    BY <1>1, SMT DEF Blocks, Overhead
  <2>3. Overhead * Blocks \in Nat
    BY <2>2, SMT
  <2>4. TailCost'
    <3>1. Overhead' = Overhead /\ Blocks' = Blocks
      BY <1>2 DEF Overhead, Blocks
    <3> QED
      BY <1>1, <1>2, <1>3, <2>1, <2>3, <3>1, SMT DEF LoopCost, TailCost, HeaderSize, IntSize
  <2> QED
    BY <1>1, <2>4 DEF Cost
<1> QED
  BY <1>4, <1>5, <1>6

\* The decoder's actions and the stutter leave the compressor's state alone.
LEMMA DecoderStep ==
    ASSUME IInv,
           \/ CompressFails \/ EmptyOriginal \/ OffsetsMismatch \/ ReadTable
           \/ DecodeBlock \/ DecodeDone \/ Finished \/ UNCHANGED vars
    PROVE  IInv'
<1> USE DEF IInv
<1>1. UNCHANGED <<params, encVars>>
  BY DEF CompressFails, EmptyOriginal, OffsetsMismatch, ReadTable, DecodeBlock, DecodeDone,
         Finished, vars
<1>2. UNCHANGED <<size, block_size, api, in_offset, offsets, history, written_bytes>>
  BY <1>1 DEF params, encVars
<1>3. LoopPosition'
  BY <1>2 DEF LoopPosition, Blocks
<1>4. Cost'
  BY <1>2 DEF Cost, LoopCost, TailCost, Overhead, Blocks,
       CompressFails, EmptyOriginal, OffsetsMismatch, ReadTable, DecodeBlock, DecodeDone,
       Finished, vars
<1>5. pc' \in {"compress", "packed", "decode", "restored"} \cup ErrorCodes
  BY DEF TypeOK, CompressFails, EmptyOriginal, OffsetsMismatch, ReadTable, DecodeBlock,
         DecodeDone, Finished, vars, ErrorCodes
<1>6. \A a : IntAt(a) \in Nat
  <2>1. \A a \in DOMAIN image : image[a].kind = "int" => image[a].val \in Nat
    BY DEF TypeOK, Cell, HeaderCell
  <2> QED
    BY <2>1, SMT DEF IntAt, Garbage
<1>7. currentBlock' \in Nat /\ length' \in Int
  <2>1. currentBlock \in Nat /\ length \in Int
    BY DEF TypeOK
  <2>2. CASE ReadTable
    BY <1>6, <2>2 DEF ReadTable, StoredLength
  <2>3. CASE DecodeBlock /\ DecodableAt(read_at, CmpBytes)
    <3>1. image[read_at].n \in Nat
      BY <2>3 DEF DecodableAt, TypeOK, Cell, HeaderCell
    <3>2. Smaller(length, image[read_at].n) \in Int
      BY <2>1, <3>1, SMT DEF Smaller
    <3> QED
      BY <2>1, <2>3, <3>2, SMT DEF DecodeBlock
  <2>4. CASE DecodeBlock /\ ~DecodableAt(read_at, CmpBytes)
    BY <2>1, <2>4 DEF DecodeBlock
  <2>5. CASE ~(ReadTable \/ DecodeBlock)
    BY <2>1, <2>5 DEF CompressFails, EmptyOriginal, OffsetsMismatch, DecodeDone, Finished,
                      vars, decVars
  <2> QED
    BY <2>2, <2>3, <2>4, <2>5
<1>8. ImageOK'
  BY <1>1 DEF TypeOK, ImageOK, encVars
<1> QED
  BY <1>2, <1>3, <1>4, <1>5, <1>7, <1>8 DEF TypeOK, ImageOK

\* The strengthened invariant holds in every behaviour.
THEOREM Invariant == Spec => []IInv
<1>1. Init => IInv
  <2> SUFFICES ASSUME Init PROVE IInv
    OBVIOUS
  <2>1. /\ size \in Nat /\ block_size \in Nat \ {0} /\ offsets = <<5>> /\ Len(offsets) = 1
        /\ in_offset = 0 /\ written_bytes = 5 /\ pc = "compress"
    BY CodecAssumption DEF Init, CodecAssumption, HeaderSize
  <2>2. TypeOK
    BY <2>1, SMT DEF TypeOK, Init, Cell
  <2>3. LoopPosition
    BY <2>1, SMT DEF LoopPosition, Blocks
  <2>4. Cost
    BY <2>1, SMT DEF Cost, LoopCost, Blocks, Overhead, HeaderSize
  <2> QED
    BY <2>2, <2>3, <2>4 DEF IInv
<1>2. IInv /\ [Next]_vars => IInv'
  <2> SUFFICES ASSUME IInv, [Next]_vars PROVE IInv'
    OBVIOUS
  <2>1. CASE CompressBlock
    BY <2>1, BlockStep, CodecAssumption
  <2>2. CASE WriteTail
    BY <2>2, TailStep
  <2>3. CASE ~(CompressBlock \/ WriteTail)
    BY <2>3, DecoderStep DEF Next
  <2> QED
    BY <2>1, <2>2, <2>3
<1> QED
  BY <1>1, <1>2, PTL DEF Spec

\* Type correctness of the codec.
THEOREM TypeCorrect == Spec => []TypeOK
<1>1. IInv => TypeOK
  BY DEF IInv
<1> QED
  BY <1>1, Invariant, PTL

\* The jump table never outgrows its malloc, so LZ41_MAX_BLOCKS_OVERFLOW and the write
\* past the table that would precede it cannot happen, for any block_size of the ini file.
THEOREM TableNeverOverflows == Spec => []TableInBounds
<1>1. IInv => TableInBounds
  <2> SUFFICES ASSUME IInv, size <= LZ4_MAX_INPUT_SIZE PROVE Len(offsets) <= MaxBlocks
    BY DEF TableInBounds
  <2>1. /\ size \in Nat /\ block_size \in Nat \ {0} /\ Blocks \in Nat
        /\ Len(offsets) = Blocks + 1
    BY SMT DEF IInv, TypeOK, Blocks
  <2>2. CASE Blocks = 0
    <3>1. LZ4_compressBound(size) \div block_size \in Nat
      BY <2>1, BoundAtLeast, DivBounds
    <3> QED
      BY <2>1, <2>2, <3>1, SMT DEF MaxBlocks
  <2>3. CASE Blocks >= 1
    <3>1. Blocks - 1 \in Nat /\ (Blocks - 1) * block_size < size
      BY <2>1, <2>3, SMT DEF IInv, LoopPosition
    <3>2. (Blocks - 1) + 2 <= MaxBlocks
      BY <2>1, <3>1, TableRoom DEF MaxBlocks
    <3> QED
      BY <2>1, <3>2, SMT
  <2> QED
    BY <2>1, <2>2, <2>3, SMT
<1> QED
  BY <1>1, Invariant, PTL

\* compress_vp's buffer holds the packed file, jump table included, for every file of at
\* least 4 bytes and every block size of at least 64.
THEOREM OutBufferNeverOverflows == Spec => []OutBufferFits
<1>1. IInv => OutBufferFits
  <2> SUFFICES ASSUME IInv, size >= 4, size <= LZ4_MAX_INPUT_SIZE, block_size >= 64
               PROVE  written_bytes <= VpBufferSize(size)
    BY DEF OutBufferFits
  <2>1. /\ size \in Nat /\ block_size \in Nat \ {0} /\ Blocks \in Nat
        /\ Len(offsets) = Blocks + 1 /\ written_bytes \in Nat /\ in_offset \in 0..size
    BY SMT DEF IInv, TypeOK, Blocks
  <2>2. Blocks >= 1 => (Blocks - 1) * 64 < size
    <3> SUFFICES ASSUME Blocks >= 1 PROVE (Blocks - 1) * 64 < size
      OBVIOUS
    <3>1. (Blocks - 1) * block_size < size
      BY DEF IInv, LoopPosition
    <3>2. (Blocks - 1) * (block_size - 64) >= 0
      BY <2>1, SMT
    <3>3. (Blocks - 1) * (block_size - 64) = (Blocks - 1) * block_size - (Blocks - 1) * 64
      BY <2>1, SMT
    <3>4. (Blocks - 1) * block_size \in Int
      BY <2>1, SMT
    <3> QED
      BY <2>1, <3>1, <3>2, <3>3, <3>4, SMT
  <2>3. written_bytes <= HeaderSize + size + (size \div 255) + Overhead * Blocks
                         + IntSize * (Blocks + 4)
    <3>1. LoopCost \/ TailCost
      BY DEF IInv, Cost
    <3>2. Overhead * Blocks \in Nat /\ in_offset \div 255 <= size \div 255
      BY <2>1, SMT DEF Overhead
    <3> QED
      BY <2>1, <3>1, <3>2, SMT DEF LoopCost, TailCost, HeaderSize, IntSize
  <2>4. CASE size < 15
    <3>1. Blocks <= 1
      BY <2>1, <2>2, <2>4, SMT
    <3>2. written_bytes <= size + 17 + 4 * Blocks + Blocks + 4
      BY <2>1, <2>3, <2>4, SMT DEF Overhead, HeaderSize, IntSize
    <3> QED
      BY <2>1, <2>4, <3>1, <3>2, SMT DEF VpBufferSize, LZ4_compressBound, LZ4_MAX_INPUT_SIZE
  <2>5. CASE size >= 15
    <3>1. written_bytes <= size + (size \div 255) + 21 + 6 * Blocks
      BY <2>1, <2>3, <2>5, SMT DEF Overhead, HeaderSize, IntSize
    <3> QED
      BY <2>1, <2>2, <2>5, <3>1, SMT DEF VpBufferSize, LZ4_compressBound, LZ4_MAX_INPUT_SIZE
  <2> QED
    BY <2>1, <2>4, <2>5, SMT
<1> QED
  BY <1>1, Invariant, PTL
-----------------------------------------------------------------------------
(***************************************************************************)
(* The round trip.  The invariant says what lies where in the packed       *)
(* bytes, and that the decoder's position is the compressor's at the same  *)
(* block.                                                                  *)
(***************************************************************************)
End == offsets[Len(offsets)]

Packing == pc \in {"compress", "max_blocks_overflow", "compression_error"}

\* Where block i begins in the original, and how long it is.
From(i) == (i - 1) * block_size

BlockSize(i) == Smaller(block_size, size - From(i))

IsCoded(i) ==
    /\ offsets[i] < End
    /\ offsets[i + 1] - offsets[i] \in 1..LZ4_compressBound(block_size)
    /\ offsets[i] \in DOMAIN image
    /\ image[offsets[i]] =
          BlockCell(From(i), BlockSize(i), offsets[i + 1] - offsets[i], FALSE)

Coded ==
    /\ HeaderMatches /\ End >= HeaderSize
    /\ in_offset <= Blocks * block_size
    /\ \A i \in 1..Blocks : IsCoded(i)

TrailerAt(i) == End + IntSize * (i - 1)

IsStored(i) == TrailerAt(i) \in DOMAIN image /\ image[TrailerAt(i)] = IntCell(Trailer[i])

Trailed ==
    /\ in_offset = size
    /\ written_bytes = TrailerAt(Len(offsets) + 4)
    /\ \A i \in 1..(Len(offsets) + 3) : IsStored(i)

Decoding ==
    /\ table = offsets
    /\ currentBlock \in 0..Blocks
    /\ read_at = offsets[currentBlock + 1]
    /\ length = size - Smaller(size, currentBlock * block_size)
    /\ Len(restored) = currentBlock

Piece == [at : Int, from : Int, n : Int]

Progress ==
    /\ IF Packing THEN written_bytes = End ELSE Trailed
    /\ Packing \/ pc = "packed" => restored = <<>> /\ length = 0
    /\ pc = "decode" => Decoding
    /\ pc = "restored" => length = 0
    /\ size > 0 => pc \notin {"offsets_mismatch", "decompression_error"}

Restored ==
    /\ restored \in Seq(Piece)
    /\ \A i \in 1..Len(restored) : restored[i].at = From(i) /\ restored[i].from = From(i)

RInv == Coded /\ Progress /\ Restored

\* One more block moves the next by block_size.
LEMMA FromNext ==
    ASSUME IInv, NEW i \in Nat
    PROVE  /\ From(i + 1) = i * block_size
           /\ i * block_size \in Nat
           /\ (i + 1) * block_size = i * block_size + block_size
<1>1. block_size \in Nat \ {0}
  BY DEF IInv, TypeOK
<1> QED
  BY <1>1, SMT DEF From

LEMMA BlockRound ==
    ASSUME IInv, RInv, CompressBlock, CodecAssumption
    PROVE  RInv'
<1>1. /\ size \in Nat /\ block_size \in Nat \ {0} /\ in_offset \in 0..size
      /\ offsets \in Seq(Nat) /\ Len(offsets) >= 1 /\ Len(offsets) \in Nat
      /\ written_bytes \in Nat /\ in_offset < size /\ pc = "compress"
      /\ pc' \in {"compress", "max_blocks_overflow"}
  BY SMT DEF IInv, TypeOK, CompressBlock
<1>2. /\ written_bytes = End /\ restored = <<>> /\ length = 0
      /\ in_offset = Blocks * block_size
  BY <1>1 DEF RInv, Progress, Packing, IInv, LoopPosition
<1>3. PICK cmpBytes \in BlockLengths(AmountToRead) :
        /\ cmpBytes <= LZ4_compressBound(block_size)
        /\ image' = Store(image, written_bytes,
                          BlockCell(in_offset, AmountToRead, cmpBytes, FALSE))
        /\ written_bytes' = written_bytes + cmpBytes
        /\ offsets' = Append(offsets, End + cmpBytes)
  BY DEF CompressBlock, ResetStream, End
<1>4. /\ in_offset' = in_offset + AmountToRead
      /\ UNCHANGED <<size, block_size, api, table, currentBlock, read_at, length, restored>>
  BY DEF CompressBlock, params, decVars
<1>5. cmpBytes \in Nat \ {0} /\ AmountToRead \in Nat /\ AmountToRead <= block_size
  <2>1. cmpBytes \in Nat \ {0}
    BY <1>3 DEF BlockLengths, CodecAssumption
  <2> QED
    BY <1>1, <2>1, SMT DEF AmountToRead, Smaller
<1>6. End \in Nat
  BY <1>1, SMT DEF End
<1>7. /\ Len(offsets') = Len(offsets) + 1
      /\ offsets'[Len(offsets')] = End + cmpBytes
      /\ \A i \in 1..Len(offsets) : offsets'[i] = offsets[i]
  BY <1>1, <1>3, <1>5, <1>6, SMT
<1>8. End' = End + cmpBytes
  BY <1>7 DEF End
<1>9. Blocks \in Nat /\ Blocks' = Blocks + 1 /\ Len(offsets) = Blocks + 1
  BY <1>1, <1>7, SMT DEF Blocks
<1>10. /\ image' = [a \in DOMAIN image \cup {End} |->
                      IF a = End
                      THEN BlockCell(in_offset, AmountToRead, cmpBytes, FALSE)
                      ELSE image[a]]
  BY <1>2, <1>3 DEF Store
<1>11. Coded /\ LZ4_compressBound(block_size) \in Int
  BY <1>1, SMT DEF RInv, LZ4_compressBound, LZ4_MAX_INPUT_SIZE
<1>12. HeaderMatches' /\ End' >= HeaderSize
  <2>1. HeaderMatches /\ End >= HeaderSize
    BY <1>11 DEF Coded
  <2>2. 0 # End
    BY <1>6, <2>1, SMT DEF HeaderSize
  <2>3. HeaderMatches'
    BY <1>10, <2>1, <2>2 DEF HeaderMatches, HeaderCell
  <2> QED
    BY <1>5, <1>6, <1>8, <2>1, <2>3, SMT DEF HeaderSize
<1>13. in_offset' <= Blocks' * block_size'
  <2>1. (Blocks + 1) * block_size = Blocks * block_size + block_size
        /\ Blocks * block_size \in Nat
    BY <1>9, FromNext
  <2>2. Blocks' * block_size' = Blocks * block_size + block_size
    BY <1>4, <1>9, <2>1
  <2>3. in_offset' <= Blocks * block_size + block_size
    BY <1>1, <1>2, <1>4, <1>5, <2>1, SMT
  <2> QED
    BY <2>2, <2>3
<1>14. ASSUME NEW i \in 1..Blocks' PROVE IsCoded(i)'
  <2>1. i \in Nat /\ (i <= Blocks \/ i = Blocks + 1)
    BY <1>9, SMT
  <2>2. From(i)' = From(i) /\ BlockSize(i)' = BlockSize(i)
    BY <1>4 DEF From, BlockSize
  <2>3. CASE i <= Blocks
    <3>1. i \in 1..Blocks /\ i \in 1..Len(offsets) /\ i + 1 \in 1..Len(offsets)
      BY <1>9, <2>1, <2>3, SMT
    <3>2. IsCoded(i)
      BY <1>11, <3>1 DEF Coded
    <3>3. offsets'[i] = offsets[i] /\ offsets'[i + 1] = offsets[i + 1] /\ offsets[i] \in Nat
      BY <1>1, <1>7, <3>1
    <3>4. offsets[i] # End /\ offsets[i] < End + cmpBytes
      BY <1>5, <1>6, <3>2, <3>3, SMT DEF IsCoded
    <3>5. offsets[i] \in DOMAIN image' /\ image'[offsets[i]] = image[offsets[i]]
      BY <1>10, <3>2, <3>4 DEF IsCoded
    <3> QED
      BY <1>4, <1>8, <2>2, <3>2, <3>3, <3>4, <3>5 DEF IsCoded
  <2>4. CASE i = Blocks + 1
    <3>1. offsets'[i] = End /\ offsets'[i + 1] = End + cmpBytes
      <4>1. i = Len(offsets) /\ i + 1 = Len(offsets') /\ i \in 1..Len(offsets)
        BY <1>1, <1>7, <1>9, <2>4, SMT
      <4> QED
        BY <1>7, <4>1 DEF End
    <3>2. From(i) = in_offset /\ BlockSize(i) = AmountToRead
      <4>1. From(Blocks + 1) = Blocks * block_size
        BY <1>9, FromNext
      <4> QED
        BY <1>2, <2>4, <4>1 DEF BlockSize, AmountToRead
    <3>3. (End + cmpBytes) - End = cmpBytes /\ End < End + cmpBytes
          /\ cmpBytes \in 1..LZ4_compressBound(block_size)
      BY <1>3, <1>5, <1>6, <1>11, SMT
    <3>4. End \in DOMAIN image'
          /\ image'[End] = BlockCell(in_offset, AmountToRead, cmpBytes, FALSE)
      BY <1>10
    <3> QED
      BY <1>4, <1>8, <2>2, <3>1, <3>2, <3>3, <3>4 DEF IsCoded
  <2> QED
    BY <2>1, <2>3, <2>4
<1>15. Coded'
  BY <1>12, <1>13, <1>14 DEF Coded
<1>16. Progress'
  BY <1>1, <1>2, <1>3, <1>4, <1>8 DEF Progress, Packing
<1>17. Restored'
  BY <1>4 DEF RInv, Restored, From
<1> QED
  BY <1>15, <1>16, <1>17 DEF RInv

LEMMA TailRound ==
    ASSUME IInv, RInv, WriteTail
    PROVE  RInv'
<1>1. /\ size \in Nat /\ block_size \in Nat \ {0} /\ in_offset = size
      /\ offsets \in Seq(Nat) /\ Len(offsets) >= 1 /\ Len(offsets) \in Nat
      /\ pc = "compress" /\ pc' = "packed"
  BY SMT DEF IInv, TypeOK, WriteTail
<1>2. /\ UNCHANGED <<size, block_size, api, in_offset, offsets, history, table, currentBlock,
                     read_at, length, restored>>
      /\ written_bytes' = written_bytes + IntSize * Len(Trailer)
  BY DEF WriteTail, params, decVars
<1>3. written_bytes = End /\ End \in Nat /\ restored = <<>> /\ length = 0 /\ Coded
  <2>1. End \in Nat
    BY <1>1, SMT DEF End
  <2> QED
    BY <1>1, <2>1 DEF RInv, Progress, Packing
<1>4. Len(Trailer) = Len(offsets) + 3
  BY <1>1, SMT DEF Trailer
<1>5. End' = End /\ Trailer' = Trailer /\ Blocks' = Blocks
  BY <1>2 DEF End, Trailer, Blocks
<1> DEFINE places == {TrailerAt(i) : i \in 1..(Len(offsets) + 3)}
           val(a) == Trailer[(a - End) \div IntSize + 1]
<1>6. image' = [a \in DOMAIN image \cup places |->
                  IF a \in places THEN IntCell(val(a)) ELSE image[a]]
  BY <1>3, <1>4 DEF WriteTail, TrailerAt
<1>7. \A i \in 1..(Len(offsets) + 3) :
         /\ TrailerAt(i) \in places /\ val(TrailerAt(i)) = Trailer[i]
         /\ TrailerAt(i) >= End
  <2> SUFFICES ASSUME NEW i \in 1..(Len(offsets) + 3)
               PROVE  /\ TrailerAt(i) \in places /\ val(TrailerAt(i)) = Trailer[i]
                      /\ TrailerAt(i) >= End
    OBVIOUS
  <2>1. (TrailerAt(i) - End) \div IntSize + 1 = i /\ TrailerAt(i) >= End
    BY <1>1, <1>3, SMT DEF TrailerAt, IntSize
  <2> QED
    BY <2>1
<1>8. \A a : a \in DOMAIN image /\ a \in Nat /\ a < End
               => a \in DOMAIN image' /\ image'[a] = image[a]
  <2> SUFFICES ASSUME NEW a, a \in DOMAIN image, a \in Nat, a < End
               PROVE  a \in DOMAIN image' /\ image'[a] = image[a]
    OBVIOUS
  <2>1. a \notin places
    <3> SUFFICES ASSUME NEW i \in 1..(Len(offsets) + 3), a = TrailerAt(i) PROVE FALSE
      OBVIOUS
    <3> QED
      BY <1>3, <1>7, SMT
  <2> QED
    BY <1>6, <2>1
<1>9. \A i \in 1..(Len(offsets) + 3) : IsStored(i)'
  BY <1>5, <1>6, <1>7, <1>2 DEF IsStored, TrailerAt
<1> HIDE DEF places, val
<1>10. Trailed'
  <2>1. written_bytes' = TrailerAt(Len(offsets) + 4)'
    BY <1>1, <1>2, <1>3, <1>4, <1>5, SMT DEF TrailerAt, IntSize
  <2> QED
    BY <1>1, <1>2, <1>9, <2>1 DEF Trailed
<1>11. Coded'
  <2>1. HeaderMatches'
    <3>1. 0 \in DOMAIN image /\ image[0] = HeaderCell /\ 0 < End
      BY <1>3, SMT DEF Coded, HeaderMatches, HeaderSize
    <3> QED
      BY <1>8, <3>1 DEF HeaderMatches, HeaderCell
  <2>2. ASSUME NEW i \in 1..Blocks PROVE IsCoded(i)'
    <3>1. IsCoded(i)
      BY <1>3 DEF Coded
    <3>2. offsets[i] \in Nat
      BY <1>1, SMT DEF Blocks
    <3>3. offsets[i] \in DOMAIN image' /\ image'[offsets[i]] = image[offsets[i]]
      BY <1>8, <3>1, <3>2 DEF IsCoded
    <3> QED
      BY <1>2, <1>5, <3>1, <3>3 DEF IsCoded, From, BlockSize
  <2> QED
    BY <1>2, <1>3, <1>5, <2>1, <2>2 DEF Coded
<1>12. Progress'
  BY <1>1, <1>2, <1>3, <1>10 DEF Progress, Packing
<1>13. Restored'
  BY <1>2 DEF RInv, Restored, From
<1> QED
  BY <1>11, <1>12, <1>13 DEF RInv

\* The decoder finds every number of the trailer where it looks for it.
LEMMA TrailerRead ==
    ASSUME IInv, RInv, ~Packing
    PROVE  /\ Len(offsets) = Blocks + 1 /\ Blocks \in Nat /\ in_offset = size
           /\ NumOffsets = Len(offsets) /\ StoredLength = size
           /\ StoredBlockSize = block_size /\ FirstOffset = End
           /\ \A i \in 1..Len(offsets) : IntAt(FirstOffset + IntSize * (i - 1)) = offsets[i]
<1>1. /\ size \in Nat /\ block_size \in Nat /\ offsets \in Seq(Nat)
      /\ Len(offsets) \in Nat /\ Len(offsets) >= 1 /\ Blocks \in Nat
      /\ Len(offsets) = Blocks + 1 /\ End \in Nat /\ Trailed
  <2>1. /\ offsets \in Seq(Nat) /\ Len(offsets) \in Nat /\ Len(offsets) >= 1
        /\ Blocks \in Nat /\ Len(offsets) = Blocks + 1
    BY SMT DEF IInv, TypeOK, Blocks
  <2>2. End \in Nat
    BY <2>1, SMT DEF End
  <2> QED
    BY <2>1, <2>2 DEF IInv, TypeOK, RInv, Progress
<1>2. /\ \A i \in 1..Len(offsets) : Trailer[i] = offsets[i]
      /\ Trailer[Len(offsets) + 1] = Len(offsets)
      /\ Trailer[Len(offsets) + 2] = size
      /\ Trailer[Len(offsets) + 3] = block_size
  BY <1>1, SMT DEF Trailer
<1>3. ASSUME NEW i \in 1..(Len(offsets) + 3)
      PROVE  IntAt(TrailerAt(i)) = Trailer[i]
  <2>1. TrailerAt(i) \in DOMAIN image /\ image[TrailerAt(i)] = IntCell(Trailer[i])
    BY <1>1 DEF Trailed, IsStored
  <2>2. IntCell(Trailer[i]).kind = "int" /\ IntCell(Trailer[i]).val = Trailer[i]
    BY DEF IntCell
  <2> QED
    BY <2>1, <2>2 DEF IntAt
<1>4. /\ written_bytes - 12 = TrailerAt(Len(offsets) + 1)
      /\ written_bytes - 8 = TrailerAt(Len(offsets) + 2)
      /\ written_bytes - 4 = TrailerAt(Len(offsets) + 3)
  BY <1>1, SMT DEF Trailed, TrailerAt, IntSize
<1>5. /\ Len(offsets) + 1 \in 1..(Len(offsets) + 3)
      /\ Len(offsets) + 2 \in 1..(Len(offsets) + 3)
      /\ Len(offsets) + 3 \in 1..(Len(offsets) + 3)
  BY <1>1, SMT
<1>6. NumOffsets = Len(offsets) /\ StoredLength = size /\ StoredBlockSize = block_size
  BY <1>2, <1>3, <1>4, <1>5 DEF NumOffsets, StoredLength, StoredBlockSize
<1>7. FirstOffset = End
  BY <1>1, <1>6, SMT DEF FirstOffset, Trailed, TrailerAt, IntSize
<1>8. ASSUME NEW i \in 1..Len(offsets)
      PROVE  IntAt(FirstOffset + IntSize * (i - 1)) = offsets[i]
  <2>1. i \in 1..(Len(offsets) + 3)
    BY <1>1, SMT
  <2> QED
    BY <1>2, <1>3, <1>7, <2>1 DEF TrailerAt
<1> QED
  BY <1>1, <1>6, <1>7, <1>8 DEF Trailed

\* The quotient of division is the one whose multiples enclose the number.
LEMMA QuotientIs ==
    ASSUME NEW n \in Nat, NEW b \in Nat \ {0}, NEW k \in Nat,
           k * b <= n, n < (k + 1) * b
    PROVE  n \div b = k
<1> DEFINE q == n \div b
<1>1. q \in Nat /\ q * b <= n /\ n < (q + 1) * b
  BY DivBounds
<1> HIDE DEF q
<1>2. k * b \in Nat /\ (k + 1) * b \in Nat /\ q * b \in Nat /\ (q + 1) * b \in Nat
  BY <1>1, SMT
<1>3. k * b < (q + 1) * b /\ q * b < (k + 1) * b
  BY <1>1, <1>2, SMT
<1>4. k < q + 1 /\ q < k + 1
  BY <1>1, <1>3, FactorLess
<1> QED
  BY <1>1, <1>4, SMT DEF q

\* The decoder counts the blocks from the size alone, and right; of an empty file it may
\* expect one, and refuses the table then.
LEMMA EndBlockIs ==
    ASSUME IInv, RInv, ~Packing
    PROVE  /\ size > 0 => EndBlock = Blocks
           /\ NumOffsets > EndBlock => EndBlock = Blocks
<1>1. /\ Len(offsets) = Blocks + 1 /\ Blocks \in Nat /\ in_offset = size
      /\ NumOffsets = Len(offsets) /\ StoredLength = size /\ StoredBlockSize = block_size
  BY TrailerRead
<1>2. size \in Nat /\ block_size \in Nat \ {0} /\ size <= Blocks * block_size
      /\ (Blocks >= 1 => (Blocks - 1) * block_size < size)
  BY <1>1 DEF IInv, TypeOK, LoopPosition, RInv, Coded
<1>3. CASE size > 0
  <2>1. Blocks >= 1
    <3>1. Blocks # 0
      BY <1>2, <1>3, SMT
    <3> QED
      BY <1>1, <3>1, SMT
  <2>2. /\ (Blocks - 1) * block_size <= size - 1 /\ size - 1 < (Blocks - 1 + 1) * block_size
        /\ size - 1 \in Nat /\ Blocks - 1 \in Nat
    <3>1. /\ Blocks - 1 + 1 = Blocks /\ size - 1 \in Nat /\ Blocks - 1 \in Nat
      BY <1>1, <1>2, <1>3, <2>1, SMT
    <3>2. (Blocks - 1) * block_size \in Nat /\ Blocks * block_size \in Nat
      BY <1>1, <1>2, <3>1, SMT
    <3> QED
      BY <1>2, <2>1, <3>1, <3>2, SMT
  <2>3. (size - 1) \div block_size = Blocks - 1
    BY <1>2, <2>2, QuotientIs
  <2>4. EndBlock = Blocks
    BY <1>1, <1>2, <1>3, <2>3, SMT DEF EndBlock, CDiv
  <2> QED
    BY <2>4
<1>4. CASE size = 0
  <2>1. Blocks = 0
    <3>1. SUFFICES ASSUME Blocks >= 1 PROVE FALSE
      BY <1>1, SMT
    <3>2. Blocks - 1 \in Nat
      BY <1>1, <3>1, SMT
    <3>3. (Blocks - 1) * block_size \in Nat
      BY <1>2, <3>2, SMT
    <3> QED
      BY <1>2, <1>4, <3>1, <3>3, SMT
  <2>2. EndBlock = -(1 \div block_size) + 1
    BY <1>1, <1>4, SMT DEF EndBlock, CDiv
  <2>3. 1 \div block_size \in {0, 1}
    BY <1>2, SMT
  <2> QED
    BY <1>1, <1>4, <2>1, <2>2, <2>3, SMT
<1> QED
  BY <1>2, <1>3, <1>4, SMT

LEMMA ReadTableRound ==
    ASSUME IInv, RInv, ReadTable
    PROVE  RInv'
<1>1. /\ pc = "packed" /\ pc' = "decode" /\ NumOffsets > EndBlock
      /\ table' = [b \in 1..(EndBlock + 1) |-> IntAt(FirstOffset + IntSize * (b - 1))]
      /\ read_at' = table'[1] /\ currentBlock' = 0 /\ length' = StoredLength
      /\ UNCHANGED <<params, encVars, restored>>
  BY DEF ReadTable
<1>2. /\ UNCHANGED <<size, block_size, in_offset, offsets, image, written_bytes, restored>>
      /\ ~Packing /\ ~Packing'
  BY <1>1 DEF params, encVars, Packing
<1>3. /\ Len(offsets) = Blocks + 1 /\ Blocks \in Nat /\ StoredLength = size
      /\ \A i \in 1..Len(offsets) : IntAt(FirstOffset + IntSize * (i - 1)) = offsets[i]
  BY <1>2, TrailerRead
<1>4. EndBlock = Blocks
  BY <1>1, <1>2, EndBlockIs
<1>5. restored = <<>> /\ Trailed
  BY <1>1, <1>2 DEF RInv, Progress
<1>6. table' = offsets
  <2>1. offsets = [b \in 1..Len(offsets) |-> offsets[b]]
    BY SMT DEF IInv, TypeOK
  <2>2. table' = [b \in 1..Len(offsets) |-> offsets[b]]
    BY <1>1, <1>3, <1>4
  <2> QED
    BY <2>1, <2>2
<1>7. Decoding'
  <2>1. size \in Nat /\ block_size \in Nat
    BY DEF IInv, TypeOK
  <2>2. length' = size' - Smaller(size', currentBlock' * block_size')
    BY <1>1, <1>2, <1>3, <2>1, SMT DEF Smaller
  <2>3. currentBlock' \in 0..Blocks' /\ Len(restored') = currentBlock'
    BY <1>1, <1>2, <1>3, <1>5, SMT DEF Blocks
  <2>4. read_at' = offsets'[currentBlock' + 1]
    <3>1. currentBlock' + 1 = 1
      BY <1>1, SMT
    <3> QED
      BY <1>1, <1>2, <1>6, <3>1
  <2> QED
    BY <1>2, <1>6, <2>2, <2>3, <2>4 DEF Decoding
<1>8. Coded' /\ Restored'
  BY <1>2 DEF RInv, Coded, Restored, HeaderMatches, End, Blocks, IsCoded, From, BlockSize
<1>9. Trailed'
  BY <1>2, <1>5 DEF Trailed, TrailerAt, IsStored, Trailer, End
<1> QED
  BY <1>1, <1>2, <1>7, <1>8, <1>9 DEF RInv, Progress, Packing

\* The decoder stands at a block the compressor wrote, and hands LZ4 all of it.
LEMMA AtBlock ==
    ASSUME IInv, RInv, pc = "decode", currentBlock + 1 < Len(table)
    PROVE  LET i == currentBlock + 1
           IN /\ currentBlock \in Nat /\ i \in 1..Blocks
              /\ IsCoded(i) /\ read_at = offsets[i]
              /\ CmpBytes = offsets[i + 1] - offsets[i]
              /\ From(i) = currentBlock * block_size /\ From(i) \in Nat /\ From(i) < size
              /\ length = size - From(i)
              /\ DecodableAt(read_at, CmpBytes)
<1> DEFINE i == currentBlock + 1
<1>1. /\ size \in Nat /\ block_size \in Nat \ {0} /\ ~Packing /\ Decoding /\ Coded
  BY DEF IInv, TypeOK, RInv, Progress, Packing
<1>2. /\ Len(offsets) = Blocks + 1 /\ Blocks \in Nat /\ StoredBlockSize = block_size
  BY <1>1, TrailerRead
<1>3. currentBlock \in Nat /\ i \in 1..Blocks /\ i + 1 = currentBlock + 2 /\ i \in Nat
  BY <1>1, <1>2, SMT DEF Decoding
<1>4. /\ From(i) = currentBlock * block_size /\ From(i) \in Nat
      /\ From(Blocks) = (Blocks - 1) * block_size
  BY <1>3, FromNext DEF From
<1>5. From(i) < size
  <2>1. Blocks >= 1 /\ (Blocks - 1) * block_size < size
    BY <1>2, <1>3, SMT DEF IInv, LoopPosition
  <2>2. (Blocks - 1 - currentBlock) * block_size >= 0
    <3>1. Blocks - 1 - currentBlock \in Nat
      BY <1>2, <1>3, SMT
    <3> QED
      BY <1>1, <3>1, SMT
  <2>3. (Blocks - 1 - currentBlock) * block_size
           = (Blocks - 1) * block_size - currentBlock * block_size
        /\ (Blocks - 1) * block_size \in Int /\ currentBlock * block_size \in Int
    BY <1>1, <1>2, <1>3, SMT
  <2> QED
    BY <1>1, <1>4, <2>1, <2>2, <2>3, SMT
<1>6. length = size - From(i)
  BY <1>1, <1>4, <1>5, SMT DEF Decoding, Smaller
<1>7. IsCoded(i)
  BY <1>1, <1>3 DEF Coded
<1>8. read_at = offsets[i] /\ CmpBytes = offsets[i + 1] - offsets[i]
  BY <1>1, <1>3 DEF Decoding, CmpBytes
<1>9. DecodableAt(read_at, CmpBytes)
  <2> DEFINE cell == BlockCell(From(i), BlockSize(i), offsets[i + 1] - offsets[i], FALSE)
  <2>1. cell.kind = "block" /\ cell.len = offsets[i + 1] - offsets[i]
        /\ cell.n = BlockSize(i) /\ cell.chained = FALSE
    BY DEF BlockCell
  <2>2. BlockSize(i) <= block_size
    BY <1>1, <1>4, SMT DEF BlockSize, Smaller
  <2>3. read_at \in DOMAIN image /\ image[read_at] = cell
    BY <1>7, <1>8 DEF IsCoded
  <2> HIDE DEF cell
  <2> QED
    BY <1>2, <1>8, <2>1, <2>2, <2>3 DEF DecodableAt
<1> QED
  BY <1>3, <1>4, <1>5, <1>6, <1>7, <1>8, <1>9

LEMMA DecodeRound ==
    ASSUME IInv, RInv, DecodeBlock
    PROVE  RInv'
<1> DEFINE i == currentBlock + 1
           n == Smaller(length, image[read_at].n)
<1>1. pc = "decode" /\ currentBlock + 1 < Len(table) /\ UNCHANGED <<params, encVars, table>>
  BY DEF DecodeBlock
<1>2. /\ currentBlock \in Nat /\ i \in 1..Blocks
      /\ IsCoded(i) /\ read_at = offsets[i]
      /\ CmpBytes = offsets[i + 1] - offsets[i]
      /\ From(i) = currentBlock * block_size /\ From(i) \in Nat /\ From(i) < size
      /\ length = size - From(i)
      /\ DecodableAt(read_at, CmpBytes)
  BY <1>1, AtBlock
<1>3. /\ restored' = Append(restored, [at |-> StoredLength - length,
                                      from |-> image[read_at].from, n |-> n])
      /\ length' = length - n /\ read_at' = read_at + CmpBytes
      /\ currentBlock' = currentBlock + 1 /\ pc' = "decode"
  BY <1>1, <1>2 DEF DecodeBlock
<1>4. /\ UNCHANGED <<size, block_size, in_offset, offsets, image, written_bytes, table>>
      /\ ~Packing /\ ~Packing'
  BY <1>1, <1>3 DEF params, encVars, Packing
<1>5. /\ size \in Nat /\ block_size \in Nat \ {0} /\ Decoding /\ Coded /\ Restored /\ Trailed
  BY <1>1 DEF IInv, TypeOK, RInv, Progress, Packing
<1>6. /\ Len(offsets) = Blocks + 1 /\ Blocks \in Nat /\ StoredLength = size
  BY <1>4, TrailerRead
<1>7. image[read_at].from = From(i) /\ image[read_at].n = BlockSize(i)
  BY <1>2 DEF IsCoded, BlockCell
<1>8. /\ StoredLength - length = From(i)
      /\ n = Smaller(block_size, size - From(i)) /\ n \in Nat
  <2>1. n = Smaller(size - From(i), Smaller(block_size, size - From(i)))
    BY <1>2, <1>7 DEF BlockSize
  <2> HIDE DEF n, i
  <2> QED
    BY <1>2, <1>5, <1>6, <2>1, SMT DEF Smaller
<1> DEFINE piece == [at |-> From(i), from |-> From(i), n |-> n]
<1>9. restored' = Append(restored, piece) /\ piece \in Piece
  BY <1>2, <1>3, <1>7, <1>8 DEF Piece
<1> HIDE DEF n
<1>10. /\ Len(restored) = currentBlock /\ Len(restored') = currentBlock + 1
       /\ restored' \in Seq(Piece)
       /\ \A j \in 1..Len(restored) : restored'[j] = restored[j]
       /\ restored'[currentBlock + 1] = piece
  <2>1. restored \in Seq(Piece) /\ Len(restored) = currentBlock
    BY <1>5 DEF Restored, Decoding
  <2> HIDE DEF piece
  <2> QED
    BY <1>2, <1>9, <2>1, SMT
<1>11. Restored'
  <2>1. \A j \in 1..Len(restored') : From(j)' = From(j)
    BY <1>4 DEF From
  <2>2. ASSUME NEW j \in 1..Len(restored')
        PROVE  restored'[j].at = From(j) /\ restored'[j].from = From(j)
    <3>1. CASE j \in 1..Len(restored)
      BY <1>5, <1>10, <3>1 DEF Restored
    <3>2. CASE j = i
      BY <1>10, <3>2
    <3> QED
      BY <1>2, <1>10, <3>1, <3>2, SMT
  <2> QED
    BY <1>10, <2>1, <2>2 DEF Restored
<1>12. Decoding'
  <2>1. read_at' = offsets'[currentBlock' + 1]
    <3>1. i + 1 \in 1..Len(offsets) /\ i \in 1..Len(offsets)
      BY <1>2, <1>6, SMT
    <3>2. offsets[i] \in Nat /\ offsets[i + 1] \in Nat
      BY <3>1 DEF IInv, TypeOK
    <3>3. offsets[i] + (offsets[i + 1] - offsets[i]) = offsets[i + 1]
      BY <3>2, SMT
    <3> QED
      BY <1>2, <1>3, <1>4, <3>3
  <2>2. length' = size' - Smaller(size', currentBlock' * block_size')
    <3>1. (currentBlock + 1) * block_size = From(i) + block_size
      BY <1>2, FromNext
    <3>2. size - From(i) - n = size - Smaller(size, From(i) + block_size)
      BY <1>2, <1>5, <1>8, SMT DEF Smaller
    <3> QED
      BY <1>2, <1>3, <1>4, <3>1, <3>2
  <2>3. currentBlock' \in 0..Blocks' /\ Len(restored') = currentBlock'
    BY <1>2, <1>3, <1>4, <1>6, <1>10, SMT DEF Blocks
  <2> QED
    BY <1>4, <1>5, <2>1, <2>2, <2>3 DEF Decoding
<1>13. Coded' /\ Trailed'
  BY <1>4, <1>5 DEF Coded, HeaderMatches, End, Blocks, IsCoded, From, BlockSize,
                    Trailed, TrailerAt, IsStored, Trailer
<1> QED
  BY <1>3, <1>4, <1>11, <1>12, <1>13 DEF RInv, Progress, Packing

\* The other steps move pc alone.
LEMMA OtherRound ==
    ASSUME IInv, RInv,
           \/ CompressFails \/ EmptyOriginal \/ OffsetsMismatch \/ DecodeDone
           \/ Finished \/ UNCHANGED vars
    PROVE  RInv'
<1>1. UNCHANGED <<params, encVars, decVars>>
  BY DEF CompressFails, EmptyOriginal, OffsetsMismatch, DecodeDone, Finished, vars
<1>2. UNCHANGED <<size, block_size, in_offset, offsets, image, written_bytes,
                  table, currentBlock, read_at, length, restored>>
  BY <1>1 DEF params, encVars, decVars
<1>3. Coded' /\ Restored'
  BY <1>2 DEF RInv, Coded, HeaderMatches, End, Blocks, IsCoded, From, BlockSize, Restored
<1>4. End' = End /\ Trailed' = Trailed /\ Decoding' = Decoding
  BY <1>2 DEF Trailed, TrailerAt, IsStored, Trailer, End, Decoding, Blocks
<1>5. CASE CompressFails
  BY <1>2, <1>3, <1>4, <1>5 DEF CompressFails, RInv, Progress, Packing
<1>6. CASE EmptyOriginal
  BY <1>2, <1>3, <1>4, <1>6 DEF EmptyOriginal, RInv, Progress, Packing
<1>7. CASE OffsetsMismatch
  <2>1. pc = "packed" /\ pc' = "offsets_mismatch" /\ NumOffsets <= EndBlock /\ ~Packing
    BY <1>7 DEF OffsetsMismatch, Packing
  <2>2. ~(size > 0)
    <3> SUFFICES ASSUME size > 0 PROVE FALSE
      OBVIOUS
    <3>1. EndBlock = Blocks /\ NumOffsets = Blocks + 1 /\ Blocks \in Nat
      BY <2>1, EndBlockIs, TrailerRead
    <3> QED
      BY <2>1, <3>1, SMT
  <2> QED
    BY <1>2, <1>3, <1>4, <2>1, <2>2 DEF RInv, Progress, Packing
<1>8. CASE DecodeDone
  <2>1. pc = "decode" /\ pc' = "restored" /\ currentBlock + 1 >= Len(table) /\ ~Packing
    BY <1>8 DEF DecodeDone, Packing
  <2>2. /\ Len(offsets) = Blocks + 1 /\ Blocks \in Nat /\ Decoding /\ in_offset = size
        /\ Coded
    BY <2>1, TrailerRead DEF RInv, Progress
  <2>3. currentBlock = Blocks
    BY <2>1, <2>2, SMT DEF Decoding
  <2>4. size \in Nat /\ block_size \in Nat /\ size <= Blocks * block_size
    BY <2>2 DEF IInv, TypeOK, Coded
  <2>5. Blocks * block_size \in Nat
    BY <2>2, FromNext
  <2>6. length = 0
    BY <2>2, <2>3, <2>4, <2>5, SMT DEF Decoding, Smaller
  <2> QED
    BY <1>2, <1>3, <1>4, <2>1, <2>6 DEF RInv, Progress, Packing
<1>9. CASE Finished \/ UNCHANGED vars
  BY <1>2, <1>3, <1>4, <1>9 DEF Finished, vars, RInv, Progress, Packing
<1> QED
  BY <1>5, <1>6, <1>7, <1>8, <1>9

\* The stronger invariant of the round trip holds in every behaviour, too.
THEOREM RoundInvariant == Spec => []RInv
<1>1. Init => RInv
  <2> SUFFICES ASSUME Init PROVE RInv
    OBVIOUS
  <2>1. /\ size \in Nat /\ block_size \in Nat \ {0} /\ offsets = <<HeaderSize>>
        /\ Len(offsets) = 1 /\ Blocks = 0
        /\ in_offset = 0 /\ written_bytes = HeaderSize /\ pc = "compress"
        /\ restored = <<>> /\ length = 0 /\ image = [a \in {0} |-> HeaderCell]
    BY CodecAssumption DEF Init, CodecAssumption, Blocks
  <2>2. End = HeaderSize /\ End \in Nat
    BY <2>1 DEF End, HeaderSize
  <2>3. Coded
    BY <2>1, <2>2, SMT DEF Coded, HeaderMatches
  <2>4. Progress
    BY <2>1, <2>2 DEF Progress, Packing
  <2>5. Restored
    BY <2>1, SMT DEF Restored
  <2> QED
    BY <2>3, <2>4, <2>5 DEF RInv
<1>2. IInv /\ RInv /\ [Next]_vars => RInv'
  <2> SUFFICES ASSUME IInv, RInv, [Next]_vars PROVE RInv'
    OBVIOUS
  <2>1. CASE CompressBlock
    BY <2>1, BlockRound, CodecAssumption
  <2>2. CASE WriteTail
    BY <2>2, TailRound
  <2>3. CASE ReadTable
    BY <2>3, ReadTableRound
  <2>4. CASE DecodeBlock
    BY <2>4, DecodeRound
  <2>5. CASE ~(CompressBlock \/ WriteTail \/ ReadTable \/ DecodeBlock)
    BY <2>5, OtherRound DEF Next
  <2> QED
    BY <2>1, <2>2, <2>3, <2>4, <2>5
<1> QED
  BY <1>1, <1>2, Invariant, PTL DEF Spec

\* What the decoder writes is, piece by piece and in order, what the compressor read; a
\* file that is not empty and was coded never ends in an error: for any size, any block
\* size and any lengths LZ4 gives the blocks.
THEOREM DecoderGivesBack == Spec => []RoundTrip
<1>1. IInv /\ RInv => RoundTrip
  BY DEF RInv, Restored, Progress, RoundTrip, From
<1> QED
  BY <1>1, Invariant, RoundInvariant, PTL

\* No length the decoder computes from the stored table is larger than cmpBuf.
THEOREM CmpBufNeverOverflows == Spec => []CmpBufFits
<1>1. IInv /\ RInv => CmpBufFits
  <2> SUFFICES ASSUME IInv, RInv, pc = "decode", currentBlock + 1 < Len(table)
               PROVE  CmpBytes \in 1..LZ4_compressBound(block_size)
    BY DEF CmpBufFits
  <2> QED
    BY AtBlock DEF IsCoded
<1> QED
  BY <1>1, Invariant, RoundInvariant, PTL
=================================================================================
