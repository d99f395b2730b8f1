---------------------------------- MODULE Lz41 ----------------------------------
(***************************************************************************)
(* The LZ41 container: lz41_compress_memory / lz41_stream_compress (and    *)
(* their _HC twins, which differ only in the LZ4 entry point they call)    *)
(* followed by lz41_decompress_memory / lz41_stream_decompress on what was *)
(* written.  A file is cut into blocks of block_size bytes, each block is  *)
(* coded on its own, and a jump table, the original size and the block     *)
(* size are written behind the blocks; the decoder finds everything from   *)
(* the END of the file.                                                    *)
(*                                                                         *)
(* Bytes are not modelled.  The compressed file is a map from byte         *)
(* addresses to cells (the header, one LZ4 block, one 4-byte integer), and *)
(* a block cell remembers which bytes of the original it codes, so that    *)
(* all the address arithmetic of both sides is the code's own.             *)
(***************************************************************************)
EXTENDS Integers, Sequences

CONSTANTS
    Inputs,         \* pairs <<original size, LZ41CONFIG.block_size>> a behaviour may start with
                    \* (block_size is read unchecked from the ini file)
    CodedLengths    \* the lengths LZ4 may give a coded block; any positive number in general

ASSUME CodecAssumption ==
    /\ Inputs \subseteq Nat \X (Nat \ {0})
    /\ CodedLengths \subseteq Nat \ {0}

VARIABLES
    size,           \* original_size / file_size of this behaviour
    block_size,     \* config->block_size of this behaviour
    api,            \* "memory" or "stream": which decompressor reads the result
    pc,
    in_offset,      \* bytes of the original consumed so far
    offsets,        \* the jump table being built
    history,        \* TRUE when the LZ4 stream holds a dictionary from an earlier block
    image,          \* the compressed bytes: address -> cell
    written_bytes,
    table,          \* the offsets the decoder has read back
    currentBlock,
    read_at,        \* the decoder's position in the compressed bytes
    length,         \* bytes the decoder still has to produce
    restored        \* pieces written by the decoder: [at, from, n]

encVars == <<in_offset, offsets, history, image, written_bytes>>
decVars == <<table, currentBlock, read_at, length, restored>>
params == <<size, block_size, api>>
vars == <<params, pc, encVars, decVars>>
-----------------------------------------------------------------------------
HeaderSize == 5                     \* sizeof("LZ41"): the terminating NUL is written too
IntSize == 4
LZ4_MAX_INPUT_SIZE == 2113929216    \* 0x7E000000

LZ4_compressBound(n) ==
    IF n > LZ4_MAX_INPUT_SIZE THEN 0 ELSE n + (n \div 255) + 16

\* The longest block LZ4 can emit for n bytes: one run of n literals (token,
\* length bytes, literals).  Every match it finds only shortens the block.
LiteralRun(n) == n + 1 + (IF n >= 15 THEN (n - 15) \div 255 + 1 ELSE 0)

\* The lengths LZ4 may give n bytes coded on their own; below LZ4_minLength = 13 bytes
\* it looks for no match and emits the literal run.
BlockLengths(n) ==
    {c \in CodedLengths : c <= LiteralRun(n) /\ (n < 13 => c = LiteralRun(n))}

\* C's division of an int by a positive int truncates towards zero.
CDiv(a, b) == IF a >= 0 THEN a \div b ELSE -((-a) \div b)

Smaller(a, b) == IF a < b THEN a ELSE b

\* Mutant of MaxBlocks: the count of blocks without the slack of block_size ints.
BlocksOnly == LZ4_compressBound(size) \div block_size

\* malloc(max_blocks * sizeof(int)): the number of ints the jump table has room for.
MaxBlocks == LZ4_compressBound(size) \div block_size + block_size

\* Mutant of VpBufferSize: the usual LZ4 bound, which knows of no header and no table.
BoundOnly(n) == LZ4_compressBound(n)

\* compress_vp's output buffer: LZ4_compressBound(filesize) * 1.5
VpBufferSize(n) == (LZ4_compressBound(n) * 3) \div 2

AmountToRead == Smaller(block_size, size - in_offset)

\* Mutant of ResetStream: one dictionary for the whole file.
KeepDictionary(h) == h

\* LZ4_resetStream / LZ4_resetStreamHC: the next block is coded without a dictionary.
ResetStream(h) == FALSE

HeaderCell == [kind |-> "header"]
IntCell(v) == [kind |-> "int", val |-> v]
BlockCell(from, n, len, chained) ==
    [kind |-> "block", from |-> from, n |-> n, len |-> len, chained |-> chained]

Cell == {HeaderCell} \cup [kind : {"int"}, val : Nat]
        \cup [kind : {"block"}, from : Nat, n : Nat, len : Nat, chained : BOOLEAN]

Store(f, at, cell) == [a \in DOMAIN f \cup {at} |-> IF a = at THEN cell ELSE f[a]]

Init ==
    /\ \E i \in Inputs : size = i[1] /\ block_size = i[2]
    /\ api \in {"memory", "stream"}
    /\ pc = "compress"
    /\ in_offset = 0
    /\ offsets = <<HeaderSize>>
    /\ history = FALSE
    /\ image = [a \in {0} |-> HeaderCell]
    /\ written_bytes = HeaderSize
    /\ table = <<>>
    /\ currentBlock = 0
    /\ read_at = 0
    /\ length = 0
    /\ restored = <<>>

-----------------------------------------------------------------------------
(* Compression *)

\* One turn of the block loop.  LZ4 either fits the coded block into cmpBuf ...
CompressBlock ==
    /\ pc = "compress"
    /\ in_offset < size
    /\ \E cmpBytes \in BlockLengths(AmountToRead) :
         /\ cmpBytes <= LZ4_compressBound(block_size)
         /\ image' = Store(image, written_bytes,
                           BlockCell(in_offset, AmountToRead, cmpBytes, ResetStream(history)))
         /\ written_bytes' = written_bytes + cmpBytes
         /\ offsets' = Append(offsets, offsets[Len(offsets)] + cmpBytes)
    /\ in_offset' = in_offset + AmountToRead
    /\ history' = TRUE
    /\ pc' = IF Len(offsets') > MaxBlocks THEN "max_blocks_overflow" ELSE "compress"
    /\ UNCHANGED <<params, decVars>>

\* ... or returns 0, and the function returns LZ41_COMPRESSION_ERROR.
CompressFails ==
    /\ pc = "compress"
    /\ in_offset < size
    /\ \E cmpBytes \in BlockLengths(AmountToRead) :
         /\ cmpBytes > LZ4_compressBound(block_size)
    /\ pc' = "compression_error"
    /\ UNCHANGED <<params, encVars, decVars>>

\* The jump table, the number of offsets, the original size and the block size.
Trailer == offsets \o <<Len(offsets), size, block_size>>

WriteTail ==
    /\ pc = "compress"
    /\ in_offset >= size
    /\ LET at(i) == written_bytes + IntSize * (i - 1)
           places == {at(i) : i \in 1..Len(Trailer)}
       IN image' = [a \in DOMAIN image \cup places |->
                      IF a \in places
                      THEN IntCell(Trailer[(a - written_bytes) \div IntSize + 1])
                      ELSE image[a]]
    /\ written_bytes' = written_bytes + IntSize * Len(Trailer)
    /\ pc' = "packed"
    /\ UNCHANGED <<params, in_offset, offsets, history, decVars>>

-----------------------------------------------------------------------------
(* Decompression of the written_bytes bytes in image *)

Garbage == 1        \* what a read at an address that holds no integer yields

IntAt(a) == IF a \in DOMAIN image /\ image[a].kind = "int" THEN image[a].val ELSE Garbage

NumOffsets == IntAt(written_bytes - 12)
StoredLength == IntAt(written_bytes - 8)
StoredBlockSize == IntAt(written_bytes - 4)
EndBlock == CDiv(StoredLength - 1, StoredBlockSize) + 1
\* Mutant of FirstOffset: the int that holds the number of offsets is not counted.
FirstOffsetLate == written_bytes - 4 * NumOffsets - IntSize * 2

FirstOffset == written_bytes - 4 * (NumOffsets + 1) - IntSize * 2

HeaderMatches == 0 \in DOMAIN image /\ image[0] = HeaderCell

\* Only the stream version returns early on an empty original.
EmptyOriginal ==
    /\ pc = "packed"
    /\ HeaderMatches
    /\ api = "stream"
    /\ StoredLength = 0
    /\ pc' = "restored"
    /\ UNCHANGED <<params, encVars, decVars>>

OffsetsMismatch ==
    /\ pc = "packed"
    /\ HeaderMatches
    /\ api = "stream" => StoredLength # 0
    /\ NumOffsets <= EndBlock
    /\ pc' = "offsets_mismatch"
    /\ UNCHANGED <<params, encVars, decVars>>

ReadTable ==
    /\ pc = "packed"
    /\ HeaderMatches
    /\ api = "stream" => StoredLength # 0
    /\ NumOffsets > EndBlock
    /\ table' = [b \in 1..(EndBlock + 1) |-> IntAt(FirstOffset + IntSize * (b - 1))]
    /\ read_at' = table'[1]
    /\ currentBlock' = 0
    /\ length' = StoredLength
    /\ pc' = "decode"
    /\ UNCHANGED <<params, encVars, restored>>

CmpBytes == table[currentBlock + 2] - table[currentBlock + 1]

\* LZ4_decompress_safe_continue gives back the coded bytes when it is handed one
\* whole block that needs no dictionary; the decoder never keeps one, since decBuf
\* is overwritten by every block.
DecodableAt(a, len) ==
    /\ a \in DOMAIN image
    /\ image[a].kind = "block"
    /\ image[a].len = len
    /\ image[a].n <= StoredBlockSize
    /\ ~image[a].chained

DecodeBlock ==
    /\ pc = "decode"
    /\ currentBlock + 1 < Len(table)
    /\ IF DecodableAt(read_at, CmpBytes)
       THEN LET blockLength == Smaller(length, image[read_at].n)
            IN /\ restored' = Append(restored, [at |-> StoredLength - length,
                                               from |-> image[read_at].from,
                                               n |-> blockLength])
               /\ length' = length - blockLength
               /\ read_at' = read_at + CmpBytes
               /\ currentBlock' = currentBlock + 1
               /\ pc' = pc
       ELSE /\ pc' = "decompression_error"
            /\ UNCHANGED <<restored, length, read_at, currentBlock>>
    /\ UNCHANGED <<params, encVars, table>>

DecodeDone ==
    /\ pc = "decode"
    /\ currentBlock + 1 >= Len(table)
    /\ pc' = "restored"
    /\ UNCHANGED <<params, encVars, decVars>>

ErrorCodes == {"max_blocks_overflow", "compression_error",
               "offsets_mismatch", "decompression_error"}

Finished ==
    /\ pc \in ErrorCodes \cup {"restored"}
    /\ UNCHANGED vars

Next ==
    \/ CompressBlock \/ CompressFails \/ WriteTail
    \/ EmptyOriginal \/ OffsetsMismatch \/ ReadTable \/ DecodeBlock \/ DecodeDone
    \/ Finished

Spec == Init /\ [][Next]_vars

-----------------------------------------------------------------------------
(* Properties *)

\* Every variable has its type, and the byte counters never become negative.
TypeOK ==
    /\ size \in Nat
    /\ block_size \in Nat \ {0}
    /\ api \in {"memory", "stream"}
    /\ pc \in {"compress", "packed", "decode", "restored"} \cup ErrorCodes
    /\ in_offset \in 0..size
    /\ offsets \in Seq(Nat) /\ Len(offsets) >= 1
    /\ history \in BOOLEAN
    /\ \A a \in DOMAIN image : a \in Nat /\ image[a] \in Cell
    /\ written_bytes \in Nat
    /\ currentBlock \in Nat
    /\ length \in Int

\* The jump table is filled before it is checked: "*offsetsEnd = ..." comes first and
\* "> max_blocks" after it.  So the table must never become longer than its malloc,
\* whatever block_size the ini file holds, and LZ41_MAX_BLOCKS_OVERFLOW can never be
\* the answer (line 33 adds block_size, a number of bytes, to a number of blocks).
TableInBounds ==
    size <= LZ4_MAX_INPUT_SIZE => Len(offsets) <= MaxBlocks

\* What the decoder writes is, piece by piece and in order, the bytes the compressor
\* read, and a non-empty file whose blocks could be coded never ends in an error code.
RoundTrip ==
    /\ \A i \in 1..Len(restored) :
         /\ restored[i].at = restored[i].from
         /\ restored[i].at = (i - 1) * block_size
    /\ pc = "restored" => length = 0
    /\ size > 0 => pc \notin {"offsets_mismatch", "decompression_error"}

\* The decoder copies cmpBytes bytes into cmpBuf, malloc(LZ4_compressBound(block_size)),
\* with a length it computed from the stored table: it must fit.
CmpBufFits ==
    (pc = "decode" /\ currentBlock + 1 < Len(table))
        => CmpBytes \in 1..LZ4_compressBound(block_size)

\* lz41_compress_memory gets no buffer size: it relies on compress_vp's buffer of one
\* and a half times LZ4_compressBound.  For files of at least 4 bytes and blocks of at
\* least 64 bytes that is enough, jump table included.
OutBufferFits ==
    (size >= 4 /\ size <= LZ4_MAX_INPUT_SIZE /\ block_size >= 64)
        => written_bytes <= VpBufferSize(size)
=================================================================================
