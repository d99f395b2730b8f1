------------------------------ MODULE Lz4Decoder ----------------------------
(***************************************************************************)
(* LZ4_decompress_generic as the safe decoders instantiate it, with its    *)
(* copies of 8, 16 and 32 bytes at a time.  They write behind the place    *)
(* they are for, and what they write there must be written again before    *)
(* anybody reads it, and must never lie behind the output buffer.          *)
(*                                                                         *)
(* Memory is one list of addresses: the prefix, the output buffer of room  *)
(* bytes, and a fence behind it.  A dictionary that does not lie in front  *)
(* of the output is held apart.  Any block of Lz4Block may be decoded; its *)
(* coder is the abstract one.                                              *)
(*                                                                         *)
(* An input says, besides dictionary and text,                             *)
(*   ext      how much of the dictionary lies apart                        *)
(*   dict     the dict_directive                                           *)
(*   partial  partialDecoding                                              *)
(*   room     outputSize                                                   *)
(*   least    the length of the shortest match in the block                *)
(*   lost     how much of the dictionary the decoder does not have         *)
(*   cut      how many bytes are missing at the end of the block           *)
(***************************************************************************)
EXTENDS Integers, Sequences, FiniteSetsExt

CONSTANTS Byte, Inputs, DistanceMax

VARIABLES input, seqs, anchor, size, result,    \* the coder (Lz4Block)
          src,      \* the bytes of the block
          mem,      \* the prefix, the output and the fence
          pc, ip, op,
          token, length, offset,
          ret,      \* what the call has returned
          done,     \* op when the last whole sequence had been decoded
          read      \* the sequences that have been decoded

Apart == input.lost + input.ext

Prefix == input.start - Apart

Written == SubSeq(input.bytes, 1, Apart) \o [i \in 1..done |-> mem[i - 1]]

B == INSTANCE Lz4Block WITH out <- Written

LZ4_DISTANCE_ABSOLUTE_MAX == 65535

ASSUME DecoderAssumption ==
    /\ B!InputsAssumption
    /\ \A i \in Inputs :
          /\ i.lost \in 0..i.start /\ i.ext \in 0..(i.start - i.lost)
          /\ i.cut \in Nat
          /\ i.dict \in {"noDict", "withPrefix64k", "usingExtDict"}
          /\ i.dict # "usingExtDict" => i.ext = 0
          /\ i.partial \in BOOLEAN /\ i.room \in Nat /\ i.least \in Nat
    /\ Byte \subseteq 0..255
    /\ DistanceMax <= LZ4_DISTANCE_ABSOLUTE_MAX

coderVars == <<input, seqs, anchor, size, result>>
place == <<pc, ip, op, token, length, offset>>
decoderVars == <<src, mem, place, ret, done, read>>

RUN_MASK == 15
ML_MASK == 15
MINMATCH == 4
MFLIMIT == 12
LASTLITERALS == 5
WILDCOPYLENGTH == 8
MATCH_SAFEGUARD_DISTANCE == 12
FASTLOOP_SAFE_DISTANCE == 64

Fence == 1000           \* what lies behind the output buffer
Undefined == 1001       \* what an overlapping memcpy leaves

iend == Len(src)
oend == Prefix + input.room
Src(p) == IF p < iend THEN src[p + 1] ELSE Undefined

(***************************************************************************)
(* The bytes of a sequence: a token of two lengths of four bits, the rest  *)
(* of the first length, the literals, the offset, and the rest of the      *)
(* second length.                                                          *)
(***************************************************************************)
Rest(n) ==
    IF n < RUN_MASK THEN <<>>
    ELSE [i \in 1..((n - RUN_MASK) \div 255) |-> 255] \o <<(n - RUN_MASK) % 255>>

Nibble(n) == IF n < RUN_MASK THEN n ELSE RUN_MASK

SequenceBytes(s) ==
    LET literals == SubSeq(input.bytes, s.at + 1, s.at + s.ll)
    IN IF s.ml = 0 THEN <<16 * Nibble(s.ll)>> \o Rest(s.ll) \o literals
       ELSE <<16 * Nibble(s.ll) + Nibble(s.ml - MINMATCH)>> \o Rest(s.ll)
               \o literals \o <<s.off % 256, s.off \div 256>>
               \o Rest(s.ml - MINMATCH)

Block == SubSeq(src, 1, Len(src) - input.cut)

(***************************************************************************)
(* Copies into memory m, to address d.  memcpy is undefined where source   *)
(* and destination overlap, and so is what lies in front of the prefix,    *)
(* where nobody looks for the offsets of withPrefix64k.                    *)
(***************************************************************************)
At(m, a) == IF a < 0 THEN Undefined ELSE m[a]

Zeros(m, d, n) == [a \in DOMAIN m |-> IF a \in d..(d + n - 1) THEN 0 ELSE m[a]]

FromBlock(m, d, p, n) ==
    [a \in DOMAIN m |-> IF a \in d..(d + n - 1) THEN Src(p + a - d) ELSE m[a]]

FromDict(m, d, p, n) ==
    [a \in DOMAIN m |-> IF a \in d..(d + n - 1) THEN input.bytes[input.lost + p + a - d + 1]
                        ELSE m[a]]

memcpy(m, d, s, n) ==
    [a \in DOMAIN m |-> IF a \notin d..(d + n - 1) THEN m[a]
                        ELSE IF s + n <= d \/ d + n <= s THEN At(m, s + a - d)
                        ELSE Undefined]

(* Byte by byte, reading what has been written. *)
ByteCopy(m, d, s, n) ==
    [a \in DOMAIN m |-> IF a \in d..(d + n - 1) /\ d # s
                        THEN At(m, s + ((a - d) % (d - s)))
                        ELSE m[a]]

(***************************************************************************)
(* Rounds of w bytes from d to e, one at least.  Each memcpy reads what    *)
(* those before it have written, so together they copy byte by byte.       *)
(***************************************************************************)
Rounds(d, e, w) == IF e <= d THEN 1 ELSE (e - d + w - 1) \div w

Copies(m, d, s, n, w) ==
    IF d - s >= w THEN ByteCopy(m, d, s, n)
    ELSE [a \in DOMAIN m |-> IF a \in d..(d + n - 1) THEN Undefined ELSE m[a]]

wildCopy8(m, d, s, e) == Copies(m, d, s, 8 * Rounds(d, e, 8), 8)

\* Mutant of wildCopy32: one memcpy a round.
OneCopyARound(m, d, s, e) == Copies(m, d, s, 32 * Rounds(d, e, 32), 32)

(* Two times 16 bytes a round, for the sake of offsets from 16 to 31. *)
wildCopy32(m, d, s, e) == Copies(m, d, s, 32 * Rounds(d, e, 32), 16)

inc32table == <<0, 1, 2, 1, 0, 4, 4, 4>>
dec64table == <<0, 0, 0, -1, -4, 1, 2, 3>>

(***************************************************************************)
(* The first 8 bytes of a match, and the place the next ones come from,    *)
(* which is 8 bytes away from them or more.                                *)
(***************************************************************************)
FirstEight(m, d, s) ==
    LET o == d - s
    IN IF o < 8
       THEN memcpy(ByteCopy(Zeros(m, d, 4), d, s, 4), d + 4, s + inc32table[o + 1], 4)
       ELSE memcpy(m, d, s, 8)

AfterEight(d, s) ==
    LET o == d - s
    IN IF o < 8 THEN s + inc32table[o + 1] - dec64table[o + 1] ELSE s + 8

(* LZ4_memcpy_using_offset: a pattern of 8 bytes where the offset is 1, 2, 4. *)
CopyUsingOffset(m, d, s, e) ==
    IF d - s \in {1, 2, 4} THEN ByteCopy(m, d, s, 8 * Rounds(d, e, 8))
    ELSE wildCopy8(FirstEight(m, d, s), d + 8, AfterEight(d, s), e)

(***************************************************************************)
(* read_variable_length: bytes are added as long as they are 255, and no   *)
(* further than to check.                                                  *)
(***************************************************************************)
ReadLength(p, check) ==
    LET k == CHOOSE k \in 1..(iend + 1) :
                 /\ Src(p + k - 1) # 255 \/ p + k >= check
                 /\ \A j \in 1..(k - 1) : Src(p + j - 1) = 255 /\ p + j < check
    IN [n |-> 255 * (k - 1) + Src(p + k - 1), at |-> p + k,
        stopped |-> p + k >= check]

LE16(p) == Src(p) + 256 * Src(p + 1)

LiteralNibble(t) == t \div 16
MatchNibble(t) == t % 16

match == op - offset

\* Mutant of Outside: the dictionary that lies apart is forgotten.
OutsideOutput(m) == input.ext < 65536 /\ m < 0

(***************************************************************************)
(* checkOffset: the match begins before the dictionary.  With a prefix of  *)
(* 64 KB - 1 or more the code takes dest - 64 KB for its beginning, which  *)
(* is the same test: an offset of two bytes reaches behind neither.        *)
(***************************************************************************)
Outside(m) == input.ext < 65536 /\ m + input.ext < 0

(***************************************************************************)
(* The abstract coder writes a block, and the decoder is called with it.   *)
(***************************************************************************)
Init ==
    /\ input \in Inputs
    /\ seqs = <<>> /\ anchor = input.start /\ size = 0 /\ result = "coding"
    /\ read = 0
    /\ src = <<>>
    /\ done = Prefix
    /\ mem = [a \in 0..(oend + FASTLOOP_SAFE_DISTANCE) |->
                 IF a < Prefix THEN input.bytes[Apart + a + 1]
                 ELSE IF a < oend THEN 0 ELSE Fence]
    /\ pc = "coding"
    /\ ip = 0 /\ op = Prefix /\ token = 0 /\ length = 0 /\ offset = 0
    /\ ret = 0

Code ==
    /\ pc = "coding"
    /\ UNCHANGED <<mem, place, ret, done, read>>
    /\ \/ \E end \in (anchor + input.least)..(B!End - LASTLITERALS) :
             \E n \in input.least..(end - anchor) : B!Emit(end - n, n)
       \/ B!LastLiterals(B!End - anchor)
    /\ src' = src \o SequenceBytes(seqs'[Len(seqs')])

Return(value) == pc' = "returned" /\ ret' = value

(***************************************************************************)
(* A whole sequence has been decoded when op has come as far as it says.   *)
(***************************************************************************)
CountSequence ==
    IF read < Len(seqs) /\ op' = done + seqs[read + 1].ll + seqs[read + 1].ml
    THEN done' = op' /\ read' = read + 1
    ELSE UNCHANGED <<done, read>>

Begin ==
    /\ pc = "coding" /\ result = "coded"
    /\ src' = Block
    /\ \/ input.room = 0 /\ input.partial /\ Return(0)
       \/ /\ input.room = 0 /\ ~ input.partial
          /\ Return(IF Block = <<0>> THEN 0 ELSE -1)
       \/ input.room > 0 /\ Block = <<>> /\ Return(-1)
       \/ /\ input.room > 0 /\ Block # <<>>
          /\ pc' = IF input.room < FASTLOOP_SAFE_DISTANCE THEN "safe" ELSE "fast"
          /\ UNCHANGED ret
    /\ UNCHANGED <<mem, ip, op, token, length, offset, done, read>>

(***************************************************************************)
(* The literals of a sequence: how many, and where they lie in the block.  *)
(***************************************************************************)
ReadLiterals(t) ==
    IF LiteralNibble(t) # RUN_MASK
    THEN [n |-> LiteralNibble(t), at |-> ip + 1]
    ELSE LET r == ReadLength(ip + 1, iend - RUN_MASK)
         IN [n |-> RUN_MASK + r.n, at |-> r.at]

LengthOutside(t) == LiteralNibble(t) = RUN_MASK /\ ip + 1 >= iend - RUN_MASK

LengthFails ==
    /\ pc \in {"fast", "safe"}
    /\ LengthOutside(Src(ip))
    /\ Return(-1)
    /\ UNCHANGED <<src, mem, ip, op, token, length, offset, done, read>>

(***************************************************************************)
(* The fast loop.  It copies 16 or 32 bytes for the literals, and leaves   *)
(* for the careful code near the end of the block or of the output.        *)
(***************************************************************************)
FastLiterals ==
    LET t    == Src(ip)
        long == LiteralNibble(t) = RUN_MASK
        l    == ReadLiterals(t)
        near == IF long THEN op + l.n > oend - 32 \/ l.at + l.n > iend - 32
                ELSE l.at > iend - (16 + 1)
    IN /\ pc = "fast" /\ ~ LengthOutside(t)
       /\ token' = t
       /\ \/ /\ near
             /\ pc' = "literals"
             /\ ip' = l.at
             /\ length' = l.n
             /\ UNCHANGED <<op, mem>>
          \/ /\ ~ near
             /\ pc' = "fastmatch"
             /\ mem' = FromBlock(mem, op, l.at,
                           IF long THEN 32 * Rounds(op, op + l.n, 32) ELSE 16)
             /\ ip' = l.at + l.n
             /\ op' = op + l.n
             /\ UNCHANGED length
       /\ UNCHANGED <<src, offset, ret, done, read>>

(***************************************************************************)
(* The offset and the length of the match.  Short ones are copied at once  *)
(* as 18 bytes, if they do not overlap themselves within 8.                *)
(***************************************************************************)
Near(m) == input.dict = "withPrefix64k" \/ m >= 0

Copy18(m, d, s) ==
    memcpy(memcpy(memcpy(m, d, s, 8), d + 8, s + 8, 8), d + 16, s + 16, 2)

FastMatch ==
    LET o      == LE16(ip)
        nibble == MatchNibble(token)
        long   == nibble = ML_MASK
        r      == ReadLength(ip + 2, iend - LASTLITERALS + 1)
        n      == MINMATCH + IF long THEN nibble + r.n ELSE nibble
        fails  == long /\ (Outside(op - o) \/ r.stopped)
        close  == op + n >= oend - FASTLOOP_SAFE_DISTANCE
        atOnce == ~ long /\ Near(op - o) /\ o >= 8
    IN /\ pc = "fastmatch"
       /\ \/ fails /\ Return(-1) /\ UNCHANGED <<op, mem>>
          \/ /\ ~ fails /\ ~ (atOnce /\ ~ close)
             /\ pc' = IF close THEN "match" ELSE "fastcopy"
             /\ UNCHANGED <<op, mem, ret>>
          \/ /\ ~ fails /\ atOnce /\ ~ close
             /\ mem' = Copy18(mem, op, op - o)
             /\ op' = op + n
             /\ pc' = "fast"
             /\ UNCHANGED ret
       /\ offset' = o
       /\ length' = n
       /\ ip' = IF long THEN r.at ELSE ip + 2
       /\ CountSequence
       /\ UNCHANGED <<src, token>>

(***************************************************************************)
(* A match of n bytes that begins in the dictionary held apart, and may    *)
(* reach from its end into what has been decoded.                          *)
(***************************************************************************)
DictCopied(n) ==
    LET part == IF n <= -match THEN n ELSE -match
        m    == FromDict(mem, op, input.ext + match, part)
        rest == n - part
    IN IF rest > op + part THEN ByteCopy(m, op + part, 0, rest)
       ELSE memcpy(m, op + part, 0, rest)

InDictionary == input.dict = "usingExtDict" /\ match < 0

FastCopy ==
    /\ pc = "fastcopy"
    /\ \/ Outside(match) /\ Return(-1) /\ UNCHANGED <<op, mem>>
       \/ /\ ~ Outside(match)
          /\ mem' = IF InDictionary THEN DictCopied(length)
                    ELSE IF offset < 16
                    THEN CopyUsingOffset(mem, op, match, op + length)
                    ELSE wildCopy32(mem, op, match, op + length)
          /\ op' = op + length
          /\ pc' = "fast"
          /\ UNCHANGED ret
    /\ CountSequence
    /\ UNCHANGED <<src, ip, token, length, offset>>

(***************************************************************************)
(* The careful loop.  Far from both ends its shortcut copies 16 bytes for  *)
(* the literals and 18 for the match.                                      *)
(***************************************************************************)
InShortcut(t) ==
    /\ LiteralNibble(t) # RUN_MASK
    /\ ip + 1 < iend - 14 - 2
    /\ op <= oend - 14 - 18

Shortcut ==
    LET t == Src(ip)
        d == op + LiteralNibble(t)
        p == ip + 1 + LiteralNibble(t)
        o == LE16(p)
        m == FromBlock(mem, op, ip + 1, 16)
        both == MatchNibble(t) # ML_MASK /\ o >= 8 /\ Near(d - o)
    IN /\ pc = "safe" /\ InShortcut(t)
       /\ token' = t
       /\ offset' = o
       /\ ip' = p + 2
       /\ \/ /\ both
             /\ mem' = Copy18(m, d, d - o)
             /\ op' = d + MatchNibble(t) + MINMATCH
             /\ UNCHANGED pc
          \/ /\ ~ both
             /\ mem' = m
             /\ op' = d
             /\ pc' = "length"
       /\ CountSequence
       /\ UNCHANGED <<src, length, ret>>

SafeLiterals ==
    LET t == Src(ip)
        l == ReadLiterals(t)
    IN /\ pc = "safe" /\ ~ InShortcut(t) /\ ~ LengthOutside(t)
       /\ token' = t
       /\ ip' = l.at
       /\ length' = l.n
       /\ pc' = "literals"
       /\ UNCHANGED <<src, mem, op, offset, ret, done, read>>

(***************************************************************************)
(* safe_literal_copy.  Near the end of the block or of the output these    *)
(* must be the last literals, unless the caller asked for a part only.     *)
(***************************************************************************)
AtEnd == op + length > oend - MFLIMIT
            \/ ip + length > iend - (2 + 1 + LASTLITERALS)

LastCopied ==
    IF input.partial THEN Min({length, iend - ip, oend - op}) ELSE length

CopyLiterals ==
    /\ pc = "literals" /\ ~ AtEnd
    /\ mem' = FromBlock(mem, op, ip, 8 * Rounds(op, op + length, 8))
    /\ op' = op + length
    /\ offset' = LE16(ip + length)
    /\ ip' = ip + length + 2
    /\ pc' = "length"
    /\ UNCHANGED <<src, token, length, ret, done, read>>

CopyLastLiterals ==
    LET n    == LastCopied
        last == ~ input.partial \/ op + n = oend \/ ip + n >= iend - 2
    IN /\ pc = "literals" /\ AtEnd
       /\ \/ /\ ~ input.partial
             /\ ip + length # iend \/ op + length > oend
             /\ Return(-1)
             /\ UNCHANGED <<mem, ip, op, offset>>
          \/ /\ input.partial \/ ~ (ip + length # iend \/ op + length > oend)
             /\ mem' = FromBlock(mem, op, ip, n)
             /\ op' = op + n
             /\ \/ last /\ Return(op + n - Prefix)
                        /\ ip' = ip + n /\ UNCHANGED offset
                \/ /\ ~ last /\ pc' = "length"
                   /\ offset' = LE16(ip + n)
                   /\ ip' = ip + n + 2
                   /\ UNCHANGED ret
       /\ CountSequence
       /\ UNCHANGED <<src, token, length>>

(* _copy_match: the rest of the length. *)
MatchLength ==
    LET nibble == MatchNibble(token)
        r      == ReadLength(ip, iend - LASTLITERALS + 1)
    IN /\ pc = "length"
       /\ \/ nibble = ML_MASK /\ r.stopped /\ Return(-1)
          \/ ~ (nibble = ML_MASK /\ r.stopped) /\ pc' = "match" /\ UNCHANGED ret
       /\ length' = MINMATCH + IF nibble = ML_MASK THEN nibble + r.n ELSE nibble
       /\ ip' = IF nibble = ML_MASK THEN r.at ELSE ip
       /\ UNCHANGED <<src, mem, op, token, offset, done, read>>

(***************************************************************************)
(* safe_match_copy.  Before the last 12 bytes of the output 8 are copied   *)
(* at a time; the last ones are copied one by one.                         *)
(***************************************************************************)
CopyDictMatch ==
    LET over == op + length > oend - LASTLITERALS
        n    == IF over THEN Min({length, oend - op}) ELSE length
    IN /\ pc = "match" /\ ~ Outside(match) /\ InDictionary
       /\ ~ over \/ input.partial
       /\ mem' = DictCopied(n)
       /\ op' = op + n
       /\ pc' = "safe"
       /\ CountSequence
       /\ UNCHANGED <<src, ip, token, length, offset, ret>>

CopyPart ==
    LET n == Min({length, oend - op})
    IN /\ pc = "match" /\ ~ Outside(match) /\ ~ InDictionary
       /\ input.partial /\ op + length > oend - MATCH_SAFEGUARD_DISTANCE
       /\ mem' = IF match + n > op THEN ByteCopy(mem, op, match, n)
                 ELSE memcpy(mem, op, match, n)
       /\ op' = op + n
       /\ \/ op + n = oend /\ Return(op + n - Prefix)
          \/ op + n # oend /\ pc' = "safe" /\ UNCHANGED ret
       /\ CountSequence
       /\ UNCHANGED <<src, ip, token, length, offset>>

\* Mutant of NearEnd: what the block may not reach instead of what a copy may.
NearLiterals == op + length > oend - LASTLITERALS

NearEnd == op + length > oend - MATCH_SAFEGUARD_DISTANCE

LastBytes(m, d, s, limit, e) ==
    IF d >= limit THEN ByteCopy(m, d, s, e - d)
    ELSE ByteCopy(wildCopy8(m, d, s, limit), limit, s + limit - d, e - limit)

CopyMatch ==
    LET m == FirstEight(mem, op, match)
        s == AfterEight(op, match)
        d == op + 8
        e == op + length
    IN /\ pc = "match" /\ ~ Outside(match) /\ ~ InDictionary
       /\ ~ (input.partial /\ NearEnd)
       /\ \/ /\ NearEnd /\ e > oend - LASTLITERALS
             /\ Return(-1)
             /\ mem' = m
             /\ UNCHANGED op
          \/ /\ ~ (NearEnd /\ e > oend - LASTLITERALS)
             /\ mem' = IF NearEnd
                       THEN LastBytes(m, d, s, oend - (WILDCOPYLENGTH - 1), e)
                       ELSE IF length > 16
                       THEN wildCopy8(memcpy(m, d, s, 8), d + 8, s + 8, e)
                       ELSE memcpy(m, d, s, 8)
             /\ op' = e
             /\ pc' = "safe"
             /\ UNCHANGED ret
       /\ CountSequence
       /\ UNCHANGED <<src, ip, token, length, offset>>

MatchFails ==
    /\ pc = "match"
    /\ \/ Outside(match)
       \/ InDictionary /\ ~ input.partial /\ op + length > oend - LASTLITERALS
    /\ Return(-1)
    /\ UNCHANGED <<src, mem, ip, op, token, length, offset, done, read>>

Decode ==
    /\ UNCHANGED coderVars
    /\ \/ Begin \/ LengthFails
       \/ FastLiterals \/ FastMatch \/ FastCopy
       \/ Shortcut \/ SafeLiterals \/ CopyLiterals \/ CopyLastLiterals
       \/ MatchLength \/ CopyDictMatch \/ CopyPart \/ CopyMatch \/ MatchFails

Next == Code \/ Decode

vars == <<coderVars, decoderVars>>

(* A call of the decoder runs in one thread and waits for nobody. *)
Spec == Init /\ [][Next]_vars /\ WF_vars(Decode)

(***************************************************************************)
(* Whatever the wide copies do, what has been decoded is what Lz4Block     *)
(* says the sequences mean, one after the other.                           *)
(***************************************************************************)
ImplementsReader == B!BlockSpec

(***************************************************************************)
(* Nothing is written behind the output buffer, whatever its size, and     *)
(* although most copies are wider than what they are for.                  *)
(***************************************************************************)
WritesInside ==
    \A a \in DOMAIN mem : (mem[a] = Fence) <=> (a >= oend)

(***************************************************************************)
(* Every call returns, and with the length of the text where the output    *)
(* has room for it.  Where it has not, the call fails, or returns as many  *)
(* bytes as there is room for if it was asked for a part.  A block that    *)
(* has been cut off, or needs a part of the dictionary that the decoder    *)
(* does not have, is never taken for the whole text.  In every case the    *)
(* bytes that are returned are those of the text.                          *)
(***************************************************************************)
Damaged ==
    \/ input.cut > 0
    \/ \E i \in 1..Len(seqs) :
          seqs[i].ml > 0 /\ seqs[i].at + seqs[i].ll - seqs[i].off < input.lost

TextReturned ==
    \A i \in 0..(ret - 1) :
        mem[Prefix + i] = input.bytes[input.start + i + 1]

AnswersRight ==
    result = "coded" ~>
        /\ pc = "returned"
        /\ LET text == B!TextLength
           IN IF Damaged THEN ret < text
              ELSE IF input.partial THEN ret = Min({text, input.room})
              ELSE IF text > input.room THEN ret < 0
              ELSE ret = text
        /\ TextReturned
=============================================================================
