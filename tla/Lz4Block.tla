------------------------------ MODULE Lz4Block ------------------------------
(***************************************************************************)
(* What an LZ4 block promises, whoever writes it and whoever reads it.  A  *)
(* block is a list of sequences: literals, then a match, which repeats     *)
(* bytes that lie at most DistanceMax back, in the text itself or in the   *)
(* dictionary in front of it; the last sequence is literals only.  The     *)
(* coders (Lz4Fast, Lz4Hc, Lz4Opt) and the decoder (Lz4Decoder) implement  *)
(* this module.                                                            *)
(*                                                                         *)
(* A sequence names its literals by the place they were copied from.       *)
(***************************************************************************)
EXTENDS Lz4Text

VARIABLES seqs,     \* the sequences written so far
          anchor,   \* the first position no sequence covers
          size,     \* the bytes the sequences take in the block
          result,   \* "coding", "coded" or "refused"
          out,      \* the dictionary and what has been decoded after it
          read      \* the number of sequences that have been decoded

writer == <<seqs, anchor, size, result>>
reader == <<out, read>>
blockVars == <<input, writer, reader>>

RUN_MASK == 15
ML_MASK == 15

\* Mutant of LZ4_COMPRESSBOUND: no room for the token.
BoundWithoutMargin(n) == n + (n \div 255)

LZ4_COMPRESSBOUND(n) == n + (n \div 255) + 16

(***************************************************************************)
(* The bytes after the token that a length needs which does not fit into   *)
(* its four bits, and the size of a sequence.                              *)
(***************************************************************************)
ExtraBytes(n) == IF n < RUN_MASK THEN 0 ELSE ((n - RUN_MASK) \div 255) + 1

LiteralsSize(ll) == 1 + ExtraBytes(ll) + ll

SequenceSize(ll, ml) == LiteralsSize(ll) + 2 + ExtraBytes(ml - MINMATCH)

Sequence == [at : Nat, ll : Nat, off : Nat, ml : Nat]

BlockInit ==
    /\ input \in Inputs
    /\ seqs = <<>>
    /\ anchor = Start
    /\ size = 0
    /\ result = "coding"
    /\ out = SubSeq(input.bytes, 1, Start)
    /\ read = 0

(***************************************************************************)
(* The next sequence: a match of n bytes at p.  No match begins among the  *)
(* last 12 bytes or reaches the last 5.                                    *)
(***************************************************************************)
Emit(p, n) ==
    /\ result = "coding"
    /\ p \in anchor..(End - MFLIMIT)
    /\ n \in MINMATCH..(End - LASTLITERALS - p)
    /\ anchor' = p + n
    /\ size' = size + SequenceSize(p - anchor, n)
    /\ \E off \in 1..DistanceMax :
          /\ seqs' = Append(seqs, [at |-> anchor, ll |-> p - anchor,
                                   off |-> off, ml |-> n])
          /\ IsMatch(p, off, n)
    /\ UNCHANGED <<input, result, reader>>

(***************************************************************************)
(* The last sequence: n literals.  A coder that is to fill its output may  *)
(* stop before the end of the text; the rules about the last bytes then    *)
(* count from where it stops.                                              *)
(***************************************************************************)
EndOfBlockRules(n) ==
    seqs # <<>> => /\ n >= LASTLITERALS
                   /\ seqs[Len(seqs)].ml + n >= MFLIMIT

LastLiterals(n) ==
    /\ result = "coding"
    /\ anchor + n <= End
    /\ EndOfBlockRules(n)
    /\ seqs' = Append(seqs, [at |-> anchor, ll |-> n, off |-> 0, ml |-> 0])
    /\ anchor' = anchor + n
    /\ size' = size + LiteralsSize(n)
    /\ result' = "coded"
    /\ UNCHANGED <<input, reader>>

(* The coder gives up: 0 is returned and there is no block. *)
Refuse ==
    /\ result = "coding"
    /\ result' = "refused"
    /\ UNCHANGED <<input, seqs, anchor, size, reader>>

(***************************************************************************)
(* n bytes are appended that repeat, one by one, those off bytes before    *)
(* them; where off is less than n the copy reads what it has written.      *)
(***************************************************************************)
Copied(o, off, n) ==
    [i \in 1..(Len(o) + n) |->
        IF i <= Len(o) THEN o[i]
        ELSE o[Len(o) - off + 1 + ((i - Len(o) - 1) % off)]]

ReadSequence ==
    /\ result = "coded"
    /\ read < Len(seqs)
    /\ LET s == seqs[read + 1]
           o == out \o SubSeq(input.bytes, s.at + 1, s.at + s.ll)
       IN out' = IF s.ml = 0 THEN o ELSE Copied(o, s.off, s.ml)
    /\ read' = read + 1
    /\ UNCHANGED <<input, writer>>

BlockNext ==
    \/ \E end \in (anchor + MINMATCH)..(End - LASTLITERALS) :
          /\ anchor' = end
          /\ \E n \in MINMATCH..(end - anchor) : Emit(end - n, n)
    \/ \E n \in 0..TextLength : LastLiterals(n)
    \/ Refuse
    \/ ReadSequence

BlockSpec == BlockInit /\ [][BlockNext]_blockVars

(***************************************************************************)
(* The block is never longer than LZ4_COMPRESSBOUND says, whatever matches *)
(* were taken (the buffers of the callers have that size).                 *)
(***************************************************************************)
WithinBound ==
    result = "coded" => size <= LZ4_COMPRESSBOUND(TextLength)

(***************************************************************************)
(* What is decoded is a prefix of the text at every moment, and all that   *)
(* was coded when the block has been read, although matches may overlap    *)
(* themselves.                                                             *)
(***************************************************************************)
Regenerates ==
    /\ out = SubSeq(input.bytes, 1, Len(out))
    /\ result = "coded" /\ read = Len(seqs) => Len(out) = anchor
=============================================================================
