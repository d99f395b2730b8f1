------------------------------ MODULE Lz4Coder ------------------------------
(***************************************************************************)
(* What the three block coders of the LZ4 library share: the output limit, *)
(* the counting of common bytes, and the last literals of a block.  The    *)
(* coders differ in how they look for matches (Lz4Fast, Lz4Hc, Lz4Opt).    *)
(*                                                                         *)
(* An input says, besides dictionary and text, how the coder is called:    *)
(*   coder  "fast", "hc" or "opt"                                          *)
(*   dir    the limitedOutput_directive                                    *)
(*   room   maxOutputSize                                                  *)
(***************************************************************************)
EXTENDS Lz4Block, FiniteSetsExt

Directives == {"notLimited", "limitedOutput", "fillOutput"}

ASSUME CallsAssumption ==
    \A i \in Inputs : /\ i.mode \in {"prefix", "ext", "ctx"}
                      /\ i.coder \in {"fast", "hc", "opt"}
                      /\ i.dir \in Directives
                      /\ i.room \in Nat

VARIABLES pc,   \* where the coder is
          ip,   \* the position it looks at
          top   \* the end of all that has been written to the output, also of
                \* copies that go further than they need to

limited == input.dir # "notLimited"

(***************************************************************************)
(* One sequence more: a match of n bytes at p, after which op bytes of the *)
(* output are used.                                                        *)
(***************************************************************************)
AddSequence(p, off, n, op) ==
    /\ seqs' = Append(seqs, [at |-> anchor, ll |-> p - anchor,
                             off |-> off, ml |-> n])
    /\ anchor' = p + n
    /\ size' = op

(* What is written now ends at these places of the output. *)
Touches(ends) == top' = Max({top} \cup ends)

(***************************************************************************)
(* LZ4_wildCopy8 copies eight bytes at a time, and eight at least.  The    *)
(* end of the literals of a sequence at o that are copied with it.         *)
(***************************************************************************)
WildCopy8(o, n) == o + 8 * (IF n = 0 THEN 1 ELSE (n + 7) \div 8)

LiteralsReach(o, ll) == WildCopy8(o + 1 + ExtraBytes(ll), ll)

(* The call returns 0. *)
GiveUp ==
    /\ result' = "refused"
    /\ pc' = "returned"
    /\ UNCHANGED <<seqs, anchor, size, ip>>

(***************************************************************************)
(* The last literals.  A coder that fills its output takes as many as go   *)
(* into what is left of it: one byte for the token, and one for the length *)
(* in every 256 after the first 15.                                        *)
(***************************************************************************)
LastRun(left) == (left - 1) - ((left - 1 + 256 - RUN_MASK) \div 256)

EndBlock(n) ==
    /\ seqs' = Append(seqs, [at |-> anchor, ll |-> n, off |-> 0, ml |-> 0])
    /\ anchor' = anchor + n
    /\ size' = size + LiteralsSize(n)
    /\ Touches({size + LiteralsSize(n)})
    /\ result' = "coded"
    /\ pc' = "returned"
    /\ ip' = anchor + n

WriteLastLiterals ==
    LET run  == End - anchor
        over == limited /\ size + 1 + ((run + 255 - RUN_MASK) \div 255) + run
                                                                > input.room
    IN /\ pc = "last"
       /\ \/ ~over /\ EndBlock(run)
          \/ over /\ input.dir = "limitedOutput" /\ GiveUp /\ UNCHANGED top
          \/ /\ over /\ input.dir = "fillOutput"
             /\ EndBlock(LastRun(input.room - size))

(***************************************************************************)
(* A call begins.  With nothing to code the block is a single token, and   *)
(* where not even that fits there is none.  Less than least bytes are not  *)
(* searched.                                                               *)
(***************************************************************************)
CoderInit ==
    /\ BlockInit
    /\ pc = "call"
    /\ ip = Start
    /\ top = 0

CallFails ==
    /\ pc = "call"
    /\ limited /\ input.room < 1
    /\ input.dir = "fillOutput" \/ TextLength = 0
    /\ GiveUp
    /\ UNCHANGED top

LZ4_minLength == MFLIMIT + 1

BeginCall(least, first) ==
    /\ pc = "call"
    /\ ~ (/\ limited /\ input.room < 1
          /\ input.dir = "fillOutput" \/ TextLength = 0)
    /\ pc' = IF TextLength < least THEN "last" ELSE first
    /\ UNCHANGED <<seqs, anchor, size, result, top>>

CoderTypeOK ==
    /\ input \in Inputs
    /\ seqs \in Seq(Sequence)
    /\ anchor \in Start..End
    /\ size \in Nat
    /\ result \in {"coding", "coded", "refused"}
    /\ ip \in Start..End
    /\ top \in Nat

(***************************************************************************)
(* No byte is written past the end of the output: neither by the sequence  *)
(* in work, which may be given up or taken back, nor by copies of eight or *)
(* four bytes where fewer are meant.  A coder that has not been told how   *)
(* large the output is has been given one of LZ4_COMPRESSBOUND.            *)
(***************************************************************************)
Capacity == IF limited THEN input.room ELSE LZ4_COMPRESSBOUND(TextLength)

StaysInRoom == top <= Capacity
=============================================================================
