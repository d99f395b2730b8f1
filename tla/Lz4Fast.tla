------------------------------- MODULE Lz4Fast ------------------------------
(***************************************************************************)
(* LZ4_compress_generic, the coder of the fast levels.  It remembers       *)
(* positions in a hash table, takes the first match it meets, and looks at *)
(* fewer positions the longer it meets none.                               *)
(*                                                                         *)
(* The table is the set of positions that have been put into it, and a     *)
(* lookup may return any of them: whatever the hash function does, and     *)
(* whichever entries overwrite each other, is among these behaviours.      *)
(* Positions before the dictionary (below 0) are those of earlier blocks   *)
(* of a stream, whose bytes may be gone.                                   *)
(*                                                                         *)
(* Besides what Lz4Coder says, an input has                                *)
(*   gap    how many positions of earlier blocks precede the dictionary    *)
(*   accel  the acceleration                                               *)
(***************************************************************************)
EXTENDS Lz4Coder

CONSTANT DictMax    \* 64 KB: a dictionary of this size reaches past DistanceMax

ASSUME FastAssumption ==
    /\ DictMax \in Nat /\ DictMax > DistanceMax
    /\ \A i \in Inputs :
          i.coder = "fast" => /\ i.gap \in Nat
                              /\ i.accel \in Nat \ {0}

VARIABLES op,       \* the bytes written, the sequence in work included
          match,    \* where the match that was found begins
          filled,   \* filledIp
          step,     \* how far to the next position
          nb,       \* searchMatchNb
          table     \* the positions in the hash table

fastVars == <<op, match, filled, step, nb, table>>

skipTrigger == 6
Shifted(n) == n \div 64         \* n >> skipTrigger

dictIssue ==
    input.mode # "ctx" /\ Start < DictMax /\ input.gap > 0

(***************************************************************************)
(* What the table holds when the block begins: the last bytes of a block   *)
(* or of a dictionary are never put into it; an entry of 0 is the first    *)
(* position there ever was.  LZ4_loadDict puts every third position.       *)
(***************************************************************************)
HASH_UNIT == 8

OwnTable ==
    ({-input.gap, -1} \cap (-input.gap..0))
        \cup IF input.mode = "ctx" THEN {}
             ELSE 0..(Start - HASH_UNIT)

LoadedTable ==
    {Start - DictMax} \cup {p \in 0..(Start - HASH_UNIT) : p % 3 = 0}

(***************************************************************************)
(* What a lookup in the table t may return.  With the dictionary of        *)
(* another stream, what is older than the text is looked up in its table.  *)
(***************************************************************************)
Candidates(t) ==
    IF input.mode # "ctx" THEN t
    ELSE {m \in t : m >= Start} \cup LoadedTable

TooFar(m, i) == m + DistanceMax < i

\* Mutant of Passed: forgets that the dictionary may be small.
PassedInWindow(m, i) == ~ TooFar(m, i)

Passed(m, i) == ~ (dictIssue /\ m < 0) /\ ~ TooFar(m, i)

FastInit ==
    /\ op = 0 /\ match = 0 /\ filled = Start
    /\ step = 1 /\ nb = 0
    /\ table = IF input.coder = "fast" THEN OwnTable ELSE {}

RestartSearch ==
    /\ step' = 1
    /\ nb' = input.accel * 64

FastBegin ==
    /\ BeginCall(LZ4_minLength, "search")
    /\ ip' = IF TextLength <= MFLIMIT THEN ip ELSE ip + 1
    /\ table' = IF TextLength <= MFLIMIT THEN table
                ELSE table \cup {Start}
    /\ RestartSearch
    /\ UNCHANGED <<op, match, filled>>

(***************************************************************************)
(* One turn of the search at position ip.  A candidate whose bytes are no  *)
(* longer there must have been excluded before they are compared.          *)
(***************************************************************************)
NextPosition == ip + step

Hit(m) == Passed(m, ip) /\ (m >= 0 => SameFour(ip, m))

SearchEnds ==
    /\ pc = "search"
    /\ NextPosition > mflimit + 1
    /\ pc' = "last"
    /\ UNCHANGED <<seqs, anchor, size, result, ip, top, fastVars>>

SearchMisses ==
    /\ pc = "search"
    /\ NextPosition <= mflimit + 1
    /\ ~ \A m \in Candidates(table) : Hit(m)
    /\ table' = table \cup {ip}
    /\ ip' = NextPosition
    /\ step' = Shifted(nb)
    /\ nb' = nb + 1
    /\ UNCHANGED <<pc, seqs, anchor, size, result, top, op, match, filled>>

SearchHits ==
    /\ pc = "search"
    /\ NextPosition <= mflimit + 1
    /\ \E m \in Candidates(table) :
          /\ Hit(m)
          /\ pc' = IF m < 0 THEN "outside" ELSE "found"
          /\ match' = m
    /\ table' = table \cup {ip}
    /\ filled' = ip
    /\ UNCHANGED <<ip, seqs, anchor, size, result, top, op, step, nb>>

(***************************************************************************)
(* The match is extended backwards, and its literals are written.          *)
(***************************************************************************)
EncodeLiterals ==
    LET b  == CountBack(ip, match, anchor, LowLimit(match))
        ll == ip - b - anchor
        tooLong ==
            \/ /\ input.dir = "limitedOutput"
               /\ op + 1 + ll + (2 + 1 + LASTLITERALS) + (ll \div 255)
                                                            > input.room
            \/ /\ input.dir = "fillOutput"
               /\ op + 1 + ((ll + 240) \div 255) + ll + 2 + 1
                                     + MFLIMIT - MINMATCH > input.room
    IN /\ pc = "found"
       /\ \/ tooLong /\ input.dir = "limitedOutput" /\ GiveUp
                     /\ UNCHANGED <<top, fastVars>>
          \/ tooLong /\ input.dir = "fillOutput"
                     /\ pc' = "last"
                     /\ UNCHANGED <<seqs, anchor, size, result, ip, top, fastVars>>
          \/ /\ ~ tooLong
             /\ ip' = ip - b
             /\ match' = match - b
             /\ op' = op + LiteralsSize(ll)
             /\ Touches({LiteralsReach(op, ll)})
             /\ pc' = "match"
             /\ UNCHANGED <<seqs, anchor, size, result, filled, step, nb, table>>

(***************************************************************************)
(* _next_match: the offset and the length.  A length that needs more bytes *)
(* than are left is reduced, if the output is to be filled; positions      *)
(* beyond the new end are then taken out of the table.                     *)
(***************************************************************************)
Rewinds ==
    /\ pc = "match"
    /\ input.dir = "fillOutput"
    /\ op + 2 + 1 + MFLIMIT - MINMATCH > input.room
    /\ pc' = "last"
    /\ op' = size
    /\ UNCHANGED <<seqs, anchor, size, result, ip, top, match, filled, step, nb,
                   table>>

(* The bytes of a length are written four at a time. *)
LengthReach(o, code) ==
    IF code < ML_MASK THEN o ELSE o + 4 + 4 * ((code - ML_MASK) \div (4 * 255))

EncodeMatch ==
    LET o    == op + 2
        full == Count(ip + MINMATCH, match + MINMATCH, matchlimit)
        over == limited /\ o + (1 + LASTLITERALS) + ((full + 240) \div 255)
                                                            > input.room
        cut  == 15 - 1 + (input.room - o - 1 - LASTLITERALS) * 255
        code == IF over THEN cut ELSE full
        end  == ip + MINMATCH + code
    IN /\ pc = "match"
       /\ ~ (/\ input.dir = "fillOutput"
             /\ op + 2 + 1 + MFLIMIT - MINMATCH > input.room)
       /\ \/ /\ over /\ input.dir = "limitedOutput"
             /\ GiveUp /\ Touches({o}) /\ UNCHANGED fastVars
          \/ /\ ~ (over /\ input.dir = "limitedOutput")
             /\ AddSequence(ip, ip - match, MINMATCH + code,
                            o + ExtraBytes(code))
             /\ op' = o + ExtraBytes(code)
             /\ Touches({LengthReach(o, code)})
             /\ ip' = end
             /\ table' = IF over THEN table \ (end..filled) ELSE table
             /\ pc' = IF end > mflimit THEN "last" ELSE "test"
             /\ UNCHANGED <<result, match, filled, step, nb>>

(***************************************************************************)
(* Right behind a match the next position is tested at once; a match there *)
(* has no literals and is not extended backwards.                          *)
(***************************************************************************)
Filled == table \cup {ip - 2}

TestHits ==
    /\ pc = "test"
    /\ \E m \in Candidates(Filled) :
          /\ Hit(m)
          /\ pc' = IF m < 0 THEN "outside" ELSE "match"
          /\ match' = m
    /\ table' = Filled \cup {ip}
    /\ op' = op + 1
    /\ Touches({op + 1})
    /\ UNCHANGED <<ip, seqs, anchor, size, result, filled, step, nb>>

TestMisses ==
    /\ pc = "test"
    /\ ~ \A m \in Candidates(Filled) : Hit(m)
    /\ table' = Filled \cup {ip}
    /\ ip' = ip + 1
    /\ RestartSearch
    /\ pc' = "search"
    /\ UNCHANGED <<seqs, anchor, size, result, top, op, match, filled>>

FastNext ==
    /\ input.coder = "fast"
    /\ UNCHANGED <<input, reader>>
    /\ \/ CallFails /\ UNCHANGED fastVars
       \/ FastBegin
       \/ SearchEnds \/ SearchMisses \/ SearchHits
       \/ EncodeLiterals
       \/ Rewinds \/ EncodeMatch
       \/ TestHits \/ TestMisses
       \/ WriteLastLiterals /\ UNCHANGED fastVars

(***************************************************************************)
(* No candidate is compared whose bytes lie before the dictionary: nobody  *)
(* guarantees that they are still there.                                   *)
(***************************************************************************)
ReadsInside == pc # "outside"
=============================================================================
