-------------------------------- MODULE Lz4Hc -------------------------------
(***************************************************************************)
(* LZ4HC_compress_hashChain, the coder of levels 3 to 9.  It holds up to   *)
(* three overlapping matches and negotiates their borders before it writes *)
(* the first of them.                                                      *)
(*                                                                         *)
(* Its matches come from LZ4HC_InsertAndGetWiderMatch, which is taken here *)
(* by its contract, Wider: it returns a match that is longer than the one  *)
(* given, or none.  Lz4HcMatch shows that it keeps the contract.           *)
(***************************************************************************)
EXTENDS Lz4Coder, Lz4Wider

VARIABLES m0,   \* start0, ref0, ml0: the first match, should it be needed again
          m1,   \* ip, ref, ml
          m2,   \* start2, ref2, ml2
          nextToUpdate  \* the first position that is not in the tables

matchVars == <<m0, m1, m2>>
hcVars == <<matchVars, nextToUpdate>>

OPTIMAL_ML == (ML_MASK - 1) + MINMATCH

Match == [at : Nat, len : Nat, off : Nat]

NoMatch == [at |-> 0, len |-> 0, off |-> 0]

MatchEnd(m) == m.at + m.len

Shift(m, n) == [m EXCEPT !.at = @ + n, !.len = @ - n]

(***************************************************************************)
(* With attempts for every candidate (input.sure) the search returns one   *)
(* of the longest; otherwise it may stop before it has met any.            *)
(***************************************************************************)
Found(i, low, longest) ==
    LET w == Wider(i, low, longest)
    IN IF input.sure THEN {m \in w : \A x \in w : x.len <= m.len} ELSE w

MayMiss(i, low, longest) == input.sure => Wider(i, low, longest) = {}

(* LZ4HC_Insert: a search puts all positions before its own in the tables. *)
Searches(i) == nextToUpdate' = i

(***************************************************************************)
(* LZ4HC_encodeSequence, with its tests for room.  A coder that fills its  *)
(* output keeps 5 bytes back for the literals at the end.                  *)
(***************************************************************************)
oend == IF input.dir = "fillOutput" THEN input.room - LASTLITERALS
        ELSE input.room

\* Mutant of RoomForLiterals: they are written without a test.
RoomNotTested(m) == TRUE

RoomForLiterals(m) ==
    LET ll == m.at - anchor
    IN limited => size + 1 + (ll \div 255) + ll + (2 + 1 + LASTLITERALS) <= oend

RoomForMatch(m) ==
    limited => size + LiteralsSize(m.at - anchor) + 2
                    + ((m.len - MINMATCH) \div 255) + (1 + LASTLITERALS) <= oend

HasRoom(m) == RoomForLiterals(m) /\ RoomForMatch(m)

(* What is written of a sequence that fits, and of one whose match does not. *)
Ends(m) == {LiteralsReach(size, m.at - anchor),
            size + SequenceSize(m.at - anchor, m.len)}

EndsBegun(m) ==
    IF RoomForLiterals(m)
    THEN {LiteralsReach(size, m.at - anchor), size + LiteralsSize(m.at - anchor) + 2}
    ELSE {}

Write(m) ==
    AddSequence(m.at, m.off, m.len, size + SequenceSize(m.at - anchor, m.len))

EncodeSequence(m, next) ==
    /\ HasRoom(m)
    /\ Write(m)
    /\ Touches(Ends(m))
    /\ pc' = next
    /\ ip' = MatchEnd(m)
    /\ UNCHANGED result

(***************************************************************************)
(* _dest_overflow: the sequence that did not fit is written with as much   *)
(* of its match as fits, if the rules about the end of a block allow it.   *)
(***************************************************************************)
Clipped(m) ==
    LET ll     == m.at - anchor
        after  == size + 1 + ((ll + 240) \div 255) + ll
        maxLit == oend - 3
        maxMl  == MINMATCH + (ML_MASK - 1) + (maxLit - after) * 255
        cut    == [m EXCEPT !.len = Min({@, maxMl})]
    IN IF /\ after <= maxLit
          /\ (oend + LASTLITERALS) - (after + 2) - 1 + cut.len >= MFLIMIT
       THEN {cut} ELSE {}

Overflow(m) ==
    /\ ~ HasRoom(m)
    /\ \/ input.dir = "limitedOutput" /\ GiveUp /\ Touches(EndsBegun(m))
       \/ /\ input.dir = "fillOutput"
          /\ pc' = "last"
          /\ UNCHANGED result
          /\ \/ /\ Clipped(m) = {}
                /\ UNCHANGED <<seqs, anchor, size, ip>>
                /\ Touches(EndsBegun(m))
             \/ \E c \in Clipped(m) : /\ Write(c) /\ ip' = MatchEnd(c)
                                     /\ Touches(EndsBegun(m) \cup Ends(c))

HcInit ==
    /\ m0 = NoMatch /\ m1 = NoMatch /\ m2 = NoMatch
    /\ nextToUpdate = Start

HcBegin ==
    /\ BeginCall(LZ4_minLength, "first")
    /\ UNCHANGED <<ip, hcVars>>

(* The main loop looks for a first match. *)
SearchFirst ==
    /\ pc = "first"
    /\ UNCHANGED <<seqs, anchor, size, result, top, m2>>
    /\ \/ /\ ip > mflimit
          /\ pc' = "last" /\ UNCHANGED <<ip, m0, m1, nextToUpdate>>
       \/ /\ ip <= mflimit
          /\ Searches(ip)
          /\ MayMiss(ip, ip, MINMATCH - 1)
          /\ ip' = ip + 1 /\ UNCHANGED <<pc, m0, m1>>
       \/ /\ ip <= mflimit
          /\ Searches(ip)
          /\ \E m \in Found(ip, ip, MINMATCH - 1) : m0' = m /\ m1' = m
          /\ pc' = "second" /\ UNCHANGED ip

(***************************************************************************)
(* _Search2: a wider match that begins inside of the first one.  With none *)
(* the first is written.  One that begins less than three bytes after the  *)
(* first replaces it.                                                      *)
(***************************************************************************)
SecondAt == MatchEnd(m1) - 2

EncodeOnlyMatch ==
    /\ pc = "second"
    /\ \/ MatchEnd(m1) > mflimit /\ UNCHANGED nextToUpdate
       \/ /\ MatchEnd(m1) <= mflimit
          /\ Searches(SecondAt)
          /\ MayMiss(SecondAt, m1.at, m1.len)
    /\ EncodeSequence(m1, "first") \/ Overflow(m1)
    /\ UNCHANGED matchVars

SearchSecond ==
    /\ pc = "second"
    /\ MatchEnd(m1) <= mflimit
    /\ Searches(SecondAt)
    /\ \E m \in Found(SecondAt, m1.at, m1.len) :
          LET first == IF m0.at < m1.at /\ m.at < m1.at + m0.len THEN m0 ELSE m1
          IN IF m.at - first.at < 3
             THEN m1' = m /\ pc' = "second" /\ UNCHANGED m2
             ELSE m1' = first /\ m2' = m /\ pc' = "third"
    /\ ip' = m1'.at
    /\ UNCHANGED <<seqs, anchor, size, result, top, m0>>

(***************************************************************************)
(* Where two matches overlap the first keeps at most 18 bytes, the length  *)
(* that fits into a token, and leaves the second at least four.            *)
(***************************************************************************)
FirstLength(a, b) ==
    Min({a.len, OPTIMAL_ML, MatchEnd(b) - MINMATCH - a.at})

\* Mutant of Squeezed: the second match stays where it begins.
SqueezedNot(a, b) == b

Squeezed(a, b) ==
    LET correction == FirstLength(a, b) - (b.at - a.at)
    IN IF b.at - a.at < OPTIMAL_ML /\ correction > 0 THEN Shift(b, correction)
       ELSE b

Trimmed(a, b) == [a EXCEPT !.len = Min({@, b.at - a.at})]

\* Mutant of ThirdAt: the third match is looked for at the second.
ThirdAtSecond(s) == s.at + 1

ThirdAt(s) == MatchEnd(s) - 3

(* _Search3 found nothing: both matches are written. *)
EncodeBoth ==
    LET s == Squeezed(m1, m2)
    IN /\ pc = "third"
       /\ \/ MatchEnd(s) > mflimit /\ UNCHANGED nextToUpdate
          \/ /\ MatchEnd(s) <= mflimit
             /\ Searches(ThirdAt(s))
             /\ MayMiss(ThirdAt(s), s.at, s.len)
       /\ EncodeSequence(Trimmed(m1, s), "both") \/ Overflow(Trimmed(m1, s))
       /\ m2' = s
       /\ UNCHANGED <<m0, m1>>

EncodeSecond ==
    /\ pc = "both"
    /\ EncodeSequence(m2, "first") \/ Overflow(m2)
    /\ UNCHANGED hcVars

(***************************************************************************)
(* _Search3 found a third match.  The second is dropped if there is no     *)
(* place for it; otherwise the first is written and the others move up.    *)
(***************************************************************************)
Thirds(s) ==
    IF MatchEnd(s) <= mflimit THEN Found(ThirdAt(s), s.at, s.len) ELSE {}

(* What is left of the second match behind the first. *)
Remainder(s, third) ==
    LET r == IF s.at < MatchEnd(m1) THEN Shift(s, MatchEnd(m1) - s.at) ELSE s
    IN IF r.len < MINMATCH THEN third ELSE r

DropSecond ==
    LET s == Squeezed(m1, m2)
    IN /\ pc = "third"
       /\ Searches(ThirdAt(s))
       /\ \E m \in Thirds(s) :
             /\ m.at < MatchEnd(m1)
             /\ m2' = m
       /\ UNCHANGED <<pc, ip, seqs, anchor, size, result, top, m0, m1>>

SkipSecond ==
    LET s == Squeezed(m1, m2)
    IN /\ pc = "third"
       /\ Searches(ThirdAt(s))
       /\ \E m \in Thirds(s) :
             /\ m.at >= MatchEnd(m1) /\ m.at < MatchEnd(m1) + 3
             /\ m0' = Remainder(s, m)
             /\ m1' = m
       /\ EncodeSequence(m1, "second") \/ Overflow(m1)
       /\ UNCHANGED m2

EncodeOfThree ==
    LET s     == Squeezed(m1, m2)
        close == s.at - m1.at < OPTIMAL_ML
        moved == IF s.at < MatchEnd(m1) THEN Squeezed(m1, s) ELSE s
        first == IF s.at >= MatchEnd(m1) THEN m1
                 ELSE IF close THEN [m1 EXCEPT !.len = FirstLength(m1, s)]
                 ELSE Trimmed(m1, s)
    IN /\ pc = "third"
       /\ Searches(ThirdAt(s))
       /\ \E m \in Thirds(s) :
             /\ m.at >= MatchEnd(m1) + 3
             /\ m1' = moved /\ m2' = m
       /\ EncodeSequence(first, "third") \/ Overflow(first)
       /\ UNCHANGED m0

HcNext ==
    /\ input.coder = "hc"
    /\ UNCHANGED <<input, reader>>
    /\ \/ CallFails /\ UNCHANGED hcVars
       \/ HcBegin
       \/ SearchFirst
       \/ EncodeOnlyMatch \/ SearchSecond
       \/ EncodeBoth \/ EncodeSecond
       \/ DropSecond \/ SkipSecond \/ EncodeOfThree
       \/ WriteLastLiterals /\ UNCHANGED hcVars

(***************************************************************************)
(* No search goes back to a position before that of an earlier one.        *)
(* LZ4HC_Insert would put the positions between into the tables again,     *)
(* where they follow themselves, and the search would meet matches that    *)
(* begin behind it (the assertion matchIndex < ipIndex).                   *)
(***************************************************************************)
SearchesForward == [][nextToUpdate' >= nextToUpdate]_nextToUpdate
=============================================================================
