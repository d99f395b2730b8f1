----------------------------- MODULE Lz4HcMatch -----------------------------
(***************************************************************************)
(* LZ4HC_InsertAndGetWiderMatch: the search of the HC coders.  Positions   *)
(* whose four bytes have the same hash form a chain, which is followed     *)
(* from the newest to the oldest.  Two shortcuts leave it: a match that is *)
(* as long as the longest changes to the chain of its inner position that  *)
(* goes back furthest (chainSwap), and in a run of one byte the search     *)
(* jumps to the place where the run is as long as the one it looks for     *)
(* (patternAnalysis).                                                      *)
(*                                                                         *)
(* An index of the code is a position plus Base, so that no distance in a  *)
(* chain is larger than an index and none is below 0.  Bucket 0 of an      *)
(* empty table, index 0, is the position -Base.                            *)
(*                                                                         *)
(* An input says, besides dictionary, text and mode,                       *)
(*   at, low, longest  where to search, how far back a match may begin,    *)
(*                     and how long the match is that it is to beat: every *)
(*                     caller has one longer than the way back to low      *)
(*   attempts          maxNbAttempts                                       *)
(*   pattern, swap, favor   the flags                                      *)
(*   collide           all positions have the same hash, or only those     *)
(*                     with the same four bytes                            *)
(***************************************************************************)
EXTENDS Lz4Wider

(***************************************************************************)
(* chainSwap is asked for by the optimal coder, which does not look back.  *)
(* With it and a dictionary that lies elsewhere the chain may lead to one  *)
(* of the last three positions of the dictionary, where four bytes cannot  *)
(* be compared; the program's codec resets the stream before every block,  *)
(* never has a dictionary and never meets that, nor does an input here.    *)
(***************************************************************************)
ASSUME SearchAssumption ==
    \A i \in Inputs :
        /\ i.mode \in {"prefix", "ext", "ctx"}
        /\ i.at \in i.start..(Len(i.bytes) - MFLIMIT) /\ i.low \in i.start..i.at
        /\ i.longest \in Nat /\ i.longest > i.at - i.low /\ i.attempts \in Nat
        /\ {i.pattern, i.swap, i.favor, i.collide} \subseteq BOOLEAN
        /\ i.swap => i.low = i.at /\ i.mode # "ext"

VARIABLES phase,
          matchIndex,       \* or dictMatchIndex
          nbAttempts,
          best,             \* the longest match so far
          matchChainPos,
          pos, accel, distanceToNextMatch       \* of the loop of chainSwap

loop == <<pos, accel, distanceToNextMatch>>
searchVars ==
    <<input, phase, matchIndex, nbAttempts, best, matchChainPos, loop>>

Base == DistanceMax + 1

ipIndex == input.at
lookBack == input.at - input.low

lowLimit == IF input.mode = "ctx" THEN Start ELSE 0
dictLimit == IF input.mode = "prefix" THEN 0 ELSE Start

lowestMatchIndex ==
    IF lowLimit + DistanceMax + 1 > ipIndex THEN lowLimit
    ELSE ipIndex - DistanceMax

(***************************************************************************)
(* The tables.  LZ4HC_Insert has put every position before the search into *)
(* them, but none of the last three of a dictionary that lies elsewhere.   *)
(***************************************************************************)
Astride(p) == input.mode # "prefix" /\ p < Start /\ p + MINMATCH > Start

\* Mutant of Inserted: also what lies astride the end of a dictionary.
InsertedAll == lowLimit..(ipIndex - 1)

Inserted == {p \in lowLimit..(ipIndex - 1) : ~ Astride(p)}

DictInserted == {p \in 0..(Start - 1) : ~ Astride(p)}

SameBucket(p, q) == input.collide \/ SameFour(p, q)

(* The newest position of the table t before p in the bucket of p. *)
Newest(t, p) == Max({q \in t : q < p /\ SameBucket(p, q)} \cup {-Base})

(* DELTANEXTU16: what was never inserted has 0xFFFF. *)
DeltaIn(t, p) ==
    IF p \notin t THEN DistanceMax ELSE Min({p - Newest(t, p), DistanceMax})

Delta(p) == DeltaIn(Inserted, p)

(***************************************************************************)
(* How a candidate compares.  In front of the comparison of four bytes a   *)
(* candidate in the prefix is asked for two bytes, the last of the longest *)
(* match and the one behind it.                                            *)
(***************************************************************************)
LooksLonger(p) ==
    \A k \in 0..1 : At(input.low + best.len - 1 + k)
                        = At(p - lookBack + best.len - 1 + k)

Candidate(p) ==
    LET back == IF lookBack = 0 THEN 0
                ELSE CountBack(ipIndex, p, input.low, LowLimit(p))
    IN [at |-> ipIndex - back, off |-> ipIndex - p,
        len |-> Count(ipIndex, p, HighLimit(ipIndex, p)) + back]

Comparing ==
    /\ ~ (input.favor /\ ipIndex - matchIndex < 8)
    /\ matchIndex >= dictLimit => LooksLonger(matchIndex)

Matches(p) == Comparing /\ SameFour(ipIndex, p)

Length == IF Matches(matchIndex) THEN Candidate(matchIndex).len ELSE 0

Better ==
    IF Matches(matchIndex) /\ Candidate(matchIndex).len > best.len
    THEN Candidate(matchIndex) ELSE best

(* chainSwap: a match as long as the longest, that ends before the search. *)
Swaps ==
    /\ input.swap
    /\ Length = Better.len
    /\ matchIndex + Better.len <= ipIndex

(***************************************************************************)
(* patternAnalysis: the position before the candidate lies in the same run *)
(* of one byte.                                                            *)
(***************************************************************************)
matchCandidateIdx == matchIndex - 1

ProtectDictEnd(p) == p >= dictLimit \/ dictLimit - 1 - p >= 3

Run(p) ==
    CHOOSE n \in 0..(matchlimit - p) :
        /\ n = matchlimit - p \/ At(p + n) # At(ipIndex)
        /\ \A k \in 0..(n - 1) : At(p + k) = At(ipIndex)

RunBack(p) ==
    CHOOSE n \in 0..(p - lowLimit) :
        /\ n = p - lowLimit \/ At(p - n - 1) # At(ipIndex)
        /\ \A k \in 1..n : At(p - k) = At(ipIndex)

srcPatternLength == Run(ipIndex)
forwardPatternLength == Run(matchCandidateIdx)

\* Mutant of backLength: the run may begin further back than the window.
BackOutside == RunBack(matchCandidateIdx)

backLength ==
    LET begin == matchCandidateIdx - RunBack(matchCandidateIdx)
    IN matchCandidateIdx - Max({begin, lowestMatchIndex})

segment == backLength + forwardPatternLength

InPattern ==
    /\ input.pattern /\ matchChainPos = 0 /\ Delta(matchIndex) = 1
    /\ OneByteRun(ipIndex)
    /\ matchCandidateIdx >= lowestMatchIndex
    /\ ProtectDictEnd(matchCandidateIdx)
    /\ SameFour(ipIndex, matchCandidateIdx)

SearchInit ==
    /\ input \in Inputs
    /\ phase = "chain"
    /\ matchIndex = Newest(Inserted, ipIndex)
    /\ nbAttempts = input.attempts
    /\ best = [at |-> ipIndex, off |-> 0, len |-> input.longest]
    /\ matchChainPos = 0
    /\ pos = 0 /\ accel = 16 /\ distanceToNextMatch = 1

OnChain == phase = "chain" /\ matchIndex >= lowestMatchIndex /\ nbAttempts > 0

(***************************************************************************)
(* chainSwap: the search goes on with the chain of the inner position that *)
(* goes back furthest.  The positions tried lie one apart at first, and    *)
(* further and further the longer none is better.                          *)
(***************************************************************************)
BeginSwap ==
    /\ OnChain /\ Swaps
    /\ phase' = "swap"
    /\ best' = Better
    /\ pos' = 0 /\ accel' = 16 /\ distanceToNextMatch' = 1
    /\ UNCHANGED <<input, matchIndex, nbAttempts, matchChainPos>>

TryPosition ==
    LET candidateDist == Delta(matchIndex + pos)
    IN /\ phase = "swap" /\ pos <= best.len - MINMATCH
       /\ pos' = pos + accel \div 16
       /\ \/ /\ candidateDist > distanceToNextMatch
             /\ distanceToNextMatch' = candidateDist
             /\ matchChainPos' = pos
             /\ accel' = 16
          \/ /\ candidateDist <= distanceToNextMatch
             /\ accel' = accel + 1
             /\ UNCHANGED <<distanceToNextMatch, matchChainPos>>
       /\ UNCHANGED <<input, phase, matchIndex, nbAttempts, best>>

AllTried == phase = "swap" /\ pos > best.len - MINMATCH

SwapChain ==
    /\ AllTried /\ distanceToNextMatch > 1
    /\ phase' = "chain"
    /\ matchIndex' = matchIndex - distanceToNextMatch
    /\ nbAttempts' = nbAttempts - 1
    /\ UNCHANGED <<input, best, matchChainPos, loop>>

Stays == (OnChain /\ ~ Swaps) \/ (AllTried /\ distanceToNextMatch = 1)

\* Mutant of FitsRun: the run before the candidate may be the longer one.
FitsAnyRun == segment >= srcPatternLength

(***************************************************************************)
(* The run before the candidate is as long as the one that is looked for:  *)
(* the match may begin where both end together.                            *)
(***************************************************************************)
FitsRun ==
    segment >= srcPatternLength /\ forwardPatternLength <= srcPatternLength

Protected(p) == IF ProtectDictEnd(p) THEN p ELSE dictLimit

JumpToEnd ==
    /\ Stays
    /\ InPattern /\ FitsRun
    /\ matchIndex' = Protected(matchCandidateIdx + forwardPatternLength
                                  - srcPatternLength)
    /\ best' = Better
    /\ phase' = "chain" /\ nbAttempts' = nbAttempts - 1
    /\ UNCHANGED <<input, matchChainPos, loop>>

(***************************************************************************)
(* Otherwise the search goes on where the run begins, and takes what there *)
(* is of it for a match without comparing it.                              *)
(***************************************************************************)
JumpToBegin ==
    LET p     == matchCandidateIdx - backLength
        maxML == Min({segment, srcPatternLength})
    IN /\ Stays
       /\ InPattern /\ ~ FitsRun
       /\ phase' = "chain" /\ nbAttempts' = nbAttempts - 1
       /\ UNCHANGED <<input, matchChainPos, loop>>
       /\ \/ /\ ~ ProtectDictEnd(p) \/ lookBack > 0
             /\ matchIndex' = Protected(p)
             /\ best' = Better
          \/ /\ ProtectDictEnd(p) /\ lookBack = 0
             /\ best' = IF maxML > Better.len
                        THEN [at |-> ipIndex, off |-> ipIndex - p, len |-> maxML]
                        ELSE Better
             /\ matchIndex' = p - Delta(p)

FollowChain ==
    /\ Stays
    /\ ~ InPattern
    /\ matchIndex' = matchIndex - Delta(matchIndex + matchChainPos)
    /\ best' = Better
    /\ phase' = "chain" /\ nbAttempts' = nbAttempts - 1
    /\ UNCHANGED <<input, matchChainPos, loop>>

(***************************************************************************)
(* Behind the chain the tables of the dictionary's own stream are asked,   *)
(* with the attempts that are left.                                        *)
(***************************************************************************)
EndOfChain ==
    /\ phase = "chain" /\ ~ OnChain
    /\ IF /\ input.mode = "ctx" /\ nbAttempts > 0
          /\ ipIndex - lowestMatchIndex < DistanceMax
       THEN /\ phase' = "dict"
            /\ matchIndex' =
                   Max({q \in DictInserted : SameBucket(ipIndex, q)} \cup {-Base})
       ELSE phase' = "returned" /\ UNCHANGED matchIndex
    /\ UNCHANGED <<input, nbAttempts, best, matchChainPos, loop>>

InDict == ipIndex - matchIndex <= DistanceMax /\ nbAttempts > 0

FollowDict ==
    /\ phase = "dict" /\ InDict
    /\ nbAttempts' = nbAttempts - 1
    /\ best' = IF SameFour(ipIndex, matchIndex) /\ Candidate(matchIndex).len > best.len
               THEN Candidate(matchIndex) ELSE best
    /\ matchIndex' = matchIndex - DeltaIn(DictInserted, matchIndex)
    /\ UNCHANGED <<input, phase, matchChainPos, loop>>

EndOfDict ==
    /\ phase = "dict" /\ ~ InDict
    /\ phase' = "returned"
    /\ UNCHANGED <<input, matchIndex, nbAttempts, best, matchChainPos, loop>>

SearchNext ==
    \/ BeginSwap \/ TryPosition \/ SwapChain \/ JumpToEnd \/ JumpToBegin
    \/ FollowChain \/ EndOfChain \/ FollowDict \/ EndOfDict

SearchSpec ==
    SearchInit /\ [][SearchNext]_searchVars /\ WF_searchVars(SearchNext)

(***************************************************************************)
(* What the search returns is a match, whose bytes have been compared or   *)
(* not, of the length it says and longer than the one given, or nothing:   *)
(* the contract by which Lz4Hc and Lz4Opt take it.                         *)
(***************************************************************************)
KeepsContract ==
    phase = "returned" =>
        \/ best.off = 0 /\ best.len = input.longest
        \/ best \in Wider(ipIndex, input.low, input.longest)

(***************************************************************************)
(* With attempts left over, the search has found one of the longest        *)
(* matches, although it did not look at most of them.  Only jumps in a run *)
(* may miss one that is longer because it begins further in front; and     *)
(* where matches that are quick to decode are asked for, those nearer than *)
(* 8 bytes do not count.                                                   *)
(***************************************************************************)
FindsLongest ==
    phase = "returned" /\ nbAttempts > 0 /\ (input.pattern => lookBack = 0) =>
        \A m \in Wider(ipIndex, input.low, best.len) : input.favor /\ m.off < 8

(***************************************************************************)
(* The search never looks at its own position or behind it, nor at four    *)
(* bytes that lie astride the end of a dictionary (the assertions).        *)
(***************************************************************************)
ReadsWords ==
    OnChain \/ (phase = "dict" /\ InDict) =>
        matchIndex < ipIndex /\ ~ Astride(matchIndex)
=============================================================================
