------------------------------- MODULE Lz4Text ------------------------------
(***************************************************************************)
(* The text that is coded, the dictionary in front of it, and the ways in  *)
(* which the coders compare their bytes.                                   *)
(*                                                                         *)
(* An input is a dictionary and the text after it in one list of bytes,    *)
(* and the length of the dictionary (start).  Positions count from 0 at    *)
(* the first byte of the dictionary.  Where the dictionary really lies is  *)
(* said by the mode of an input: "prefix" before the text, "ext" elsewhere *)
(* in memory, "ctx" elsewhere and with the tables of another stream.       *)
(***************************************************************************)
EXTENDS Integers, Sequences

CONSTANTS Byte,         \* the bytes that occur
          Inputs,       \* what is to be coded
          DistanceMax   \* LZ4_DISTANCE_MAX

ASSUME InputsAssumption ==
    /\ \A i \in Inputs : i.bytes \in Seq(Byte) /\ i.start \in 0..Len(i.bytes)
    /\ DistanceMax \in Nat \ {0}

VARIABLE input  \* the dictionary and the text

MINMATCH == 4
LASTLITERALS == 5
MFLIMIT == 12

Start == input.start
End == Len(input.bytes)
TextLength == End - Start
At(p) == input.bytes[p + 1]

mflimit == End - MFLIMIT
matchlimit == End - LASTLITERALS

(* The n bytes at p are those that lie off bytes before them. *)
IsMatch(p, off, n) ==
    /\ off \in 1..p
    /\ \A i \in p..(p + n - 1) : At(i) = At(i - off)

(* LZ4_count: common bytes from i and m on, i staying below limit. *)
Count(i, m, limit) ==
    CHOOSE n \in 0..(limit - i) :
        /\ n = limit - i \/ At(i + n) # At(m + n)
        /\ \A k \in 0..(n - 1) : At(i + k) = At(m + k)

(* The common bytes before i and m, not further than iMin and mMin. *)
CountBack(i, m, iMin, mMin) ==
    LET most == IF i - iMin < m - mMin THEN i - iMin ELSE m - mMin
    IN CHOOSE n \in 0..most :
           /\ n = most \/ At(i - n - 1) # At(m - n - 1)
           /\ \A k \in 1..n : At(i - k) = At(m - k)

(* The first byte that may belong to a match that begins at m. *)
LowLimit(m) ==
    IF input.mode = "prefix" \/ m < Start THEN 0 ELSE Start

SameFour(i, m) == \A k \in 0..3 : At(i + k) = At(m + k)
=============================================================================
