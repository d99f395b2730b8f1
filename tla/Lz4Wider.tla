------------------------------ MODULE Lz4Wider ------------------------------
(***************************************************************************)
(* What a search for matches may return: the contract between the coders   *)
(* of the HC levels (Lz4Hc, Lz4Opt) and LZ4HC_InsertAndGetWiderMatch,      *)
(* which Lz4HcMatch models.                                                *)
(***************************************************************************)
EXTENDS Lz4Text, FiniteSetsExt

OneByteRun(i) == \A k \in 1..3 : At(i + k) = At(i)

(***************************************************************************)
(* The four bytes at m can be compared: they do not lie astride the end of *)
(* a dictionary that is somewhere else, and are not too far back.  The     *)
(* tables of another stream are asked only near the beginning of the text. *)
(***************************************************************************)
Comparable(i, m) ==
    /\ i - m <= DistanceMax
    /\ input.mode # "prefix" => m >= Start \/ m + MINMATCH <= Start
    /\ input.mode = "ctx" /\ m < Start => i - Start < DistanceMax

(***************************************************************************)
(* How far a match may reach that begins at m.  One in the dictionary of   *)
(* another stream ends with it.                                            *)
(***************************************************************************)
HighLimit(i, m) ==
    IF input.mode = "ctx" /\ m < Start THEN Min({matchlimit, i + Start - m})
    ELSE matchlimit

(***************************************************************************)
(* The matches a search at i may return: the four bytes at i, extended     *)
(* forwards as far as they go and backwards as far as low.  In a run of    *)
(* one byte, searched forwards, a match may be returned shorter than it    *)
(* is.                                                                     *)
(***************************************************************************)
Lengths(i, off, low) ==
    LET full == Count(i, i - off, HighLimit(i, i - off))
    IN IF low = i /\ OneByteRun(i) THEN MINMATCH..full ELSE {full}

Offsets(i) == {o \in 1..i : Comparable(i, i - o) /\ SameFour(i, i - o)}

Wider(i, low, longest) ==
    {m \in UNION {LET back == CountBack(i, i - off, low, LowLimit(i - off))
                  IN {[at |-> i - back, len |-> n + back, off |-> off] :
                          n \in Lengths(i, off, low)} : off \in Offsets(i)} :
        m.len > longest}
=============================================================================
