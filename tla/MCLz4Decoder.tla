---------------------------- MODULE MCLz4Decoder ----------------------------
(***************************************************************************)
(* Small texts and every block of them.  The texts repeat with periods     *)
(* from 1 to 17, which take every way through the copies of overlapping    *)
(* matches, with outputs that end right behind the text (the careful loop) *)
(* and far behind it (the fast loop), and with dictionaries.               *)
(***************************************************************************)
EXTENDS Lz4Decoder

Cyclic(k, n) == [i \in 1..n |-> ((i - 1) % k) + 1]

MCByte == 0..255

Text(n) == [i \in 1..n |-> (i + 100) % 256]

Call(dict, text, ext, mode, partial, room, least) ==
    [bytes |-> dict \o text, start |-> Len(dict), ext |-> ext, dict |-> mode,
     partial |-> partial, room |-> room, least |-> least,
     lost |-> 0, cut |-> 0]

\* Room for the text exactly, and for the fast loop behind it.
Overlapping ==
    {Call(<<>>, Cyclic(k, 25), 0, "noDict", FALSE, r, 12) :
        k \in 1..9, r \in {25, 25 + 64}}
    \cup
    {Call(<<>>, Cyclic(k, 70), 0, "noDict", FALSE, r, 50) :
        k \in {1, 3, 8, 17}, r \in {70, 70 + 64}}

\* Many short matches in one block.
Short ==
    {Call(<<>>, Cyclic(k, 23), 0, "noDict", FALSE, r, 4) :
        k \in {6}, r \in {23, 23 + 64}}

\* A dictionary before the output, apart from it, or both.
Dictionaries ==
    {Call(Cyclic(9, 9), Cyclic(9, 24), e[1], e[2], FALSE, r, 11) :
        e \in {<<0, "noDict">>, <<0, "withPrefix64k">>, <<9, "usingExtDict">>,
               <<4, "usingExtDict">>},
        r \in {24, 24 + 64}}

\* Lengths that take more bytes, one before and one behind the match.
Long ==
    {Call(Text(290), Text(305), 0, "noDict", FALSE, r, 288) :
        r \in {305, 305 + 64}}
    \cup
    {Call(Text(30), Text(30) \o Cyclic(30, 18), 0, "noDict", FALSE, r, 18) :
        r \in {48, 48 + 64}}

\* An output that is too small, and a part of a block.
Parts ==
    {Call(<<>>, Cyclic(3, 24), 0, "noDict", p, r, 10) :
        p \in BOOLEAN, r \in {0, 1, 9, 14, 19, 23}}
    \cup
    {Call(Cyclic(9, 9), Cyclic(9, 24), 9, "usingExtDict", TRUE, r, 8) :
        r \in {0, 1, 14, 20, 24, 40}}
    \cup
    {Call(<<>>, Cyclic(5, 80), 0, "noDict", TRUE, r, 65) : r \in {66, 70, 144}}
    \cup {Call(<<>>, <<>>, 0, "noDict", p, r, 4) : p \in BOOLEAN, r \in {0, 4}}

(* A block that has been cut off, and a decoder without the dictionary.  *)
BadBlocks ==
    {[Call(Text(10), Text(70), 0, "noDict", FALSE, r, 10) EXCEPT !.cut = c] :
        r \in {70, 70 + 64}, c \in {1, 9, 30, 46, 57, 72}}
    \cup
    {[Call(Text(50), Text(55), 0, "noDict", FALSE, r, 48) EXCEPT !.cut = c] :
        r \in {55, 55 + 64}, c \in {1, 3, 5, 6}}
    \cup
    {[Call(Text(25), Cyclic(14, 14) \o Text(25) \o Cyclic(12, 12), 0, "noDict",
           FALSE, r, 25) EXCEPT !.cut = c] :
        r \in {51, 51 + 64}, c \in {9, 12}}
    \cup
    {[Call(Cyclic(9, 9), Cyclic(9, 24), e, IF e = 0 THEN "noDict" ELSE "usingExtDict",
           FALSE, r, 10) EXCEPT !.lost = 5] :
        e \in {0, 4}, r \in {24, 24 + 64}}

\* A stream nobody has initialised: a block that needs no dictionary, decoded
\* as if some bytes before the output or elsewhere were one.
Uninitialised ==
    {Call(Text(9), Cyclic(9, 24), e[1], e[2], FALSE, r, 11) :
        e \in {<<0, "noDict">>, <<0, "withPrefix64k">>, <<9, "usingExtDict">>,
               <<4, "usingExtDict">>},
        r \in {24, 24 + 64}}

MCInputs == Uninitialised \cup BadBlocks \cup Overlapping \cup Short \cup Dictionaries \cup Long \cup Parts
=============================================================================
