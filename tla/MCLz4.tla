-------------------------------- MODULE MCLz4 -------------------------------
(***************************************************************************)
(* Small texts for the three coders.  Those of the fast coder are short    *)
(* and repeat themselves early, as its lookups may return any position.    *)
(* Those of the other two are cut into pieces that overlap: the dictionary *)
(* holds pieces of the text, each followed by a byte of its own, and every *)
(* piece is a match for the text at its place.                             *)
(***************************************************************************)
EXTENDS Lz4Compress

Cyclic(p, n) == [i \in 1..n |-> p[((i - 1) % Len(p)) + 1]]

Ones(n) == Cyclic(<<1>>, n)

MCByte == 0..405

Text(n) == [i \in 1..n |-> i + 100]

Piece(a, b) == [i \in 1..(b - a + 1) |-> i + a + 100] \o <<a>>

Call(dict, text, coder, dir, room) ==
    [bytes |-> dict \o text, start |-> Len(dict), coder |-> coder,
     dir |-> dir, room |-> room,
     mode |-> "ext", gap |-> 0, accel |-> 1,
     sure |-> TRUE, enough |-> 0, full |-> FALSE, favor |-> FALSE]

FastTexts ==
    {<<>>, Ones(12), Ones(13), Ones(23), Cyclic(<<1, 2>>, 21),
     Cyclic(<<1, 2, 1, 1, 2>>, 22),
     Cyclic(<<1, 2, 3, 4>>, 9) \o Ones(5) \o Cyclic(<<1, 2, 3, 4>>, 13)}

FastCalls ==
    {Call(<<>>, t, "fast", dir, r) :
        t \in FastTexts, dir \in Directives, r \in {0, 1, 8, 12, 14, 17}}
    \cup
    {[Call(d, t, "fast", "limitedOutput", 45)
         EXCEPT !.mode = m, !.gap = g, !.accel = a] :
        d \in {Cyclic(<<1, 2, 3, 4>>, 8), Ones(17)},
        t \in {Ones(13), Cyclic(<<1, 2>>, 16)},
        m \in {"prefix", "ext", "ctx"}, g \in {0, 2}, a \in {1, 2}}
    \cup
    {Call(Piece(0, 4) \o Piece(5, 12), Text(26), "fast", dir, r) :
        dir \in Directives, r \in {12, 14, 16}}

(* A match and a run of literals whose lengths take two bytes more. *)
LongMatch == <<Piece(0, 290), Text(305)>>
LongRun == <<Piece(270, 292), Text(305)>>

LongCalls ==
    {Call(LongMatch[1], LongMatch[2], c, dir, r) :
        c \in {"fast", "hc"}, dir \in Directives, r \in {10, 11, 12, 30, 322}}
    \cup
    {Call(LongRun[1], LongRun[2], c, dir, r) :
        c \in {"fast", "hc"}, dir \in Directives, r \in {278, 281, 285, 322}}

ShortTexts == {<<>>, Ones(12), Ones(14), Cyclic(<<1, 2>>, 15)}

Pieces ==
    {<<Piece(0, 9) \o Piece(3, 20), Text(28)>>,
     <<Piece(0, 5) \o Piece(2, 8) \o Piece(5, 14), Text(30)>>,
     <<Piece(0, 9) \o Piece(3, 13) \o Piece(7, 20), Text(33)>>,
     <<Piece(0, 6) \o Piece(4, 13) \o Piece(8, 20), Text(33)>>,
     <<Piece(0, 6) \o Piece(4, 13) \o Piece(11, 24), Text(37)>>,
     <<Piece(0, 29) \o Piece(5, 41) \o Piece(29, 79), Text(92)>>,
     <<Piece(0, 29) \o Piece(5, 41) \o Piece(31, 72), Text(90)>>,
     <<Piece(0, 29) \o Piece(20, 52) \o Piece(43, 79), Text(92)>>}

HcCalls ==
    {[Call(<<>>, t, "hc", dir, r) EXCEPT !.sure = FALSE] :
        t \in ShortTexts, dir \in Directives, r \in {0, 1, 8, 12, 14, 31}}
    \cup
    {Call(p[1], p[2], "hc", dir, r) :
        p \in Pieces, dir \in Directives, r \in {8, 14, 16, 24, 30, 109}}
    \cup
    {[Call(Cyclic(<<1, 2, 3>>, 9), Cyclic(<<1, 2, 3>>, 28), "hc", "limitedOutput", 44)
         EXCEPT !.mode = m] :
        m \in {"prefix", "ext", "ctx"}}

OptCalls ==
    {[Call(<<>>, Ones(n), "opt", dir, r)
         EXCEPT !.mode = "prefix", !.sure = FALSE, !.enough = 16] :
        n \in {12, 14}, dir \in Directives, r \in {0, 14, 31}}
    \cup
    {[Call(Cyclic(<<1, 2, 3>>, 5), Cyclic(<<1, 2, 3>>, 12), "opt", dir, 28)
         EXCEPT !.mode = m, !.enough = 16] :
        m \in {"prefix", "ctx"}, dir \in Directives}
    \cup
    {[Call(p[1], p[2], "opt", dir, r)
         EXCEPT !.mode = IF v THEN "ctx" ELSE "prefix",
                !.enough = e, !.full = e > 16, !.favor = v] :
        p \in Pieces, dir \in Directives, r \in {20, 109},
        e \in {16, 64}, v \in BOOLEAN}

MCInputs == FastCalls \cup LongCalls \cup HcCalls \cup OptCalls
=============================================================================
