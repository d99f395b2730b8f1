---------------------------- MODULE MCLz4HcMatch ----------------------------
(***************************************************************************)
(* Every past of nine bytes out of two, before texts that ask for runs and *)
(* for other words, in every mode, with each combination of the flags that *)
(* the coders use; and some longer texts, whose inner positions belong to  *)
(* chains of their own.                                                    *)
(***************************************************************************)
EXTENDS Lz4HcMatch

MCByte == 0..30

Cyclic(k, n) == [j \in 1..n |-> j % k]

End12 == <<1, 1, 1, 1, 1>>

Search(past, text, back, start, mode) ==
    [bytes |-> past \o text \o End12, start |-> start, mode |-> mode,
     at |-> Len(past), low |-> Len(past) - back, longest |-> back + 3,
     attempts |-> 100, pattern |-> FALSE, swap |-> FALSE, favor |-> FALSE,
     collide |-> FALSE]

Texts == {<<1, 1, 1, 1, 1, 2, 1>>, <<1, 1, 1, 1, 2, 1, 1>>, <<1, 2, 1, 2, 1, 1, 2>>}

Modes == {<<0, "prefix">>, <<5, "ext">>, <<6, "ctx">>}

\* The hash-chain coder looks back, with pattern analysis at level 9.
HashChain ==
    {[Search(p, t, 2, s[1], s[2]) EXCEPT !.pattern = f[1], !.collide = f[2]] :
        p \in [1..9 -> {1, 2}], t \in Texts, s \in Modes,
        f \in {<<FALSE, FALSE>>, <<TRUE, TRUE>>}}

\* The optimal coder does not, and uses both shortcuts.
Optimal ==
    {[Search(p, t, 0, s[1], s[2])
         EXCEPT !.pattern = TRUE, !.swap = s[2] # "ext", !.collide = f] :
        p \in [1..9 -> {1, 2}], t \in Texts, s \in Modes, f \in BOOLEAN}

\* Few attempts, and offsets of 8 and more.
Hurried ==
    {[Search(p, <<1, 1, 1, 1, 1, 2, 1>>, 0, 0, "prefix")
         EXCEPT !.pattern = TRUE, !.swap = TRUE, !.attempts = n, !.favor = f] :
        p \in [1..9 -> {1, 2}], n \in {1, 100}, f \in BOOLEAN}

\* Chains of inner positions, and pasts that reach further back than any
\* match may lie.
Longer ==
    {[Search(p[1], p[2], 0, 0, "prefix")
         EXCEPT !.swap = TRUE, !.pattern = f, !.collide = f] :
        f \in BOOLEAN,
        p \in {<<Cyclic(25, 60), Cyclic(25, 38)>>,
               <<Cyclic(1, 40), Cyclic(1, 12)>>,
               <<Cyclic(1, 40) \o <<1>>, Cyclic(1, 12) \o <<2>>>>,
               <<Cyclic(1, 30) \o [j \in 1..22 |-> j + 7], Cyclic(1, 12) \o <<2>>>>,
               <<<<2>> \o Cyclic(1, 27) \o <<1>>, Cyclic(1, 12) \o <<2>>>>,
               <<<<1, 2, 3, 4, 4, 1, 2, 3, 9, 4, 1, 2, 3, 4>>,
                 <<4, 1, 2, 3, 4, 5, 6>>>>,
               <<<<5, 1, 2, 3, 4, 5, 6, 7, 4, 1, 2, 3, 9, 4, 1, 2, 3, 4, 5>>,
                 <<4, 1, 2, 3, 4, 5, 6>>>>}}

MCInputs == HashChain \cup Optimal \cup Hurried \cup Longer
=============================================================================
