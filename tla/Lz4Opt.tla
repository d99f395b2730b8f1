------------------------------- MODULE Lz4Opt -------------------------------
(***************************************************************************)
(* LZ4HC_compress_optimal, the coder of levels 10 to 12.  From a first     *)
(* match on it prices every way to reach the positions behind it, walks    *)
(* back along the cheapest one, and writes that one's sequences.           *)
(*                                                                         *)
(* Besides what Lz4Coder says, an input has                                *)
(*   enough  sufficient_len, a length that is taken at once                *)
(*   full    fullUpdate                                                    *)
(*   favor   favorDecSpeed                                                 *)
(***************************************************************************)
EXTENDS Lz4Hc

CONSTANT OptNum     \* LZ4_OPT_NUM

ASSUME OptAssumption ==
    /\ OptNum \in Nat /\ OptNum > MFLIMIT
    /\ \A i \in Inputs : i.coder = "opt" => /\ i.mode # "ext"
                                            /\ i.enough \in Nat
                                            /\ i.full \in BOOLEAN
                                            /\ i.favor \in BOOLEAN

VARIABLES opt,      \* for each position behind ip the cheapest way there
          cur,      \* cur, candidate_pos or rPos
          last,     \* last_match_pos
          sel       \* selected_matchLength, selected_offset

optVars == <<opt, cur, last, sel>>

TRAILING_LITERALS == 3

sufficient == Min({input.enough, OptNum - 1})

literalsPrice(n) == n + ExtraBytes(n)

(* LZ4HC_FindLongerMatch. *)
Favoured(m) ==
    IF input.favor /\ m.len \in 19..36 THEN [m EXCEPT !.len = 18] ELSE m

Longer(i, n) == {Favoured(m) : m \in Found(i, i, n)}

(* The ways to reach a position: by its last literal or by a match. *)
Literal(ll, price) == [mlen |-> 1, off |-> 0, litlen |-> ll, price |-> price]

ByMatch(ml, off, ll, price) ==
    [mlen |-> ml, off |-> off, litlen |-> ll, price |-> price]

(* The table t up to position n, and three literals behind it. *)
Trailed(t, n) ==
    [p \in 0..(n + TRAILING_LITERALS) |->
        IF p <= n THEN t[p]
        ELSE Literal(p - n, t[n].price + literalsPrice(p - n))]

FirstTable(m) ==
    LET ll == ip - anchor
    IN Trailed([p \in 0..m.len |->
                   IF p < MINMATCH THEN Literal(ll + p, literalsPrice(ll + p))
                   ELSE ByMatch(p, m.off, ll, SequenceSize(ll, p))],
               m.len)

OptInit == opt = <<>> /\ cur = 0 /\ last = 0 /\ sel = [mlen |-> 0, off |-> 0]

\* There is no least length: a text of 12 bytes is searched at its first byte.
OptBegin ==
    /\ BeginCall(0, "opt")
    /\ UNCHANGED <<ip, optVars>>

OptSearch ==
    /\ pc = "opt"
    /\ \/ /\ ip > mflimit
          /\ pc' = "last"
          /\ UNCHANGED <<ip, seqs, anchor, size, result, top, nextToUpdate, optVars>>
       \/ /\ ip <= mflimit
          /\ Searches(ip)
          /\ MayMiss(ip, ip, MINMATCH - 1)
          /\ ip' = ip + 1
          /\ UNCHANGED <<pc, seqs, anchor, size, result, top, optVars>>
       \/ /\ ip <= mflimit
          /\ Searches(ip)
          /\ \E m \in Longer(ip, MINMATCH - 1) :
                \/ /\ m.len > sufficient
                   /\ EncodeSequence(m, "opt") \/ Overflow(m)
                   /\ UNCHANGED optVars
                \/ /\ m.len <= sufficient
                   /\ opt' = FirstTable(m)
                   /\ last' = m.len
                   /\ cur' = 1
                   /\ pc' = "price"
                   /\ UNCHANGED <<ip, seqs, anchor, size, result, top, sel>>

(***************************************************************************)
(* One turn of the loop over the positions behind ip: a match that begins  *)
(* at cur makes those it reaches cheaper.  Nothing is searched where the   *)
(* next position costs no more.                                            *)
(***************************************************************************)
Dull ==
    /\ opt[cur + 1].price <= opt[cur].price
    /\ input.full => opt[cur + MINMATCH].price < opt[cur].price + 3

Minimum == IF input.full THEN MINMATCH - 1 ELSE last - cur

(* The price of a match of n bytes at cur, with the literals before it. *)
LitBefore == IF opt[cur].mlen = 1 THEN opt[cur].litlen ELSE 0

MatchPrice(n) ==
    SequenceSize(LitBefore, n) +
        IF opt[cur].mlen # 1 THEN opt[cur].price
        ELSE IF cur > LitBefore THEN opt[cur - LitBefore].price ELSE 0

LiteralPrice(k) ==
    opt[cur].price - literalsPrice(opt[cur].litlen)
                   + literalsPrice(opt[cur].litlen + k)

Cheaper(p) ==
    \/ p > last + TRAILING_LITERALS
    \/ MatchPrice(p - cur) <= opt[p].price - IF input.favor THEN 1 ELSE 0

NewLast(m) ==
    IF cur + m.len > last /\ Cheaper(cur + m.len) THEN cur + m.len ELSE last

NewTable(m) ==
    Trailed([p \in 0..NewLast(m) |->
                IF p \in (cur + 1)..(cur + 3) /\ LiteralPrice(p - cur) < opt[p].price
                THEN Literal(opt[cur].litlen + p - cur, LiteralPrice(p - cur))
                ELSE IF p \in (cur + MINMATCH)..(cur + m.len) /\ Cheaper(p)
                THEN ByMatch(p - cur, m.off, LitBefore, MatchPrice(p - cur))
                ELSE opt[p]],
            NewLast(m))

Searching == cur < last /\ ip + cur <= mflimit

\* Mutant of AtOnce: only the length of the match is looked at.
AtOnceIfLong(m) == m.len > sufficient

(* The match is taken at once, whatever lies behind it. *)
AtOnce(m) == m.len > sufficient \/ m.len + cur >= OptNum

PriceSkips ==
    /\ pc = "price"
    /\ Searching
    /\ \/ Dull /\ UNCHANGED nextToUpdate
       \/ /\ ~ Dull
          /\ Searches(ip + cur)
          /\ MayMiss(ip + cur, ip + cur, Minimum)
    /\ cur' = cur + 1
    /\ UNCHANGED <<pc, ip, seqs, anchor, size, result, top, opt, last, sel>>

PriceMatch ==
    /\ pc = "price"
    /\ Searching /\ ~ Dull
    /\ Searches(ip + cur)
    /\ \E m \in Longer(ip + cur, Minimum) :
          \/ /\ AtOnce(m)
             /\ sel' = [mlen |-> m.len, off |-> m.off]
             /\ last' = cur + 1
             /\ pc' = "back"
             /\ UNCHANGED <<opt, cur>>
          \/ /\ ~ AtOnce(m)
             /\ opt' = NewTable(m)
             /\ last' = NewLast(m)
             /\ cur' = cur + 1
             /\ UNCHANGED <<pc, sel>>
    /\ UNCHANGED <<ip, seqs, anchor, size, result, top>>

PriceEnds ==
    /\ pc = "price"
    /\ ~ Searching
    /\ sel' = [mlen |-> opt[last].mlen, off |-> opt[last].off]
    /\ cur' = last - opt[last].mlen
    /\ pc' = "back"
    /\ UNCHANGED <<ip, seqs, anchor, size, result, top, opt, last>>

(***************************************************************************)
(* Reverse traversal: each position on the cheapest way gets the step that *)
(* leaves it, in the place of the one that leads to it.                    *)
(***************************************************************************)
GoBack ==
    LET s == opt[cur]
    IN /\ pc = "back"
       /\ opt' = [opt EXCEPT ![cur].mlen = sel.mlen, ![cur].off = sel.off]
       /\ sel' = [mlen |-> s.mlen, off |-> s.off]
       /\ IF s.mlen > cur THEN cur' = 0 /\ pc' = "emit"
          ELSE cur' = cur - s.mlen /\ UNCHANGED pc
       /\ UNCHANGED <<ip, seqs, anchor, size, result, top, last>>

EmitSequence ==
    LET m == [at |-> ip, len |-> opt[cur].mlen, off |-> opt[cur].off]
    IN /\ pc = "emit"
       /\ \/ /\ cur >= last
             /\ pc' = "opt"
             /\ UNCHANGED <<ip, seqs, anchor, size, result, top, cur>>
          \/ /\ cur < last /\ m.len = 1
             /\ ip' = ip + 1
             /\ cur' = cur + 1
             /\ UNCHANGED <<pc, seqs, anchor, size, result, top>>
          \/ /\ cur < last /\ m.len # 1
             /\ EncodeSequence(m, "emit") \/ Overflow(m)
             /\ cur' = cur + m.len
       /\ UNCHANGED <<opt, last, sel>>

OptNext ==
    /\ input.coder = "opt"
    /\ UNCHANGED <<input, reader, matchVars>>
    /\ \/ OptSearch \/ PriceSkips \/ PriceMatch
       \/ /\ UNCHANGED nextToUpdate
          /\ \/ CallFails /\ UNCHANGED optVars
             \/ OptBegin
             \/ PriceEnds \/ GoBack \/ EmitSequence
             \/ WriteLastLiterals /\ UNCHANGED optVars

(***************************************************************************)
(* The prices stay within the table on the stack, and neither the walk     *)
(* back nor the sequences written from it leave what has been priced (the  *)
(* assertions of the function).                                            *)
(***************************************************************************)
TableFits ==
    /\ pc \in {"price", "back"} => last < OptNum /\ cur \in 0..(OptNum - 1)
    /\ pc = "emit" /\ cur < last => opt[cur].mlen \in {1} \cup MINMATCH..End
=============================================================================
