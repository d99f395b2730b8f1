---------------------------- MODULE PofAlignerProofs ----------------------------
(***************************************************************************)
(* align_pof keeps its place in every well-formed file: it never reads a   *)
(* header where there is none, returns what it has written, and leaves     *)
(* sizes and offsets behind that lead from chunk to chunk and from node to *)
(* node.  The position is tied to the address of the chunk and of the part *)
(* that are next, and the output to the header written last.               *)
(***************************************************************************)
EXTENDS PofAligner, FiniteSetTheorems, WellFoundedInduction, TLAPS

Parts == ThisChunk.parts
Last == headers[Len(headers)]

\* Where chunk k of the file, and where part k of this chunk, begins.
ChunkStart(k) == IF k <= Len(file) THEN file[k].at ELSE TotalSize
PartStart(k) == IF k <= Len(Parts) THEN Parts[k].at ELSE End(ThisChunk)

InTree == pc \in {"SLDC", "walk"}
Inside == pc \in {"table", "OBJ2", "SLDC", "walk"}

\* The position is the address of what comes next.
Position ==
    /\ BetweenChunks => inpos = ChunkStart(c)
    /\ Inside => /\ c <= Len(file)
                 /\ i <= Len(Parts) + 1
                 /\ inpos = PartStart(i)
                 /\ ThisChunk.kind = IF pc = "walk" THEN "SLDC" ELSE pc

\* Every header but the last is final, and that one is when the chunk is.
Headers ==
    /\ outpos % 4 = 0
    /\ Chained
    /\ \A k \in 1..(Len(headers) - 1) : headers[k].size % 4 = 0
    /\ headers = <<>> => pc \in {"chunk", "done"} /\ outpos = 8
    /\ headers # <<>> => /\ Last.at % 4 = 0
                         /\ Last.at + 8 <= outpos
                         /\ BetweenChunks => Last.size % 4 = 0 /\ End(Last) = outpos

\* What is counted, by each branch in its own way, is what lies behind the last header.
Counts ==
    /\ pc # "table" => copied = outpos
    /\ pc = "table" => copied = Last.at + 8 /\ new_sizes = outpos - Last.at - 8
    /\ pc = "OBJ2" => ini_cp = Last.at
    /\ InTree => /\ inpos = ThisChunk.at + 12 + count
                 /\ outpos = Last.at + 12 + count + 3 * (i - 1)
                 /\ new_tree_size = outpos - Last.at - 12

\* Every node has moved by three bytes for each one before it.
NodeOK(j) ==
    /\ nodes[j].at = Last.at + Parts[j].at - ThisChunk.at + 3 * (j - 1)
    /\ Parts[j].kind = "split" =>
         /\ nodes[j].front = Parts[j].n + 3
         /\ \E t \in j..Len(Parts) : /\ Parts[t].at = Parts[j].at + Parts[j].back
                                     /\ nodes[j].back = Parts[j].back + 3 * (t - j)

\* The walk is at a node before the back node, or at it.
WalkOK ==
    /\ i <= Len(Parts)
    /\ Parts[i].kind = "split"
    /\ p <= inpos + Parts[i].back
    /\ \E m \in i..Len(Parts) : p = Parts[m].at /\ newback = p - inpos + 3 * (m - i)

Tree ==
    /\ InTree => Len(nodes) = i - 1 /\ \A j \in 1..(i - 1) : NodeOK(j)
    /\ pc = "walk" => WalkOK

IInv == TypeOK /\ i >= 1 /\ Position /\ Headers /\ Counts /\ Tree
-----------------------------------------------------------------------------
(* The file *)

\* A chunk is followed by the next one, or the end.
LEMMA ChunkFacts ==
    ASSUME TypeOK, c <= Len(file)
    PROVE  /\ ThisChunk \in ChunkRecords /\ ChunkOK(ThisChunk)
           /\ ChunkStart(c) = ThisChunk.at
           /\ ChunkStart(c + 1) = End(ThisChunk)
           /\ c + 1 \in 1..(Len(file) + 1)
           /\ End(ThisChunk) \in Nat
<1>1. FileOK(file) /\ c \in 1..Len(file) /\ Len(file) \in Nat /\ file \in Seq(ChunkRecords)
  <2>1. FileOK(file)
    BY FilesAssumption DEF TypeOK
  <2>2. file \in Seq(ChunkRecords)
    BY <2>1 DEF FileOK
  <2>3. Len(file) \in Nat
    BY <2>2
  <2>4. c \in 1..(Len(file) + 1)
    BY DEF TypeOK
  <2> QED
    BY <2>1, <2>2, <2>3, <2>4
<1>2. ThisChunk \in ChunkRecords /\ ChunkOK(ThisChunk)
  BY <1>1 DEF FileOK, ThisChunk
<1>3. End(ThisChunk) \in Nat
  BY <1>2 DEF End, ChunkRecords
<1>4. ChunkStart(c) = ThisChunk.at
  BY <1>1 DEF ChunkStart, ThisChunk
<1>5. CASE c < Len(file)
  BY <1>1, <1>2, <1>3, <1>4, <1>5 DEF FileOK, ChunkStart, ThisChunk
<1>6. CASE c = Len(file)
  <2>1. TotalSize = End(ThisChunk)
    BY <1>1, <1>6 DEF TotalSize, ThisChunk
  <2> QED
    BY <1>1, <1>2, <1>3, <1>4, <1>6, <2>1 DEF ChunkStart
<1> QED
  BY <1>1, <1>5, <1>6

\* The first chunk, or the end of a file without any, is behind the version.
LEMMA FirstChunk ==
    ASSUME file \in Files, c = 1
    PROVE  ChunkStart(c) = 8
<1>1. FileOK(file) /\ file \in Seq(ChunkRecords)
  BY FilesAssumption DEF FileOK
<1> QED
  BY <1>1 DEF FileOK, ChunkStart, TotalSize

\* A part is followed by the next one, or the end of the chunk.
LEMMA PartFacts ==
    ASSUME TypeOK, c <= Len(file), HasParts(ThisChunk)
    PROVE  /\ Len(Parts) \in Nat /\ Parts \in Seq(PartRecords)
           /\ PartStart(1) = ThisChunk.at + PartsAt(ThisChunk.kind)
           /\ \A k \in 1..Len(Parts) :
                /\ Parts[k] \in PartRecords /\ PartOK(ThisChunk.kind, Parts[k])
                /\ InLength(Parts[k]) \in Nat
                /\ PartStart(k) = Parts[k].at
                /\ PartStart(k + 1) = Parts[k].at + InLength(Parts[k])
           /\ \A k \in 1..(Len(Parts) + 1) : PartStart(k) \in Nat
<1>1. /\ ThisChunk \in ChunkRecords /\ PartsOK(ThisChunk) /\ End(ThisChunk) \in Nat
      /\ Parts \in Seq(PartRecords) /\ Len(Parts) \in Nat
  BY ChunkFacts DEF ChunkOK, ChunkRecords, Parts
<1>2. \A k \in 1..Len(Parts) : Parts[k] \in PartRecords /\ PartOK(ThisChunk.kind, Parts[k])
  BY <1>1 DEF PartsOK, Parts
<1>3. \A k \in 1..Len(Parts) : InLength(Parts[k]) \in Nat
  BY <1>2 DEF InLength, PartRecords
<1>4. \A k \in 1..(Len(Parts) + 1) : PartStart(k) \in Nat
  BY <1>1, <1>2 DEF PartStart, PartRecords
<1>5. PartStart(1) = ThisChunk.at + PartsAt(ThisChunk.kind)
  <2>1. CASE Len(Parts) = 0
    BY <1>1, <2>1 DEF PartsOK, Parts, PartStart, End, ChunkRecords, PartsAt
  <2>2. CASE Len(Parts) > 0
    BY <1>1, <2>2 DEF PartsOK, Parts, PartStart
  <2> QED
    BY <1>1, <2>1, <2>2
<1>6. ASSUME NEW k \in 1..Len(Parts)
      PROVE  PartStart(k) = Parts[k].at /\ PartStart(k + 1) = Parts[k].at + InLength(Parts[k])
  <2>1. CASE k < Len(Parts)
    BY <1>1, <2>1 DEF PartsOK, Parts, PartStart
  <2>2. CASE k = Len(Parts)
    BY <1>1, <2>2 DEF PartsOK, Parts, PartStart
  <2> QED
    BY <1>1, <2>1, <2>2
<1> QED
  BY <1>1, <1>2, <1>3, <1>4, <1>5, <1>6

\* No part begins before an earlier one, and every node is in a place of its own.
LEMMA TreeFacts ==
    ASSUME TypeOK, c <= Len(file), ThisChunk.kind = "SLDC"
    PROVE  /\ \A k \in 1..Len(Parts) :
                /\ InLength(Parts[k]) = Parts[k].n /\ Parts[k].n >= 33 /\ Parts[k].n % 4 = 1
                /\ Parts[k].kind \in {"split", "leaf"}
                /\ Parts[k].kind = "split" =>
                     Parts[k].n = 37
                       /\ \E j \in k..Len(Parts) : Parts[j].at = Parts[k].at + Parts[k].back
           /\ \A j, k \in 1..Len(Parts) : j < k => Parts[j].at < Parts[k].at
           /\ \A k \in 1..Len(Parts) : Parts[k].at < End(ThisChunk)
<1>1. HasParts(ThisChunk) /\ ThisChunk \in ChunkRecords /\ PartsOK(ThisChunk)
  BY ChunkFacts DEF HasParts, ChunkOK
<1>2. /\ Len(Parts) \in Nat
      /\ \A k \in 1..Len(Parts) :
           /\ Parts[k] \in PartRecords /\ PartOK(ThisChunk.kind, Parts[k])
           /\ PartStart(k) = Parts[k].at
           /\ PartStart(k + 1) = Parts[k].at + InLength(Parts[k])
  BY <1>1, PartFacts
<1>3. ASSUME NEW k \in 1..Len(Parts)
      PROVE  /\ InLength(Parts[k]) = Parts[k].n /\ Parts[k].n >= 33 /\ Parts[k].n % 4 = 1
             /\ Parts[k].kind \in {"split", "leaf"}
             /\ Parts[k].kind = "split" =>
                  Parts[k].n = 37
                    /\ \E j \in k..Len(Parts) : Parts[j].at = Parts[k].at + Parts[k].back
  <2>1. Parts[k].kind \in {"split", "leaf"}
    BY <1>2 DEF PartOK
  <2>2. InLength(Parts[k]) = Parts[k].n
    BY <2>1 DEF InLength
  <2>3. Parts[k].n >= 33 /\ Parts[k].n % 4 = 1 /\ (Parts[k].kind = "split" => Parts[k].n = 37)
    BY <1>2, <2>1 DEF PartOK, PartRecords
  <2>4. Parts[k].kind = "split" =>
          \E j \in k..Len(Parts) : Parts[j].at = Parts[k].at + Parts[k].back
    BY <1>1 DEF PartsOK, Parts
  <2> QED
    BY <2>1, <2>2, <2>3, <2>4
<1>4. ASSUME NEW j \in 1..Len(Parts), NEW k \in 1..Len(Parts), j < k
      PROVE  Parts[j].at < Parts[k].at
  <2>1. j + 1 \in 1..Len(Parts) /\ PartStart(j + 1) = Parts[j + 1].at
    BY <1>2, <1>4
  <2>2. Parts[j].at < Parts[j + 1].at
    BY <1>2, <1>3, <2>1 DEF PartRecords
  <2>3. j + 1 = k \/ Parts[j + 1].at <= Parts[k].at
    BY <1>1, <1>2, <1>4, <2>1 DEF PartsOK, Parts
  <2> QED
    BY <1>2, <2>1, <2>2, <2>3 DEF PartRecords
<1>5. ASSUME NEW k \in 1..Len(Parts)
      PROVE  Parts[k].at < End(ThisChunk)
  <2>1. PartStart(Len(Parts) + 1) = End(ThisChunk) /\ Len(Parts) \in 1..Len(Parts)
    BY <1>2 DEF PartStart
  <2>2. \A j \in 1..Len(Parts) :
          Parts[j].at \in Nat /\ Parts[j].n \in Nat /\ Parts[j].n >= 33
            /\ PartStart(j + 1) = Parts[j].at + Parts[j].n
    BY <1>2, <1>3 DEF PartRecords
  <2>3. Parts[Len(Parts)].at < End(ThisChunk)
    BY <2>1, <2>2
  <2>4. k = Len(Parts) \/ Parts[k].at < Parts[Len(Parts)].at
    BY <1>2, <1>4, <2>1
  <2>5. End(ThisChunk) \in Nat
    BY ChunkFacts
  <2> QED
    BY <2>1, <2>2, <2>3, <2>4, <2>5
<1> QED
  BY <1>3, <1>4, <1>5

LEMMA WordSums ==
    ASSUME NEW a \in Nat, NEW b \in Nat, a % 4 = 0, b % 4 = 0
    PROVE  (a + b) % 4 = 0 /\ (a + (b + 8)) % 4 = 0 /\ (a <= b => (b - a) % 4 = 0)
  OBVIOUS

\* A node grows to whole words.
LEMMA NodeWords ==
    ASSUME NEW n \in Nat, n % 4 = 1
    PROVE  n + 3 \in Nat /\ (n + 3) % 4 = 0
  OBVIOUS

LEMMA PaddedFacts ==
    ASSUME NEW n \in Nat
    PROVE  /\ Padded(n) \in Nat /\ n <= Padded(n) /\ Padded(n) % 4 = 0
           /\ n % 4 = 0 => Padded(n) = n
  BY DEF Padded

\* All that is written of a table or an object is whole words.
LEMMA OutLengthFacts ==
    ASSUME NEW kind \in {"table", "OBJ2"}, NEW q \in PartRecords, PartOK(kind, q)
    PROVE  OutLength(q) \in Nat /\ OutLength(q) % 4 = 0
<1>1. /\ q.n \in Nat
      /\ q.kind \in {"fixed", "string", "property", "points", "bsp"} \cup TableParts
  BY DEF PartRecords, PartOK
<1>2. Padded(q.n) \in Nat /\ Padded(q.n) % 4 = 0
  BY <1>1, PaddedFacts
<1>3. q.kind \in {"fixed", "bsp"} \cup (TableParts \ {"string"}) => q.n % 4 = 0
  BY DEF PartOK
<1> QED
  BY <1>1, <1>2, <1>3 DEF OutLength
-----------------------------------------------------------------------------
(* The headers *)

Written == [at : Nat, size : Nat]

\* A chunk is begun behind the last one.
LEMMA AppendFacts ==
    ASSUME TypeOK, Headers, BetweenChunks, NEW n \in Nat,
           headers' = Append(headers, Header(outpos, n))
    PROVE  /\ headers' \in Seq(Written) /\ Len(headers') = Len(headers) + 1
           /\ headers' # <<>>
           /\ Chained' /\ Last' = Header(outpos, n) /\ Last.at' = outpos /\ Last.size' = n
           /\ \A k \in 1..(Len(headers') - 1) : headers'[k].size % 4 = 0
<1>1. /\ headers \in Seq(Written) /\ Len(headers) \in Nat
      /\ Header(outpos, n) \in Written
      /\ Header(outpos, n).at = outpos /\ Header(outpos, n).size = n
  BY DEF TypeOK, Written, Header
<1>2. /\ headers' \in Seq(Written) /\ Len(headers') = Len(headers) + 1
      /\ headers'[Len(headers')] = Header(outpos, n)
      /\ \A k \in 1..Len(headers) : headers'[k] = headers[k]
  BY <1>1
<1>3. headers' # <<>>
  BY <1>1, <1>2
<1>4. Chained'
  <2>1. CASE headers = <<>>
    BY <1>1, <1>2, <2>1 DEF Headers, Chained
  <2>2. CASE headers # <<>>
    <3>1. Len(headers) \in 1..Len(headers)
      BY <1>1, <2>2
    <3>2. End(headers[Len(headers)]) = outpos /\ Chained
      BY <2>2 DEF Headers, Last
    <3>3. headers'[1].at = 8
      BY <1>2, <2>2, <3>1, <3>2 DEF Chained
    <3>4. ASSUME NEW k \in 1..(Len(headers') - 1)
          PROVE  headers'[k + 1].at = End(headers'[k])
      <4>1. CASE k = Len(headers)
        BY <1>1, <1>2, <3>1, <3>2, <4>1
      <4>2. CASE k < Len(headers)
        BY <1>1, <1>2, <3>2, <4>2 DEF Chained
      <4> QED
        BY <1>1, <1>2, <4>1, <4>2
    <3> QED
      BY <3>3, <3>4 DEF Chained
  <2> QED
    BY <2>1, <2>2
<1>5. \A k \in 1..(Len(headers') - 1) : headers'[k].size % 4 = 0
  <2> TAKE k \in 1..(Len(headers') - 1)
  <2>1. k \in 1..Len(headers) /\ headers'[k] = headers[k]
    BY <1>1, <1>2
  <2>2. k = Len(headers) \/ k \in 1..(Len(headers) - 1)
    BY <1>1, <2>1
  <2>3. headers # <<>>
    BY <1>1, <2>1
  <2> QED
    BY <2>1, <2>2, <2>3 DEF Headers, Last
<1> QED
  BY <1>1, <1>2, <1>3, <1>4, <1>5 DEF Last

\* The size is patched into the last header, which leaves it where it is.
LEMMA PatchFacts ==
    ASSUME TypeOK, Headers, headers # <<>>, NEW n \in Nat, headers' = Patched(n)
    PROVE  /\ headers' \in Seq(Written) /\ headers' # <<>>
           /\ Chained' /\ Last' = Header(Last.at, n) /\ Last.at' = Last.at /\ Last.size' = n
           /\ \A k \in 1..(Len(headers') - 1) : headers'[k].size % 4 = 0
<1>1. /\ headers \in Seq(Written) /\ Len(headers) \in Nat
      /\ Len(headers) \in 1..Len(headers) /\ Last \in Written
  <2>1. headers \in Seq(Written)
    BY DEF TypeOK, Written
  <2> QED
    BY <2>1 DEF Last
<1>2. /\ headers' \in Seq(Written) /\ Len(headers') = Len(headers)
      /\ \A k \in 1..(Len(headers) - 1) : headers'[k] = headers[k]
      /\ headers'[Len(headers)] = Header(Last.at, n)
  <2>1. [Last EXCEPT !.size = n] = Header(Last.at, n) /\ Header(Last.at, n) \in Written
    BY <1>1 DEF Written, Header
  <2>2. headers' = [headers EXCEPT ![Len(headers)] = [Last EXCEPT !.size = n]]
    BY DEF Patched, Last
  <2>3. headers' = [headers EXCEPT ![Len(headers)] = Header(Last.at, n)]
    BY <2>1, <2>2
  <2> QED
    BY <1>1, <2>1, <2>3
<1>3. Chained'
  <2>1. headers'[1].at = headers[1].at
    BY <1>1, <1>2 DEF Header, Last
  <2>2. ASSUME NEW k \in 1..(Len(headers') - 1)
        PROVE  headers'[k + 1].at = End(headers'[k])
    <3>1. headers[k + 1].at = End(headers[k]) /\ headers'[k] = headers[k]
      BY <1>1, <1>2 DEF Headers, Chained
    <3>2. headers'[k + 1].at = headers[k + 1].at
      BY <1>1, <1>2 DEF Header, Last
    <3> QED
      BY <3>1, <3>2
  <2> QED
    BY <1>1, <2>1, <2>2 DEF Headers, Chained
<1>4. \A k \in 1..(Len(headers') - 1) : headers'[k].size % 4 = 0
  BY <1>1, <1>2 DEF Headers
<1> QED
  BY <1>1, <1>2, <1>3, <1>4 DEF Last, Header
-----------------------------------------------------------------------------
(* The position *)

LEMMA AtChunkFacts ==
    ASSUME IInv, NEW kind \in Kinds, AtChunk(kind)
    PROVE  /\ c <= Len(file) /\ BetweenChunks /\ pc = "chunk"
           /\ ThisChunk.kind = kind
           /\ inpos = ThisChunk.at /\ copied = outpos
           /\ ThisChunk.at \in Nat /\ ThisChunk.size \in Nat
           /\ Padded(ThisChunk.size) \in Nat /\ Padded(ThisChunk.size) % 4 = 0
<1>1. c <= Len(file) /\ pc = "chunk" /\ ThisChunk.kind = kind /\ inpos = ThisChunk.at
  BY DEF AtChunk
<1>2. ThisChunk.at \in Nat /\ ThisChunk.size \in Nat
  BY <1>1, ChunkFacts DEF IInv, ChunkRecords
<1> QED
  BY <1>1, <1>2, PaddedFacts DEF IInv, Counts, BetweenChunks

\* The position behind a chunk is that of the next.
LEMMA ToNextChunk ==
    ASSUME IInv, c <= Len(file), inpos' = End(ThisChunk), c' = c + 1, pc' = "chunk",
           UNCHANGED file
    PROVE  Position' /\ c' \in 1..(Len(file') + 1) /\ inpos' \in Nat
<1>1. /\ ChunkStart(c + 1) = End(ThisChunk) /\ c + 1 \in 1..(Len(file) + 1)
      /\ End(ThisChunk) \in Nat
  BY ChunkFacts DEF IInv
<1>2. inpos' = ChunkStart(c)'
  BY <1>1 DEF ChunkStart, TotalSize
<1> QED
  BY <1>1, <1>2 DEF Position, Inside

\* The position behind the fixed beginning of a chunk is that of its first part.
LEMMA ToFirstPart ==
    ASSUME IInv, NEW kind \in {"table", "OBJ2", "SLDC"}, AtChunk(kind),
           inpos' = inpos + PartsAt(kind), i' = 1, pc' = kind, UNCHANGED <<file, c>>
    PROVE  Position' /\ inpos' \in Nat
<1>1. c <= Len(file) /\ ThisChunk.kind = kind /\ inpos = ThisChunk.at
  BY AtChunkFacts DEF Kinds
<1>2. /\ PartStart(1) = ThisChunk.at + PartsAt(kind) /\ Len(Parts) \in Nat
      /\ PartStart(1) \in Nat
  BY <1>1, PartFacts DEF HasParts, IInv
<1>3. ThisChunk' = ThisChunk /\ Parts' = Parts
  BY DEF ThisChunk, Parts
<1>4. PartStart(i)' = PartStart(1)
  BY <1>3 DEF PartStart
<1> QED
  BY <1>1, <1>2, <1>3, <1>4 DEF Position, Inside, BetweenChunks

LEMMA AtPartFacts ==
    ASSUME IInv, NEW where \in {"table", "OBJ2", "SLDC"}, AtPart(where)
    PROVE  /\ c <= Len(file) /\ pc = where /\ ThisChunk.kind = where
           /\ i \in 1..Len(Parts) /\ ThisPart = Parts[i] /\ Len(Parts) \in Nat
           /\ ThisPart \in PartRecords /\ PartOK(where, ThisPart)
           /\ inpos = ThisPart.at /\ InLength(ThisPart) \in Nat
           /\ headers # <<>> /\ Last \in Written
<1>1. /\ pc = where /\ i <= Len(Parts) /\ inpos = ThisPart.at /\ ThisPart = Parts[i]
      /\ c <= Len(file) /\ ThisChunk.kind = where
  BY DEF AtPart, Parts, ThisPart, IInv, Position, Inside
<1>2. HasParts(ThisChunk)
  BY <1>1 DEF HasParts
<1>3. /\ Len(Parts) \in Nat
      /\ \A k \in 1..Len(Parts) : /\ Parts[k] \in PartRecords /\ PartOK(ThisChunk.kind, Parts[k])
                                  /\ InLength(Parts[k]) \in Nat
  BY <1>1, <1>2, PartFacts DEF IInv
<1>4. i \in 1..Len(Parts)
  BY <1>1, <1>3 DEF IInv, TypeOK
<1>5. headers # <<>> /\ headers \in Seq(Written)
  BY <1>1 DEF IInv, Headers, TypeOK, Written
<1> QED
  BY <1>1, <1>3, <1>4, <1>5 DEF Last

\* The position behind a part is that of the next.
LEMMA ToNextPart ==
    ASSUME IInv, c <= Len(file), HasParts(ThisChunk), i \in 1..Len(Parts),
           inpos = Parts[i].at, inpos' = inpos + InLength(Parts[i]), i' = i + 1,
           pc' \in {"table", "OBJ2", "SLDC"}, ThisChunk.kind = pc', UNCHANGED <<file, c>>
    PROVE  Position' /\ inpos' \in Nat
<1>1. /\ PartStart(i + 1) = Parts[i].at + InLength(Parts[i]) /\ Len(Parts) \in Nat
      /\ PartStart(i + 1) \in Nat
  BY PartFacts DEF IInv
<1>2. ThisChunk' = ThisChunk /\ Parts' = Parts
  BY DEF ThisChunk, Parts
<1>3. PartStart(i)' = PartStart(i + 1)
  BY <1>2 DEF PartStart
<1> QED
  BY <1>1, <1>2, <1>3 DEF Position, Inside, BetweenChunks
-----------------------------------------------------------------------------
(* The steps *)

LEMMA CopyChunkStep ==
    ASSUME IInv, NEW kind \in Kinds, AtChunk(kind), NEW n \in Nat, n % 4 = 0, CopyChunk(n)
    PROVE  IInv'
<1>1. /\ c <= Len(file) /\ BetweenChunks /\ pc = "chunk"
      /\ inpos = ThisChunk.at /\ copied = outpos
      /\ ThisChunk.at \in Nat /\ ThisChunk.size \in Nat
  BY AtChunkFacts
<1>2. /\ headers' = Append(headers, Header(outpos, n))
      /\ inpos' = inpos + ThisChunk.size + 8 /\ c' = c + 1
      /\ outpos' = outpos + n + 8 /\ copied' = copied + n + 8
      /\ UNCHANGED <<file, pc, i, new_sizes, ini_cp>> /\ UNCHANGED tree
  BY DEF CopyChunk
<1>3. Position' /\ c' \in 1..(Len(file') + 1) /\ inpos' \in Nat
  <2>1. inpos' = End(ThisChunk)
    BY <1>1, <1>2 DEF End
  <2> QED
    BY <1>1, <1>2, <2>1, ToNextChunk
<1>4. /\ headers' \in Seq(Written) /\ headers' # <<>> /\ Chained'
      /\ Last'.at = outpos /\ Last'.size = n
      /\ \A k \in 1..(Len(headers') - 1) : headers'[k].size % 4 = 0
  BY <1>1, <1>2, AppendFacts DEF IInv
<1>5. outpos \in Nat /\ outpos % 4 = 0
  BY DEF IInv, TypeOK, Headers
<1>6. TypeOK' /\ i' >= 1
  BY <1>1, <1>2, <1>3, <1>4, <1>5 DEF IInv, TypeOK, Written, tree
<1>7. Headers'
  <2>1. (outpos + (n + 8)) % 4 = 0
    BY <1>5, WordSums
  <2>2. outpos' % 4 = 0 /\ End(Last)' = outpos'
    BY <1>2, <1>4, <1>5, <2>1 DEF End
  <2> QED
    BY <1>2, <1>4, <1>5, <2>2 DEF Headers
<1>8. Counts' /\ Tree'
  BY <1>1, <1>2 DEF Counts, Tree, InTree
<1> QED
  BY <1>3, <1>6, <1>7, <1>8 DEF IInv

LEMMA CopyOtherStep ==
    ASSUME IInv, CopyOther
    PROVE  IInv'
<1>1. AtChunk("other") /\ CopyChunk(Padded(ThisChunk.size)) /\ "other" \in Kinds
  BY DEF CopyOther, Kinds
<1> QED
  BY <1>1, AtChunkFacts, CopyChunkStep

LEMMA CopySLC2Step ==
    ASSUME IInv, CopySLC2
    PROVE  IInv'
<1>1. AtChunk("SLC2") /\ CopyChunk(ThisChunk.size) /\ "SLC2" \in Kinds
  BY DEF CopySLC2, Kinds
<1>2. ThisChunk.size \in Nat /\ ThisChunk.kind = "SLC2" /\ c <= Len(file)
  BY <1>1, AtChunkFacts
<1>3. ThisChunk.size % 4 = 0
  BY <1>2, ChunkFacts DEF ChunkOK, IInv
<1> QED
  BY <1>1, <1>2, <1>3, CopyChunkStep

LEMMA CopyPINFStep ==
    ASSUME IInv, CopyPINF
    PROVE  IInv'
<1>1. AtChunk("PINF") /\ CopyChunk(Padded(ThisChunk.size) + 36) /\ "PINF" \in Kinds
  BY DEF CopyPINF, Kinds
<1>2. Padded(ThisChunk.size) \in Nat /\ Padded(ThisChunk.size) % 4 = 0
  BY <1>1, AtChunkFacts
<1>3. Padded(ThisChunk.size) + 36 \in Nat /\ (Padded(ThisChunk.size) + 36) % 4 = 0
  BY <1>2
<1> QED
  BY <1>1, <1>3, CopyChunkStep

LEMMA BeginTableStep ==
    ASSUME IInv, BeginTable
    PROVE  IInv'
<1>1. AtChunk("table") /\ "table" \in Kinds
  BY DEF BeginTable, Kinds
<1>2. BetweenChunks /\ copied = outpos /\ ThisChunk.size \in Nat
  BY <1>1, AtChunkFacts
<1>3. /\ headers' = Append(headers, Header(outpos, ThisChunk.size))
      /\ pc' = "table" /\ i' = 1 /\ inpos' = inpos + 12 /\ outpos' = outpos + 12
      /\ copied' = copied + 8 /\ new_sizes' = 4
      /\ UNCHANGED <<file, c, ini_cp>> /\ UNCHANGED tree
  BY DEF BeginTable
<1>4. Position' /\ inpos' \in Nat
  BY <1>1, <1>3, ToFirstPart DEF PartsAt
<1>5. /\ headers' \in Seq(Written) /\ headers' # <<>> /\ Chained' /\ Last'.at = outpos
      /\ \A k \in 1..(Len(headers') - 1) : headers'[k].size % 4 = 0
  BY <1>2, <1>3, AppendFacts DEF IInv
<1>6. outpos \in Nat /\ outpos % 4 = 0
  BY DEF IInv, TypeOK, Headers
<1>7. TypeOK' /\ i' >= 1
  BY <1>2, <1>3, <1>4, <1>5, <1>6 DEF IInv, TypeOK, Written, tree, states
<1>8. Headers'
  BY <1>3, <1>5, <1>6 DEF Headers, BetweenChunks
<1>9. Counts' /\ Tree'
  BY <1>2, <1>3, <1>5, <1>6 DEF Counts, Tree, InTree
<1> QED
  BY <1>4, <1>7, <1>8, <1>9 DEF IInv

LEMMA BeginOBJ2Step ==
    ASSUME IInv, BeginOBJ2
    PROVE  IInv'
<1>1. AtChunk("OBJ2") /\ "OBJ2" \in Kinds
  BY DEF BeginOBJ2, Kinds
<1>2. BetweenChunks /\ copied = outpos /\ ThisChunk.size \in Nat
  BY <1>1, AtChunkFacts
<1>3. /\ headers' = Append(headers, Header(outpos, ThisChunk.size))
      /\ pc' = "OBJ2" /\ i' = 1 /\ inpos' = inpos + 68 /\ outpos' = outpos + 68
      /\ copied' = copied + 68 /\ ini_cp' = copied
      /\ UNCHANGED <<file, c, new_sizes>> /\ UNCHANGED tree
  BY DEF BeginOBJ2
<1>4. Position' /\ inpos' \in Nat
  BY <1>1, <1>3, ToFirstPart DEF PartsAt
<1>5. /\ headers' \in Seq(Written) /\ headers' # <<>> /\ Chained' /\ Last'.at = outpos
      /\ \A k \in 1..(Len(headers') - 1) : headers'[k].size % 4 = 0
  BY <1>2, <1>3, AppendFacts DEF IInv
<1>6. outpos \in Nat /\ outpos % 4 = 0
  BY DEF IInv, TypeOK, Headers
<1>7. TypeOK' /\ i' >= 1
  BY <1>2, <1>3, <1>4, <1>5, <1>6 DEF IInv, TypeOK, Written, tree, states
<1>8. Headers'
  BY <1>3, <1>5, <1>6 DEF Headers, BetweenChunks
<1>9. Counts' /\ Tree'
  BY <1>2, <1>3, <1>5, <1>6 DEF Counts, Tree, InTree
<1> QED
  BY <1>4, <1>7, <1>8, <1>9 DEF IInv
\* Whole words are written behind the last header, which stays as it is.
LEMMA MoreWritten ==
    ASSUME IInv, headers # <<>>, ~BetweenChunks', NEW n \in Nat, n % 4 = 0,
           outpos' = outpos + n, UNCHANGED headers
    PROVE  /\ outpos \in Nat /\ outpos' \in Nat /\ Headers'
           /\ Last' = Last /\ Last.at \in Nat
<1>1. outpos \in Nat /\ headers \in Seq(Written) /\ Headers
  BY DEF IInv, TypeOK, Written
<1>2. Last' = Last /\ Last.at \in Nat
  <2>1. Last \in Written
    BY <1>1 DEF Last
  <2> QED
    BY <2>1 DEF Last, Written
<1>3. outpos % 4 = 0 /\ Last.at + 8 <= outpos
  BY <1>1 DEF Headers
<1>4. outpos' \in Nat /\ outpos' % 4 = 0 /\ Last.at + 8 <= outpos'
  BY <1>1, <1>2, <1>3, WordSums
<1> QED
  BY <1>1, <1>2, <1>4 DEF Headers, Chained

\* What the six branches have in common: they read, write and count one part.
CopyTablePart ==
    /\ AtPart("table")
    /\ Move(InLength(ThisPart), OutLength(ThisPart), OutLength(ThisPart))

CopyTable == CopyFuel \/ CopyGlow \/ CopySpcl \/ CopyTxtr \/ CopyDock \/ CopyPath

\* What the statements of the branches move by is what the part takes.
LEMMA PartMoves ==
    ASSUME NEW table, NEW q \in PartRecords, PartOK("table", q), ElementOK(table, q)
    PROVE  /\ q.kind = "string" => /\ InLength(q) = 4 + q.n
                                   /\ OutLength(q) = 4 + Padded(q.n)
                                   /\ OutLength(q) = Padded(q.n) + 4
           /\ q.kind # "string" => InLength(q) = q.n /\ OutLength(q) = q.n
           /\ q.kind = "number" => q.n = 4
           /\ q.kind = "record" /\ table = "GLOW" => q.n = 28
           /\ q.kind = "record" /\ table = "SPCL" => q.n = 16
           /\ q.kind = "record" /\ table = "PATH" => q.n = 20
           /\ q.kind = "glows" => 28 * (q.n \div 28) = q.n
           /\ q.kind = "docks" => 24 * (q.n \div 24) = q.n
           /\ q.kind \in {"paths", "turrets"} => 4 * (q.n \div 4) = q.n
<1>1. q.n \in Nat /\ q.kind \in TableParts
  BY DEF PartRecords, PartOK
<1>2. Padded(q.n) \in Nat
  BY <1>1, PaddedFacts
<1>3. q.kind \in {"paths", "turrets"} => q.n % 4 = 0
  BY DEF PartOK, TableParts
<1>4. /\ q.kind = "glows" => q.n % 28 = 0
      /\ q.kind = "docks" => q.n % 24 = 0
  BY DEF ElementOK
<1>5. \A n \in Nat : /\ n % 28 = 0 => 28 * (n \div 28) = n
                     /\ n % 24 = 0 => 24 * (n \div 24) = n
                     /\ n % 4 = 0 => 4 * (n \div 4) = n
  OBVIOUS
<1>6. /\ q.kind = "number" => q.n = 4
      /\ q.kind = "record" /\ table = "GLOW" => q.n = 28
      /\ q.kind = "record" /\ table = "SPCL" => q.n = 16
      /\ q.kind = "record" /\ table = "PATH" => q.n = 20
  BY DEF ElementOK
<1>7. q.kind = "string" => /\ InLength(q) = 4 + q.n
                           /\ OutLength(q) = 4 + Padded(q.n)
                           /\ OutLength(q) = Padded(q.n) + 4
  BY <1>1, <1>2 DEF InLength, OutLength
<1>8. q.kind # "string" => InLength(q) = q.n /\ OutLength(q) = q.n
  BY <1>1 DEF InLength, OutLength, TableParts
<1> QED
  BY <1>1, <1>3, <1>4, <1>5, <1>6, <1>7, <1>8

\* No branch forgets a statement.
LEMMA BranchesCopy ==
    ASSUME IInv, CopyTable
    PROVE  CopyTablePart
<1>1. AtPart("table")
  BY DEF CopyTable, CopyFuel, CopyGlow, CopySpcl, CopyTxtr, CopyDock, CopyPath, AtTable
<1>2. /\ ThisPart \in PartRecords /\ PartOK("table", ThisPart)
      /\ ElementOK(ThisChunk.table, ThisPart)
  <2>1. /\ c <= Len(file) /\ ThisChunk.kind = "table" /\ i \in 1..Len(Parts)
        /\ ThisPart = Parts[i] /\ ThisPart \in PartRecords /\ PartOK("table", ThisPart)
    BY <1>1, AtPartFacts
  <2>2. TableOK(ThisChunk)
    BY <2>1, ChunkFacts DEF ChunkOK, IInv
  <2> QED
    BY <2>1, <2>2 DEF TableOK, Parts
<1> DEFINE T == ThisChunk.table
           q == ThisPart
           M == Move(InLength(q), OutLength(q), OutLength(q))
<1>3. /\ q.kind = "string" => /\ InLength(q) = 4 + q.n
                              /\ OutLength(q) = 4 + Padded(q.n)
                              /\ OutLength(q) = Padded(q.n) + 4
      /\ q.kind # "string" => InLength(q) = q.n /\ OutLength(q) = q.n
      /\ q.kind = "number" => q.n = 4
      /\ q.kind = "record" /\ T = "GLOW" => q.n = 28
      /\ q.kind = "record" /\ T = "SPCL" => q.n = 16
      /\ q.kind = "record" /\ T = "PATH" => q.n = 20
      /\ q.kind = "glows" => 28 * (q.n \div 28) = q.n
      /\ q.kind = "docks" => 24 * (q.n \div 24) = q.n
      /\ q.kind \in {"paths", "turrets"} => 4 * (q.n \div 4) = q.n
  BY <1>2, PartMoves
<1>4. ASSUME CopyFuel PROVE M
  BY <1>3, <1>4 DEF CopyFuel, AtTable, Elements
<1>5. ASSUME CopyGlow PROVE M
  BY <1>3, <1>5 DEF CopyGlow, AtTable, Elements
<1>6. ASSUME CopySpcl PROVE M
  BY <1>3, <1>6 DEF CopySpcl, AtTable, Elements
<1>7. ASSUME CopyTxtr PROVE M
  BY <1>3, <1>7 DEF CopyTxtr, AtTable, Elements
<1>8. ASSUME CopyDock PROVE M
  BY <1>3, <1>8 DEF CopyDock, AtTable, Elements
<1>9. ASSUME CopyPath PROVE M
  BY <1>3, <1>9 DEF CopyPath, AtTable, Elements
<1>10. M
  BY <1>4, <1>5, <1>6, <1>7, <1>8, <1>9 DEF CopyTable
<1> QED
  BY <1>1, <1>10 DEF CopyTablePart

LEMMA CopyTablePartStep ==
    ASSUME IInv, CopyTablePart
    PROVE  IInv'
<1>1. /\ AtPart("table") /\ i' = i + 1
      /\ inpos' = inpos + InLength(ThisPart) /\ outpos' = outpos + OutLength(ThisPart)
      /\ new_sizes' = new_sizes + OutLength(ThisPart)
      /\ UNCHANGED <<file, pc, c, copied, ini_cp, headers>> /\ UNCHANGED tree
  BY DEF CopyTablePart, Move
<1>2. /\ c <= Len(file) /\ pc = "table" /\ ThisChunk.kind = "table"
      /\ i \in 1..Len(Parts) /\ ThisPart = Parts[i]
      /\ ThisPart \in PartRecords /\ PartOK("table", ThisPart)
      /\ inpos = ThisPart.at /\ headers # <<>> /\ ~BetweenChunks'
  BY <1>1, AtPartFacts DEF BetweenChunks
<1>3. OutLength(ThisPart) \in Nat /\ OutLength(ThisPart) % 4 = 0
  BY <1>2, OutLengthFacts
<1>4. Position' /\ inpos' \in Nat
  BY <1>1, <1>2, <1>3, ToNextPart DEF HasParts
<1>5. outpos \in Nat /\ outpos' \in Nat /\ Headers' /\ Last' = Last /\ Last.at \in Nat
  BY <1>1, <1>2, <1>3, MoreWritten
<1>6. TypeOK' /\ i' >= 1
  BY <1>1, <1>3, <1>4, <1>5 DEF IInv, TypeOK, tree
<1>7. copied \in Nat /\ copied = Last.at + 8 /\ new_sizes = outpos - Last.at - 8
  BY <1>2 DEF IInv, TypeOK, Counts
<1>8. pc' = "table" /\ ~InTree'
  BY <1>1, <1>2 DEF InTree
<1>9. Counts'
  <2>1. /\ copied' = copied /\ new_sizes' = new_sizes + OutLength(ThisPart)
        /\ outpos' = outpos + OutLength(ThisPart)
    BY <1>1, <1>3
  <2>2. new_sizes' = outpos' - Last.at - 8
    BY <1>3, <1>5, <1>7, <2>1
  <2> QED
    BY <1>5, <1>7, <1>8, <2>1, <2>2 DEF Counts
<1>10. Tree'
  BY <1>8 DEF Tree
<1> QED
  BY <1>4, <1>5, <1>6, <1>9, <1>10 DEF IInv

LEMMA CopyOBJ2PartStep ==
    ASSUME IInv, CopyOBJ2Part
    PROVE  IInv'
<1>1. /\ AtPart("OBJ2") /\ i' = i + 1
      /\ inpos' = inpos + InLength(ThisPart) /\ outpos' = outpos + OutLength(ThisPart)
      /\ copied' = copied + OutLength(ThisPart)
      /\ UNCHANGED <<file, pc, c, new_sizes, ini_cp, headers>> /\ UNCHANGED tree
  BY DEF CopyOBJ2Part
<1>2. /\ c <= Len(file) /\ pc = "OBJ2" /\ ThisChunk.kind = "OBJ2"
      /\ i \in 1..Len(Parts) /\ ThisPart = Parts[i]
      /\ ThisPart \in PartRecords /\ PartOK("OBJ2", ThisPart)
      /\ inpos = ThisPart.at /\ headers # <<>> /\ ~BetweenChunks'
  BY <1>1, AtPartFacts DEF BetweenChunks
<1>3. OutLength(ThisPart) \in Nat /\ OutLength(ThisPart) % 4 = 0
  BY <1>2, OutLengthFacts
<1>4. Position' /\ inpos' \in Nat
  BY <1>1, <1>2, <1>3, ToNextPart DEF HasParts
<1>5. outpos \in Nat /\ outpos' \in Nat /\ Headers' /\ Last' = Last /\ Last.at \in Nat
  BY <1>1, <1>2, <1>3, MoreWritten
<1>6. TypeOK' /\ i' >= 1
  BY <1>1, <1>3, <1>4, <1>5 DEF IInv, TypeOK, tree
<1>7. copied = outpos /\ ini_cp = Last.at
  BY <1>2 DEF IInv, Counts
<1>8. Counts' /\ Tree'
  BY <1>1, <1>2, <1>3, <1>5, <1>7 DEF Counts, Tree, InTree
<1> QED
  BY <1>4, <1>5, <1>6, <1>8 DEF IInv

\* The last chunk as it is once its parts are written.
LEMMA LastFacts ==
    ASSUME IInv, headers # <<>>
    PROVE  /\ Last.at \in Nat /\ outpos \in Nat /\ outpos - Last.at - 8 \in Nat
           /\ (outpos - Last.at - 8) % 4 = 0
<1>1. headers \in Seq(Written) /\ outpos \in Nat
  BY DEF IInv, TypeOK, Written
<1>2. Last \in Written
  BY <1>1 DEF Last
<1>3. Last.at + 8 \in Nat /\ (Last.at + 8) % 4 = 0 /\ Last.at + 8 <= outpos /\ outpos % 4 = 0
  BY <1>2 DEF IInv, Headers, Written
<1>4. (outpos - (Last.at + 8)) % 4 = 0
  BY <1>1, <1>3, WordSums
<1>5. Last.at \in Nat /\ outpos - (Last.at + 8) = outpos - Last.at - 8
  BY <1>1, <1>2 DEF Written
<1> QED
  BY <1>1, <1>3, <1>4, <1>5

\* The size that is patched leads to what is written next.
LEMMA ToNextHeader ==
    ASSUME IInv, headers # <<>>, headers' = Patched(outpos - Last.at - 8), outpos' = outpos
    PROVE  headers' \in Seq(Written) /\ Headers'
<1>1. /\ Last.at \in Nat /\ outpos \in Nat /\ outpos - Last.at - 8 \in Nat
      /\ (outpos - Last.at - 8) % 4 = 0
  BY LastFacts
<1>2. /\ headers' \in Seq(Written) /\ headers' # <<>> /\ Chained'
      /\ Last'.at = Last.at /\ Last'.size = outpos - Last.at - 8
      /\ \A k \in 1..(Len(headers') - 1) : headers'[k].size % 4 = 0
  BY <1>1, PatchFacts DEF IInv
<1>3. End(Last)' = outpos'
  BY <1>1, <1>2 DEF End
<1> QED
  BY <1>1, <1>2, <1>3 DEF IInv, Headers

LEMMA EndTableStep ==
    ASSUME IInv, EndTable
    PROVE  IInv'
<1>1. /\ pc = "table" /\ i > Len(Parts) /\ headers' = Patched(new_sizes)
      /\ copied' = copied + new_sizes /\ c' = c + 1 /\ pc' = "chunk"
      /\ UNCHANGED <<file, i, inpos, outpos, new_sizes, ini_cp>> /\ UNCHANGED tree
  BY DEF EndTable, Parts
<1>2. /\ headers # <<>> /\ c <= Len(file) /\ new_sizes = outpos - Last.at - 8
      /\ copied = Last.at + 8 /\ inpos = End(ThisChunk)
  <2>1. headers # <<>> /\ new_sizes = outpos - Last.at - 8 /\ copied = Last.at + 8
    BY <1>1 DEF IInv, Headers, Counts, Inside
  <2>2. c <= Len(file) /\ inpos = PartStart(i) /\ i \in Nat
    BY <1>1 DEF IInv, Position, Inside, TypeOK
  <2>3. inpos = End(ThisChunk)
    BY <1>1, <2>2 DEF PartStart
  <2> QED
    BY <2>1, <2>2, <2>3
<1>3. Last.at \in Nat /\ outpos \in Nat
  BY <1>2, LastFacts
<1>4. Position' /\ c' \in 1..(Len(file') + 1) /\ inpos' \in Nat
  BY <1>1, <1>2, ToNextChunk
<1>5. headers' \in Seq(Written) /\ Headers'
  BY <1>1, <1>2, ToNextHeader
<1>6. copied' = outpos'
  BY <1>1, <1>2, <1>3
<1>7. TypeOK' /\ i' >= 1
  BY <1>1, <1>4, <1>5, <1>6 DEF IInv, TypeOK, Written, tree, states
<1>8. Counts' /\ Tree'
  BY <1>1, <1>6 DEF Counts, Tree, InTree
<1> QED
  BY <1>4, <1>5, <1>7, <1>8 DEF IInv

LEMMA EndOBJ2Step ==
    ASSUME IInv, EndOBJ2
    PROVE  IInv'
<1> DEFINE size == copied - ini_cp - 8
<1>1. /\ pc = "OBJ2" /\ outpos' = outpos + Padded(size) - size
      /\ headers' = Patched(Padded(size)) /\ inpos' = End(ThisChunk)
      /\ c' = c + 1 /\ pc' = "chunk"
      /\ UNCHANGED <<file, i, copied, new_sizes, ini_cp>> /\ UNCHANGED tree
  BY DEF EndOBJ2
<1>2. /\ headers # <<>> /\ c <= Len(file) /\ copied = outpos /\ ini_cp = Last.at
  BY <1>1 DEF IInv, Headers, Position, Inside, Counts
<1>3. /\ Last.at \in Nat /\ outpos \in Nat /\ size = outpos - Last.at - 8
      /\ size \in Nat /\ Padded(size) = size
  BY <1>2, LastFacts, PaddedFacts
<1>4. Position' /\ c' \in 1..(Len(file') + 1) /\ inpos' \in Nat
  BY <1>1, <1>2, ToNextChunk
<1>5. headers' = Patched(size) /\ outpos' = outpos
  BY <1>1, <1>3
<1>6. headers' \in Seq(Written) /\ Headers'
  BY <1>2, <1>3, <1>5, ToNextHeader
<1>7. TypeOK' /\ i' >= 1
  BY <1>1, <1>4, <1>5, <1>6 DEF IInv, TypeOK, Written, tree, states
<1>8. Counts' /\ Tree'
  BY <1>1, <1>2, <1>5 DEF Counts, Tree, InTree
<1> QED
  BY <1>4, <1>6, <1>7, <1>8 DEF IInv
\* The tree is copied as a chunk, and another one is begun behind it.
LEMMA TwoHeaders ==
    ASSUME IInv, BetweenChunks, ~BetweenChunks', NEW n \in Nat, n % 4 = 0,
           headers' = headers \o <<Header(outpos, n), Header(outpos + (n + 8), 0)>>,
           outpos' = outpos + (n + 8) + 12
    PROVE  /\ outpos \in Nat /\ outpos' \in Nat
           /\ headers' \in Seq(Written) /\ Headers' /\ Last'.at = outpos + (n + 8)
<1> DEFINE one == Header(outpos, n)
           two == Header(outpos + (n + 8), 0)
<1>1. /\ outpos \in Nat /\ outpos % 4 = 0 /\ headers \in Seq(Written)
      /\ Len(headers) \in Nat /\ Headers
  BY DEF IInv, TypeOK, Written, Headers
<1>2. /\ one \in Written /\ two \in Written /\ one.at = outpos /\ one.size = n
      /\ two.at = outpos + (n + 8) /\ End(one) = two.at
  BY <1>1 DEF Header, Written, End
<1> HIDE DEF one, two
<1>3. /\ headers' \in Seq(Written) /\ Len(headers') = Len(headers) + 2
      /\ headers'[Len(headers) + 1] = one /\ headers'[Len(headers) + 2] = two
      /\ \A k \in 1..Len(headers) : headers'[k] = headers[k]
  <2>1. headers' = headers \o <<one, two>>
    BY DEF one, two
  <2> QED
    BY <1>1, <1>2, <2>1
<1>4. headers' # <<>> /\ Last' = two
  BY <1>1, <1>3 DEF Last
<1>5. headers # <<>> => End(headers[Len(headers)]) = outpos /\ headers[Len(headers)].size % 4 = 0
  BY <1>1 DEF Headers, Last
<1>6. Chained'
  <2>1. headers'[1].at = 8
    <3>1. CASE headers = <<>>
      BY <1>1, <1>2, <1>3, <3>1 DEF Headers
    <3>2. CASE headers # <<>>
      BY <1>1, <1>3, <3>2 DEF Headers, Chained
    <3> QED
      BY <3>1, <3>2
  <2>2. ASSUME NEW k \in 1..(Len(headers') - 1)
        PROVE  headers'[k + 1].at = End(headers'[k])
    <3>1. CASE k = Len(headers) + 1
      BY <1>1, <1>2, <1>3, <3>1
    <3>2. CASE k = Len(headers)
      <4>1. headers # <<>> /\ k \in 1..Len(headers)
        BY <1>1, <3>2
      <4> QED
        BY <1>2, <1>3, <1>5, <3>2, <4>1
    <3>3. CASE k < Len(headers)
      BY <1>1, <1>3, <3>3 DEF Headers, Chained
    <3> QED
      BY <1>1, <1>3, <3>1, <3>2, <3>3
  <2> QED
    BY <2>1, <2>2 DEF Chained
<1>7. ASSUME NEW k \in 1..(Len(headers') - 1)
      PROVE  headers'[k].size % 4 = 0
  <2>1. CASE k = Len(headers) + 1
    BY <1>2, <1>3, <2>1
  <2>2. CASE k = Len(headers)
    <3>1. headers # <<>> /\ k \in 1..Len(headers)
      BY <1>1, <2>2
    <3> QED
      BY <1>3, <1>5, <2>2, <3>1
  <2>3. CASE k < Len(headers)
    BY <1>1, <1>3, <2>3 DEF Headers
  <2>4. k = Len(headers) + 1 \/ k = Len(headers) \/ k < Len(headers)
    BY <1>1, <1>3
  <2> QED
    BY <2>1, <2>2, <2>3, <2>4
<1>8. /\ outpos + (n + 8) \in Nat /\ (outpos + (n + 8)) % 4 = 0
  BY <1>1, WordSums
<1>9. outpos' \in Nat /\ outpos' % 4 = 0
  BY <1>8
<1> QED
  BY <1>1, <1>2, <1>3, <1>4, <1>6, <1>7, <1>8, <1>9 DEF Headers

LEMMA BeginSLDCStep ==
    ASSUME IInv, BeginSLDC
    PROVE  IInv'
<1> DEFINE n == Padded(ThisChunk.size)
<1>1. AtChunk("SLDC") /\ "SLDC" \in Kinds
  BY DEF BeginSLDC, Kinds
<1>2. /\ BetweenChunks /\ copied = outpos /\ inpos = ThisChunk.at /\ ThisChunk.at \in Nat
      /\ n \in Nat /\ n % 4 = 0
  BY <1>1, AtChunkFacts
<1>3. /\ headers' = headers \o <<Header(outpos, n), Header(outpos + (n + 8), 0)>>
      /\ outpos' = outpos + (n + 8) + 12 /\ copied' = copied + (n + 8) + 12
      /\ pc' = "SLDC" /\ i' = 1 /\ inpos' = inpos + 12
      /\ count' = 0 /\ new_tree_size' = 0 /\ nodes' = <<>>
      /\ UNCHANGED <<file, c, new_sizes, ini_cp, p, newback>>
  BY DEF BeginSLDC
<1> HIDE DEF n
<1>4. Position' /\ inpos' \in Nat
  BY <1>1, <1>3, ToFirstPart DEF PartsAt
<1>5. ~BetweenChunks'
  BY <1>3 DEF BetweenChunks
<1>6. /\ outpos \in Nat /\ outpos' \in Nat
      /\ headers' \in Seq(Written) /\ Headers' /\ Last'.at = outpos + (n + 8)
  BY <1>2, <1>3, <1>5, TwoHeaders
<1>7. ThisChunk' = ThisChunk
  BY <1>3 DEF ThisChunk
<1>8. TypeOK' /\ i' >= 1
  BY <1>2, <1>3, <1>4, <1>6 DEF IInv, TypeOK, Written, states
<1>9. Counts'
  BY <1>2, <1>3, <1>6, <1>7 DEF Counts, InTree
<1>10. Tree'
  BY <1>3 DEF Tree, InTree
<1> QED
  BY <1>4, <1>6, <1>8, <1>9, <1>10 DEF IInv

Node == [at : Nat, size : Nat, front : Nat, back : Nat]

\* What both actions that write a node have in common.
WriteNode(node) ==
    /\ pc' = "SLDC" /\ i' = i + 1
    /\ inpos' = inpos + Parts[i].n
    /\ outpos' = outpos + (Parts[i].n + 3)
    /\ copied' = copied + (Parts[i].n + 3)
    /\ count' = count + Parts[i].n
    /\ new_tree_size' = new_tree_size + (Parts[i].n + 3)
    /\ nodes' = Append(nodes, node)
    /\ UNCHANGED <<file, c, new_sizes, ini_cp, p, newback, headers>>

\* The node means what the old one did.
Means(node) ==
    /\ node.at = outpos
    /\ Parts[i].kind = "split" =>
         /\ node.front = Parts[i].n + 3
         /\ \E t \in i..Len(Parts) : /\ Parts[t].at = Parts[i].at + Parts[i].back
                                     /\ node.back = Parts[i].back + 3 * (t - i)

\* A node is written behind the one before it.
LEMMA NextNode ==
    ASSUME IInv, InTree, i \in 1..Len(Parts), inpos = Parts[i].at,
           NEW node \in Node, Means(node), WriteNode(node)
    PROVE  IInv'
<1>1. /\ c <= Len(file) /\ ThisChunk.kind = "SLDC" /\ headers # <<>>
      /\ ThisChunk \in ChunkRecords
  <2>1. c <= Len(file) /\ ThisChunk.kind = "SLDC" /\ headers # <<>>
    BY DEF IInv, InTree, Position, Inside, Headers
  <2> QED
    BY <2>1, ChunkFacts DEF IInv
<1>2. HasParts(ThisChunk)
  BY <1>1 DEF HasParts
<1>3. /\ InLength(Parts[i]) = Parts[i].n /\ Parts[i].n % 4 = 1
      /\ Parts[i] \in PartRecords /\ Len(Parts) \in Nat
  BY <1>1, <1>2, TreeFacts, PartFacts DEF IInv
<1>4. Parts[i].n \in Nat /\ Parts[i].at \in Nat /\ ThisChunk.at \in Nat
  BY <1>1, <1>3 DEF PartRecords, ChunkRecords
<1>5. Position' /\ inpos' \in Nat
  BY <1>1, <1>2, <1>3, ToNextPart DEF WriteNode
<1>6. pc' = "SLDC" /\ ~BetweenChunks' /\ InTree'
  BY DEF WriteNode, BetweenChunks, InTree
<1>7. outpos \in Nat /\ outpos' \in Nat /\ Headers' /\ Last' = Last /\ Last.at \in Nat
  <2>1. Parts[i].n + 3 \in Nat /\ (Parts[i].n + 3) % 4 = 0
    BY <1>3, <1>4, NodeWords
  <2> QED
    BY <1>1, <1>6, <2>1, MoreWritten DEF WriteNode
<1>8. copied \in Nat /\ count \in Nat /\ new_tree_size \in Nat /\ i \in Nat
  BY DEF IInv, TypeOK
<1>9. /\ copied = outpos /\ inpos = ThisChunk.at + 12 + count
      /\ outpos = Last.at + 12 + count + 3 * (i - 1)
      /\ new_tree_size = outpos - Last.at - 12
  BY DEF IInv, Counts, InTree
<1>10. /\ outpos = Last.at + Parts[i].at - ThisChunk.at + 3 * (i - 1)
       /\ Parts[i].at + Parts[i].n = ThisChunk.at + 12 + (count + Parts[i].n)
       /\ outpos + (Parts[i].n + 3)
            = Last.at + 12 + (count + Parts[i].n) + 3 * ((i + 1) - 1)
       /\ (outpos - Last.at - 12) + (Parts[i].n + 3)
            = (outpos + (Parts[i].n + 3)) - Last.at - 12
       /\ count + Parts[i].n \in Nat /\ i + 1 \in Nat /\ i + 1 >= 1
       /\ \A y \in Nat : y + (Parts[i].n + 3) \in Nat
  <2> DEFINE n == Parts[i].n
             a == Parts[i].at
             b == ThisChunk.at
             e == Last.at
  <2>1. /\ n \in Nat /\ a \in Nat /\ b \in Nat /\ e \in Nat /\ count \in Nat /\ i \in Nat
        /\ outpos \in Nat /\ a = b + 12 + count /\ outpos = e + 12 + count + 3 * (i - 1)
    BY <1>4, <1>7, <1>8, <1>9
  <2> HIDE DEF n, a, b, e
  <2>2. /\ outpos = e + a - b + 3 * (i - 1)
        /\ a + n = b + 12 + (count + n)
        /\ outpos + (n + 3) = e + 12 + (count + n) + 3 * ((i + 1) - 1)
        /\ (outpos - e - 12) + (n + 3) = (outpos + (n + 3)) - e - 12
        /\ count + n \in Nat /\ i + 1 \in Nat /\ i + 1 >= 1
        /\ \A y \in Nat : y + (n + 3) \in Nat
    BY <2>1
  <2> QED
    BY <2>2 DEF n, a, b, e
<1>11. ThisChunk' = ThisChunk /\ Parts' = Parts
  BY DEF WriteNode, ThisChunk, Parts
<1>12. nodes \in Seq(Node) /\ Len(nodes) = i - 1 /\ \A j \in 1..(i - 1) : NodeOK(j)
  BY DEF IInv, TypeOK, Node, Tree
<1>13. /\ nodes' \in Seq(Node) /\ Len(nodes') = i
       /\ nodes'[i] = node /\ \A j \in 1..(i - 1) : nodes'[j] = nodes[j]
  <2>1. nodes' = Append(nodes, node)
    BY DEF WriteNode
  <2> QED
    BY <1>8, <1>12, <2>1
<1>14. copied' \in Nat /\ count' \in Nat /\ new_tree_size' \in Nat /\ i' \in Nat /\ i' >= 1
  BY <1>8, <1>10 DEF WriteNode
<1>15. TypeOK'
  BY <1>5, <1>6, <1>7, <1>13, <1>14 DEF IInv, TypeOK, Node, states, WriteNode
<1>16. Counts'
  BY <1>6, <1>7, <1>9, <1>10, <1>11 DEF Counts, WriteNode
<1>17. ASSUME NEW j \in 1..i
       PROVE  NodeOK(j)'
  <2>1. CASE j = i
    BY <1>7, <1>10, <1>11, <1>13, <2>1 DEF NodeOK, Means
  <2>2. CASE j # i
    <3>1. j \in 1..(i - 1)
      BY <1>8, <2>2
    <3>2. NodeOK(j) /\ nodes'[j] = nodes[j]
      BY <1>12, <1>13, <3>1
    <3> QED
      BY <1>7, <1>11, <3>2 DEF NodeOK
  <2> QED
    BY <2>1, <2>2
<1>18. Tree'
  <2>1. i' = i + 1 /\ i' - 1 = i
    BY <1>8 DEF WriteNode
  <2> QED
    BY <1>6, <1>13, <1>17, <2>1 DEF Tree
<1> QED
  BY <1>5, <1>7, <1>14, <1>15, <1>16, <1>18 DEF IInv

LEMMA CopyLeafStep ==
    ASSUME IInv, CopyLeaf
    PROVE  IInv'
<1> DEFINE node == NewNode(ThisPart.n + 3, 0, 0)
<1>1. AtPart("SLDC") /\ ThisPart.kind = "leaf"
  BY DEF CopyLeaf, AtNode
<1>2. /\ c <= Len(file) /\ pc = "SLDC" /\ ThisChunk.kind = "SLDC"
      /\ i \in 1..Len(Parts) /\ ThisPart = Parts[i] /\ ThisPart \in PartRecords
      /\ inpos = ThisPart.at
  BY <1>1, AtPartFacts
<1>3. ThisPart.n \in Nat /\ outpos \in Nat /\ copied \in Nat /\ new_tree_size \in Nat
  BY <1>2 DEF IInv, TypeOK, PartRecords
<1>4. node \in Node /\ node.at = outpos
  BY <1>3 DEF NewNode, Node
<1>5. /\ outpos + 8 + 24 + (ThisPart.n - 29) = outpos + (ThisPart.n + 3)
      /\ copied + 8 + 24 + (ThisPart.n - 29) = copied + (ThisPart.n + 3)
      /\ new_tree_size + ThisPart.n + 3 = new_tree_size + (ThisPart.n + 3)
  BY <1>3
<1>6. /\ nodes' = Append(nodes, node) /\ inpos' = inpos + ThisPart.n
      /\ outpos' = outpos + 8 + 24 + (ThisPart.n - 29)
      /\ copied' = copied + 8 + 24 + (ThisPart.n - 29)
      /\ count' = count + ThisPart.n /\ new_tree_size' = new_tree_size + ThisPart.n + 3
      /\ i' = i + 1 /\ UNCHANGED <<file, pc, c, new_sizes, ini_cp, p, newback, headers>>
  BY DEF CopyLeaf
<1>7. /\ outpos' = outpos + (ThisPart.n + 3) /\ copied' = copied + (ThisPart.n + 3)
      /\ new_tree_size' = new_tree_size + (ThisPart.n + 3)
  BY <1>5, <1>6
<1> HIDE DEF node
<1>8. InTree
  BY <1>2 DEF InTree
<1>9. WriteNode(node)
  BY <1>2, <1>6, <1>7 DEF WriteNode
<1>10. Means(node)
  BY <1>1, <1>2, <1>4 DEF Means
<1> QED
  BY <1>2, <1>4, <1>8, <1>9, <1>10, NextNode
\* A step that leaves the output alone and stays in the tree.
LEMMA StaysInTree ==
    ASSUME IInv, InTree, InTree', i \in Nat,
           UNCHANGED <<file, c, i, positions, new_sizes, ini_cp, count, new_tree_size, nodes,
                       headers>>,
           p' \in Nat, newback' \in Nat, pc' = "walk" => WalkOK'
    PROVE  IInv'
<1>1. /\ ThisChunk' = ThisChunk /\ Parts' = Parts /\ Last' = Last
      /\ inpos' = inpos /\ outpos' = outpos /\ copied' = copied
  BY DEF ThisChunk, Parts, Last, positions
<1>2. ~BetweenChunks' /\ ~BetweenChunks /\ Inside /\ Inside' /\ pc # "table" /\ pc' # "table"
      /\ pc # "OBJ2" /\ pc' # "OBJ2" /\ pc' \in states
  BY DEF InTree, BetweenChunks, Inside, states
<1>3. TypeOK' /\ i' >= 1
  BY <1>1, <1>2 DEF IInv, TypeOK
<1>4. Position'
  <2>1. PartStart(i)' = PartStart(i)
    BY <1>1 DEF PartStart
  <2> QED
    BY <1>1, <1>2, <2>1 DEF IInv, Position, InTree
<1>5. Headers'
  BY <1>1, <1>2 DEF IInv, Headers, Chained, BetweenChunks
<1>6. Counts'
  BY <1>1, <1>2 DEF IInv, Counts
<1>7. Tree'
  <2>1. \A j : NodeOK(j)' <=> NodeOK(j)
    BY <1>1 DEF NodeOK
  <2> QED
    BY <2>1 DEF IInv, Tree
<1> QED
  BY <1>3, <1>4, <1>5, <1>6, <1>7 DEF IInv

LEMMA BeginSplitStep ==
    ASSUME IInv, BeginSplit
    PROVE  IInv'
<1>1. /\ AtPart("SLDC") /\ ThisPart.kind = "split"
      /\ p' = inpos /\ newback' = 0 /\ pc' = "walk"
      /\ UNCHANGED <<file, c, i, positions, new_sizes, ini_cp, count, new_tree_size, nodes,
                     headers>>
  BY DEF BeginSplit, AtNode
<1>2. /\ pc = "SLDC" /\ i \in 1..Len(Parts) /\ ThisPart = Parts[i]
      /\ ThisPart \in PartRecords /\ inpos = ThisPart.at /\ Len(Parts) \in Nat
  BY <1>1, AtPartFacts
<1>3. /\ Parts[i].back \in Nat /\ inpos \in Nat /\ i \in Nat /\ i \in i..Len(Parts)
      /\ Parts' = Parts /\ inpos' = inpos
  BY <1>1, <1>2 DEF PartRecords, Parts, ThisChunk, positions
<1>4. WalkOK'
  <2>1. p' = Parts'[i].at /\ newback' = p' - inpos' + 3 * (i - i)
    BY <1>1, <1>2, <1>3
  <2>2. p' <= inpos' + Parts'[i].back
    BY <1>1, <1>3
  <2> QED
    BY <1>1, <1>2, <1>3, <2>1, <2>2 DEF WalkOK
<1>5. InTree /\ InTree' /\ p' \in Nat /\ newback' \in Nat
  BY <1>1, <1>2, <1>3 DEF InTree
<1> QED
  BY <1>1, <1>3, <1>4, <1>5, StaysInTree

\* Where the walk is, and where it goes.
LEMMA WalkFacts ==
    ASSUME IInv, pc = "walk"
    PROVE  /\ c <= Len(file) /\ ThisChunk.kind = "SLDC" /\ Len(Parts) \in Nat
           /\ i \in 1..Len(Parts) /\ inpos = Parts[i].at /\ inpos \in Nat
           /\ Parts[i].back \in Nat /\ Parts[i].n = 37 /\ Parts[i].kind = "split"
           /\ \A k \in 1..Len(Parts) : Parts[k].at \in Nat /\ Parts[k].n \in Nat
           /\ p \in Nat /\ newback \in Nat
<1>1. /\ c <= Len(file) /\ ThisChunk.kind = "SLDC" /\ inpos = PartStart(i)
      /\ i <= Len(Parts) /\ Parts[i].kind = "split"
      /\ i \in Nat /\ i >= 1 /\ inpos \in Nat /\ p \in Nat /\ newback \in Nat
  BY DEF IInv, Position, Inside, Tree, WalkOK, TypeOK
<1>2. /\ Len(Parts) \in Nat
      /\ \A k \in 1..Len(Parts) : Parts[k] \in PartRecords /\ PartStart(k) = Parts[k].at
  BY <1>1, PartFacts DEF IInv, HasParts
<1>3. i \in 1..Len(Parts)
  BY <1>1, <1>2
<1>4. Parts[i].n = 37
  BY <1>1, <1>3, TreeFacts DEF IInv
<1> QED
  BY <1>1, <1>2, <1>3, <1>4 DEF PartRecords

LEMMA WalkStep ==
    ASSUME IInv, Walk
    PROVE  IInv'
<1>1. /\ pc = "walk" /\ p < inpos + Parts[i].back
      /\ UNCHANGED <<file, pc, c, i, positions, new_sizes, ini_cp, count, new_tree_size, nodes,
                     headers>>
  BY DEF Walk, ThisPart, Parts
<1>2. PICK k \in 1..Len(Parts) : /\ Parts[k].at = p /\ p' = p + Parts[k].n
                                 /\ newback' = newback + Parts[k].n + 3
  BY DEF Walk, NewDistance, Parts
<1>3. /\ c <= Len(file) /\ ThisChunk.kind = "SLDC" /\ Len(Parts) \in Nat
      /\ i \in 1..Len(Parts) /\ inpos = Parts[i].at /\ inpos \in Nat
      /\ Parts[i].back \in Nat /\ Parts[i].kind = "split"
      /\ \A l \in 1..Len(Parts) : Parts[l].at \in Nat /\ Parts[l].n \in Nat
      /\ p \in Nat /\ newback \in Nat
  BY <1>1, WalkFacts
<1>4. PICK m \in i..Len(Parts) : p = Parts[m].at /\ newback = p - inpos + 3 * (m - i)
  BY <1>1 DEF IInv, Tree, WalkOK
<1>5. PICK j \in i..Len(Parts) : Parts[j].at = Parts[i].at + Parts[i].back
  BY <1>3, TreeFacts DEF IInv
<1>6. /\ m \in 1..Len(Parts) /\ j \in 1..Len(Parts)
      /\ \A l, n \in 1..Len(Parts) : l < n => Parts[l].at < Parts[n].at
  <2>1. m \in 1..Len(Parts) /\ j \in 1..Len(Parts)
    BY <1>3
  <2> QED
    BY <1>3, <2>1, TreeFacts DEF IInv
<1>7. k = m
  <2>1. ~(k < m) /\ ~(m < k)
    <3>1. Parts[k].at = Parts[m].at /\ Parts[k].at \in Nat
      BY <1>2, <1>3, <1>4
    <3>2. (k < m => Parts[k].at < Parts[m].at) /\ (m < k => Parts[m].at < Parts[k].at)
      BY <1>6
    <3> QED
      BY <3>1, <3>2
  <2> QED
    BY <1>2, <1>3, <1>6, <2>1
<1>8. m < j
  <2>1. m # j /\ ~(j < m)
    BY <1>1, <1>3, <1>4, <1>5, <1>6
  <2> QED
    BY <1>3, <1>6, <2>1
<1>9. m + 1 \in i..Len(Parts) /\ m + 1 \in 1..Len(Parts)
  BY <1>3, <1>4, <1>6, <1>8
<1>10. p' = Parts[m + 1].at
  <2>1. PartStart(m + 1) = Parts[m].at + InLength(Parts[m]) /\ PartStart(m + 1) = Parts[m + 1].at
    BY <1>3, <1>6, <1>9, PartFacts DEF IInv, HasParts
  <2>2. InLength(Parts[m]) = Parts[m].n
    BY <1>3, <1>6, TreeFacts DEF IInv
  <2> QED
    BY <1>2, <1>4, <1>7, <2>1, <2>2
<1>11. p' <= inpos + Parts[i].back
  <2>1. m + 1 = j \/ Parts[m + 1].at < Parts[j].at
    BY <1>6, <1>8, <1>9
  <2> QED
    BY <1>3, <1>5, <1>6, <1>9, <1>10, <2>1
<1>12. newback' = p' - inpos + 3 * ((m + 1) - i) /\ p' \in Nat /\ newback' \in Nat
  <2> DEFINE n == Parts[k].n
  <2>1. n \in Nat /\ m \in Nat /\ i \in Nat /\ p \in Nat /\ inpos \in Nat /\ newback \in Nat
    BY <1>3, <1>6
  <2>2. p' = p + n /\ newback' = newback + n + 3 /\ newback = p - inpos + 3 * (m - i)
    BY <1>2, <1>4
  <2> HIDE DEF n
  <2> QED
    BY <2>1, <2>2
<1>13. Parts' = Parts /\ inpos' = inpos /\ i' = i /\ pc' = pc
  BY <1>1 DEF Parts, ThisChunk, positions
<1>14. WalkOK'
  BY <1>3, <1>9, <1>10, <1>11, <1>12, <1>13 DEF WalkOK
<1>15. InTree /\ InTree'
  BY <1>1, <1>13 DEF InTree
<1> QED
  BY <1>1, <1>3, <1>12, <1>14, <1>15, StaysInTree DEF IInv, TypeOK

LEMMA EndSplitStep ==
    ASSUME IInv, EndSplit
    PROVE  IInv'
<1> DEFINE node == NewNode(ThisPart.n + 3, ThisPart.n + 3, newback)
<1>1. /\ pc = "walk" /\ p >= inpos + Parts[i].back /\ ThisPart = Parts[i]
  BY DEF EndSplit, ThisPart, Parts
<1>2. /\ Len(Parts) \in Nat /\ i \in 1..Len(Parts) /\ inpos = Parts[i].at /\ inpos \in Nat
      /\ Parts[i].back \in Nat /\ Parts[i].n = 37 /\ Parts[i].kind = "split"
      /\ p \in Nat /\ newback \in Nat
  BY <1>1, WalkFacts
<1>3. PICK m \in i..Len(Parts) : p = Parts[m].at /\ newback = p - inpos + 3 * (m - i)
  BY <1>1 DEF IInv, Tree, WalkOK
<1>4. p = inpos + Parts[i].back
  <2>1. p <= inpos + Parts[i].back
    BY <1>1 DEF IInv, Tree, WalkOK
  <2>2. p >= inpos + Parts[i].back
    BY <1>1
  <2>3. p \in Nat /\ inpos + Parts[i].back \in Nat
    BY <1>2
  <2> HIDE <1>1, <1>2, <1>3
  <2> QED
    BY <2>1, <2>2, <2>3
<1>5. newback = Parts[i].back + 3 * (m - i)
  BY <1>2, <1>3, <1>4
<1>6. node \in Node /\ node.at = outpos /\ node.front = Parts[i].n + 3 /\ node.back = newback
  <2>1. outpos \in Nat
    BY DEF IInv, TypeOK
  <2> QED
    BY <1>1, <1>2, <2>1 DEF NewNode, Node
<1>7. /\ nodes' = Append(nodes, node) /\ inpos' = inpos + 5 + 24 + 8
      /\ outpos' = outpos + 8 + 24 + 8 /\ copied' = copied + 8 + 24 + 8
      /\ count' = count + ThisPart.n /\ new_tree_size' = new_tree_size + ThisPart.n + 3
      /\ i' = i + 1 /\ pc' = "SLDC"
      /\ UNCHANGED <<file, c, new_sizes, ini_cp, p, newback, headers>>
  BY DEF EndSplit
<1>8. /\ inpos + 5 + 24 + 8 = inpos + 37 /\ outpos + 8 + 24 + 8 = outpos + (37 + 3)
      /\ copied + 8 + 24 + 8 = copied + (37 + 3)
      /\ new_tree_size + 37 + 3 = new_tree_size + (37 + 3)
  BY DEF IInv, TypeOK
<1> HIDE DEF node
<1>9. WriteNode(node)
  BY <1>1, <1>2, <1>7, <1>8 DEF WriteNode
<1>10. Means(node)
  BY <1>2, <1>3, <1>4, <1>5, <1>6 DEF Means
<1>11. InTree
  BY <1>1 DEF InTree
<1> QED
  BY <1>2, <1>6, <1>9, <1>10, <1>11, NextNode

LEMMA EndSLDCStep ==
    ASSUME IInv, EndSLDC
    PROVE  IInv'
<1>1. /\ pc = "SLDC" /\ count >= tree_size /\ headers' = Patched(new_tree_size + 4)
      /\ c' = c + 1 /\ pc' = "chunk"
      /\ UNCHANGED <<file, i, positions, new_sizes, ini_cp>> /\ UNCHANGED tree
  BY DEF EndSLDC, TreeChunk
<1>2. /\ headers # <<>> /\ c <= Len(file) /\ copied = outpos /\ inpos = PartStart(i)
      /\ ThisChunk.kind = "SLDC" /\ inpos = ThisChunk.at + 12 + count
      /\ new_tree_size = outpos - Last.at - 12 /\ count \in Nat /\ i \in Nat /\ i >= 1
  BY <1>1 DEF IInv, Headers, Position, Inside, InTree, Counts, TypeOK
<1>3. ThisChunk.at \in Nat /\ ThisChunk.size \in Nat
  BY <1>2, ChunkFacts DEF IInv, ChunkRecords
<1>4. inpos >= End(ThisChunk)
  BY <1>1, <1>2, <1>3 DEF tree_size, End
<1>5. inpos = End(ThisChunk)
  <2>1. Len(Parts) \in Nat /\ (i \in 1..Len(Parts) => PartStart(i) = Parts[i].at /\ Parts[i].at \in Nat)
    BY <1>2, PartFacts DEF IInv, HasParts, PartRecords
  <2>2. i \in 1..Len(Parts) => Parts[i].at < End(ThisChunk)
    BY <1>2, TreeFacts DEF IInv
  <2>3. End(ThisChunk) \in Nat
    BY <1>2, ChunkFacts DEF IInv
  <2>4. ~(i \in 1..Len(Parts))
    BY <1>2, <1>3, <1>4, <2>1, <2>2, <2>3
  <2> QED
    BY <1>2, <2>1, <2>4 DEF PartStart
<1>6. inpos' = End(ThisChunk) /\ outpos' = outpos /\ copied' = copied
  BY <1>1, <1>5 DEF positions
<1>7. Position' /\ c' \in 1..(Len(file') + 1) /\ inpos' \in Nat
  BY <1>1, <1>2, <1>6, ToNextChunk
<1>8. headers' \in Seq(Written) /\ Headers'
  <2>1. Last.at \in Nat /\ outpos \in Nat
    BY <1>2, LastFacts
  <2>2. new_tree_size + 4 = outpos - Last.at - 8
    BY <1>2, <2>1
  <2> QED
    BY <1>1, <1>2, <1>6, <2>2, ToNextHeader
<1>9. TypeOK' /\ i' >= 1
  BY <1>1, <1>6, <1>7, <1>8 DEF IInv, TypeOK, Written, tree, states
<1>10. Counts' /\ Tree'
  BY <1>1, <1>2, <1>6 DEF Counts, Tree, InTree
<1> QED
  BY <1>7, <1>8, <1>9, <1>10 DEF IInv

LEMMA ReturnStep ==
    ASSUME IInv, Return
    PROVE  IInv'
<1>1. /\ pc = "chunk" /\ pc' = "done" /\ UNCHANGED <<file, c, i, new_sizes, ini_cp, headers>>
      /\ inpos' = inpos /\ outpos' = outpos /\ copied' = copied /\ UNCHANGED tree
  BY DEF Return, positions
<1>2. TypeOK' /\ i' >= 1
  BY <1>1 DEF IInv, TypeOK, tree, states
<1>3. Position'
  <2>1. inpos = ChunkStart(c)
    BY <1>1 DEF IInv, Position, BetweenChunks
  <2>2. ChunkStart(c)' = ChunkStart(c)
    BY <1>1 DEF ChunkStart, TotalSize
  <2> QED
    BY <1>1, <2>1, <2>2 DEF Position, Inside
<1>4. Headers'
  BY <1>1 DEF IInv, Headers, Chained, Last, BetweenChunks
<1>5. Counts' /\ Tree'
  BY <1>1 DEF IInv, Counts, Tree, InTree
<1> QED
  BY <1>2, <1>3, <1>4, <1>5 DEF IInv

LEMMA StutterStep ==
    ASSUME IInv, UNCHANGED vars
    PROVE  IInv'
<1>1. /\ UNCHANGED <<file, pc, c, i, inpos, outpos, copied, new_sizes, ini_cp>>
      /\ UNCHANGED <<count, new_tree_size, p, newback, nodes, headers>>
  BY DEF vars, positions, tree
<1>2. ThisChunk' = ThisChunk /\ Parts' = Parts /\ Last' = Last
  BY <1>1 DEF ThisChunk, Parts, Last
<1>3. TypeOK' /\ i' >= 1
  BY <1>1 DEF IInv, TypeOK
<1>4. Position'
  <2>1. ChunkStart(c)' = ChunkStart(c) /\ PartStart(i)' = PartStart(i)
    BY <1>1, <1>2 DEF ChunkStart, PartStart, TotalSize
  <2> QED
    BY <1>1, <1>2, <2>1 DEF IInv, Position, Inside, BetweenChunks
<1>5. Headers'
  BY <1>1, <1>2 DEF IInv, Headers, Chained, BetweenChunks
<1>6. Counts'
  BY <1>1, <1>2 DEF IInv, Counts, InTree
<1>7. Tree'
  <2>1. (\A j : NodeOK(j)' <=> NodeOK(j)) /\ (WalkOK' <=> WalkOK)
    BY <1>1, <1>2 DEF NodeOK, WalkOK
  <2> QED
    BY <1>1, <2>1 DEF IInv, Tree, InTree
<1> QED
  BY <1>3, <1>4, <1>5, <1>6, <1>7 DEF IInv
-----------------------------------------------------------------------------
(* What follows *)

LEMMA InitIInv ==
    ASSUME Init
    PROVE  IInv
<1>1. /\ file \in Files /\ pc = "chunk" /\ c = 1 /\ i = 1
      /\ inpos = 8 /\ outpos = 8 /\ copied = 8 /\ headers = <<>> /\ nodes = <<>>
      /\ new_sizes = 0 /\ ini_cp = 0 /\ count = 0 /\ new_tree_size = 0 /\ p = 0 /\ newback = 0
  BY DEF Init
<1>2. Len(file) \in Nat
  <2>1. file \in Seq(ChunkRecords)
    BY <1>1, FilesAssumption DEF FileOK
  <2> QED
    BY <2>1
<1>3. TypeOK
  BY <1>1, <1>2 DEF TypeOK, states
<1>4. Position
  BY <1>1, FirstChunk DEF Position, Inside
<1>5. Headers
  BY <1>1 DEF Headers, Chained
<1>6. Counts /\ Tree
  BY <1>1 DEF Counts, Tree, InTree
<1> QED
  BY <1>1, <1>3, <1>4, <1>5, <1>6 DEF IInv

\* The inductive invariant: position, headers, counts and tree agree in every reachable state.
THEOREM Invariant == Spec => []IInv
<1>1. Init => IInv
  BY InitIInv
<1>2. IInv /\ [Next]_vars => IInv'
  <2> SUFFICES ASSUME IInv, [Next]_vars PROVE IInv'
    OBVIOUS
  <2>1. CASE CopyOther
    BY <2>1, CopyOtherStep
  <2>2. CASE CopySLC2
    BY <2>2, CopySLC2Step
  <2>3. CASE CopyPINF
    BY <2>3, CopyPINFStep
  <2>4. CASE BeginTable
    BY <2>4, BeginTableStep
  <2>5. CASE CopyTable
    BY <2>5, BranchesCopy, CopyTablePartStep
  <2>6. CASE EndTable
    BY <2>6, EndTableStep
  <2>7. CASE BeginOBJ2
    BY <2>7, BeginOBJ2Step
  <2>8. CASE CopyOBJ2Part
    BY <2>8, CopyOBJ2PartStep
  <2>9. CASE EndOBJ2
    BY <2>9, EndOBJ2Step
  <2>10. CASE BeginSLDC
    BY <2>10, BeginSLDCStep
  <2>11. CASE CopyLeaf
    BY <2>11, CopyLeafStep
  <2>12. CASE BeginSplit
    BY <2>12, BeginSplitStep
  <2>13. CASE Walk
    BY <2>13, WalkStep
  <2>14. CASE EndSplit
    BY <2>14, EndSplitStep
  <2>15. CASE EndSLDC
    BY <2>15, EndSLDCStep
  <2>16. CASE Return
    BY <2>16, ReturnStep
  <2>17. CASE Finished
    BY <2>17, StutterStep DEF Finished
  <2>18. CASE UNCHANGED vars
    BY <2>18, StutterStep
  <2> QED
    BY <2>1, <2>2, <2>3, <2>4, <2>5, <2>6, <2>7, <2>8, <2>9, <2>10, <2>11, <2>12, <2>13,
       <2>14, <2>15, <2>16, <2>17, <2>18 DEF Next, CopyTable
<1> QED
  BY <1>1, <1>2, PTL DEF Spec

\* Every variable of align_pof keeps its type: no position or size becomes negative.
THEOREM TypeCorrect == Spec => []TypeOK
<1>1. IInv => TypeOK
  BY DEF IInv
<1> QED
  BY <1>1, Invariant, PTL

\* align_pof never reads a header where the format has none, in any well-formed file.
THEOREM KeepsItsPlace == Spec => []NeverLost
<1>1. IInv => NeverLost
  <2> SUFFICES ASSUME IInv PROVE NeverLost
    OBVIOUS
  <2>1. c \in 1..(Len(file) + 1) /\ Len(file) \in Nat /\ i \in Nat /\ i >= 1
    <3>1. file \in Seq(ChunkRecords)
      BY FilesAssumption DEF IInv, TypeOK, FileOK
    <3> QED
      BY <3>1 DEF IInv, TypeOK
  <2>2. ~(pc = "chunk" /\ inpos < TotalSize /\ ~(c <= Len(file) /\ inpos = ThisChunk.at))
    <3> SUFFICES ASSUME pc = "chunk", inpos < TotalSize
                 PROVE  c <= Len(file) /\ inpos = ThisChunk.at
      OBVIOUS
    <3>1. inpos = ChunkStart(c) /\ inpos \in Nat
      BY DEF IInv, TypeOK, Position, BetweenChunks
    <3>2. c <= Len(file)
      BY <2>1, <3>1 DEF ChunkStart
    <3> QED
      BY <3>1, <3>2 DEF ChunkStart, ThisChunk
  <2>3. ASSUME pc \in {"table", "OBJ2", "SLDC"}
        PROVE  /\ c <= Len(file) /\ ThisChunk.kind = pc /\ Len(Parts) \in Nat
               /\ inpos = PartStart(i) /\ inpos \in Nat /\ End(ThisChunk) \in Nat
    <3>1. c <= Len(file) /\ ThisChunk.kind = pc /\ inpos = PartStart(i) /\ inpos \in Nat
      BY <2>3 DEF IInv, TypeOK, Position, Inside
    <3>2. HasParts(ThisChunk)
      BY <2>3, <3>1 DEF HasParts
    <3> QED
      BY <3>1, <3>2, PartFacts, ChunkFacts DEF IInv
  <2>4. ~(pc = "table" /\ i <= Len(ThisChunk.parts) /\ inpos # ThisPart.at)
    BY <2>3 DEF PartStart, Parts, ThisPart
  <2>5. ~(pc = "OBJ2" /\ inpos < End(ThisChunk)
            /\ ~(i <= Len(ThisChunk.parts) /\ inpos = ThisPart.at))
    BY <2>3 DEF PartStart, Parts, ThisPart
  <2>6. ~(pc = "SLDC" /\ count < tree_size
            /\ ~(i <= Len(ThisChunk.parts) /\ inpos = ThisPart.at))
    <3> SUFFICES ASSUME pc = "SLDC", count < tree_size
                 PROVE  i <= Len(ThisChunk.parts) /\ inpos = ThisPart.at
      OBVIOUS
    <3>1. inpos = ThisChunk.at + 12 + count /\ count \in Nat
      BY DEF IInv, TypeOK, Counts, InTree
    <3>2. ThisChunk.at \in Nat /\ ThisChunk.size \in Nat
      BY <2>3, ChunkFacts DEF IInv, ChunkRecords
    <3>3. inpos < End(ThisChunk)
      BY <3>1, <3>2 DEF tree_size, End
    <3> QED
      BY <2>3, <3>3 DEF PartStart, Parts, ThisPart
  <2>7. ~(/\ pc = "walk" /\ p < inpos + ThisPart.back
          /\ \A k \in 1..Len(ThisChunk.parts) : ThisChunk.parts[k].at # p)
    <3> SUFFICES ASSUME pc = "walk"
                 PROVE  \E k \in 1..Len(Parts) : Parts[k].at = p
      BY DEF Parts
    <3>1. i \in 1..Len(Parts) /\ Len(Parts) \in Nat
      BY WalkFacts
    <3>2. PICK m \in i..Len(Parts) : p = Parts[m].at
      BY DEF IInv, Tree, WalkOK
    <3> QED
      BY <3>1, <3>2
  <2> QED
    BY <2>2, <2>4, <2>5, <2>6, <2>7 DEF NeverLost, Misplaced
<1> QED
  BY <1>1, Invariant, PTL

\* In every aligned file the size of a chunk leads to the next one, and at last to the end.
THEOREM ChunksAreFound == Spec => []SizesTell
<1>1. IInv => SizesTell
  BY DEF IInv, Headers, SizesTell, Last
<1> QED
  BY <1>1, Invariant, PTL

\* The size that align_pof returns is that of what it has written.
THEOREM ReturnsNewSize == Spec => []CopiedIsOut
<1>1. IInv => CopiedIsOut
  BY DEF IInv, Counts, CopiedIsOut, BetweenChunks
<1> QED
  BY <1>1, Invariant, PTL

\* Every file, however unaligned, comes out aligned to four bytes.
THEOREM Aligned == Spec => []AllAligned
<1>1. IInv => AllAligned
  <2> SUFFICES ASSUME IInv, BetweenChunks, NEW k \in 1..Len(headers)
               PROVE  headers[k].size % 4 = 0
    BY DEF IInv, Headers, AllAligned
  <2>1. headers \in Seq(Written) /\ Len(headers) \in Nat
    BY DEF IInv, TypeOK, Written
  <2>2. headers # <<>>
    BY <2>1
  <2>3. k = Len(headers) \/ k \in 1..(Len(headers) - 1)
    BY <2>1
  <2> QED
    BY <2>2, <2>3 DEF IInv, Headers, Last
<1> QED
  BY <1>1, Invariant, PTL

\* The front and back offset of every node of every SLC2 tree lead to the node that the
\* offsets of the SLDC tree led to.
THEOREM OffsetsAreKept == Spec => []OffsetsFollow
<1>1. IInv => OffsetsFollow
  <2> SUFFICES ASSUME IInv, InTree, NEW j \in 1..Len(nodes), NEW k \in 1..Len(nodes),
                      Parts[j].kind = "split"
               PROVE  /\ k = j + 1 => nodes[j].at + nodes[j].front = nodes[k].at
                      /\ Parts[j].at + Parts[j].back = Parts[k].at
                           => nodes[j].at + nodes[j].back = nodes[k].at
    BY DEF OffsetsFollow, InTree, Parts
  <2>1. /\ c <= Len(file) /\ ThisChunk.kind = "SLDC" /\ headers # <<>>
        /\ i \in Nat /\ i <= Len(Parts) + 1
    BY DEF IInv, TypeOK, InTree, Position, Inside, Headers
  <2>2. /\ Len(Parts) \in Nat /\ ThisChunk.at \in Nat /\ Last.at \in Nat
        /\ \A l \in 1..Len(Parts) :
             /\ Parts[l] \in PartRecords
             /\ PartStart(l) = Parts[l].at /\ PartStart(l + 1) = Parts[l].at + InLength(Parts[l])
    BY <2>1, PartFacts, ChunkFacts, LastFacts DEF IInv, HasParts, ChunkRecords
  <2>3. /\ j \in 1..(i - 1) /\ k \in 1..(i - 1) /\ j \in 1..Len(Parts) /\ k \in 1..Len(Parts)
        /\ NodeOK(j) /\ NodeOK(k)
    <3>1. Len(nodes) = i - 1 /\ \A l \in 1..(i - 1) : NodeOK(l)
      BY DEF IInv, Tree
    <3> QED
      BY <2>1, <2>2, <3>1
  <2>4. /\ nodes[j].at = Last.at + Parts[j].at - ThisChunk.at + 3 * (j - 1)
        /\ nodes[k].at = Last.at + Parts[k].at - ThisChunk.at + 3 * (k - 1)
        /\ nodes[j].front = Parts[j].n + 3
    BY <2>3 DEF NodeOK
  <2>5. PICK t \in j..Len(Parts) : /\ Parts[t].at = Parts[j].at + Parts[j].back
                                   /\ nodes[j].back = Parts[j].back + 3 * (t - j)
    BY <2>3 DEF NodeOK
  <2>6. /\ Parts[j].at \in Nat /\ Parts[k].at \in Nat /\ Parts[j].n \in Nat
        /\ Parts[j].back \in Nat
    BY <2>2, <2>3 DEF PartRecords
  <2>7. ASSUME k = j + 1
        PROVE  nodes[j].at + nodes[j].front = nodes[k].at
    <3>1. Parts[k].at = Parts[j].at + Parts[j].n
      BY <2>1, <2>2, <2>3, <2>7, TreeFacts DEF IInv
    <3> DEFINE e == Last.at
               b == ThisChunk.at
               x == Parts[j].at
               n == Parts[j].n
    <3>2. /\ e \in Nat /\ b \in Nat /\ x \in Nat /\ n \in Nat /\ j \in Nat
          /\ nodes[j].at = e + x - b + 3 * (j - 1) /\ nodes[j].front = n + 3
          /\ nodes[k].at = e + (x + n) - b + 3 * ((j + 1) - 1)
      BY <2>2, <2>3, <2>4, <2>6, <2>7, <3>1
    <3> HIDE DEF e, b, x, n
    <3>3. (e + x - b + 3 * (j - 1)) + (n + 3) = e + (x + n) - b + 3 * ((j + 1) - 1)
      BY <3>2
    <3> QED
      BY <3>2, <3>3
  <2>8. ASSUME Parts[j].at + Parts[j].back = Parts[k].at
        PROVE  nodes[j].at + nodes[j].back = nodes[k].at
    <3>1. t \in 1..Len(Parts) /\ t \in Nat
      BY <2>2, <2>3
    <3>2. t = k
      <4>1. /\ t < k => Parts[t].at < Parts[k].at
            /\ k < t => Parts[k].at < Parts[t].at
        BY <2>1, <2>3, <3>1, TreeFacts DEF IInv
      <4> QED
        BY <2>3, <2>5, <2>6, <2>8, <3>1, <4>1
    <3> DEFINE e == Last.at
               b == ThisChunk.at
               x == Parts[j].at
               d == Parts[j].back
    <3>3. /\ e \in Nat /\ b \in Nat /\ x \in Nat /\ d \in Nat /\ j \in Nat /\ k \in Nat
          /\ nodes[j].at = e + x - b + 3 * (j - 1) /\ nodes[j].back = d + 3 * (k - j)
          /\ nodes[k].at = e + (x + d) - b + 3 * (k - 1)
      BY <2>2, <2>3, <2>4, <2>5, <2>6, <2>8, <3>2
    <3> HIDE DEF e, b, x, d
    <3>4. (e + x - b + 3 * (j - 1)) + (d + 3 * (k - j)) = e + (x + d) - b + 3 * (k - 1)
      BY <3>3
    <3> QED
      BY <3>3, <3>4
  <2> QED
    BY <2>7, <2>8
<1> QED
  BY <1>1, Invariant, PTL
-----------------------------------------------------------------------------
(***************************************************************************)
(* The room in the buffer.  Every chunk but PINF and SLDC leaves two       *)
(* fifths of its length over when the output may be twice as long as the   *)
(* input; a table or an object some words more, and where there is none,   *)
(* the others leave two thirds.  PINF and the tree live on that.           *)
(***************************************************************************)
Passed(k, kind) == \E j \in 1..(k - 1) : file[j].kind = kind

\* What PINF, if it is there, and the tree take of what the others leave over.
Debt(k, pinf) ==
    (IF Passed(k, "PINF") THEN pinf ELSE 0)
        + (IF Passed(k, "SLDC") THEN 116 + 5 * TotalSize ELSE 0)

Enough(x, y, d, e) ==
    /\ 20 * (2 * x - y) >= 8 * x + 96 - d
    /\ \/ 20 * (2 * x - y) >= 8 * x + 240 - d
       \/ 12 * (2 * x - y) >= 8 * x + 32 - e

\* The first k - 1 chunks take the input to x and the output to y.
Spare(k, x, y) == Enough(x, y, Debt(k, 672), Debt(k, 432))

\* What the parts of a chunk leave over; properties that are empty, nothing.
PropertySeen == \E j \in 1..(i - 1) : Parts[j].kind = "property"

SpareOfParts(reserve) ==
    LET x == inpos - ThisChunk.at
        y == outpos - Last.at
    IN 5 * (2 * x - y) >= 2 * x + reserve

Room ==
    Proportioned =>
        /\ BetweenChunks => Spare(c, inpos, outpos)
        /\ pc \in {"table", "OBJ2"} => Spare(c, ThisChunk.at, Last.at)
        /\ pc = "table" => SpareOfParts(36)
        /\ pc = "OBJ2" => SpareOfParts(IF PropertySeen THEN 196 ELSE 204)
        /\ InTree => /\ Spare(c, ThisChunk.at, Last.at - 8 - Padded(ThisChunk.size))
                     /\ 33 * (i - 1) <= count

-----------------------------------------------------------------------------
(* The room *)

\* A set of numbers up to n has a greatest element.
LEMMA GreatestElement ==
    ASSUME NEW n \in Nat, NEW T, T \subseteq 1..n, T # {}
    PROVE  \E x \in T : \A y \in T : y <= x
<1> DEFINE U == {n - x : x \in T}
           R == {ss \in Nat \X Nat : ss[1] < ss[2]}
<1>1. U \subseteq Nat /\ U # {}
  <2>1. \A x \in T : n - x \in Nat
    OBVIOUS
  <2> QED
    BY <2>1
<1>2. IsWellFoundedOn(R, Nat)
  BY NatLessThanWellFounded, Zenon DEF OpToRel
<1>3. \E u \in U : \A v \in U : ~ (<<v, u>> \in R)
  <2> HIDE DEF R, U
  <2> QED
    BY <1>1, <1>2, WFMin, Zenon
<1>4. \A u, v \in Nat : ~ (<<v, u>> \in R) => u <= v
  OBVIOUS
<1> HIDE DEF R
<1>5. PICK u \in U : \A v \in U : u <= v
  BY <1>1, <1>3, <1>4
<1>6. PICK x \in T : u = n - x
  OBVIOUS
<1>7. ASSUME NEW y \in T PROVE y <= x
  <2>1. n - y \in U
    OBVIOUS
  <2>2. n - x <= n - y
    BY <1>5, <1>6, <2>1
  <2> QED
    BY <2>2
<1> QED
  BY <1>7

\* A set with one element at most, by what Cardinality says of it.
LEMMA AtMostOne ==
    ASSUME NEW n \in Nat, NEW T, T \subseteq 1..n, Cardinality(T) <= 1,
           NEW x \in T, NEW y \in T
    PROVE  x = y
<1>1. IsFiniteSet(T) /\ IsFiniteSet(1..n)
  <2>1. IsFiniteSet(1..n) /\ T \in SUBSET (1..n)
    BY FS_Interval
  <2> QED
    BY <2>1, FS_Subset
<1> SUFFICES ASSUME x # y PROVE FALSE
  OBVIOUS
<1>2. IsFiniteSet({x}) /\ Cardinality({x}) = 1
  BY FS_Singleton
<1>3. IsFiniteSet({x} \cup {y}) /\ Cardinality({x} \cup {y}) = 2
  BY <1>2, FS_AddElement
<1>4. Cardinality({x} \cup {y}) <= Cardinality(T)
  BY <1>1, FS_Subset
<1>5. Cardinality(T) \in Nat
  BY <1>1, FS_CardinalityType
<1> QED
  BY <1>3, <1>4, <1>5

\* No chunk begins or ends behind the file.
LEMMA InsideFile ==
    ASSUME file \in Files
    PROVE  /\ Len(file) \in Nat /\ TotalSize \in Nat
           /\ \A k \in 1..(Len(file) + 1) : ChunkStart(k) \in Nat /\ ChunkStart(k) <= TotalSize
<1>1. FileOK(file) /\ file \in Seq(ChunkRecords) /\ Len(file) \in Nat
  <2>1. FileOK(file) /\ file \in Seq(ChunkRecords)
    BY FilesAssumption DEF FileOK
  <2> QED
    BY <2>1
<1>2. \A k \in 1..Len(file) : file[k] \in ChunkRecords
  BY <1>1
<1>3. \A k \in 1..Len(file) : /\ file[k].at \in Nat /\ End(file[k]) \in Nat
                              /\ file[k].at <= End(file[k])
  BY <1>2 DEF ChunkRecords, End
<1>4. TotalSize \in Nat
  <2>1. CASE file = <<>>
    BY <2>1 DEF TotalSize
  <2>2. CASE file # <<>>
    <3>1. Len(file) \in 1..Len(file)
      BY <1>1, <2>2
    <3> QED
      BY <1>3, <2>2, <3>1 DEF TotalSize
  <2> QED
    BY <2>1, <2>2
<1>5. \A k \in 1..(Len(file) + 1) : ChunkStart(k) \in Nat
  BY <1>1, <1>3, <1>4 DEF ChunkStart
<1>6. ASSUME NEW k \in 1..Len(file) PROVE ChunkStart(k) <= ChunkStart(k + 1)
  <2>1. ChunkStart(k) = file[k].at /\ file[k].at <= End(file[k]) /\ k \in Nat
    BY <1>1, <1>3 DEF ChunkStart
  <2>2. CASE k < Len(file)
    <3>1. k + 1 <= Len(file) /\ file[k + 1].at = End(file[k])
      BY <1>1, <2>2 DEF FileOK
    <3> QED
      BY <2>1, <3>1 DEF ChunkStart
  <2>3. CASE k = Len(file)
    <3>1. TotalSize = End(file[k]) /\ ~(k + 1 <= Len(file))
      BY <1>1, <2>3 DEF TotalSize
    <3> QED
      BY <2>1, <3>1 DEF ChunkStart
  <2> QED
    BY <1>1, <2>1, <2>2, <2>3
<1> DEFINE T == {k \in 1..(Len(file) + 1) : ChunkStart(k) > TotalSize}
<1>7. T = {}
  <2> SUFFICES ASSUME T # {} PROVE FALSE
    OBVIOUS
  <2>1. PICK k \in T : \A l \in T : l <= k
    <3>1. Len(file) + 1 \in Nat /\ T \subseteq 1..(Len(file) + 1)
      BY <1>1
    <3> HIDE DEF T
    <3> QED
      BY <3>1, GreatestElement
  <2>2. k \in 1..(Len(file) + 1) /\ ChunkStart(k) > TotalSize
    OBVIOUS
  <2>3. ChunkStart(Len(file) + 1) = TotalSize
    BY <1>1 DEF ChunkStart
  <2>4. k \in 1..Len(file) /\ k + 1 \in 1..(Len(file) + 1)
    BY <1>1, <1>4, <2>2, <2>3
  <2>5. ~(k + 1 \in T)
    <3> HIDE DEF T
    <3> QED
      BY <2>1, <2>4
  <2>6. ChunkStart(k + 1) <= TotalSize
    BY <1>4, <1>5, <2>4, <2>5
  <2> QED
    BY <1>4, <1>5, <1>6, <2>2, <2>4, <2>6
<1>8. \A k \in 1..(Len(file) + 1) : ChunkStart(k) <= TotalSize
  BY <1>4, <1>5, <1>7
<1> QED
  BY <1>1, <1>4, <1>5, <1>8

\* There is one PINF at most, and one tree, which is not large.
LEMMA ProportionedFacts ==
    ASSUME Proportioned, file \in Files
    PROVE  /\ TotalSize >= 200
           /\ \A k \in 1..Len(file) : file[k].kind = "SLDC" => 2 * file[k].size <= TotalSize
           /\ \A kind \in {"PINF", "SLDC"} : \A j, k \in 1..Len(file) :
                  file[j].kind = kind /\ file[k].kind = kind => j = k
<1> DEFINE Of(kind) == {k \in 1..Len(file) : file[k].kind = kind}
<1>1. /\ Cardinality(Of("PINF")) <= 1 /\ Cardinality(Of("SLDC")) <= 1
      /\ \A k \in Of("SLDC") : 2 * file[k].size <= TotalSize
      /\ TotalSize >= 200
  BY DEF Proportioned
<1>2. Len(file) \in Nat
  BY InsideFile
<1>3. ASSUME NEW kind \in {"PINF", "SLDC"},
             NEW j \in 1..Len(file), NEW k \in 1..Len(file),
             file[j].kind = kind, file[k].kind = kind
      PROVE  j = k
  <2>1. Of(kind) \subseteq 1..Len(file) /\ j \in Of(kind) /\ k \in Of(kind)
    BY <1>3
  <2>2. Cardinality(Of(kind)) <= 1
    BY <1>1
  <2> HIDE DEF Of
  <2> QED
    BY <1>2, <2>1, <2>2, AtMostOne
<1> QED
  BY <1>1, <1>3

(***************************************************************************)
(* What a chunk takes of the room and what it leaves over.                 *)
(***************************************************************************)
LEMMA NextDebt ==
    ASSUME IInv, Proportioned, c <= Len(file), c' = c + 1, file' = file
    PROVE  \E d, e, d1, e1 \in Nat :
             /\ Debt(c, 672) = d /\ Debt(c, 432) = e
             /\ Debt(c, 672)' = d1 /\ Debt(c, 432)' = e1
             /\ ThisChunk.kind = "PINF" => d1 = d + 672 /\ e1 = e + 432
             /\ ThisChunk.kind = "SLDC" => /\ d1 = d + (116 + 5 * TotalSize)
                                           /\ e1 = e + (116 + 5 * TotalSize)
             /\ ThisChunk.kind \notin {"PINF", "SLDC"} => d1 = d /\ e1 = e
<1>1. c \in 1..Len(file) /\ Len(file) \in Nat /\ TotalSize \in Nat
  BY InsideFile DEF IInv, TypeOK
<1>2. ASSUME NEW kind
      PROVE  Passed(c, kind)' <=> Passed(c, kind) \/ ThisChunk.kind = kind
  <2>1. c' - 1 = c /\ 1..c = (1..(c - 1)) \cup {c}
    BY <1>1
  <2>2. Passed(c, kind)' <=> \E j \in 1..(c' - 1) : file[j].kind = kind
    BY Zenon DEF Passed
  <2>3. Passed(c, kind)' <=> \E j \in 1..c : file[j].kind = kind
    BY <2>1, <2>2
  <2> QED
    BY <2>1, <2>3 DEF Passed, ThisChunk
<1>3. ASSUME NEW kind \in {"PINF", "SLDC"}, ThisChunk.kind = kind
      PROVE  ~Passed(c, kind)
  <2> SUFFICES ASSUME NEW j \in 1..(c - 1), file[j].kind = kind PROVE FALSE
    BY DEF Passed
  <2>1. j \in 1..Len(file) /\ j # c
    BY <1>1
  <2> QED
    BY <1>1, <1>3, <2>1, ProportionedFacts DEF IInv, TypeOK, ThisChunk
<1> DEFINE Sum(pinf, sldc, n) ==
             (IF pinf THEN n ELSE 0) + (IF sldc THEN 116 + 5 * TotalSize ELSE 0)
           before(n) == Sum(Passed(c, "PINF"), Passed(c, "SLDC"), n)
           after(n) == Sum(Passed(c, "PINF") \/ ThisChunk.kind = "PINF",
                           Passed(c, "SLDC") \/ ThisChunk.kind = "SLDC", n)
<1>4. Debt(c, 672) = before(672) /\ Debt(c, 432) = before(432)
  BY DEF Debt
<1>5. Debt(c, 672)' = after(672) /\ Debt(c, 432)' = after(432)
  <2>1. TotalSize' = TotalSize
    BY DEF TotalSize
  <2> QED
    BY <1>2, <2>1 DEF Debt
<1>6. /\ before(672) \in Nat /\ after(672) \in Nat
      /\ ThisChunk.kind = "PINF" => after(672) = before(672) + 672
      /\ ThisChunk.kind = "SLDC" => after(672) = before(672) + (116 + 5 * TotalSize)
      /\ ThisChunk.kind \notin {"PINF", "SLDC"} => after(672) = before(672)
  BY <1>1, <1>3
<1>7. /\ before(432) \in Nat /\ after(432) \in Nat
      /\ ThisChunk.kind = "PINF" => after(432) = before(432) + 432
      /\ ThisChunk.kind = "SLDC" => after(432) = before(432) + (116 + 5 * TotalSize)
      /\ ThisChunk.kind \notin {"PINF", "SLDC"} => after(432) = before(432)
  BY <1>1, <1>3
<1> HIDE DEF before, after
<1>8. /\ before(672) \in Nat /\ before(432) \in Nat
      /\ after(672) \in Nat /\ after(432) \in Nat
  BY <1>6, <1>7
<1>9. PICK d, e, d1, e1 \in Nat :
          d = before(672) /\ e = before(432) /\ d1 = after(672) /\ e1 = after(432)
  BY <1>8
<1> WITNESS d \in Nat, e \in Nat, d1 \in Nat, e1 \in Nat
<1> QED
  BY <1>4, <1>5, <1>6, <1>7, <1>9

\* A chunk that is u bytes long and becomes v bytes.
LEMMA NextSpare ==
    ASSUME IInv, Proportioned, c <= Len(file), c' = c + 1, file' = file,
           NEW x \in Int, NEW y \in Int, NEW u \in Int, NEW v \in Int,
           Spare(c, x, y), inpos' = x + u, outpos' = y + v,
           \/ /\ ThisChunk.kind \notin {"PINF", "SLDC"}
              /\ 5 * (2 * u - v) >= 2 * u + 36
           \/ /\ ThisChunk.kind \notin {"PINF", "SLDC"}
              /\ 5 * (2 * u - v) >= 2 * u /\ 3 * (2 * u - v) >= 2 * u
           \/ /\ ThisChunk.kind = "PINF"
              /\ 5 * (2 * u - v) >= 2 * u - 168 /\ 3 * (2 * u - v) >= 2 * u - 108
           \/ /\ ThisChunk.kind = "SLDC"
              /\ 20 * (2 * u - v) >= 8 * u - (116 + 5 * TotalSize)
              /\ 12 * (2 * u - v) >= 8 * u - (116 + 5 * TotalSize)
    PROVE  Spare(c, inpos, outpos)'
<1>1. TotalSize \in Nat
  BY InsideFile DEF IInv, TypeOK
<1>2. PICK d, e, d1, e1 \in Nat :
          /\ Debt(c, 672) = d /\ Debt(c, 432) = e
          /\ Debt(c, 672)' = d1 /\ Debt(c, 432)' = e1
          /\ ThisChunk.kind = "PINF" => d1 = d + 672 /\ e1 = e + 432
          /\ ThisChunk.kind = "SLDC" => /\ d1 = d + (116 + 5 * TotalSize)
                                        /\ e1 = e + (116 + 5 * TotalSize)
          /\ ThisChunk.kind \notin {"PINF", "SLDC"} => d1 = d /\ e1 = e
  BY NextDebt
<1>4. Enough(x, y, d, e)
  BY <1>2 DEF Spare
<1>5. Enough(x + u, y + v, d1, e1)
  <2>1. CASE /\ ThisChunk.kind \notin {"PINF", "SLDC"}
             /\ 5 * (2 * u - v) >= 2 * u + 36
    BY <1>2, <1>4, <2>1 DEF Enough
  <2>2. CASE /\ ThisChunk.kind \notin {"PINF", "SLDC"}
             /\ 5 * (2 * u - v) >= 2 * u /\ 3 * (2 * u - v) >= 2 * u
    BY <1>2, <1>4, <2>2 DEF Enough
  <2>3. CASE /\ ThisChunk.kind = "PINF"
             /\ 5 * (2 * u - v) >= 2 * u - 168 /\ 3 * (2 * u - v) >= 2 * u - 108
    BY <1>2, <1>4, <2>3 DEF Enough
  <2>4. CASE /\ ThisChunk.kind = "SLDC"
             /\ 20 * (2 * u - v) >= 8 * u - (116 + 5 * TotalSize)
             /\ 12 * (2 * u - v) >= 8 * u - (116 + 5 * TotalSize)
    BY <1>1, <1>2, <1>4, <2>4 DEF Enough
  <2> QED
    BY <2>1, <2>2, <2>3, <2>4
<1>6. Enough(inpos', outpos', Debt(c, 672)', Debt(c, 432)')
  BY <1>2, <1>5
<1> QED
  BY <1>6 DEF Spare, Enough

\* While the chunk is the same, so is what the chunks before it have left over.
LEMMA SameSpare ==
    ASSUME file' = file, c' = c, NEW x, NEW y
    PROVE  Spare(c, x, y)' <=> Spare(c, x, y)
<1>1. TotalSize' = TotalSize /\ \A kind : Passed(c, kind)' <=> Passed(c, kind)
  BY DEF TotalSize, Passed
<1> QED
  BY <1>1 DEF Spare, Enough, Debt

\* A string, the points and the rest of the data leave two fifths over.
LEMMA PartSpare ==
    ASSUME NEW kind \in {"table", "OBJ2"}, NEW q \in PartRecords, PartOK(kind, q)
    PROVE  /\ InLength(q) \in Nat /\ OutLength(q) \in Nat
           /\ q.kind # "property" =>
                5 * (2 * InLength(q) - OutLength(q)) >= 2 * InLength(q)
           /\ q.kind = "property" =>
                5 * (2 * InLength(q) - OutLength(q)) >= 2 * InLength(q) - 8
<1>1. /\ q.n \in Nat
      /\ q.kind \in {"fixed", "string", "property", "points", "bsp"} \cup TableParts
  BY DEF PartRecords, PartOK
<1>2. /\ Padded(q.n) \in Nat /\ Padded(q.n) <= q.n + 3
      /\ q.n = 0 => Padded(q.n) = 0
  BY <1>1 DEF Padded
<1>3. q.kind = "points" => q.n >= 20
  BY DEF PartOK
<1>4. InLength(q) = IF q.kind \in {"string", "property"} THEN 4 + q.n ELSE q.n
  BY DEF InLength
<1>5. CASE q.kind \in {"fixed", "bsp"} \cup (TableParts \ {"string"})
  <2>1. OutLength(q) = q.n /\ InLength(q) = q.n
    BY <1>5 DEF OutLength, InLength, TableParts
  <2> QED
    BY <1>1, <1>5, <2>1
<1>6. CASE q.kind = "string"
  <2>1. OutLength(q) = 4 + Padded(q.n) /\ InLength(q) = 4 + q.n
    BY <1>6 DEF OutLength, InLength
  <2> QED
    BY <1>1, <1>2, <1>6, <2>1
<1>7. CASE q.kind = "property"
  <2>1. /\ q.n # 0 => OutLength(q) = 4 + Padded(q.n)
        /\ q.n = 0 => OutLength(q) = 8
        /\ InLength(q) = 4 + q.n
    BY <1>7 DEF OutLength, InLength
  <2> QED
    BY <1>1, <1>2, <1>7, <2>1
<1>8. CASE q.kind = "points"
  <2>1. OutLength(q) = Padded(q.n) /\ InLength(q) = q.n
    BY <1>8 DEF OutLength, InLength
  <2> QED
    BY <1>1, <1>2, <1>3, <1>8, <2>1
<1> QED
  BY <1>1, <1>5, <1>6, <1>7, <1>8

-----------------------------------------------------------------------------
(* The steps and the room *)

LEMMA SameProportions ==
    ASSUME file' = file
    PROVE  Proportioned' <=> Proportioned
  BY DEF Proportioned, TotalSize

\* What a step must show of a chunk that is being copied.
LEMMA ChunkSpare ==
    ASSUME file' = file, c' = c, NEW x, NEW y, Spare(c, x, y), x = ThisChunk.at
    PROVE  /\ Last.at' = y => Spare(c, ThisChunk.at, Last.at)'
           /\ (Last.at - 8 - Padded(ThisChunk.size))' = y =>
                 Spare(c, ThisChunk.at, Last.at - 8 - Padded(ThisChunk.size))'
<1>1. Spare(c, x, y)'
  BY SameSpare
<1>2. ThisChunk.at' = x
  BY DEF ThisChunk
<1> QED
  BY <1>1, <1>2 DEF Spare, Enough

\* A chunk that is copied whole.
LEMMA WholeRoom ==
    ASSUME IInv, Room, NEW kind \in Kinds, AtChunk(kind), NEW n \in Nat, CopyChunk(n),
           LET u == ThisChunk.size + 8
               v == n + 8
           IN \/ /\ kind \notin {"PINF", "SLDC"}
                 /\ 5 * (2 * u - v) >= 2 * u /\ 3 * (2 * u - v) >= 2 * u
              \/ /\ kind = "PINF"
                 /\ 5 * (2 * u - v) >= 2 * u - 168 /\ 3 * (2 * u - v) >= 2 * u - 108
    PROVE  Room'
<1> DEFINE u == ThisChunk.size + 8
           v == n + 8
<1>1. /\ c <= Len(file) /\ BetweenChunks /\ pc = "chunk" /\ ThisChunk.kind = kind
      /\ ThisChunk.size \in Nat /\ inpos \in Nat /\ outpos \in Nat
  BY AtChunkFacts DEF IInv, TypeOK
<1>2. /\ inpos' = inpos + u /\ outpos' = outpos + v
      /\ c' = c + 1 /\ file' = file /\ pc' = "chunk"
  BY <1>1 DEF CopyChunk
<1>3. u \in Int /\ v \in Int
  BY <1>1
<1>4. \/ /\ ThisChunk.kind \notin {"PINF", "SLDC"}
         /\ 5 * (2 * u - v) >= 2 * u /\ 3 * (2 * u - v) >= 2 * u
      \/ /\ ThisChunk.kind = "PINF"
         /\ 5 * (2 * u - v) >= 2 * u - 168 /\ 3 * (2 * u - v) >= 2 * u - 108
  BY <1>1
<1> HIDE DEF u, v
<1>5. ASSUME Proportioned PROVE Spare(c, inpos, outpos)'
  <2>1. Spare(c, inpos, outpos)
    BY <1>1, <1>5 DEF Room
  <2>2. PICK x, y \in Int : x = inpos /\ y = outpos
    BY <1>1
  <2>3. Spare(c, x, y) /\ inpos' = x + u /\ outpos' = y + v
    BY <1>2, <2>1, <2>2
  <2> QED
    BY <1>1, <1>2, <1>3, <1>4, <1>5, <2>3, NextSpare
<1> QED
  BY <1>2, <1>5, SameProportions DEF Room, InTree

LEMMA PaddedBound ==
    ASSUME NEW n \in Nat
    PROVE  Padded(n) \in Nat /\ Padded(n) <= n + 3 /\ (n = 0 => Padded(n) = 0)
  BY DEF Padded

LEMMA CopyOtherRoom ==
    ASSUME IInv, Room, CopyOther
    PROVE  Room'
<1>1. AtChunk("other") /\ CopyChunk(Padded(ThisChunk.size)) /\ "other" \in Kinds
  BY DEF CopyOther, Kinds
<1>2. ThisChunk.size \in Nat
  BY <1>1, AtChunkFacts
<1>3. /\ Padded(ThisChunk.size) \in Nat /\ Padded(ThisChunk.size) <= ThisChunk.size + 3
      /\ ThisChunk.size = 0 => Padded(ThisChunk.size) = 0
  BY <1>2, PaddedBound
<1>4. LET u == ThisChunk.size + 8
          v == Padded(ThisChunk.size) + 8
      IN 5 * (2 * u - v) >= 2 * u /\ 3 * (2 * u - v) >= 2 * u
  BY <1>2, <1>3
<1> QED
  BY <1>1, <1>3, <1>4, WholeRoom

LEMMA CopySLC2Room ==
    ASSUME IInv, Room, CopySLC2
    PROVE  Room'
<1>1. AtChunk("SLC2") /\ CopyChunk(ThisChunk.size) /\ "SLC2" \in Kinds
  BY DEF CopySLC2, Kinds
<1>2. ThisChunk.size \in Nat
  BY <1>1, AtChunkFacts
<1>3. LET u == ThisChunk.size + 8
          v == ThisChunk.size + 8
      IN 5 * (2 * u - v) >= 2 * u /\ 3 * (2 * u - v) >= 2 * u
  BY <1>2
<1> QED
  BY <1>1, <1>2, <1>3, WholeRoom

LEMMA CopyPINFRoom ==
    ASSUME IInv, Room, CopyPINF
    PROVE  Room'
<1>1. AtChunk("PINF") /\ CopyChunk(Padded(ThisChunk.size) + 36) /\ "PINF" \in Kinds
  BY DEF CopyPINF, Kinds
<1>2. ThisChunk.size \in Nat
  BY <1>1, AtChunkFacts
<1>3. /\ Padded(ThisChunk.size) \in Nat /\ Padded(ThisChunk.size) <= ThisChunk.size + 3
      /\ ThisChunk.size = 0 => Padded(ThisChunk.size) = 0
  BY <1>2, PaddedBound
<1>4. LET u == ThisChunk.size + 8
          v == Padded(ThisChunk.size) + 36 + 8
      IN 5 * (2 * u - v) >= 2 * u - 168 /\ 3 * (2 * u - v) >= 2 * u - 108
  BY <1>2, <1>3
<1>5. Padded(ThisChunk.size) + 36 \in Nat
  BY <1>3
<1> QED
  BY <1>1, <1>4, <1>5, WholeRoom

\* A chunk is begun behind the last one.
LEMMA BeginRoom ==
    ASSUME IInv, Room, NEW kind \in {"table", "OBJ2"}, AtChunk(kind),
           headers' = Append(headers, Header(outpos, ThisChunk.size)),
           inpos' = inpos + PartsAt(kind), outpos' = outpos + PartsAt(kind),
           i' = 1, pc' = kind, UNCHANGED <<file, c>>
    PROVE  Room'
<1>1. /\ c <= Len(file) /\ BetweenChunks /\ ThisChunk.kind = kind
      /\ inpos = ThisChunk.at /\ ThisChunk.size \in Nat
      /\ inpos \in Nat /\ outpos \in Nat
  BY AtChunkFacts DEF IInv, TypeOK, Kinds
<1>2. Last.at' = outpos
  BY <1>1, AppendFacts DEF IInv
<1>3. ThisChunk' = ThisChunk
  BY DEF ThisChunk
<1>4. ASSUME Proportioned PROVE Spare(c, ThisChunk.at, Last.at)'
  <2>1. Spare(c, inpos, outpos)
    BY <1>1, <1>4 DEF Room
  <2>2. PICK x, y \in Nat : x = inpos /\ y = outpos
    BY <1>1
  <2>3. Spare(c, x, y) /\ x = ThisChunk.at /\ Last.at' = y
    BY <1>1, <1>2, <2>1, <2>2
  <2> QED
    BY <2>3, ChunkSpare
<1>5. /\ inpos' - ThisChunk.at' = PartsAt(kind)
      /\ outpos' - Last.at' = PartsAt(kind)
  BY <1>1, <1>2, <1>3 DEF PartsAt
<1>6. kind = "table" => SpareOfParts(36)'
  BY <1>5 DEF SpareOfParts, PartsAt
<1>7. kind = "OBJ2" => SpareOfParts(IF PropertySeen THEN 196 ELSE 204)'
  <2>1. ~PropertySeen'
    BY DEF PropertySeen
  <2> QED
    BY <1>5, <2>1 DEF SpareOfParts, PartsAt
<1> QED
  BY <1>4, <1>6, <1>7, SameProportions DEF Room, InTree, BetweenChunks

LEMMA BeginTableRoom ==
    ASSUME IInv, Room, BeginTable
    PROVE  Room'
  BY BeginRoom DEF BeginTable, PartsAt

LEMMA BeginOBJ2Room ==
    ASSUME IInv, Room, BeginOBJ2
    PROVE  Room'
  BY BeginRoom DEF BeginOBJ2, PartsAt

\* A part is copied: what was left over before it stays, and it adds its own.
LEMMA PartRoom ==
    ASSUME IInv, Room, NEW kind \in {"table", "OBJ2"}, AtPart(kind),
           inpos' = inpos + InLength(ThisPart), outpos' = outpos + OutLength(ThisPart),
           i' = i + 1, UNCHANGED <<file, pc, c, headers>>
    PROVE  Room'
<1>1. /\ c <= Len(file) /\ pc = kind /\ ThisChunk.kind = kind
      /\ i \in 1..Len(Parts) /\ ThisPart = Parts[i] /\ Len(Parts) \in Nat
      /\ ThisPart \in PartRecords /\ PartOK(kind, ThisPart)
      /\ headers # <<>> /\ inpos \in Nat
  BY AtPartFacts DEF IInv, TypeOK
<1>2. /\ ThisChunk' = ThisChunk /\ Parts' = Parts /\ Last' = Last
  BY DEF ThisChunk, Parts, Last
<1>3. /\ ThisChunk.at \in Nat /\ Last.at \in Nat /\ outpos \in Nat
  BY <1>1, ChunkFacts, LastFacts DEF IInv, ChunkRecords
<1>4. /\ InLength(ThisPart) \in Nat /\ OutLength(ThisPart) \in Nat
      /\ ThisPart.kind # "property" =>
           5 * (2 * InLength(ThisPart) - OutLength(ThisPart)) >= 2 * InLength(ThisPart)
      /\ ThisPart.kind = "property" =>
           5 * (2 * InLength(ThisPart) - OutLength(ThisPart)) >= 2 * InLength(ThisPart) - 8
  BY <1>1, PartSpare
<1>5. ASSUME NEW r \in Int, NEW s \in Int, SpareOfParts(r),
             s <= r, ThisPart.kind = "property" => s <= r - 8
      PROVE  SpareOfParts(s)'
  <2>1. /\ inpos' - ThisChunk.at' = inpos - ThisChunk.at + InLength(ThisPart)
        /\ outpos' - Last.at' = outpos - Last.at + OutLength(ThisPart)
    <3>1. \A a, b, n \in Nat : (a + n) - b = a - b + n
      OBVIOUS
    <3>2. (inpos + InLength(ThisPart)) - ThisChunk.at
              = inpos - ThisChunk.at + InLength(ThisPart)
      BY <1>1, <1>3, <1>4, <3>1
    <3>4. (outpos + OutLength(ThisPart)) - Last.at
              = outpos - Last.at + OutLength(ThisPart)
      BY <1>3, <1>4, <3>1
    <3>3. ThisChunk.at' = ThisChunk.at /\ Last.at' = Last.at
      BY <1>2
    <3>5. inpos' - ThisChunk.at' = inpos - ThisChunk.at + InLength(ThisPart)
      BY <3>2, <3>3
    <3>6. outpos' - Last.at' = outpos - Last.at + OutLength(ThisPart)
      BY <3>3, <3>4
    <3> QED
      BY <3>5, <3>6
  <2>2. PICK x, y, u, v \in Int : /\ x = inpos - ThisChunk.at /\ y = outpos - Last.at
                                  /\ u = InLength(ThisPart) /\ v = OutLength(ThisPart)
    <3>1. inpos - ThisChunk.at \in Int /\ outpos - Last.at \in Int
      <4>1. \A a, b \in Nat : a - b \in Int
        OBVIOUS
      <4> QED
        BY <1>1, <1>3, <4>1, Zenon
    <3>2. InLength(ThisPart) \in Int /\ OutLength(ThisPart) \in Int
      BY <1>4
    <3> QED
      BY <3>1, <3>2, Zenon
  <2>3. 5 * (2 * x - y) >= 2 * x + r
    BY <1>5, <2>2 DEF SpareOfParts
  <2>4. 5 * (2 * (x + u) - (y + v)) >= 2 * (x + u) + s
    BY <1>4, <1>5, <2>2, <2>3
  <2> QED
    BY <2>1, <2>2, <2>4 DEF SpareOfParts
<1>6. kind = "table" => ThisPart.kind # "property"
  BY <1>1 DEF PartOK, TableParts
<1>7. PropertySeen' <=> PropertySeen \/ ThisPart.kind = "property"
  <2>1. i' - 1 = i /\ 1..i = (1..(i - 1)) \cup {i}
    BY <1>1
  <2>2. PropertySeen' <=> \E j \in 1..(i' - 1) : Parts[j].kind = "property"
    BY <1>2 DEF PropertySeen
  <2>3. PropertySeen' <=> \E j \in 1..i : Parts[j].kind = "property"
    BY <2>1, <2>2
  <2> QED
    BY <1>1, <2>1, <2>3 DEF PropertySeen
<1>8. kind = "OBJ2" /\ ThisPart.kind = "property" => ~PropertySeen
  <2> SUFFICES ASSUME kind = "OBJ2", ThisPart.kind = "property",
                      NEW j \in 1..(i - 1), Parts[j].kind = "property"
               PROVE  FALSE
    BY DEF PropertySeen
  <2>1. OneProperty(ThisChunk)
    BY <1>1, ChunkFacts DEF ChunkOK, IInv
  <2>2. j \in 1..Len(Parts) /\ j # i
    BY <1>1
  <2> QED
    BY <1>1, <2>1, <2>2 DEF OneProperty, Parts
<1>9. ASSUME Proportioned PROVE Spare(c, ThisChunk.at, Last.at)'
  <2>1. PICK x, y \in Nat : x = ThisChunk.at /\ y = Last.at
    BY <1>3
  <2>2. Spare(c, x, y) /\ Last.at' = y
    BY <1>1, <1>2, <1>9, <2>1 DEF Room
  <2> QED
    BY <2>1, <2>2, ChunkSpare
<1>10. ASSUME Proportioned, kind = "table" PROVE SpareOfParts(36)'
  <2>1. SpareOfParts(36)
    BY <1>1, <1>10 DEF Room
  <2> QED
    BY <1>5, <1>6, <1>10, <2>1
<1>11. ASSUME Proportioned, kind = "OBJ2"
       PROVE  SpareOfParts(IF PropertySeen THEN 196 ELSE 204)'
  <2>1. SpareOfParts(IF PropertySeen THEN 196 ELSE 204)
    BY <1>1, <1>11 DEF Room
  <2>2. CASE ThisPart.kind = "property"
    <3>1. SpareOfParts(204) /\ PropertySeen'
      BY <1>7, <1>8, <1>11, <2>1, <2>2
    <3>2. SpareOfParts(196)'
      BY <1>5, <2>2, <3>1
    <3> QED
      BY <3>1, <3>2 DEF SpareOfParts
  <2>3. CASE ThisPart.kind # "property"
    <3>1. CASE PropertySeen
      <4>1. SpareOfParts(196)'
        BY <1>5, <2>1, <2>3, <3>1
      <4> QED
        BY <1>7, <3>1, <4>1 DEF SpareOfParts
    <3>2. CASE ~PropertySeen
      <4>1. SpareOfParts(204)'
        BY <1>5, <2>1, <2>3, <3>2
      <4> QED
        BY <1>7, <2>3, <3>2, <4>1 DEF SpareOfParts
    <3> QED
      BY <3>1, <3>2
  <2> QED
    BY <2>2, <2>3
<1> QED
  BY <1>1, <1>9, <1>10, <1>11, SameProportions DEF Room, InTree, BetweenChunks

LEMMA CopyTablePartRoom ==
    ASSUME IInv, Room, CopyTablePart
    PROVE  Room'
  BY PartRoom DEF CopyTablePart, Move

LEMMA CopyOBJ2PartRoom ==
    ASSUME IInv, Room, CopyOBJ2Part
    PROVE  Room'
  BY PartRoom DEF CopyOBJ2Part

\* The chunk ends, and what its parts have left over is added to the rest.
LEMMA EndRoom ==
    ASSUME IInv, Room, NEW kind \in {"table", "OBJ2"}, pc = kind,
           c' = c + 1, pc' = "chunk", file' = file,
           inpos' = End(ThisChunk), inpos <= inpos', outpos' = outpos
    PROVE  Room'
<1>1. /\ c <= Len(file) /\ headers # <<>> /\ inpos \in Nat
      /\ ThisChunk.kind = kind
  BY DEF IInv, TypeOK, Position, Inside, Headers
<1>2. ThisChunk.at \in Nat /\ Last.at \in Nat /\ outpos \in Nat /\ End(ThisChunk) \in Nat
  BY <1>1, ChunkFacts, LastFacts DEF IInv, ChunkRecords
<1>3. ASSUME Proportioned PROVE Spare(c, inpos, outpos)'
  <2>1. PICK x, y, z, u, v \in Int :
            /\ x = ThisChunk.at /\ y = Last.at /\ z = inpos - ThisChunk.at
            /\ u = End(ThisChunk) - ThisChunk.at /\ v = outpos - Last.at
    <3>1. /\ ThisChunk.at \in Int /\ Last.at \in Int /\ inpos - ThisChunk.at \in Int
          /\ End(ThisChunk) - ThisChunk.at \in Int /\ outpos - Last.at \in Int
      BY <1>1, <1>2
    <3> QED
      BY <3>1, Zenon
  <2>2. Spare(c, x, y)
    BY <1>3, <2>1 DEF Room
  <2>3. 5 * (2 * z - v) >= 2 * z + 36
    <3>1. SpareOfParts(36) \/ SpareOfParts(196) \/ SpareOfParts(204)
      BY <1>3 DEF Room
    <3> QED
      BY <2>1, <3>1 DEF SpareOfParts
  <2>4. z <= u /\ inpos' = x + u /\ outpos' = y + v
    <3>1. inpos - ThisChunk.at <= End(ThisChunk) - ThisChunk.at
      BY <1>1, <1>2
    <3>2. End(ThisChunk) = ThisChunk.at + (End(ThisChunk) - ThisChunk.at)
      BY <1>2
    <3>3. outpos = Last.at + (outpos - Last.at)
      BY <1>2
    <3> QED
      BY <2>1, <3>1, <3>2, <3>3
  <2>5. 5 * (2 * u - v) >= 2 * u + 36
    BY <2>3, <2>4
  <2>6. ThisChunk.kind \notin {"PINF", "SLDC"}
    BY <1>1
  <2> QED
    BY <1>1, <1>3, <2>2, <2>4, <2>5, <2>6, NextSpare
<1> QED
  BY <1>3, SameProportions DEF Room, InTree

LEMMA EndTableRoom ==
    ASSUME IInv, IInv', Room, EndTable
    PROVE  Room'
<1>1. /\ pc = "table" /\ pc' = "chunk" /\ c' = c + 1 /\ file' = file
      /\ inpos' = inpos /\ outpos' = outpos
  BY DEF EndTable
<1>2. c <= Len(file) /\ inpos \in Nat
  BY <1>1 DEF IInv, TypeOK, Position, Inside
<1>3. inpos' = End(ThisChunk)
  <2>1. inpos' = ChunkStart(c)'
    BY <1>1 DEF IInv, Position, BetweenChunks
  <2>2. ChunkStart(c)' = ChunkStart(c + 1)
    BY <1>1 DEF ChunkStart, TotalSize
  <2> QED
    BY <1>2, <2>1, <2>2, ChunkFacts DEF IInv
<1>4. inpos <= inpos'
  BY <1>1, <1>2
<1> QED
  BY <1>1, <1>3, <1>4, EndRoom

\* No part begins behind its chunk.
LEMMA PartInside ==
    ASSUME IInv, pc \in {"table", "OBJ2"}
    PROVE  inpos <= End(ThisChunk)
<1>1. /\ c <= Len(file) /\ ThisChunk.kind \in {"table", "OBJ2"} /\ inpos = PartStart(i)
      /\ i \in Nat /\ i >= 1
  BY DEF IInv, TypeOK, Position, Inside
<1>2. /\ HasParts(ThisChunk) /\ PartsOK(ThisChunk) /\ End(ThisChunk) \in Nat
  BY <1>1, ChunkFacts DEF HasParts, ChunkOK, IInv
<1>3. /\ Len(Parts) \in Nat
      /\ \A k \in 1..Len(Parts) : Parts[k] \in PartRecords /\ InLength(Parts[k]) \in Nat
  BY <1>1, <1>2, PartFacts DEF IInv
<1>4. CASE i <= Len(Parts)
  <2>1. i \in 1..Len(Parts) /\ Len(Parts) \in 1..Len(Parts)
    BY <1>1, <1>3, <1>4
  <2>2. Parts[i].at \in Nat /\ Parts[Len(Parts)].at \in Nat
    BY <1>3, <2>1 DEF PartRecords
  <2>3. Parts[i].at <= Parts[Len(Parts)].at
    BY <1>2, <1>3, <2>1, <2>2 DEF PartsOK, Parts
  <2>4. Parts[Len(Parts)].at + InLength(Parts[Len(Parts)]) = End(ThisChunk)
    BY <1>2, <1>3, <2>1 DEF PartsOK, Parts
  <2> QED
    BY <1>1, <1>2, <1>3, <1>4, <2>1, <2>2, <2>3, <2>4 DEF PartStart
<1>5. CASE ~(i <= Len(Parts))
  BY <1>1, <1>2, <1>5 DEF PartStart
<1> QED
  BY <1>4, <1>5

LEMMA EndOBJ2Room ==
    ASSUME IInv, Room, EndOBJ2
    PROVE  Room'
<1> DEFINE size == copied - ini_cp - 8
<1>1. /\ pc = "OBJ2" /\ outpos' = outpos + Padded(size) - size
      /\ inpos' = End(ThisChunk) /\ c' = c + 1 /\ pc' = "chunk" /\ file' = file
  BY DEF EndOBJ2
<1>2. /\ headers # <<>> /\ copied = outpos /\ ini_cp = Last.at
  BY <1>1 DEF IInv, Headers, Counts
<1>3. outpos \in Nat /\ size \in Nat /\ Padded(size) = size
  BY <1>2, LastFacts, PaddedFacts
<1>4. outpos' = outpos
  BY <1>1, <1>3
<1>5. inpos <= inpos'
  BY <1>1, PartInside
<1> QED
  BY <1>1, <1>4, <1>5, EndRoom

-----------------------------------------------------------------------------
(* The tree and the room *)

LEMMA BeginSLDCRoom ==
    ASSUME IInv, Room, BeginSLDC
    PROVE  Room'
<1> DEFINE n == Padded(ThisChunk.size)
<1>1. AtChunk("SLDC") /\ "SLDC" \in Kinds
  BY DEF BeginSLDC, Kinds
<1>2. /\ BetweenChunks /\ inpos = ThisChunk.at /\ ThisChunk.at \in Nat
      /\ n \in Nat /\ n % 4 = 0
  BY <1>1, AtChunkFacts
<1>3. /\ headers' = headers \o <<Header(outpos, n), Header(outpos + (n + 8), 0)>>
      /\ outpos' = outpos + (n + 8) + 12
      /\ pc' = "SLDC" /\ i' = 1 /\ count' = 0 /\ UNCHANGED <<file, c>>
  BY DEF BeginSLDC
<1>4. ThisChunk' = ThisChunk
  BY <1>3 DEF ThisChunk
<1>5. Padded(ThisChunk.size)' = n
  BY <1>4 DEF Padded
<1> HIDE DEF n
<1>6. ~BetweenChunks'
  BY <1>3 DEF BetweenChunks
<1>7. outpos \in Nat /\ Last'.at = outpos + (n + 8)
  BY <1>2, <1>3, <1>6, TwoHeaders
<1>8. (Last.at - 8 - Padded(ThisChunk.size))' = outpos
  <2>1. (outpos + (n + 8)) - 8 - n = outpos
    BY <1>2, <1>7
  <2> QED
    BY <1>5, <1>7, <2>1
<1>9. ASSUME Proportioned
      PROVE  Spare(c, ThisChunk.at, Last.at - 8 - Padded(ThisChunk.size))'
  <2>1. PICK x, y \in Nat : x = inpos /\ y = outpos
    BY <1>2, <1>7
  <2>2. Spare(c, x, y) /\ x = ThisChunk.at
    BY <1>2, <1>9, <2>1 DEF Room
  <2>3. (Last.at - 8 - Padded(ThisChunk.size))' = y
    BY <1>8, <2>1
  <2> QED
    BY <1>3, <2>2, <2>3, ChunkSpare
<1>10. (33 * (i - 1))' <= count'
  BY <1>3
<1> QED
  BY <1>3, <1>6, <1>9, <1>10, SameProportions DEF Room

\* A step in the tree: a node is written, of 33 bytes at least, or none.
LEMMA TreeRoom ==
    ASSUME IInv, Room, InTree, InTree', UNCHANGED <<file, c, headers>>,
           \/ i' = i /\ count' = count
           \/ i' = i + 1 /\ \E n \in Nat : n >= 33 /\ count' = count + n
    PROVE  Room'
<1>1. i \in Nat /\ count \in Nat
  BY DEF IInv, TypeOK
<1>2. ThisChunk' = ThisChunk /\ Last' = Last
  BY DEF ThisChunk, Last
<1>3. ASSUME Proportioned
      PROVE  Spare(c, ThisChunk.at, Last.at - 8 - Padded(ThisChunk.size))'
  <2>1. PICK x, y : x = ThisChunk.at /\ y = Last.at - 8 - Padded(ThisChunk.size)
    OBVIOUS
  <2>2. (Last.at - 8 - Padded(ThisChunk.size))' = y
    BY <1>2, <2>1 DEF Padded
  <2>3. Spare(c, x, y)
    BY <1>3, <2>1 DEF Room
  <2> QED
    BY <2>1, <2>2, <2>3, ChunkSpare
<1>4. ASSUME Proportioned PROVE (33 * (i - 1))' <= count'
  <2>1. 33 * (i - 1) <= count
    BY <1>4 DEF Room
  <2> QED
    BY <1>1, <2>1
<1>5. ~BetweenChunks' /\ pc' \notin {"table", "OBJ2"}
  BY DEF InTree, BetweenChunks
<1> QED
  BY <1>3, <1>4, <1>5, SameProportions DEF Room

LEMMA CopyLeafRoom ==
    ASSUME IInv, Room, CopyLeaf
    PROVE  Room'
<1>1. AtPart("SLDC")
  BY DEF CopyLeaf, AtNode
<1>2. /\ c <= Len(file) /\ pc = "SLDC" /\ ThisChunk.kind = "SLDC"
      /\ i \in 1..Len(Parts) /\ ThisPart = Parts[i] /\ ThisPart \in PartRecords
  BY <1>1, AtPartFacts
<1>3. ThisPart.n \in Nat /\ ThisPart.n >= 33
  BY <1>2, TreeFacts DEF IInv, PartRecords
<1>4. /\ count' = count + ThisPart.n /\ i' = i + 1
      /\ UNCHANGED <<file, pc, c, headers>>
  BY DEF CopyLeaf
<1>5. InTree /\ InTree'
  BY <1>2, <1>4 DEF InTree
<1> QED
  BY <1>3, <1>4, <1>5, TreeRoom

LEMMA BeginSplitRoom ==
    ASSUME IInv, Room, BeginSplit
    PROVE  Room'
<1>1. /\ pc = "SLDC" /\ pc' = "walk" /\ UNCHANGED <<file, c, i, count, headers>>
  BY DEF BeginSplit, AtNode, AtPart
<1>2. InTree /\ InTree'
  BY <1>1 DEF InTree
<1> QED
  BY <1>1, <1>2, TreeRoom

LEMMA WalkRoom ==
    ASSUME IInv, Room, Walk
    PROVE  Room'
<1>1. pc = "walk" /\ UNCHANGED <<file, pc, c, i, count, headers>>
  BY DEF Walk
<1>2. InTree /\ InTree'
  BY <1>1 DEF InTree
<1> QED
  BY <1>1, <1>2, TreeRoom

LEMMA EndSplitRoom ==
    ASSUME IInv, Room, EndSplit
    PROVE  Room'
<1>1. /\ pc = "walk" /\ pc' = "SLDC" /\ count' = count + ThisPart.n /\ i' = i + 1
      /\ UNCHANGED <<file, c, headers>>
  BY DEF EndSplit
<1>2. ThisPart.n = 37
  BY <1>1, WalkFacts DEF ThisPart, Parts
<1>3. InTree /\ InTree'
  BY <1>1 DEF InTree
<1> QED
  BY <1>1, <1>2, <1>3, TreeRoom

\* What a tree of k nodes in a chunk of this size takes, written twice.
LEMMA TreeTakes ==
    ASSUME NEW total \in Nat, NEW size \in Nat, NEW padded \in Nat, NEW k \in Int,
           padded <= size + 3, size >= 4, 33 * k <= size - 4, 2 * size <= total
    PROVE  LET u == 8 + size
               v == 16 + size + 3 * k + padded
           IN /\ 20 * (2 * u - v) >= 8 * u - (116 + 5 * total)
              /\ 12 * (2 * u - v) >= 8 * u - (116 + 5 * total)
<1>1. 20 * (size - 3 * k - padded) >= 8 * size - 52 - 5 * total
  OBVIOUS
<1>2. 12 * (size - 3 * k - padded) >= 8 * size - 52 - 5 * total
  OBVIOUS
<1> QED
  BY <1>1, <1>2

\* A tree is inside of its chunk, and has no more nodes than fit.
LEMMA InTreeFacts ==
    ASSUME IInv, Room, Proportioned, InTree
    PROVE  /\ c \in 1..Len(file) /\ ThisChunk.kind = "SLDC"
           /\ ThisChunk.at \in Nat /\ ThisChunk.size \in Nat /\ ThisChunk.size >= 4
           /\ Last.at \in Nat /\ i \in Nat /\ count \in Nat
           /\ Padded(ThisChunk.size) \in Nat /\ Padded(ThisChunk.size) <= ThisChunk.size + 3
           /\ 33 * (i - 1) <= ThisChunk.size - 4 /\ 2 * ThisChunk.size <= TotalSize
           /\ count <= ThisChunk.size - 4
           /\ outpos = Last.at + 12 + count + 3 * (i - 1)
<1>1. /\ c <= Len(file) /\ ThisChunk.kind = "SLDC" /\ headers # <<>>
      /\ inpos = PartStart(i) /\ i <= Len(Parts) + 1 /\ i >= 1
      /\ inpos = ThisChunk.at + 12 + count
      /\ outpos = Last.at + 12 + count + 3 * (i - 1)
      /\ c \in 1..(Len(file) + 1) /\ i \in Nat /\ count \in Nat /\ inpos \in Nat
  BY DEF IInv, TypeOK, InTree, Position, Inside, Headers, Counts
<1>2. /\ ThisChunk \in ChunkRecords /\ End(ThisChunk) \in Nat
      /\ ThisChunk.at \in Nat /\ ThisChunk.size \in Nat /\ Len(file) \in Nat
  BY <1>1, ChunkFacts, InsideFile DEF IInv, TypeOK, ChunkRecords
<1>3. Last.at \in Nat
  BY <1>1, LastFacts
<1>4. inpos <= End(ThisChunk)
  <2>1. Len(Parts) \in Nat /\ \A k \in 1..Len(Parts) : Parts[k].at \in Nat
    BY <1>1, PartFacts DEF IInv, HasParts, PartRecords
  <2>2. \A k \in 1..Len(Parts) : Parts[k].at < End(ThisChunk)
    BY <1>1, TreeFacts DEF IInv
  <2>3. CASE i <= Len(Parts)
    <3>1. i \in 1..Len(Parts) /\ inpos = Parts[i].at
      BY <1>1, <2>1, <2>3 DEF PartStart
    <3> QED
      BY <1>2, <2>1, <2>2, <3>1
  <2>4. CASE ~(i <= Len(Parts))
    <3>1. inpos = End(ThisChunk)
      BY <1>1, <2>4 DEF PartStart
    <3> QED
      BY <1>2, <3>1
  <2> QED
    BY <2>3, <2>4
<1>5. count <= ThisChunk.size - 4 /\ ThisChunk.size >= 4
  <2>1. ThisChunk.at + 12 + count <= ThisChunk.at + 8 + ThisChunk.size
    BY <1>1, <1>4 DEF End
  <2>2. count \in Nat
    BY <1>1
  <2> QED
    BY <1>2, <2>1, <2>2
<1>6. 33 * (i - 1) <= count
  BY DEF Room
<1>7. Padded(ThisChunk.size) \in Nat /\ Padded(ThisChunk.size) <= ThisChunk.size + 3
  BY <1>2, PaddedBound
<1>8. c \in 1..Len(file)
  BY <1>1, <1>2
<1>9. 2 * ThisChunk.size <= TotalSize
  BY <1>1, <1>8, ProportionedFacts DEF IInv, TypeOK, ThisChunk
<1> QED
  <2>1. 33 * (i - 1) <= ThisChunk.size - 4
    <3>1. i \in Nat /\ count \in Nat
      BY <1>1
    <3> QED
      BY <1>2, <1>5, <1>6, <3>1
  <2> QED
    BY <1>1, <1>2, <1>3, <1>5, <1>7, <1>8, <1>9, <2>1

LEMMA EndSLDCRoom ==
    ASSUME IInv, IInv', Room, EndSLDC
    PROVE  Room'
<1>1. /\ pc = "SLDC" /\ pc' = "chunk" /\ c' = c + 1 /\ file' = file
      /\ inpos' = inpos /\ outpos' = outpos /\ InTree
  BY DEF EndSLDC, positions, InTree
<1>2. c <= Len(file) /\ inpos \in Nat /\ inpos = ThisChunk.at + 12 + count
  BY <1>1 DEF IInv, TypeOK, Position, Inside, Counts
<1>3. inpos = End(ThisChunk)
  <2>1. inpos' = ChunkStart(c)'
    BY <1>1 DEF IInv, Position, BetweenChunks
  <2>2. ChunkStart(c)' = ChunkStart(c + 1)
    BY <1>1 DEF ChunkStart, TotalSize
  <2> QED
    BY <1>1, <1>2, <2>1, <2>2, ChunkFacts DEF IInv
<1>4. ASSUME Proportioned PROVE Spare(c, inpos, outpos)'
  <2> DEFINE size == ThisChunk.size
             padded == Padded(ThisChunk.size)
             u == 8 + size
             v == 16 + size + 3 * (i - 1) + padded
             x == ThisChunk.at
             y == Last.at - 8 - padded
  <2>1. /\ ThisChunk.kind = "SLDC" /\ x \in Nat /\ size \in Nat /\ size >= 4
        /\ Last.at \in Nat /\ i \in Nat /\ count \in Nat
        /\ padded \in Nat /\ padded <= size + 3
        /\ 33 * (i - 1) <= size - 4 /\ 2 * size <= TotalSize
        /\ outpos = Last.at + 12 + count + 3 * (i - 1)
    BY <1>1, <1>4, InTreeFacts
  <2>2. TotalSize \in Nat
    BY InsideFile DEF IInv, TypeOK
  <2>3. Spare(c, x, y)
    BY <1>1, <1>4 DEF Room
  <2>4. count = size - 4
    <3>1. ThisChunk.at + 12 + count = ThisChunk.at + 8 + ThisChunk.size
      BY <1>2, <1>3 DEF End
    <3> QED
      BY <2>1, <3>1
  <2>5. /\ 20 * (2 * u - v) >= 8 * u - (116 + 5 * TotalSize)
        /\ 12 * (2 * u - v) >= 8 * u - (116 + 5 * TotalSize)
    <3> HIDE DEF size, padded
    <3> QED
      BY <2>1, <2>2, TreeTakes
  <2>6. y \in Int /\ u \in Int /\ v \in Int
    BY <2>1
  <2>7. inpos' = x + u
    <3>1. \A a, b \in Int : a + 12 + (b - 4) = a + (8 + b)
      OBVIOUS
    <3>2. x + 12 + (size - 4) = x + u
      BY <2>1, <3>1
    <3> QED
      BY <1>1, <1>2, <2>4, <3>2
  <2>8. outpos' = y + v
    <3>1. \A a, b \in Int : a + 12 + (size - 4) + 3 * b
              = (a - 8 - padded) + (16 + size + 3 * b + padded)
      BY <2>1
    <3>2. Last.at \in Int /\ i - 1 \in Int
      BY <2>1
    <3>3. Last.at + 12 + (size - 4) + 3 * (i - 1) = y + v
      BY <3>1, <3>2
    <3> QED
      BY <1>1, <2>1, <2>4, <3>3
  <2>9. ThisChunk.kind = "SLDC"
    BY <2>1
  <2> HIDE DEF u, v, x, y
  <2>10. \E a, b, s, t \in Int : a = x /\ b = y /\ s = u /\ t = v
    <3>1. x \in Int
      BY <2>1 DEF x
    <3> QED
      BY <2>6, <3>1, Zenon
  <2>11. PICK a, b, s, t \in Int : a = x /\ b = y /\ s = u /\ t = v
    BY <2>10
  <2>12. /\ Spare(c, a, b) /\ inpos' = a + s /\ outpos' = b + t
         /\ 20 * (2 * s - t) >= 8 * s - (116 + 5 * TotalSize)
         /\ 12 * (2 * s - t) >= 8 * s - (116 + 5 * TotalSize)
    BY <2>3, <2>5, <2>7, <2>8, <2>11
  <2> QED
    BY <1>1, <1>2, <1>4, <2>9, <2>12, NextSpare
<1> QED
  BY <1>1, <1>4, SameProportions DEF Room, InTree

\* Nothing of the room changes between the last chunk and the end, or when nothing happens.
LEMMA SameRoom ==
    ASSUME Room, UNCHANGED <<file, c, i, inpos, outpos, count, headers>>,
           \/ pc' = pc
           \/ pc = "chunk" /\ pc' = "done"
    PROVE  Room'
<1>1. /\ ThisChunk' = ThisChunk /\ Parts' = Parts /\ Last' = Last /\ TotalSize' = TotalSize
      /\ PropertySeen' <=> PropertySeen
  BY DEF ThisChunk, Parts, Last, TotalSize, PropertySeen
<1>2. \A x, y : Spare(c, x, y)' <=> Spare(c, x, y)
  BY SameSpare
<1>3. \A r : SpareOfParts(r)' <=> SpareOfParts(r)
  BY <1>1 DEF SpareOfParts
<1>4. Padded(ThisChunk.size)' = Padded(ThisChunk.size)
  BY <1>1 DEF Padded
<1> QED
  BY <1>1, <1>2, <1>3, <1>4, SameProportions DEF Room, InTree, BetweenChunks

LEMMA InitRoom ==
    ASSUME Init
    PROVE  Room
<1>1. pc = "chunk" /\ c = 1 /\ inpos = 8 /\ outpos = 8
  BY DEF Init
<1>2. \A kind : ~Passed(c, kind)
  BY <1>1 DEF Passed
<1>3. Debt(c, 672) = 0 /\ Debt(c, 432) = 0
  BY <1>2 DEF Debt
<1>4. Spare(c, inpos, outpos)
  BY <1>1, <1>3 DEF Spare, Enough
<1> QED
  BY <1>1, <1>4 DEF Room, InTree

\* The second invariant: as much of the buffer is left as the rest of the file can need.
THEOREM RoomIsKept == Spec => []Room
<1>1. Init => Room
  BY InitRoom
<1>2. IInv /\ IInv' /\ Room /\ [Next]_vars => Room'
  <2> SUFFICES ASSUME IInv, IInv', Room, [Next]_vars PROVE Room'
    OBVIOUS
  <2>1. CASE CopyOther
    BY <2>1, CopyOtherRoom
  <2>2. CASE CopySLC2
    BY <2>2, CopySLC2Room
  <2>3. CASE CopyPINF
    BY <2>3, CopyPINFRoom
  <2>4. CASE BeginTable
    BY <2>4, BeginTableRoom
  <2>5. CASE CopyTable
    BY <2>5, BranchesCopy, CopyTablePartRoom
  <2>6. CASE EndTable
    BY <2>6, EndTableRoom
  <2>7. CASE BeginOBJ2
    BY <2>7, BeginOBJ2Room
  <2>8. CASE CopyOBJ2Part
    BY <2>8, CopyOBJ2PartRoom
  <2>9. CASE EndOBJ2
    BY <2>9, EndOBJ2Room
  <2>10. CASE BeginSLDC
    BY <2>10, BeginSLDCRoom
  <2>11. CASE CopyLeaf
    BY <2>11, CopyLeafRoom
  <2>12. CASE BeginSplit
    BY <2>12, BeginSplitRoom
  <2>13. CASE Walk
    BY <2>13, WalkRoom
  <2>14. CASE EndSplit
    BY <2>14, EndSplitRoom
  <2>15. CASE EndSLDC
    BY <2>15, EndSLDCRoom
  <2>16. CASE Return
    BY <2>16, SameRoom DEF Return, positions, tree
  <2>17. CASE Finished \/ UNCHANGED vars
    BY <2>17, SameRoom DEF Finished, vars, positions, tree
  <2> QED
    BY <2>1, <2>2, <2>3, <2>4, <2>5, <2>6, <2>7, <2>8, <2>9, <2>10, <2>11, <2>12, <2>13,
       <2>14, <2>15, <2>16, <2>17 DEF Next, CopyTable
<1> QED
  BY <1>1, <1>2, Invariant, PTL DEF Spec

\* Enough is left over, at the end of the longest file too.
LEMMA EnoughFits ==
    ASSUME NEW total \in Nat, total >= 200, NEW x \in Int, NEW y \in Int, x <= total,
           NEW d \in Nat, NEW e \in Nat, d <= 788 + 5 * total, e <= 548 + 5 * total,
           \/ 20 * (2 * x - y) >= 8 * x + 240 - d
           \/ 12 * (2 * x - y) >= 8 * x + 32 - e
    PROVE  y <= 2 * total
  OBVIOUS

LEMMA DebtBound ==
    ASSUME IInv, Proportioned
    PROVE  \E d, e \in Nat :
             /\ Debt(c, 672) = d /\ Debt(c, 432) = e
             /\ d <= 788 + 5 * TotalSize /\ e <= 548 + 5 * TotalSize
             /\ c <= Len(file) /\ ThisChunk.kind = "SLDC" => d <= 672 /\ e <= 432
<1>1. c \in 1..(Len(file) + 1) /\ Len(file) \in Nat /\ TotalSize \in Nat
  BY InsideFile DEF IInv, TypeOK
<1>2. ASSUME c <= Len(file), ThisChunk.kind = "SLDC"
      PROVE  ~Passed(c, "SLDC")
  <2> SUFFICES ASSUME NEW j \in 1..(c - 1), file[j].kind = "SLDC" PROVE FALSE
    BY DEF Passed
  <2>1. j \in 1..Len(file) /\ j # c /\ c \in 1..Len(file)
    BY <1>1, <1>2
  <2> QED
    BY <1>2, <2>1, ProportionedFacts DEF IInv, TypeOK, ThisChunk
<1>3. /\ Debt(c, 672) \in Nat /\ Debt(c, 672) <= 788 + 5 * TotalSize
      /\ ~Passed(c, "SLDC") => Debt(c, 672) <= 672
  BY <1>1 DEF Debt
<1>4. /\ Debt(c, 432) \in Nat /\ Debt(c, 432) <= 548 + 5 * TotalSize
      /\ ~Passed(c, "SLDC") => Debt(c, 432) <= 432
  BY <1>1 DEF Debt
<1>5. PICK d, e \in Nat : d = Debt(c, 672) /\ e = Debt(c, 432)
  BY <1>3, <1>4, Zenon
<1> WITNESS d \in Nat, e \in Nat
<1> QED
  BY <1>2, <1>3, <1>4, <1>5

\* Both callers allocate a buffer that is large enough for every file like those of the game:
\* align_pof never writes behind twice the size of its input.
THEOREM BufferSuffices == Spec => []OutputFits
<1>1. IInv /\ Room => OutputFits
  <2> SUFFICES ASSUME IInv, Room, Proportioned PROVE outpos <= 2 * TotalSize
    BY DEF OutputFits, BufferSize
  <2>1. /\ TotalSize \in Nat /\ TotalSize >= 200 /\ Len(file) \in Nat
        /\ c \in 1..(Len(file) + 1) /\ inpos \in Nat /\ outpos \in Nat
        /\ ChunkStart(c) <= TotalSize
    BY InsideFile, ProportionedFacts DEF IInv, TypeOK
  <2>2. PICK d, e \in Nat :
            /\ Debt(c, 672) = d /\ Debt(c, 432) = e
            /\ d <= 788 + 5 * TotalSize /\ e <= 548 + 5 * TotalSize
            /\ c <= Len(file) /\ ThisChunk.kind = "SLDC" => d <= 672 /\ e <= 432
    BY DebtBound
  <2>3. CASE BetweenChunks
    <3>1. inpos <= TotalSize
      BY <2>1, <2>3 DEF IInv, Position
    <3>2. Enough(inpos, outpos, d, e)
      BY <2>2, <2>3 DEF Room, Spare
    <3> QED
      BY <2>1, <2>2, <3>1, <3>2, EnoughFits DEF Enough
  <2>4. ASSUME Inside
        PROVE  End(ThisChunk) \in Nat /\ End(ThisChunk) <= TotalSize
    <3>1. c <= Len(file) /\ c + 1 \in 1..(Len(file) + 1)
      BY <2>1, <2>4 DEF IInv, Position
    <3>2. ChunkStart(c + 1) = End(ThisChunk) /\ End(ThisChunk) \in Nat
      BY <3>1, ChunkFacts DEF IInv
    <3>3. ChunkStart(c + 1) <= TotalSize
      BY <3>1, InsideFile DEF IInv, TypeOK
    <3> QED
      BY <3>2, <3>3
  <2>5. CASE pc \in {"table", "OBJ2"}
    <3>1. /\ c <= Len(file) /\ headers # <<>> /\ Inside /\ HasParts(ThisChunk)
      BY <2>5 DEF IInv, Position, Inside, Headers, HasParts
    <3>2. ThisChunk.at \in Nat /\ Last.at \in Nat
      BY <3>1, ChunkFacts, LastFacts DEF IInv, ChunkRecords
    <3>3. inpos <= TotalSize
      <4>1. inpos <= End(ThisChunk)
        BY <2>5, PartInside
      <4> QED
        BY <2>1, <2>4, <3>1, <4>1
    <3>4. PICK x, y, z, v \in Int : /\ x = ThisChunk.at /\ y = Last.at
                                    /\ z = inpos - ThisChunk.at /\ v = outpos - Last.at
      <4>1. /\ ThisChunk.at \in Int /\ Last.at \in Int
            /\ inpos - ThisChunk.at \in Int /\ outpos - Last.at \in Int
        BY <2>1, <3>2
      <4> QED
        BY <4>1, Zenon
    <3>5. inpos = x + z /\ outpos = y + v
      BY <2>1, <3>2, <3>4
    <3>6. Enough(x, y, d, e)
      BY <2>2, <2>5, <3>4 DEF Room, Spare
    <3>7. 5 * (2 * z - v) >= 2 * z + 36
      <4>1. SpareOfParts(36) \/ SpareOfParts(196) \/ SpareOfParts(204)
        BY <2>5 DEF Room
      <4> QED
        BY <3>4, <4>1 DEF SpareOfParts
    <3>8. 20 * (2 * (x + z) - (y + v)) >= 8 * (x + z) + 240 - d
      BY <3>6, <3>7 DEF Enough
    <3>9. x + z \in Int /\ y + v \in Int /\ x + z <= TotalSize
      BY <3>3, <3>5
    <3>10. y + v <= 2 * TotalSize
      BY <2>1, <2>2, <3>8, <3>9, EnoughFits
    <3> QED
      BY <3>5, <3>10
  <2>6. CASE InTree
    <3> DEFINE size == ThisChunk.size
               padded == Padded(ThisChunk.size)
               u == 8 + size
               v == 16 + size + 3 * (i - 1) + padded
               x == ThisChunk.at
               y == Last.at - 8 - padded
    <3>1. /\ c \in 1..Len(file) /\ ThisChunk.kind = "SLDC"
          /\ x \in Nat /\ size \in Nat /\ size >= 4
          /\ Last.at \in Nat /\ i \in Nat /\ count \in Nat
          /\ padded \in Nat /\ padded <= size + 3
          /\ 33 * (i - 1) <= size - 4 /\ 2 * size <= TotalSize /\ count <= size - 4
          /\ outpos = Last.at + 12 + count + 3 * (i - 1)
      BY <2>6, InTreeFacts
    <3>2. x + u <= TotalSize
      <4>1. End(ThisChunk) = x + u
        <5>1. \A a, b \in Nat : a + 8 + b = a + (8 + b)
          OBVIOUS
        <5> QED
          BY <3>1, <5>1 DEF End
      <4>2. Inside
        BY <2>6 DEF InTree, Inside
      <4> QED
        BY <2>4, <4>1, <4>2
    <3>3. Enough(x, y, d, e) /\ d <= 672 /\ e <= 432
      BY <2>1, <2>2, <2>6, <3>1 DEF Room, Spare
    <3>4. 20 * (2 * u - v) >= 8 * u - (116 + 5 * TotalSize)
          /\ 12 * (2 * u - v) >= 8 * u - (116 + 5 * TotalSize)
      <4> HIDE DEF size, padded
      <4> QED
        BY <2>1, <3>1, TreeTakes
    <3>5. x \in Int /\ y \in Int /\ u \in Int /\ v \in Int
      <4>1. Last.at \in Int /\ padded \in Int /\ size \in Int /\ i - 1 \in Int
        BY <3>1
      <4> HIDE DEF size, padded
      <4> QED
        BY <3>1, <4>1
    <3>6. outpos <= y + v
      <4>1. \A a, b \in Int : a + 12 + count + 3 * b
                <= (a - 8 - padded) + (16 + size + 3 * b + padded)
        <5>1. count \in Int /\ size \in Int /\ padded \in Int /\ count <= size - 4
          BY <3>1
        <5> HIDE DEF size, padded
        <5> QED
          BY <5>1
      <4>2. Last.at \in Int /\ i - 1 \in Int
        BY <3>1
      <4>3. Last.at + 12 + count + 3 * (i - 1) <= y + v
        BY <4>1, <4>2
      <4> QED
        BY <3>1, <4>3
    <3> HIDE DEF u, v, x, y
    <3>7. \/ 20 * (2 * (x + u) - (y + v)) >= 8 * (x + u) + 240 - (d + (116 + 5 * TotalSize))
          \/ 12 * (2 * (x + u) - (y + v)) >= 8 * (x + u) + 32 - (e + (116 + 5 * TotalSize))
      BY <2>1, <3>3, <3>4, <3>5 DEF Enough
    <3>8. /\ d + (116 + 5 * TotalSize) \in Nat
          /\ d + (116 + 5 * TotalSize) <= 788 + 5 * TotalSize
          /\ e + (116 + 5 * TotalSize) \in Nat
          /\ e + (116 + 5 * TotalSize) <= 548 + 5 * TotalSize
      BY <2>1, <3>3
    <3>9. x + u \in Int /\ y + v \in Int
      BY <3>5
    <3>10. y + v <= 2 * TotalSize
      BY <2>1, <3>2, <3>7, <3>8, <3>9, EnoughFits
    <3> QED
      BY <2>1, <3>6, <3>9, <3>10
  <2> QED
    BY <2>3, <2>5, <2>6 DEF IInv, TypeOK, BetweenChunks, InTree, states
<1> QED
  BY <1>1, Invariant, RoomIsKept, PTL
=================================================================================
