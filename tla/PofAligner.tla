------------------------------- MODULE PofAligner --------------------------------
(***************************************************************************)
(* align_pof: one pass over the chunks of a .pof file of version 2117 that *)
(* copies them to a second buffer, pads every string and chunk to four     *)
(* bytes, and puts an SLC2 chunk, whose nodes are three bytes larger,      *)
(* behind every SLDC chunk.                                                *)
(*                                                                         *)
(* The code keeps a position in either buffer, a count of the bytes        *)
(* written (the size it returns) and several sizes it patches in           *)
(* afterwards, and advances each of them by hand in every branch.  The     *)
(* model keeps all of them and leaves the bytes away: a file is its chunks *)
(* and their parts, with the addresses at which they begin.                *)
(***************************************************************************)
EXTENDS Integers, Sequences, FiniteSets

CONSTANT Files      \* the files a behaviour may convert

VARIABLES
    file,           \* the one of this behaviour
    pc,
    c,              \* the chunk
    i,              \* the part of it
    inpos,          \* pof_bytes, or bsp_data inside of an OBJ2
    outpos,         \* aligned_pof
    copied,
    new_sizes,
    ini_cp,
    count,
    new_tree_size,
    p,              \* the walk from a split node to the node behind it
    newback,
    headers,        \* the chunks written so far: where they are and what size they say
    nodes           \* the nodes of the current SLC2: where they are, sizes and offsets

positions == <<inpos, outpos, copied>>
tree == <<count, new_tree_size, p, newback, nodes>>
vars == <<file, pc, c, i, positions, new_sizes, ini_cp, tree, headers>>
-----------------------------------------------------------------------------
(* Files *)

Part(kind, n) == [kind |-> kind, at |-> 0, n |-> n, back |-> 0]
Fixed(n) == Part("fixed", n)
String(n) == Part("string", n)

Number == Part("number", 4)
Record(n) == Part("record", n)

\* What the loops read for one element of a chunk: strings, numbers, records and lists.
Fuel(name, glows) == <<Number, String(name), Part("glows", 28 * glows)>>
Glow(name, num_glows) == <<Record(28), String(name), Part("glows", 28 * num_glows)>>
Spcl(name, properties) == <<String(name), String(properties), Record(16)>>
Txtr(name) == <<String(name)>>
Dock(name, paths, docks) ==
    <<String(name), Number, Part("paths", 4 * paths), Number, Part("docks", 24 * docks)>>
Vert(turrets) == <<Record(20), Part("turrets", 4 * turrets)>>
Path(name, parent, verts) == <<String(name), String(parent), Number>> \o verts

\* A tree node; back: how far behind it the back node begins.
Split(back) == [kind |-> "split", at |-> 0, n |-> 37, back |-> back]
Leaf(n) == Part("leaf", n)

\* Behind the first 68 bytes, then BSP data of which DEFPOINTS alone may be unaligned.
Obj(name, properties, defpoints, n) ==
    <<String(name), Part("property", properties), Fixed(16), Part("points", defpoints),
      Part("bsp", n), Part("bsp", 4)>>

\* How many bytes of the input a part takes: a string comes with its length.
InLength(part) == IF part.kind \in {"string", "property"} THEN 4 + part.n ELSE part.n

Kinds == {"table", "SLDC", "SLC2", "OBJ2", "PINF", "other"}
Tables == {"FUEL", "GLOW", "SPCL", "TXTR", "DOCK", "PATH"}

TableParts == {"string", "number", "record", "glows", "paths", "docks", "turrets"}
PartKinds == TableParts \cup {"fixed", "property", "points", "bsp", "split", "leaf"}

\* What follows what in a table.
After ==
    [FUEL |-> {<<"number", "string">>, <<"string", "glows">>, <<"glows", "number">>},
     GLOW |-> {<<"record", "string">>, <<"string", "glows">>, <<"glows", "record">>},
     SPCL |-> {<<"string", "string">>, <<"string", "record">>, <<"record", "string">>},
     TXTR |-> {<<"string", "string">>},
     DOCK |-> {<<"string", "number">>, <<"number", "paths">>, <<"paths", "number">>,
               <<"number", "docks">>, <<"docks", "string">>},
     PATH |-> {<<"string", "string">>, <<"string", "number">>, <<"number", "record">>,
               <<"number", "string">>, <<"record", "turrets">>, <<"turrets", "record">>,
               <<"turrets", "string">>}]

\* char name[260]: every string is copied into it as well, whatever its length.
NameSize == 260

\* Where the parts of a chunk begin.
PartsAt(kind) == IF kind = "OBJ2" THEN 68 ELSE 12

HasParts(chunk) == chunk.kind \in {"table", "SLDC", "OBJ2"}

End(chunk) == chunk.at + 8 + chunk.size

PartRecords == [kind : PartKinds, at : Nat, n : Nat, back : Nat]
ChunkRecords == [kind : Kinds, table : Tables \cup {"none"}, at : Nat, size : Nat,
                 parts : Seq(PartRecords)]

PartOK(kind, part) ==
    /\ kind = "table" => part.kind \in TableParts
    /\ kind = "OBJ2" => part.kind \in {"fixed", "string", "property", "points", "bsp"}
    /\ kind = "SLDC" => part.kind \in {"split", "leaf"}
    /\ part.kind \in {"string", "property"} => part.n <= NameSize
    /\ part.kind \in {"fixed", "bsp"} \cup (TableParts \ {"string"}) => part.n % 4 = 0
    /\ part.kind = "bsp" => part.n > 0
    /\ part.kind = "points" => part.n >= 20
    /\ part.kind = "leaf" => part.n >= 33 /\ part.n % 4 = 1
    /\ part.kind = "split" => part.n = 37

\* The part begins where the one before it ends, and the last one ends with the chunk.
PartsOK(chunk) ==
    LET n == Len(chunk.parts)
    IN /\ \A k \in 1..n : PartOK(chunk.kind, chunk.parts[k])
       /\ n = 0 => PartsAt(chunk.kind) = 8 + chunk.size
       /\ n > 0 => /\ chunk.parts[1].at = chunk.at + PartsAt(chunk.kind)
                   /\ chunk.parts[n].at + InLength(chunk.parts[n]) = End(chunk)
       /\ \A k \in 1..(n - 1) :
            chunk.parts[k + 1].at = chunk.parts[k].at + InLength(chunk.parts[k])
       /\ \A j, k \in 1..n : j < k => chunk.parts[j].at <= chunk.parts[k].at
       /\ \A k \in 1..n : chunk.parts[k].kind = "split" =>
            \E j \in k..n : chunk.parts[j].at = chunk.parts[k].at + chunk.parts[k].back

\* The lengths of what is no string: fixed, or a multiple of that of an element.
ElementOK(table, part) ==
    /\ part.kind = "number" => part.n = 4
    /\ part.kind = "record" => part.n = CASE table = "GLOW" -> 28
                                          [] table = "SPCL" -> 16
                                          [] OTHER -> 20
    /\ part.kind = "glows" => part.n % 28 = 0
    /\ part.kind = "docks" => part.n % 24 = 0

TableOK(chunk) ==
    LET n == Len(chunk.parts)
    IN /\ chunk.table \in Tables
       /\ \A k \in 1..n : ElementOK(chunk.table, chunk.parts[k])
       /\ \A k \in 1..(n - 1) :
            <<chunk.parts[k].kind, chunk.parts[k + 1].kind>> \in After[chunk.table]

\* An object has one text of properties.
OneProperty(chunk) ==
    \A j, k \in 1..Len(chunk.parts) :
        chunk.parts[j].kind = "property" /\ chunk.parts[k].kind = "property" => j = k

ChunkOK(chunk) ==
    /\ chunk.kind = "SLC2" => chunk.size % 4 = 0
    /\ HasParts(chunk) => PartsOK(chunk)
    /\ chunk.kind = "table" => TableOK(chunk)
    /\ chunk.kind = "OBJ2" => OneProperty(chunk)

\* A file the format allows, as the code understands the format.
FileOK(f) ==
    /\ f \in Seq(ChunkRecords)
    /\ \A k \in 1..Len(f) : ChunkOK(f[k])
    /\ Len(f) > 0 => f[1].at = 8
    /\ \A k \in 1..(Len(f) - 1) : f[k + 1].at = End(f[k])

ASSUME FilesAssumption == \A f \in Files : FileOK(f)

TotalSize == IF file = <<>> THEN 8 ELSE End(file[Len(file)])
-----------------------------------------------------------------------------
\* The version is behind us: magic and version are copied, the latter as 2200.
Init ==
    /\ file \in Files
    /\ pc = "chunk"
    /\ c = 1
    /\ i = 1
    /\ inpos = 8 /\ outpos = 8 /\ copied = 8
    /\ new_sizes = 0
    /\ ini_cp = 0
    /\ count = 0 /\ new_tree_size = 0
    /\ p = 0 /\ newback = 0
    /\ headers = <<>>
    /\ nodes = <<>>

ThisChunk == file[c]
ThisPart == ThisChunk.parts[i]

\* Mutant of Padded: the remainder is added instead of what is missing.
PaddedByRemainder(n) == n + (n % 4)

Padded(n) == IF n % 4 # 0 THEN n + 4 - (n % 4) ELSE n

Header(at, size) == [at |-> at, size |-> size]

\* memcpy(size_offset, ..): the size of the last chunk, when it is known.
Patched(size) == [headers EXCEPT ![Len(headers)].size = size]

\* The position is where a chunk begins.
AtChunk(kind) ==
    /\ pc = "chunk"
    /\ inpos < TotalSize
    /\ c <= Len(file) /\ inpos = ThisChunk.at
    /\ ThisChunk.kind = kind

-----------------------------------------------------------------------------
(* Chunks that are copied whole *)

CopyChunk(newsize) ==
    /\ headers' = Append(headers, Header(outpos, newsize))
    /\ inpos' = inpos + ThisChunk.size + 8
    /\ outpos' = outpos + newsize + 8
    /\ copied' = copied + newsize + 8
    /\ c' = c + 1
    /\ UNCHANGED <<file, pc, i, new_sizes, ini_cp, tree>>

\* Basic chunk alignment.
CopyOther == AtChunk("other") /\ CopyChunk(Padded(ThisChunk.size))

CopySLC2 == AtChunk("SLC2") /\ CopyChunk(ThisChunk.size)

\* 34 bytes of text in front of the old text.
CopyPINF == AtChunk("PINF") /\ CopyChunk(Padded(ThisChunk.size) + 36)

-----------------------------------------------------------------------------
(* FUEL, GLOW, SPCL, TXTR, DOCK and PATH; OBJ2 and SOBJ *)

\* Both count what they write from here on, each in its own way.
BeginTable ==
    /\ AtChunk("table")
    /\ headers' = Append(headers, Header(outpos, ThisChunk.size))
    /\ pc' = "table"
    /\ i' = 1
    /\ inpos' = inpos + 12
    /\ outpos' = outpos + 12
    /\ copied' = copied + 8
    /\ new_sizes' = 4
    /\ UNCHANGED <<file, c, ini_cp, tree>>

BeginOBJ2 ==
    /\ AtChunk("OBJ2")
    /\ headers' = Append(headers, Header(outpos, ThisChunk.size))
    /\ pc' = "OBJ2"
    /\ i' = 1
    /\ inpos' = inpos + 68
    /\ outpos' = outpos + 68
    /\ copied' = copied + 68
    /\ ini_cp' = copied
    /\ UNCHANGED <<file, c, new_sizes, tree>>

\* The position is where a part begins.
AtPart(where) == pc = where /\ i <= Len(ThisChunk.parts) /\ inpos = ThisPart.at

\* What is written of a part. An OBJ2 without properties gets four zeros.
OutLength(q) ==
    IF q.kind = "string" \/ (q.kind = "property" /\ q.n # 0) THEN 4 + Padded(q.n)
    ELSE IF q.kind = "property" THEN 8
    ELSE IF q.kind = "points" THEN Padded(q.n)
    ELSE q.n

\* The statements a branch has for each part: pof_bytes, aligned_pof and new_sizes are moved
\* by one each, and none of them is shared with another branch.
Move(read, written, counted) ==
    /\ i' = i + 1
    /\ inpos' = inpos + read
    /\ outpos' = outpos + written
    /\ new_sizes' = new_sizes + counted
    /\ UNCHANGED <<file, pc, c, copied, ini_cp, tree, headers>>

AtTable(table, kind) ==
    AtPart("table") /\ ThisChunk.table = table /\ ThisPart.kind = kind

\* How many elements a list has: the number that was read in front of it.
Elements(size) == ThisPart.n \div size

\* A string is its length and its bytes; what is written says newsize instead of i.
CopyFuel ==
    \/ AtTable("FUEL", "number") /\ Move(4, 4, 4)
    \/ /\ AtTable("FUEL", "string")
       /\ Move(4 + ThisPart.n, 4 + Padded(ThisPart.n), Padded(ThisPart.n) + 4)
    \/ /\ AtTable("FUEL", "glows")
       /\ Move(28 * Elements(28), 28 * Elements(28), 28 * Elements(28))

CopyGlow ==
    \/ AtTable("GLOW", "record") /\ Move(28, 28, 28)
    \/ /\ AtTable("GLOW", "string")
       /\ Move(4 + ThisPart.n, 4 + Padded(ThisPart.n), Padded(ThisPart.n) + 4)
    \/ /\ AtTable("GLOW", "glows")
       /\ Move(28 * Elements(28), 28 * Elements(28), 28 * Elements(28))

CopySpcl ==
    \/ /\ AtTable("SPCL", "string")
       /\ Move(4 + ThisPart.n, 4 + Padded(ThisPart.n), Padded(ThisPart.n) + 4)
    \/ AtTable("SPCL", "record") /\ Move(16, 16, 16)

CopyTxtr ==
    /\ AtTable("TXTR", "string")
    /\ Move(4 + ThisPart.n, 4 + Padded(ThisPart.n), Padded(ThisPart.n) + 4)

\* Mutant of CopyDock: new_sizes is not advanced for the dock points.
CopyDockUncounted ==
    \/ /\ AtTable("DOCK", "string")
       /\ Move(4 + ThisPart.n, 4 + Padded(ThisPart.n), Padded(ThisPart.n) + 4)
    \/ AtTable("DOCK", "number") /\ Move(4, 4, 4)
    \/ /\ AtTable("DOCK", "paths")
       /\ Move(4 * Elements(4), 4 * Elements(4), 4 * Elements(4))
    \/ AtTable("DOCK", "docks") /\ Move(24 * Elements(24), 24 * Elements(24), 0)

CopyDock ==
    \/ /\ AtTable("DOCK", "string")
       /\ Move(4 + ThisPart.n, 4 + Padded(ThisPart.n), Padded(ThisPart.n) + 4)
    \/ AtTable("DOCK", "number") /\ Move(4, 4, 4)
    \/ /\ AtTable("DOCK", "paths")
       /\ Move(4 * Elements(4), 4 * Elements(4), 4 * Elements(4))
    \/ /\ AtTable("DOCK", "docks")
       /\ Move(24 * Elements(24), 24 * Elements(24), 24 * Elements(24))

\* Mutant of CopyPath: the turrets of a point are taken for one.
CopyPathOneTurret ==
    \/ /\ AtTable("PATH", "string")
       /\ Move(4 + ThisPart.n, 4 + Padded(ThisPart.n), Padded(ThisPart.n) + 4)
    \/ AtTable("PATH", "number") /\ Move(4, 4, 4)
    \/ AtTable("PATH", "record") /\ Move(20, 20, 20)
    \/ AtTable("PATH", "turrets") /\ Move(4, 4, 4)

CopyPath ==
    \/ /\ AtTable("PATH", "string")
       /\ Move(4 + ThisPart.n, 4 + Padded(ThisPart.n), Padded(ThisPart.n) + 4)
    \/ AtTable("PATH", "number") /\ Move(4, 4, 4)
    \/ AtTable("PATH", "record") /\ Move(20, 20, 20)
    \/ /\ AtTable("PATH", "turrets")
       /\ Move(4 * Elements(4), 4 * Elements(4), 4 * Elements(4))

EndTable ==
    /\ pc = "table"
    /\ i > Len(ThisChunk.parts)
    /\ headers' = Patched(new_sizes)
    /\ copied' = copied + new_sizes
    /\ c' = c + 1
    /\ pc' = "chunk"
    /\ UNCHANGED <<file, i, inpos, outpos, new_sizes, ini_cp, tree>>

CopyOBJ2Part ==
    /\ AtPart("OBJ2")
    /\ i' = i + 1
    /\ inpos' = inpos + InLength(ThisPart)
    /\ outpos' = outpos + OutLength(ThisPart)
    /\ copied' = copied + OutLength(ThisPart)
    /\ UNCHANGED <<file, pc, c, new_sizes, ini_cp, tree, headers>>

\* } while (bsp_data < end); the position in the file moves by the size of the chunk.
EndOBJ2 ==
    /\ pc = "OBJ2"
    /\ inpos >= End(ThisChunk)
    /\ LET size == copied - ini_cp - 8
       IN /\ outpos' = outpos + Padded(size) - size
          /\ headers' = Patched(Padded(size))
    /\ inpos' = End(ThisChunk)
    /\ c' = c + 1
    /\ pc' = "chunk"
    /\ UNCHANGED <<file, i, copied, new_sizes, ini_cp, tree>>

-----------------------------------------------------------------------------
(* SLDC, copied and then converted to SLC2 *)

BeginSLDC ==
    /\ AtChunk("SLDC")
    /\ LET sldc == Padded(ThisChunk.size) + 8
       IN /\ headers' = headers \o <<Header(outpos, Padded(ThisChunk.size)),
                                     Header(outpos + sldc, 0)>>
          /\ outpos' = outpos + sldc + 12
          /\ copied' = copied + sldc + 12
    /\ pc' = "SLDC"
    /\ i' = 1
    /\ inpos' = inpos + 12
    /\ count' = 0 /\ new_tree_size' = 0
    /\ nodes' = <<>>
    /\ UNCHANGED <<file, c, new_sizes, ini_cp, p, newback>>

tree_size == ThisChunk.size - 4

AtNode(kind) == AtPart("SLDC") /\ count < tree_size /\ ThisPart.kind = kind

\* Type and size become two words, so a node is larger by three bytes.
NewNode(size, front, back) == [at |-> outpos, size |-> size, front |-> front, back |-> back]

CopyLeaf ==
    /\ AtNode("leaf")
    /\ nodes' = Append(nodes, NewNode(ThisPart.n + 3, 0, 0))
    /\ inpos' = inpos + ThisPart.n
    /\ outpos' = outpos + 8 + 24 + (ThisPart.n - 29)
    /\ copied' = copied + 8 + 24 + (ThisPart.n - 29)
    /\ count' = count + ThisPart.n
    /\ new_tree_size' = new_tree_size + ThisPart.n + 3
    /\ i' = i + 1
    /\ UNCHANGED <<file, pc, c, new_sizes, ini_cp, p, newback, headers>>

BeginSplit ==
    /\ AtNode("split")
    /\ p' = inpos
    /\ newback' = 0
    /\ pc' = "walk"
    /\ UNCHANGED <<file, c, i, positions, new_sizes, ini_cp, count, new_tree_size, nodes, headers>>

\* Mutant of NewDistance: the sizes of the old nodes are added up.
OldDistance(ns) == newback + ns

NewDistance(ns) == newback + ns + 3

\* while (p < pof_bytes + back - 29): over the nodes between this one and its back node.
Walk ==
    /\ pc = "walk"
    /\ p < inpos + ThisPart.back
    /\ \E k \in 1..Len(ThisChunk.parts) :
         /\ ThisChunk.parts[k].at = p
         /\ p' = p + ThisChunk.parts[k].n
         /\ newback' = NewDistance(ThisChunk.parts[k].n)
    /\ UNCHANGED <<file, pc, c, i, positions, new_sizes, ini_cp, count, new_tree_size, nodes,
                   headers>>

EndSplit ==
    /\ pc = "walk"
    /\ p >= inpos + ThisPart.back
    /\ nodes' = Append(nodes, NewNode(ThisPart.n + 3, ThisPart.n + 3, newback))
    /\ inpos' = inpos + 5 + 24 + 8
    /\ outpos' = outpos + 8 + 24 + 8
    /\ copied' = copied + 8 + 24 + 8
    /\ count' = count + ThisPart.n
    /\ new_tree_size' = new_tree_size + ThisPart.n + 3
    /\ i' = i + 1
    /\ pc' = "SLDC"
    /\ UNCHANGED <<file, c, new_sizes, ini_cp, p, newback, headers>>

\* Mutant of TreeChunk: the chunk gets the size of the tree.
TreeOnly == new_tree_size

\* The size of the chunk counts the tree and the word that holds the size of the tree.
TreeChunk == new_tree_size + 4

EndSLDC ==
    /\ pc = "SLDC"
    /\ count >= tree_size
    /\ headers' = Patched(TreeChunk)
    /\ c' = c + 1
    /\ pc' = "chunk"
    /\ UNCHANGED <<file, i, positions, new_sizes, ini_cp, tree>>

-----------------------------------------------------------------------------
Return ==
    /\ pc = "chunk"
    /\ inpos >= TotalSize
    /\ pc' = "done"
    /\ UNCHANGED <<file, c, i, positions, new_sizes, ini_cp, tree, headers>>

\* The position is inside of a chunk, or of a part, or behind the last one.  The code would take
\* whatever is there for a header; no action is enabled.
Misplaced ==
    \/ pc = "chunk" /\ inpos < TotalSize /\ ~(c <= Len(file) /\ inpos = ThisChunk.at)
    \/ pc = "table" /\ i <= Len(ThisChunk.parts) /\ inpos # ThisPart.at
    \/ pc = "OBJ2" /\ inpos < End(ThisChunk) /\ ~(i <= Len(ThisChunk.parts) /\ inpos = ThisPart.at)
    \/ pc = "SLDC" /\ count < tree_size /\ ~(i <= Len(ThisChunk.parts) /\ inpos = ThisPart.at)
    \/ /\ pc = "walk" /\ p < inpos + ThisPart.back
       /\ \A k \in 1..Len(ThisChunk.parts) : ThisChunk.parts[k].at # p

Finished == pc = "done" /\ UNCHANGED vars

Next ==
    \/ CopyOther \/ CopySLC2 \/ CopyPINF
    \/ BeginTable \/ EndTable
    \/ CopyFuel \/ CopyGlow \/ CopySpcl \/ CopyTxtr \/ CopyDock \/ CopyPath
    \/ BeginOBJ2 \/ CopyOBJ2Part \/ EndOBJ2
    \/ BeginSLDC \/ CopyLeaf \/ BeginSplit \/ Walk \/ EndSplit \/ EndSLDC
    \/ Return \/ Finished

Spec == Init /\ [][Next]_vars
-----------------------------------------------------------------------------
(* Properties *)

states == {"chunk", "table", "OBJ2", "SLDC", "walk", "done"}

\* Types: the positions and sizes are counted in bytes and never negative.
TypeOK ==
    /\ file \in Files
    /\ pc \in states
    /\ c \in 1..(Len(file) + 1)
    /\ i \in Nat
    /\ inpos \in Nat /\ outpos \in Nat /\ copied \in Nat
    /\ new_sizes \in Nat /\ ini_cp \in Nat
    /\ count \in Nat /\ new_tree_size \in Nat
    /\ p \in Nat /\ newback \in Nat
    /\ headers \in Seq([at : Nat, size : Nat])
    /\ nodes \in Seq([at : Nat, size : Nat, front : Nat, back : Nat])

\* align_pof never takes the middle of something for the head of something: whenever it reads
\* a type or a size, the position it has added up is where the format has one.
NeverLost == ~Misplaced

BetweenChunks == pc \in {"chunk", "done"}

\* The chunks written so far lie one behind the other.
Chained ==
    /\ headers # <<>> => headers[1].at = 8
    /\ \A k \in 1..(Len(headers) - 1) : headers[k + 1].at = End(headers[k])

\* A reader of the aligned file finds its chunks: the size that was patched into each header
\* leads to the next one, and that of the last to the end of the file, although the sizes are
\* counted apart from the position.
SizesTell ==
    BetweenChunks => /\ Chained
                     /\ headers # <<>> => End(headers[Len(headers)]) = outpos

\* "Returns the new pof_size" (aligner.h): what is counted is what was written.
CopiedIsOut == BetweenChunks => copied = outpos

\* What the conversion is for: everything is written at a multiple of four bytes, and every
\* chunk says a size that is one.
AllAligned ==
    /\ outpos % 4 = 0
    /\ BetweenChunks => \A k \in 1..Len(headers) : headers[k].size % 4 = 0

\* The offsets of the new tree mean what those of the old one did: the front node is the next
\* one, and the back node is the one that was the back node, though everything in between
\* has grown.
OffsetsFollow ==
    pc \in {"SLDC", "walk"} =>
      \A j, k \in 1..Len(nodes) :
         LET old == ThisChunk.parts
         IN old[j].kind = "split" =>
              /\ k = j + 1 => nodes[j].at + nodes[j].front = nodes[k].at
              /\ old[j].at + old[j].back = old[k].at => nodes[j].at + nodes[j].back = nodes[k].at

\* Mutant of BufferSize: "it has to be bigger than total_size".
BufferOfSameSize(size) == size

\* size * 2, in both callers.
BufferSize(size) == 2 * size

\* A file like those of the game: at most one tree, which is not larger than all the rest,
\* and one PINF, in a file of more than a few chunks' headers.
Proportioned ==
    LET Of(kind) == {k \in 1..Len(file) : file[k].kind = kind}
    IN /\ Cardinality(Of("PINF")) <= 1
       /\ Cardinality(Of("SLDC")) <= 1
       /\ \A k \in Of("SLDC") : 2 * file[k].size <= TotalSize
       /\ TotalSize >= 200

\* The buffer the callers allocate is large enough: a tree is written twice, the second time
\* with larger nodes, and PINF and empty properties grow, but the rest does not double.
OutputFits == Proportioned => outpos <= BufferSize(TotalSize)
=================================================================================
