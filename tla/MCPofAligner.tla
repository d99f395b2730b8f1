------------------------------ MODULE MCPofAligner ------------------------------
(***************************************************************************)
(* The files with which TLC runs align_pof: one chunk of a usual size, and *)
(* up to two more of every kind.                                           *)
(***************************************************************************)
EXTENDS PofAligner, SequencesExt

Chunk(kind, size) ==
    [kind |-> kind, table |-> "none", at |-> 0, size |-> size, parts |-> <<>>]

\* The parts at their addresses, relative to the chunk.
Laid(kind, table, parts) ==
    LET at[k \in 1..(Len(parts) + 1)] ==
            IF k = 1 THEN PartsAt(kind) ELSE at[k - 1] + InLength(parts[k - 1])
    IN [kind |-> kind, table |-> table, at |-> 0, size |-> at[Len(parts) + 1] - 8,
        parts |-> [k \in 1..Len(parts) |-> [parts[k] EXCEPT !.at = at[k]]]]

\* Each of the six with two elements, or two points, and one without any.
TableChunks ==
    {Laid("table", "TXTR", parts) : parts \in {<<>>, Txtr(3) \o Txtr(4)}} \cup
    {Laid("table", "FUEL", Fuel(2, 1) \o Fuel(0, 0)),
     Laid("table", "GLOW", Glow(5, 0) \o Glow(4, 2)),
     Laid("table", "SPCL", Spcl(1, 8) \o Spcl(0, 3)),
     Laid("table", "DOCK", Dock(6, 2, 1) \o Dock(8, 0, 2)),
     Laid("table", "PATH", Path(7, 0, Vert(2) \o Vert(0)) \o Path(0, 5, <<>>))}

Objects == {Obj(3, 0, 21, 8), Obj(4, 5, 24, 40), Obj(0, 8, 23, 4)}

\* A leaf; a node with two; one whose front node has two and one whose back node has;
\* all four between the node and its back node that come in question.
Trees ==
    {<<Leaf(33)>>,
     <<Split(70), Leaf(33), Leaf(37)>>,
     <<Split(144), Split(74), Leaf(37), Leaf(33), Leaf(33)>>,
     <<Split(70), Leaf(33), Split(70), Leaf(33), Leaf(41)>>}

Chunks ==
    {Chunk("other", n) : n \in {0, 5, 6, 7}} \cup {Chunk("PINF", n) : n \in {8, 9}}
    \cup {Chunk("SLC2", 40)} \cup TableChunks
    \cup {Laid("OBJ2", "none", parts) : parts \in Objects}
    \cup {Laid("SLDC", "none", parts) : parts \in Trees}

Moved(chunk, by) ==
    [chunk EXCEPT !.at = by,
                  !.parts = [k \in 1..Len(chunk.parts) |->
                                [chunk.parts[k] EXCEPT !.at = by + chunk.parts[k].at]]]

\* The chunks, one behind the other.
FileOf(chunks) ==
    LET at[k \in 1..(Len(chunks) + 1)] ==
            IF k = 1 THEN 8 ELSE at[k - 1] + 8 + chunks[k - 1].size
    IN [k \in 1..Len(chunks) |-> Moved(chunks[k], at[k])]

AllFiles ==
    {<<>>} \cup {FileOf(<<Chunk("other", 225)>> \o chunks) : chunks \in BoundedSeq(Chunks, 2)}
================================================================================
