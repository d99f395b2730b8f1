-------------------------------- MODULE VpWriter --------------------------------
(***************************************************************************)
(* write_vp_file, one stdio write at a time, and the reader's side         *)
(* (read_vp_header, load_vp_index, load_vp_file).                          *)
(*                                                                         *)
(* The archive is header | data | index.  Adding a file rewrites the       *)
(* header first, then puts the data where the OLD index began, then writes *)
(* the whole index behind it.  So at every moment between two writes some  *)
(* part of the archive is stale, and what was added before must survive.   *)
(*                                                                         *)
(* Addresses are the file's own; a cell is one unit of data or one unit of *)
(* an index entry, and carries what it is a part of.                       *)
(***************************************************************************)
EXTENDS Integers, Sequences

CONSTANTS
    Names,          \* names; two files of one name have the same bytes, others differ
    FileSizes,      \* sizes of the data passed to write_vp_file
    MaxFiles,       \* the caller's malloc(sizeof(vp_index_entry) * numfiles)
    EntrySize,      \* 44 in the code
    SeekMax         \* the largest offset fseek accepts: LONG_MAX, 2^31 - 1 where long has 32 bits

HeaderSize == 16
Unsigned == 2 * (SeekMax + 1)       \* offsets are unsigned ints of the same width as long

ASSUME WriterAssumption ==
    /\ FileSizes \subseteq Nat
    /\ MaxFiles \in Nat
    /\ EntrySize \in Nat \ {0}
    /\ SeekMax \in Nat /\ SeekMax >= HeaderSize

VARIABLES
    pc,             \* where in write_vp_file: "idle" when no call is running
    header,         \* the header on disk
    disk,           \* the file behind the header: address -> cell
    pos,            \* the FILE's position
    index,          \* the caller's array, up to num_files
    index_offset,   \* *index_offset
    next_entry      \* i of the loop over the index

vars == <<pc, header, disk, pos, index, index_offset, next_entry>>

num_files == Len(index)
-----------------------------------------------------------------------------
DataCell(name, k) == <<"data", name, k>>
EntryCell(e, k) == <<"entry", e, k>>

\* What the caller passes for a file.
BytesOf(name, n) == [k \in 1..n |-> DataCell(name, k)]

\* fseek: an offset that does not fit into a long fails and leaves the position alone.
Seek(from, to) == IF to <= SeekMax THEN to ELSE from

\* fwrite of n units at a position.
Write(f, at, n, Cell(_)) ==
    [a \in DOMAIN f \cup at..(at + n - 1) |->
        IF a \in at..(at + n - 1) THEN Cell(a - at + 1) ELSE f[a]]

\* What callers pass: a folder (0, 0), or a file with a timestamp, possibly empty.
IsFolder(e) == e.filesize = 0 /\ e.timestamp = 0

\* fopen(.., "wb"): the file is empty, read_vp_header refuses it.
NoHeader == [index_offset |-> 0, num_files |-> 0]

Init ==
    /\ pc = "idle"
    /\ header = NoHeader
    /\ disk = [a \in {} |-> 0]
    /\ pos = 0
    /\ index = <<>>
    /\ index_offset = HeaderSize
    /\ next_entry = 1

\* index[*num_files] = ...; (*num_files)++
Register(e) ==
    /\ pc = "idle"
    /\ num_files < MaxFiles
    /\ index' = Append(index, e)
    /\ pc' = "header"
    /\ UNCHANGED <<header, disk, pos, index_offset, next_entry>>

BeginFolder ==
    \E n \in Names : Register([name |-> n, filesize |-> 0, timestamp |-> 0, offset |-> 0])

BeginFile ==
    \E n \in Names, s \in FileSizes :
        Register([name |-> n, filesize |-> s, timestamp |-> 1, offset |-> index_offset])

Current == index[num_files]

\* Mutant of Announced: the header says where the index was before this call.
AnnouncedOld == index_offset

\* The index offset the header announces: behind the data that is not there yet.
Announced == (index_offset + Current.filesize) % Unsigned

\* Mutant of Advanced: *index_offset is not moved.
NotAdvanced == index_offset

\* (*index_offset) += filesize, once the data is there.
Advanced == (index_offset + Current.filesize) % Unsigned

WriteHeader ==
    /\ pc = "header"
    /\ header' = [index_offset |-> Announced, num_files |-> num_files]
    /\ pos' = HeaderSize
    /\ pc' = "data"
    /\ UNCHANGED <<disk, index, index_offset, next_entry>>

\* fseek to where the old index began and write the data over it; a folder has none.
WriteData ==
    /\ pc = "data"
    /\ LET start == Seek(pos, index_offset)
       IN /\ disk' = Write(disk, start, Current.filesize, LAMBDA k : DataCell(Current.name, k))
          /\ pos' = start + Current.filesize
    /\ index_offset' = Advanced
    /\ next_entry' = 1
    /\ pc' = "index"
    /\ UNCHANGED <<header, index>>

WriteEntry ==
    /\ pc = "index"
    /\ disk' = Write(disk, pos, EntrySize, LAMBDA k : EntryCell(index[next_entry], k))
    /\ pos' = pos + EntrySize
    /\ next_entry' = next_entry + 1
    /\ pc' = IF next_entry = num_files THEN "idle" ELSE "index"
    /\ UNCHANGED <<header, index, index_offset>>

Next == BeginFolder \/ BeginFile \/ WriteHeader \/ WriteData \/ WriteEntry

Spec == Init /\ [][Next]_vars
-----------------------------------------------------------------------------
(* The reader *)

\* The data cells from an offset on; load_vp_file rewinds before it seeks.
DataAt(offset, n) ==
    [k \in 1..n |-> LET a == Seek(0, offset) + k - 1
                    IN IF a \in DOMAIN disk THEN disk[a] ELSE <<"nothing">>]

\* What a reader gets for an index entry.
ContentOf(e) ==
    [name |-> e.name, filesize |-> e.filesize, timestamp |-> e.timestamp,
     data |-> IF IsFolder(e) THEN <<>> ELSE DataAt(e.offset, e.filesize)]

\* load_vp_index: entry i of the index the header points at, if one is there.
IsEntryAt(a, e) == \A k \in 1..EntrySize :
                       a + k - 1 \in DOMAIN disk /\ disk[a + k - 1] = EntryCell(e, k)

LoadedFrom(i) == Seek(0, header.index_offset) + (i - 1) * EntrySize

Readable == \A i \in 1..header.num_files : \E j \in 1..num_files : IsEntryAt(LoadedFrom(i), index[j])

Loaded ==
    [i \in 1..header.num_files |->
        ContentOf(index[CHOOSE j \in 1..num_files : IsEntryAt(LoadedFrom(i), index[j])])]

Unreadable == <<[name |-> "unreadable", filesize |-> 0, timestamp |-> 0, data |-> <<>>]>>

\* What a reader of the finished file would get, and, while a call is running, what the
\* entries registered before it stand for.
Visible ==
    IF pc = "idle"
    THEN IF Readable THEN Loaded ELSE Unreadable
    ELSE [i \in 1..(num_files - 1) |-> ContentOf(index[i])]

AllContent ==
    {[name |-> n, filesize |-> 0, timestamp |-> 0, data |-> <<>>] : n \in Names}
    \cup {[name |-> n, filesize |-> s, timestamp |-> 1,
           data |-> BytesOf(n, s)] : n \in Names, s \in FileSizes}

Archive == INSTANCE VpArchive WITH Content <- AllContent, archive <- Visible
-----------------------------------------------------------------------------
(* Properties *)

Entry == [name : Names, filesize : Nat, timestamp : {0, 1}, offset : Nat]

\* Every variable has its type.
TypeOK ==
    /\ pc \in {"idle", "header", "data", "index"}
    /\ index \in Seq(Entry)
    /\ num_files \in 0..MaxFiles
    /\ pc # "idle" => num_files >= 1
    /\ index_offset \in Nat /\ pos \in Nat
    /\ next_entry \in Nat \ {0}
    /\ \A a \in DOMAIN disk : a \in Nat

\* The archive stays where a signed seek can reach.
Seekable == \A i \in 1..num_files : index[i].offset + index[i].filesize <= SeekMax

\* The entries whose data has been written.
Stored == IF pc \in {"header", "data"} THEN num_files - 1 ELSE num_files

\* vp.h says that write_vp_file "Writes a new file to the VP" and names no size limit:
\* the bytes of every file added so far should be where its entry says.
DataStays ==
    \A i \in 1..Stored :
        \A k \in 1..index[i].filesize :
            LET a == index[i].offset + k - 1
            IN a \in DOMAIN disk /\ disk[a] = DataCell(index[i].name, k)

\* Below the limit of fseek they are, after every single write of every later call: the
\* data goes over the old index, never over older data.
DataIntact == Seekable => DataStays

\* Between two calls the header, the index and the data on disk agree: a reader gets
\* back exactly what was added, in order, and each call adds one entry (vp.h: "Writes a
\* new file to the VP").
ImplementsArchive == Archive!Spec
=================================================================================
