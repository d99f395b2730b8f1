----------------------------- MODULE VpWriterProofs -----------------------------
(***************************************************************************)
(* write_vp_file never overwrites the data of an earlier entry, for any    *)
(* number of entries, any sizes and any width of the offsets, as long as   *)
(* every offset is one fseek can reach.                                    *)
(***************************************************************************)
EXTENDS VpWriter, SequenceTheorems, TLAPS

\* Everything stored lies below *index_offset, and whatever is written next starts there.
Layout ==
    /\ index_offset <= SeekMax
    /\ pc = "index" => pos >= index_offset
    /\ (pc \in {"header", "data"} /\ ~IsFolder(Current)) => Current.offset = index_offset
    /\ \A i \in 1..Stored :
         index[i].filesize > 0 => index[i].offset + index[i].filesize <= index_offset
    /\ DataStays

IInv == TypeOK /\ (Seekable => Layout)

USE DEF num_files
-----------------------------------------------------------------------------
\* Cell number k of entry i is intact.
CellOK(i, k) ==
    LET a == index[i].offset + k - 1
    IN a \in DOMAIN disk /\ disk[a] = DataCell(index[i].name, k)

\* A write that starts at or behind *index_offset leaves all stored data alone.
LEMMA WriteAbove ==
    ASSUME TypeOK, Layout, NEW at \in Nat, at >= index_offset,
           \A a \in DOMAIN disk : a < at => a \in DOMAIN disk' /\ disk'[a] = disk[a],
           NEW i \in 1..Stored, NEW k \in 1..index[i].filesize, index'[i] = index[i]
    PROVE  CellOK(i, k)'
<1>1. index[i] \in Entry
  BY DEF TypeOK, Stored
<1>2. CellOK(i, k)
  BY DEF Layout, DataStays, CellOK
<1>3. index[i].offset + index[i].filesize <= index_offset
  BY <1>1, SMT DEF Layout, Entry
<1>4. index[i].offset + k - 1 < at
  BY <1>1, <1>3, SMT DEF Entry, TypeOK
<1> QED
  BY <1>2, <1>4 DEF CellOK

\* Unsigned arithmetic is exact below the width.
LEMMA ModFacts ==
    ASSUME NEW x \in Nat, NEW u \in Nat \ {0}
    PROVE  x % u \in Nat /\ (x < u => x % u = x)
  BY SMT

LEMMA RegisterStep ==
    ASSUME IInv, NEW e \in Entry, Register(e),
           IsFolder(e) \/ e.offset = index_offset
    PROVE  IInv'
<1> USE DEF IInv
<1>1. /\ pc = "idle" /\ pc' = "header" /\ index' = Append(index, e)
      /\ UNCHANGED <<header, disk, pos, index_offset, next_entry>>
      /\ index \in Seq(Entry) /\ Len(index) \in Nat /\ Len(index) < MaxFiles
  BY DEF Register, TypeOK
<1>2. /\ Len(index') = Len(index) + 1 /\ index' \in Seq(Entry)
      /\ index'[Len(index')] = e
      /\ \A i \in 1..Len(index) : index'[i] = index[i]
  BY <1>1, SMT
<1>3. TypeOK'
  BY <1>1, <1>2, WriterAssumption, SMT DEF TypeOK, WriterAssumption
<1>4. Seekable' => Layout'
  <2> SUFFICES ASSUME Seekable' PROVE Layout'
    OBVIOUS
  <2>1. Seekable /\ Layout
    BY <1>1, <1>2, SMT DEF Seekable
  <2>2. Stored' = Stored /\ Stored = Len(index) /\ Current' = e
    BY <1>1, <1>2, SMT DEF Stored, Current
  <2>3. DataStays'
    BY <1>1, <1>2, <2>1, <2>2 DEF Layout, DataStays
  <2> QED
    BY <1>1, <1>2, <2>1, <2>2, <2>3, SMT DEF Layout, IsFolder
<1> QED
  BY <1>3, <1>4

LEMMA HeaderStep ==
    ASSUME IInv, WriteHeader
    PROVE  IInv'
<1> USE DEF IInv
<1>1. /\ pc = "header" /\ pc' = "data" /\ pos' = HeaderSize
      /\ UNCHANGED <<disk, index, index_offset, next_entry>>
  BY DEF WriteHeader
<1>2. TypeOK'
  BY <1>1, SMT DEF TypeOK, HeaderSize
<1>3. Seekable' => Layout'
  BY <1>1 DEF Seekable, Layout, DataStays, Stored, Current, IsFolder
<1> QED
  BY <1>2, <1>3

\* Below SeekMax the seek succeeds and the sum of the offset and the size does not wrap.
LEMMA DataFits ==
    ASSUME IInv, WriteData, Seekable
    PROVE  /\ Seek(pos, index_offset) = index_offset
           /\ (index_offset + Current.filesize) % Unsigned = index_offset + Current.filesize
           /\ index_offset + Current.filesize <= SeekMax
<1>1. Layout /\ pc = "data"
  BY DEF IInv, WriteData
<1>2. /\ index \in Seq(Entry) /\ Len(index) \in Nat /\ Len(index) >= 1
      /\ index_offset \in Nat
  BY <1>1, SMT DEF IInv, TypeOK
<1>3. Current.filesize \in Nat
  <2>1. Current \in Entry
    BY <1>2, SMT DEF Current
  <2> QED
    BY <2>1 DEF Entry
<1>4. index_offset + Current.filesize <= SeekMax
  <2>1. CASE IsFolder(Current)
    BY <1>1, <1>2, <2>1, SMT DEF IsFolder, Layout
  <2>2. CASE ~IsFolder(Current)
    BY <1>1, <1>2, <2>2, SMT DEF Layout, Seekable, Current
  <2> QED
    BY <2>1, <2>2
<1>5. index_offset + Current.filesize \in Nat /\ Unsigned \in Nat \ {0}
      /\ index_offset + Current.filesize < Unsigned
  BY <1>2, <1>3, <1>4, WriterAssumption, SMT DEF WriterAssumption, Unsigned
<1>6. (index_offset + Current.filesize) % Unsigned = index_offset + Current.filesize
  BY <1>5, ModFacts
<1>7. Seek(pos, index_offset) = index_offset
  BY <1>1 DEF Seek, Layout
<1> QED
  BY <1>4, <1>6, <1>7

LEMMA DataStep ==
    ASSUME IInv, WriteData
    PROVE  IInv'
<1> USE DEF IInv
<1> DEFINE start == Seek(pos, index_offset)
           n == Current.filesize
<1>1. /\ pc = "data" /\ pc' = "index" /\ UNCHANGED <<header, index>> /\ next_entry' = 1
      /\ pos' = start + n /\ index_offset' = (index_offset + n) % Unsigned
      /\ disk' = [a \in DOMAIN disk \cup start..(start + n - 1) |->
                    IF a \in start..(start + n - 1)
                    THEN DataCell(Current.name, a - start + 1) ELSE disk[a]]
  BY DEF WriteData, Advanced, Write
<1>2. /\ index \in Seq(Entry) /\ Len(index) \in Nat /\ Len(index) >= 1
      /\ Current \in Entry /\ pos \in Nat /\ index_offset \in Nat
  <2>1. index \in Seq(Entry) /\ Len(index) \in Nat /\ Len(index) >= 1
        /\ pos \in Nat /\ index_offset \in Nat
    BY <1>1, SMT DEF TypeOK
  <2> QED
    BY <2>1, SMT DEF Current
<1>3. n \in Nat /\ start \in Nat
  BY <1>2, SMT DEF Entry, Seek
<1>4. Unsigned \in Nat /\ SeekMax < Unsigned
  BY WriterAssumption, SMT DEF WriterAssumption, Unsigned
<1> HIDE DEF start
<1>5. TypeOK'
  <2>1. \A a \in DOMAIN disk' : a \in Nat
    BY <1>1, <1>3, SMT DEF TypeOK
  <2>2. index_offset' \in Nat /\ pos' \in Nat
    <3>1. index_offset + n \in Nat /\ start + n \in Nat /\ Unsigned \in Nat \ {0}
      BY <1>2, <1>3, <1>4, WriterAssumption, SMT DEF WriterAssumption
    <3> QED
      BY <1>1, <3>1, ModFacts
  <2> QED
    BY <1>1, <2>1, <2>2, SMT DEF TypeOK
<1>6. Seekable' => Layout'
  <2> SUFFICES ASSUME Seekable' PROVE Layout'
    OBVIOUS
  <2>1. Seekable /\ Layout
    BY <1>1 DEF Seekable
  <2>2. start = index_offset
    BY <2>1, DataFits DEF start
  <2>3. index_offset + n <= SeekMax
    BY <2>1, DataFits
  <2>4. index_offset' = index_offset + n
    BY <1>1, <2>1, DataFits
  <2>5. Stored = Len(index) - 1 /\ Stored' = Len(index)
    BY <1>1 DEF Stored
  <2>6. \A i \in 1..Stored' : index'[i].filesize > 0 =>
           index'[i].offset + index'[i].filesize <= index_offset'
    <3> SUFFICES ASSUME NEW i \in 1..Len(index), index[i].filesize > 0
                 PROVE  index[i].offset + index[i].filesize <= index_offset + n
      BY <1>1, <2>4, <2>5
    <3>1. index[i] \in Entry
      BY <1>2
    <3>2. CASE i <= Len(index) - 1
      <4>1. index[i].offset + index[i].filesize <= index_offset
        BY <1>2, <2>1, <2>5, <3>2, SMT DEF Layout
      <4> QED
        BY <1>2, <1>3, <3>1, <4>1, SMT DEF Entry
    <3>3. CASE i = Len(index)
      BY <1>1, <1>2, <2>1, <3>1, <3>3, SMT DEF Layout, Current, IsFolder, Entry
    <3> QED
      BY <1>2, <3>2, <3>3, SMT
  <2>7. DataStays'
    <3> SUFFICES ASSUME NEW i \in 1..Len(index), NEW k \in 1..index[i].filesize
                 PROVE  CellOK(i, k)'
      BY <1>1, <2>5 DEF DataStays, CellOK
    <3>1. CASE i <= Len(index) - 1
      <4>1. \A a \in DOMAIN disk : a < start => a \in DOMAIN disk' /\ disk'[a] = disk[a]
        BY <1>1, <1>3, SMT DEF TypeOK
      <4>2. i \in 1..Stored
        BY <1>2, <2>5, <3>1, SMT
      <4>3. start \in Nat /\ start >= index_offset
        BY <1>2, <1>3, <2>2, SMT
      <4> QED
        BY <1>1, <2>1, <4>1, <4>2, <4>3, WriteAbove
    <3>2. CASE i = Len(index)
      <4>1. Current = index[i] /\ index[i].filesize \in Nat \ {0}
        BY <1>2, <1>3, <3>2, SMT DEF Current
      <4>2. index[i].offset = start
        BY <1>1, <2>1, <2>2, <4>1, SMT DEF Layout, IsFolder
      <4>3. start + k - 1 \in start..(start + n - 1) /\ (start + k - 1) - start + 1 = k
        BY <1>3, <4>1, SMT
      <4> QED
        BY <1>1, <4>1, <4>2, <4>3 DEF CellOK
    <3> QED
      BY <1>2, <3>1, <3>2, SMT
  <2> QED
    BY <1>1, <1>2, <1>3, <2>2, <2>3, <2>4, <2>6, <2>7, SMT DEF Layout
<1> QED
  BY <1>5, <1>6

LEMMA EntryStep ==
    ASSUME IInv, WriteEntry
    PROVE  IInv'
<1> USE DEF IInv
<1>1. /\ pc = "index" /\ pc' \in {"idle", "index"} /\ UNCHANGED <<header, index, index_offset>>
      /\ pos' = pos + EntrySize /\ next_entry' = next_entry + 1
      /\ disk' = [a \in DOMAIN disk \cup pos..(pos + EntrySize - 1) |->
                    IF a \in pos..(pos + EntrySize - 1)
                    THEN EntryCell(index[next_entry], a - pos + 1) ELSE disk[a]]
  BY DEF WriteEntry, Write
<1>2. pos \in Nat /\ index_offset \in Nat /\ EntrySize \in Nat \ {0}
  BY WriterAssumption DEF TypeOK, WriterAssumption
<1>3. TypeOK'
  <2>1. \A a \in DOMAIN disk' : a \in Nat
    BY <1>1, <1>2, SMT DEF TypeOK
  <2> QED
    BY <1>1, <1>2, <2>1, SMT DEF TypeOK
<1>4. Seekable' => Layout'
  <2> SUFFICES ASSUME Seekable' PROVE Layout'
    OBVIOUS
  <2>1. Seekable /\ Layout
    BY <1>1 DEF Seekable
  <2>2. pos >= index_offset
    BY <1>1, <2>1 DEF Layout
  <2>3. Stored' = Stored
    BY <1>1 DEF Stored
  <2>4. DataStays'
    <3> SUFFICES ASSUME NEW i \in 1..Stored, NEW k \in 1..index[i].filesize
                 PROVE  CellOK(i, k)'
      BY <1>1, <2>3 DEF DataStays, CellOK
    <3>1. \A a \in DOMAIN disk : a < pos => a \in DOMAIN disk' /\ disk'[a] = disk[a]
      BY <1>1, <1>2, SMT DEF TypeOK
    <3> QED
      BY <1>1, <1>2, <2>1, <2>2, <3>1, WriteAbove
  <2> QED
    BY <1>1, <1>2, <2>1, <2>2, <2>3, <2>4, SMT DEF Layout
<1> QED
  BY <1>3, <1>4

\* The strengthened invariant holds in every behaviour.
THEOREM Invariant == Spec => []IInv
<1>1. Init => IInv
  <2> SUFFICES ASSUME Init PROVE IInv
    OBVIOUS
  <2>1. TypeOK
    BY WriterAssumption, SMT DEF Init, TypeOK, HeaderSize, WriterAssumption
  <2>2. Layout
    BY WriterAssumption, SMT DEF Init, Layout, DataStays, Stored, HeaderSize, WriterAssumption
  <2> QED
    BY <2>1, <2>2 DEF IInv
<1>2. IInv /\ [Next]_vars => IInv'
  <2> SUFFICES ASSUME IInv, [Next]_vars PROVE IInv'
    OBVIOUS
  <2>1. index_offset \in Nat
    BY DEF IInv, TypeOK
  <2>2. CASE BeginFolder
    <3>1. PICK nm \in Names :
            Register([name |-> nm, filesize |-> 0, timestamp |-> 0, offset |-> 0])
      BY <2>2 DEF BeginFolder
    <3> DEFINE e == [name |-> nm, filesize |-> 0, timestamp |-> 0, offset |-> 0]
    <3>2. e \in Entry /\ IsFolder(e)
      BY DEF Entry, IsFolder
    <3> HIDE DEF e
    <3> QED
      BY <3>1, <3>2, RegisterStep DEF e
  <2>3. CASE BeginFile
    <3>1. PICK nm \in Names, s \in FileSizes :
            Register([name |-> nm, filesize |-> s, timestamp |-> 1, offset |-> index_offset])
      BY <2>3 DEF BeginFile
    <3> DEFINE e == [name |-> nm, filesize |-> s, timestamp |-> 1, offset |-> index_offset]
    <3>2. e \in Entry /\ e.offset = index_offset
      BY <2>1, WriterAssumption DEF Entry, WriterAssumption
    <3> HIDE DEF e
    <3> QED
      BY <3>1, <3>2, RegisterStep DEF e
  <2>4. CASE WriteHeader
    BY <2>4, HeaderStep
  <2>5. CASE WriteData
    BY <2>5, DataStep
  <2>6. CASE WriteEntry
    BY <2>6, EntryStep
  <2>7. CASE UNCHANGED vars
    BY <2>7 DEF vars, IInv, TypeOK, Seekable, Layout, DataStays, Stored, Current, IsFolder
  <2> QED
    BY <2>2, <2>3, <2>4, <2>5, <2>6, <2>7 DEF Next
<1> QED
  BY <1>1, <1>2, PTL DEF Spec

\* Type correctness of the writer.
THEOREM TypeCorrect == Spec => []TypeOK
<1>1. IInv => TypeOK
  BY DEF IInv
<1> QED
  BY <1>1, Invariant, PTL

\* No write of write_vp_file ever hits the data of an entry added before, in the middle of
\* a call or between calls, for archives of any size that fseek can address.
THEOREM DataNeverOverwritten == Spec => []DataIntact
<1>1. IInv => DataIntact
  BY DEF IInv, DataIntact, Layout
<1> QED
  BY <1>1, Invariant, PTL
-----------------------------------------------------------------------------
(***************************************************************************)
(* The refinement.  Index says how far the index has been written behind   *)
(* *index_offset; with DataStays it makes what a reader sees depend on the *)
(* caller's array alone.                                                   *)
(***************************************************************************)
EntryAt(i) == index_offset + (i - 1) * EntrySize

Written == CASE pc = "idle" -> num_files
             [] pc = "index" -> next_entry - 1
             [] OTHER -> 0

Passed(e) == IsFolder(e) \/ (e.timestamp = 1 /\ e.filesize \in FileSizes)

Headed == [index_offset |-> index_offset, num_files |-> num_files]

Index ==
    /\ pc = "data" => header = [index_offset |-> Announced, num_files |-> num_files]
    /\ pc = "index" => /\ header = Headed
                       /\ next_entry \in 1..num_files
                       /\ pos = EntryAt(next_entry)
    /\ pc = "idle" => IF num_files = 0 THEN header = NoHeader ELSE header = Headed
    /\ \A i \in 1..Written : IsEntryAt(EntryAt(i), index[i])

RInv ==
    /\ \A i \in 1..num_files : Passed(index[i])
    /\ Seekable => Index

\* Entries do not overlap.
LEMMA EntriesApart ==
    ASSUME NEW i \in Nat, NEW j \in Nat, i < j
    PROVE  /\ (i - 1) * EntrySize \in Int /\ (j - 1) * EntrySize \in Int
           /\ (i - 1) * EntrySize + EntrySize <= (j - 1) * EntrySize
           /\ (i + 1 - 1) * EntrySize = (i - 1) * EntrySize + EntrySize
<1>1. EntrySize \in Nat
  BY WriterAssumption DEF WriterAssumption
<1>2. PICK d \in Nat : j = i + 1 + d
  <2>1. j - i - 1 \in Nat /\ j = i + 1 + (j - i - 1)
    BY SMT
  <2> QED
    BY <2>1
<1>3. d * EntrySize >= 0
  BY <1>1, SMT
<1>4. (j - 1) * EntrySize = (i - 1) * EntrySize + EntrySize + d * EntrySize
  BY <1>1, <1>2, SMT
<1> QED
  BY <1>1, <1>3, <1>4, SMT

\* What was registered stays as it was, and fits below SeekMax if all that follows does.
LEMMA RegisterIndex ==
    ASSUME IInv, RInv, NEW e, Register(e), Passed(e)
    PROVE  RInv'
<1>1. /\ pc = "idle" /\ pc' = "header" /\ index' = Append(index, e)
      /\ UNCHANGED <<header, disk, pos, index_offset, next_entry>>
      /\ index \in Seq(Entry) /\ Len(index) \in Nat
  BY DEF Register, IInv, TypeOK
<1>2. /\ Len(index') = Len(index) + 1
      /\ index'[Len(index')] = e
      /\ \A i \in 1..Len(index) : index'[i] = index[i]
  BY <1>1, SMT
<1>3. \A i \in 1..Len(index') : Passed(index'[i])
  BY <1>1, <1>2, SMT DEF RInv
<1>4. Written' = 0
  BY <1>1 DEF Written
<1>5. Index'
  BY <1>1, <1>4, SMT DEF Index
<1> QED
  BY <1>3, <1>5 DEF RInv, Passed, IsFolder

LEMMA HeaderIndex ==
    ASSUME IInv, RInv, WriteHeader
    PROVE  RInv'
<1>1. /\ pc = "header" /\ pc' = "data"
      /\ header' = [index_offset |-> Announced, num_files |-> num_files]
      /\ UNCHANGED <<disk, index, index_offset, next_entry>>
  BY DEF WriteHeader
<1>2. Announced' = Announced
  BY <1>1 DEF Announced, Current
<1>3. Written' = 0
  BY <1>1 DEF Written
<1>4. Index'
  BY <1>1, <1>2, <1>3, SMT DEF Index
<1> QED
  BY <1>1, <1>4 DEF RInv, Passed, IsFolder

LEMMA DataIndex ==
    ASSUME IInv, RInv, WriteData
    PROVE  RInv'
<1>1. /\ pc = "data" /\ pc' = "index" /\ UNCHANGED <<header, index>> /\ next_entry' = 1
      /\ pos' = Seek(pos, index_offset) + Current.filesize
      /\ index_offset' = (index_offset + Current.filesize) % Unsigned
  BY DEF WriteData, Advanced
<1>2. Len(index) \in Nat /\ Len(index) >= 1
  BY <1>1, SMT DEF IInv, TypeOK
<1>3. Written' = 0
  BY <1>1, SMT DEF Written
<1>4. ASSUME Seekable' PROVE Index'
  <2>1. Seekable /\ Index
    BY <1>1, <1>4 DEF Seekable, RInv
  <2>2. header = [index_offset |-> Announced, num_files |-> num_files]
    BY <1>1, <2>1 DEF Index
  <2>3. index_offset' = index_offset + Current.filesize /\ pos' = index_offset'
    BY <1>1, <2>1, DataFits
  <2>4. header' = Headed'
    BY <1>1, <2>2 DEF Announced, Headed
  <2>5. pos' = EntryAt(next_entry)'
    <3>1. index_offset' \in Nat /\ EntrySize \in Nat
      BY DataStep, WriterAssumption DEF IInv, TypeOK, WriterAssumption
    <3> QED
      BY <1>1, <2>3, <3>1, SMT DEF EntryAt
  <2> QED
    BY <1>1, <1>2, <1>3, <2>4, <2>5, SMT DEF Index
<1> QED
  BY <1>1, <1>4 DEF RInv, Passed, IsFolder

LEMMA EntryIndex ==
    ASSUME IInv, RInv, WriteEntry
    PROVE  RInv'
<1>1. /\ pc = "index" /\ UNCHANGED <<header, index, index_offset>>
      /\ pc' = IF next_entry = num_files THEN "idle" ELSE "index"
      /\ pos' = pos + EntrySize /\ next_entry' = next_entry + 1
      /\ disk' = [a \in DOMAIN disk \cup pos..(pos + EntrySize - 1) |->
                    IF a \in pos..(pos + EntrySize - 1)
                    THEN EntryCell(index[next_entry], a - pos + 1) ELSE disk[a]]
  BY DEF WriteEntry, Write
<1>2. /\ index_offset \in Nat /\ EntrySize \in Nat \ {0} /\ pos \in Nat
      /\ Len(index) \in Nat /\ Len(index) >= 1
  BY <1>1, WriterAssumption, SMT DEF IInv, TypeOK, WriterAssumption
<1>3. ASSUME Seekable' PROVE Index'
  <2>1. Seekable /\ Index
    BY <1>1, <1>3 DEF Seekable, RInv
  <2>2. next_entry \in 1..num_files /\ pos = EntryAt(next_entry) /\ header = Headed
    BY <1>1, <2>1 DEF Index
  <2>3. Written = next_entry - 1 /\ Written' = next_entry
    BY <1>1, <1>2, <2>2, SMT DEF Written
  <2>4. \A i \in 1..next_entry : IsEntryAt(EntryAt(i), index[i])'
    <3> SUFFICES ASSUME NEW i \in 1..next_entry, NEW k \in 1..EntrySize
                 PROVE  LET a == EntryAt(i) + k - 1
                        IN a \in DOMAIN disk' /\ disk'[a] = EntryCell(index[i], k)
      BY <1>1 DEF IsEntryAt, EntryAt
    <3>1. CASE i = next_entry
      <4>1. /\ pos + k - 1 \in pos..(pos + EntrySize - 1)
            /\ (pos + k - 1) - pos + 1 = k
        BY <1>2, SMT
      <4> QED
        BY <1>1, <2>2, <3>1, <4>1
    <3>2. CASE i < next_entry
      <4>1. EntryAt(i) + k - 1 < pos
        <5>1. i \in Nat /\ next_entry \in Nat /\ Len(index) \in Nat
          BY <1>2, <2>2, SMT
        <5>2. /\ (i - 1) * EntrySize \in Int /\ (next_entry - 1) * EntrySize \in Int
              /\ (i - 1) * EntrySize + EntrySize <= (next_entry - 1) * EntrySize
          BY <3>2, <5>1, EntriesApart
        <5> QED
          BY <1>2, <2>2, <5>2, SMT DEF EntryAt
      <4>2. i \in 1..Written
        BY <2>2, <2>3, <3>2, SMT
      <4>3. LET a == EntryAt(i) + k - 1
            IN a \in DOMAIN disk /\ disk[a] = EntryCell(index[i], k)
        BY <2>1, <4>2 DEF Index, IsEntryAt
      <4> DEFINE a == EntryAt(i) + k - 1
      <4>4. a \notin pos..(pos + EntrySize - 1)
        BY <1>2, <4>1, SMT
      <4> QED
        BY <1>1, <4>3, <4>4
    <3> QED
      BY <2>2, <3>1, <3>2, SMT
  <2>5. pos' = EntryAt(next_entry)'
    <3>1. /\ (next_entry - 1) * EntrySize \in Int
          /\ (next_entry + 1 - 1) * EntrySize = (next_entry - 1) * EntrySize + EntrySize
      BY <2>2, EntriesApart, SMT
    <3> QED
      BY <1>1, <1>2, <2>2, <3>1, SMT DEF EntryAt
  <2>6. header' = Headed' /\ num_files' = num_files
    BY <1>1, <2>2 DEF Headed
  <2>7. pc' = "index" => next_entry' \in 1..num_files
    BY <1>1, <1>2, <2>2, SMT
  <2> QED
    BY <1>1, <1>2, <2>3, <2>4, <2>5, <2>6, <2>7, SMT DEF Index
<1> QED
  BY <1>1, <1>3 DEF RInv, Passed, IsFolder

\* The stronger invariant of the refinement holds in every behaviour, too.
THEOREM IndexInvariant == Spec => []RInv
<1>1. Init => RInv
  <2> SUFFICES ASSUME Init PROVE RInv
    OBVIOUS
  <2>1. num_files = 0 /\ pc = "idle" /\ header = NoHeader
    BY DEF Init
  <2>2. Written = 0
    BY <2>1 DEF Written
  <2> QED
    BY <2>1, <2>2, SMT DEF RInv, Index
<1>2. IInv /\ RInv /\ [Next]_vars => RInv'
  <2> SUFFICES ASSUME IInv, RInv, [Next]_vars PROVE RInv'
    OBVIOUS
  <2>1. CASE BeginFolder
    <3>1. PICK nm \in Names :
            Register([name |-> nm, filesize |-> 0, timestamp |-> 0, offset |-> 0])
      BY <2>1 DEF BeginFolder
    <3>2. Passed([name |-> nm, filesize |-> 0, timestamp |-> 0, offset |-> 0])
      BY DEF Passed, IsFolder
    <3> QED
      BY <3>1, <3>2, RegisterIndex
  <2>2. CASE BeginFile
    <3>1. PICK nm \in Names, s \in FileSizes :
            Register([name |-> nm, filesize |-> s, timestamp |-> 1, offset |-> index_offset])
      BY <2>2 DEF BeginFile
    <3>2. Passed([name |-> nm, filesize |-> s, timestamp |-> 1, offset |-> index_offset])
      BY DEF Passed
    <3> QED
      BY <3>1, <3>2, RegisterIndex
  <2>3. CASE WriteHeader
    BY <2>3, HeaderIndex
  <2>4. CASE WriteData
    BY <2>4, DataIndex
  <2>5. CASE WriteEntry
    BY <2>5, EntryIndex
  <2>6. CASE UNCHANGED vars
    BY <2>6 DEF vars, RInv, Index, Seekable, Passed, IsFolder, Headed, Announced, Current,
                Written, EntryAt, IsEntryAt
  <2> QED
    BY <2>1, <2>2, <2>3, <2>4, <2>5, <2>6 DEF Next
<1> QED
  BY <1>1, <1>2, Invariant, PTL DEF Spec

\* What was passed for an entry.
Given(e) ==
    [name |-> e.name, filesize |-> e.filesize, timestamp |-> e.timestamp,
     data |-> IF IsFolder(e) THEN <<>> ELSE BytesOf(e.name, e.filesize)]

Finished == IF pc = "idle" THEN num_files ELSE num_files - 1

History == [i \in 1..Finished |-> Given(index[i])]

\* A reader who has an entry gets the bytes that were passed with it.
LEMMA DataComesBack ==
    ASSUME IInv, Seekable, NEW i \in 1..Stored
    PROVE  ContentOf(index[i]) = Given(index[i])
<1>1. /\ index \in Seq(Entry) /\ Len(index) \in Nat /\ i \in 1..Len(index)
      /\ DataStays
  BY SMT DEF IInv, TypeOK, Layout, Stored
<1>2. index[i] \in Entry
  BY <1>1
<1>3. index[i].offset \in Nat /\ index[i].filesize \in Nat
  BY <1>2 DEF Entry
<1>4. Seek(0, index[i].offset) = index[i].offset
  BY <1>1, <1>3, WriterAssumption, SMT DEF Seekable, Seek, WriterAssumption
<1>5. DataAt(index[i].offset, index[i].filesize)
         = BytesOf(index[i].name, index[i].filesize)
  BY <1>1, <1>4 DEF DataAt, DataStays, BytesOf
<1> QED
  BY <1>5 DEF ContentOf, Given

\* An entry is what its cells say.
LEMMA EntryIsUnique ==
    ASSUME NEW a \in Nat, NEW e, NEW f, IsEntryAt(a, e), IsEntryAt(a, f)
    PROVE  e = f
<1>1. 1 \in 1..EntrySize
  BY WriterAssumption, SMT DEF WriterAssumption
<1>2. EntryCell(e, 1) = EntryCell(f, 1)
  BY <1>1 DEF IsEntryAt
<1> QED
  BY <1>2 DEF EntryCell

\* Between two calls a reader finds the index, and in it every entry in its place.
LEMMA IndexComesBack ==
    ASSUME IInv, RInv, Seekable, pc = "idle"
    PROVE  Readable /\ Loaded = History
<1>1. /\ index \in Seq(Entry) /\ Len(index) \in Nat /\ index_offset \in Nat
      /\ index_offset <= SeekMax /\ Index
  BY DEF IInv, RInv, TypeOK, Layout
<1>2. header.num_files = num_files
  BY <1>1 DEF Index, NoHeader, Headed
<1>3. ASSUME NEW i \in 1..num_files
      PROVE  LoadedFrom(i) = EntryAt(i) /\ EntryAt(i) \in Nat
  <2>1. num_files # 0
    BY <1>1, <1>3, SMT
  <2>2. header.index_offset = index_offset
    BY <1>1, <2>1 DEF Index, Headed
  <2>3. (i - 1) * EntrySize \in Nat
    <3>1. i - 1 \in Nat /\ EntrySize \in Nat
      BY <1>1, <1>3, WriterAssumption, SMT DEF WriterAssumption
    <3> QED
      BY <3>1, SMT
  <2> QED
    BY <1>1, <2>2, <2>3, SMT DEF LoadedFrom, EntryAt, Seek
<1>4. \A i \in 1..num_files : IsEntryAt(LoadedFrom(i), index[i])
  BY <1>1, <1>3 DEF Index, Written
<1>5. Readable
  BY <1>2, <1>4 DEF Readable
<1>6. ASSUME NEW i \in 1..num_files
      PROVE  ContentOf(index[CHOOSE j \in 1..num_files :
                                 IsEntryAt(LoadedFrom(i), index[j])]) = Given(index[i])
  <2> DEFINE P(j) == IsEntryAt(LoadedFrom(i), index[j])
             c == CHOOSE j \in 1..num_files : P(j)
  <2>1. P(c)
    BY <1>4
  <2>2. index[c] = index[i]
    BY <1>3, <1>4, <2>1, EntryIsUnique
  <2>3. ContentOf(index[i]) = Given(index[i])
    BY DataComesBack DEF Stored
  <2> QED
    BY <2>2, <2>3
<1>7. Loaded = History
  BY <1>2, <1>6 DEF Loaded, History, Finished
<1> QED
  BY <1>5, <1>7

Seen == Visible = History

LEMMA SeenIsHistory ==
    ASSUME IInv, RInv, Seekable
    PROVE  Seen
<1> USE DEF Seen
<1>1. CASE pc = "idle"
  BY <1>1, IndexComesBack DEF Visible
<1>2. CASE pc # "idle"
  <2>1. Len(index) \in Nat
    BY SMT DEF IInv, TypeOK
  <2>2. \A i \in 1..(num_files - 1) : i \in 1..Stored
    BY <2>1, SMT DEF Stored
  <2>3. \A i \in 1..(num_files - 1) : ContentOf(index[i]) = Given(index[i])
    BY <2>2, DataComesBack
  <2> QED
    BY <1>2, <2>3 DEF Visible, History, Finished
<1> QED
  BY <1>1, <1>2

LEMMA AppendExtends ==
    ASSUME NEW S, NEW n \in Nat, NEW s \in [1..n -> S], NEW x \in S
    PROVE  Append(s, x) = [i \in 1..(n + 1) |-> IF i <= n THEN s[i] ELSE x]
<1> DEFINE t == [i \in 1..(n + 1) |-> IF i <= n THEN s[i] ELSE x]
<1>1. s \in Seq(S) /\ Len(s) = n
  BY SMT
<1>2. t \in Seq(S) /\ Len(t) = n + 1
  <2>1. t \in [1..(n + 1) -> S]
    BY SMT
  <2> HIDE DEF t
  <2> QED
    BY <2>1, SMT
<1>3. /\ Append(s, x) \in Seq(S) /\ Len(Append(s, x)) = n + 1
      /\ \A i \in 1..n : Append(s, x)[i] = s[i]
      /\ Append(s, x)[n + 1] = x
  BY <1>1, AppendProperties
<1>4. \A i \in 1..(n + 1) : Append(s, x)[i] = t[i]
  <2> SUFFICES ASSUME NEW i \in 1..(n + 1) PROVE Append(s, x)[i] = t[i]
    OBVIOUS
  <2>1. CASE i <= n
    BY <1>3, <2>1, SMT
  <2>2. CASE i = n + 1
    BY <1>3, <2>2, SMT
  <2> QED
    BY <2>1, <2>2, SMT
<1> HIDE DEF t
<1>5. Append(s, x) = t
  BY <1>2, <1>3, <1>4, SeqEqual
<1> QED
  BY <1>5 DEF t

\* A step leaves the history alone, or ends a call and adds what was passed to it.
LEMMA HistoryStep ==
    ASSUME IInv, RInv, [Next]_vars
    PROVE  \/ History' = History
           \/ \E c \in AllContent : History' = Append(History, c)
<1>1. Len(index) \in Nat /\ index \in Seq(Entry)
  BY SMT DEF IInv, TypeOK
<1>2. CASE BeginFolder \/ BeginFile
  <2>1. PICK e : pc = "idle" /\ pc' = "header" /\ index' = Append(index, e)
    BY <1>2 DEF BeginFolder, BeginFile, Register
  <2>2. Len(index') = Len(index) + 1 /\ \A i \in 1..Len(index) : index'[i] = index[i]
    BY <1>1, <2>1, SMT
  <2>3. Finished' = Finished /\ Finished = Len(index)
    BY <1>1, <2>1, <2>2, SMT DEF Finished
  <2>4. \A i \in 1..Finished : Given(index'[i]) = Given(index[i])
    BY <2>2, <2>3
  <2>5. History' = [i \in 1..Finished' |-> Given(index'[i])]
    BY DEF History, Given, IsFolder
  <2> QED
    BY <2>3, <2>4, <2>5 DEF History
<1>3. CASE WriteHeader \/ WriteData \/ (WriteEntry /\ pc' # "idle") \/ UNCHANGED vars
  <2>1. index' = index /\ (pc = "idle") = (pc' = "idle")
    BY <1>3 DEF WriteHeader, WriteData, WriteEntry, vars
  <2> QED
    BY <2>1 DEF History, Finished, Given, IsFolder
<1>4. CASE WriteEntry /\ pc' = "idle"
  <2>1. pc = "index" /\ index' = index
    BY <1>4 DEF WriteEntry
  <2>2. Len(index) >= 1 /\ Finished = Len(index) - 1 /\ Finished' = Len(index)
    BY <1>1, <1>4, <2>1, SMT DEF IInv, TypeOK, Finished
  <2>3. Given(Current) \in AllContent
    <3>1. Current \in Entry /\ Passed(Current)
      BY <1>1, <2>2, SMT DEF Current, RInv
    <3>2. CASE IsFolder(Current)
      BY <3>1, <3>2 DEF Given, IsFolder, AllContent, Entry
    <3>3. CASE ~IsFolder(Current)
      <4>1. Given(Current)
              = [name |-> Current.name, filesize |-> Current.filesize, timestamp |-> 1,
                 data |-> BytesOf(Current.name, Current.filesize)]
        BY <3>1, <3>3 DEF Given, Passed
      <4>2. Current.name \in Names /\ Current.filesize \in FileSizes
        BY <3>1, <3>3 DEF Passed, Entry
      <4> QED
        BY <4>1, <4>2 DEF AllContent
    <3> QED
      BY <3>2, <3>3
  <2>4. History' = Append(History, Given(Current))
    <3>1. History' = [i \in 1..Len(index) |-> Given(index[i])]
      BY <2>1, <2>2 DEF History, Given, IsFolder
    <3>2. History = [i \in 1..(Len(index) - 1) |-> Given(index[i])]
      BY <2>2 DEF History
    <3> DEFINE S == {Given(index[i]) : i \in 1..Len(index)}
               n == Len(index) - 1
    <3>3. n \in Nat /\ Given(Current) \in S /\ History \in [1..n -> S]
      <4>1. n \in Nat /\ Len(index) \in 1..Len(index)
        BY <1>1, <2>2, SMT
      <4>2. \A i \in 1..n : i \in 1..Len(index)
        BY <1>1, SMT
      <4> QED
        BY <3>2, <4>1, <4>2 DEF Current
    <3> HIDE DEF S
    <3>4. Append(History, Given(Current))
             = [i \in 1..(n + 1) |-> IF i <= n THEN History[i] ELSE Given(Current)]
      BY <3>3, AppendExtends
    <3>5. n + 1 = Len(index)
      BY <1>1, SMT
    <3>6. \A i \in 1..Len(index) :
             Given(index[i]) = IF i <= n THEN History[i] ELSE Given(Current)
      <4>1. ASSUME NEW i \in 1..Len(index), i <= n PROVE History[i] = Given(index[i])
        BY <1>1, <3>2, <4>1, SMT
      <4>2. ASSUME NEW i \in 1..Len(index), ~(i <= n) PROVE index[i] = Current
        <5>1. i = Len(index)
          BY <1>1, <4>2, SMT
        <5> QED
          BY <5>1 DEF Current
      <4> QED
        BY <4>1, <4>2
    <3> QED
      BY <3>1, <3>4, <3>5, <3>6
  <2> QED
    BY <2>3, <2>4
<1> QED
  BY <1>2, <1>3, <1>4 DEF Next

\* As long as every offset is one that fseek can reach, write_vp_file does what vp.h says:
\* each call adds the new file at the end of the archive, as a reader sees it, and takes
\* nothing away, for any number of entries, any sizes and any width of the offsets.
THEOREM WriterImplementsArchive == Spec /\ []Seekable => ImplementsArchive
<1>1. Init /\ Seen => Archive!Init
  BY SMT DEF Init, Seen, History, Finished, Archive!Init
<1>2. IInv /\ RInv /\ Seekable => Seen
  BY SeenIsHistory
<1>3. IInv /\ RInv /\ Seen /\ Seen' /\ [Next]_vars => [Archive!Next]_Visible
  BY HistoryStep DEF Seen, Archive!Next, Archive!Add
<1> QED
  BY <1>1, <1>2, <1>3, Invariant, IndexInvariant, PTL
  DEF Spec, ImplementsArchive, Archive!Spec
=================================================================================
