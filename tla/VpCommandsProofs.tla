---------------------------- MODULE VpCommandsProofs -----------------------------
(***************************************************************************)
(* What compress_vp and decompress_vp make of archives in the long run,    *)
(* for all archives, settings and sequences of commands.                   *)
(***************************************************************************)
EXTENDS VpCommands, SequenceTheorems, TLAPS

Known == Exts \cup {"none"}

Data == [layers : {0, 1}, of : Bytes]

Index == [ext : Known, lower : BOOLEAN, data : Data, filesize : Nat, timestamp : 0..2]

\* An entry whose index tells the truth about its bytes; coding has paid.
Sound(e) ==
    /\ e \in Index
    /\ e.filesize = Size(e.data)
    /\ IsPacked(e.data) => e.data.of.coded > 0

\* At first, only entries without bytes are empty.
Empty(e) == e.data.of.size = 0 => e.data.of = NoBytes

\* What every command preserves of an entry: converting a pof happens once, because it
\* changes the version on which it depends.
Keeps(e, f) ==
    /\ e.ext = f.ext
    /\ IsFolder(e) <=> IsFolder(f)
    /\ Healthy(f) => \/ e.data.of = f.data.of
                     \/ f.data.of.version = 2117 /\ e.data.of = Aligned(f.data.of)

\* compress_vp with these settings writes this entry as it finds it.
Stable(e, c) ==
    IF IsFile(e)
    THEN /\ e.lower
         /\ \/ AlreadyCompressed(e)
            \/ /\ ~(e.ext = "pof" /\ c.fix_pof /\ e.data.of.version = 2117)
               /\ ~(/\ e.ext # "none" /\ e.ext \notin c.ignore_list
                    /\ e.filesize >= c.minimum_size
                    /\ Worthwhile(e))
    ELSE Written(e) = e

Bounded(w, e) ==
    w.filesize <= e.filesize + (IF w.data.of # e.data.of THEN PofGrowth ELSE 0)

Busy == pc \in {"compress", "decompress"}

\* The settings with which the archive was made are the ones of the command that runs.
Again == last = [command |-> "compress", config |-> config]

Entries(s) == \A i \in 1..Len(s) : Sound(s[i]) /\ Keeps(s[i], first[i])

Shape ==
    /\ archive \in Seq(Index) /\ out \in Seq(Index) /\ first \in Seq(Index)
    /\ Len(archive) = Len(first)
    /\ x \in 1..(Len(archive) + 1)
    /\ IF Busy THEN Len(out) = x - 1 ELSE Len(out) <= Len(archive)
    /\ pc \in {"idle", "compress", "decompress", "died"}
    /\ config \in Configs
    /\ is_compressed \in BOOLEAN
    /\ last \in [command : {"none", "compress", "decompress"}, config : Configs]

\* A command adds one tag at most, and only at its end.
Counts ==
    /\ commands \in 0..MaxCommands /\ tags \in Nat
    /\ tags <= commands
    /\ Busy => tags < commands

Kept ==
    /\ \A i \in 1..Len(first) : Sound(first[i]) /\ Empty(first[i])
    /\ Entries(archive) /\ Entries(out)

\* While an archive is decompressed, and when it has been.
Opened ==
    /\ pc = "decompress" => \A i \in 1..Len(out) : ~IsPacked(out[i].data)
    /\ last.command = "decompress" => \A i \in 1..Len(archive) : ~IsPacked(archive[i].data)

\* While an archive is compressed, and when it has been.
Closed ==
    /\ pc = "compress" =>
         \A i \in 1..Len(out) : Bounded(out[i], archive[i]) /\ Stable(out[i], config)
    /\ last.command = "compress" => \A i \in 1..Len(archive) : Stable(archive[i], last.config)
    /\ pc = "compress" /\ Again =>
         ~is_compressed /\ \A i \in 1..Len(out) : out[i] = archive[i]

IInv == Shape /\ Counts /\ Kept /\ Opened /\ Closed
-----------------------------------------------------------------------------
(* Entries *)

\* Conversion keeps everything but version and sizes.
LEMMA AlignedBytes ==
    ASSUME NEW b \in Bytes
    PROVE  /\ Aligned(b) \in Bytes /\ Aligned(b).version = 2200 /\ Aligned(b).magic = b.magic
           /\ Aligned(b).size = b.size + PofGrowth
  BY CommandsAssumption DEF CommandsAssumption, Bytes, Aligned

LEMMA NoBytesBytes == NoBytes \in Bytes /\ NoBytes.size = 0 /\ NoBytes.magic = 0 /\ NoBytes.version = 0
  BY DEF NoBytes, Bytes

\* The bytes of plain, coded and decoded data.
LEMMA DataFacts ==
    ASSUME NEW b \in Bytes
    PROVE  /\ Plain(b) \in Data /\ Plain(b).of = b /\ ~IsPacked(Plain(b))
           /\ Size(Plain(b)) = b.size /\ Magic(Plain(b)) = b.magic
           /\ Coded(Plain(b)) \in Data /\ Coded(Plain(b)).of = b /\ IsPacked(Coded(Plain(b)))
           /\ Size(Coded(Plain(b))) = b.coded /\ Magic(Coded(Plain(b))) = 5
           /\ Decoded(Coded(Plain(b))) = Plain(b)
<1>1. Plain(b) = [layers |-> 0, of |-> b]
  BY DEF Plain
<1>2. Coded(Plain(b)) = [layers |-> 1, of |-> b]
  BY <1>1 DEF Coded
<1>3. Decoded(Coded(Plain(b))) = Plain(b)
  BY <1>1, <1>2 DEF Decoded
<1>4. b.coded \in Int /\ b.size \in Nat
  BY DEF Bytes
<1> QED
  BY <1>1, <1>2, <1>3, <1>4 DEF Data, IsPacked, Size, Magic

\* Data is one or the other.
LEMMA DataCases ==
    ASSUME NEW d \in Data
    PROVE  /\ d.of \in Bytes
           /\ ~IsPacked(d) => d = Plain(d.of)
           /\ IsPacked(d) => d = Coded(Plain(d.of))
<1>1. d = [layers |-> d.layers, of |-> d.of] /\ d.layers \in {0, 1} /\ d.of \in Bytes
  BY DEF Data
<1>2. Plain(d.of) = [layers |-> 0, of |-> d.of]
  BY DEF Plain
<1>3. Coded(Plain(d.of)) = [layers |-> 1, of |-> d.of]
  BY <1>2 DEF Coded
<1> QED
  BY <1>1, <1>2, <1>3 DEF IsPacked

\* A sound entry, field by field.
LEMMA EntryFacts ==
    ASSUME NEW e, Sound(e)
    PROVE  /\ e = [ext |-> e.ext, lower |-> e.lower, data |-> e.data,
                   filesize |-> e.filesize, timestamp |-> e.timestamp]
           /\ e.ext \in Known /\ e.lower \in BOOLEAN /\ e.data \in Data
           /\ e.filesize \in Nat /\ e.timestamp \in 0..2
           /\ e.filesize = Size(e.data)
           /\ e.data.of \in Bytes
           /\ ~IsPacked(e.data) => /\ e.data = Plain(e.data.of) /\ e.filesize = e.data.of.size
                                   /\ Magic(e.data) = e.data.of.magic
           /\ IsPacked(e.data) => /\ e.data = Coded(Plain(e.data.of)) /\ Magic(e.data) = 5
                                  /\ e.filesize = e.data.of.coded /\ e.filesize > 0
<1>1. e \in Index /\ e.filesize = Size(e.data) /\ (IsPacked(e.data) => e.data.of.coded > 0)
  BY DEF Sound
<1>2. /\ e = [ext |-> e.ext, lower |-> e.lower, data |-> e.data,
              filesize |-> e.filesize, timestamp |-> e.timestamp]
      /\ e.ext \in Known /\ e.lower \in BOOLEAN /\ e.data \in Data
      /\ e.filesize \in Nat /\ e.timestamp \in 0..2
  BY <1>1 DEF Index
<1>3. e.data.of \in Bytes
  BY <1>2, DataCases
<1>4. ASSUME ~IsPacked(e.data)
      PROVE  /\ e.data = Plain(e.data.of) /\ e.filesize = e.data.of.size
             /\ Magic(e.data) = e.data.of.magic
  BY <1>1, <1>2, <1>3, <1>4, DataCases, DataFacts
<1>5. ASSUME IsPacked(e.data)
      PROVE  /\ e.data = Coded(Plain(e.data.of)) /\ Magic(e.data) = 5
             /\ e.filesize = e.data.of.coded /\ e.filesize > 0
  BY <1>1, <1>2, <1>3, <1>5, DataCases, DataFacts
<1> QED
  BY <1>1, <1>2, <1>3, <1>4, <1>5

\* How entries are built.
LEMMA EntryIs ==
    ASSUME NEW ext \in Known, NEW lower \in BOOLEAN, NEW d \in Data, NEW t \in 0..2,
           Size(d) \in Nat, IsPacked(d) => Size(d) > 0
    PROVE  LET w == Entry(ext, lower, d, t)
           IN /\ Sound(w) /\ w.ext = ext /\ w.lower = lower /\ w.data = d /\ w.timestamp = t
              /\ w.filesize = Size(d)
<1> DEFINE w == Entry(ext, lower, d, t)
<1>1. w = [ext |-> ext, lower |-> lower, data |-> d, filesize |-> Size(d), timestamp |-> t]
  BY DEF Entry
<1>2. w \in Index
  BY <1>1 DEF Index
<1>3. IsPacked(d) => d.of.coded > 0
  BY DataCases, DataFacts
<1> QED
  BY <1>1, <1>2, <1>3 DEF Sound

\* What is written as it is: anything with bytes or a timestamp.
LEMMA WrittenIs ==
    ASSUME NEW e, ~IsFolder(e)
    PROVE  Written(e) = e
  BY DEF IsFolder, Written

\* In place of the extension its lower-case form.
LEMMA LowerIs ==
    ASSUME NEW e, Sound(e)
    PROVE  /\ Sound(LowerExt(e)) /\ LowerExt(e).lower = TRUE
           /\ LowerExt(e).ext = e.ext /\ LowerExt(e).data = e.data
           /\ LowerExt(e).filesize = e.filesize /\ LowerExt(e).timestamp = e.timestamp
           /\ e.lower => LowerExt(e) = e
<1>1. e \in Index
  BY DEF Sound
<1>2. /\ LowerExt(e) \in Index /\ LowerExt(e).lower = TRUE /\ (e.lower => LowerExt(e) = e)
      /\ LowerExt(e).ext = e.ext /\ LowerExt(e).data = e.data
      /\ LowerExt(e).filesize = e.filesize /\ LowerExt(e).timestamp = e.timestamp
  BY <1>1 DEF LowerExt, Index
<1> QED
  BY <1>2 DEF Sound

\* A healthy file stays one.
LEMMA HealthyStays ==
    ASSUME NEW e, NEW f, Sound(e), Sound(f), Keeps(e, f), Healthy(f)
    PROVE  e.data.of.magic = 0
<1>1. f.data.of \in Bytes /\ f.data.of.magic = 0
  BY EntryFacts DEF Healthy
<1> QED
  BY <1>1, AlignedBytes DEF Keeps
-----------------------------------------------------------------------------
(* What is written for an entry e, which was f at first *)

Good(w, f) == Sound(w) /\ Keeps(w, f)

\* What both commands write of what is no file.
LEMMA WriteNullEntry ==
    ASSUME NEW e, NEW f, Good(e, f), Sound(f), Empty(f), ~IsFile(e), e.filesize = 0
    PROVE  LET w == Written(e)
           IN /\ Good(w, f) /\ ~IsPacked(w.data) /\ Bounded(w, e)
              /\ \A c : Stable(w, c) /\ (Stable(e, c) => w = e)
<1> DEFINE w == Written(e)
<1>1. Sound(e) /\ Keeps(e, f) /\ ~IsPacked(e.data) /\ e.data.of.size = 0
  BY EntryFacts DEF Good
<1>2. CASE ~IsFolder(e)
  <2>1. w = e
    BY <1>2, WrittenIs
  <2> QED
    BY <1>1, <2>1, EntryFacts DEF Good, Bounded, Stable
<1>3. CASE IsFolder(e)
  <2>1. w = [e EXCEPT !.data = Plain(NoBytes)]
    BY <1>3 DEF Written, IsFolder
  <2>2. Plain(NoBytes) \in Data /\ Size(Plain(NoBytes)) = 0 /\ ~IsPacked(Plain(NoBytes))
        /\ Plain(NoBytes).of = NoBytes
    BY NoBytesBytes, DataFacts
  <2>3. /\ w \in Index /\ w.data = Plain(NoBytes) /\ w.ext = e.ext
        /\ w.filesize = e.filesize /\ w.timestamp = e.timestamp
    BY <1>1, <2>1, <2>2 DEF Sound, Index
  <2>4. Sound(w) /\ ~IsPacked(w.data)
    BY <2>2, <2>3 DEF Sound
  <2>5. Healthy(f) => f.data.of = NoBytes
    <3>1. f.data.of \in Bytes
      BY EntryFacts
    <3>2. f.data.of.version = 2117 => f.data.of # NoBytes
      BY NoBytesBytes
    <3>3. CASE e.data.of = f.data.of
      BY <1>1, <3>3 DEF Empty
    <3>4. CASE f.data.of.version = 2117 /\ e.data.of = Aligned(f.data.of)
      <4>1. f.data.of.size \in Nat /\ f.data.of.size # 0
        BY <3>1, <3>2, <3>4 DEF Bytes, Empty
      <4> QED
        BY <1>1, <3>1, <3>4, <4>1, AlignedBytes, CommandsAssumption DEF CommandsAssumption
    <3> QED
      BY <1>1, <3>3, <3>4 DEF Keeps
  <2>6. Keeps(w, f)
    BY <1>1, <2>2, <2>3, <2>5 DEF Keeps, IsFolder
  <2>7. Written(w) = w
    <3>1. [w EXCEPT !.data = Plain(NoBytes)] = w
      BY <2>3 DEF Index
    <3> QED
      BY <3>1 DEF Written
  <2>8. Bounded(w, e)
    BY <2>3, EntryFacts, <1>1, CommandsAssumption DEF Bounded, CommandsAssumption
  <2>9. \A c : Stable(w, c) /\ (Stable(e, c) => w = e)
    BY <2>3, <2>7 DEF Stable, IsFile
  <2> QED
    BY <2>4, <2>6, <2>8, <2>9 DEF Good
<1> QED
  BY <1>2, <1>3

\* A file that is compressed already.
LEMMA KeepCompressedEntry ==
    ASSUME NEW e, NEW f, Good(e, f), IsFile(e), AlreadyCompressed(e)
    PROVE  LET w == Written(LowerExt(e))
           IN /\ Good(w, f) /\ Bounded(w, e)
              /\ \A c : Stable(w, c) /\ (Stable(e, c) => w = e)
<1> DEFINE w == LowerExt(e)
<1>1. Sound(e) /\ Keeps(e, f)
  BY DEF Good
<1>2. /\ Sound(w) /\ w.lower = TRUE /\ w.ext = e.ext /\ w.data = e.data
      /\ w.filesize = e.filesize /\ w.timestamp = e.timestamp /\ (e.lower => w = e)
  BY <1>1, LowerIs
<1> HIDE DEF w
<1>3. Written(w) = w
  BY <1>2, WrittenIs DEF IsFile, IsFolder
<1>4. Keeps(w, f) /\ AlreadyCompressed(w) /\ IsFile(w)
  BY <1>1, <1>2 DEF Keeps, AlreadyCompressed, IsFile, IsFolder
<1>5. Bounded(w, e)
  BY <1>1, <1>2, EntryFacts DEF Bounded
<1>6. \A c : Stable(w, c) /\ (Stable(e, c) => w = e)
  BY <1>2, <1>4 DEF Stable
<1> QED
  BY <1>2, <1>3, <1>4, <1>5, <1>6 DEF Good, w

\* A file on which compression is decided.
LEMMA PreparedEntry ==
    ASSUME NEW e, NEW f, Good(e, f), IsFile(e), ~AlreadyCompressed(e)
    PROVE  LET p == FixPof(LowerExt(e))
           IN /\ Good(p, f) /\ IsFile(p) /\ p.lower /\ ~IsPacked(p.data)
              /\ ~(p.ext = "pof" /\ config.fix_pof /\ p.data.of.version = 2117)
              /\ Bounded(p, e)
              /\ Stable(e, config) => p = e
<1> DEFINE l == LowerExt(e)
           p == FixPof(l)
           fixed == l.ext = "pof" /\ config.fix_pof /\ l.data.of.version = 2117
<1>1. Sound(e) /\ Keeps(e, f) /\ ~IsPacked(e.data) /\ e.data = Plain(e.data.of)
      /\ e.filesize = e.data.of.size /\ e.data.of \in Bytes
  BY EntryFacts DEF Good, AlreadyCompressed
<1>2. /\ Sound(l) /\ l.lower = TRUE /\ l.ext = e.ext /\ l.data = e.data
      /\ l.filesize = e.filesize /\ l.timestamp = e.timestamp /\ (e.lower => l = e)
  BY <1>1, LowerIs
<1> HIDE DEF l
<1>3. CASE fixed
  <2> DEFINE a == Aligned(e.data.of)
  <2>1. p = Entry(l.ext, l.lower, Plain(a), 2)
    BY <1>2, <1>3 DEF FixPof
  <2>2. /\ a \in Bytes /\ a.version = 2200 /\ a.size = e.filesize + PofGrowth
        /\ PofGrowth \in Nat /\ e.filesize \in Nat
    BY <1>1, AlignedBytes, EntryFacts, CommandsAssumption DEF CommandsAssumption
  <2> HIDE DEF a
  <2>3. /\ Plain(a) \in Data /\ Size(Plain(a)) = a.size /\ ~IsPacked(Plain(a)) /\ Plain(a).of = a
    BY <2>2, DataFacts
  <2>4. l.ext \in Known /\ l.lower \in BOOLEAN /\ 2 \in 0..2 /\ a.size \in Nat
    BY <1>2, <2>2, EntryFacts
  <2>5. /\ Sound(p) /\ p.ext = l.ext /\ p.lower = l.lower /\ p.data = Plain(a)
        /\ p.timestamp = 2 /\ p.filesize = a.size
    BY <2>1, <2>3, <2>4, EntryIs
  <2> HIDE DEF p
  <2>6. IsFile(p) /\ p.lower /\ ~IsPacked(p.data) /\ p.data.of.version # 2117
    BY <1>2, <2>2, <2>3, <2>5 DEF IsFile
  <2>7. Keeps(p, f)
    <3>1. e.data.of.version = 2117
      BY <1>2, <1>3
    <3>2. Healthy(f) => e.data.of = f.data.of
      <4>1. ASSUME Healthy(f), e.data.of # f.data.of PROVE FALSE
        <5>1. f.data.of.version = 2117 /\ e.data.of = Aligned(f.data.of)
          BY <1>1, <4>1 DEF Keeps
        <5>2. Aligned(f.data.of).version = 2200
          BY DEF Aligned
        <5> QED
          BY <3>1, <5>1, <5>2
      <4> QED
        BY <4>1
    <3> QED
      BY <1>1, <1>2, <2>3, <2>5, <2>6, <3>1, <3>2 DEF Keeps, IsFile, IsFolder, a
  <2>8. Bounded(p, e)
    BY <1>1, <1>3, <1>2, <2>2, <2>3, <2>5 DEF Bounded
  <2>9. ~Stable(e, config)
    BY <1>2, <1>3 DEF Stable
  <2> QED
    BY <1>2, <1>3, <2>5, <2>6, <2>7, <2>8, <2>9 DEF Good, p, l
<1>4. CASE ~fixed
  <2>1. p = l
    BY <1>4 DEF FixPof
  <2>2. Keeps(l, f) /\ IsFile(l)
    BY <1>1, <1>2 DEF Keeps, IsFile, IsFolder
  <2>3. Bounded(l, e)
    BY <1>1, <1>2, EntryFacts DEF Bounded
  <2>4. Stable(e, config) => l = e
    BY <1>2 DEF Stable
  <2> QED
    BY <1>1, <1>2, <1>4, <2>1, <2>2, <2>3, <2>4 DEF Good, l
<1> QED
  BY <1>3, <1>4

\* Files have fields, so the prepared one and what is written of it have them, too.
LEMMA CompressedEntry ==
    ASSUME NEW e, NEW f, NEW p, Good(p, f), IsFile(p), p.lower, ~IsPacked(p.data), Bounded(p, e),
           Worthwhile(p), e \in Index
    PROVE  LET w == Written(Entry(p.ext, p.lower, Coded(p.data), p.timestamp))
           IN Good(w, f) /\ Bounded(w, e) /\ \A c : Stable(w, c)
<1> DEFINE w == Entry(p.ext, p.lower, Coded(p.data), p.timestamp)
<1>1. /\ Sound(p) /\ Keeps(p, f) /\ p.data.of \in Bytes /\ p.data = Plain(p.data.of)
      /\ p.ext \in Known /\ p.lower \in BOOLEAN /\ p.timestamp \in 0..2 /\ p.filesize \in Nat
  BY EntryFacts DEF Good
<1>2. /\ Coded(p.data) \in Data /\ IsPacked(Coded(p.data)) /\ Magic(Coded(p.data)) = 5
      /\ Coded(p.data).of = p.data.of /\ Size(Coded(p.data)) = p.data.of.coded
      /\ p.data.of.coded \in Int
  BY <1>1, DataFacts DEF Bytes
<1>3. Size(Coded(p.data)) \in Nat /\ Size(Coded(p.data)) > 0 /\ Size(Coded(p.data)) < p.filesize
  BY <1>2 DEF Worthwhile
<1>4. /\ Sound(w) /\ w.ext = p.ext /\ w.lower = p.lower /\ w.data = Coded(p.data)
      /\ w.timestamp = p.timestamp /\ w.filesize = Size(Coded(p.data))
  <2> DEFINE lower == p.lower
             d == Coded(p.data)
  <2>1. lower \in BOOLEAN /\ d \in Data /\ Size(d) \in Nat /\ Size(d) > 0
    BY <1>1, <1>2, <1>3
  <2> HIDE DEF lower, d
  <2>2. LET v == Entry(p.ext, lower, d, p.timestamp)
        IN /\ Sound(v) /\ v.ext = p.ext /\ v.lower = lower /\ v.data = d
           /\ v.timestamp = p.timestamp /\ v.filesize = Size(d)
    BY <1>1, <2>1, EntryIs
  <2> QED
    BY <2>2 DEF lower, d
<1> HIDE DEF w
<1>5. IsFile(w) /\ AlreadyCompressed(w) /\ Written(w) = w
  BY <1>2, <1>3, <1>4, WrittenIs DEF IsFile, IsFolder, AlreadyCompressed
<1>6. Keeps(w, f)
  BY <1>1, <1>2, <1>4, <1>5 DEF Keeps, IsFile, IsFolder
<1>7. Bounded(w, e)
  <2>1. e.filesize \in Nat /\ PofGrowth \in Nat
    BY CommandsAssumption DEF CommandsAssumption, Index
  <2> QED
    BY <1>1, <1>2, <1>3, <1>4, <2>1 DEF Bounded
<1> QED
  BY <1>4, <1>5, <1>6, <1>7 DEF Good, Stable, w
\* A file that is not worth it: stable as it is, and what was stable is kept.
LEMMA PlainEntry ==
    ASSUME NEW f, NEW p, Good(p, f), IsFile(p), p.lower,
           ~(p.ext = "pof" /\ config.fix_pof /\ p.data.of.version = 2117),
           ~(Selected(p) /\ Worthwhile(p))
    PROVE  Written(p) = p /\ Stable(p, config)
<1>1. Written(p) = p
  BY WrittenIs DEF IsFile, IsFolder
<1>2. Stable(p, config)
  BY DEF Stable, Selected
<1> QED
  BY <1>1, <1>2

\* What decompression makes of a file: other bytes, not coded, under the same name.
LEMMA OpenedEntry ==
    ASSUME NEW e, Sound(e), IsFile(e), NEW b \in Bytes
    PROVE  LET w == Written(Entry(e.ext, e.lower, Plain(b), e.timestamp))
           IN /\ Sound(w) /\ ~IsPacked(w.data) /\ w.data.of = b /\ w.ext = e.ext
              /\ ~IsFolder(w)
<1> DEFINE lower == e.lower
           w == Entry(e.ext, lower, Plain(b), e.timestamp)
<1>1. e.ext \in Known /\ lower \in BOOLEAN /\ e.timestamp \in 0..2
  BY EntryFacts
<1>2. /\ Plain(b) \in Data /\ ~IsPacked(Plain(b)) /\ Plain(b).of = b
      /\ Size(Plain(b)) = b.size /\ b.size \in Nat
  BY DataFacts DEF Bytes
<1> HIDE DEF lower
<1>3. /\ Sound(w) /\ w.ext = e.ext /\ w.data = Plain(b) /\ w.timestamp = e.timestamp
  BY <1>1, <1>2, EntryIs
<1> HIDE DEF w
<1>4. ~IsFolder(w) /\ Written(w) = w
  BY <1>3, WrittenIs DEF IsFile, IsFolder
<1> QED
  BY <1>2, <1>3, <1>4 DEF w, lower

\* A file that is decompressed.
LEMMA UnpackedEntry ==
    ASSUME NEW e, NEW f, Good(e, f), IsFile(e), IsPacked(e.data)
    PROVE  LET w == Written(Unpacked(e)) IN Good(w, f) /\ ~IsPacked(w.data)
<1>1. /\ Sound(e) /\ Keeps(e, f) /\ e.data.of \in Bytes
      /\ e.data = Coded(Plain(e.data.of))
  BY EntryFacts DEF Good
<1>2. Decoded(e.data) = Plain(e.data.of)
  BY <1>1, DataFacts
<1> DEFINE w == Written(Entry(e.ext, e.lower, Plain(e.data.of), e.timestamp))
<1>3. /\ Sound(w) /\ ~IsPacked(w.data) /\ w.data.of = e.data.of /\ w.ext = e.ext
      /\ ~IsFolder(w) /\ ~IsFolder(e)
  BY <1>1, OpenedEntry DEF IsFile, IsFolder
<1>4. w = Written(Unpacked(e))
  BY <1>2 DEF Unpacked
<1> HIDE DEF w
<1>5. Good(w, f)
  BY <1>1, <1>3 DEF Good, Keeps
<1> QED
  BY <1>3, <1>4, <1>5

\* Bytes that begin like coded ones and are not: the file was never healthy.
LEMMA JunkEntry ==
    ASSUME NEW e, NEW f, Good(e, f), Sound(f), IsFile(e), ~IsPacked(e.data),
           LooksCompressed(e), NEW n \in JunkSizes
    PROVE  LET w == Written(Entry(e.ext, e.lower, Plain(Junk(n)), e.timestamp))
           IN Good(w, f) /\ ~IsPacked(w.data)
<1>1. Sound(e) /\ Keeps(e, f) /\ Magic(e.data) = e.data.of.magic
  BY EntryFacts DEF Good
<1>2. ~Healthy(f)
  BY <1>1, HealthyStays DEF LooksCompressed
<1>3. Junk(n) \in Bytes
  BY CommandsAssumption DEF CommandsAssumption, Junk, Bytes
<1> DEFINE w == Written(Entry(e.ext, e.lower, Plain(Junk(n)), e.timestamp))
<1>4. /\ Sound(w) /\ ~IsPacked(w.data) /\ w.ext = e.ext /\ ~IsFolder(w) /\ ~IsFolder(e)
  BY <1>1, <1>3, OpenedEntry DEF IsFile, IsFolder
<1> HIDE DEF w
<1> QED
  BY <1>1, <1>2, <1>4 DEF Good, Keeps, w

\* A file that does not look coded.
LEMMA CopiedEntry ==
    ASSUME NEW e, NEW f, Good(e, f), IsFile(e), ~LooksCompressed(e)
    PROVE  Written(e) = e /\ ~IsPacked(e.data)
  BY WrittenIs, EntryFacts DEF Good, IsFile, IsFolder, LooksCompressed
-----------------------------------------------------------------------------
(* Steps *)

\* Every action that writes an entry.
LEMMA EntryWritten ==
    ASSUME NEW command \in {"compress", "decompress"}, NEW w,
           IInv, At(command), Stay,
           out' = Append(out, w), x' = x + 1,
           is_compressed' \in BOOLEAN,
           Good(w, first[x]),
           command = "decompress" => ~IsPacked(w.data),
           command = "compress" => Bounded(w, archive[x]) /\ Stable(w, config),
           command = "compress" /\ Again
                => w = archive[x] /\ is_compressed' = is_compressed
    PROVE  IInv'
<1> USE DEF Stay, hist
<1>1. pc = command /\ Busy /\ x \in 1..Len(archive) /\ Len(out) = x - 1 /\ out \in Seq(Index)
  BY DEF IInv, Shape, At, Busy
<1>2. w \in Index
  BY DEF Good, Sound
<1>3. /\ out' \in Seq(Index) /\ Len(out') = x
      /\ \A i \in 1..Len(out') : i \in 1..Len(out) \/ i = x
      /\ \A i \in 1..Len(out) : out'[i] = out[i]
      /\ out'[x] = w
  BY <1>1, <1>2, AppendProperties
<1>4. Shape'
  BY <1>1, <1>3 DEF IInv, Shape, Busy
<1>5. Counts'
  BY DEF IInv, Counts, Busy
<1>6. Kept'
  <2>1. \A i \in 1..Len(out') : Sound(out'[i]) /\ Keeps(out'[i], first[i])
    BY <1>1, <1>3 DEF IInv, Kept, Entries, Good
  <2> QED
    BY <2>1 DEF IInv, Kept, Entries
<1>7. Opened'
  BY <1>1, <1>3 DEF IInv, Opened
<1>8. Closed'
  <2>1. pc = "compress" =>
          \A i \in 1..Len(out') : Bounded(out'[i], archive[i]) /\ Stable(out'[i], config)
    BY <1>1, <1>3 DEF IInv, Closed
  <2>2. pc = "compress" /\ Again =>
          ~is_compressed' /\ \A i \in 1..Len(out') : out'[i] = archive[i]
    BY <1>1, <1>3 DEF IInv, Closed
  <2> QED
    BY <2>1, <2>2 DEF IInv, Closed, Again
<1> QED
  BY <1>4, <1>5, <1>6, <1>7, <1>8 DEF IInv
\* What the invariant says of the entry a command is at.
LEMMA Current ==
    ASSUME IInv, NEW command \in {"compress", "decompress"}, At(command)
    PROVE  /\ Good(archive[x], first[x]) /\ Sound(first[x]) /\ Empty(first[x])
           /\ archive[x] \in Index
           /\ pc = command
           /\ is_compressed \in BOOLEAN
           /\ command = "compress" /\ Again => Stable(archive[x], config) /\ ~is_compressed
<1>1. pc = command /\ x \in 1..Len(archive) /\ x \in 1..Len(first) /\ is_compressed \in BOOLEAN
  BY DEF IInv, Shape, At
<1>2. Good(archive[x], first[x]) /\ Sound(first[x]) /\ Empty(first[x])
  BY <1>1 DEF IInv, Kept, Entries, Good
<1>3. Again => Stable(archive[x], config)
  BY <1>1 DEF IInv, Closed, Again
<1>4. pc = "compress" /\ Again => ~is_compressed
  BY DEF IInv, Closed
<1> QED
  BY <1>1, <1>2, <1>3, <1>4 DEF Good, Sound

\* Both commands start without entries and without a tag of theirs.
LEMMA StartKeeps ==
    ASSUME IInv, NEW command \in {"compress", "decompress"}, Start(command), config' \in Configs
    PROVE  IInv'
<1> USE DEF Start
<1>1. Len(<<>>) = 0 /\ <<>> \in Seq(Index)
  OBVIOUS
<1>2. Len(archive) \in Nat
  BY DEF IInv, Shape
<1>3. Shape'
  <2>1. x' \in 1..(Len(archive)' + 1) /\ Len(out') = x' - 1 /\ out' \in Seq(Index)
    BY <1>1, <1>2
  <2>2. Busy' /\ pc' \in {"idle", "compress", "decompress", "died"}
    BY DEF Busy
  <2> QED
    BY <2>1, <2>2 DEF IInv, Shape
<1>4. Counts'
  BY CommandsAssumption DEF IInv, Counts, CommandsAssumption
<1>5. Kept'
  BY <1>1 DEF IInv, Kept, Entries
<1>6. Opened'
  BY <1>1 DEF IInv, Opened
<1>7. Closed'
  BY <1>1 DEF IInv, Closed
<1> QED
  BY <1>3, <1>4, <1>5, <1>6, <1>7 DEF IInv

\* What a command has written is the archive of the next one.
LEMMA EndKeeps ==
    ASSUME IInv, NEW command \in {"compress", "decompress"},
           pc = command, x > Len(archive), archive' = out, pc' = "idle",
           tags' \in Nat, tags' <= tags + 1,
           last' = [command |-> pc, config |-> config],
           UNCHANGED <<config, x, out, is_compressed, first, commands>>
    PROVE  IInv'
<1>1. Len(archive) \in Nat /\ x = Len(archive) + 1 /\ Len(out) = Len(archive)
  BY DEF IInv, Shape, Busy
<1>2. Shape'
  BY <1>1 DEF IInv, Shape, Busy
<1>3. Counts'
  BY DEF IInv, Counts, Busy
<1>4. Kept'
  BY DEF IInv, Kept, Entries
<1>5. Opened'
  BY DEF IInv, Opened
<1>6. Closed'
  BY DEF IInv, Closed
<1> QED
  BY <1>2, <1>3, <1>4, <1>5, <1>6 DEF IInv

\* Dying keeps the archive and what was written.
LEMMA DeathKeeps ==
    ASSUME IInv, pc' = "died",
           UNCHANGED <<archive, tags, config, x, out, is_compressed, hist>>
    PROVE  IInv'
<1> USE DEF hist
<1>1. Shape'
  <2>1. Len(out) <= Len(archive)
    BY DEF IInv, Shape
  <2> QED
    BY <2>1 DEF IInv, Shape, Busy
<1>2. Counts'
  BY DEF IInv, Counts, Busy
<1>3. Kept'
  BY DEF IInv, Kept, Entries
<1>4. Opened' /\ Closed'
  BY DEF IInv, Opened, Closed
<1> QED
  BY <1>1, <1>2, <1>3, <1>4 DEF IInv

\* An archive that is no VP.
LEMMA NotAVpKeeps == ASSUME IInv, NotAVp PROVE IInv'
<1> USE DEF NotAVp
<1>1. Len(<<>>) = 0 /\ <<>> \in Seq(Index)
  OBVIOUS
<1>2. Shape'
  BY <1>1 DEF IInv, Shape, Busy
<1>3. Counts'
  BY CommandsAssumption DEF IInv, Counts, Busy, CommandsAssumption
<1>4. Kept'
  BY <1>1 DEF IInv, Kept, Entries
<1>5. Opened' /\ Closed'
  BY DEF IInv, Opened, Closed, Again
<1> QED
  BY <1>2, <1>3, <1>4, <1>5 DEF IInv

LEMMA StutterKeeps == ASSUME IInv, UNCHANGED vars PROVE IInv'
  BY DEF IInv, vars, hist, Shape, Counts, Kept, Entries, Opened, Closed, Again, Busy
\* Folders, and what is taken for one.
LEMMA WriteNullKeeps ==
    ASSUME IInv, NEW command \in {"compress", "decompress"}, WriteNull(command)
    PROVE  IInv'
<1> DEFINE e == archive[x]
           w == Written(e)
<1>1. At(command) /\ ~IsFile(e) /\ e.filesize = 0
  BY DEF WriteNull
<1>2. /\ Good(w, first[x]) /\ ~IsPacked(w.data) /\ Bounded(w, e)
      /\ Stable(w, config) /\ (Stable(e, config) => w = e)
  BY <1>1, Current, WriteNullEntry
<1>3. /\ out' = Append(out, w) /\ x' = x + 1 /\ Stay /\ is_compressed' = is_compressed
      /\ is_compressed' \in BOOLEAN
  BY <1>1, Current DEF WriteNull, WriteEntry
<1>4. command = "compress" /\ Again => w = e
  BY <1>1, <1>2, Current
<1> HIDE DEF w
<1> QED
  BY <1>1, <1>2, <1>3, <1>4, EntryWritten

LEMMA KeepCompressedKeeps == ASSUME IInv, KeepCompressed PROVE IInv'
<1> DEFINE e == archive[x]
           w == Written(LowerExt(e))
<1>1. At("compress") /\ IsFile(e) /\ AlreadyCompressed(e)
  BY DEF KeepCompressed
<1>2. /\ Good(w, first[x]) /\ Bounded(w, e)
      /\ Stable(w, config) /\ (Stable(e, config) => w = e)
  BY <1>1, Current, KeepCompressedEntry
<1>3. /\ out' = Append(out, w) /\ x' = x + 1 /\ Stay /\ is_compressed' = is_compressed
      /\ is_compressed' \in BOOLEAN
  BY <1>1, Current DEF KeepCompressed, WriteEntry
<1>4. Again => w = e
  BY <1>1, <1>2, Current
<1> HIDE DEF w
<1> QED
  BY <1>1, <1>2, <1>3, <1>4, EntryWritten

\* A step that decides on compression, and what it decides on.
LEMMA PreparedNow ==
    ASSUME IInv, At("compress"), IsFile(archive[x]), ~AlreadyCompressed(archive[x])
    PROVE  /\ Good(Prepared, first[x]) /\ IsFile(Prepared) /\ Prepared.lower
           /\ ~IsPacked(Prepared.data)
           /\ ~(Prepared.ext = "pof" /\ config.fix_pof /\ Prepared.data.of.version = 2117)
           /\ Bounded(Prepared, archive[x])
           /\ Again => Prepared = archive[x] /\ Stable(archive[x], config)
  BY Current, PreparedEntry DEF Prepared

LEMMA CompressKeeps == ASSUME IInv, CompressEntry PROVE IInv'
<1> DEFINE e == archive[x]
           p == Prepared
           w == Written(Entry(p.ext, p.lower, Coded(p.data), p.timestamp))
<1>1. /\ At("compress") /\ IsFile(e) /\ ~AlreadyCompressed(e)
      /\ Selected(p) /\ Worthwhile(p)
  BY DEF CompressEntry
<1>2. /\ Good(p, first[x]) /\ IsFile(p) /\ p.lower /\ ~IsPacked(p.data) /\ Bounded(p, e)
      /\ Again => p = e /\ Stable(e, config)
  BY <1>1, PreparedNow
<1>3. out' = Append(out, w) /\ x' = x + 1 /\ Stay /\ is_compressed' \in BOOLEAN
  BY DEF CompressEntry, WriteEntry
<1>4. ~Again
  BY <1>1, <1>2 DEF Stable, Selected
<1>5. e \in Index
  BY <1>1, Current
<1> HIDE DEF p
<1>6. Good(w, first[x]) /\ Bounded(w, e) /\ Stable(w, config)
  BY <1>1, <1>2, <1>5, CompressedEntry
<1> HIDE DEF w
<1> QED
  BY <1>1, <1>3, <1>4, <1>6, EntryWritten

LEMMA KeepPlainKeeps == ASSUME IInv, KeepPlain PROVE IInv'
<1> DEFINE e == archive[x]
           p == Prepared
<1>1. /\ At("compress") /\ IsFile(e) /\ ~AlreadyCompressed(e)
      /\ ~(Selected(p) /\ Worthwhile(p))
  BY DEF KeepPlain
<1>2. /\ Good(p, first[x]) /\ IsFile(p) /\ p.lower /\ Bounded(p, e)
      /\ ~(p.ext = "pof" /\ config.fix_pof /\ p.data.of.version = 2117)
      /\ Again => p = e
  BY <1>1, PreparedNow
<1>3. /\ out' = Append(out, Written(p)) /\ x' = x + 1 /\ Stay
      /\ is_compressed' = is_compressed /\ is_compressed' \in BOOLEAN
  BY <1>1, Current DEF KeepPlain, WriteEntry
<1> HIDE DEF p
<1>4. Written(p) = p /\ Stable(p, config)
  BY <1>1, <1>2, PlainEntry
<1> QED
  BY <1>1, <1>2, <1>3, <1>4, EntryWritten

\* The three ways in which a file is decompressed.
LEMMA DecompressKeeps == ASSUME IInv, DecompressEntry PROVE IInv'
<1> DEFINE e == archive[x]
           w == Written(Unpacked(e))
<1>1. At("decompress") /\ IsFile(e) /\ IsPacked(e.data)
  BY DEF DecompressEntry
<1>2. Good(w, first[x]) /\ ~IsPacked(w.data)
  BY <1>1, Current, UnpackedEntry
<1>3. out' = Append(out, w) /\ x' = x + 1 /\ Stay /\ is_compressed' \in BOOLEAN
  BY <1>1, Current DEF DecompressEntry, WriteEntry
<1> HIDE DEF w
<1> QED
  BY <1>1, <1>2, <1>3, EntryWritten

LEMMA JunkKeeps == ASSUME IInv, DecompressJunk PROVE IInv'
<1> DEFINE e == archive[x]
           w(n) == Written(Entry(e.ext, e.lower, Plain(Junk(n)), e.timestamp))
<1>1. At("decompress") /\ IsFile(e) /\ ~IsPacked(e.data) /\ LooksCompressed(e)
  BY DEF DecompressJunk
<1>2. ASSUME NEW n \in JunkSizes, WriteEntry(Entry(e.ext, e.lower, Plain(Junk(n)), e.timestamp)),
             UNCHANGED pc
      PROVE  IInv'
  <2>1. Good(w(n), first[x]) /\ ~IsPacked(w(n).data)
    BY <1>1, Current, JunkEntry
  <2>2. out' = Append(out, w(n)) /\ x' = x + 1 /\ Stay /\ is_compressed' \in BOOLEAN
    BY <1>1, <1>2, Current DEF DecompressJunk, WriteEntry, Stay
  <2> HIDE DEF w
  <2> QED
    BY <1>1, <2>1, <2>2, EntryWritten
<1>3. ASSUME pc' = "died", UNCHANGED <<x, out>>
      PROVE  IInv'
  BY <1>3, DeathKeeps DEF DecompressJunk
<1> QED
  BY <1>2, <1>3 DEF DecompressJunk

LEMMA CopyKeeps == ASSUME IInv, CopyEntry PROVE IInv'
<1> DEFINE e == archive[x]
<1>1. At("decompress") /\ IsFile(e) /\ ~LooksCompressed(e)
  BY DEF CopyEntry
<1>2. Good(e, first[x]) /\ Written(e) = e /\ ~IsPacked(e.data)
  BY <1>1, Current, CopiedEntry
<1>3. out' = Append(out, e) /\ x' = x + 1 /\ Stay /\ is_compressed' \in BOOLEAN
  BY <1>1, <1>2, Current DEF CopyEntry, WriteEntry
<1> QED
  BY <1>1, <1>2, <1>3, EntryWritten
-----------------------------------------------------------------------------
(* The invariant *)

LEMMA OriginalEntry ==
    ASSUME NEW ext \in Known, NEW lower \in BOOLEAN, NEW d \in Data, NEW t \in 0..2,
           Size(d) \in Nat, IsPacked(d) => Size(d) > 0, d.of.size = 0 => d.of = NoBytes
    PROVE  LET e == Entry(ext, lower, d, t) IN Sound(e) /\ Empty(e) /\ Keeps(e, e)
<1> DEFINE e == Entry(ext, lower, d, t)
<1>1. Sound(e) /\ e.data = d
  BY EntryIs
<1> HIDE DEF e
<1> QED
  BY <1>1 DEF Empty, Keeps, e

\* Archives made by other tools.
LEMMA OriginalEntries ==
    ASSUME NEW e \in Original
    PROVE  Sound(e) /\ Empty(e) /\ Keeps(e, e)
<1>1. CASE e \in Folders
  <2>1. PICK t \in {0, 1} : e = Entry("none", TRUE, Plain(NoBytes), t)
    BY <1>1, Zenon DEF Folders
  <2> QED
    <3>1. "none" \in Known /\ TRUE \in BOOLEAN /\ t \in 0..2
      BY DEF Known
    <3> DEFINE d == Plain(NoBytes)
    <3>2. d \in Data /\ Size(d) \in Nat /\ ~IsPacked(d) /\ d.of = NoBytes
      BY NoBytesBytes, DataFacts
    <3> HIDE DEF d
    <3>3. LET v == Entry("none", TRUE, d, t) IN Sound(v) /\ Empty(v) /\ Keeps(v, v)
      BY <3>1, <3>2, OriginalEntry
    <3> QED
      BY <2>1, <3>3 DEF d
<1>2. CASE e \in PlainFiles
  <2>1. PICK ext \in Exts, l \in BOOLEAN, b \in Files : e = Entry(ext, l, Plain(b), 1)
    BY <1>2 DEF PlainFiles
  <2>2. b \in Bytes /\ b.size \in Nat /\ b.size > 0
    BY CommandsAssumption DEF CommandsAssumption, Bytes
  <2> QED
    <3>1. ext \in Known /\ 1 \in 0..2
      BY DEF Known
    <3> DEFINE d == Plain(b)
    <3>2. /\ d \in Data /\ Size(d) \in Nat /\ (IsPacked(d) => Size(d) > 0)
          /\ (d.of.size = 0 => d.of = NoBytes)
      BY <2>2, DataFacts
    <3> HIDE DEF d
    <3>3. LET v == Entry(ext, l, d, 1) IN Sound(v) /\ Empty(v) /\ Keeps(v, v)
      BY <3>1, <3>2, OriginalEntry
    <3> QED
      BY <2>1, <3>3 DEF d
<1>3. CASE e \in CodedFiles
  <2>1. PICK ext \in Exts, l \in BOOLEAN, b \in {f \in Files : f.coded > 0} :
              e = Entry(ext, l, Coded(Plain(b)), 1)
    BY <1>3 DEF CodedFiles
  <2>2. b \in Bytes /\ b.size \in Nat /\ b.size > 0 /\ b.coded \in Nat /\ b.coded > 0
    BY CommandsAssumption DEF CommandsAssumption, Bytes
  <2> QED
    <3>1. ext \in Known /\ 1 \in 0..2
      BY DEF Known
    <3> DEFINE d == Coded(Plain(b))
    <3>2. /\ d \in Data /\ Size(d) \in Nat /\ (IsPacked(d) => Size(d) > 0)
          /\ (d.of.size = 0 => d.of = NoBytes)
      BY <2>2, DataFacts
    <3> HIDE DEF d
    <3>3. LET v == Entry(ext, l, d, 1) IN Sound(v) /\ Empty(v) /\ Keeps(v, v)
      BY <3>1, <3>2, OriginalEntry
    <3> QED
      BY <2>1, <3>3 DEF d
<1>4. CASE e \in Untimed
  <2>1. PICK b \in Files : e = Entry("none", TRUE, Plain(b), 0)
    BY <1>4, Zenon DEF Untimed
  <2>2. b \in Bytes /\ b.size \in Nat /\ b.size > 0
    BY CommandsAssumption DEF CommandsAssumption, Bytes
  <2> QED
    <3>1. "none" \in Known /\ 0 \in 0..2
      BY DEF Known
    <3> DEFINE d == Plain(b)
    <3>2. /\ d \in Data /\ Size(d) \in Nat /\ (IsPacked(d) => Size(d) > 0)
          /\ (d.of.size = 0 => d.of = NoBytes)
      BY <2>2, DataFacts
    <3> HIDE DEF d
    <3>3. LET v == Entry("none", TRUE, d, 0) IN Sound(v) /\ Empty(v) /\ Keeps(v, v)
      BY <3>1, <3>2, OriginalEntry
    <3> QED
      BY <2>1, <3>3 DEF d
<1> QED
  BY <1>1, <1>2, <1>3, <1>4 DEF Original

LEMMA InvariantAtStart == ASSUME Init PROVE IInv
<1> USE DEF Init
<1>1. archive \in Seq(Original)
  BY ArchivesAssumption DEF ArchivesAssumption
<1>2. \A i \in 1..Len(archive) : archive[i] \in Original
  BY <1>1, ElementOfSeq
<1>3. \A i \in 1..Len(archive) :
        Sound(archive[i]) /\ Empty(archive[i]) /\ Keeps(archive[i], archive[i])
  BY <1>2, OriginalEntries
<1>4. Len(<<>>) = 0 /\ <<>> \in Seq(Index)
  OBVIOUS
<1>5. archive \in Seq(Index) /\ Len(archive) \in Nat
  <2>1. Original \subseteq Index
    BY OriginalEntries DEF Sound
  <2> QED
    BY <1>1, <2>1
<1>6. Shape
  <2>1. x \in 1..(Len(archive) + 1) /\ Len(out) <= Len(archive) /\ ~Busy
    BY <1>4, <1>5 DEF Busy
  <2>2. last \in [command : {"none", "compress", "decompress"}, config : Configs]
    OBVIOUS
  <2> QED
    BY <1>4, <1>5, <2>1, <2>2 DEF Shape
<1>7. Counts
  BY CommandsAssumption DEF Counts, Busy, CommandsAssumption
<1>8. Kept
  BY <1>3, <1>4 DEF Kept, Entries
<1>9. Opened /\ Closed
  BY DEF Opened, Closed
<1> QED
  BY <1>6, <1>7, <1>8, <1>9 DEF IInv

\* Every step keeps it, whichever command it belongs to.
LEMMA InvariantKept == ASSUME IInv, [Next]_vars PROVE IInv'
<1>1. CASE NotAVp
  BY <1>1, NotAVpKeeps
<1>2. CASE StartCompress
  BY <1>2, StartKeeps DEF StartCompress
<1>3. CASE KeepCompressed
  BY <1>3, KeepCompressedKeeps
<1>4. CASE CompressEntry
  BY <1>4, CompressKeeps
<1>5. CASE KeepPlain
  BY <1>5, KeepPlainKeeps
<1>6. CASE EndCompress
  <2>1. tags \in Nat
    BY DEF IInv, Counts
  <2>2. tags' \in Nat /\ tags' <= tags + 1
    BY <1>6, <2>1 DEF EndCompress
  <2> QED
    BY <1>6, <2>2, EndKeeps DEF EndCompress
<1>7. CASE StartDecompress
  <2>1. config' \in Configs
    BY <1>7 DEF StartDecompress, IInv, Shape
  <2> QED
    BY <1>7, <2>1, StartKeeps DEF StartDecompress
<1>8. CASE DecompressEntry
  BY <1>8, DecompressKeeps
<1>9. CASE DecompressJunk
  BY <1>9, JunkKeeps
<1>10. CASE CopyEntry
  BY <1>10, CopyKeeps
<1>11. CASE EndDecompress
  <2>1. tags \in Nat
    BY DEF IInv, Counts
  <2>2. tags' \in Nat /\ tags' <= tags + 1
    BY <1>11, <2>1 DEF EndDecompress, TagsLeft
  <2> QED
    BY <1>11, <2>2, EndKeeps DEF EndDecompress
<1>12. CASE \E command \in {"compress", "decompress"} :
               WriteNull(command) \/ WriteFromNull(command)
  <2>1. PICK command \in {"compress", "decompress"} :
               WriteNull(command) \/ WriteFromNull(command)
    BY <1>12
  <2>2. CASE WriteNull(command)
    BY <2>2, WriteNullKeeps
  <2>3. CASE WriteFromNull(command)
    BY <2>3, DeathKeeps DEF WriteFromNull
  <2> QED
    BY <2>1, <2>2, <2>3
<1>13. CASE Ended \/ UNCHANGED vars
  BY <1>13, StutterKeeps DEF Ended
<1> QED
  BY <1>1, <1>2, <1>3, <1>4, <1>5, <1>6, <1>7, <1>8, <1>9, <1>10, <1>11, <1>12, <1>13 DEF Next

THEOREM Invariant == Spec => []IInv
<1>1. Init => IInv
  BY InvariantAtStart
<1>2. IInv /\ [Next]_vars => IInv'
  BY InvariantKept
<1> QED
  BY <1>1, <1>2, PTL DEF Spec-----------------------------------------------------------------------------
(* The properties *)

\* Every variable has its type: no command makes of an index what the next could not read.
THEOREM TypeCorrect == Spec => []TypeOK
<1>1. IInv => TypeOK
  <2> SUFFICES ASSUME IInv PROVE TypeOK
    OBVIOUS
  <2>1. ASSUME NEW s \in Seq(Index), NEW i \in 1..Len(s)
        PROVE  s[i].ext \in Exts \cup {"none"} /\ s[i].filesize \in Nat /\ s[i].timestamp \in 0..2
    <3>1. s[i] \in Index
      BY <2>1, ElementOfSeq
    <3> QED
      BY <3>1 DEF Index, Known
  <2>2. tags \in 0..MaxCommands /\ commands \in 0..MaxCommands
    BY CommandsAssumption DEF IInv, Counts, CommandsAssumption
  <2>3. Len(out) <= Len(archive)
    BY DEF IInv, Shape
  <2> QED
    BY <2>1, <2>2, <2>3 DEF IInv, Shape, TypeOK
<1> QED
  BY <1>1, Invariant, PTL

\* No command loses or codes twice what another has left, in whatever order and with
\* whatever settings they run: every entry decodes to the file of the first archive.
THEOREM ContentsSurvive == Spec => []ContentKept
<1>1. IInv => ContentKept
  <2> SUFFICES ASSUME IInv, NEW s \in {archive, out}, NEW i \in 1..Len(s), Healthy(first[i])
               PROVE  Same(s[i], first[i])
    BY DEF ContentKept
  <2>1. Sound(s[i]) /\ Keeps(s[i], first[i])
    BY DEF IInv, Kept, Entries
  <2>2. s[i].data.layers <= 1
    BY <2>1, EntryFacts DEF Data
  <2> QED
    BY <2>1, <2>2, EntryFacts DEF Keeps, Same
<1> QED
  BY <1>1, Invariant, PTL

\* The nesting of an archive survives all commands: entries stay in their places, and
\* folders stay folders.
THEOREM TreeSurvives == Spec => []TreeKept
<1>1. IInv => TreeKept
  BY DEF IInv, Shape, Kept, Entries, Keeps, TreeKept
<1> QED
  BY <1>1, Invariant, PTL

\* Decompression undoes what any compressions have done.
THEOREM AllUnpacked == Spec => []NothingStaysPacked
<1>1. IInv => NothingStaysPacked
  BY DEF IInv, Opened, NothingStaysPacked
<1> QED
  BY <1>1, Invariant, PTL

\* A compression ends in one way.
LEMMA EndOnly ==
    ASSUME [Next]_vars, pc = "compress", pc' = "idle"
    PROVE  EndCompress
<1>1. ~(UNCHANGED pc)
  OBVIOUS
<1>2. ~NotAVp /\ ~StartCompress /\ ~StartDecompress /\ ~EndDecompress
  BY DEF NotAVp, StartCompress, StartDecompress, Start, EndDecompress
<1>3. ~KeepCompressed /\ ~CompressEntry /\ ~KeepPlain /\ ~DecompressEntry /\ ~CopyEntry
  BY <1>1 DEF KeepCompressed, CompressEntry, KeepPlain, DecompressEntry, CopyEntry, Stay
<1>4. ~DecompressJunk /\ ~Ended /\ ~UNCHANGED vars
  BY <1>1 DEF DecompressJunk, At, Ended, vars
<1>5. ASSUME NEW command \in {"compress", "decompress"}
      PROVE  ~WriteNull(command) /\ ~WriteFromNull(command)
  BY <1>1 DEF WriteNull, WriteFromNull, Stay
<1> QED
  BY <1>2, <1>3, <1>4, <1>5 DEF Next

\* compress_vp makes no entry larger, but for what converting a pof adds.
THEOREM EntriesNeverGrow == Spec => NeverGrows
<1>1. ASSUME IInv, [Next]_vars, pc = "compress", pc' = "idle", NEW i \in 1..Len(archive)
      PROVE  archive'[i].filesize <=
                archive[i].filesize + (IF archive'[i].data.of # archive[i].data.of
                                       THEN PofGrowth ELSE 0)
  <2>1. archive' = out /\ x > Len(archive)
    BY <1>1, EndOnly DEF EndCompress
  <2>2. i \in 1..Len(out)
    BY <1>1, <2>1 DEF IInv, Shape, Busy
  <2>3. Bounded(out[i], archive[i])
    BY <1>1, <2>2 DEF IInv, Closed
  <2> QED
    BY <2>1, <2>3 DEF Bounded
<1>2. IInv /\ [Next]_vars =>
        [(pc = "compress" /\ pc' = "idle") =>
            \A i \in 1..Len(archive) :
                archive'[i].filesize <=
                    archive[i].filesize + (IF archive'[i].data.of # archive[i].data.of
                                           THEN PofGrowth ELSE 0)]_vars
  BY <1>1
<1> QED
  BY <1>2, Invariant, PTL DEF Spec, NeverGrows

\* compress_vp is idempotent: what it has written, it writes again.
THEOREM CompressionIsIdempotent == Spec => SecondTimeIsIdle
<1>1. ASSUME IInv, [Next]_vars, pc = "compress", pc' = "idle",
             last = [command |-> "compress", config |-> config]
      PROVE  archive' = archive /\ tags' = tags
  <2>1. archive' = out /\ x > Len(archive) /\ EndCompress
    BY <1>1, EndOnly DEF EndCompress
  <2>2. Len(out) = Len(archive) /\ out \in Seq(Index) /\ archive \in Seq(Index)
    BY <1>1, <2>1 DEF IInv, Shape, Busy
  <2>3. ~is_compressed /\ \A i \in 1..Len(out) : out[i] = archive[i]
    BY <1>1 DEF IInv, Closed, Again
  <2>4. out = archive
    BY <2>2, <2>3, SeqEqual
  <2>5. tags' = tags
    BY <2>1, <2>3 DEF EndCompress
  <2> QED
    BY <2>1, <2>4, <2>5
<1>2. IInv /\ [Next]_vars =>
        [(pc = "compress" /\ pc' = "idle" /\ last = [command |-> "compress", config |-> config])
            => archive' = archive /\ tags' = tags]_vars
  BY <1>1
<1> QED
  BY <1>2, Invariant, PTL DEF Spec, SecondTimeIsIdle
=================================================================================
