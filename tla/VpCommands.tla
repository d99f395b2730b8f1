------------------------------- MODULE VpCommands -------------------------------
(***************************************************************************)
(* compress_vp and decompress_vp, entry by entry, run one after the other  *)
(* on the output of the previous one, with any settings: a user compresses *)
(* an archive, changes the ini file, compresses the result again, gives it *)
(* to somebody who decompresses it.                                        *)
(*                                                                         *)
(* The archive itself is the list of entries VpArchive promises, and LZ41  *)
(* coding is what module Lz41 establishes: coding and decoding give the    *)
(* bytes back.  Here the question is which entries are coded, converted,   *)
(* decoded or left alone, and what becomes of them in the long run.        *)
(***************************************************************************)
EXTENDS Integers, Sequences

CONSTANTS
    Ids,            \* what tells the bytes of one file from another's
    Files,          \* the bytes files may have: records of Bytes below
    Exts,           \* file extensions, in lower case; "pof" is the one that matters
    Archives,       \* the archives a behaviour may start with: sequences over Original
    Configs,        \* the settings: [minimum_size, ignore_list, fix_pof, tag_c_vps]
    PofGrowth,      \* what align_pof adds to the size of a file
    JunkSizes,      \* what the last 8 bytes of a file that is no LZ41 may say of a size
    RenameMayFail,  \* somebody has the tagged name open
    MaxCommands     \* bound on the commands of a behaviour

\* magic: how many bytes of "LZ41\0" a file begins with, as far as the code looks; version:
\* the int at byte 4; coded: what lz41_compress_memory returns for it, an error code or a
\* length (the coder is deterministic).
Bytes == [id : Ids \cup {"none", "junk"}, size : Nat, version : Int, coded : Int, magic : {0, 4, 5}]

ASSUME CommandsAssumption ==
    /\ Files \subseteq Bytes
    /\ \A b \in Files : b.size > 0
    /\ MaxCommands \in Nat /\ PofGrowth \in Nat
    /\ JunkSizes \subseteq Nat
    /\ RenameMayFail \in BOOLEAN
    /\ \A c \in Configs : c.minimum_size \in Int /\ c.ignore_list \subseteq Exts

VARIABLES
    archive,        \* the entries of the VP on disk, input of the next command
    tags,           \* how many "_vpc" its name ends in
    pc,
    config,         \* of the running or last compress_vp
    x,              \* the entry a command is at
    out,            \* the entries written so far
    is_compressed,
    first,          \* history: the archive before the first command
    last,           \* history: the last finished command and the settings at that time
    commands        \* history: how many commands were started

hist == <<first, last, commands>>
vars == <<archive, tags, pc, config, x, out, is_compressed, hist>>
-----------------------------------------------------------------------------
NoBytes == [id |-> "none", size |-> 0, version |-> 0, coded |-> 0, magic |-> 0]

\* The bytes of an entry: a file, coded so many times over.
Plain(b) == [layers |-> 0, of |-> b]
Coded(data) == [data EXCEPT !.layers = @ + 1]
Decoded(data) == [data EXCEPT !.layers = @ - 1]

IsPacked(data) == data.layers > 0

\* Coding coded bytes again may save a little more.
Size(data) == IF IsPacked(data) THEN data.of.coded - (data.layers - 1) ELSE data.of.size
Magic(data) == IF IsPacked(data) THEN 5 ELSE data.of.magic

\* An index entry with the bytes it points at. lower: the extension is in lower case.
Entry(ext, lower, data, timestamp) ==
    [ext |-> ext, lower |-> lower, data |-> data, filesize |-> Size(data),
     timestamp |-> timestamp]

\* Archives that other tools may have made: directories and empty files, files with plain
\* or coded bytes, and files that have no timestamp.
Folders == {Entry("none", TRUE, Plain(NoBytes), t) : t \in {0, 1}}
PlainFiles == {Entry(e, l, Plain(b), 1) : e \in Exts, l \in BOOLEAN, b \in Files}
CodedFiles ==
    {Entry(e, l, Coded(Plain(b)), 1) :
        e \in Exts, l \in BOOLEAN, b \in {f \in Files : f.coded > 0}}
Untimed == {Entry("none", TRUE, Plain(b), 0) : b \in Files}

Original == Folders \cup PlainFiles \cup CodedFiles \cup Untimed

ASSUME ArchivesAssumption == Archives \subseteq Seq(Original)

Init ==
    /\ archive \in Archives
    /\ tags = 0
    /\ pc = "idle"
    /\ config \in Configs
    /\ x = 1
    /\ out = <<>>
    /\ is_compressed = FALSE
    /\ first = archive
    /\ last = [command |-> "none", config |-> config]
    /\ commands = 0

\* read_vp_header: the header is there if write_vp_file was ever called, so an archive
\* without entries comes out as an empty file, which is no VP any more.
IsVp == archive # <<>> \/ commands = 0

\* Both functions: open the files, load the index, start an output without entries.
Start(command) ==
    /\ pc = "idle"
    /\ IsVp
    /\ commands < MaxCommands
    /\ commands' = commands + 1
    /\ pc' = command
    /\ x' = 1
    /\ out' = <<>>
    /\ is_compressed' = FALSE
    /\ UNCHANGED <<archive, tags, first, last>>

\* Both functions leave an empty output and return.
NotAVp ==
    /\ pc = "idle"
    /\ ~IsVp
    /\ commands < MaxCommands
    /\ commands' = commands + 1
    /\ out' = <<>>
    /\ UNCHANGED <<archive, tags, pc, config, x, is_compressed, first, last>>

At(command) == pc = command /\ x <= Len(archive)

\* The third condition, offset != 0, holds of everything behind the header.
IsFile(e) == e.filesize # 0 /\ e.timestamp # 0

\* Mutant of Written: a folder is what has no size or no timestamp.
WrittenAsFolder(e) ==
    IF e.filesize = 0 \/ e.timestamp = 0
    THEN [e EXCEPT !.data = Plain(NoBytes), !.filesize = 0, !.timestamp = 0]
    ELSE e

\* What write_vp_file makes of its arguments: no size and no timestamp is a folder.
Written(e) ==
    IF e.filesize = 0 /\ e.timestamp = 0 THEN [e EXCEPT !.data = Plain(NoBytes)] ELSE e

WriteEntry(e) ==
    /\ out' = Append(out, Written(e))
    /\ x' = x + 1

Stay == UNCHANGED <<archive, tags, pc, config, hist>>

\* Both loops hand NULL to write_vp_file for what they do not take for a file: harmless
\* when there is nothing to write, the end of the process otherwise.
WriteNull(command) ==
    /\ At(command)
    /\ ~IsFile(archive[x])
    /\ archive[x].filesize = 0
    /\ WriteEntry(archive[x])
    /\ Stay /\ UNCHANGED is_compressed

WriteFromNull(command) ==
    /\ At(command)
    /\ ~IsFile(archive[x])
    /\ archive[x].filesize # 0
    /\ pc' = "died"
    /\ UNCHANGED <<archive, tags, config, x, out, is_compressed, hist>>

-----------------------------------------------------------------------------
(* compress_vp *)

StartCompress == Start("compress") /\ config' \in Configs

\* std::transform(.., ::tolower), in place in the index.
LowerExt(e) == [e EXCEPT !.lower = TRUE]

\* Mutant of AlreadyCompressed: the check is missing.
NeverCompressed(e) == FALSE

\* memcmp(LZ41_FILE_HEADER, file, sizeof(LZ41_FILE_HEADER)): five bytes.
AlreadyCompressed(e) == Magic(e.data) = 5

KeepCompressed ==
    /\ At("compress")
    /\ IsFile(archive[x])
    /\ AlreadyCompressed(archive[x])
    /\ WriteEntry(LowerExt(archive[x]))
    /\ Stay /\ UNCHANGED is_compressed

\* Mutant of Aligned: the version in the file stays 2117.
AlignedOldVersion(b) ==
    [id |-> b.id, size |-> b.size + PofGrowth, version |-> 2117,
     coded |-> b.coded + PofGrowth, magic |-> b.magic]

\* align_pof of a file of version 2117.
Aligned(b) ==
    [id |-> b.id, size |-> b.size + PofGrowth, version |-> 2200,
     coded |-> b.coded + PofGrowth, magic |-> b.magic]

FixPof(e) ==
    IF e.ext = "pof" /\ config.fix_pof /\ e.data.of.version = 2117
    THEN Entry(e.ext, e.lower, Plain(Aligned(e.data.of)), 2)
    ELSE e

\* The entry as it is when compression is decided; a file without extension is left alone.
Prepared == FixPof(LowerExt(archive[x]))

Selected(e) ==
    /\ e.ext # "none"
    /\ e.ext \notin config.ignore_list
    /\ e.filesize >= config.minimum_size

\* Mutant of Worthwhile: everything that could be coded is kept coded.
CodedAtAll(e) == Size(Coded(e.data)) > 0

\* newsize, the result of lz41_compress_memory, is neither an error nor too large.
Worthwhile(e) == LET newsize == Size(Coded(e.data)) IN newsize > 0 /\ newsize < e.filesize

CompressEntry ==
    /\ At("compress")
    /\ IsFile(archive[x])
    /\ ~AlreadyCompressed(archive[x])
    /\ Selected(Prepared) /\ Worthwhile(Prepared)
    /\ WriteEntry(Entry(Prepared.ext, Prepared.lower, Coded(Prepared.data), Prepared.timestamp))
    /\ is_compressed' = TRUE
    /\ Stay

KeepPlain ==
    /\ At("compress")
    /\ IsFile(archive[x])
    /\ ~AlreadyCompressed(archive[x])
    /\ ~(Selected(Prepared) /\ Worthwhile(Prepared))
    /\ WriteEntry(Prepared)
    /\ Stay /\ UNCHANGED is_compressed

\* Close the files and rename the output; a failing rename is caught.
EndCompress ==
    /\ pc = "compress"
    /\ x > Len(archive)
    /\ archive' = out
    /\ pc' = "idle"
    /\ \/ tags' = IF is_compressed /\ config.tag_c_vps THEN tags + 1 ELSE tags
       \/ RenameMayFail /\ tags' = tags
    /\ last' = [command |-> pc, config |-> config]
    /\ UNCHANGED <<config, x, out, is_compressed, first, commands>>

-----------------------------------------------------------------------------
(* decompress_vp *)

StartDecompress == Start("decompress") /\ UNCHANGED config

\* strcmp of four bytes and a NUL that the function has put there itself.
LooksCompressed(e) == Magic(e.data) >= 4

\* Mutant of Unpacked: the bytes that were read are written back.
NotUnpacked(e) == e

\* The entry with the decoded bytes and the original size from behind the jump table.
Unpacked(e) == Entry(e.ext, e.lower, Decoded(e.data), e.timestamp)

DecompressEntry ==
    /\ At("decompress")
    /\ IsFile(archive[x])
    /\ LooksCompressed(archive[x]) /\ IsPacked(archive[x].data)
    /\ WriteEntry(Unpacked(archive[x]))
    /\ Stay /\ UNCHANGED is_compressed

Junk(n) == [id |-> "junk", size |-> n, version |-> 0, coded |-> 0, magic |-> 0]

\* lz41_decompress_memory fails, and as many uninitialised bytes are written as the end of
\* the file happens to say, if malloc can give them.
DecompressJunk ==
    /\ At("decompress")
    /\ IsFile(archive[x])
    /\ LooksCompressed(archive[x]) /\ ~IsPacked(archive[x].data)
    /\ \/ \E n \in JunkSizes :
            /\ WriteEntry(Entry(archive[x].ext, archive[x].lower, Plain(Junk(n)),
                                archive[x].timestamp))
            /\ UNCHANGED pc
       \/ pc' = "died" /\ UNCHANGED <<x, out>>
    /\ UNCHANGED <<archive, tags, config, is_compressed, hist>>

CopyEntry ==
    /\ At("decompress")
    /\ IsFile(archive[x])
    /\ ~LooksCompressed(archive[x])
    /\ WriteEntry(archive[x])
    /\ Stay /\ UNCHANGED is_compressed

TagsLeft == IF tags > 0 THEN tags - 1 ELSE 0

\* The output's name loses one "_vpc".
EndDecompress ==
    /\ pc = "decompress"
    /\ x > Len(archive)
    /\ archive' = out
    /\ pc' = "idle"
    /\ tags' = TagsLeft
    /\ last' = [command |-> pc, config |-> config]
    /\ UNCHANGED <<config, x, out, is_compressed, first, commands>>

Ended == (pc = "died" \/ (pc = "idle" /\ commands = MaxCommands)) /\ UNCHANGED vars

Next ==
    \/ NotAVp
    \/ StartCompress \/ KeepCompressed \/ CompressEntry \/ KeepPlain \/ EndCompress
    \/ StartDecompress \/ DecompressEntry \/ DecompressJunk \/ CopyEntry \/ EndDecompress
    \/ \E command \in {"compress", "decompress"} : WriteNull(command) \/ WriteFromNull(command)
    \/ Ended

Spec == Init /\ [][Next]_vars
-----------------------------------------------------------------------------
(* Properties *)

\* Files whose own bytes, coded or not, do not begin with "LZ41".
Healthy(e) == e.data.of.magic = 0

\* Every variable has its type.
TypeOK ==
    /\ \A s \in {archive, out, first} : \A i \in 1..Len(s) :
         s[i].ext \in Exts \cup {"none"} /\ s[i].filesize \in Nat /\ s[i].timestamp \in 0..2
    /\ tags \in 0..MaxCommands /\ commands \in 0..MaxCommands
    /\ pc \in {"idle", "compress", "decompress", "died"}
    /\ config \in Configs
    /\ x \in 1..(Len(archive) + 1) /\ Len(out) <= Len(archive)
    /\ is_compressed \in BOOLEAN
    /\ last \in [command : {"none", "compress", "decompress"}, config : Configs]

\* Whatever commands are run with whatever settings, and at every moment of a command,
\* decoding each entry written gives the file there was at first, or that file as
\* align_pof converts it, and the index has the right size for it.  Nothing is ever
\* coded twice, and nothing is lost by a decoder that looks at fewer bytes.
Same(now, before) ==
    /\ now.filesize = Size(now.data)
    /\ now.data.of \in {before.data.of, Aligned(before.data.of)}
    /\ now.data.layers <= 1

ContentKept ==
    \A s \in {archive, out} : \A i \in 1..Len(s) : Healthy(first[i]) => Same(s[i], first[i])

\* Directories and files stay what they are, in their order and under their names, also
\* the damaged ones: the nesting of a VP is in the order of its index.
IsFolder(e) == e.filesize = 0 /\ e.timestamp = 0

TreeKept ==
    /\ Len(archive) = Len(first)
    /\ \A i \in 1..Len(archive) :
         /\ archive[i].ext = first[i].ext
         /\ IsFolder(archive[i]) <=> IsFolder(first[i])

\* Decompression leaves nothing coded, whatever settings it had been coded with.
NothingStaysPacked ==
    (pc = "idle" /\ last.command = "decompress")
        => \A i \in 1..Len(archive) : ~IsPacked(archive[i].data)

\* README.md: "files that end up bigger than original are ignored".  No entry is larger
\* after compress_vp than before, but for what converting a pof adds.
NeverGrows ==
    [][(pc = "compress" /\ pc' = "idle") =>
        \A i \in 1..Len(archive) :
            archive'[i].filesize <=
                archive[i].filesize + (IF archive'[i].data.of # archive[i].data.of
                                       THEN PofGrowth ELSE 0)]_vars

\* Compressing again with the same settings changes nothing: no second conversion, no new
\* timestamps, no second tag.
SecondTimeIsIdle ==
    [][(pc = "compress" /\ pc' = "idle" /\ last = [command |-> "compress", config |-> config])
        => archive' = archive /\ tags' = tags]_vars
=================================================================================
