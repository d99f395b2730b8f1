# VPC VP Compressor: models, checks and proofs

VPC compresses the archives ("VP files") of a game engine and single files with LZ4, in
a container called LZ41, and decompresses them again. This directory holds TLA+ models
of the program, the TLC configurations that check them on small instances, and proofs,
checked by TLAPS, of the safety properties for every value of the constants.

Every definition that stands for code names its lines in `PROJECT.json` ("map"). A
definition whose comment begins with "Mutant of X" is no part of the model: it is X with
a plausible bug, kept beside X so that each property can be seen to fail.

## 1. The system

### Components

| component | code | state | operations |
|---|---|---|---|
| LZ41 codec | `lz41_compression.cpp:26-485` | block loop, jump table, LZ4 stream, output buffer | `lz41_compress_memory`, `lz41_stream_compress`, their `_HC` twins, `lz41_decompress_memory`, `lz41_stream_decompress` |
| VP archive | `lib/vp/vp.cpp`, `vp.h` | the file, the caller's index array, `*index_offset`, `*num_files` | `write_vp_file` and its two helpers; `read_vp_header`, `load_vp_index`, `load_vp_file` |
| VP commands | `lz41_compression.cpp:658-915` | input index, output, `is_compressed`, name of the output | `compress_vp`, `decompress_vp` |
| single-file commands | `lz41_compression.cpp:487-656` | input, output, decision to code or to copy | `compress_single_file`, `decompress_single_file` |
| folder batches and gauges | `VP Compressor.cpp:514-549, 576-653, 705-735` | thread vector, `thread_number`, `THREAD_INFO` slots, log | `compress_folder`, `compress_file`, `ui_gauges` |
| context-menu rendezvous | `VP Compressor.cpp:196-396` | `wincomp.tmp`, `windecomp.tmp`, one process per selected file | `windows_compress_cmd_new`, `windows_decompress_cmd_new` |
| decompression loops | `VP Compressor.cpp:551-573, 655-689` | none | `decompress_folder`, `decompress_file` |
| POF aligner | `lib/pof/aligner.cpp` | input and output position, one buffer | `align_pof` and its chunk copiers |
| configuration, command line | `VP Compressor.cpp:36-118, 737-814` | `LZ41CONFIG` | `load_config`, `parsecmd`, `main` |
| legacy menu commands | `VP Compressor.cpp:120-194, 398-512` | none of its own | `windows_compress_cmd`, `windows_decompress_cmd`, called by nobody |
| LZ4 block coders | `lib/lz4/lz4.cpp:851-1637`, `lz4hc.cpp:117-900, 1256-1590` | input and output position, hash table, matches in negotiation, price table | `LZ4_compress_fast_continue`; `LZ4HC_compress_hashChain`, `LZ4HC_compress_optimal` |
| LZ4 HC match search | `lib/lz4/lz4hc.cpp:82-458` | hash table and chain table | `LZ4HC_Insert`, `LZ4HC_InsertAndGetWiderMatch` |
| LZ4 block decoder | `lib/lz4/lz4.cpp:406-506, 1706-2359` | positions in block and output, prefix, dictionary | `LZ4_decompress_generic`, `LZ4_decompress_safe_continue` |
| LZ4 frame, xxHash | `lib/lz4/lz4frame.cpp`, `xxhash.cpp` | vendored | not used by the program |

### How they interact

* `compress_folder` creates one thread per file: `compress_vp` for VPs,
  `compress_single_file` for the rest. The thread shares `config` (read only), the log,
  and one `THREAD_INFO` with `ui_gauges`; nothing is locked.
* `compress_vp` reads the input's index, decides entry by entry, calls `align_pof` and
  the codec, and adds each entry to the output with `write_vp_file`. At the end it may
  rename its output; names are the only thing two workers can fight over.
* The context menu starts one *process* per selected file. The processes find each other
  through a file next to the executable and three seconds of sleep; the one that created
  the file then works like `compress_folder` on all the paths in it.

### What is hard

* **Concurrency without locks**: slots that are reused from batch to batch and come
  uninitialised from `malloc`; a gauges thread that must stop by itself; a rename that
  may hit another worker's output.
* **Races between processes**: test for a file, then create it; sleep instead of
  synchronisation; processes that are killed or come late.
* **A file that is inconsistent in between**: `write_vp_file` puts new data over the old
  index after it has already announced the new one.
* **Buffers sized by formulas**: `LZ4_compressBound(..) * 1.5`, `bound / block_size +
  block_size`, a table that is written first and checked afterwards.
* **A format that is read from its end**: every position the decoder uses is computed
  from the last twelve bytes.
* **Counters kept by hand**: `align_pof` advances two positions, the size it returns and
  the sizes it patches in by separate statements in each of ten branches, and recomputes
  the offsets inside a tree whose nodes grow.
* **Coders that go back**: the HC coders negotiate the borders of up to three overlapping
  matches, take up matches they had dropped, and search behind positions they have
  already put into their tables; the optimal one keeps prices in a table of fixed size.
* **Copies wider than what they are for**: the decoder copies 8, 16, 18 or 32 bytes at a
  time, over bytes it is still to write, near the end of a buffer it must not leave.
* **Room by estimate**: each coder tests for room with its own formula before it knows
  what a sequence takes.
* **Runs that are killed**, started again on what the last one left half written, with
  settings that may have changed.
* **Long sequences of commands** with changing settings on one archive: what one command
  takes for compressed, converted or a folder, the other must take for the same.

### What makes each component correct

| component | correctness |
|---|---|
| codec | the table stays in its allocation for any `block_size`; the output stays in the caller's buffer; each block decodes without a dictionary; decoding gives the original bytes, piece by piece |
| archive | no write touches the bytes of an earlier entry; between calls a reader gets exactly the list of entries that were added |
| VP commands | contents survive any sequence of commands; entries stay in order, folders stay folders; compression never enlarges, is idempotent; decompression leaves nothing coded; the tag tells the truth |
| batches | slots are exclusive; everyone is joined before slots, log or config go; every file gets its worker; the command ends; no output is lost |
| rendezvous | one process collects; no file is worked on twice; a collecting process keeps its file; every selected file is served |
| single-file commands | output decodes to the input; a file that is not worth it is copied whole; a run that ends has left nothing half written |
| LZ4 coders | every block is one the decoder turns into the text; nothing outside of input, output, hash and price table is touched; every call returns; `LZ4_compressBound` is enough |
| LZ4 search | a match is returned, or nothing; the shortcuts miss no longer one |
| LZ4 decoder | the bytes of the text, whatever the copies do; nothing behind the output; damaged blocks are never taken for whole ones |
| POF aligner | converted chunks are the original ones, padded; offsets inside them still point at the same nodes; the buffer is large enough |
| configuration | what is let through satisfies what the others assume |

The hazards, each at its line and with the properties that would notice it, are listed
in `PROJECT.json`.

LZ4 is vendored, but it is two thirds of the code that runs, and the program's buffers
and its round trip rest on what it promises; it is the version in this repository that is
modelled.

## 2. The modules

    VpArchive   <-- refinement --  VpWriter  <-- VpWriterProofs
    Lz41        <-- MCLz41, Lz41Proofs
    Batch       <-- MCBatch, ConcurrencyProofs
    Rendezvous  <-- MCRendezvous, ConcurrencyProofs
    VpCommands  <-- MCVpCommands, VpCommandsProofs
    PofAligner  <-- MCPofAligner, PofAlignerProofs
    Program     <-- MCProgram, ProgramProofs

    Lz4Text <- Lz4Block <- Lz4Coder <- Lz4Fast ----------- Lz4Compress <- MCLz4, Lz4Proofs
        |          |            ^----- Lz4Hc <- Lz4Opt -------'
        |          |                     |
        |          |                     | Wider: the contract of the search
        |          |                     |
        |          '<- refinement - Lz4Decoder <- MCLz4Decoder, Lz4DecoderProofs
        '---- Lz4Wider <- Lz4HcMatch <- MCLz4HcMatch, Lz4Proofs

The modules compose by what they promise, not by INSTANCE: `VpCommands` takes an archive
for the list `VpArchive` describes, which `VpWriter` is shown to implement, and takes
coding followed by decoding for the identity, which is `Lz41`'s `RoundTrip`, and
`align_pof` for a change of version and size, whose inside is `PofAligner`; `Batch`
takes a worker by what it does to shared state, and `Program` by what it does to files.
The LZ4 modules do use INSTANCE and EXTENDS: the three coders are one specification,
`Lz4Compress`, which implements the abstract coder of `Lz4Block` action by action, and
`Lz4Decoder` implements its reader.

### Lz41

One behaviour codes one file and decodes the result. `CompressBlock` is one turn of the
loop (read, code, append the offset, compare with `max_blocks`), `CompressFails` its
error return, `WriteTail` the jump table and trailer. `ReadTable`, `OffsetsMismatch` and
`EmptyOriginal` are the decoder up to its loop, `DecodeBlock` one turn of that. `api`
says which of the two decoders reads the result: they differ in an empty original.

Bytes are abstracted: the compressed file is a map from addresses to cells, and a cell
is the header, a coded block, or one integer. A block cell remembers which bytes it
codes and whether it needs a dictionary, so all address arithmetic is the code's own and
a wrong address finds no cell, or the wrong one. LZ4 is a choice of any length in
`CodedLengths` up to that of a literal run, which is what LZ4 emits when it finds no
match; below 13 bytes it looks for none.

### VpArchive and VpWriter

`VpArchive` is what `vp.h` promises: a list, and a call that adds an entry at its end.
`VpWriter` is `write_vp_file` one stdio write at a time: `BeginFile` or `BeginFolder`
registers the entry in the caller's array, `WriteHeader` announces the new index,
`WriteData` puts the data where the old index began, `WriteEntry` writes one entry of
the index. `Seek` is `fseek` with its limit: beyond it the position stays where it was.
The reader is the operators `Loaded` and `ContentOf`, and the refinement maps the
abstract list to what a reader would get (`Visible`).

### VpCommands

Commands run one after the other, each on the output of the previous one, each with any
settings. One action per way an entry can go through the loop: `KeepCompressed`,
`CompressEntry`, `KeepPlain`, `DecompressEntry`, `DecompressJunk`, `CopyEntry`,
`WriteNull` (folders and empty files), `WriteFromNull` (an entry with a size but no
timestamp: `NULL` is passed on as its data and the process ends). Bytes are a file and
the number of times it has been coded; a file has a size, a coded size (or error), the
POF version, and the number of its first bytes that agree with "LZ41\0", because the two
commands compare five and four of them. Files that begin with "LZ41" without being coded
are in the model; the properties about contents exclude them by name (`Healthy`).

### PofAligner

One behaviour converts one file of version 2117, the only one the callers hand over. The
file is its chunks, each with an address and a size, and their parts: strings, data of
fixed size, tree nodes, BSP chunks. `CopyOther`, `CopySLC2` and `CopyPINF` copy a chunk
whole; `BeginTable` and `EndTable` are the beginning and the end, the same in all six, of
the branches for `FUEL`, `GLOW`, `SPCL`, `TXTR`, `DOCK` and `PATH`, and `CopyFuel` to
`CopyPath` what each of them does for a part, with its own statements for the input, the
output and the count (`Move`); `BeginOBJ2` to `EndOBJ2` stand for `OBJ2` and `SOBJ`; `BeginSLDC` to `EndSLDC` for
the tree and its conversion, with `Walk` as one turn of the loop that finds a back
offset. All of the code's positions and counters are variables. An action is enabled
only where the position is the address of a part: a position anywhere else is
`Misplaced`, and the code would read rubbish there. `FileOK` is the format as the code
understands it, with one text of properties in an object and strings of at most
`NameSize` bytes, the length of the buffer each of them is copied into; a file that
breaks it is outside of the model.

### Batch

The main thread (`StartWorker`, `SkipFile`, `EndOfDirectory`, `JoinWorkers`,
`ResetBatch`, `FolderDone`), the workers (`Open` to `SingleFinished`), and the gauges
(`UiWake`, `UiLook`, `UiAdd`, `UiDecide`) interleave at single loads and stores of
shared slots. `ti` starts with any record of `Garbage`, because `malloc` runs no
initialisers. An output is `Partial` from `fopen` to `fclose`, which for a file without a
VP header or one that cannot be opened is all it ever is. A worker's rename moves what is
at its name; it may replace another output, be refused because somebody holds the new
name open, or not be attempted; `Taggings` has directories in which the tagged name of
one file is the name of the next. `NullClosed` (`fclose(NULL)` for a `.vp` that cannot be
opened) and `CopyThrows` end the process under everybody (`main = "crashed"`).

### Rendezvous

One action per step of a process at which another may come between: the test, the
creation, the buffered line, the wake-up, the opening, the reading, the removal, the
work, and the append of the others. `Kill` ends a process anywhere. Handles matter where
the platform makes them matter: a file somebody holds cannot be removed, and the
exception of `fs::remove` is caught by nobody. `Regimes` states the circumstances of a
behaviour: `staggered` (no process tests while another is about to create) and `patient`
(three seconds outlast what has begun) are what the code hopes for, and each property
names the ones it needs.

### Program

Runs of the program on folders of single files. Run `k` reads what run `k - 1` has
written, so that a file is compressed, handed on, and compressed again or decompressed by
a run with other settings. `OpenConfig`, `CreateConfig` and `WriteConfig` are
`load_config`: several runs may find no ini file and create it one over the other, and
the lines reach the disk when the stream is closed. `EditIni` is the user. `BeginCommand`,
`NextFile`, `JoinBatch` and `EndCommand` are the loops over a folder, with batches of
`max_threads` workers. `OpenFiles`, `Skip`, `Code`, `CodeFails`, `Decode`, `Copy` and
`CopyThrows` are `compress_single_file` and `decompress_single_file`; `CodeSome` is the
disk while the coder writes, which a kill lays open. `Kill`, `Restart` and throwing copies
share a bound, `MaxFailures`. A file is what it holds and how (`Plain`, `Packed`, `Part`,
`NoFile`); that a coded file decodes to what was coded is `Lz41`'s `RoundTrip`.

`FilesKept` excuses files that cannot be read or copied, files with nothing in them, and
plain files that begin with the LZ41 header. Files without an extension are left out by
the folder commands, since `strstr(list, "")` finds them in the list of ignored
extensions; `Eligible` says so, although the README speaks of "all the files".

### Lz4Text, Lz4Block and Lz4Wider

`Lz4Text` is what coders and decoder have in common: the dictionary and the text as one
list of bytes, the constants of the format, and how far two places agree. `Lz4Block` is
the abstract specification: `Emit` adds a sequence whose match repeats earlier bytes and
obeys the rules about the end of a block, `LastLiterals` ends the block, `Refuse` gives
up where that is allowed, and `ReadSequence` decodes the next sequence. `size` is what
the sequences take in bytes. `Lz4Wider` states which matches an HC search may return.

### Lz4Coder, Lz4Fast, Lz4Hc, Lz4Opt and Lz4Compress

`Lz4Coder` is the frame of a call: `BeginCall`, `AddSequence`, `GiveUp`,
`WriteLastLiterals`, for the three directives (`notLimited`, `limitedOutput`,
`fillOutput`). `Lz4Fast` has one action per turn of the search loop and per piece of a
sequence (`SearchMisses`, `SearchHits`, `EncodeLiterals`, `EncodeMatch`, `TestHits`,
`TestMisses`); its hash table is the set of positions put into it, and a lookup returns
any of them, which covers every hash function and collision. `Lz4Hc` has `SearchFirst`,
`SearchSecond`, `Thirds` and the five ways the negotiation of three matches can go;
`Lz4Opt` the price table (`OptSearch`, `PriceSkips`, `PriceMatch`, `PriceEnds`), the walk
back (`GoBack`) and the encoding (`EmitSequence`). Both take the search by its contract.
`top` is no variable of the code: it is how far the output has been written at most, the
wide copies of `LZ4_wildCopy8` and `LZ4_write32` and sequences given up included.
`gap`, `accel`, `enough`, `full` and `favor` are the parameters that the levels set.

### Lz4HcMatch

One behaviour is one call of the search: `FollowChain` is a turn of its loop,
`BeginSwap`, `TryPosition` and `SwapChain` the change to the chain of an inner position,
with one step per position the inner loop tries, `JumpToEnd` and `JumpToBegin` the jumps
in a run of one byte, `FollowDict` the loop over the tables of another stream. The chain
table is what `LZ4HC_Insert` makes of the positions before the search. A call is to beat
a length greater than what it may look back (`SearchAssumption`), as all callers do.
`FindsLongest` does not hold where a jump in a run passes a match that begins further
in front, and excludes it; matches nearer than 8 bytes do not count with `favor`.

### Lz4Decoder

`Code` is the abstract coder: any block of the text, whose bytes it appends to `src`.
`Begin` cuts off what is to be missing, answers the calls that need no loop (no output, or
an empty block) and hands the rest to the decoder, whose memory is addresses with bytes, the prefix, the output and a fence behind it.
`FastLiterals`, `FastMatch` and `FastCopy` are the fast loop, `Shortcut`, `SafeLiterals`,
`CopyLiterals`, `MatchLength`, `CopyMatch` and their variants the careful one. Each copy
is of the width the code gives it, and what an overlapping `memcpy` leaves is
`Undefined`. The refinement maps what has been decoded to the addresses up to the last
whole sequence.

## 3. The runs

| run | checks | states | what it shows |
|---|---|---|---|
| `Lz41` | `TableInBounds`, `RoundTrip`, `CmpBufFits`, `OutBufferFits` | 24,827 | all sizes 0-6 against all blocks 1-4, real sizes one byte either side of block ends, a block LZ4 refuses |
| `VpWriter` | `DataIntact`, `ImplementsArchive` | 6,541 | archives of up to three entries, folders and empty files among them, at every moment between two writes |
| `Batch` | `SlotExclusive`, `JoinedBeforeReuse`, `EveryFileDone`, `OutputsKept`, `Terminates` | 1,135,245 | every directory of three files of six types, the tagged name of one or two being the name of another, two threads: a full batch, its reset and a partial one |
| `Rendezvous` | `OneCollector`, `AtMostOnce`, `SleeperKeepsFile`, `CompressionServed` | 23,076 | three processes under four regimes, one of them with a kill |
| `VpCommands` | `ContentKept`, `TreeKept`, `NothingStaysPacked`, `NeverGrows`, `SecondTimeIsIdle` | 30,943 | every archive of one entry and pairs of common ones, three commands, four settings |
| `PofAligner` | `NeverLost`, `SizesTell`, `CopiedIsOut`, `AllAligned`, `OffsetsFollow`, `OutputFits` | 6,723 | files of a usual chunk and up to two more: every branch with several elements, lengths with every remainder, trees of four shapes |
| `Lz4` | `StaysInRoom`, `ReadsInside`, `TableFits`, `ImplementsBlock`, `Delivers`, `SearchesForward` | 42,547 | three coders, three directives, outputs from nothing to the bound, dictionaries in three places |
| `Lz4Decoder` | `WritesInside`, `AnswersRight`, `ImplementsReader` | 38,937 | periods 1 to 17, both loops, all dictionary modes, outputs too small, blocks cut off |
| `Lz4HcMatch` | `KeepsContract`, `FindsLongest`, `ReadsWords` | 118,427 | all pasts of nine bytes out of two, three modes, the flags the coders use |
| `Program` | `FilesKept`, `SettingsAgree` | 1,224,937 | four folders of two files, two runs, five ini files, two failures |
| `BatchUsedSlots` | `Terminates` | violated | finding 1 |
| `RendezvousDecomp` | `DecompressionServed` | violated | finding 2 |

The type invariants are not run again, since they are proved for all constants: `TypeOK`
of each module by its theorem `TypeCorrect`, that of `Rendezvous` by
`RendezvousTypeCorrect`, and those of `Lz4Block`, `Lz4HcMatch`, `Lz4Decoder` and
`Program` with the invariants they are part of (`BlockTypeCorrect`, `SearchInvariant`,
`DecoderInvariant`, `Invariance`).

### Bounds

* `Lz41`: files of 0 to 6 bytes with blocks of 1 to 4 give every relation of size, block
  and last block, up to six blocks. Real sizes add what depends on constants: 255 in the
  bound, 13 in the match search, `LZ4_MAX_INPUT_SIZE`. `CodedLengths` contains what the
  literal runs of these sizes need and one or two shorter lengths.
* `VpWriter`: sizes 0, 1, 3 and 5 are less than, about as large as, and larger than an
  index of one or two entries (`EntrySize = 2`, 44 in the code), which decides how far
  data reaches over the old index; three entries give two generations of overwriting.
  `SeekMax = 31` is reached by the larger archives; beyond it `DataIntact` claims
  nothing, and the proof has it as a constant.
* `Batch`: three files and two threads are the least with a second batch, and with a chain
  of three output names in two batches; a VP of no entries and of two covers the loop with
  its stale counter.
* `Rendezvous`: three processes are a collecting one, a late one, and the next collector.
* `VpCommands`: entries do not interact except through `is_compressed`, so single entries
  and pairs suffice; three commands reach compress, decompress and compress again and
  every pair of settings in succession. `JunkSizes` and `PofGrowth` are representatives.
* `PofAligner`: a chunk leaves only positions and the last header behind, so pairs of
  chunks reach what chunks can do to each other. The trees have a leaf or a subtree on
  either side of a node, which gives walks of one to three nodes. `OutputFits` is for
  files as `Proportioned` describes them: a first chunk of usual size, one tree at most
  half as large as the file, one PINF. A file of a few bytes with nothing but PINF would
  exceed twice its size; no editor writes one.
* `Lz4`: `DistanceMax = 340` lets a match and a run of literals take three bytes for their
  lengths (255 and more) inside one text, and positions that are too far back as well;
  `OptNum = 40` (4,096 in the code) lets matches fill the price table. Texts are pieces
  of the dictionary that overlap, chosen so that every branch of the negotiation and of
  the walk back is taken; rooms stop a coder at every kind of test.
* `Lz4Decoder`: a copy depends on the offset only up to 32 and on lengths up to two
  rounds; periods 1 to 9 and 17 are all the cases of its tables, and the rooms are the
  text's length and 64 more, which is `FASTLOOP_SAFE_DISTANCE`. `least` keeps down the
  number of blocks of longer texts.
* `Lz4HcMatch`: `DistanceMax = 28` against pasts of up to 60 bytes. Nine bytes hold two
  runs and what separates them on either side of a segment's border.
* `Program`: two files are the least in which one fails and the other must not suffer;
  two runs reach every pair of commands. The sizes of the five contents lie on either
  side of `minimum_size` and of their coded size.
* `CHECK_DEADLOCK FALSE` appears where a call or the program may be over: `VpWriter`,
  the three LZ4 runs and `Program`.

### Fairness

`Batch` assumes weak fairness of the main thread, of the gauges thread and of each
worker, and `Rendezvous` of each process: they are operating-system threads and
processes, no step of theirs waits for anything but a join or a sleep, and `sleep_for`
returns. No strong fairness is needed: no step competes for a lock. `Kill` and the
environment have none. `Lz4Compress` and `Lz4Decoder` assume weak fairness of their call,
which runs in one thread and waits for nobody: `Delivers` and `AnswersRight` are about
coders that go back to earlier matches and a decoder of damaged blocks, which could go on
for ever. `Lz4HcMatch` has the same assumption. The other specifications have no liveness
property: one thread runs a loop over a finite list.

## 4. The proofs

18,614 obligations, all discharged, for 59 theorems and 454 lemmas. Each proof defines an
invariant (`IInv`, or a name of its own where a module holds several), proves that it
holds initially, that every step keeps it (one case per action), and that it implies the
properties. The assumptions are the named `ASSUME`s of the modules, which the runs
evaluate: finite sets, positive block sizes and thread counts, records of the right
shape.

* **Lz41Proofs** (`TypeCorrect`, `TableNeverOverflows`, `OutBufferNeverOverflows`,
  `DecoderGivesBack`, `CmpBufNeverOverflows`). The
  properties bound the table and the output, but a step adds to both as long as bytes
  are left, so `IInv` says how far the loop has come (`LoopPosition`: only whole blocks
  were read) and what the blocks may have cost (`Cost`). The rest is integer arithmetic:
  with `b` blocks, `(b - 1) * block_size < size`, so the table has room, and for at
  least 4 bytes and blocks of at least 64 the cost is below one and a half times the
  bound. LZ4's share is that no block is longer than its literal run. For the round trip
  `RInv` says what lies where in the image: block `i` between its two offsets, coded
  alone (`Coded`), and behind the last one the trailer, of which the decoder reads from
  the end (`Trailed`); and that the decoder's position in table and output is that of the
  compressor when it coded the same block (`Progress`). The numbers the decoder computes
  from what it reads are then the compressor's, for every size and block size.
* **VpWriterProofs** (`TypeCorrect`, `DataNeverOverwritten`, `WriterImplementsArchive`). `DataIntact` is not
  inductive, since it does not say where the next write goes; `Layout` does: everything
  stored lies below `*index_offset`, and whatever is written next starts there or
  behind. For the refinement `RInv` adds how far the index has been written behind
  `*index_offset` (`Index`); from both follows that what a reader sees (`Visible`) is a
  function of the caller's array alone (`History`), to which each call appends one
  entry. The theorem assumes `[]Seekable`, that no offset passes `SeekMax`: past it the
  code loses data. For any number of entries, any sizes, any width of the offsets.
* **ConcurrencyProofs**. About `Batch` (`TypeCorrect`, `SlotsNeverShared`, `AllJoined`,
  `NoFileForgotten`, `NoOutputLost`): `Vector` ties the vector of threads to slots and files (distinct slots below
  `thread_number`, whoever runs is in the vector), `Phases` says what the main thread's
  position implies for the others. For any directory, thread count and heap contents.
  `NoOutputLost` is by `OutputsInv`, about groups of files that share their output names
  with nobody else (`Groups`): wherever results move, theirs are at their names and nobody
  else's are (`Placed`), what is at a completed output's name is whole (`Whole`), and from
  the first `fopen` on a group has a whole result in the folder or a worker that is
  writing one (`Kept`). A single file whose names are its own is such a group.

  About `Rendezvous` (`RendezvousTypeCorrect`, `CollectorUnique`, `FileKept`,
  `NeverTwice`): `OneMaster` adds the processes that have decided but not created yet and that the file
  is there while somebody collects; `OnePlace` says that a path is in one place at most
  (the file, one process, or done), with the exception of a collector between reading
  and removing: should it be killed there, its paths stay in both, but the file is never
  read again because nobody becomes the master while it exists. For any number of
  processes and kills, with `staggered` as the only circumstance.
* **VpCommandsProofs** (`TypeCorrect`, `ContentsSurvive`, `TreeSurvives`, `AllUnpacked`,
  `EntriesNeverGrow`, `CompressionIsIdempotent`). An entry is `Sound` when its index
  entry tells the truth about its bytes; every way through a loop keeps it sound and
  keeps what it was at first (`Keeps`). Conversion is applied once because it changes
  the version it depends on. Idempotence needs `Stable`, "compression with these settings
  writes this entry as it is": each action writes stable entries, and on a stable entry
  writes the entry itself. For all archives, files, settings and any number of commands;
  a start archive may contain what other tools have made, as `Original` lists it.

* **PofAlignerProofs** (`TypeCorrect`, `KeepsItsPlace`, `ChunksAreFound`,
  `ReturnsNewSize`, `Aligned`, `OffsetsAreKept`, `BufferSuffices`). `Position` ties the
  input position to the address of the next chunk or part, `Headers` the output to the
  header written last, `Counts` each counter to what lies behind that header. `NodeOK`
  says that node `j` has moved by `3 * (j - 1)` bytes within its tree, and `WalkOK` that
  the walk has added three for each node passed; a back offset is right because the walk
  cannot pass the back node without stopping at it, addresses of nodes being strictly
  increasing. The six branches of tables are shown one by one to read,
  write and count what a part takes (`BranchesCopy`), and are one step from there on.
  For any number of chunks, parts and nodes, lists of any length and any shape of the
  tree; the only assumption is that the file is well-formed (`FilesAssumption`), which
  bounds strings by 260 bytes and nothing else.

  `BufferSuffices` (of `OutputFits`) needs more than the position: a second invariant,
  `Room`, keeps an account of what each chunk leaves over when the output may be twice as
  long as the input. Every chunk but `PINF` and the tree leaves two fifths of its length
  over, and a table or an object some words on top of that (`SpareOfParts`); one without
  parts leaves two thirds. `PINF` and the tree take from it, and since there is one of
  each at most, what they take is the same `Debt` in every file: a constant for `PINF`,
  and for the tree a quarter of the file, because its nodes are 33 bytes at least and grow
  by three (`33 * (i - 1) <= count`). For 200 bytes of file and more the rest covers the
  debt. The two accounts cannot be one: a chunk without contents leaves no words on top,
  and a table no two thirds.

* **Lz4Proofs**, about the abstract coder of `Lz4Block`: `BlockTypeCorrect`,
  `NeverAboveBound`, `TextComesBack`. `BlockInv` says that
  the sequences follow each other without a gap up to `anchor`, that each match repeats
  the bytes it stands for, that `size` is at most what the bound allows for what is
  covered (a whole sequence takes no more than the bytes it stands for and a 255th of
  them; the last literals add two bytes at most to that), and that what has been decoded
  is the text up to the sequence read last. The core is
  `Repetition`: copying with an offset smaller than the length repeats the last bytes,
  so a copied match is the text (`CopiedIsText`). It says something of every length and
  would be an induction; it is shown instead by taking the least index at which the two
  differ (`LeastElement`, from the library's well-foundedness of the naturals) and
  comparing it with the one an offset before. For all texts, dictionaries, offsets,
  matches and outputs.

  About the three coders: `TypeCorrect`, `NeverPastTheEnd`, `ComparesInside`,
  `PricesStayInTable`, `SearchesOnlyForward`, `EveryCoderWritesBlocks` and
  `CodersWithinBound`. The last but one is the refinement: each step of each coder is
  an `Emit`, the `LastLiterals` or a stutter of `Lz4Block`, so that what is proved of the
  abstract coder holds of all of them, `CodersWithinBound` for one: no block is longer
  than `LZ4_compressBound` says. The invariant is `Common`, what the coders share (finished
  sequences leave the room the last literals need, and what they hold
  is a `GoodMatch`: it repeats the text and ends where it may), and one part for each of
  them. `FastInv` follows the fast coder through its loop (`AtSearch`, `AtFound`,
  `AtMatch`, `AtTest`). `HcInv` is about the two and three matches the HC coder holds at
  a time, which may overlap: cutting one at the front or the end must leave a match that
  still repeats the text and is not below four bytes. `OptInv` is about the price table:
  every price that is set tells a way to its position (`PriceInv`), the walk back from
  the best end meets only such positions (`BackInv`), and what is then emitted, in the
  other direction, is that way (`EmitInv`, by the set `Way` of the positions on it). For
  all texts, dictionaries, rooms, levels, table sizes and matches that the contract of
  the search permits.

  `NeverPastTheEnd` is about every byte written, not only about those that stay: `top` is
  the furthest place any copy has touched, also in a sequence that is given up afterwards.
  Of each write there is a lemma that it ends inside (`LiteralsFit`, `OffsetFits`,
  `EndFits`, `LengthWithin`). With a limit this is what the two tests in the middle of a sequence are for:
  the first keeps eight bytes free behind the literals, where a copy of eight at a time
  goes seven too far at most, and eight where there are none; the second the last five
  and a token, where lengths are written four bytes at a time. Without one it is `Fits`, an account of the bound: what is
  written for a part of the text is at most that part, a 255th of it and a constant
  (`CostsFit`), and the end of a block the coder may not search leaves as much over as
  the widest copy goes too far.

  About the search: `SearchInvariant`, `SearchKeepsContract`, `WordsInside` and
  `SearchMissesNone`. `SearchInv` says that the search is at a position of its tables, in
  front of itself (`InTable`), and that what it holds is a match of the contract. What is
  hard is what it takes or goes to without comparing: a run of one byte around the
  candidate is as long as the two counts say (`RunAround`), so what is taken of it is a
  match (`RunIsWider`), and a jump ends at a position that was put into the tables, if
  need be behind the end of a dictionary (`JumpInTable`). The proofs of the two HC coders
  take this contract for what a search returns, so for them it is not taken on trust, but
  for one case that both sides exclude: a dictionary elsewhere together with chain
  swapping, which the optimal coder always asks for (`lz4hc.cpp:1307`). `OptAssumption`
  therefore leaves it to the hash-chain coder to be run with such a dictionary.

  `SearchMissesNone` (of `FindsLongest`) is about what the shortcuts pass over. Its
  invariant `FindInv` does not say that every longer match is still to come, which is
  wrong, but that for each of them one as long is (`Pending`), at or before the place the
  search has come to. The chain it follows is that of its own position or of one inside
  of the match it has (`OnChainOf`); a longer match has the same bytes there, so the
  chain passes none (`ChainPasses`), and neither does the change to the chain whose next
  element is furthest away (`Swapping`). In a run, what lies between the candidate and
  the place a jump goes to reaches no further than that place does, or than what was
  taken (`RunReaches`, `JumpFollows`). That the two bytes `LooksLonger` compares do not dismiss a longer match
  (`OpenIsTaken`) needs a length to beat that is greater than what the search looks back,
  which is why `SearchAssumption` has it. For all texts, limits, flags and modes, with
  one bucket for everything or one for each four bytes.

* **Lz4DecoderProofs**: `DecoderInvariant` and `WritesOnlyInside` (of `WritesInside`). The
  invariant says of each place of the decoder how much of the block and of the output is
  left there (`RoomAt`): 64 bytes in the fast loop, 32 behind its literals, the 12 bytes
  `MFLIMIT` keeps free before a match of the careful one. That a copy writes more than it
  is for is then no harm, because what it writes ends below the fence (`Fenced`), which
  there is one lemma for with each copy: `WildCopy8Inside`, `WildCopy32Inside`,
  `UsingOffsetInside`, `FirstEightInside`, `Copy18Inside`, `LastBytesInside`. Of the block
  the proof uses only that it is made of bytes, so it holds of damaged blocks too; that a
  block of `Lz4Block` is (`SequenceIsBytes`) needs distances of at most 65535, which the
  code demands (`LZ4_DISTANCE_ABSOLUTE_MAX`).

* **ProgramProofs** (`Invariance`, `FilesAlwaysKept`, `SettingsAlwaysAgree`). A run works
  on what another has left, so `IInv` says that a run has begun only when the one before
  it is done (`InOrder`), from which follows that nobody writes what somebody reads: each
  step is `Local` to its run, and the other runs keep their invariant (`LocalStep`).
  Within a run no file falls through between the batches (`Accounted`: one that is no
  longer to come is in the batch or finished, and there always is a free thread, because
  `Clamped` leaves one at least), and a worker that has finished has left the right thing
  (`Worked`). `Agree` needs that reading what `DefaultLines` writes, or an empty file,
  gives the defaults again, for any value of the variable nobody initialises
  (`WrittenIsDefault`). For any files, ini files, runs, commands, kills and failures.

### What is only model-checked

* `Terminates`, `CompressionServed`, `Delivers`, `AnswersRight`: liveness is beyond the
  proof system.
* `ImplementsReader` of the decoder. The theorems about `Lz4Block` say what follows from
  it. Its proof would need to know where in the block each sequence begins, which is a sum
  over the sequences before it.
* Which of its permitted matches LZ4 finds in given bytes, except in `Lz4HcMatch`: the
  other modules leave it open.

## 5. Findings

With a run that violates what the repository says:

1. **`ui_gauges` counts slots nobody has written** (`VP Compressor.cpp:580`). With fewer
   files than `max_threads`, what `malloc` left in the others can keep it, and the
   command, from ending (`BatchUsedSlots`).
2. **The decompressing master cleans up twice** (`VP Compressor.cpp:261`). It removes
   the temporary file once more after its work, when it may be the next master's
   (`RendezvousDecomp`). The compressing twin does not, and `CompressionServed` holds.

Met while modelling; the properties are stated so as not to claim the opposite:

* **The buffer of `compress_vp` is too small for one byte** (`lz41_compression.cpp:744`).
  With `minimum_size=0` and the default block size a file of one byte needs 27 bytes in
  a buffer of 25; the README calls 0 unproblematic. From 4 bytes on it always fits,
  which `OutBufferNeverOverflows` proves for blocks of at least 64 bytes.
* **A tagged output can replace another** (`lz41_compression.cpp:815`): `x.vp` and
  `x_vpc.vp` in one folder with `tag_compressed_vps`; which of the two survives depends on
  the threads. `OutputsKept` says that one of them does.
* **One unreadable archive ends a folder command** (`lz41_compression.cpp:672`):
  `fclose(NULL)`. A single file that cannot be opened is passed over, and leaves an empty
  output that stays open.
* **Two masters** (`VP Compressor.cpp:283`). Test and creation of the temporary file are
  two steps; the regime `staggered` excludes that two processes are between them.
* **Strings of more than 260 bytes in a POF** (`aligner.cpp:80`, and eight times more):
  each is copied into `char name[260]`, which nothing reads, with the length the file
  says. Texts of properties can be longer. The model's files have none that are.
* **An archive of compressed files is not tagged** (`lz41_compression.cpp:811`).
  `is_compressed` says what this run has done, the README speaks of what the archive
  contains.
* **Files without an extension are left out** by the folder commands (`VP
  Compressor.cpp:614`), since the empty string is found in every list.
* **A killed run leaves outputs that look done**: a half-written file has its final name.
  `FilesKept` is about runs that have ended; a file found with the LZ41 header and no
  table is copied by the next compression as "already compressed".
* **Chain swapping with an external dictionary** (`lz4hc.cpp:323`) may read the chain of
  a position that was never inserted and arrive at four bytes that lie astride the
  dictionary's end, where the code has an assertion. The program resets its streams and
  has no dictionary, so it cannot happen here; `SearchAssumption` excludes it, and
  `OptAssumption` the optimal coder with such a dictionary.

## 6. What is not modelled

* The frame format and xxHash, which nothing calls.
* Of LZ4's blocks: the optimal coder with a dictionary elsewhere, what happens to indices after 2 GB of one stream, tables of 16 bits
  and of pointers (the continuing calls use neither), the outer loops of the `destSize`
  functions, `LZ4_decompress_fast`, and the setters and deprecated names of the API.
* The bytes of a POF, and with them what is moved inside a padded `DEFPOINTS` chunk; POF
  files that are not well-formed, or have strings of more than 260 bytes.
* Text: console output, gauges, log wording, and the buffers and string searches of the
  ini parser (a line is a key with a value). `ignore_list`, `compression_level` and
  `tag_compressed_vps` are not read from the file in `Program`; the first is as by
  default, the others belong to `Lz41` and `VpCommands`.
* The truncation of `vpc_log.log` by every process that starts.
* The inner batch of the context-menu commands: it has the shape of `compress_folder`
  and appears as `Work`, one path at a time.
* The legacy menu commands: nothing calls them.
* Reads a few bytes out of a file's range on very short files, and lifetimes of single
  C strings.
* Full disks and failing `fwrite`s: the code looks at none of their results.

## 7. The plan

Done, in this order: `Lz41` (every other component relies on it), `VpArchive` and
`VpWriter`, `Batch`, `Rendezvous`, `VpCommands`, `PofAligner`, and the proofs of each;
then `Program`, which composes settings, commands and single files, and its proof; then
LZ4 itself, from the abstract block (`Lz4Block`, proved) to coders, search and decoder.

Next:

1. Proof: `Lz4Decoder` implements the reader of `Lz4Block`, with a history variable for
   where the sequences begin in the block.
2. The inner batch of the context-menu commands, if it should ever differ from
   `compress_folder`.
