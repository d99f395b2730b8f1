-------------------------------- MODULE Program ------------------------------
(***************************************************************************)
(* Runs of the program on folders of single files: load_config, parsecmd,  *)
(* and the four commands as far as they call compress_single_file and      *)
(* decompress_single_file (VpCommands has the archives).                   *)
(*                                                                         *)
(* Run k reads folder k - 1 and writes folder k: a user compresses files,  *)
(* hands the output on, decompresses or compresses it again, with another  *)
(* ini file.  Any run may be killed and is started again.  All may be      *)
(* started at once: each reads its settings then, and works when the       *)
(* folder it reads is there.                                               *)
(*                                                                         *)
(* A file is what it holds (of), which the coders never change, and how:   *)
(* "plain", "packed" by the codec, "part" when it is empty or was left     *)
(* half written, "none" if there is no such file.                          *)
(***************************************************************************)
EXTENDS Integers, FiniteSets, Sequences

CONSTANTS Files,        \* the names
          Ids,          \* the original contents, which tell files apart
          Folders,      \* what the first folder may hold
          Inis,         \* what an ini file may say
          Runs,         \* how many runs there are
          Commands,     \* what they may be asked to do
          PofGrowth,    \* what align_pof adds
          MaxFailures   \* bound on kills, failing copies and files nobody may open

Plain(b) == [how |-> "plain", of |-> b]
Packed(b) == [how |-> "packed", of |-> b]
NoBytes(b) == [id |-> "none", size |-> 0, coded |-> 0, pof |-> FALSE, magic |-> b]
Part == [how |-> "part", of |-> NoBytes(FALSE)]
PartPacked == [how |-> "part", of |-> NoBytes(TRUE)]
NoFile == [how |-> "none", of |-> NoBytes(FALSE)]

File == [how : {"plain", "packed", "part", "none"},
         of : [id : Ids \cup {"none"}, size : Int,
               coded : Int, pof : BOOLEAN, magic : BOOLEAN]]

Key == {"block_size", "minimum_size", "max_threads", "fix_pofs", "only_compress_vps"}

IniLine == [key : Key, form : {"number", "text", "bare"}, value : Int]

ASSUME ProgramAssumption ==
    /\ IsFiniteSet(Files)
    /\ \A f \in Folders : f.holds \in [Files -> File]
    /\ Inis \subseteq Seq(IniLine)
    /\ Runs \in Nat \ {0} /\ MaxFailures \in Nat /\ PofGrowth \in Nat
    /\ Commands \subseteq
          {"compress_folder", "decompress_folder", "compress_file", "decompress_file"}

VARIABLES
    ini,        \* the lines of vpc_config.ini, or NoIni
    edited,     \* the user has written an ini file
    folder,     \* number -> file -> what is there
    exts,       \* file -> its extension
    pc,         \* run -> where its main thread is
    command,    \* run -> what it was asked to do
    config,     \* run -> its settings
    todo,       \* run -> the files it has not come to
    batch,      \* run -> the files of the batch it has started
    work,       \* run -> file -> where its worker is
    excused,    \* the files of a run it could not read or copy
    failures

vars == <<ini, edited, folder, exts, pc, command, config, todo, batch, work,
          excused, failures>>

runs == 1..Runs

Line(key, form, value) == [key |-> key, form |-> form, value |-> value]
NoIni == <<Line("none", "none", 0)>>
-----------------------------------------------------------------------------
(***************************************************************************)
(* The settings.  An ini file is a list of lines: what is left of the      *)
(* equals sign and the number behind it (form "number").  Behind it there  *)
(* may be no number ("text"), or there may be no equals sign ("bare").     *)
(***************************************************************************)
DEFAULT_IGNORE == {"ogg"}
SYSTEM_IGNORE_LIST == {"exe", "none"}

Defaults ==
    [block_size |-> 65536, minimum_size |-> 10240, max_threads |-> 4,
     fix_pofs |-> TRUE, only_compress_vps |-> FALSE]

\* Mutant of Initially: the initialisers of LZ41CONFIG are left as they are.
StructInitialisers ==
    [block_size |-> 65536, minimum_size |-> 0, max_threads |-> 1,
     fix_pofs |-> FALSE, only_compress_vps |-> FALSE]

Initially == Defaults

DefaultLines ==
    <<Line("block_size", "number", 65536), Line("minimum_size", "number", 10240),
      Line("max_threads", "number", 4), Line("fix_pofs", "number", 1),
      Line("only_compress_vps", "number", 0)>>

Booleans == {"fix_pofs", "only_compress_vps"}

(* A line sets its key, unless there is no number for sscanf to read: then an *)
(* int stays as it was, and a flag becomes what is in temp, which is nowhere  *)
(* initialised.                                                               *)
Sets(line, key) == line.key = key /\ (line.form = "text" => key \in Booleans)

ValueOf(line, key, temp) ==
    IF key \notin Booleans THEN line.value
    ELSE IF line.form = "text" THEN temp[key] ELSE line.value # 0

(* Every line is obeyed in turn, so that the last one for a key counts. *)
Loaded(lines, temp) ==
    [key \in DOMAIN Initially |->
        LET setting == {i \in DOMAIN lines : Sets(lines[i], key)}
            last == CHOOSE i \in setting : \A j \in setting : j <= i
        IN IF setting = {} THEN Initially[key] ELSE ValueOf(lines[last], key, temp)]

Clamped(c) == IF c.max_threads < 1 THEN [c EXCEPT !.max_threads = 1] ELSE c

Goto(k, where) == pc' = [pc EXCEPT ![k] = where]

OpenConfig(k) ==
    /\ pc[k] = "start"
    /\ \/ /\ ini = NoIni
          /\ Goto(k, "create")
          /\ UNCHANGED config
       \/ /\ ini # NoIni
          /\ \A i \in DOMAIN ini : ini[i].form # "bare"
          /\ \E temp \in [Booleans -> BOOLEAN] :
                config' = [config EXCEPT ![k] = Clamped(Loaded(ini, temp))]
          /\ Goto(k, "ready")
       \/ /\ ini # NoIni
          /\ \E i \in DOMAIN ini : ini[i].form = "bare"
          /\ Goto(k, "dead")
          /\ UNCHANGED config
    /\ UNCHANGED <<ini, edited, folder, exts, command, todo, batch, work, excused,
                   failures>>

(* fopen(.., "wt") empties the file, whatever has come there meanwhile. *)
CreateConfig(k) ==
    /\ pc[k] = "create"
    /\ ini' = <<>>
    /\ Goto(k, "write")
    /\ UNCHANGED <<edited, folder, exts, command, config, todo, batch, work, excused,
                   failures>>

(* The lines are in the buffer of the stream until it is closed. *)
WriteConfig(k) ==
    /\ pc[k] = "write"
    /\ ini' = DefaultLines
    /\ config' = [config EXCEPT ![k] = Initially]
    /\ Goto(k, "ready")
    /\ UNCHANGED <<edited, folder, exts, command, todo, batch, work, excused, failures>>

EditIni ==
    /\ ~ edited
    /\ ini' \in Inis
    /\ edited' = TRUE
    /\ UNCHANGED <<folder, exts, pc, command, config, todo, batch, work, excused,
                   failures>>
-----------------------------------------------------------------------------
Init ==
    /\ ini = NoIni
    /\ edited = FALSE
    /\ \E f \in Folders :
          /\ folder = [k \in 0..Runs |->
                          IF k = 0 THEN f.holds ELSE [n \in Files |-> NoFile]]
          /\ exts = f.exts
    /\ pc = [k \in runs |-> "start"]
    /\ command \in [runs -> Commands]
    /\ config = [k \in runs |-> Initially]
    /\ todo = [k \in runs |-> {}]
    /\ batch = [k \in runs |-> {}]
    /\ work = [k \in runs |-> [n \in Files |-> "none"]]
    /\ excused = [k \in runs |-> {}]
    /\ failures = 0

Compresses(k) == command[k] \in {"compress_folder", "compress_file"}
OfFolder(k) == command[k] \in {"compress_folder", "decompress_folder"}

InOf(k, n) == folder[k - 1][n]

Put(k, n, what) == folder' = [folder EXCEPT ![k][n] = what]

(***************************************************************************)
(* The commands on folders leave out what the system ignores, and          *)
(* extensions that are empty: every list has those as a substring.         *)
(***************************************************************************)
Eligible(k, n) ==
    /\ InOf(k, n).how # "none"
    /\ OfFolder(k) => exts[n] \notin SYSTEM_IGNORE_LIST
    /\ command[k] = "compress_folder" => ~ config[k].only_compress_vps

BeginCommand(k) ==
    /\ pc[k] = "ready"
    /\ k > 1 => pc[k - 1] = "done"
    /\ LET all == {n \in Files : InOf(k, n).how # "none"}
       IN IF OfFolder(k) THEN todo' = [todo EXCEPT ![k] = all]
          ELSE \E one \in SUBSET all :
                  /\ Cardinality(one) <= 1
                  /\ todo' = [todo EXCEPT ![k] = one]
    /\ Goto(k, "iterate")
    /\ config' = IF OfFolder(k) THEN config
                 ELSE [config EXCEPT ![k].max_threads = 1]
    /\ UNCHANGED <<ini, edited, folder, exts, command, batch, work, excused, failures>>

(***************************************************************************)
(* One file of the directory.  compress_folder starts a thread for it, if  *)
(* there are fewer of them than max_threads; decompress_folder does it     *)
(* itself.                                                                 *)
(***************************************************************************)
Threads(k) == IF Compresses(k) THEN config[k].max_threads ELSE 1

NextFile(k, n) ==
    /\ pc[k] = "iterate"
    /\ n \in todo[k]
    /\ todo' = [todo EXCEPT ![k] = @ \ {n}]
    /\ IF Eligible(k, n) /\ Cardinality(batch[k]) < Threads(k)
       THEN /\ batch' = [batch EXCEPT ![k] = @ \cup {n}]
            /\ work' = [work EXCEPT ![k][n] = "open"]
       ELSE UNCHANGED <<batch, work>>
    /\ Goto(k, IF Cardinality(batch'[k]) >= Threads(k) THEN "join" ELSE "iterate")
    /\ UNCHANGED <<ini, edited, folder, exts, command, config, excused, failures>>

AllFinished(k) == \A n \in batch[k] : work[k][n] = "finished"

JoinBatch(k) ==
    /\ pc[k] = "join"
    /\ AllFinished(k)
    /\ batch' = [batch EXCEPT ![k] = {}]
    /\ Goto(k, "iterate")
    /\ UNCHANGED <<ini, edited, folder, exts, command, config, todo, work, excused,
                   failures>>

EndCommand(k) ==
    /\ pc[k] = "iterate"
    /\ todo[k] = {}
    /\ AllFinished(k)
    /\ batch' = [batch EXCEPT ![k] = {}]
    /\ Goto(k, "done")
    /\ UNCHANGED <<ini, edited, folder, exts, command, config, todo, work, excused,
                   failures>>
-----------------------------------------------------------------------------
(* compress_single_file and decompress_single_file *)

Alive(k) == pc[k] \in {"iterate", "join"}

At(k, n, where) == Alive(k) /\ work[k][n] = where

Worker(k, n, where) == work' = [work EXCEPT ![k][n] = where]

Fails == failures < MaxFailures /\ failures' = failures + 1

Die(k) ==
    /\ Goto(k, "dead")
    /\ UNCHANGED work

Excuse(k, n) == excused' = [excused EXCEPT ![k] = @ \cup {n}]

Settled == UNCHANGED <<ini, edited, exts, command, config, todo, batch>>

(* The output is created before it is known whether there is an input. *)
OpenFiles(k, n) ==
    /\ At(k, n, "open")
    /\ Put(k, n, Part)
    /\ \/ Worker(k, n, "begin") /\ UNCHANGED <<excused, failures>>
       \/ Fails /\ Excuse(k, n) /\ Worker(k, n, "finished")
    /\ Settled /\ UNCHANGED pc

IsPof(k, n) == exts[n] = "pof" /\ config[k].fix_pofs

Magic(file) == file.how = "packed" \/ file.of.magic

Selected(k, n) ==
    /\ exts[n] \notin DEFAULT_IGNORE \cup {"none"}
    /\ InOf(k, n).of.size >= config[k].minimum_size \/ IsPof(k, n)
    /\ ~ Magic(InOf(k, n))

Aligned(b) ==
    [id |-> b.id, size |-> b.size + PofGrowth, coded |-> b.coded + PofGrowth,
     pof |-> FALSE, magic |-> b.magic]

Prepared(k, n) ==
    LET b == InOf(k, n).of
    IN IF IsPof(k, n) /\ b.pof THEN Aligned(b) ELSE b

(***************************************************************************)
(* The coder refuses blocks that LZ4 refuses, if there is memory for them, *)
(* and does not survive one of no or of negative size.  In the path of a   *)
(* converted pof the error code is taken for the number of bytes to write, *)
(* which ends the program.                                                 *)
(***************************************************************************)
LZ4_MAX_INPUT_SIZE == 2113929216

Coding(k, n) == At(k, n, "begin") /\ Compresses(k) /\ Selected(k, n)

Skip(k, n) ==
    /\ At(k, n, "begin") /\ Compresses(k) /\ ~ Selected(k, n)
    /\ Worker(k, n, "copy")
    /\ Settled /\ UNCHANGED <<pc, folder, excused, failures>>

\* Mutant of Kept: only an error makes the coder's output be replaced.
KeptUnlessError(k, n) == TRUE

(* final_size >= size: the file is copied instead, as it was before align_pof. *)
Kept(k, n) == Prepared(k, n).coded < Prepared(k, n).size

(* The stream is written to the disk as its buffer fills. *)
CodeSome(k, n) ==
    /\ Coding(k, n)
    /\ config[k].block_size \in 1..LZ4_MAX_INPUT_SIZE
    /\ Put(k, n, PartPacked)
    /\ Settled /\ UNCHANGED <<pc, work, excused, failures>>

Code(k, n) ==
    /\ Coding(k, n)
    /\ config[k].block_size \in 1..LZ4_MAX_INPUT_SIZE
    /\ Put(k, n, Packed(Prepared(k, n)))
    /\ Worker(k, n, IF Kept(k, n) THEN "finished" ELSE "copy")
    /\ Settled /\ UNCHANGED <<pc, excused, failures>>

CodeFails(k, n) ==
    /\ Coding(k, n)
    /\ config[k].block_size \notin 1..LZ4_MAX_INPUT_SIZE
    /\ \/ /\ config[k].block_size > 0 /\ Prepared(k, n) = InOf(k, n).of
          /\ Worker(k, n, "copy")
          /\ UNCHANGED pc
       \/ Die(k)
    /\ Settled /\ UNCHANGED <<folder, excused, failures>>

(***************************************************************************)
(* lz41_stream_decompress.  Without the header it writes nothing, and the  *)
(* file is copied over the output, which is still open.                    *)
(***************************************************************************)
Decode(k, n) ==
    /\ At(k, n, "begin") /\ ~ Compresses(k)
    /\ \/ /\ ~ Magic(InOf(k, n))
          /\ Worker(k, n, "copy")
          /\ UNCHANGED <<folder, pc>>
       \/ /\ InOf(k, n).how = "packed"
          /\ Put(k, n, Plain(InOf(k, n).of))
          /\ Worker(k, n, "finished")
          /\ UNCHANGED pc
       \/ /\ InOf(k, n).how # "packed" /\ Magic(InOf(k, n))
          /\ \/ Worker(k, n, "finished") /\ UNCHANGED pc
             \/ Die(k)
          /\ UNCHANGED folder
    /\ Settled /\ UNCHANGED <<excused, failures>>

(***************************************************************************)
(* fs::copy_file throws where the input has gone, the disk is full or the  *)
(* output is not shared.  decompress_folder catches that and goes on; in a *)
(* thread, and in decompress_file, nobody does.                            *)
(***************************************************************************)
Caught(k) == command[k] = "decompress_folder"

Copy(k, n) ==
    /\ At(k, n, "copy")
    /\ Put(k, n, InOf(k, n))
    /\ Worker(k, n, "finished")
    /\ Settled /\ UNCHANGED <<pc, excused, failures>>

CopyThrows(k, n) ==
    /\ At(k, n, "copy")
    /\ Fails
    /\ IF Caught(k) THEN Excuse(k, n) /\ Worker(k, n, "finished") /\ UNCHANGED pc
       ELSE Die(k) /\ UNCHANGED excused
    /\ Settled /\ UNCHANGED folder
-----------------------------------------------------------------------------
Kill(k) ==
    /\ pc[k] \notin {"dead", "done"}
    /\ Fails
    /\ Goto(k, "dead")
    /\ UNCHANGED <<ini, edited, folder, exts, command, config, todo, batch, work,
                   excused>>

(* The user starts the program again. *)
Restart(k) ==
    /\ pc[k] = "dead"
    /\ failures < MaxFailures
    /\ failures' = failures + 1
    /\ Goto(k, "start")
    /\ todo' = [todo EXCEPT ![k] = {}]
    /\ batch' = [batch EXCEPT ![k] = {}]
    /\ work' = [work EXCEPT ![k] = [n \in Files |-> "none"]]
    /\ excused' = [excused EXCEPT ![k] = {}]
    /\ UNCHANGED <<ini, edited, folder, exts, command, config>>

Run(k) ==
    \/ OpenConfig(k) \/ CreateConfig(k) \/ WriteConfig(k)
    \/ BeginCommand(k) \/ JoinBatch(k) \/ EndCommand(k)
    \/ \E n \in Files :
          \/ NextFile(k, n) \/ OpenFiles(k, n)
          \/ Skip(k, n) \/ CodeSome(k, n) \/ Code(k, n) \/ CodeFails(k, n) \/ Decode(k, n)
          \/ Copy(k, n) \/ CopyThrows(k, n)

Next == EditIni \/ \E k \in runs : Run(k) \/ Kill(k) \/ Restart(k)

Spec == Init /\ [][Next]_vars
-----------------------------------------------------------------------------
(***************************************************************************)
(* README.md: folder compression "will compress all the files inside each  *)
(* folder individually".  When a run has ended by itself, every file it    *)
(* does not leave out is in its output and holds what it held, or that as  *)
(* align_pof converts it; it is plain if it was to be decompressed, and    *)
(* not larger, but for the conversion, if it was to be compressed.  That   *)
(* holds whatever the settings are, whatever earlier runs that were killed *)
(* left behind, and for all other files where one could not be copied.     *)
(***************************************************************************)
Larger(now, before) ==
    LET bytes(file) == IF file.how = "packed" THEN file.of.coded ELSE file.of.size
    IN bytes(now) > bytes(before) + (IF now.of = before.of THEN 0 ELSE PofGrowth)

Right(k, now, before) ==
    /\ now.how \in {"plain", "packed"}
    /\ now.of \in {before.of, Aligned(before.of)}
    /\ Compresses(k) => ~ Larger(now, before)
    /\ ~ Compresses(k) => now = Plain(before.of)

Healthy(file) == file.how \in {"plain", "packed"} /\ ~ file.of.magic

FilesKept ==
    \A k \in runs : pc[k] = "done" =>
        \A n \in Files :
            /\ (OfFolder(k) /\ Eligible(k, n)) \/ work[k][n] = "finished"
            /\ Healthy(InOf(k, n)) /\ n \notin excused[k]
            => Right(k, folder[k][n], InOf(k, n))

(***************************************************************************)
(* As long as the user has written no ini file all runs have the same      *)
(* settings, the defaults, although several of them may be creating the    *)
(* file at once and one may read it empty.                                 *)
(***************************************************************************)
SettingsAgree ==
    ~ edited => \A k \in runs :
        pc[k] \notin {"start", "create", "write", "dead"} =>
            config[k] = [Defaults EXCEPT !.max_threads = config[k].max_threads]
=============================================================================
