--------------------------------- MODULE Batch ----------------------------------
(***************************************************************************)
(* compress_folder: the main thread walks a directory, starts one worker   *)
(* per file until max_threads of them run, then starts the gauges thread   *)
(* and joins everybody before it goes on.  The worker is compress_vp or    *)
(* compress_single_file seen from outside: what it does to its THREAD_INFO *)
(* slot, to the log and to the names of the output files.                  *)
(*                                                                         *)
(* THREAD_INFO slots come from malloc, are shared without a lock, and are  *)
(* read by the gauges thread to decide when the batch is over.             *)
(***************************************************************************)
EXTENDS Integers, FiniteSets

CONSTANTS
    Files,          \* the regular files of the directory
    Types,          \* what they may be: see Type below
    EntryCounts,    \* the numbers of entries a VP may have
    MaxThreads,     \* config->max_threads, at least 1 after load_config
    Garbage,        \* what malloc may leave in a slot: records [max, fin]
    Names,          \* the names outputs get when they are tagged "_vpc"
    Taggings,       \* which file's output gets which: functions from Files to Names
    Nothing,        \* an output name nobody has written, or that was moved away
    Partial         \* the content of an output that is not whole

Paths == Files \cup Names

\* With the extension of a VP, "vp": a readable one; "notvp": without the header;
\* "lockedvp": fopen fails on it.  Of the others, "single": readable; "locked": fopen
\* fails on it; "skipped": left out by the extension filters.
VpType == {"vp", "notvp", "lockedvp"}
Type == VpType \cup {"single", "locked", "skipped"}

ASSUME BatchAssumption ==
    /\ IsFiniteSet(Files)
    /\ Types \subseteq Type
    /\ EntryCounts \subseteq Nat
    /\ MaxThreads \in Nat \ {0}
    /\ Garbage \subseteq [max : Int, fin : Int]
    /\ Taggings \subseteq [Files -> Names]
    /\ \A t \in Taggings, f \in Files : t[f] # f
    /\ Nothing \notin Files /\ Partial \notin Files /\ Nothing # Partial

VARIABLES
    dir,            \* file -> its type, its number of entries, its tagged name
    main,           \* the main thread
    todo,           \* what directory_iterator has not delivered yet
    thread_number,
    threads,        \* the vector of worker threads not joined yet, by file
    slot,           \* file -> its THREAD_INFO
    wpc,            \* file -> where its worker is
    x,              \* file -> the entry its compress_vp is at
    ti,             \* slot -> [max, fin]: max_files and finished_files
    ui,             \* the gauges thread
    gauge,          \* [i, count]: the slot it looks at and count_files
    outputs,        \* output name -> the file whose whole result is there
    log             \* config->log

slots == 1..MaxThreads
mainVars == <<main, todo, thread_number, threads>>
workerVars == <<slot, wpc, x, outputs>>
uiVars == <<ui, gauge>>
vars == <<dir, mainVars, workerVars, ti, uiVars, log>>
-----------------------------------------------------------------------------
Live(f) == wpc[f] \notin {"none", "finished"}
Eligible(f) == dir[f].type # "skipped"

\* A name that ends in "_vpc.vp" is that of a VP.
Named == \A f, g \in Files : dir[f].tagged = g => dir[g].type \in VpType

Init ==
    /\ \E type \in [Files -> Types], n \in [Files -> EntryCounts], t \in Taggings :
          /\ \A f \in Files : type[f] # "vp" => n[f] = CHOOSE m \in EntryCounts : TRUE
          /\ dir = [f \in Files |-> [type |-> type[f], n |-> n[f], tagged |-> t[f]]]
    /\ Named
    /\ main = "iterate"
    /\ todo = Files
    /\ thread_number = 1
    /\ threads = {}
    /\ slot = [f \in Files |-> 0]
    /\ wpc = [f \in Files |-> "none"]
    /\ x = [f \in Files |-> 0]
    /\ ti \in [slots -> Garbage]
    /\ ui = "none"
    /\ gauge = [i |-> 1, count |-> 0]
    /\ outputs = [p \in Paths |-> Nothing]
    /\ log = "open"

-----------------------------------------------------------------------------
(* The main thread *)

\* Mutant of CloseBatch: the first full batch is taken for the last.
CloseFolder(n) ==
    IF n > MaxThreads
    THEN main' = "join_last" /\ ui' = "sleep"
    ELSE main' = "iterate" /\ UNCHANGED ui

\* thread_number > max_threads: start the gauges and join this batch.
CloseBatch(n) ==
    IF n > MaxThreads
    THEN main' = "join_batch" /\ ui' = "sleep"
    ELSE main' = "iterate" /\ UNCHANGED ui

\* One directory entry: threads.emplace_back(compress_vp | compress_single_file, ...).
StartWorker(f) ==
    /\ main = "iterate"
    /\ f \in todo
    /\ Eligible(f)
    /\ todo' = todo \ {f}
    /\ slot' = [slot EXCEPT ![f] = thread_number]
    /\ wpc' = [wpc EXCEPT ![f] = "open"]
    /\ threads' = threads \cup {f}
    /\ thread_number' = thread_number + 1
    /\ CloseBatch(thread_number + 1)
    /\ UNCHANGED <<dir, x, ti, gauge, outputs, log>>

SkipFile(f) ==
    /\ main = "iterate"
    /\ f \in todo
    /\ ~Eligible(f)
    /\ todo' = todo \ {f}
    /\ CloseBatch(thread_number)
    /\ UNCHANGED <<dir, thread_number, threads, workerVars, ti, gauge, log>>

\* The directory is read: one more gauges thread for whatever is still running.
EndOfDirectory ==
    /\ main = "iterate"
    /\ todo = {}
    /\ main' = "join_last"
    /\ ui' = "sleep"
    /\ UNCHANGED <<dir, todo, thread_number, threads, workerVars, ti, gauge, log>>

\* Mutant of Joined: nobody is waited for.
DetachedAll == TRUE

Joined == \A f \in threads : wpc[f] = "finished"

JoinWorkers ==
    /\ main \in {"join_batch", "join_last"}
    /\ Joined
    /\ main' = IF main = "join_batch" THEN "join_ui" ELSE "join_last_ui"
    /\ UNCHANGED <<dir, todo, thread_number, threads, workerVars, ti, uiVars, log>>

\* threads.clear(), thread_number = 1, and max_files (only) of every slot back to 0.
ResetBatch ==
    /\ main = "join_ui"
    /\ ui = "exited"
    /\ threads' = {}
    /\ thread_number' = 1
    /\ ti' = [s \in slots |-> [ti[s] EXCEPT !.max = 0]]
    /\ ui' = "none"
    /\ main' = "iterate"
    /\ UNCHANGED <<dir, todo, workerVars, gauge, log>>

\* compress_folder returns and parsecmd closes the log.
FolderDone ==
    /\ main = "join_last_ui"
    /\ ui = "exited"
    /\ main' = "done"
    /\ log' = "closed"
    /\ UNCHANGED <<dir, todo, thread_number, threads, workerVars, ti, uiVars>>

-----------------------------------------------------------------------------
(* The workers *)

Goto(f, pc) == wpc' = [wpc EXCEPT ![f] = pc]
SetMax(f, n) == ti' = [ti EXCEPT ![slot[f]].max = n]
SetFinished(f, n) == ti' = [ti EXCEPT ![slot[f]].fin = n]

\* fopen(fn_out, "wb"): whatever was at this name is gone before anything is known of
\* the input.
Open(f) ==
    /\ wpc[f] = "open"
    /\ outputs' = [outputs EXCEPT ![f] = Partial]
    /\ Goto(f, dir[f].type)
    /\ UNCHANGED <<dir, mainVars, slot, x, ti, uiVars, log>>

\* compress_vp
VpCount(f) ==
    /\ wpc[f] = "vp"
    /\ SetMax(f, dir[f].n)
    /\ Goto(f, "entries")
    /\ UNCHANGED <<dir, mainVars, slot, x, outputs, uiVars, log>>

VpEntry(f) ==
    /\ wpc[f] = "entries"
    /\ x[f] < dir[f].n
    /\ SetFinished(f, x[f])
    /\ x' = [x EXCEPT ![f] = @ + 1]
    /\ UNCHANGED <<dir, mainVars, slot, wpc, outputs, uiVars, log>>

\* Mutant of FinishedAtClose: the counter stays at the index of the last entry.
LastEntry(f) == x[f] - 1

FinishedAtClose(f) == ti[slot[f]].max

VpClose(f) ==
    /\ wpc[f] = "entries"
    /\ x[f] >= dir[f].n
    /\ SetFinished(f, FinishedAtClose(f))
    /\ outputs' = [outputs EXCEPT ![f] = f]
    /\ Goto(f, "tag")
    /\ UNCHANGED <<dir, mainVars, slot, x, uiVars, log>>

\* Somebody still has this output name open; a worker whose input could not be opened
\* never closes its output.
HeldOpen(p) ==
    /\ p \in Files
    /\ \/ wpc[p] \in VpType \cup {"entries", "single", "packing"}
       \/ dir[p].type = "locked" /\ wpc[p] \notin {"none", "open"}

\* Mutant of Renamed: fs::rename with its arguments swapped.
RenamedBack(f) == [outputs EXCEPT ![f] = outputs[dir[f].tagged], ![dir[f].tagged] = Nothing]

\* What is at the name moves, be it this worker's result or one renamed to it since.
Renamed(f) == [outputs EXCEPT ![dir[f].tagged] = outputs[f], ![f] = Nothing]

\* fs::rename replaces what is at the new name, and fails (caught) on an open file.
VpTag(f) ==
    /\ wpc[f] = "tag"
    /\ \/ /\ outputs[f] # Nothing
          /\ ~HeldOpen(dir[f].tagged)
          /\ outputs' = Renamed(f)
       \/ UNCHANGED outputs     \* nothing was compressed, tagging is off, or it failed
    /\ Goto(f, "finished")
    /\ UNCHANGED <<dir, mainVars, slot, x, ti, uiVars, log>>

\* The early return on a bad header: two plain stores, in this order.
NotVpFinished(f) ==
    /\ wpc[f] = "notvp"
    /\ SetFinished(f, 0)
    /\ Goto(f, "notvp_max")
    /\ UNCHANGED <<dir, mainVars, slot, x, outputs, uiVars, log>>

NotVpMax(f) ==
    /\ wpc[f] = "notvp_max"
    /\ SetMax(f, 0)
    /\ Goto(f, "finished")
    /\ UNCHANGED <<dir, mainVars, slot, x, outputs, uiVars, log>>

\* The process ends under every thread.
Crash ==
    /\ main' = "crashed"
    /\ UNCHANGED <<dir, todo, thread_number, threads, workerVars, ti, uiVars, log>>

\* A VP that cannot be opened takes the same return, by way of fclose(NULL): undefined,
\* and the end of the process in the libraries this is built with.
NullClosed(f) == wpc[f] = "lockedvp" /\ Crash

\* compress_single_file; a file that cannot be opened never sets max_files.
SingleMax(f) ==
    /\ wpc[f] = "single"
    /\ SetMax(f, 1)
    /\ Goto(f, "packing")
    /\ UNCHANGED <<dir, mainVars, slot, x, outputs, uiVars, log>>

\* Compress, or copy what is not worth it; both files are closed.
SinglePack(f) ==
    /\ wpc[f] = "packing"
    /\ outputs' = [outputs EXCEPT ![f] = f]
    /\ Goto(f, "packed")
    /\ UNCHANGED <<dir, mainVars, slot, x, ti, uiVars, log>>

\* fs::copy_file throws, and nothing in a worker thread catches it.
CopyThrows(f) == wpc[f] = "packing" /\ Crash

SingleFinished(f) ==
    /\ wpc[f] \in {"packed", "locked"}
    /\ SetFinished(f, 1)
    /\ Goto(f, "finished")
    /\ UNCHANGED <<dir, mainVars, slot, x, outputs, uiVars, log>>

WorkerStores(f) ==
    \/ Open(f)
    \/ VpCount(f) \/ VpEntry(f) \/ VpClose(f) \/ VpTag(f)
    \/ NotVpFinished(f) \/ NotVpMax(f)
    \/ SingleMax(f) \/ SinglePack(f) \/ SingleFinished(f)

Worker(f) == main # "crashed" /\ (WorkerStores(f) \/ NullClosed(f) \/ CopyThrows(f))

-----------------------------------------------------------------------------
(* ui_gauges: once a second, add up what the slots say is left *)

UiWake ==
    /\ ui = "sleep"
    /\ ui' = "look"
    /\ gauge' = [i |-> 1, count |-> 0]
    /\ UNCHANGED <<dir, mainVars, workerVars, ti, log>>

\* if (ti[i].max_files > 0): the fields are read again below, a store may come between.
UiLook ==
    /\ ui = "look"
    /\ gauge.i <= MaxThreads
    /\ IF ti[gauge.i].max > 0
       THEN ui' = "add" /\ UNCHANGED gauge
       ELSE gauge' = [gauge EXCEPT !.i = @ + 1] /\ UNCHANGED ui
    /\ UNCHANGED <<dir, mainVars, workerVars, ti, log>>

UiAdd ==
    /\ ui = "add"
    /\ gauge' = [i |-> gauge.i + 1,
                 count |-> gauge.count + ti[gauge.i].max - ti[gauge.i].fin]
    /\ ui' = "look"
    /\ UNCHANGED <<dir, mainVars, workerVars, ti, log>>

UiDecide ==
    /\ ui = "look"
    /\ gauge.i > MaxThreads
    /\ ui' = IF gauge.count = 0 THEN "exited" ELSE "sleep"
    /\ UNCHANGED <<dir, mainVars, workerVars, ti, gauge, log>>

Ui == main # "crashed" /\ (UiWake \/ UiLook \/ UiAdd \/ UiDecide)

Main ==
    \/ \E f \in Files : StartWorker(f) \/ SkipFile(f)
    \/ EndOfDirectory \/ JoinWorkers \/ ResetBatch \/ FolderDone

Finished == main \in {"done", "crashed"} /\ UNCHANGED vars

Next == Main \/ Ui \/ (\E f \in Files : Worker(f)) \/ Finished

\* Every thread the program starts is scheduled by the operating system.
Fairness == WF_vars(Main) /\ WF_vars(Ui) /\ \A f \in Files : WF_vars(Worker(f))

Spec == Init /\ [][Next]_vars /\ Fairness

-----------------------------------------------------------------------------
(* Properties *)

WorkerPc == {"none", "open", "entries", "tag", "notvp_max", "packing", "packed", "finished"}
            \cup Type

\* Every variable has its type.
TypeOK ==
    /\ dir \in [Files -> [type : Types, n : EntryCounts, tagged : Names]]
    /\ main \in {"iterate", "join_batch", "join_ui", "join_last", "join_last_ui", "done",
                "crashed"}
    /\ todo \subseteq Files /\ threads \subseteq Files
    /\ thread_number \in 1..(MaxThreads + 1)
    /\ slot \in [Files -> 0..MaxThreads]
    /\ wpc \in [Files -> WorkerPc]
    /\ x \in [Files -> Nat]
    /\ ti \in [slots -> [max : Int, fin : Int]]
    /\ ui \in {"none", "sleep", "look", "add", "exited"}
    /\ gauge \in [i : 1..(MaxThreads + 1), count : Int]
    /\ outputs \in [Paths -> Files \cup {Nothing, Partial}]
    /\ log \in {"open", "closed"}

\* Two workers that run at the same time never share a THREAD_INFO, and a worker's slot
\* lies inside the malloc; so no more than max_threads compress at once (README.md,
\* max_threads), although thread_number starts again at 1 for every batch.
SlotExclusive ==
    \A f \in Files : Live(f) =>
        /\ slot[f] \in slots
        /\ \A g \in Files \ {f} : Live(g) => slot[g] # slot[f]

\* Whoever uses config->log, config or the slots is joined before they change hands: at
\* most the last thread_number - 1 files run, none runs while the slots are reset, and
\* none, nor the gauges, is left when the log is closed.
JoinedBeforeReuse ==
    /\ \A f \in Files : Live(f) => f \in threads
    /\ main \in {"join_ui", "join_last_ui", "done"} => \A f \in Files : ~Live(f)
    /\ main \in {"iterate", "done"} => ui \in {"none", "exited"}
    /\ log = "closed" <=> main = "done"

\* README.md on folders: "this will compress all the files inside each folder
\* individually". When the command ends, every file that is not filtered out had its
\* worker run to the end, and the others none.
EveryFileDone ==
    main = "done" => \A f \in Files : wpc[f] = IF Eligible(f) THEN "finished" ELSE "none"

\* The files that have a result, and the output names a file's worker may write to.
Producing(f) == dir[f].type \in {"vp", "single"}
OutputNames(f) ==
    IF ~Eligible(f) THEN {}
    ELSE IF dir[f].type = "vp" THEN {f, dir[f].tagged} ELSE {f}

\* Files nobody else's output name is one of.
Apart(G) == \A f \in G, g \in Files \ G : OutputNames(f) \cap OutputNames(g) = {}

\* Of every group of files that share their output names with nobody else, at least one
\* whole result is in the output folder when the command ends; so is that of every file
\* whose names nobody shares.  x_vpc.vp may replace the tagged output of x.vp or be
\* replaced by it, whichever worker renames or opens first, but neither loses both.  A
\* half-written output is left only by a file that could not be read.
OutputsKept ==
    main = "done" =>
        /\ \A G \in (SUBSET {f \in Files : Producing(f)}) \ {{}} :
              Apart(G) => \E p \in Paths : outputs[p] \in G
        /\ \A f \in Files : outputs[f] = Partial => dir[f].type \in {"notvp", "locked"}
        /\ \A p \in Paths \ Files : outputs[p] # Partial

\* The command ends, or its process does.
Terminates == <>(main \in {"done", "crashed"})
=================================================================================
