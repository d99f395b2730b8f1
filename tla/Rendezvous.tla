------------------------------- MODULE Rendezvous -------------------------------
(***************************************************************************)
(* The context menu starts one process per selected file.  They meet at a  *)
(* temporary file beside the executable: the process that does not find it *)
(* creates it, sleeps three seconds and then works on every path it finds  *)
(* there; the others append their path and leave.                          *)
(* windows_compress_cmd_new and windows_decompress_cmd_new, which differ   *)
(* in what follows the work: the latter closes and removes the file again. *)
(*                                                                         *)
(* Nothing but time orders these processes.  What the code hopes for is    *)
(* stated as two assumptions a behaviour may grant (see Regimes); without  *)
(* them every interleaving is possible.                                    *)
(***************************************************************************)
EXTENDS Integers, Sequences, FiniteSets

CONSTANTS
    Instances,      \* the processes; each was started for one path, named after it
    Regimes         \* the circumstances of a behaviour, records [tool, staggered, patient, kills]:
                    \*   tool       "comp" or "decomp"
                    \*   staggered  no process looks for the file while another, which did not
                    \*              find it, is about to create it
                    \*   patient    three seconds outlast every append that has begun, and nobody
                    \*              looks for the file between its creation and its first line,
                    \*              nor between the wake-up and the removal
                    \*   kills      how many processes may be killed at any moment

ASSUME RendezvousAssumption ==
    /\ IsFiniteSet(Instances)
    /\ Regimes \subseteq [tool : {"comp", "decomp"}, staggered : BOOLEAN,
                          patient : BOOLEAN, kills : Nat]

VARIABLES
    regime,
    pc,             \* where each process is
    exists,         \* wincomp.tmp / windecomp.tmp is there
    lines,          \* and these paths are in it
    files,          \* process -> the paths it has read and not worked on yet
    times           \* path -> how often it has been worked on

rendezvousVars == <<regime, pc, exists, lines, files, times>>
-----------------------------------------------------------------------------
\* A process that took the master's branch, until it has removed the file.
Collecting(p) == pc[p] \in {"write", "sleep", "open", "reading", "remove"}
Master(p) == pc[p] = "create" \/ Collecting(p)

\* Processes with an open handle: MSVC's fopen shares reading and writing, not deletion.
Holding(p) == pc[p] \in {"write", "reading", "append"}

Ended(p) == pc[p] \in {"done", "died", "killed"}

Moves(p, l) == pc' = [pc EXCEPT ![p] = l]

RendezvousInit ==
    /\ regime \in Regimes
    /\ pc = [p \in Instances |-> "check"]
    /\ exists = FALSE
    /\ lines = <<>>
    /\ files = [p \in Instances |-> <<>>]
    /\ times = [p \in Instances |-> 0]

\* Mutant of MasterBranch: the file is not looked for.
AlwaysMaster == TRUE

MasterBranch == ~exists

\* if (!fs::exists(temp_fl_path))
Check(p) ==
    /\ pc[p] = "check"
    /\ regime.staggered => \A q \in Instances : pc[q] # "create"
    /\ regime.patient => \A q \in Instances : pc[q] \notin {"write", "open", "reading", "remove"}
    /\ Moves(p, IF MasterBranch THEN "create" ELSE "append_open")
    /\ UNCHANGED <<regime, exists, lines, files, times>>

\* Master: fopen(.., "wt") creates the file or truncates the one that is there by now.
Create(p) ==
    /\ pc[p] = "create"
    /\ exists' = TRUE
    /\ lines' = <<>>
    /\ Moves(p, "write")
    /\ UNCHANGED <<regime, files, times>>

\* The buffered line reaches the file at fclose, at position 0: over a line somebody has
\* appended since (paths of one length).
WriteOwn(p) ==
    /\ pc[p] = "write"
    /\ lines' = IF lines = <<>> THEN <<p>> ELSE <<p>> \o Tail(lines)
    /\ Moves(p, "sleep")
    /\ UNCHANGED <<regime, exists, files, times>>

Wake(p) ==
    /\ pc[p] = "sleep"
    /\ regime.patient => \A q \in Instances : pc[q] \notin {"append_open", "append"}
    /\ Moves(p, "open")
    /\ UNCHANGED <<regime, exists, lines, files, times>>

\* fopen(.., "rt"); the NULL of a missing file goes straight into fgets.
OpenRead(p) ==
    /\ pc[p] = "open"
    /\ Moves(p, IF exists THEN "reading" ELSE "died")
    /\ UNCHANGED <<regime, exists, lines, files, times>>

PathsRead == lines

ReadLines(p) ==
    /\ pc[p] = "reading"
    /\ files' = [files EXCEPT ![p] = PathsRead]
    /\ Moves(p, "remove")
    /\ UNCHANGED <<regime, exists, lines, times>>

\* fs::remove outside any try: nothing to remove is no error, a handle held by another
\* process throws, and nobody catches it.
RemoveFile(p, next) ==
    IF exists /\ \E q \in Instances \ {p} : Holding(q)
    THEN /\ Moves(p, "died")
         /\ UNCHANGED <<exists, lines>>
    ELSE /\ Moves(p, next)
         /\ exists' = FALSE
         /\ lines' = <<>>

Remove(p) ==
    /\ pc[p] = "remove"
    /\ RemoveFile(p, "work")
    /\ UNCHANGED <<regime, files, times>>

\* The loop over the paths, folders last.
Work(p) ==
    /\ pc[p] = "work"
    /\ files[p] # <<>>
    /\ times' = [times EXCEPT ![Head(files[p])] = @ + 1]
    /\ files' = [files EXCEPT ![p] = Tail(@)]
    /\ UNCHANGED <<regime, pc, exists, lines>>

\* Mutant of AfterWork: wincomp, too, removes the file again.
AfterWorkRemove(p) == Moves(p, "remove_again")

\* windecomp goes on with fclose of the stream it has closed already: anything from
\* nothing to the end of the process.
AfterWork(p) ==
    IF regime.tool = "comp"
    THEN Moves(p, "done")
    ELSE Moves(p, "remove_again") \/ Moves(p, "died")

WorkDone(p) ==
    /\ pc[p] = "work"
    /\ files[p] = <<>>
    /\ AfterWork(p)
    /\ UNCHANGED <<regime, exists, lines, files, times>>

\* ... and with fs::remove of a file that is not its own any more.
RemoveAgain(p) ==
    /\ pc[p] = "remove_again"
    /\ RemoveFile(p, "done")
    /\ UNCHANGED <<regime, files, times>>

\* Slave: fopen(.., "a") creates a file that has gone in the meantime.
OpenAppend(p) ==
    /\ pc[p] = "append_open"
    /\ exists' = TRUE
    /\ Moves(p, "append")
    /\ UNCHANGED <<regime, lines, files, times>>

\* Mutant of Appended: the slave opens the file with "wt".
Overwritten(p) == <<p>>

Appended(p) == Append(lines, p)

AppendOwn(p) ==
    /\ pc[p] = "append"
    /\ lines' = Appended(p)
    /\ Moves(p, "done")
    /\ UNCHANGED <<regime, exists, files, times>>

\* The user, or the end of the session, kills a process.
Kill(p) ==
    /\ ~Ended(p)
    /\ Cardinality({q \in Instances : pc[q] = "killed"}) < regime.kills
    /\ Moves(p, "killed")
    /\ UNCHANGED <<regime, exists, lines, files, times>>

Step(p) ==
    \/ Check(p)
    \/ Create(p) \/ WriteOwn(p) \/ Wake(p) \/ OpenRead(p) \/ ReadLines(p) \/ Remove(p)
    \/ Work(p) \/ WorkDone(p) \/ RemoveAgain(p)
    \/ OpenAppend(p) \/ AppendOwn(p)

AllEnded == (\A p \in Instances : Ended(p)) /\ UNCHANGED rendezvousVars

RendezvousNext == (\E p \in Instances : Step(p) \/ Kill(p)) \/ AllEnded

\* The operating system runs every process; sleep_for returns.
RendezvousSpec ==
    /\ RendezvousInit /\ [][RendezvousNext]_rendezvousVars
    /\ \A p \in Instances : WF_rendezvousVars(Step(p))
-----------------------------------------------------------------------------
(* Properties *)

Pc == {"check", "create", "write", "sleep", "open", "reading", "remove", "work",
       "remove_again", "append_open", "append", "done", "died", "killed"}

\* Every variable has its type.
RendezvousTypeOK ==
    /\ regime \in Regimes
    /\ pc \in [Instances -> Pc]
    /\ exists \in BOOLEAN
    /\ lines \in Seq(Instances)
    /\ files \in [Instances -> Seq(Instances)]
    /\ times \in [Instances -> Nat]

AtMostOneMaster ==
    \A p, q \in Instances : p # q => ~(Collecting(p) /\ Collecting(q))

\* Compression: as long as processes do not look for the file at the same moment, one of
\* them at most collects paths, whatever is killed, however late the others append.
OneCollector ==
    (regime.tool = "comp" /\ regime.staggered) => AtMostOneMaster

\* In the same circumstances no file is compressed twice (two writers of one output).
AtMostOnce ==
    (regime.tool = "comp" /\ regime.staggered) => \A p \in Instances : times[p] <= 1

\* A master that is alive finds the file it has created: nobody else removes it.
SleeperKeepsFile ==
    (regime.tool = "comp" /\ regime.staggered) =>
        \A p \in Instances : Collecting(p) => exists

Granted == regime.staggered /\ regime.patient /\ regime.kills = 0

EveryPathServed == \A p \in Instances : <>(times[p] = 1)

\* README.md on the context menu: when both assumptions hold and nothing is killed, every
\* selected file is eventually compressed, also those selected while an earlier master
\* still works.
CompressionServed == (Granted /\ regime.tool = "comp") => EveryPathServed

\* README.md says the menu is there "to allow easy compression and decompression": the
\* same should hold for decompression.
DecompressionServed == (Granted /\ regime.tool = "decomp") => EveryPathServed
=================================================================================
