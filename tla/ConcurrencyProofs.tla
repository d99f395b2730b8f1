---------------------------- MODULE ConcurrencyProofs ---------------------------
(***************************************************************************)
(* Proofs about what runs at the same time.                                *)
(*                                                                         *)
(* The first part is about Batch: the threads of compress_folder, for any  *)
(* directory, any number of threads and any content of the malloc'ed       *)
(* slots.                                                                  *)
(*                                                                         *)
(* The second part is about Rendezvous: the processes of the context menu, *)
(* any number of them.                                                     *)
(***************************************************************************)
EXTENDS Batch, Rendezvous, SequenceTheorems, TLAPS


\* The vector of threads: its workers have distinct slots below thread_number, whoever
\* runs is in it, and a file has a worker once the directory walk has passed it.
Vector ==
    /\ \A f \in threads : f \notin todo /\ slot[f] \in 1..(thread_number - 1)
    /\ \A f, g \in threads : f # g => slot[f] # slot[g]
    /\ \A f \in Files : Live(f) => f \in threads
    /\ \A f \in Files : wpc[f] = "none" <=> (f \in todo \/ ~Eligible(f))

\* What the main thread's position says about the others.
Phases ==
    /\ main \in {"join_ui", "join_last_ui", "done"} => \A f \in Files : ~Live(f)
    /\ main \in {"join_last", "join_last_ui", "done"} => todo = {}
    /\ main = "iterate" => ui = "none" /\ thread_number <= MaxThreads
    /\ main = "done" => ui = "exited"
    /\ log = "closed" <=> main = "done"
    /\ ui = "add" => gauge.i \in slots

IInv == TypeOK /\ Vector /\ Phases
-----------------------------------------------------------------------------
\* Whatever a worker does, it was running, it does not become unborn, and it touches
\* neither the main thread, nor the gauges, nor another worker.
LEMMA WorkerShape ==
    ASSUME TypeOK, NEW f \in Files, Worker(f)
    PROVE  /\ UNCHANGED <<dir, todo, thread_number, threads, slot, ui, gauge, log>>
           /\ main' = main \/ main' = "crashed"
           /\ Live(f) /\ wpc'[f] # "none"
           /\ \A g \in Files \ {f} : wpc'[g] = wpc[g]
           /\ wpc' \in [Files -> WorkerPc]
<1>1. /\ wpc \in [Files -> WorkerPc] /\ dir[f].type \in Type /\ dir[f].type # "none"
  BY BatchAssumption DEF TypeOK, BatchAssumption, Type, VpType
<1>2. CASE WorkerStores(f)
  <2>1. \/ UNCHANGED wpc
        \/ \E l \in WorkerPc \ {"none"} : wpc' = [wpc EXCEPT ![f] = l]
    BY <1>1, <1>2 DEF WorkerStores, Open, VpCount, VpEntry, VpClose, VpTag, NotVpFinished,
         NotVpMax, SingleMax, SinglePack, SingleFinished, Goto, WorkerPc, Type, VpType
  <2>2. Live(f)
    BY <1>1, <1>2 DEF WorkerStores, Open, VpCount, VpEntry, VpClose, VpTag, NotVpFinished,
         NotVpMax, SingleMax, SinglePack, SingleFinished, Live
  <2>3. UNCHANGED <<dir, main, todo, thread_number, threads, slot, ui, gauge, log>>
    BY <1>2 DEF WorkerStores, Open, VpCount, VpEntry, VpClose, VpTag, NotVpFinished,
         NotVpMax, SingleMax, SinglePack, SingleFinished, mainVars, uiVars
  <2>4. wpc'[f] # "none" /\ wpc' \in [Files -> WorkerPc]
    BY <1>1, <2>1, <2>2 DEF Live
  <2>5. \A g \in Files \ {f} : wpc'[g] = wpc[g]
    BY <1>1, <2>1
  <2> QED
    BY <2>2, <2>3, <2>4, <2>5
<1>3. CASE NullClosed(f) \/ CopyThrows(f)
  BY <1>1, <1>3 DEF NullClosed, CopyThrows, Crash, Live, workerVars, uiVars
<1> QED
  BY <1>2, <1>3 DEF Worker

\* What a worker does to the output names: create its own, complete it, or move it.
LEMMA OutputsOf ==
    ASSUME NEW f \in Files, Worker(f)
    PROVE  \/ UNCHANGED outputs
           \/ outputs' = [outputs EXCEPT ![f] = Partial]
           \/ outputs' = [outputs EXCEPT ![f] = f]
           \/ outputs' = [outputs EXCEPT ![dir[f].tagged] = outputs[f], ![f] = Nothing]
  BY DEF Worker, WorkerStores, Open, VpCount, VpEntry, VpClose, VpTag, NotVpFinished,
       NotVpMax, SingleMax, SinglePack, SingleFinished, NullClosed, CopyThrows, Crash,
       workerVars, Renamed

\* A worker's stores stay in its own slot and its renames among the output names.
LEMMA WorkerData ==
    ASSUME TypeOK, NEW f \in Files, Worker(f), slot[f] \in slots
    PROVE  /\ ti' \in [slots -> [max : Int, fin : Int]]
           /\ x' \in [Files -> Nat]
           /\ outputs' \in [Paths -> Files \cup {Nothing, Partial}]
<1>1. /\ ti \in [slots -> [max : Int, fin : Int]] /\ x \in [Files -> Nat]
      /\ outputs \in [Paths -> Files \cup {Nothing, Partial}]
      /\ dir[f].n \in Int /\ dir[f].tagged \in Names
  <2>1. /\ dir[f] \in [type : Types, n : EntryCounts, tagged : Names]
        /\ EntryCounts \subseteq Nat
    BY BatchAssumption DEF TypeOK, BatchAssumption
  <2>2. dir[f].n \in Nat /\ dir[f].tagged \in Names
    BY <2>1
  <2> QED
    BY <2>2, SMT DEF TypeOK
<1>2. f \in Paths /\ dir[f].tagged \in Paths
  BY <1>1 DEF Paths
<1>3. \/ UNCHANGED ti
      \/ \E n \in Int : ti' = [ti EXCEPT ![slot[f]].max = n]
      \/ \E n \in Int : ti' = [ti EXCEPT ![slot[f]].fin = n]
  <2>1. x[f] \in Int /\ ti[slot[f]].max \in Int /\ 0 \in Int /\ 1 \in Int
    BY <1>1
  <2> QED
    BY <1>1, <2>1 DEF Worker, WorkerStores, Open, VpCount, VpEntry, VpClose, VpTag, NotVpFinished,
         NotVpMax, SingleMax, SinglePack, SingleFinished, NullClosed, CopyThrows, Crash, SetMax, SetFinished, FinishedAtClose,
         uiVars, workerVars
<1>4. ti' \in [slots -> [max : Int, fin : Int]]
  BY <1>1, <1>3
<1>5. UNCHANGED x \/ x' = [x EXCEPT ![f] = @ + 1]
  BY DEF Worker, WorkerStores, Open, VpCount, VpEntry, VpClose, VpTag, NotVpFinished,
       NotVpMax, SingleMax, SinglePack, SingleFinished, NullClosed, CopyThrows, Crash,
       workerVars
<1>6. x' \in [Files -> Nat]
  <2>1. x[f] + 1 \in Nat
    BY <1>1
  <2> QED
    BY <1>1, <1>5, <2>1
<1>7. outputs' \in [Paths -> Files \cup {Nothing, Partial}]
  <2>1. \/ UNCHANGED outputs
        \/ outputs' = [outputs EXCEPT ![f] = Partial]
        \/ outputs' = [outputs EXCEPT ![f] = f]
        \/ outputs' = [outputs EXCEPT ![dir[f].tagged] = outputs[f], ![f] = Nothing]
    BY OutputsOf
  <2> QED
    BY <1>1, <1>2, <2>1
<1> QED
  BY <1>4, <1>6, <1>7

LEMMA WorkerStep ==
    ASSUME IInv, NEW f \in Files, Worker(f)
    PROVE  IInv'
<1> USE DEF IInv
<1>1. /\ UNCHANGED <<dir, todo, thread_number, threads, slot, ui, gauge, log>>
      /\ main' = main \/ main' = "crashed"
      /\ Live(f) /\ wpc'[f] # "none"
      /\ \A g \in Files \ {f} : wpc'[g] = wpc[g]
      /\ wpc' \in [Files -> WorkerPc]
  BY WorkerShape
<1>2. f \in threads /\ slot[f] \in slots
  <2>1. f \in threads
    BY <1>1 DEF Vector
  <2>2. thread_number \in 1..(MaxThreads + 1) /\ slot[f] \in 1..(thread_number - 1)
    BY <2>1 DEF Vector, TypeOK
  <2>3. MaxThreads \in Nat
    BY BatchAssumption DEF BatchAssumption
  <2> QED
    BY <2>1, <2>2, <2>3, SMT DEF slots
<1>3. TypeOK'
  BY <1>1, <1>2, WorkerData DEF TypeOK
<1>4. \A g \in Files : Live(g)' => Live(g)
  BY <1>1 DEF Live
<1>5. \A g \in Files : wpc'[g] = "none" <=> wpc[g] = "none"
  BY <1>1 DEF Live
<1>6. Vector'
  BY <1>1, <1>4, <1>5 DEF Vector, Eligible
<1>7. Phases'
  <2>1. gauge' = gauge
    BY <1>1
  <2>2. main # "done"
    BY <1>1 DEF Phases
  <2> QED
    BY <1>1, <1>4, <2>1, <2>2 DEF Phases, slots
<1> QED
  BY <1>3, <1>6, <1>7

LEMMA UiStep ==
    ASSUME IInv, Ui
    PROVE  IInv'
<1> USE DEF IInv
<1>1. UNCHANGED <<dir, main, todo, thread_number, threads, slot, wpc, x, outputs, ti, log>>
  BY DEF Ui, UiWake, UiLook, UiAdd, UiDecide, mainVars, workerVars
<1>2. ui \in {"sleep", "look", "add"} /\ ui' \in {"sleep", "look", "add", "exited"}
  BY DEF Ui, UiWake, UiLook, UiAdd, UiDecide
<1>3. gauge' \in [i : 1..(MaxThreads + 1), count : Int]
  <2>1. /\ gauge \in [i : 1..(MaxThreads + 1), count : Int] /\ MaxThreads \in Nat \ {0}
        /\ ti \in [slots -> [max : Int, fin : Int]]
    BY BatchAssumption DEF TypeOK, BatchAssumption
  <2>2. CASE UiWake
    BY <2>1, <2>2, SMT DEF UiWake
  <2>3. CASE UiLook
    <3>1. gauge.i <= MaxThreads /\ (gauge' = gauge \/ gauge' = [gauge EXCEPT !.i = @ + 1])
      BY <2>3 DEF UiLook
    <3> QED
      BY <2>1, <3>1, SMT
  <2>4. CASE UiAdd
    <3> gauge.i \in slots
      BY <2>4 DEF UiAdd, Phases
    <3>1. ti[gauge.i].max \in Int /\ ti[gauge.i].fin \in Int
      BY <2>1, <2>4
    <3>2. gauge.i + 1 \in 1..(MaxThreads + 1) /\ gauge.count \in Int
      BY <2>1, <2>4, SMT DEF slots
    <3>3. gauge.count + ti[gauge.i].max - ti[gauge.i].fin \in Int
      BY <3>1, <3>2, SMT
    <3> QED
      BY <2>4, <3>2, <3>3 DEF UiAdd
  <2>5. CASE UiDecide
    BY <2>1, <2>5 DEF UiDecide
  <2> QED
    BY <2>2, <2>3, <2>4, <2>5 DEF Ui
<1>4. TypeOK'
  BY <1>1, <1>2, <1>3 DEF TypeOK
<1>5. Vector'
  BY <1>1 DEF Vector, Live, Eligible
<1>6. Phases'
  <2>1. ui' = "add" => gauge'.i \in slots'
    <3> SUFFICES ASSUME ui' = "add" PROVE gauge'.i \in slots
      BY DEF slots
    <3>1. UiLook /\ gauge' = gauge /\ gauge.i <= MaxThreads
      BY DEF Ui, UiWake, UiLook, UiAdd, UiDecide
    <3>2. gauge.i \in 1..(MaxThreads + 1) /\ MaxThreads \in Nat
      BY BatchAssumption DEF TypeOK, BatchAssumption
    <3> QED
      BY <3>1, <3>2, SMT DEF slots
  <2> QED
    BY <1>1, <1>2, <2>1 DEF Phases, Live
<1> QED
  BY <1>4, <1>5, <1>6

LEMMA MainStep ==
    ASSUME IInv, Main
    PROVE  IInv'
<1> USE DEF IInv
<1>1. /\ MaxThreads \in Nat \ {0} /\ thread_number \in 1..(MaxThreads + 1)
      /\ threads \subseteq Files /\ todo \subseteq Files /\ slot \in [Files -> 0..MaxThreads]
      /\ wpc \in [Files -> WorkerPc]
  BY BatchAssumption DEF TypeOK, BatchAssumption
<1>2. ASSUME NEW f \in Files, StartWorker(f) PROVE IInv'
  <2>1. /\ main = "iterate" /\ f \in todo /\ Eligible(f)
        /\ todo' = todo \ {f} /\ threads' = threads \cup {f}
        /\ slot' = [slot EXCEPT ![f] = thread_number]
        /\ wpc' = [wpc EXCEPT ![f] = "open"]
        /\ thread_number' = thread_number + 1
        /\ UNCHANGED <<dir, x, ti, gauge, outputs, log>>
        /\ \/ main' = "join_batch" /\ ui' = "sleep"
           \/ main' = "iterate" /\ ui' = ui /\ ~(thread_number + 1 > MaxThreads)
    BY <1>2 DEF StartWorker, CloseBatch
  <2>2. f \notin threads /\ wpc[f] = "none" /\ thread_number <= MaxThreads
    BY <2>1 DEF Vector, Phases
  <2>3. TypeOK'
    <3>1. thread_number' \in 1..(MaxThreads + 1) /\ slot' \in [Files -> 0..MaxThreads]
      BY <1>1, <2>1, <2>2, SMT
    <3>2. wpc' \in [Files -> WorkerPc]
      BY <1>1, <2>1 DEF WorkerPc
    <3> QED
      BY <1>1, <2>1, <3>1, <3>2 DEF TypeOK
  <2>4. Vector'
    <3>1. \A g \in threads : slot'[g] = slot[g] /\ slot[g] \in 1..(thread_number - 1)
      BY <1>1, <2>1, <2>2 DEF Vector
    <3>2. slot'[f] = thread_number
      BY <1>1, <2>1
    <3>3. \A g \in threads' : g \notin todo' /\ slot'[g] \in 1..(thread_number' - 1)
      BY <1>1, <2>1, <3>1, <3>2, SMT DEF Vector
    <3>4. \A g, h \in threads' : g # h => slot'[g] # slot'[h]
      <4> SUFFICES ASSUME NEW g \in threads', NEW h \in threads', g # h
                   PROVE  slot'[g] # slot'[h]
        OBVIOUS
      <4>1. CASE g \in threads /\ h \in threads
        BY <3>1, <4>1 DEF Vector
      <4>2. CASE g = f
        BY <1>1, <2>1, <3>1, <3>2, <4>2, SMT
      <4>3. CASE h = f
        BY <1>1, <2>1, <3>1, <3>2, <4>3, SMT
      <4> QED
        BY <2>1, <4>1, <4>2, <4>3
    <3>5. \A g \in Files \ {f} : wpc'[g] = wpc[g]
      BY <1>1, <2>1
    <3>6. wpc'[f] = "open"
      BY <1>1, <2>1
    <3>7. \A g \in Files : Live(g)' => g \in threads'
      BY <2>1, <3>5 DEF Vector, Live
    <3>8. \A g \in Files : wpc'[g] = "none" <=> (g \in todo' \/ ~Eligible(g)')
      BY <2>1, <3>5, <3>6 DEF Vector, Eligible
    <3> QED
      BY <3>3, <3>4, <3>7, <3>8 DEF Vector
  <2>5. Phases'
    <3>1. main' = "iterate" => thread_number' <= MaxThreads
      BY <1>1, <2>1, SMT
    <3> QED
      BY <2>1, <3>1 DEF Phases, slots
  <2> QED
    BY <2>3, <2>4, <2>5
<1>3. ASSUME NEW f \in Files, SkipFile(f) PROVE IInv'
  <2>1. /\ main = "iterate" /\ f \in todo /\ ~Eligible(f) /\ todo' = todo \ {f}
        /\ UNCHANGED <<dir, thread_number, threads, slot, wpc, x, outputs, ti, gauge, log>>
        /\ \/ main' = "join_batch" /\ ui' = "sleep"
           \/ main' = "iterate" /\ ui' = ui
    BY <1>3 DEF SkipFile, CloseBatch, workerVars
  <2>2. TypeOK'
    BY <1>1, <2>1 DEF TypeOK
  <2>3. Vector'
    BY <2>1 DEF Vector, Live, Eligible
  <2>4. Phases'
    BY <2>1 DEF Phases, slots
  <2> QED
    BY <2>2, <2>3, <2>4
<1>4. CASE EndOfDirectory
  <2>1. /\ main = "iterate" /\ main' = "join_last" /\ todo = {} /\ ui' = "sleep"
        /\ UNCHANGED <<dir, todo, thread_number, threads, slot, wpc, x, outputs, ti, gauge, log>>
    BY <1>4 DEF EndOfDirectory, workerVars
  <2>2. TypeOK'
    BY <2>1 DEF TypeOK
  <2>3. Vector'
    BY <2>1 DEF Vector, Live, Eligible
  <2>4. Phases'
    BY <2>1 DEF Phases, slots
  <2> QED
    BY <2>2, <2>3, <2>4
<1>5. CASE JoinWorkers
  <2>1. /\ \/ main = "join_batch" /\ main' = "join_ui"
           \/ main = "join_last" /\ main' = "join_last_ui"
        /\ Joined
        /\ UNCHANGED <<dir, todo, thread_number, threads, slot, wpc, x, outputs, ti, ui, gauge, log>>
    BY <1>5 DEF JoinWorkers, workerVars, uiVars
  <2>2. \A f \in Files : ~Live(f)
    BY <2>1 DEF Joined, Vector, Live
  <2>3. TypeOK'
    BY <2>1 DEF TypeOK
  <2>4. Vector'
    BY <2>1 DEF Vector, Live, Eligible
  <2>5. Phases'
    BY <2>1, <2>2 DEF Phases, Live, slots
  <2> QED
    BY <2>3, <2>4, <2>5
<1>6. CASE ResetBatch
  <2>1. /\ main = "join_ui" /\ main' = "iterate" /\ ui' = "none" /\ threads' = {}
        /\ thread_number' = 1 /\ ti' = [s \in slots |-> [ti[s] EXCEPT !.max = 0]]
        /\ UNCHANGED <<dir, todo, slot, wpc, x, outputs, gauge, log>>
    BY <1>6 DEF ResetBatch, workerVars
  <2>2. \A f \in Files : ~Live(f)
    BY <2>1 DEF Phases
  <2>3. TypeOK'
    <3>1. ti' \in [slots -> [max : Int, fin : Int]]
      BY <2>1 DEF TypeOK
    <3> QED
      BY <1>1, <2>1, <3>1, SMT DEF TypeOK
  <2>4. Vector'
    BY <2>1, <2>2 DEF Vector, Live, Eligible
  <2>5. Phases'
    BY <1>1, <2>1, SMT DEF Phases, slots
  <2> QED
    BY <2>3, <2>4, <2>5
<1>7. CASE FolderDone
  <2>1. /\ main = "join_last_ui" /\ main' = "done" /\ ui = "exited" /\ log' = "closed"
        /\ UNCHANGED <<dir, todo, thread_number, threads, slot, wpc, x, outputs, ti, ui, gauge>>
    BY <1>7 DEF FolderDone, workerVars, uiVars
  <2>2. TypeOK'
    BY <2>1 DEF TypeOK
  <2>3. Vector'
    BY <2>1 DEF Vector, Live, Eligible
  <2>4. Phases'
    BY <2>1 DEF Phases, Live, slots
  <2> QED
    BY <2>2, <2>3, <2>4
<1> QED
  BY <1>2, <1>3, <1>4, <1>5, <1>6, <1>7 DEF Main

\* The inductive invariant holds in every behaviour.
THEOREM Invariant == Spec => []IInv
<1>1. Init => IInv
  <2> SUFFICES ASSUME Init PROVE IInv
    OBVIOUS
  <2>1. TypeOK
    <3>1. 1 \in 1..(MaxThreads + 1) /\ 0 \in 0..MaxThreads
      BY BatchAssumption, SMT DEF BatchAssumption
    <3>2. dir \in [Files -> [type : Types, n : EntryCounts, tagged : Names]]
      BY BatchAssumption DEF Init, BatchAssumption
    <3>3. ti \in [slots -> [max : Int, fin : Int]]
      BY BatchAssumption DEF Init, BatchAssumption
    <3> QED
      BY <3>1, <3>2, <3>3 DEF Init, TypeOK, WorkerPc
  <2>2. Vector
    BY DEF Init, Vector, Live
  <2>3. Phases
    BY BatchAssumption, SMT DEF Init, Phases, BatchAssumption
  <2> QED
    BY <2>1, <2>2, <2>3 DEF IInv
<1>2. IInv /\ [Next]_vars => IInv'
  <2> SUFFICES ASSUME IInv, [Next]_vars PROVE IInv'
    OBVIOUS
  <2>1. CASE Main
    BY <2>1, MainStep
  <2>2. CASE Ui
    BY <2>2, UiStep
  <2>3. ASSUME NEW f \in Files, Worker(f) PROVE IInv'
    BY <2>3, WorkerStep
  <2>4. CASE UNCHANGED vars
    BY <2>4 DEF vars, mainVars, workerVars, uiVars, IInv, TypeOK, Vector, Phases, Live,
         Eligible, slots
  <2> QED
    BY <2>1, <2>2, <2>3, <2>4 DEF Next, Finished
<1> QED
  BY <1>1, <1>2, PTL DEF Spec

\* Type correctness; in particular every store of a worker hits a slot of the malloc.
THEOREM TypeCorrect == Spec => []TypeOK
<1>1. IInv => TypeOK
  BY DEF IInv
<1> QED
  BY <1>1, Invariant, PTL

\* No two running workers ever share a THREAD_INFO slot, for any max_threads.
THEOREM SlotsNeverShared == Spec => []SlotExclusive
<1>1. IInv => SlotExclusive
  <2> SUFFICES ASSUME IInv, NEW f \in Files, Live(f)
               PROVE  /\ slot[f] \in slots
                      /\ \A g \in Files \ {f} : Live(g) => slot[g] # slot[f]
    BY DEF SlotExclusive
  <2>1. f \in threads /\ \A g \in Files : Live(g) => g \in threads
    BY DEF IInv, Vector
  <2>2. slot[f] \in slots
    <3>1. thread_number \in 1..(MaxThreads + 1) /\ MaxThreads \in Nat
      BY BatchAssumption DEF IInv, TypeOK, BatchAssumption
    <3>2. slot[f] \in 1..(thread_number - 1)
      BY <2>1 DEF IInv, Vector
    <3> QED
      BY <3>1, <3>2, SMT DEF slots
  <2> QED
    BY <2>1, <2>2 DEF IInv, Vector
<1> QED
  BY <1>1, Invariant, PTL

\* Workers and gauges are joined before slots are reset or the log is closed.
THEOREM AllJoined == Spec => []JoinedBeforeReuse
<1>1. IInv => JoinedBeforeReuse
  BY DEF IInv, Vector, Phases, JoinedBeforeReuse
<1> QED
  BY <1>1, Invariant, PTL

\* When the command ends, every file that is not filtered out has been worked on.
THEOREM NoFileForgotten == Spec => []EveryFileDone
<1>1. IInv => EveryFileDone
  BY DEF IInv, Vector, Phases, EveryFileDone, Live
<1> QED
  BY <1>1, Invariant, PTL
-----------------------------------------------------------------------------
(* What becomes of the outputs *)

Writing(f) == wpc[f] \in {"vp", "entries", "single", "packing"}

\* Where a worker can be, by the type of its file.
PcType == \A f \in Files :
    /\ wpc[f] \in {"vp", "entries", "tag"} => dir[f].type = "vp"
    /\ wpc[f] \in {"single", "packing", "packed"} => dir[f].type = "single"
    /\ wpc[f] \in {"notvp", "notvp_max"} => dir[f].type = "notvp"
    /\ wpc[f] = "locked" => dir[f].type = "locked"
    /\ wpc[f] \in {"lockedvp", "skipped"} => dir[f].type = wpc[f]
    /\ dir[f].tagged # f

\* What is at the name of a result that has been completed is whole, although another
\* result may have been moved there; and a half-written output is never moved.
Whole ==
    /\ \A f \in Files : wpc[f] \in {"tag", "packed"} => outputs[f] \in Files
    /\ \A f \in Files : outputs[f] = Partial /\ wpc[f] = "finished" =>
          dir[f].type \in {"notvp", "locked"}
    /\ \A f \in Files : outputs[f] = Partial => wpc[f] # "none"
    /\ \A p \in Paths \ Files : outputs[p] # Partial

\* The groups of files that write to names nobody else uses.
Groups == {G \in SUBSET {f \in Files : Producing(f)} : G # {} /\ Apart(G)}
NamesOf(G) == UNION {OutputNames(f) : f \in G}

\* The results of a group are at its names and nothing else is, wherever they move.
Placed == \A G \in Groups, p \in Paths :
    outputs[p] \in Files => (outputs[p] \in G <=> p \in NamesOf(G))

\* A group none of whose workers has created its output, or one with a whole result in the
\* folder, or one of whose workers is still writing its own.
Held(G) ==
    \/ \A f \in G : wpc[f] \in {"none", "open"}
    \/ \E p \in Paths : outputs[p] \in G
    \/ \E f \in G : Writing(f)

Kept == \A G \in Groups : Held(G)

OutputsInv == PcType /\ Whole /\ Placed /\ Kept

\* A name that a worker may write to belongs to a group only if the worker's file does.
LEMMA OwnName ==
    ASSUME NEW G \in Groups, NEW f \in Files, NEW p \in OutputNames(f), p \in NamesOf(G)
    PROVE  f \in G
  BY DEF Groups, NamesOf, Apart

\* Only the worker's own position changes, and in these ways.
LEMMA WorkerMoves ==
    ASSUME TypeOK, NEW f \in Files, Worker(f)
    PROVE  \/ UNCHANGED <<wpc, outputs>>
           \/ /\ wpc[f] = "open" /\ wpc' = [wpc EXCEPT ![f] = dir[f].type]
              /\ outputs' = [outputs EXCEPT ![f] = Partial]
           \/ /\ \/ wpc[f] = "entries" /\ wpc' = [wpc EXCEPT ![f] = "tag"]
                 \/ wpc[f] = "packing" /\ wpc' = [wpc EXCEPT ![f] = "packed"]
              /\ outputs' = [outputs EXCEPT ![f] = f]
           \/ /\ wpc[f] = "tag" /\ wpc' = [wpc EXCEPT ![f] = "finished"]
              /\ outputs' = [outputs EXCEPT ![dir[f].tagged] = outputs[f], ![f] = Nothing]
           \/ /\ \/ wpc[f] = "vp" /\ wpc' = [wpc EXCEPT ![f] = "entries"]
                 \/ wpc[f] = "single" /\ wpc' = [wpc EXCEPT ![f] = "packing"]
                 \/ wpc[f] = "notvp" /\ wpc' = [wpc EXCEPT ![f] = "notvp_max"]
                 \/ /\ wpc[f] \in {"tag", "notvp_max", "packed", "locked"}
                    /\ wpc' = [wpc EXCEPT ![f] = "finished"]
              /\ UNCHANGED outputs
<1>1. CASE WorkerStores(f)
  BY <1>1 DEF WorkerStores, Open, VpCount, VpEntry, VpClose, VpTag, NotVpFinished,
       NotVpMax, SingleMax, SinglePack, SingleFinished, Goto, Renamed
<1>2. CASE NullClosed(f) \/ CopyThrows(f)
  BY <1>2 DEF NullClosed, CopyThrows, Crash, workerVars
<1> QED
  BY <1>1, <1>2 DEF Worker

\* No step of a worker takes a group its last whole result.
LEMMA WorkerOutputs ==
    ASSUME IInv, OutputsInv, NEW f \in Files, Worker(f)
    PROVE  OutputsInv'
<1> USE DEF OutputsInv
<1>1. /\ outputs \in [Paths -> Files \cup {Nothing, Partial}] /\ wpc \in [Files -> WorkerPc]
      /\ Files \subseteq Paths /\ dir[f].tagged \in Paths /\ dir[f].tagged # f
      /\ Nothing \notin Files /\ Partial \notin Files /\ Nothing # Partial
  <2>1. dir[f] \in [type : Types, n : EntryCounts, tagged : Names]
    BY DEF IInv, TypeOK
  <2> QED
    BY <2>1, BatchAssumption DEF IInv, TypeOK, Paths, PcType, BatchAssumption
<1>2. /\ dir[f].type \in Type /\ Eligible(f) /\ wpc[f] # "none"
      /\ f \in OutputNames(f)
      /\ dir[f].type = "vp" => dir[f].tagged \in OutputNames(f)
  <2>1. wpc[f] # "none" /\ Eligible(f)
    BY WorkerShape DEF IInv, Vector, Live
  <2>2. dir[f].type \in Type
    BY BatchAssumption DEF IInv, TypeOK, BatchAssumption
  <2> QED
    BY <2>1, <2>2 DEF OutputNames
<1>3. UNCHANGED dir /\ \A g \in Files \ {f} : wpc'[g] = wpc[g]
  BY WorkerShape DEF IInv
<1>4. Groups' = Groups /\ \A G \in Groups : NamesOf(G)' = NamesOf(G)
  BY <1>3 DEF Groups, NamesOf, OutputNames, Apart, Producing, Eligible
<1>5. \A G \in Groups : /\ G \subseteq Files
                        /\ \A p \in OutputNames(f) : p \in NamesOf(G) <=> f \in G
  BY OwnName DEF Groups, NamesOf
<1>11. ASSUME NEW G \in Groups, NEW p \in OutputNames(f), p \in Paths, outputs[p] \in Files
       PROVE  outputs[p] \in G <=> f \in G
  <2>1. outputs[p] \in G <=> p \in NamesOf(G)
    BY <1>11 DEF Placed
  <2> QED
    BY <1>5, <2>1
<1>12. ASSUME NEW G \in Groups, f \notin G, NEW p \in OutputNames(f), p \in Paths
       PROVE  outputs[p] \notin G
  BY <1>5, <1>11, <1>12
<1>6. CASE UNCHANGED <<wpc, outputs>>
  BY <1>3, <1>4, <1>6 DEF PcType, Whole, Placed, Kept, Held, Writing
<1>7. CASE /\ wpc[f] = "open" /\ wpc' = [wpc EXCEPT ![f] = dir[f].type]
           /\ outputs' = [outputs EXCEPT ![f] = Partial]
  <2>1. wpc'[f] = dir[f].type /\ outputs'[f] = Partial
        /\ \A p \in Paths \ {f} : outputs'[p] = outputs[p]
    BY <1>1, <1>7
  <2>2. PcType'
    BY <1>2, <1>3, <2>1 DEF PcType, Type, VpType
  <2>3. Whole'
    BY <1>1, <1>2, <1>3, <2>1 DEF Whole, Type, VpType
  <2>4. Placed'
    BY <1>1, <1>4, <2>1 DEF Placed
  <2>5. ASSUME NEW G \in Groups PROVE Held(G)'
    <3>1. CASE f \in G
      <4>1. dir[f].type \in {"vp", "single"}
        BY <3>1 DEF Groups, Producing
      <4> QED
        BY <2>1, <3>1, <4>1 DEF Held, Writing
    <3>2. CASE f \notin G
      <4>1. \A p \in Paths : outputs[p] \in G => p # f
        BY <1>1, <1>2, <1>12, <3>2
      <4>2. \A g \in G : wpc'[g] = wpc[g]
        BY <1>3, <1>5, <3>2
      <4> QED
        BY <2>1, <4>1, <4>2 DEF Kept, Held, Writing
    <3> QED
      BY <3>1, <3>2
  <2> QED
    BY <1>4, <2>2, <2>3, <2>4, <2>5 DEF Kept
<1>8. CASE /\ \/ wpc[f] = "entries" /\ wpc' = [wpc EXCEPT ![f] = "tag"]
              \/ wpc[f] = "packing" /\ wpc' = [wpc EXCEPT ![f] = "packed"]
           /\ outputs' = [outputs EXCEPT ![f] = f]
  <2>1. /\ outputs'[f] = f /\ \A p \in Paths \ {f} : outputs'[p] = outputs[p]
        /\ \/ wpc[f] = "entries" /\ wpc'[f] = "tag"
           \/ wpc[f] = "packing" /\ wpc'[f] = "packed"
    BY <1>1, <1>8
  <2>2. PcType'
    BY <1>3, <2>1 DEF PcType
  <2>3. Whole'
    BY <1>1, <1>3, <2>1 DEF Whole
  <2>4. Placed'
    <3> SUFFICES ASSUME NEW G \in Groups, NEW p \in Paths, outputs'[p] \in Files
                 PROVE  outputs'[p] \in G <=> p \in NamesOf(G)
      BY <1>4 DEF Placed
    <3>1. CASE p = f
      BY <1>2, <1>5, <2>1, <3>1
    <3>2. CASE p # f
      BY <2>1, <3>2 DEF Placed
    <3> QED
      BY <3>1, <3>2
  <2>5. ASSUME NEW G \in Groups PROVE Held(G)'
    <3>1. CASE f \in G
      BY <1>1, <2>1, <3>1 DEF Held
    <3>2. CASE f \notin G
      <4>1. \A p \in Paths : outputs[p] \in G => p # f
        BY <1>1, <1>2, <1>12, <3>2
      <4>2. \A g \in G : wpc'[g] = wpc[g]
        BY <1>3, <1>5, <3>2
      <4> QED
        BY <2>1, <4>1, <4>2 DEF Kept, Held, Writing
    <3> QED
      BY <3>1, <3>2
  <2> QED
    BY <1>4, <2>2, <2>3, <2>4, <2>5 DEF Kept
<1>9. CASE /\ wpc[f] = "tag" /\ wpc' = [wpc EXCEPT ![f] = "finished"]
           /\ outputs' = [outputs EXCEPT ![dir[f].tagged] = outputs[f], ![f] = Nothing]
  <2> DEFINE t == dir[f].tagged
  <2>1. /\ outputs'[f] = Nothing /\ outputs'[t] = outputs[f]
        /\ \A p \in Paths \ {f, t} : outputs'[p] = outputs[p]
        /\ wpc[f] = "tag" /\ wpc'[f] = "finished"
    BY <1>1, <1>9
  <2>2. dir[f].type = "vp" /\ outputs[f] \in Files
    BY <2>1 DEF PcType, Whole
  <2>8. t \in OutputNames(f)
    BY <1>2, <2>2
  <2>3. t \in Paths /\ t # f
    BY <1>1
  <2> HIDE DEF t
  <2>4. PcType'
    BY <1>3, <2>1 DEF PcType
  <2>5. Whole'
    <3>2. \A g \in Files : wpc'[g] \in {"tag", "packed"} => outputs'[g] \in Files
      BY <1>1, <1>3, <2>1, <2>2, <2>3 DEF Whole
    <3>3. ASSUME NEW g \in Files, outputs'[g] = Partial, wpc'[g] = "finished"
          PROVE  dir'[g].type \in {"notvp", "locked"}
      <4>1. g # f /\ outputs[g] = Partial
        BY <1>1, <2>1, <2>2, <2>3, <3>3
      <4> QED
        BY <1>3, <3>3, <4>1 DEF Whole
    <3>4. \A p \in Paths \ Files : outputs'[p] # Partial
      BY <1>1, <2>1, <2>2, <2>3 DEF Whole
    <3>5. \A g \in Files : outputs'[g] = Partial => wpc'[g] # "none"
      BY <1>1, <1>3, <2>1, <2>2, <2>3 DEF Whole
    <3> QED
      BY <3>2, <3>3, <3>4, <3>5 DEF Whole
  <2>6. Placed'
    <3> SUFFICES ASSUME NEW G \in Groups, NEW p \in Paths, outputs'[p] \in Files
                 PROVE  outputs'[p] \in G <=> p \in NamesOf(G)
      BY <1>4 DEF Placed
    <3>1. p # f
      BY <1>1, <2>1
    <3>2. CASE p = t
      <4>1. outputs'[p] = outputs[f]
        BY <2>1, <3>2
      <4>2. outputs[f] \in G <=> f \in G
        BY <1>1, <1>2, <1>11, <2>2
      <4>3. p \in NamesOf(G) <=> f \in G
        BY <1>5, <2>8, <3>2
      <4> QED
        BY <4>1, <4>2, <4>3
    <3>3. CASE p # t
      BY <2>1, <3>1, <3>3 DEF Placed
    <3> QED
      BY <3>2, <3>3
  <2>7. ASSUME NEW G \in Groups PROVE Held(G)'
    <3>1. CASE f \in G
      <4>1. outputs[f] \in G
        BY <1>1, <1>2, <1>11, <2>2, <3>1
      <4> QED
        BY <2>1, <2>3, <4>1 DEF Held
    <3>2. CASE f \notin G
      <4>1. \A p \in Paths : outputs[p] \in G => p # f /\ p # t
        BY <1>1, <1>2, <1>12, <2>3, <2>8, <3>2
      <4>2. \A g \in G : wpc'[g] = wpc[g]
        BY <1>3, <1>5, <3>2
      <4> QED
        BY <2>1, <4>1, <4>2 DEF Kept, Held, Writing
    <3> QED
      BY <3>1, <3>2
  <2> QED
    BY <1>4, <2>4, <2>5, <2>6, <2>7 DEF Kept
<1>10. CASE /\ \/ wpc[f] = "vp" /\ wpc' = [wpc EXCEPT ![f] = "entries"]
               \/ wpc[f] = "single" /\ wpc' = [wpc EXCEPT ![f] = "packing"]
               \/ wpc[f] = "notvp" /\ wpc' = [wpc EXCEPT ![f] = "notvp_max"]
               \/ /\ wpc[f] \in {"tag", "notvp_max", "packed", "locked"}
                  /\ wpc' = [wpc EXCEPT ![f] = "finished"]
            /\ UNCHANGED outputs
  <2>1. \/ wpc[f] = "vp" /\ wpc'[f] = "entries"
        \/ wpc[f] = "single" /\ wpc'[f] = "packing"
        \/ wpc[f] = "notvp" /\ wpc'[f] = "notvp_max"
        \/ wpc[f] \in {"tag", "notvp_max", "packed", "locked"} /\ wpc'[f] = "finished"
    BY <1>1, <1>10
  <2>2. PcType'
    BY <1>3, <2>1 DEF PcType
  <2>3. Whole'
    BY <1>1, <1>3, <1>10, <2>1 DEF Whole, PcType
  <2>4. Placed'
    BY <1>4, <1>10 DEF Placed
  <2>5. ASSUME NEW G \in Groups PROVE Held(G)'
    <3>1. wpc[f] \notin {"none", "open"} /\ (Writing(f) => wpc'[f] \in {"entries", "packing"})
      BY <2>1 DEF Writing
    <3> QED
      BY <1>3, <1>5, <1>10, <3>1 DEF Kept, Held, Writing
  <2> QED
    BY <1>4, <2>2, <2>3, <2>4, <2>5 DEF Kept
<1> QED
  BY <1>6, <1>7, <1>8, <1>9, <1>10, WorkerMoves DEF IInv

\* Of files that share their output names with nobody else, one at least has its whole
\* result in the folder when the command ends, whoever renames, opens and truncates when.
THEOREM NoOutputLost == Spec => []OutputsKept
<1>1. Init => OutputsInv
  <2> SUFFICES ASSUME Init PROVE OutputsInv
    OBVIOUS
  <2>1. /\ \A f \in Files : wpc[f] = "none" /\ dir[f].tagged # f
        /\ \A p \in Paths : outputs[p] = Nothing
    BY BatchAssumption DEF Init, BatchAssumption
  <2>2. Nothing \notin Files /\ Nothing # Partial /\ Files \subseteq Paths
    BY BatchAssumption DEF BatchAssumption, Paths
  <2>3. \A G \in Groups : G \subseteq Files
    BY DEF Groups
  <2> QED
    BY <2>1, <2>2, <2>3 DEF OutputsInv, PcType, Whole, Placed, Kept, Held
<1>2. IInv /\ OutputsInv /\ [Next]_vars => OutputsInv'
  <2> SUFFICES ASSUME IInv, OutputsInv, [Next]_vars PROVE OutputsInv'
    OBVIOUS
  <2>1. CASE Main
    <3>1. UNCHANGED <<dir, outputs>>
      BY <2>1 DEF Main, StartWorker, SkipFile, EndOfDirectory, JoinWorkers, ResetBatch,
           FolderDone, workerVars
    <3>2. UNCHANGED wpc \/ \E g \in Files : /\ wpc[g] = "none"
                                         /\ wpc' = [wpc EXCEPT ![g] = "open"]
      BY <2>1 DEF Main, StartWorker, SkipFile, EndOfDirectory, JoinWorkers, ResetBatch,
           FolderDone, workerVars, IInv, Vector
    <3>3. \A f \in Files : \/ wpc'[f] = wpc[f]
                           \/ wpc[f] = "none" /\ wpc'[f] = "open"
      BY <3>2 DEF IInv, TypeOK
    <3>4. Groups' = Groups /\ \A G \in Groups : G \subseteq Files /\ NamesOf(G)' = NamesOf(G)
      BY <3>1 DEF Groups, NamesOf, OutputNames, Apart, Producing, Eligible
    <3>5. PcType' /\ Whole'
      BY <3>1, <3>3 DEF OutputsInv, PcType, Whole
    <3>6. Placed'
      BY <3>1, <3>4 DEF OutputsInv, Placed
    <3>7. Kept'
      BY <3>1, <3>3, <3>4 DEF OutputsInv, Kept, Held, Writing
    <3> QED
      BY <3>5, <3>6, <3>7 DEF OutputsInv
  <2>2. ASSUME NEW f \in Files, Worker(f) PROVE OutputsInv'
    BY <2>2, WorkerOutputs
  <2>3. CASE Ui \/ UNCHANGED vars
    <3>1. UNCHANGED <<dir, wpc, outputs>>
      BY <2>3 DEF Ui, UiWake, UiLook, UiAdd, UiDecide, workerVars, vars
    <3>2. Groups' = Groups /\ \A G \in Groups : NamesOf(G)' = NamesOf(G)
      BY <3>1 DEF Groups, NamesOf, OutputNames, Apart, Producing, Eligible
    <3> QED
      BY <3>1, <3>2 DEF OutputsInv, PcType, Whole, Placed, Kept, Held, Writing
  <2> QED
    BY <2>1, <2>2, <2>3 DEF Next, Finished
<1>3. IInv /\ EveryFileDone /\ OutputsInv => OutputsKept
  <2> SUFFICES ASSUME EveryFileDone, OutputsInv, main = "done" PROVE OutputsKept
    BY DEF OutputsKept
  <2>1. ASSUME NEW G \in (SUBSET {f \in Files : Producing(f)}) \ {{}}, Apart(G)
        PROVE  \E p \in Paths : outputs[p] \in G
    <3>1. G \in Groups /\ G # {}
      BY <2>1 DEF Groups
    <3>2. \A f \in G : wpc[f] = "finished"
      BY <2>1 DEF EveryFileDone, Producing, Eligible
    <3> QED
      BY <3>1, <3>2 DEF OutputsInv, Kept, Held, Writing
  <2>2. \A f \in Files : outputs[f] = Partial => dir[f].type \in {"notvp", "locked"}
    BY DEF EveryFileDone, OutputsInv, Whole
  <2>3. \A p \in Paths \ Files : outputs[p] # Partial
    BY DEF OutputsInv, Whole
  <2> QED
    BY <2>1, <2>2, <2>3 DEF OutputsKept
<1> QED
  BY <1>1, <1>2, <1>3, Invariant, NoFileForgotten, PTL DEF Spec
-----------------------------------------------------------------------------
Ordered == regime.tool = "comp" /\ regime.staggered

\* A process that has decided to be the master, or is it, is alone; while one collects, its
\* file is there; and wincomp never removes a file after the work.
OneMaster ==
    /\ \A p, q \in Instances : p # q => ~(Master(p) /\ Master(q))
    /\ \A p \in Instances : Collecting(p) => exists
    /\ \A p \in Instances : pc[p] # "remove_again"

In(q, s) == \E i \in 1..Len(s) : s[i] = q
Distinct(s) == \A i, j \in 1..Len(s) : s[i] = s[j] => i = j

\* A process whose path has not been written anywhere yet.
Unwritten(q) == pc[q] \in {"check", "create", "write", "append_open", "append"}

\* Every path is in one place at most: in the file, among the paths of one process, or worked
\* on.  The exception is a master between reading and removing the file; should it be
\* killed there, its paths stay in both places, but then the file is never read again,
\* because nobody else is or becomes the master.
OnePlace ==
    /\ Distinct(lines) /\ \A p \in Instances : Distinct(files[p])
    /\ ~exists => lines = <<>>
    /\ \A p \in Instances : pc[p] \in {"append", "write"} => exists
    /\ \A q \in Instances : Unwritten(q) => times[q] = 0 /\ ~In(q, lines)
    /\ \A q \in Instances : In(q, lines) => times[q] = 0
    /\ \A p, q \in Instances : In(q, files[p]) => times[q] = 0 /\ ~Unwritten(q)
    /\ \A p, r, q \in Instances : In(q, files[p]) /\ In(q, files[r]) => p = r
    /\ \A p, q \in Instances : In(q, lines) /\ In(q, files[p]) =>
         pc[p] # "work" /\ \A r \in Instances \ {p} : ~Master(r)
    /\ \A q \in Instances : times[q] <= 1

RendezvousInv == RendezvousTypeOK /\ (Ordered => OneMaster /\ OnePlace)
-----------------------------------------------------------------------------
(* Sequences *)

\* AppendOwn: one more element, a new one.
LEMMA AppendElements ==
    ASSUME NEW s \in Seq(Instances), NEW e \in Instances
    PROVE  /\ Append(s, e) \in Seq(Instances)
           /\ \A q \in Instances : In(q, Append(s, e)) <=> (In(q, s) \/ q = e)
           /\ Distinct(s) /\ ~In(e, s) => Distinct(Append(s, e))
<1> DEFINE t == Append(s, e)
<1>1. /\ t \in Seq(Instances) /\ Len(s) \in Nat /\ Len(t) = Len(s) + 1
      /\ \A i \in 1..Len(s) : t[i] = s[i]
      /\ t[Len(s) + 1] = e
  BY AppendProperties, LenProperties
<1> HIDE DEF t
<1>2. \A i \in 1..Len(t) : i \in 1..Len(s) \/ i = Len(s) + 1
  BY <1>1
<1>3. \A q \in Instances : In(q, t) <=> (In(q, s) \/ q = e)
  BY <1>1, <1>2 DEF In
<1>4. Distinct(s) /\ ~In(e, s) => Distinct(t)
  BY <1>1, <1>2 DEF In, Distinct
<1> QED
  BY <1>1, <1>3, <1>4 DEF t

\* Work: the head is not in the rest.
LEMMA TailElements ==
    ASSUME NEW s \in Seq(Instances), s # <<>>
    PROVE  /\ Head(s) \in Instances /\ Tail(s) \in Seq(Instances) /\ In(Head(s), s)
           /\ \A q \in Instances : In(q, Tail(s)) => In(q, s)
           /\ Distinct(s) => Distinct(Tail(s)) /\ ~In(Head(s), Tail(s))
<1> DEFINE t == Tail(s)
<1>1. /\ Head(s) \in Instances /\ t \in Seq(Instances)
      /\ Len(s) \in Nat \ {0} /\ Len(t) = Len(s) - 1 /\ Head(s) = s[1]
      /\ \A i \in 1..Len(t) : t[i] = s[i + 1]
  BY HeadTailProperties, EmptySeq
<1> HIDE DEF t
<1>2. \A i \in 1..Len(t) : i + 1 \in 2..Len(s) /\ i + 1 \in 1..Len(s)
  BY <1>1
<1>3. 1 \in 1..Len(s) /\ In(Head(s), s)
  BY <1>1 DEF In
<1>4. \A q \in Instances : In(q, t) => In(q, s)
  BY <1>1, <1>2 DEF In
<1>5. ASSUME Distinct(s) PROVE Distinct(t)
  <2> SUFFICES ASSUME NEW i \in 1..Len(t), NEW j \in 1..Len(t), t[i] = t[j] PROVE i = j
    BY DEF Distinct
  <2>1. i + 1 = j + 1
    BY <1>1, <1>2, <1>5 DEF Distinct
  <2> QED
    BY <2>1, <1>1
<1>6. ASSUME Distinct(s), In(Head(s), t) PROVE FALSE
  <2>1. PICK i \in 1..Len(t) : t[i] = s[1]
    BY <1>1, <1>6 DEF In
  <2>2. i + 1 = 1
    BY <1>1, <1>2, <1>3, <1>6, <2>1 DEF Distinct
  <2> QED
    BY <2>1, <2>2, <1>1
<1> QED
  BY <1>1, <1>3, <1>4, <1>5, <1>6 DEF t

\* WriteOwn: the first element is replaced by a new one.
LEMMA OverwriteElements ==
    ASSUME NEW s \in Seq(Instances), s # <<>>, NEW e \in Instances
    PROVE  /\ <<e>> \o Tail(s) \in Seq(Instances)
           /\ \A q \in Instances : In(q, <<e>> \o Tail(s)) => (In(q, s) \/ q = e)
           /\ Distinct(s) /\ ~In(e, s) => Distinct(<<e>> \o Tail(s))
<1> DEFINE t == <<e>> \o Tail(s)
<1>1. /\ Tail(s) \in Seq(Instances) /\ Len(s) \in Nat \ {0} /\ Len(Tail(s)) = Len(s) - 1
      /\ \A i \in 1..Len(Tail(s)) : Tail(s)[i] = s[i + 1]
  BY HeadTailProperties, EmptySeq
<1>2. <<e>> \in Seq(Instances) /\ Len(<<e>>) = 1 /\ <<e>>[1] = e
  OBVIOUS
<1>3. /\ t \in Seq(Instances) /\ Len(t) = 1 + Len(Tail(s))
      /\ \A i \in 1..1 + Len(Tail(s)) : t[i] = IF i <= 1 THEN <<e>>[i] ELSE Tail(s)[i - 1]
  BY <1>1, <1>2, ConcatProperties
<1> HIDE DEF t
<1>4. Len(t) = Len(s) /\ t[1] = e /\ \A i \in 2..Len(s) : t[i] = s[i]
  BY <1>1, <1>2, <1>3
<1>5. \A i \in 1..Len(t) : i = 1 \/ i \in 2..Len(s)
  BY <1>1, <1>4
<1>6. 2..Len(s) \subseteq 1..Len(s)
  BY <1>1
<1>7. \A q \in Instances : In(q, t) => (In(q, s) \/ q = e)
  BY <1>4, <1>5, <1>6 DEF In
<1>8. Distinct(s) /\ ~In(e, s) => Distinct(t)
  BY <1>4, <1>5, <1>6 DEF In, Distinct
<1> QED
  BY <1>3, <1>7, <1>8 DEF t

LEMMA SingleElement ==
    ASSUME NEW e \in Instances
    PROVE  /\ <<e>> \in Seq(Instances) /\ Distinct(<<e>>)
           /\ \A q \in Instances : In(q, <<e>>) => q = e
  BY DEF In, Distinct

LEMMA NoElement == <<>> \in Seq(Instances) /\ Distinct(<<>>) /\ \A q \in Instances : ~In(q, <<>>)
<1>1. <<>> \in Seq(Instances) /\ Len(<<>>) = 0
  BY EmptySeq
<1> QED
  BY <1>1 DEF In, Distinct
-----------------------------------------------------------------------------
(* Steps *)

\* The variables keep their types, whatever step is taken.
LEMMA StepType ==
    ASSUME RendezvousTypeOK, NEW p \in Instances, Step(p) \/ Kill(p)
    PROVE  RendezvousTypeOK'
<1> USE DEF Pc
<1>1. pc \in [Instances -> Pc] /\ lines \in Seq(Instances) /\ files[p] \in Seq(Instances)
  BY DEF RendezvousTypeOK
<1>2. regime' \in Regimes /\ exists' \in BOOLEAN
  BY Zenon DEF RendezvousTypeOK, Step, Kill, Check, Create, WriteOwn, Wake, OpenRead, ReadLines, Remove,
       RemoveFile, Work, WorkDone, RemoveAgain, OpenAppend, AppendOwn
<1>3. pc' \in [Instances -> Pc]
  <2>1. UNCHANGED pc \/ \E l \in Pc : pc' = [pc EXCEPT ![p] = l]
    BY DEF Step, Kill, Check, Create, WriteOwn, Wake, OpenRead, ReadLines, Remove,
       RemoveFile, Work, WorkDone, AfterWork, RemoveAgain, OpenAppend, AppendOwn, Moves
  <2> QED
    BY <1>1, <2>1
<1>4. lines' \in Seq(Instances)
  <2>1. \/ UNCHANGED lines \/ lines' = <<>> \/ lines' = <<p>>
        \/ lines # <<>> /\ lines' = <<p>> \o Tail(lines)
        \/ lines' = Append(lines, p)
    BY DEF Step, Kill, Check, Create, WriteOwn, Wake, OpenRead, ReadLines, Remove,
       RemoveFile, Work, WorkDone, RemoveAgain, OpenAppend, AppendOwn, Appended
  <2>2. <<>> \in Seq(Instances) /\ <<p>> \in Seq(Instances)
    BY NoElement, SingleElement
  <2>3. lines # <<>> => <<p>> \o Tail(lines) \in Seq(Instances)
    BY <1>1, OverwriteElements
  <2>4. Append(lines, p) \in Seq(Instances)
    BY <1>1, AppendElements
  <2> QED
    BY <1>1, <2>1, <2>2, <2>3, <2>4
<1>5. files' \in [Instances -> Seq(Instances)] /\ times' \in [Instances -> Nat]
  <2>1. files \in [Instances -> Seq(Instances)] /\ times \in [Instances -> Nat]
    BY DEF RendezvousTypeOK
  <2>2. CASE ReadLines(p)
    BY <1>1, <2>1, <2>2 DEF ReadLines, PathsRead
  <2>3. CASE Work(p)
    <3>1. Head(files[p]) \in Instances /\ Tail(files[p]) \in Seq(Instances)
      BY <1>1, <2>3 DEF Work
    <3>2. times[Head(files[p])] + 1 \in Nat
      BY <2>1, <3>1
    <3> QED
      BY <2>1, <2>3, <3>1, <3>2 DEF Work
  <2>4. CASE ~ReadLines(p) /\ ~Work(p)
    BY <2>1, <2>4 DEF Step, Kill, Check, Create, WriteOwn, Wake, OpenRead, Remove,
       WorkDone, RemoveAgain, OpenAppend, AppendOwn
  <2> QED
    BY <2>2, <2>3, <2>4
<1> QED
  BY <1>2, <1>3, <1>4, <1>5 DEF RendezvousTypeOK

\* A step moves one process.
LEMMA OthersStay ==
    ASSUME RendezvousTypeOK, NEW p \in Instances, Step(p) \/ Kill(p)
    PROVE  \A q \in Instances \ {p} : pc'[q] = pc[q]
<1>1. UNCHANGED pc \/ \E l : pc' = [pc EXCEPT ![p] = l]
  BY DEF Step, Kill, Check, Create, WriteOwn, Wake, OpenRead, ReadLines, Remove,
     RemoveFile, Work, WorkDone, AfterWork, RemoveAgain, OpenAppend, AppendOwn, Moves
<1> QED
  BY <1>1 DEF RendezvousTypeOK

\* The one place where a second master could appear is the look at the file: it is not there,
\* so nobody collects, and nobody is about to create it, so nobody will.
LEMMA StepOneMaster ==
    ASSUME RendezvousTypeOK, Ordered, OneMaster, NEW p \in Instances, Step(p) \/ Kill(p)
    PROVE  OneMaster'
<1> USE DEF OneMaster, Master, Collecting
<1>1. \A q \in Instances \ {p} : pc'[q] = pc[q]
  BY OthersStay
<1>2. pc \in [Instances -> Pc]
  BY DEF RendezvousTypeOK
<1>3. CASE Check(p)
  <2>1. UNCHANGED exists /\ \A q \in Instances : pc[q] # "create"
    BY <1>3 DEF Check, Ordered
  <2>2. pc'[p] = IF ~exists THEN "create" ELSE "append_open"
    BY <1>2, <1>3 DEF Check, Moves, MasterBranch
  <2> QED
    BY <1>1, <2>1, <2>2
<1>4. CASE Create(p)
  BY <1>1, <1>2, <1>4 DEF Create, Moves
<1>5. CASE WriteOwn(p) \/ Wake(p) \/ ReadLines(p) \/ OpenRead(p)
  <2>1. Collecting(p) /\ UNCHANGED exists
    BY <1>5 DEF WriteOwn, Wake, ReadLines, OpenRead
  <2>2. pc'[p] # "remove_again"
    BY <1>2, <1>5 DEF WriteOwn, Wake, ReadLines, OpenRead, Moves
  <2> QED
    BY <1>1, <2>1, <2>2
<1>6. CASE Remove(p)
  <2>1. pc[p] = "remove" /\ pc'[p] \in {"work", "died"}
    BY <1>2, <1>6 DEF Remove, RemoveFile, Moves
  <2> QED
    BY <1>1, <2>1
<1>7. CASE Work(p)
  BY <1>7 DEF Work
<1>8. CASE WorkDone(p)
  <2>1. pc'[p] = "done" /\ UNCHANGED exists
    BY <1>2, <1>8 DEF WorkDone, AfterWork, Moves, Ordered
  <2> QED
    BY <1>1, <2>1
<1>9. CASE RemoveAgain(p)
  BY <1>9 DEF RemoveAgain
<1>10. CASE OpenAppend(p) \/ AppendOwn(p)
  <2>1. pc'[p] \in {"append", "done"} /\ (exists' = TRUE \/ UNCHANGED exists)
    BY <1>2, <1>10 DEF OpenAppend, AppendOwn, Moves
  <2> QED
    BY <1>1, <2>1
<1>11. CASE Kill(p)
  <2>1. pc'[p] = "killed" /\ UNCHANGED exists
    BY <1>2, <1>11 DEF Kill, Moves
  <2> QED
    BY <1>1, <2>1
<1> QED
  BY <1>3, <1>4, <1>5, <1>6, <1>7, <1>8, <1>9, <1>10, <1>11 DEF Step

\* What a step does to the paths, in each of the places they can be.
LEMMA StepOnePlace ==
    ASSUME RendezvousTypeOK, Ordered, OneMaster, OneMaster', OnePlace,
           NEW p \in Instances, Step(p) \/ Kill(p)
    PROVE  OnePlace'
<1>1. \A q \in Instances \ {p} : pc'[q] = pc[q]
  BY OthersStay
<1>2. /\ pc \in [Instances -> Pc] /\ lines \in Seq(Instances)
      /\ files \in [Instances -> Seq(Instances)] /\ times \in [Instances -> Nat]
  BY DEF RendezvousTypeOK
<1>3. CASE Check(p)
  <2>1. UNCHANGED <<exists, lines, files, times>> /\ pc[p] = "check"
    BY <1>3 DEF Check
  <2>2. pc'[p] = IF ~exists THEN "create" ELSE "append_open"
    BY <1>2, <1>3 DEF Check, Moves, MasterBranch
  <2>3. ~exists => \A q \in Instances : ~In(q, lines)
    BY NoElement DEF OnePlace
  <2>4. \A q \in Instances : Unwritten(q)' => Unwritten(q)
    BY <1>1, <2>1 DEF Unwritten
  <2>5. exists => \A r \in Instances : Master(r)' => Master(r)
    BY <1>1, <2>2 DEF Master, Collecting
  <2> QED
    BY <1>1, <2>1, <2>2, <2>3, <2>4, <2>5 DEF OnePlace, In, Distinct
<1>4. CASE Create(p)
  <2>1. exists' = TRUE /\ lines' = <<>> /\ UNCHANGED <<files, times>> /\ pc[p] = "create"
    BY <1>4 DEF Create
  <2>2. \A q \in Instances : Unwritten(q)' => Unwritten(q)
    BY <1>1, <2>1 DEF Unwritten
  <2>3. Distinct(lines') /\ \A q \in Instances : ~In(q, lines')
    BY <2>1, NoElement
  <2> QED
    BY <2>1, <2>2, <2>3 DEF OnePlace, In, Distinct
<1>5. CASE WriteOwn(p) \/ AppendOwn(p)
  <2>1. /\ UNCHANGED <<exists, files, times>> /\ pc[p] \in {"write", "append"} /\ exists
        /\ pc'[p] \in {"sleep", "done"}
    BY <1>2, <1>5 DEF WriteOwn, AppendOwn, Moves, OnePlace
  <2>2. /\ Unwritten(p) /\ times[p] = 0 /\ ~In(p, lines)
        /\ \A r \in Instances : ~In(p, files[r])
    BY <2>1 DEF Unwritten, OnePlace
  <2>3. Distinct(lines') /\ \A q \in Instances : In(q, lines') => In(q, lines) \/ q = p
    <3>1. \/ lines' = <<p>>
          \/ lines' = Append(lines, p)
          \/ lines # <<>> /\ lines' = <<p>> \o Tail(lines)
      BY <1>5 DEF WriteOwn, AppendOwn, Appended
    <3>2. Distinct(lines)
      BY DEF OnePlace
    <3>3. CASE lines' = <<p>>
      BY <3>3, SingleElement
    <3>4. CASE lines' = Append(lines, p)
      BY <1>2, <2>2, <3>2, <3>4, AppendElements
    <3>5. CASE lines # <<>> /\ lines' = <<p>> \o Tail(lines)
      BY <1>2, <2>2, <3>2, <3>5, OverwriteElements
    <3> QED
      BY <3>1, <3>3, <3>4, <3>5
  <2>4. \A q \in Instances : Unwritten(q)' => Unwritten(q) /\ q # p
    BY <1>1, <2>1 DEF Unwritten
  <2>5. \A r \in Instances : Master(r)' => Master(r)
    <3>1. Master(p)' => Master(p)
      BY <1>2, <1>5 DEF Master, Collecting, WriteOwn, AppendOwn, Moves
    <3> QED
      BY <1>1, <3>1 DEF Master, Collecting
  <2>6. \A r \in Instances : pc'[r] = "work" => pc[r] = "work"
    BY <1>1, <2>1
  <2> QED
    BY <1>1, <2>1, <2>2, <2>3, <2>4, <2>5, <2>6 DEF OnePlace, Distinct, In
<1>6. CASE Wake(p) \/ OpenRead(p) \/ OpenAppend(p) \/ Kill(p) \/ WorkDone(p)
  <2>1. /\ UNCHANGED <<lines, files, times>> /\ (exists' = exists \/ exists' = TRUE)
        /\ pc'[p] \in {"open", "reading", "died", "append", "killed", "done"}
        /\ pc'[p] \in {"open", "reading"} => Collecting(p)
        /\ pc'[p] = "append" => exists' = TRUE /\ pc[p] = "append_open"
    BY <1>2, <1>6 DEF Wake, OpenRead, OpenAppend, Kill, WorkDone, AfterWork, Moves, Ordered,
       Collecting
  <2>2. \A q \in Instances : Unwritten(q)' => Unwritten(q)
    BY <1>1, <2>1 DEF Unwritten
  <2>3. \A r \in Instances : Master(r)' => Master(r)
    BY <1>1, <2>1 DEF Master, Collecting
  <2>4. \A r \in Instances : pc'[r] = "work" => pc[r] = "work"
    BY <1>1, <2>1
  <2>5. \A r \in Instances : pc'[r] \in {"append", "write"} => exists'
    BY <1>1, <2>1 DEF OnePlace
  <2>6. \A q \in Instances : Unwritten(q)' => times'[q] = 0 /\ ~In(q, lines')
    BY <2>1, <2>2 DEF OnePlace
  <2>7. \A r, q \in Instances : In(q, files'[r]) => times'[q] = 0 /\ ~Unwritten(q)'
    BY <2>1, <2>2 DEF OnePlace
  <2>8. \A r, q \in Instances : In(q, lines') /\ In(q, files'[r]) =>
           pc'[r] # "work" /\ \A o \in Instances \ {r} : ~Master(o)'
    BY <2>1, <2>3, <2>4 DEF OnePlace
  <2>9. ~exists' => lines' = <<>>
    BY <2>1 DEF OnePlace
  <2> QED
    BY <2>1, <2>5, <2>6, <2>7, <2>8, <2>9 DEF OnePlace, Distinct, In
<1>7. CASE ReadLines(p)
  <2>1. /\ UNCHANGED <<exists, lines, times>> /\ pc[p] = "reading" /\ pc'[p] = "remove"
        /\ files' = [files EXCEPT ![p] = lines]
    BY <1>2, <1>7 DEF ReadLines, PathsRead, Moves
  <2>2. files'[p] = lines /\ \A r \in Instances \ {p} : files'[r] = files[r]
    BY <1>2, <2>1
  <2>3. \A q \in Instances : Unwritten(q)' => Unwritten(q)
    BY <1>1, <2>1 DEF Unwritten
  <2>4. Master(p) /\ Master(p)' /\ \A r \in Instances \ {p} : ~Master(r) /\ ~Master(r)'
    BY <1>1, <2>1 DEF OneMaster, Master, Collecting
  <2>5. \A r \in Instances \ {p}, q \in Instances : ~(In(q, lines) /\ In(q, files[r]))
    BY <2>4 DEF OnePlace
  <2>6. \A r, s, q \in Instances : In(q, files'[r]) /\ In(q, files'[s]) => r = s
    BY <2>2, <2>5 DEF OnePlace
  <2>7. \A r, q \in Instances : In(q, lines') /\ In(q, files'[r]) => r = p
    BY <2>1, <2>2, <2>5
  <2>8. \A q \in Instances : In(q, lines) => ~Unwritten(q) /\ times[q] = 0
    BY DEF OnePlace
  <2>9. \A r, q \in Instances : In(q, files'[r]) => times'[q] = 0 /\ ~Unwritten(q)'
    BY <2>1, <2>2, <2>3, <2>8 DEF OnePlace
  <2>10. \A r \in Instances : Distinct(files'[r])
    BY <2>2 DEF OnePlace
  <2>11. \A r \in Instances : pc'[r] \in {"append", "write"} => exists'
    BY <1>1, <2>1 DEF OnePlace
  <2>12. \A r, q \in Instances : In(q, lines') /\ In(q, files'[r]) =>
           pc'[r] # "work" /\ \A o \in Instances \ {r} : ~Master(o)'
    BY <2>1, <2>4, <2>7
  <2> QED
    BY <2>1, <2>3, <2>6, <2>9, <2>10, <2>11, <2>12 DEF OnePlace, Distinct, In
<1>8. CASE Remove(p)
  <2>1. UNCHANGED <<files, times>> /\ pc[p] = "remove"
    BY <1>8 DEF Remove
  <2>2. CASE UNCHANGED <<exists, lines>> /\ pc'[p] = "died"
    <3>1. \A q \in Instances : Unwritten(q)' => Unwritten(q)
      BY <1>1, <2>2 DEF Unwritten
    <3>2. \A r \in Instances : Master(r)' => Master(r)
      BY <1>1, <2>2 DEF Master, Collecting
    <3>3. \A r \in Instances : pc'[r] \in {"append", "write"} => exists'
      BY <1>1, <2>2 DEF OnePlace
    <3>4. \A q \in Instances : Unwritten(q)' => times'[q] = 0 /\ ~In(q, lines')
      BY <2>1, <2>2, <3>1 DEF OnePlace
    <3>5. \A r, q \in Instances : In(q, files'[r]) => times'[q] = 0 /\ ~Unwritten(q)'
      BY <2>1, <3>1 DEF OnePlace
    <3>6. \A r \in Instances : pc'[r] = "work" => pc[r] = "work"
      BY <1>1, <2>2
    <3>7. \A r, q \in Instances : In(q, lines') /\ In(q, files'[r]) =>
             pc'[r] # "work" /\ \A o \in Instances \ {r} : ~Master(o)'
      BY <2>1, <2>2, <3>2, <3>6 DEF OnePlace
    <3> QED
      BY <2>1, <2>2, <3>3, <3>4, <3>5, <3>7 DEF OnePlace, Distinct, In
  <2>3. CASE /\ exists' = FALSE /\ lines' = <<>> /\ pc'[p] = "work"
             /\ \A r \in Instances \ {p} : ~Holding(r)
    <3>1. Distinct(lines') /\ \A q \in Instances : ~In(q, lines')
      BY <2>3, NoElement
    <3>2. \A q \in Instances : Unwritten(q)' => Unwritten(q)
      BY <1>1, <2>3 DEF Unwritten
    <3>3. \A r \in Instances : pc'[r] \notin {"append", "write"}
      BY <1>1, <2>3 DEF Holding
    <3>4. \A q \in Instances : Unwritten(q)' => times'[q] = 0 /\ ~In(q, lines')
      BY <2>1, <3>1, <3>2 DEF OnePlace
    <3>5. \A r, q \in Instances : In(q, files'[r]) => times'[q] = 0 /\ ~Unwritten(q)'
      BY <2>1, <3>2 DEF OnePlace
    <3> QED
      BY <2>1, <2>3, <3>1, <3>3, <3>4, <3>5 DEF OnePlace, Distinct, In
  <2>4. exists
    BY <2>1 DEF OneMaster, Collecting
  <2> QED
    BY <1>2, <1>8, <2>2, <2>3, <2>4 DEF Remove, RemoveFile, Moves
<1>9. CASE Work(p)
  <2> DEFINE h == Head(files[p])
  <2>1. /\ UNCHANGED <<pc, exists, lines>> /\ pc[p] = "work" /\ files[p] # <<>>
        /\ times' = [times EXCEPT ![h] = @ + 1] /\ files' = [files EXCEPT ![p] = Tail(@)]
    BY <1>9 DEF Work
  <2>2. /\ files[p] \in Seq(Instances) /\ h \in Instances /\ In(h, files[p])
        /\ \A q \in Instances : In(q, Tail(files[p])) => In(q, files[p])
        /\ Distinct(Tail(files[p])) /\ ~In(h, Tail(files[p]))
    BY <1>2, <2>1, TailElements DEF OnePlace
  <2>3. times[h] = 0 /\ ~Unwritten(h) /\ ~In(h, lines)
        /\ \A r \in Instances \ {p} : ~In(h, files[r])
    BY <2>1, <2>2 DEF OnePlace
  <2> HIDE DEF h
  <2>4. files'[p] = Tail(files[p]) /\ \A r \in Instances \ {p} : files'[r] = files[r]
    BY <1>2, <2>1
  <2>5. times'[h] = 1 /\ \A q \in Instances \ {h} : times'[q] = times[q]
    BY <1>2, <2>1, <2>2, <2>3
  <2>6. \A r, q \in Instances : In(q, files'[r]) => In(q, files[r]) /\ q # h
    BY <2>2, <2>3, <2>4
  <2>7. \A r \in Instances : Distinct(files'[r])
    BY <2>2, <2>4 DEF OnePlace
  <2>8. \A q \in Instances : times'[q] <= 1
    BY <2>5 DEF OnePlace
  <2>9. UNCHANGED pc /\ UNCHANGED lines /\ UNCHANGED exists
    BY <2>1
  <2>10. \A q \in Instances : Unwritten(q)' => times'[q] = 0 /\ ~In(q, lines')
    BY <2>3, <2>5, <2>9 DEF OnePlace, Unwritten
  <2>11. \A q \in Instances : In(q, lines') => times'[q] = 0
    BY <2>3, <2>5, <2>9 DEF OnePlace
  <2>12. \A r, q \in Instances : In(q, files'[r]) => times'[q] = 0 /\ ~Unwritten(q)'
    BY <2>5, <2>6, <2>9 DEF OnePlace, Unwritten
  <2>13. \A r, q \in Instances : In(q, lines') /\ In(q, files'[r]) =>
           pc'[r] # "work" /\ \A o \in Instances \ {r} : ~Master(o)'
    BY <2>6, <2>9 DEF OnePlace, Master, Collecting
  <2>14. \A r, s, q \in Instances : In(q, files'[r]) /\ In(q, files'[s]) => r = s
    BY <2>6 DEF OnePlace
  <2> QED
    BY <2>7, <2>8, <2>9, <2>10, <2>11, <2>12, <2>13, <2>14 DEF OnePlace, Distinct, In
<1>10. CASE RemoveAgain(p)
  BY <1>10 DEF RemoveAgain, OneMaster
<1> QED
  BY <1>3, <1>4, <1>5, <1>6, <1>7, <1>8, <1>9, <1>10 DEF Step

\* The inductive invariant holds in every behaviour.
THEOREM RendezvousInvariant == RendezvousSpec => []RendezvousInv
<1>1. RendezvousInit => RendezvousInv
  <2> SUFFICES ASSUME RendezvousInit PROVE RendezvousInv
    OBVIOUS
  <2>1. RendezvousTypeOK
    BY NoElement DEF RendezvousInit, RendezvousTypeOK, Pc
  <2>2. OneMaster
    BY DEF RendezvousInit, OneMaster, Master, Collecting
  <2>3. OnePlace
    BY NoElement DEF RendezvousInit, OnePlace
  <2> QED
    BY <2>1, <2>2, <2>3 DEF RendezvousInv
<1>2. RendezvousInv /\ [RendezvousNext]_rendezvousVars => RendezvousInv'
  <2> SUFFICES ASSUME RendezvousInv, [RendezvousNext]_rendezvousVars PROVE RendezvousInv'
    OBVIOUS
  <2>1. ASSUME NEW p \in Instances, Step(p) \/ Kill(p) PROVE RendezvousInv'
    <3>1. UNCHANGED regime
      BY <2>1, Zenon DEF Step, Kill, Check, Create, WriteOwn, Wake, OpenRead, ReadLines, Remove,
         Work, WorkDone, RemoveAgain, OpenAppend, AppendOwn
    <3>2. RendezvousTypeOK'
      BY <2>1, StepType DEF RendezvousInv
    <3>3. Ordered => OneMaster'
      BY <2>1, StepOneMaster DEF RendezvousInv
    <3>4. Ordered => OnePlace'
      BY <2>1, <3>3, StepOnePlace DEF RendezvousInv
    <3> QED
      BY <3>1, <3>2, <3>3, <3>4 DEF RendezvousInv, Ordered
  <2>2. CASE UNCHANGED rendezvousVars
    BY <2>2 DEF rendezvousVars, RendezvousInv, RendezvousTypeOK, Ordered, OneMaster, OnePlace, Unwritten, In, Distinct,
       Master, Collecting
  <2> QED
    BY <2>1, <2>2 DEF RendezvousNext, AllEnded
<1> QED
  BY <1>1, <1>2, PTL DEF RendezvousSpec

\* Type correctness.
THEOREM RendezvousTypeCorrect == RendezvousSpec => []RendezvousTypeOK
<1>1. RendezvousInv => RendezvousTypeOK
  BY DEF RendezvousInv
<1> QED
  BY <1>1, RendezvousInvariant, PTL

\* While processes do not look for the file at the same moment, at most one of them collects
\* paths, for any number of processes, kills and late appends.
THEOREM CollectorUnique == RendezvousSpec => []OneCollector
<1>1. RendezvousInv => OneCollector
  BY DEF RendezvousInv, Ordered, OneMaster, Master, OneCollector, AtMostOneMaster
<1> QED
  BY <1>1, RendezvousInvariant, PTL

\* ... and nobody removes the file under a process that collects.
THEOREM FileKept == RendezvousSpec => []SleeperKeepsFile
<1>1. RendezvousInv => SleeperKeepsFile
  BY DEF RendezvousInv, Ordered, OneMaster, SleeperKeepsFile
<1> QED
  BY <1>1, RendezvousInvariant, PTL

\* ... and no path is worked on twice, killed masters included.
THEOREM NeverTwice == RendezvousSpec => []AtMostOnce
<1>1. RendezvousInv => AtMostOnce
  BY DEF RendezvousInv, Ordered, OnePlace, AtMostOnce
<1> QED
  BY <1>1, RendezvousInvariant, PTL
=============================================================================
