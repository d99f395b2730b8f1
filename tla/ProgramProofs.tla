----------------------------- MODULE ProgramProofs -----------------------------
(***************************************************************************)
(* Runs of the program keep the files and agree about their settings: for  *)
(* any files, settings, commands, number of runs and number of failures.   *)
(***************************************************************************)
EXTENDS Program, FiniteSetTheorems, WellFoundedInduction, TLAPS

(* A thread at least may be started. *)
Usable(c) ==
    /\ c = [key \in Key |-> c[key]]
    /\ c.max_threads \in Nat \ {0}

Steps == {"start", "create", "write", "ready", "iterate", "join", "done", "dead"}

Places == {"none", "open", "begin", "copy", "finished"}

Written == {NoIni, <<>>, DefaultLines}

Types ==
    /\ ini \in Written \cup Inis
    /\ edited \in BOOLEAN
    /\ folder \in [0..Runs -> [Files -> File]]
    /\ pc \in [runs -> Steps]
    /\ DOMAIN config = runs /\ config = [k \in runs |-> config[k]]
    /\ \A k \in runs : Usable(config[k])
    /\ todo \in [runs -> SUBSET Files]
    /\ batch \in [runs -> SUBSET Files]
    /\ work \in [runs -> [Files -> Places]]
    /\ excused \in [runs -> SUBSET Files]

Begun(k) == pc[k] \in {"iterate", "join", "done"}

(* A folder that is read is not written any more. *)
InOrder == \A k \in runs : Begun(k) => k = 1 \/ (k - 1 \in runs /\ pc[k - 1] = "done")

Fresh(k) ==
    pc[k] \in {"start", "create", "write", "ready"} =>
        batch[k] = {} /\ \A n \in Files : work[k][n] = "none"

(* No file falls through between the batches. *)
Accounted(k) ==
    Begun(k) =>
        /\ pc[k] = "iterate" => Cardinality(batch[k]) < Threads(k)
        /\ pc[k] = "done" => todo[k] = {} /\ batch[k] = {}
        /\ \A n \in Files :
              OfFolder(k) /\ Eligible(k, n) /\ n \notin todo[k] =>
                  n \in batch[k] \/ work[k][n] = "finished"

WorkedOn(k, n, place, out) ==
    /\ place = "finished" => Right(k, out, InOf(k, n))
    /\ place = "copy" /\ ~ Compresses(k) => InOf(k, n) = Plain(InOf(k, n).of)

(* What a worker has reached, where its input is a proper file. *)
Worked(k) ==
    Begun(k) =>
        \A n \in Files :
            Healthy(InOf(k, n)) /\ n \notin excused[k] =>
                WorkedOn(k, n, work[k][n], folder[k][n])

Agree == ~ edited => ini \in Written /\ \A k \in runs :
            config[k] = [Defaults EXCEPT !.max_threads = config[k].max_threads]

IInv ==
    /\ Types /\ InOrder /\ Agree
    /\ \A k \in runs : Fresh(k) /\ Accounted(k) /\ Worked(k)
-----------------------------------------------------------------------------
(* The settings *)

LEMMA GreatestElement ==
    ASSUME NEW n \in Nat, NEW T, T \subseteq 1..n, T # {}
    PROVE  \E x \in T : \A y \in T : y <= x
<1> DEFINE U == {n - x : x \in T}
           R == {ss \in Nat \X Nat : ss[1] < ss[2]}
<1>1. U \subseteq Nat /\ U # {}
  <2>1. \A x \in T : n - x \in Nat
    OBVIOUS
  <2>2. QED BY <2>1
<1>2. IsWellFoundedOn(R, Nat)
  BY NatLessThanWellFounded, Zenon DEF OpToRel
<1>3. \E u \in U : \A v \in U : ~ (<<v, u>> \in R)
  <2> HIDE DEF R, U
  <2>1. QED BY <1>1, <1>2, WFMin, Zenon
<1>4. \A u, v \in Nat : ~ (<<v, u>> \in R) => u <= v
  OBVIOUS
<1> HIDE DEF R
<1>5. PICK u \in U : \A v \in U : u <= v
  BY <1>1, <1>3, <1>4
<1>6. PICK x \in T : u = n - x
  OBVIOUS
<1>7. ASSUME NEW y \in T PROVE y <= x
  <2>1. n - y \in U
    OBVIOUS
  <2>2. n - x <= n - y
    BY <1>5, <1>6, <2>1
  <2>3. QED BY <2>2
<1>8. QED BY <1>7

LEMMA ClampedIsUsable ==
    ASSUME NEW c, c = [key \in Key |-> c[key]], c.max_threads \in Int
    PROVE  Usable(Clamped(c))
<1>1. CASE c.max_threads < 1
  <2>1. Clamped(c) = [c EXCEPT !.max_threads = 1] /\ "max_threads" \in Key
    BY <1>1 DEF Clamped, Key
  <2>2. QED BY <2>1 DEF Usable
<1>2. CASE ~ (c.max_threads < 1)
  BY <1>2 DEF Clamped, Usable
<1>3. QED BY <1>1, <1>2

(* Whatever the ini file says, a thread at least may be started. *)
LEMMA LoadedIsUsable ==
    ASSUME NEW lines \in Seq(IniLine), NEW temp
    PROVE  Usable(Clamped(Loaded(lines, temp)))
<1> DEFINE c == Loaded(lines, temp)
           setting == {i \in DOMAIN lines : Sets(lines[i], "max_threads")}
           last == CHOOSE i \in setting : \A j \in setting : j <= i
<1>1. DOMAIN Initially = Key /\ "max_threads" \in Key /\ Initially.max_threads = 4
  BY DEF Initially, Defaults, Key
<1>2. c = [key \in Key |-> c[key]]
  BY <1>1 DEF Loaded
<1>3. c.max_threads
         = IF setting = {} THEN Initially.max_threads
           ELSE ValueOf(lines[last], "max_threads", temp)
  BY <1>1, Zenon DEF Loaded
<1>4. c.max_threads \in Int
  <2>1. CASE setting = {}
    BY <1>1, <1>3, <2>1
  <2>2. CASE setting # {}
    <3>1. Len(lines) \in Nat /\ setting \subseteq 1..Len(lines)
      OBVIOUS
    <3>2. \E i \in setting : \A j \in setting : j <= i
      <4> HIDE DEF setting
      <4>1. QED BY <2>2, <3>1, GreatestElement
    <3>3. last \in setting
      BY <3>2
    <3>4. lines[last] \in IniLine
      BY <3>1, <3>3
    <3>5. ValueOf(lines[last], "max_threads", temp) = lines[last].value
      BY DEF ValueOf, Booleans
    <3>6. QED BY <1>3, <2>2, <3>4, <3>5 DEF IniLine
  <2>3. QED BY <2>1, <2>2
<1> HIDE DEF c
<1>5. Usable(Clamped(c))
  BY <1>2, <1>4, ClampedIsUsable
<1>6. QED BY <1>5 DEF c

(* What the program writes into the file is what it has by default. *)
LEMMA WrittenIsDefault ==
    ASSUME NEW lines \in {<<>>, DefaultLines}, NEW temp
    PROVE  Clamped(Loaded(lines, temp)) = Defaults
<1> DEFINE c == Loaded(lines, temp)
           setting(key) == {i \in DOMAIN lines : Sets(lines[i], key)}
           last(key) == CHOOSE i \in setting(key) : \A j \in setting(key) : j <= i
<1>1. DOMAIN Defaults = Key /\ Initially = Defaults
  BY DEF Initially, Defaults, Key
<1>2. c = [key \in Key |-> IF setting(key) = {} THEN Defaults[key]
                            ELSE ValueOf(lines[last(key)], key, temp)]
  BY <1>1 DEF Loaded
<1>3. ASSUME NEW key \in Key PROVE c[key] = Defaults[key]
  <2>1. CASE lines = <<>>
    <3>1. setting(key) = {}
      BY <2>1
    <3>2. QED BY <1>2, <3>1
  <2>2. CASE lines = DefaultLines
    <3>1. PICK i \in 1..5 : /\ \A j \in 1..5 : lines[j].key = key <=> j = i
                            /\ lines[i].form = "number"
                            /\ ValueOf(lines[i], key, temp) = Defaults[key]
      <4>1. /\ lines[1] = Line("block_size", "number", 65536)
            /\ lines[2] = Line("minimum_size", "number", 10240)
            /\ lines[3] = Line("max_threads", "number", 4)
            /\ lines[4] = Line("fix_pofs", "number", 1)
            /\ lines[5] = Line("only_compress_vps", "number", 0)
        BY <2>2 DEF DefaultLines
      <4>2. \A name, form, value :
               /\ Line(name, form, value).key = name
               /\ Line(name, form, value).form = form
               /\ Line(name, form, value).value = value
        BY DEF Line
      <4>3. /\ lines[1].key = "block_size" /\ lines[2].key = "minimum_size"
            /\ lines[3].key = "max_threads" /\ lines[4].key = "fix_pofs"
            /\ lines[5].key = "only_compress_vps"
            /\ lines[1].value = 65536 /\ lines[2].value = 10240 /\ lines[3].value = 4
            /\ lines[4].value = 1 /\ lines[5].value = 0
            /\ \A i \in 1..5 : lines[i].form = "number"
        BY <4>1, <4>2
      <4>4. CASE key = "block_size"
        BY <4>3, <4>4 DEF ValueOf, Booleans, Defaults
      <4>5. CASE key = "minimum_size"
        BY <4>3, <4>5 DEF ValueOf, Booleans, Defaults
      <4>6. CASE key = "max_threads"
        BY <4>3, <4>6 DEF ValueOf, Booleans, Defaults
      <4>7. CASE key = "fix_pofs"
        <5>1. ValueOf(lines[4], key, temp) = (lines[4].value # 0)
          BY <4>3, <4>7 DEF ValueOf, Booleans
        <5>2. (lines[4].value # 0) = TRUE
          BY <4>3
        <5>3. Defaults[key] = TRUE
          BY <4>7 DEF Defaults
        <5>4. ValueOf(lines[4], key, temp) = Defaults[key]
          BY <5>1, <5>2, <5>3, Zenon
        <5>5. 4 \in 1..5 /\ \A j \in 1..5 : lines[j].key = key <=> j = 4
          BY <4>3, <4>7
        <5>6. QED BY <4>3, <5>4, <5>5
      <4>8. CASE key = "only_compress_vps"
        <5>1. ValueOf(lines[5], key, temp) = (lines[5].value # 0)
          BY <4>3, <4>8 DEF ValueOf, Booleans
        <5>2. (lines[5].value # 0) = FALSE
          BY <4>3
        <5>3. Defaults[key] = FALSE
          BY <4>8 DEF Defaults
        <5>4. ValueOf(lines[5], key, temp) = Defaults[key]
          BY <5>1, <5>2, <5>3, Zenon
        <5>5. 5 \in 1..5 /\ \A j \in 1..5 : lines[j].key = key <=> j = 5
          BY <4>3, <4>8
        <5>6. QED BY <4>3, <5>4, <5>5
      <4>9. QED BY <4>4, <4>5, <4>6, <4>7, <4>8 DEF Key
    <3>2. DOMAIN lines = 1..5
      BY <2>2 DEF DefaultLines
    <3>3. setting(key) = {i}
      BY <3>1, <3>2 DEF Sets
    <3>4. last(key) = i
      <4> HIDE DEF setting
      <4>1. QED BY <3>3
    <3>5. QED BY <1>2, <3>1, <3>3, <3>4
  <2>3. QED BY <2>1, <2>2
<1>4. c = Defaults
  <2>1. Defaults = [key \in Key |-> Defaults[key]] /\ c = [key \in Key |-> c[key]]
    BY <1>1, <1>2 DEF Defaults
  <2> HIDE DEF c
  <2>2. QED BY <1>3, <2>1
<1>5. QED BY <1>4 DEF Clamped, Defaults
-----------------------------------------------------------------------------
(* A step of run k, what it leaves alone. *)
Local(k) ==
    /\ UNCHANGED <<exts, command>>
    /\ pc[k] # "done" /\ pc' = [pc EXCEPT ![k] = pc'[k]]
    /\ \A j \in runs \ {k} : UNCHANGED <<config[j], todo[j], batch[j], work[j], excused[j]>>
    /\ \A i \in 0..Runs : i # k => UNCHANGED folder[i]

LEMMA RunNumbers ==
    ASSUME NEW k \in runs
    PROVE  /\ k \in 0..Runs /\ k - 1 \in 0..Runs /\ k - 1 # k
           /\ k # 1 => k - 1 \in runs
  BY ProgramAssumption DEF ProgramAssumption, runs

(* It cannot disturb the other runs: they do not read its folder yet. *)
LEMMA LocalStep ==
    ASSUME IInv, NEW k \in runs, Local(k), Types', Agree',
           Fresh(k)', Accounted(k)', Worked(k)',
           Begun(k)' => Begun(k) \/ k = 1 \/ (k - 1 \in runs /\ pc[k - 1] = "done")
    PROVE  IInv'
<1>1. pc \in [runs -> Steps] /\ InOrder
  BY DEF IInv, Types
<1>2. \A j \in runs \ {k} : pc'[j] = pc[j]
  BY <1>1 DEF Local
<1>3. pc[k] # "done"
  BY DEF Local
<1>4. InOrder'
  <2> SUFFICES ASSUME NEW j \in runs, Begun(j)'
               PROVE  j = 1 \/ (j - 1 \in runs /\ pc'[j - 1] = "done")
    BY DEF InOrder, Begun
  <2>1. j = 1 \/ (j - 1 \in runs /\ pc[j - 1] = "done")
    BY <1>1, <1>2 DEF InOrder, Begun
  <2>2. QED BY <1>2, <1>3, <2>1
<1>5. ASSUME NEW j \in runs \ {k} PROVE Fresh(j)' /\ Accounted(j)' /\ Worked(j)'
  <2>1. Fresh(j) /\ Accounted(j) /\ Worked(j)
    BY DEF IInv
  <2>2. /\ UNCHANGED <<pc[j], command, exts, config[j], todo[j], batch[j], work[j],
                       excused[j]>>
    BY <1>2, <1>5 DEF Local
  <2>3. Fresh(j)'
    BY <2>1, <2>2 DEF Fresh
  <2>4. CASE ~ Begun(j)
    BY <2>2, <2>3, <2>4 DEF Accounted, Worked, Begun
  <2>5. CASE Begun(j)
    <3>1. j - 1 # k
      BY <1>1, <1>3, <2>5, ProgramAssumption DEF InOrder, runs, ProgramAssumption
    <3>2. UNCHANGED <<folder[j], folder[j - 1]>>
      BY <1>5, <3>1, RunNumbers DEF Local
    <3>3. \A n \in Files : InOf(j, n)' = InOf(j, n)
      BY <3>2 DEF InOf
    <3>4. \A n \in Files : Eligible(j, n)' = Eligible(j, n)
      BY <2>2, <3>3 DEF Eligible, OfFolder
    <3>5. Threads(j)' = Threads(j) /\ OfFolder(j)' = OfFolder(j)
          /\ Compresses(j)' = Compresses(j) /\ Begun(j)' = Begun(j)
      BY <2>2 DEF Threads, OfFolder, Compresses, Begun
    <3>6. Accounted(j)'
      BY <2>1, <2>2, <3>4, <3>5 DEF Accounted
    <3>7. Worked(j)'
      BY <2>1, <2>2, <3>2, <3>3, <3>5 DEF Worked, WorkedOn, Right
    <3>8. QED BY <2>3, <3>6, <3>7
  <2>6. QED BY <2>4, <2>5
<1>6. QED BY <1>4, <1>5 DEF IInv

(* The steps that read or write the settings. *)
LEMMA SettingsStep ==
    ASSUME IInv, NEW k \in runs, OpenConfig(k) \/ CreateConfig(k) \/ WriteConfig(k)
    PROVE  IInv'
<1>1. /\ pc[k] \in {"start", "create", "write"}
      /\ pc' = [pc EXCEPT ![k] = pc'[k]] /\ pc'[k] \in {"create", "write", "ready", "dead"}
      /\ UNCHANGED <<edited, folder, exts, command, todo, batch, work, excused>>
      /\ Types
  BY DEF OpenConfig, CreateConfig, WriteConfig, Goto, IInv, Types
<1>2. ini' \in {ini, <<>>, DefaultLines}
  BY DEF OpenConfig, CreateConfig, WriteConfig
<1>3. Usable(Defaults)
  BY DEF Usable, Defaults, Key
<1>4. config' = [config EXCEPT ![k] = config'[k]] /\ Usable(config'[k])
  <2>1. CASE UNCHANGED config
    BY <1>1, <2>1 DEF Types
  <2>2. CASE WriteConfig(k)
    BY <1>1, <1>3, <2>2 DEF WriteConfig, Types, Initially
  <2>3. CASE OpenConfig(k) /\ ini # NoIni
    <3>1. ini = <<>> \/ ini = DefaultLines \/ ini \in Inis
      BY <1>1, <2>3 DEF Types, Written
    <3>2. ini \in Seq(IniLine)
      <4>1. DefaultLines \in Seq(IniLine)
        <5>2. /\ Line("block_size", "number", 65536) \in IniLine
              /\ Line("minimum_size", "number", 10240) \in IniLine
              /\ Line("max_threads", "number", 4) \in IniLine
              /\ Line("fix_pofs", "number", 1) \in IniLine
              /\ Line("only_compress_vps", "number", 0) \in IniLine
          BY DEF Line, IniLine, Key
        <5>3. \A S, a, b, c, d, e : a \in S /\ b \in S /\ c \in S /\ d \in S /\ e \in S
                                      => <<a, b, c, d, e>> \in Seq(S)
          OBVIOUS
        <5>4. QED BY <5>2, <5>3 DEF DefaultLines
      <4>2. <<>> \in Seq(IniLine)
        OBVIOUS
      <4>3. Inis \subseteq Seq(IniLine)
        BY ProgramAssumption DEF ProgramAssumption
      <4>4. QED BY <3>1, <4>1, <4>2, <4>3
    <3>3. UNCHANGED config
          \/ \E temp : config' = [config EXCEPT ![k] = Clamped(Loaded(ini, temp))]
      BY <2>3 DEF OpenConfig
    <3>4. CASE \E temp : config' = [config EXCEPT ![k] = Clamped(Loaded(ini, temp))]
      <4>1. PICK temp : config' = [config EXCEPT ![k] = Clamped(Loaded(ini, temp))]
        BY <3>4
      <4>2. Usable(Clamped(Loaded(ini, temp)))
        BY <3>2, LoadedIsUsable
      <4> DEFINE c == Clamped(Loaded(ini, temp))
      <4> HIDE DEF c
      <4>3. config' = [config EXCEPT ![k] = c] /\ DOMAIN config = runs
        BY <1>1, <4>1 DEF Types, c
      <4>4. config'[k] = c
        BY <4>3
      <4>5. QED BY <4>2, <4>3, <4>4 DEF c
    <3>5. CASE UNCHANGED config
      BY <2>1, <3>5
    <3>6. QED BY <3>3, <3>4, <3>5
  <2>4. QED BY <2>1, <2>2, <2>3 DEF OpenConfig, CreateConfig
<1>5. Types'
  BY <1>1, <1>2, <1>4 DEF Types, Written, Steps
<1>6. Local(k)
  BY <1>1, <1>4 DEF Local, Types
<1>7. Agree'
  <2> SUFFICES ASSUME ~ edited
               PROVE  /\ ini' \in Written
                      /\ \A j \in runs : config'[j]
                            = [Defaults EXCEPT !.max_threads = config'[j].max_threads]
    BY <1>1 DEF Agree
  <2>1. ini \in Written /\ \A j \in runs :
           config[j] = [Defaults EXCEPT !.max_threads = config[j].max_threads]
    BY DEF IInv, Agree
  <2>2. config'[k] = config[k] \/ config'[k] = Defaults
    <3>1. CASE OpenConfig(k) /\ ini # NoIni
      <4>1. ini \in {<<>>, DefaultLines}
        BY <2>1, <3>1 DEF Written
      <4>2. UNCHANGED config
            \/ \E temp : config' = [config EXCEPT ![k] = Clamped(Loaded(ini, temp))]
        BY <3>1 DEF OpenConfig
      <4>3. QED BY <1>1, <4>1, <4>2, WrittenIsDefault DEF Types
    <3>2. QED BY <1>1, <3>1 DEF OpenConfig, CreateConfig, WriteConfig, Types, Initially
  <2>3. Defaults = [Defaults EXCEPT !.max_threads = Defaults.max_threads]
    BY DEF Defaults
  <2>4. \A j \in runs \ {k} : config'[j] = config[j]
    BY <1>1, <1>4 DEF Types
  <2>5. QED BY <1>2, <2>1, <2>2, <2>3, <2>4 DEF Written
<1>8. Fresh(k)' /\ Accounted(k)' /\ Worked(k)' /\ ~ Begun(k)'
  BY <1>1 DEF IInv, Fresh, Accounted, Worked, Begun
<1>9. QED BY <1>5, <1>6, <1>7, <1>8, LocalStep
-----------------------------------------------------------------------------
(* The main thread *)


LEMMA BeginStep ==
    ASSUME IInv, NEW k \in runs, BeginCommand(k)
    PROVE  IInv'
<1>1. /\ pc[k] = "ready" /\ pc' = [pc EXCEPT ![k] = "iterate"]
      /\ k > 1 => pc[k - 1] = "done"
      /\ UNCHANGED <<ini, edited, folder, exts, command, batch, work, excused>>
      /\ Types /\ Fresh(k) /\ Agree
  BY DEF BeginCommand, Goto, IInv
<1>2. config' = config \/ config' = [config EXCEPT ![k].max_threads = 1]
  BY DEF BeginCommand
<1>3. /\ config' = [config EXCEPT ![k] = config'[k]] /\ Usable(config'[k])
      /\ config'[k] = [config[k] EXCEPT !.max_threads = config'[k].max_threads]
  <2>1. CASE config' = config
    BY <1>1, <2>1 DEF Types, Usable
  <2>2. CASE config' = [config EXCEPT ![k].max_threads = 1]
    <3>1. config'[k] = [config[k] EXCEPT !.max_threads = 1]
      BY <1>1, <2>2 DEF Types
    <3>2. Usable(config[k]) /\ "max_threads" \in Key
      BY <1>1 DEF Types, Key
    <3>3. config'[k].max_threads = 1 /\ Usable(config'[k])
      BY <3>1, <3>2 DEF Usable
    <3>4. config' = [config EXCEPT ![k] = config'[k]]
      BY <1>1, <2>2, <3>1 DEF Types
    <3>5. QED BY <3>1, <3>3, <3>4
  <2>3. QED BY <1>2, <2>1, <2>2
<1>4. PICK them \in SUBSET Files :
         /\ todo' = [todo EXCEPT ![k] = them]
         /\ OfFolder(k) => them = {n \in Files : InOf(k, n).how # "none"}
  BY DEF BeginCommand
<1>5. Types'
  BY <1>1, <1>3, <1>4 DEF Types, Steps
<1>6. Local(k)
  BY <1>1, <1>3, <1>4 DEF Local, Types
<1>7. Agree'
  <2> SUFFICES ASSUME ~ edited, NEW j \in runs
               PROVE  config'[j] = [Defaults EXCEPT !.max_threads = config'[j].max_threads]
    BY <1>1 DEF Agree
  <2>1. config[j] = [Defaults EXCEPT !.max_threads = config[j].max_threads]
    BY <1>1 DEF Agree
  <2>2. CASE j = k
    BY <1>3, <2>1, <2>2 DEF Defaults
  <2>3. CASE j # k
    <3>1. config'[j] = config[j]
      BY <1>1, <1>3, <2>3 DEF Types
    <3>2. QED BY <2>1, <3>1
  <2>4. QED BY <2>2, <2>3
<1>8. Fresh(k)'
  BY <1>1 DEF Fresh, Types
<1>9. batch[k] = {} /\ \A n \in Files : work[k][n] = "none"
  BY <1>1 DEF Fresh
<1>10. Accounted(k)'
  <2>1. Cardinality(batch[k]) = 0 /\ Threads(k)' \in Nat \ {0}
    <3>1. Threads(k)' \in Nat \ {0}
      BY <1>3 DEF Threads, Usable
    <3>2. QED BY <1>9, <3>1, FS_EmptySet
  <2>2. ASSUME NEW n \in Files, OfFolder(k)', Eligible(k, n)' PROVE n \in todo'[k]
    <3>1. OfFolder(k) /\ InOf(k, n).how # "none"
      BY <1>1, <2>2 DEF OfFolder, Eligible, InOf
    <3>2. QED BY <1>1, <1>4, <3>1 DEF Types
  <2>3. pc'[k] = "iterate" /\ batch'[k] = batch[k]
    BY <1>1 DEF Types
  <2>4. QED BY <2>1, <2>2, <2>3 DEF Accounted
<1>11. Worked(k)'
  BY <1>1, <1>9 DEF Worked, WorkedOn
<1>12. k = 1 \/ (k - 1 \in runs /\ pc[k - 1] = "done")
  <2>1. k = 1 \/ k > 1
    BY ProgramAssumption DEF runs, ProgramAssumption
  <2>2. QED BY <1>1, <2>1, RunNumbers
<1>13. QED BY <1>5, <1>6, <1>7, <1>8, <1>10, <1>11, <1>12, LocalStep

(* A file goes into the batch while there is room, and there always is. *)
LEMMA NextFileStep ==
    ASSUME IInv, NEW k \in runs, NEW n \in Files, NextFile(k, n)
    PROVE  IInv'
<1>1. /\ pc[k] = "iterate" /\ n \in todo[k]
      /\ todo' = [todo EXCEPT ![k] = todo[k] \ {n}]
      /\ pc' = [pc EXCEPT ![k] = IF Cardinality(batch'[k]) >= Threads(k)
                                 THEN "join" ELSE "iterate"]
      /\ UNCHANGED <<ini, edited, folder, exts, command, config, excused>>
      /\ Types /\ Accounted(k) /\ Worked(k) /\ Agree
  BY DEF NextFile, Goto, IInv
<1>2. /\ Cardinality(batch[k]) < Threads(k)
      /\ \A m \in Files : OfFolder(k) /\ Eligible(k, m) /\ m \notin todo[k] =>
                             m \in batch[k] \/ work[k][m] = "finished"
  BY <1>1 DEF Accounted, Begun
<1>3. IF Eligible(k, n)
      THEN /\ batch' = [batch EXCEPT ![k] = batch[k] \cup {n}]
           /\ work' = [work EXCEPT ![k][n] = "open"]
      ELSE UNCHANGED <<batch, work>>
  BY <1>2 DEF NextFile
<1>4. /\ todo'[k] = todo[k] \ {n} /\ pc'[k] \in {"iterate", "join"}
      /\ pc'[k] = "iterate" => ~ (Cardinality(batch'[k]) >= Threads(k))
      /\ batch'[k] = IF Eligible(k, n) THEN batch[k] \cup {n} ELSE batch[k]
      /\ \A m \in Files : work'[k][m] = IF Eligible(k, n) /\ m = n THEN "open"
                                        ELSE work[k][m]
  <2>1. /\ pc \in [runs -> Steps] /\ todo \in [runs -> SUBSET Files]
        /\ batch \in [runs -> SUBSET Files] /\ work \in [runs -> [Files -> Places]]
    BY <1>1 DEF Types
  <2>2. todo'[k] = todo[k] \ {n}
    BY <1>1, <2>1
  <2>3. pc'[k] = IF Cardinality(batch'[k]) >= Threads(k) THEN "join" ELSE "iterate"
    BY <1>1, <2>1
  <2>4. CASE Eligible(k, n)
    <3>1. batch' = [batch EXCEPT ![k] = batch[k] \cup {n}]
          /\ work' = [work EXCEPT ![k][n] = "open"]
      BY <1>3, <2>4
    <3>2. batch'[k] = batch[k] \cup {n}
      BY <2>1, <3>1
    <3>3. work'[k] = [work[k] EXCEPT ![n] = "open"] /\ work[k] \in [Files -> Places]
      BY <2>1, <3>1
    <3>4. QED BY <2>2, <2>3, <2>4, <3>2, <3>3
  <2>5. CASE ~ Eligible(k, n)
    BY <1>3, <2>2, <2>3, <2>5
  <2>6. QED BY <2>4, <2>5
<1>5. Types'
  <2>1. pc' \in [runs -> Steps] /\ todo' \in [runs -> SUBSET Files]
    BY <1>1 DEF Types, Steps
  <2>2. batch' \in [runs -> SUBSET Files] /\ work' \in [runs -> [Files -> Places]]
    <3>1. batch \in [runs -> SUBSET Files] /\ work \in [runs -> [Files -> Places]]
      BY <1>1 DEF Types
    <3>2. CASE ~ Eligible(k, n)
      BY <1>3, <3>1, <3>2
    <3>3. CASE Eligible(k, n)
      <4>1. batch[k] \cup {n} \in SUBSET Files /\ [work[k] EXCEPT ![n] = "open"] \in [Files -> Places]
        BY <3>1 DEF Places
      <4>2. batch' \in [runs -> SUBSET Files]
        BY <1>3, <3>1, <3>3, <4>1
      <4>3. work' = [work EXCEPT ![k] = [work[k] EXCEPT ![n] = "open"]]
        BY <1>3, <3>3
      <4>4. QED BY <3>1, <4>1, <4>2, <4>3
    <3>4. QED BY <3>2, <3>3
  <2>3. QED BY <1>1, <2>1, <2>2 DEF Types
<1>6. Local(k)
  BY <1>1, <1>3, <1>4 DEF Local, Types
<1>7. Agree' /\ Fresh(k)'
  BY <1>1, <1>4 DEF Agree, Fresh
<1>8. Accounted(k)'
  <2>1. \A m \in Files : Eligible(k, m)' = Eligible(k, m)
    BY <1>1 DEF Eligible, InOf, OfFolder
  <2>2. OfFolder(k)' = OfFolder(k) /\ Threads(k)' = Threads(k)
    BY <1>1 DEF OfFolder, Threads, Compresses
  <2>3. ASSUME NEW m \in Files, OfFolder(k), Eligible(k, m), m \notin todo'[k]
        PROVE  m \in batch'[k] \/ work'[k][m] = "finished"
    BY <1>2, <1>4, <2>3
  <2>4. pc'[k] = "iterate" => Cardinality(batch'[k]) < Threads(k)
    <3>1. Threads(k) \in Int
      <4>1. Usable(config[k])
        BY <1>1 DEF Types
      <4>2. QED BY <4>1 DEF Threads, Usable
    <3>2. Cardinality(batch'[k]) \in Int
      <4>1. batch'[k] \subseteq Files /\ IsFiniteSet(Files)
        BY <1>5, ProgramAssumption DEF Types, ProgramAssumption
      <4>2. QED BY <4>1, FS_Subset, FS_CardinalityType
    <3>3. QED BY <1>4, <3>1, <3>2
  <2>5. pc'[k] # "done"
    BY <1>4
  <2>6. QED BY <2>1, <2>2, <2>3, <2>4, <2>5 DEF Accounted
<1>9. Worked(k)'
  <2>1. /\ \A m \in Files : InOf(k, m)' = InOf(k, m)
        /\ Compresses(k)' = Compresses(k) /\ Begun(k)
    BY <1>1 DEF InOf, Compresses, Begun
  <2>2. ASSUME NEW m \in Files, Healthy(InOf(k, m)), m \notin excused[k]
        PROVE  WorkedOn(k, m, work'[k][m], folder[k][m])
    <3>1. WorkedOn(k, m, work[k][m], folder[k][m])
      BY <1>1, <2>1, <2>2 DEF Worked
    <3>2. work'[k][m] = work[k][m] \/ work'[k][m] = "open"
      BY <1>4
    <3>3. QED BY <3>1, <3>2 DEF WorkedOn
  <2>3. QED BY <1>1, <2>1, <2>2 DEF Worked, WorkedOn, Right
<1>10. QED BY <1>1, <1>5, <1>6, <1>7, <1>8, <1>9, LocalStep DEF Begun

(* The command's own choices do not change while its files are worked on. *)
LEMMA Unmoved ==
    ASSUME NEW k \in runs, UNCHANGED <<exts, command>>, config'[k] = config[k],
           folder'[k - 1] = folder[k - 1]
    PROVE  /\ Compresses(k)' = Compresses(k) /\ OfFolder(k)' = OfFolder(k)
           /\ Threads(k)' = Threads(k)
           /\ \A n \in Files : /\ InOf(k, n)' = InOf(k, n)
                               /\ Eligible(k, n)' = Eligible(k, n)
<1>1. Compresses(k)' = Compresses(k) /\ OfFolder(k)' = OfFolder(k)
  BY DEF Compresses, OfFolder
<1>2. Threads(k)' = Threads(k)
  BY <1>1 DEF Threads
<1>3. \A n \in Files : InOf(k, n)' = InOf(k, n)
  BY DEF InOf
<1>4. \A n \in Files : Eligible(k, n)' = Eligible(k, n)
  BY <1>1, <1>3 DEF Eligible
<1>5. QED BY <1>1, <1>2, <1>3, <1>4

(* Joined and ended: all that was in the batch is finished. *)
LEMMA JoinStep ==
    ASSUME IInv, NEW k \in runs, JoinBatch(k) \/ EndCommand(k)
    PROVE  IInv'
<1>1. /\ pc[k] \in {"iterate", "join"} /\ AllFinished(k)
      /\ pc' = [pc EXCEPT ![k] = pc'[k]] /\ pc'[k] \in {"iterate", "done"}
      /\ pc'[k] = "done" => todo[k] = {}
      /\ batch' = [batch EXCEPT ![k] = {}]
      /\ UNCHANGED <<ini, edited, folder, exts, command, config, todo, work, excused>>
      /\ Types /\ Accounted(k) /\ Worked(k) /\ Agree
  <2>1. Types /\ Accounted(k) /\ Worked(k) /\ Agree
    BY DEF IInv
  <2>2. QED BY <2>1 DEF JoinBatch, EndCommand, Goto, Types
<1>2. batch'[k] = {}
  BY <1>1 DEF Types
<1>3. Types'
  BY <1>1 DEF Types, Steps
<1>4. Local(k)
  BY <1>1 DEF Local, Types
<1>5. Agree' /\ Fresh(k)'
  BY <1>1 DEF Agree, Fresh
<1>6. Accounted(k)'
  <2>1. Threads(k)' = Threads(k) /\ OfFolder(k)' = OfFolder(k)
        /\ \A n \in Files : Eligible(k, n)' = Eligible(k, n)
    BY <1>1, Unmoved
  <2>2. Cardinality(batch'[k]) = 0 /\ Threads(k) \in Nat \ {0}
    <3>1. Usable(config[k])
      BY <1>1 DEF Types
    <3>2. QED BY <1>2, <3>1, FS_EmptySet DEF Threads, Usable
  <2>3. ASSUME NEW n \in Files, OfFolder(k), Eligible(k, n), n \notin todo[k]
        PROVE  work[k][n] = "finished"
    BY <1>1, <2>3 DEF Accounted, Begun, AllFinished
  <2>4. QED BY <1>1, <1>2, <2>1, <2>2, <2>3 DEF Accounted
<1>7. Worked(k)'
  <2>1. Compresses(k)' = Compresses(k) /\ Begun(k)
        /\ \A n \in Files : InOf(k, n)' = InOf(k, n)
    BY <1>1, Unmoved DEF Begun
  <2>2. QED BY <1>1, <2>1 DEF Worked, WorkedOn, Right
<1>8. QED BY <1>1, <1>3, <1>4, <1>5, <1>6, <1>7, LocalStep DEF Begun

(* A run that has stopped, however it did, owes nothing. *)
LEMMA DeadStep ==
    ASSUME IInv, NEW k \in runs, pc[k] # "done", pc' = [pc EXCEPT ![k] = "dead"],
           UNCHANGED <<ini, edited, folder, exts, command, config, todo, batch, work,
                       excused>>
    PROVE  IInv'
<1>1. Types /\ Agree
  BY DEF IInv
<1>2. Types' /\ Local(k) /\ pc'[k] = "dead"
  BY <1>1 DEF Types, Steps, Local
<1>3. Agree'
  BY <1>1 DEF Agree
<1>4. Fresh(k)' /\ Accounted(k)' /\ Worked(k)' /\ ~ Begun(k)'
  BY <1>2 DEF Fresh, Accounted, Worked, Begun
<1>5. QED BY <1>2, <1>3, <1>4, LocalStep

LEMMA RestartStep ==
    ASSUME IInv, NEW k \in runs, Restart(k)
    PROVE  IInv'
<1>1. Types /\ Agree
  BY DEF IInv
<1>2. /\ UNCHANGED <<ini, edited, folder, exts, command, config>>
      /\ pc[k] # "done" /\ pc' = [pc EXCEPT ![k] = "start"]
      /\ todo' = [todo EXCEPT ![k] = {}]
      /\ batch' = [batch EXCEPT ![k] = {}]
      /\ work' = [work EXCEPT ![k] = [n \in Files |-> "none"]]
      /\ excused' = [excused EXCEPT ![k] = {}]
  BY DEF Restart, Goto
<1>3. Types'
  <2>1. pc' \in [runs -> Steps]
    BY <1>1, <1>2 DEF Types, Steps
  <2>2. /\ todo' \in [runs -> SUBSET Files] /\ batch' \in [runs -> SUBSET Files]
        /\ excused' \in [runs -> SUBSET Files]
    BY <1>1, <1>2 DEF Types
  <2>3. work' \in [runs -> [Files -> Places]]
    <3>1. [n \in Files |-> "none"] \in [Files -> Places]
      BY DEF Places
    <3>2. QED BY <1>1, <1>2, <3>1 DEF Types
  <2>4. QED BY <1>1, <1>2, <2>1, <2>2, <2>3 DEF Types
<1>4. Local(k)
  BY <1>1, <1>2 DEF Local, Types
<1>5. Fresh(k)' /\ ~ Begun(k)'
  BY <1>1, <1>2 DEF Fresh, Begun, Types
<1>6. Agree'
  BY <1>1, <1>2 DEF Agree
<1>7. QED BY <1>3, <1>4, <1>5, <1>6, LocalStep DEF Accounted, Worked

LEMMA EditStep ==
    ASSUME IInv, EditIni
    PROVE  IInv'
<1>1. /\ UNCHANGED <<folder, exts, pc, command, config, todo, batch, work, excused>>
      /\ ini' \in Inis /\ edited' = TRUE
  BY DEF EditIni
<1>2. Types' /\ InOrder' /\ Agree'
  BY <1>1 DEF IInv, Types, InOrder, Agree, Begun
<1>3. ASSUME NEW k \in runs PROVE Fresh(k)' /\ Accounted(k)' /\ Worked(k)'
  <2>1. Fresh(k) /\ Accounted(k) /\ Worked(k)
    BY DEF IInv
  <2>2. /\ Compresses(k)' = Compresses(k) /\ OfFolder(k)' = OfFolder(k)
        /\ Threads(k)' = Threads(k) /\ Begun(k)' = Begun(k)
        /\ \A n \in Files : /\ InOf(k, n)' = InOf(k, n)
                            /\ Eligible(k, n)' = Eligible(k, n)
    BY <1>1, Unmoved DEF Begun
  <2>3. QED BY <1>1, <2>1, <2>2 DEF Fresh, Accounted, Worked, WorkedOn, Right
<1>4. QED BY <1>2, <1>3 DEF IInv
-----------------------------------------------------------------------------
(* The workers *)

LEMMA SameAgain ==
    ASSUME NEW S, NEW T, NEW U, NEW f \in [S -> [T -> U]], NEW a \in S, NEW b \in T
    PROVE  [f EXCEPT ![a][b] = f[a][b]] = f
  OBVIOUS

(* One worker moves on, and what it leaves is right when it has finished. *)
LEMMA WorkerStep ==
    ASSUME IInv, NEW k \in runs, NEW n \in Files, NEW place \in Places, NEW out \in File,
           Alive(k), work[k][n] # "finished", Settled, UNCHANGED pc,
           Worker(k, n, place) \/ (UNCHANGED work /\ place = work[k][n]),
           Put(k, n, out) \/ (UNCHANGED folder /\ out = folder[k][n]),
           UNCHANGED excused \/ Excuse(k, n),
           Healthy(InOf(k, n)) /\ n \notin excused'[k] => WorkedOn(k, n, place, out)
    PROVE  IInv'
<1>1. /\ Types /\ Agree /\ Fresh(k) /\ Accounted(k) /\ Worked(k)
      /\ UNCHANGED <<ini, edited, exts, command, config, todo, batch, pc>>
      /\ pc[k] \in {"iterate", "join"} /\ Begun(k)
  BY DEF IInv, Settled, Alive, Begun
<1>2. /\ folder \in [0..Runs -> [Files -> File]] /\ work \in [runs -> [Files -> Places]]
      /\ excused \in [runs -> SUBSET Files] /\ k \in 0..Runs
  BY <1>1, RunNumbers DEF Types
<1>3. work' = [work EXCEPT ![k][n] = place]
  BY <1>2, SameAgain DEF Worker
<1>4. folder' = [folder EXCEPT ![k][n] = out]
  BY <1>2, SameAgain DEF Put
<1>5. PICK forgiven \in SUBSET Files :
         excused' = [excused EXCEPT ![k] = excused[k] \cup forgiven]
  <2>1. CASE UNCHANGED excused
    <3>1. excused' = [excused EXCEPT ![k] = excused[k] \cup {}]
      BY <1>2, <2>1
    <3>2. QED BY <3>1
  <2>2. CASE Excuse(k, n)
    <3>1. excused' = [excused EXCEPT ![k] = excused[k] \cup {n}]
      BY <2>2 DEF Excuse
    <3>2. QED BY <3>1
  <2>3. QED BY <2>1, <2>2
<1>6. /\ work'[k] = [work[k] EXCEPT ![n] = place]
      /\ folder'[k] = [folder[k] EXCEPT ![n] = out]
      /\ excused[k] \subseteq excused'[k]
      /\ folder'[k - 1] = folder[k - 1]
  BY <1>2, <1>3, <1>4, <1>5, RunNumbers
<1>7. Types'
  <2>1. folder' \in [0..Runs -> [Files -> File]]
    <3>1. folder' = [folder EXCEPT ![k] = [folder[k] EXCEPT ![n] = out]]
      BY <1>4
    <3>2. [folder[k] EXCEPT ![n] = out] \in [Files -> File]
      BY <1>2
    <3>3. QED BY <1>2, <3>1, <3>2
  <2>2. work' \in [runs -> [Files -> Places]]
    <3>1. work' = [work EXCEPT ![k] = [work[k] EXCEPT ![n] = place]]
      BY <1>3
    <3>2. [work[k] EXCEPT ![n] = place] \in [Files -> Places]
      BY <1>2
    <3>3. QED BY <1>2, <3>1, <3>2
  <2>3. excused' \in [runs -> SUBSET Files]
    BY <1>2, <1>5
  <2>4. QED BY <1>1, <2>1, <2>2, <2>3 DEF Types
<1>8. Local(k)
  <2>1. pc[k] # "done" /\ pc' = [pc EXCEPT ![k] = pc'[k]]
    BY <1>1 DEF Types
  <2>2. \A j \in runs \ {k} : UNCHANGED <<work[j], excused[j]>>
    BY <1>2, <1>3, <1>5
  <2>3. \A i \in 0..Runs : i # k => UNCHANGED folder[i]
    BY <1>2, <1>4
  <2>4. QED BY <1>1, <2>1, <2>2, <2>3 DEF Local
<1>9. Agree' /\ Fresh(k)'
  BY <1>1 DEF Agree, Fresh
<1>10. /\ Compresses(k)' = Compresses(k) /\ OfFolder(k)' = OfFolder(k)
      /\ Threads(k)' = Threads(k)
      /\ \A m \in Files : InOf(k, m)' = InOf(k, m) /\ Eligible(k, m)' = Eligible(k, m)
  BY <1>1, <1>6, Unmoved
<1>11. Accounted(k)'
  <2>1. \A m \in Files : work[k][m] = "finished" => work'[k][m] = "finished"
    BY <1>2, <1>6
  <2>2. QED BY <1>1, <1>10, <2>1 DEF Accounted
<1>12. Worked(k)'
  <2>1. ASSUME NEW m \in Files, Healthy(InOf(k, m)), m \notin excused'[k]
        PROVE  WorkedOn(k, m, work'[k][m], folder'[k][m])
    <3>1. CASE m = n
      BY <1>2, <1>6, <2>1, <3>1
    <3>2. CASE m # n
      <4>1. work'[k][m] = work[k][m] /\ folder'[k][m] = folder[k][m]
        BY <1>2, <1>6, <3>2
      <4>2. QED BY <1>1, <1>6, <2>1, <4>1 DEF Worked
    <3>3. QED BY <3>1, <3>2
  <2>2. QED BY <1>10, <2>1 DEF Worked, WorkedOn, Right
<1>13. QED BY <1>1, <1>7, <1>8, <1>9, <1>11, <1>12, LocalStep

LEMMA FileTypes ==
    ASSUME Types, NEW k \in runs, NEW n \in Files
    PROVE  /\ InOf(k, n) \in File /\ folder[k][n] \in File
           /\ Plain(InOf(k, n).of) \in File /\ Packed(Prepared(k, n)) \in File
           /\ Aligned(InOf(k, n).of).size = InOf(k, n).of.size + PofGrowth
           /\ Aligned(InOf(k, n).of).pof = FALSE
<1> DEFINE b == InOf(k, n).of
           Bytes == [id : Ids \cup {"none"}, size : Int, coded : Int,
                     pof : BOOLEAN, magic : BOOLEAN]
<1>1. folder \in [0..Runs -> [Files -> File]] /\ k \in 0..Runs /\ k - 1 \in 0..Runs
  BY RunNumbers DEF Types
<1>2. InOf(k, n) \in File /\ folder[k][n] \in File
  BY <1>1 DEF InOf
<1>3. PofGrowth \in Int
  BY ProgramAssumption DEF ProgramAssumption
<1>4. b \in Bytes
  BY <1>2 DEF File
<1>5. ASSUME NEW x \in Bytes
      PROVE  /\ Aligned(x) \in Bytes /\ Aligned(x).size = x.size + PofGrowth
             /\ Aligned(x).pof = FALSE
  <2>1. /\ x.id \in Ids \cup {"none"} /\ x.size \in Int /\ x.coded \in Int
        /\ x.magic \in BOOLEAN
    OBVIOUS
  <2>2. x.size + PofGrowth \in Int /\ x.coded + PofGrowth \in Int
    BY <1>3, <2>1
  <2>3. QED BY <2>1, <2>2 DEF Aligned
<1>6. \A x \in Bytes : Plain(x) \in File /\ Packed(x) \in File
  BY DEF Plain, Packed, File
<1> HIDE DEF Bytes
<1>7. Prepared(k, n) \in Bytes
  BY <1>4, <1>5 DEF Prepared
<1>8. QED BY <1>2, <1>4, <1>5, <1>6, <1>7

LEMMA PartTypes == Part \in File /\ PartPacked \in File
  BY DEF Part, PartPacked, NoBytes, File

LEMMA OpenStep ==
    ASSUME IInv, NEW k \in runs, NEW n \in Files, OpenFiles(k, n)
    PROVE  IInv'
<1>1. /\ Alive(k) /\ work[k][n] = "open" /\ Settled /\ UNCHANGED pc
      /\ Put(k, n, Part) /\ Types /\ Part \in File
  BY PartTypes DEF OpenFiles, At, IInv
<1>2. CASE Worker(k, n, "begin") /\ UNCHANGED excused
  <2>1. WorkedOn(k, n, "begin", Part) /\ "begin" \in Places
    BY DEF WorkedOn, Places
  <2>2. QED BY <1>1, <1>2, <2>1, WorkerStep
<1>3. CASE Excuse(k, n) /\ Worker(k, n, "finished")
  <2>1. n \in excused'[k] /\ "finished" \in Places
    BY <1>1, <1>3 DEF Excuse, Types, Places
  <2>2. QED BY <1>1, <1>3, <2>1, WorkerStep
<1>4. QED BY <1>2, <1>3 DEF OpenFiles

(* Not to be compressed: it will be copied. *)
LEMMA SkipStep ==
    ASSUME IInv, NEW k \in runs, NEW n \in Files, Skip(k, n)
    PROVE  IInv'
<1>1. /\ Alive(k) /\ work[k][n] = "begin" /\ Settled /\ UNCHANGED <<pc, folder, excused>>
      /\ Compresses(k) /\ Worker(k, n, "copy") /\ Types
  BY DEF Skip, At, IInv
<1>2. WorkedOn(k, n, "copy", folder[k][n]) /\ "copy" \in Places
  BY <1>1 DEF WorkedOn, Places
<1>3. folder[k][n] \in File
  BY <1>1, FileTypes
<1>4. QED BY <1>1, <1>2, <1>3, WorkerStep

LEMMA CodeSomeStep ==
    ASSUME IInv, NEW k \in runs, NEW n \in Files, CodeSome(k, n)
    PROVE  IInv'
<1>1. /\ Alive(k) /\ work[k][n] = "begin" /\ Settled /\ UNCHANGED <<pc, work, excused>>
      /\ Put(k, n, PartPacked) /\ PartPacked \in File
  BY PartTypes DEF CodeSome, Coding, At, IInv
<1>2. WorkedOn(k, n, "begin", PartPacked) /\ "begin" \in Places
  BY DEF WorkedOn, Places
<1>3. QED BY <1>1, <1>2, WorkerStep

(***************************************************************************)
(* What the coder leaves stays only if it is smaller than what it was      *)
(* given, and that is larger than the input at most by what align_pof adds. *)
(***************************************************************************)
LEMMA CodeStep ==
    ASSUME IInv, NEW k \in runs, NEW n \in Files, Code(k, n)
    PROVE  IInv'
<1> DEFINE b == InOf(k, n).of
           out == Packed(Prepared(k, n))
           place == IF Kept(k, n) THEN "finished" ELSE "copy"
<1>1. /\ Alive(k) /\ work[k][n] = "begin" /\ Settled /\ UNCHANGED <<pc, excused>>
      /\ Compresses(k) /\ Selected(k, n) /\ Types
      /\ Put(k, n, out) /\ Worker(k, n, place)
  BY DEF Code, Coding, At, IInv
<1>2. place \in Places
  BY DEF Places
<1>3. out \in File
  BY <1>1, FileTypes
<1>4. ASSUME Kept(k, n) PROVE Right(k, out, InOf(k, n))
  <2>1. InOf(k, n).how # "packed"
    BY <1>1 DEF Selected, Magic
  <2>2. out.how = "packed" /\ out.of = Prepared(k, n)
    BY DEF Packed
  <2>3. Prepared(k, n) = b \/ (Prepared(k, n) = Aligned(b) /\ b.pof)
    BY DEF Prepared
  <2>4. /\ Aligned(b).size = b.size + PofGrowth /\ Aligned(b).pof = FALSE
        /\ b.size \in Int /\ PofGrowth \in Nat /\ out.of.coded \in Int
    <3>1. InOf(k, n) \in File /\ PofGrowth \in Nat
      BY <1>1, FileTypes, ProgramAssumption DEF ProgramAssumption
    <3>2. b.size \in Int
      BY <3>1 DEF File
    <3>3. out.of.coded \in Int
      <4> HIDE DEF out
      <4>1. QED BY <1>3 DEF File
    <3>4. QED BY <1>1, <3>1, <3>2, <3>3, FileTypes
  <2>5. out.of.coded < Prepared(k, n).size
    BY <1>4, <2>2 DEF Kept
  <2> HIDE DEF b, out
  <2>6. ~ Larger(out, InOf(k, n))
    <3>1. CASE Prepared(k, n) = b
      <4>1. ~ (out.of.coded > b.size + 0)
        BY <2>4, <2>5, <3>1
      <4>2. QED BY <2>1, <2>2, <3>1, <4>1 DEF Larger, b
    <3>2. CASE Prepared(k, n) = Aligned(b) /\ b.pof
      <4>1. out.of # b
        BY <2>2, <2>4, <3>2
      <4>2. ~ (out.of.coded > b.size + PofGrowth)
        BY <2>4, <2>5, <3>2
      <4>3. QED BY <2>1, <2>2, <4>1, <4>2 DEF Larger, b
    <3>3. QED BY <2>3, <3>1, <3>2
  <2>7. QED BY <1>1, <2>2, <2>3, <2>6 DEF Right, b
<1>5. WorkedOn(k, n, place, out)
  <2> HIDE DEF out
  <2>1. QED BY <1>1, <1>4 DEF WorkedOn
<1> HIDE DEF out, place
<1>6. QED BY <1>1, <1>2, <1>3, <1>5, WorkerStep

LEMMA CodeFailsStep ==
    ASSUME IInv, NEW k \in runs, NEW n \in Files, CodeFails(k, n)
    PROVE  IInv'
<1>1. /\ Alive(k) /\ work[k][n] = "begin" /\ Settled /\ Compresses(k)
      /\ UNCHANGED <<folder, excused>> /\ Types
  BY DEF CodeFails, Coding, At, IInv
<1>2. CASE Die(k)
  BY <1>1, <1>2, DeadStep DEF Die, Goto, Settled, Alive
<1>3. CASE Worker(k, n, "copy") /\ UNCHANGED pc
  <2>1. WorkedOn(k, n, "copy", folder[k][n]) /\ "copy" \in Places
    BY <1>1 DEF WorkedOn, Places
  <2>2. folder[k][n] \in File
    BY <1>1, FileTypes
  <2>3. QED BY <1>1, <1>3, <2>1, <2>2, WorkerStep
<1>4. QED BY <1>2, <1>3 DEF CodeFails

(* A proper file is decompressed, or plain already and will be copied. *)
LEMMA DecodeStep ==
    ASSUME IInv, NEW k \in runs, NEW n \in Files, Decode(k, n)
    PROVE  IInv'
<1>1. /\ Alive(k) /\ work[k][n] = "begin" /\ Settled /\ ~ Compresses(k)
      /\ UNCHANGED excused /\ Types
  BY DEF Decode, At, IInv
<1>2. /\ InOf(k, n) \in File /\ folder[k][n] \in File /\ Plain(InOf(k, n).of) \in File
      /\ "copy" \in Places /\ "finished" \in Places
  BY <1>1, FileTypes DEF Places
<1>3. CASE ~ Magic(InOf(k, n)) /\ Worker(k, n, "copy") /\ UNCHANGED <<folder, pc>>
  <2>1. Healthy(InOf(k, n)) => WorkedOn(k, n, "copy", folder[k][n])
    <3> SUFFICES ASSUME Healthy(InOf(k, n)) PROVE InOf(k, n) = Plain(InOf(k, n).of)
      BY DEF WorkedOn
    <3>1. InOf(k, n).how = "plain"
      BY <1>3 DEF Healthy, Magic
    <3>2. QED BY <1>2, <3>1 DEF File, Plain
  <2>2. QED BY <1>1, <1>2, <1>3, <2>1, WorkerStep
<1>4. CASE Put(k, n, Plain(InOf(k, n).of)) /\ Worker(k, n, "finished") /\ UNCHANGED pc
  <2> DEFINE out == Plain(InOf(k, n).of)
  <2>1. WorkedOn(k, n, "finished", out)
    BY <1>1 DEF WorkedOn, Right, Plain
  <2>2. Put(k, n, out) /\ out \in File
    BY <1>2, <1>4
  <2> HIDE DEF out
  <2>3. QED BY <1>1, <1>2, <1>4, <2>1, <2>2, WorkerStep
<1>5. CASE /\ InOf(k, n).how # "packed" /\ Magic(InOf(k, n)) /\ UNCHANGED folder
           /\ Worker(k, n, "finished") /\ UNCHANGED pc
  <2>1. ~ Healthy(InOf(k, n))
    BY <1>5 DEF Healthy, Magic
  <2>2. QED BY <1>1, <1>2, <1>5, <2>1, WorkerStep
<1>6. CASE Die(k) /\ UNCHANGED folder
  BY <1>1, <1>6, DeadStep DEF Die, Goto, Settled, Alive
<1>7. QED BY <1>3, <1>4, <1>5, <1>6 DEF Decode

LEMMA CopyStep ==
    ASSUME IInv, NEW k \in runs, NEW n \in Files, Copy(k, n) \/ CopyThrows(k, n)
    PROVE  IInv'
<1>1. /\ Alive(k) /\ work[k][n] = "copy" /\ Settled /\ Types /\ Worked(k)
  BY DEF Copy, CopyThrows, At, IInv
<1>2. InOf(k, n) \in File /\ folder[k][n] \in File /\ "finished" \in Places
  BY <1>1, FileTypes DEF Places
<1>3. CASE Copy(k, n)
  <2>1. /\ Put(k, n, InOf(k, n)) /\ Worker(k, n, "finished") /\ UNCHANGED <<pc, excused>>
    BY <1>3 DEF Copy
  <2>2. ASSUME Healthy(InOf(k, n)), n \notin excused'[k]
        PROVE  WorkedOn(k, n, "finished", InOf(k, n))
    <3>1. WorkedOn(k, n, "copy", folder[k][n])
      BY <1>1, <2>1, <2>2 DEF Worked, Begun, Alive
    <3>2. ~ Compresses(k) => InOf(k, n) = Plain(InOf(k, n).of)
      BY <3>1 DEF WorkedOn
    <3>3. ~ Larger(InOf(k, n), InOf(k, n))
      <4>1. InOf(k, n).of.coded \in Int /\ InOf(k, n).of.size \in Int
        BY <1>2 DEF File
      <4>2. QED BY <4>1 DEF Larger
    <3>4. QED BY <2>2, <3>2, <3>3 DEF WorkedOn, Right, Healthy
  <2>3. QED BY <1>1, <1>2, <2>1, <2>2, WorkerStep
<1>4. CASE Excuse(k, n) /\ Worker(k, n, "finished") /\ UNCHANGED <<folder, pc>>
  <2>1. n \in excused'[k]
    BY <1>1, <1>4 DEF Excuse, Types
  <2>2. QED BY <1>1, <1>2, <1>4, <2>1, WorkerStep
<1>5. CASE Die(k) /\ UNCHANGED <<folder, excused>>
  BY <1>1, <1>5, DeadStep DEF Die, Goto, Settled, Alive
<1>6. QED BY <1>3, <1>4, <1>5 DEF CopyThrows
-----------------------------------------------------------------------------
LEMMA InitHolds == Init => IInv
<1> SUFFICES ASSUME Init PROVE IInv
  OBVIOUS
<1>1. PICK f \in Folders :
         folder = [k \in 0..Runs |-> IF k = 0 THEN f.holds ELSE [n \in Files |-> NoFile]]
  BY DEF Init
<1>2. folder \in [0..Runs -> [Files -> File]]
  <2>1. f.holds \in [Files -> File]
    BY ProgramAssumption DEF ProgramAssumption
  <2>2. NoFile \in File
    BY DEF NoFile, NoBytes, File
  <2>3. [n \in Files |-> NoFile] \in [Files -> File]
    BY <2>2
  <2>4. QED BY <1>1, <2>1, <2>3
<1>3. Usable(Defaults) /\ Defaults = [Defaults EXCEPT !.max_threads = Defaults.max_threads]
  BY DEF Usable, Defaults, Key
<1>4. Types
  <2>1. /\ config = [k \in runs |-> Defaults] /\ ini = NoIni /\ edited = FALSE
        /\ pc = [k \in runs |-> "start"] /\ todo = [k \in runs |-> {}]
        /\ batch = [k \in runs |-> {}] /\ excused = [k \in runs |-> {}]
        /\ work = [k \in runs |-> [n \in Files |-> "none"]]
    BY DEF Init, Initially
  <2>2. \A k \in runs : Usable(config[k])
    BY <1>3, <2>1
  <2>3. work \in [runs -> [Files -> Places]] /\ pc \in [runs -> Steps]
    BY <2>1 DEF Places, Steps
  <2>4. config = [k \in runs |-> config[k]] /\ DOMAIN config = runs
    BY <2>1
  <2>5. QED BY <1>2, <2>1, <2>2, <2>3, <2>4 DEF Types, Written
<1>5. Agree
  BY <1>3 DEF Agree, Init, Initially, Written
<1>6. \A k \in runs : ~ Begun(k) /\ Fresh(k)
  BY DEF Init, Begun, Fresh
<1>7. QED BY <1>4, <1>5, <1>6 DEF IInv, InOrder, Accounted, Worked

LEMMA StepKeeps == IInv /\ [Next]_vars => IInv'
<1> SUFFICES ASSUME IInv, [Next]_vars PROVE IInv'
  OBVIOUS
<1>1. CASE UNCHANGED vars
  BY <1>1 DEF vars, IInv, Types, InOrder, Agree, Fresh, Accounted, Worked, WorkedOn, Begun,
              Threads, Compresses, OfFolder, Eligible, InOf, Right
<1>2. CASE EditIni
  BY <1>2, EditStep
<1>3. ASSUME NEW k \in runs, Run(k) \/ Kill(k) \/ Restart(k) PROVE IInv'
  <2>1. CASE OpenConfig(k) \/ CreateConfig(k) \/ WriteConfig(k)
    BY <2>1, SettingsStep
  <2>2. CASE BeginCommand(k)
    BY <2>2, BeginStep
  <2>3. CASE JoinBatch(k) \/ EndCommand(k)
    BY <2>3, JoinStep
  <2>4. CASE Kill(k)
    BY <2>4, DeadStep DEF Kill, Goto
  <2>5. CASE Restart(k)
    BY <2>5, RestartStep
  <2>6. ASSUME NEW n \in Files,
               \/ NextFile(k, n) \/ OpenFiles(k, n)
               \/ Skip(k, n) \/ CodeSome(k, n) \/ Code(k, n) \/ CodeFails(k, n)
               \/ Decode(k, n) \/ Copy(k, n) \/ CopyThrows(k, n)
        PROVE  IInv'
    BY <2>6, NextFileStep, OpenStep, SkipStep, CodeSomeStep, CodeStep, CodeFailsStep,
       DecodeStep, CopyStep
  <2>7. QED BY <1>3, <2>1, <2>2, <2>3, <2>4, <2>5, <2>6 DEF Run
<1>4. QED BY <1>1, <1>2, <1>3 DEF Next

(***************************************************************************)
(* Whatever is killed and started again, a run writes its own folder only, *)
(* reads a finished one, and its workers' files are what they should be as *)
(* soon as they have finished.                                             *)
(***************************************************************************)
THEOREM Invariance == Spec => []IInv
<1>1. QED BY InitHolds, StepKeeps, PTL DEF Spec

(***************************************************************************)
(* When compress_folder, decompress_folder or a single-file command has    *)
(* ended, every proper input that it does not leave out, and could open    *)
(* and copy, is in its output as it should be.                             *)
(***************************************************************************)
THEOREM FilesAlwaysKept == Spec => []FilesKept
<1>1. IInv => FilesKept
  <2> SUFFICES ASSUME IInv, NEW k \in runs, pc[k] = "done", NEW n \in Files,
                      (OfFolder(k) /\ Eligible(k, n)) \/ work[k][n] = "finished",
                      Healthy(InOf(k, n)), n \notin excused[k]
               PROVE  Right(k, folder[k][n], InOf(k, n))
    BY DEF FilesKept
  <2>1. Accounted(k) /\ Worked(k) /\ Begun(k)
    BY DEF IInv, Begun
  <2>2. work[k][n] = "finished"
    BY <2>1 DEF Accounted
  <2>3. QED BY <2>1, <2>2 DEF Worked, WorkedOn
<1>2. QED BY <1>1, Invariance, PTL

(***************************************************************************)
(* Until the user writes an ini file every run has the default settings,   *)
(* whichever of them creates vpc_config.ini, and in whatever order.        *)
(***************************************************************************)
THEOREM SettingsAlwaysAgree == Spec => []SettingsAgree
<1>1. IInv => SettingsAgree
  BY DEF IInv, Agree, SettingsAgree
<1>2. QED BY <1>1, Invariance, PTL
==============================================================================
