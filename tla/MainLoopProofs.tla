--------------------------- MODULE MainLoopProofs ---------------------------
(***************************************************************************)
(* For every machine, build, set of time slices and interval: the main     *)
(* loop keeps its tables in order, gives the tasks and the kernel ELF      *)
(* tasks their turns, never takes a turn away before it was used, and      *)
(* starts no user shell after one that ended well.                         *)
(***************************************************************************)
EXTENDS MainLoop, Induction, SequenceTheorems, TLAPS

TaskRec == [name : TaskNames, state : {"READY", "RUNNING"}, remaining : Nat, switches : Nat]

\* The round is as far as the current task: those after the first and up to it
\* have had their turn in it.
TurnsOfRound == \A i \in DOMAIN tasks : tasks[i].switches = IF 1 < i /\ i <= current THEN 1 ELSE 0

\* The kernel ELF tasks before the next one have run in this round.
AppsOfRound == \A a \in DOMAIN apps : apps[a] = IF a <= rr_index THEN 1 ELSE 0

\* How many ticks a turn not yet used has left: all of its slice while the task
\* before it is still being dispatched, and at each later point one less for each
\* tick that may have come, a tick that was the last one being already gone.
Unused ==
    /\ entered \notin {0, current} => tasks[current].remaining >= 3
    /\ pc = "prehlt" => tasks[current].remaining >= 3 \/ (ticked /\ tasks[current].remaining >= 2)
    /\ pc = "hlt" => tasks[current].remaining >= 2
    /\ pc \in {"read", "dispatch", "mark", "enter"} => tasks[current].remaining >= 2 \/ ticked
TurnAhead == stage = "loop" /\ ~ran /\ tasks[current].name # "idle" => Unused

\* The task that is entered is the current one, unless a tick has just come.
InTurn ==
    /\ pc \in {"mark", "enter"} /\ entered # current => ticked
    /\ dispatch_active /\ entered = current => ran

LoopInv ==
    /\ LoopTypeOK
    /\ tasks \in Seq(TaskRec)
    /\ stage # "loop" => pc = "read"
    /\ TurnsOfRound /\ AppsOfRound
    /\ InTurn
    /\ TurnAhead

-----------------------------------------------------------------------------
(* Facts about the helpers. *)

\* The task after the last one is the first.
LEMMA NextTask == ASSUME NEW n \in Nat, NEW c \in 1 .. n
                  PROVE  (c % n) + 1 = IF c < n THEN c + 1 ELSE 1
  BY Z3

\* What clks_scheduler_add_kernel_task_ex adds.
FreshTask == [name : TaskNames, state : {"READY"}, remaining : Nat \ {0}, switches : {0}]
Fresh(r) == r \in FreshTask /\ r.remaining = Slice[r.name]

LEMMA AddTask == ASSUME NEW name \in TaskNames, NEW enabled
                 PROVE  /\ add_kernel_task_ex(name, enabled) \in Seq(TaskRec)
                        /\ \A i \in 1 .. Len(add_kernel_task_ex(name, enabled)) :
                              Fresh(add_kernel_task_ex(name, enabled)[i])
<1> DEFINE r == [name |-> name, state |-> "READY", remaining |-> Slice[name], switches |-> 0]
           t == add_kernel_task_ex(name, enabled)
<1>1. Slice[name] \in Nat \ {0}
  BY SliceAssumption
<1>2. r \in TaskRec /\ r \in FreshTask /\ r.remaining = Slice[r.name]
  BY <1>1 DEF TaskRec, FreshTask
<1> HIDE DEF r
<1>3. CASE enabled
  <2>1. t = <<r>>
    BY <1>3 DEF add_kernel_task_ex, r
  <2>2. <<r>> \in Seq(TaskRec) /\ Len(<<r>>) = 1 /\ <<r>>[1] = r
    BY <1>2
  <2>3. \A i \in 1 .. Len(<<r>>) : Fresh(<<r>>[i])
    BY <1>2, <2>2 DEF Fresh
  <2> QED BY <2>1, <2>2, <2>3
<1>4. CASE ~enabled
  <2>1. t = <<>>
    BY <1>4 DEF add_kernel_task_ex
  <2> QED BY <2>1, EmptySeq
<1> QED BY <1>3, <1>4

\* The table during boot: the idle task runs, the others are fresh.
BootTable(s) ==
    /\ s \in Seq(TaskRec) /\ Len(s) >= 1
    /\ s[1] = [name |-> "idle", state |-> "RUNNING", remaining |-> Slice["idle"], switches |-> 0]
    /\ \A i \in 2 .. Len(s) : Fresh(s[i])

LEMMA IdleTable == BootTable([add_kernel_task_ex("idle", TRUE) EXCEPT ![1].state = "RUNNING"])
  BY SliceAssumption DEF BootTable, add_kernel_task_ex, TaskRec, TaskNames

LEMMA LongerTable == ASSUME NEW s, BootTable(s), NEW name \in TaskNames, NEW enabled
                     PROVE  BootTable(s \o add_kernel_task_ex(name, enabled))
<1> DEFINE t == add_kernel_task_ex(name, enabled)
<1>1. t \in Seq(TaskRec) /\ \A i \in 1 .. Len(t) : Fresh(t[i])
  BY AddTask
<1>2. s \in Seq(TaskRec)
  BY DEF BootTable
<1>3. /\ s \o t \in Seq(TaskRec) /\ Len(s \o t) = Len(s) + Len(t)
      /\ \A i \in 1 .. Len(s) + Len(t) : (s \o t)[i] = IF i <= Len(s) THEN s[i] ELSE t[i - Len(s)]
  BY <1>1, <1>2, ConcatProperties
<1> HIDE DEF t
<1>4. Len(s) \in Nat /\ Len(t) \in Nat
  BY <1>1, <1>2, LenProperties
<1>5. BootTable(s \o t)
  BY <1>1, <1>3, <1>4 DEF BootTable
<1> QED BY <1>5 DEF t

-----------------------------------------------------------------------------
(* The boot. *)

LEMMA InitInv == Init => LoopInv
<1> SUFFICES ASSUME Init PROVE LoopInv
  OBVIOUS
<1> USE DEF Init
<1>1. tasks = <<>> /\ apps = <<>> /\ DOMAIN tasks = {} /\ DOMAIN apps = {}
  OBVIOUS
<1>2. tasks \in Seq(TaskRec) /\ apps \in Seq(Nat) /\ Len(tasks) = 0 /\ Len(apps) = 0
  BY <1>1
<1>3. EntryInTurn
  BY DEF EntryInTurn, EntryLabels
<1>4. LAG_MAX \in Nat
  BY BoundAssumption DEF LAG_MAX
<1>5. LoopTypeOK
  <2>1. shell \in [ready : BOOLEAN, enabled : BOOLEAN, requested : BOOLEAN, first : BOOLEAN]
    OBVIOUS
  <2>2. \A i \in DOMAIN tasks : TaskOK(i)
    BY <1>1
  <2>3. stage \in Stages /\ stage \notin {"services", "open", "loop"} /\ pc \in Labels
    BY DEF Stages, Labels
  <2>4. since_try \in 0 .. RETRY /\ since_kelf \in 0 .. KELF_INTERVAL /\ lag \in 0 .. LAG_MAX /\ pending \in 0 .. PENDING_MAX
    BY <1>4, BoundAssumption
  <2>5. beat \subseteq Services /\ entered \in 0 .. Len(tasks) /\ phase \in 0 .. 3 /\ program \in {"none", "exec_tick", "shell", "command"}
    BY <1>2
  <2>6. dispatch_active \in BOOLEAN /\ ticked \in BOOLEAN /\ ran \in BOOLEAN /\ tried \in BOOLEAN
    OBVIOUS
  <2>7. apps \in Seq(Nat) /\ Len(apps) <= 2 /\ apps = <<>> /\ rr_index = 0 /\ machine \in Machines /\ config \in Configs
    BY <1>1, <1>2
  <2> HIDE DEF Init
  <2> QED BY <1>3, <2>1, <2>2, <2>3, <2>4, <2>5, <2>6, <2>7 DEF LoopTypeOK
<1>6. TurnsOfRound /\ AppsOfRound /\ TurnAhead /\ InTurn
  BY <1>1 DEF TurnsOfRound, AppsOfRound, TurnAhead, InTurn
<1> QED BY <1>2, <1>5, <1>6 DEF LoopInv

\* The table of tasks the boot leaves is in order.
LEMMA BootTasksInv == LoopInv /\ BootTasks => LoopInv'
<1> SUFFICES ASSUME LoopInv, BootTasks PROVE LoopInv'
  OBVIOUS
<1> DEFINE a == [add_kernel_task_ex("idle", TRUE) EXCEPT ![1].state = "RUNNING"]
           b == a \o add_kernel_task_ex("klogd", "klogd" \in config.tasks)
           c == b \o add_kernel_task_ex("kworker", "kworker" \in config.tasks)
           d == c \o add_kernel_task_ex("kelfd", config.kelf)
           e == d \o add_kernel_task_ex("usrd", "usrd" \in config.tasks)
<1>2. BootTable(a)
  BY IdleTable
<1>3. BootTable(b)
  BY <1>2, LongerTable DEF TaskNames
<1>4. BootTable(c)
  BY <1>3, LongerTable DEF TaskNames
<1>5. BootTable(d)
  BY <1>4, LongerTable DEF TaskNames
<1>6. BootTable(e)
  BY <1>5, LongerTable DEF TaskNames
<1>7. tasks' = e /\ current' = 1 /\ stage' = "services"
  BY DEF BootTasks
<1> HIDE DEF a, b, c, d, e
<1>8. /\ tasks' \in Seq(TaskRec) /\ Len(tasks') \in Nat /\ Len(tasks') >= 1 /\ DOMAIN tasks' = 1 .. Len(tasks')
      /\ tasks'[1] = [name |-> "idle", state |-> "RUNNING", remaining |-> Slice["idle"], switches |-> 0]
      /\ \A i \in 2 .. Len(tasks') : Fresh(tasks'[i])
  BY <1>6, <1>7, LenProperties DEF BootTable
<1>9. \A i \in DOMAIN tasks' : TaskOK(i)' /\ tasks'[i].switches = 0
  <2> SUFFICES ASSUME NEW i \in DOMAIN tasks' PROVE TaskOK(i)' /\ tasks'[i].switches = 0
    OBVIOUS
  <2>1. CASE i = 1
    BY <2>1, <1>7, <1>8, SliceAssumption DEF TaskOK, slice_of, TaskNames
  <2>2. CASE i # 1
    <3>1. i \in 2 .. Len(tasks')
      BY <1>8, <2>2
    <3>2. Fresh(tasks'[i])
      BY <1>8, <3>1
    <3> QED BY <3>2, <2>2, <1>7, SliceAssumption DEF TaskOK, slice_of, Fresh, FreshTask
  <2> QED BY <2>1, <2>2
<1>10. pc = "read" /\ pc' = pc /\ entered' = entered /\ dispatch_active' = dispatch_active /\ dispatch_active = FALSE /\ entered = 0
  BY DEF LoopInv, LoopTypeOK, EntryInTurn, EntryLabels, BootTasks, loop_part
<1>11. EntryInTurn'
  BY <1>10 DEF EntryInTurn, EntryLabels
<1>12. LoopTypeOK'
  <2>1. /\ UNCHANGED <<apps, rr_index, shell, loop_part>> /\ LoopTypeOK
        /\ current' = 1 /\ stage' = "services"
    BY DEF LoopInv, BootTasks
  <2>2. current' \in DOMAIN tasks' /\ entered' \in 0 .. Len(tasks') /\ stage' \in Stages
    BY <2>1, <1>8, <1>10 DEF Stages
  <2> QED BY <2>1, <2>2, <1>9, <1>11 DEF LoopTypeOK, loop_part, time, seen
<1>13. TurnsOfRound' /\ TurnAhead'
  BY <1>7, <1>8, <1>9 DEF TurnsOfRound, TurnAhead
<1>14. AppsOfRound' /\ InTurn'
  BY <1>10 DEF LoopInv, AppsOfRound, InTurn, BootTasks, loop_part
<1> QED BY <1>7, <1>8, <1>10, <1>12, <1>13, <1>14 DEF LoopInv

LEMMA ProbedPath ==
    ASSUME NEW app
    PROVE  /\ kelf_probe_path(app) \in Seq({0})
           /\ Len(kelf_probe_path(app)) = IF machine.elf[app] = "good" THEN 1 ELSE 0
<1>1. <<0>> \in Seq({0}) /\ Len(<<0>>) = 1 /\ <<>> \in Seq({0}) /\ Len(<<>>) = 0
  BY EmptySeq
<1>2. CASE machine.elf[app] = "good"
  BY <1>1, <1>2 DEF kelf_probe_path
<1>3. CASE machine.elf[app] # "good"
  BY <1>1, <1>3 DEF kelf_probe_path
<1> QED BY <1>2, <1>3

\* The steps that come before and after it leave the table of tasks alone.
LEMMA OtherBootInv == LoopInv /\ Boot /\ ~BootTasks /\ ~EnterLoop => LoopInv'
<1> SUFFICES ASSUME LoopInv, Boot, ~BootTasks, ~EnterLoop PROVE LoopInv'
  OBVIOUS
<1>1. UNCHANGED <<tasks, current, loop_part>>
  BY DEF Boot, BootMemory, BootFiles, BootUserland, BootDrivers, BootKelf, BootServices, boot
<1>2. /\ stage' \in Stages /\ stage # "loop" /\ stage' # "loop"
      /\ stage' \in {"services", "open"} => stage = "services"
  BY DEF Boot, BootMemory, BootFiles, BootUserland, BootDrivers, BootKelf, BootServices, Stages
<1>3. pc = "read" /\ pc' = "read"
  BY <1>1, <1>2 DEF LoopInv, loop_part
<1>4. shell' \in [ready : BOOLEAN, enabled : BOOLEAN, requested : BOOLEAN, first : BOOLEAN]
  <2>1. CASE BootUserland
    <3>1. userland_probe_elf("shell") \in BOOLEAN
      BY DEF userland_probe_elf
    <3>2. config.auto_exec \in BOOLEAN
      BY MachineAssumption DEF LoopInv, LoopTypeOK, ConfigType
    <3> QED BY <2>1, <3>1, <3>2 DEF BootUserland
  <2>2. CASE ~BootUserland
    BY <2>2 DEF Boot, BootTasks, BootMemory, BootFiles, BootDrivers, BootKelf, BootServices, boot, LoopInv, LoopTypeOK
  <2> QED BY <2>1, <2>2
<1>5. /\ apps' \in Seq(Nat) /\ Len(apps') <= 2
      /\ IF apps' = <<>> THEN rr_index' = 0 ELSE rr_index' \in 0 .. Len(apps') - 1
      /\ AppsOfRound'
  <2>1. CASE BootKelf
    <3> DEFINE p == kelf_probe_path("elfrunner")
               q == kelf_probe_path("memc")
    <3>1. p \in Seq({0}) /\ q \in Seq({0}) /\ Len(p) \in {0, 1} /\ Len(q) \in {0, 1}
      BY ProbedPath
    <3> HIDE DEF p, q
    <3>2. p \o q \in Seq({0}) /\ Len(p \o q) = Len(p) + Len(q)
      BY <3>1, ConcatProperties
    <3>3. rr_index' = 0 /\ (apps' = p \o q \/ apps' = <<>>)
      BY <2>1 DEF BootKelf, p, q
    <3>4. apps' \in Seq({0}) /\ Len(apps') <= 2
      <4>1. CASE apps' = p \o q
        BY <4>1, <3>1, <3>2
      <4>2. CASE apps' = <<>>
        BY <4>2, EmptySeq
      <4> QED BY <4>1, <4>2, <3>3
    <3>5. \A n \in DOMAIN apps' : n \in 1 .. Len(apps') /\ apps'[n] = 0
      <4>1. DOMAIN apps' = 1 .. Len(apps')
        BY <3>4, LenProperties
      <4>2. \A n \in 1 .. Len(apps') : apps'[n] \in {0}
        BY <3>4, ElementOfSeq
      <4> QED BY <4>1, <4>2
    <3>6. apps' \in Seq(Nat)
      BY <3>4, SeqMonotonic
    <3>7. Len(apps') \in Nat /\ (apps' # <<>> => Len(apps') >= 1)
      BY <3>4, LenProperties, EmptySeq
    <3> QED BY <3>3, <3>4, <3>5, <3>6, <3>7 DEF AppsOfRound
  <2>2. CASE ~BootKelf
    <3>1. UNCHANGED <<apps, rr_index>>
      BY <2>2 DEF Boot, BootTasks, BootMemory, BootFiles, BootUserland, BootDrivers, BootServices, boot
    <3> QED BY <3>1 DEF LoopInv, LoopTypeOK, AppsOfRound
  <2> QED BY <2>1, <2>2
<1>6. EntryInTurn' /\ \A i \in DOMAIN tasks' : TaskOK(i)'
  BY <1>1 DEF LoopInv, LoopTypeOK, EntryInTurn, next_ready_task, TaskOK, slice_of, loop_part
<1>7. LoopTypeOK'
  <2>1. LoopTypeOK /\ UNCHANGED <<tasks, current, loop_part>>
    BY <1>1 DEF LoopInv
  <2>2. stage' \in {"services", "open", "loop"} => current' \in DOMAIN tasks'
    BY <1>2, <2>1 DEF LoopTypeOK
  <2> QED BY <1>2, <1>4, <1>5, <1>6, <2>1, <2>2 DEF LoopTypeOK, loop_part, time, seen
<1>8. TurnsOfRound' /\ tasks' \in Seq(TaskRec) /\ InTurn'
  BY <1>1 DEF LoopInv, TurnsOfRound, InTurn, loop_part, time
<1>9. TurnAhead'
  BY <1>2 DEF TurnAhead
<1> QED BY <1>3, <1>5, <1>7, <1>8, <1>9 DEF LoopInv

\* The turn in which the loop begins counts as used.
LEMMA EnterLoopInv == LoopInv /\ EnterLoop => LoopInv'
<1> SUFFICES ASSUME LoopInv, EnterLoop PROVE LoopInv'
  OBVIOUS
<1>1. /\ stage = "open" /\ stage' = "loop" /\ ran' = TRUE /\ ticked' = FALSE
      /\ UNCHANGED <<machine, config, drivers, apps, rr_index, service, shell, tasks, current, dispatch_active, pc,
                     entered, phase, pending, program, since_try, since_kelf, lag, beat, tried>>
  BY DEF EnterLoop, boot, seen
<1>2. LoopTypeOK /\ EntryInTurn /\ pc = "read" /\ current \in DOMAIN tasks
  BY <1>1 DEF LoopInv, LoopTypeOK
<1>3. EntryInTurn' /\ \A i \in DOMAIN tasks' : TaskOK(i)'
  BY <1>1, <1>2 DEF LoopTypeOK, EntryInTurn, next_ready_task, TaskOK, slice_of
<1>4. LoopTypeOK'
  <2>1. stage' \in Stages /\ ran' \in BOOLEAN /\ ticked' \in BOOLEAN /\ current' \in DOMAIN tasks'
    BY <1>1, <1>2 DEF Stages
  <2> QED BY <1>1, <1>2, <1>3, <2>1 DEF LoopTypeOK
<1>5. TurnsOfRound' /\ AppsOfRound' /\ tasks' \in Seq(TaskRec) /\ InTurn' /\ TurnAhead'
  BY <1>1, <1>2 DEF LoopInv, TurnsOfRound, AppsOfRound, InTurn, TurnAhead
<1> QED BY <1>1, <1>4, <1>5 DEF LoopInv

-----------------------------------------------------------------------------
(* The loop. *)

\* What every step outside boot, ticks and dispatch leaves alone.
LEMMA SameTable ==
    ASSUME LoopInv, UNCHANGED <<machine, config, stage, tasks, current>>
    PROVE  /\ machine' \in Machines /\ config' \in Configs /\ stage' \in Stages
           /\ \A i \in DOMAIN tasks' : TaskOK(i)'
           /\ stage' \in {"services", "open", "loop"} => current' \in DOMAIN tasks'
           /\ tasks' \in Seq(TaskRec) /\ TurnsOfRound'
  BY DEF LoopInv, LoopTypeOK, TaskOK, slice_of, TurnsOfRound

\* A step inside an entry, whatever it does to the kernel ELF tasks, the shell
\* and the programs, stays inside it.
LEMMA InsideEntry ==
    ASSUME LoopInv, stage = "loop", pc \in EntryLabels, pc' \in EntryLabels,
           UNCHANGED in_entry_kept,
           apps' \in Seq(Nat), Len(apps') <= 2, AppsOfRound',
           IF apps' = <<>> THEN rr_index' = 0 ELSE rr_index' \in 0 .. Len(apps') - 1,
           shell' \in [ready : BOOLEAN, enabled : BOOLEAN, requested : BOOLEAN, first : BOOLEAN],
           phase' \in 0 .. 3, pending' \in 0 .. PENDING_MAX,
           program' \in {"none", "exec_tick", "shell", "command"},
           since_try' \in 0 .. RETRY, since_kelf' \in 0 .. KELF_INTERVAL,
           beat' \subseteq Services, tried' \in BOOLEAN
    PROVE  LoopInv'
<1>1. UNCHANGED <<machine, config, stage, tasks, current>>
  BY DEF in_entry_kept
<1>2. UNCHANGED <<dispatch_active, entered, ran, ticked, lag>>
  BY DEF in_entry_kept
<1>3. EntryInTurn'
  BY <1>1, <1>2 DEF LoopInv, LoopTypeOK, EntryInTurn, EntryLabels, next_ready_task
<1>4. pc' \in Labels
  BY DEF EntryLabels, Labels
<1>5. LoopTypeOK'
  <2>1. LoopTypeOK
    BY DEF LoopInv
  <2> QED BY <1>1, <1>2, <1>3, <1>4, <2>1, SameTable DEF LoopTypeOK
<1>6. pc \notin {"read", "dispatch", "mark", "enter", "prehlt", "hlt"} /\ pc' \notin {"read", "dispatch", "mark", "enter", "prehlt", "hlt"}
  BY DEF EntryLabels
<1>7. TurnAhead' /\ InTurn'
  BY <1>1, <1>2, <1>6 DEF LoopInv, TurnAhead, Unused, InTurn
<1> QED BY <1>1, <1>2, <1>5, <1>6, <1>7, SameTable DEF LoopInv

LEMMA EntryInv == LoopInv /\ (Klogd \/ Kworker \/ Kelfd \/ Usrd \/ UserlandTick \/ LateTicks \/ ProgramEnds) => LoopInv'
<1> SUFFICES ASSUME LoopInv, Klogd \/ Kworker \/ Kelfd \/ Usrd \/ UserlandTick \/ LateTicks \/ ProgramEnds
             PROVE  LoopInv'
  OBVIOUS
<1>1. stage = "loop" /\ pc \in EntryLabels /\ UNCHANGED in_entry_kept
  BY DEF Klogd, Kworker, Kelfd, Usrd, UserlandTick, LateTicks, ProgramEnds, in_entry, at, EntryLabels
<1>2. LoopTypeOK /\ AppsOfRound
  BY DEF LoopInv
<1>3. CASE Klogd
  BY <1>1, <1>2, <1>3, InsideEntry DEF Klogd, EntryLabels, Services, LoopTypeOK, AppsOfRound
<1>4. CASE Kworker
  <2>1. phase \in 0 .. 3
    BY <1>2 DEF LoopTypeOK
  <2>2. phase_service[phase] \in Services /\ next_phase \in 0 .. 3
    BY <2>1 DEF phase_service, Services, next_phase
  <2>3. beat' \subseteq Services /\ phase' \in 0 .. 3
    BY <1>4, <2>2 DEF Kworker, Services
  <2> QED BY <1>1, <1>2, <1>4, <2>3, InsideEntry DEF Kworker, EntryLabels, LoopTypeOK, AppsOfRound
<1>5. CASE Kelfd
  <2>1. /\ apps' \in Seq(Nat) /\ Len(apps') <= 2 /\ AppsOfRound'
        /\ IF apps' = <<>> THEN rr_index' = 0 ELSE rr_index' \in 0 .. Len(apps') - 1
        /\ since_kelf' \in 0 .. KELF_INTERVAL
    <3>1. CASE apps = <<>> \/ since_kelf < KELF_INTERVAL
      BY <1>2, <1>5, <3>1 DEF Kelfd, kelf_tick, LoopTypeOK, AppsOfRound
    <3>2. CASE ~(apps = <<>> \/ since_kelf < KELF_INTERVAL)
      <4> DEFINE n == Len(apps)
                 run == [apps EXCEPT ![rr_index + 1] = @ + 1]
      <4>1. /\ apps' = relative(run) /\ rr_index' = (rr_index + 1) % n /\ since_kelf' = 0
        BY <1>5, <3>2 DEF Kelfd, kelf_tick
      <4>2. /\ n \in {1, 2} /\ rr_index \in 0 .. n - 1 /\ DOMAIN apps = 1 .. n /\ apps \in Seq(Nat)
            /\ \A a \in 1 .. n : apps[a] = IF a <= rr_index THEN 1 ELSE 0
        <5>1. apps \in Seq(Nat) /\ apps # <<>> /\ Len(apps) <= 2 /\ rr_index \in 0 .. Len(apps) - 1
          BY <1>2, <3>2 DEF LoopTypeOK
        <5>2. Len(apps) \in Nat /\ DOMAIN apps = 1 .. Len(apps) /\ Len(apps) # 0
          BY <5>1, LenProperties, EmptySeq
        <5>3. Len(apps) \in {1, 2}
          BY <5>1, <5>2
        <5>4. \A a \in DOMAIN apps : apps[a] = IF a <= rr_index THEN 1 ELSE 0
          BY <1>2 DEF AppsOfRound
        <5> QED BY <5>1, <5>2, <5>3, <5>4
      <4>3. DOMAIN run = 1 .. n /\ \A a \in 1 .. n : run[a] = IF a <= rr_index + 1 THEN 1 ELSE 0
        BY <4>2
      <4> HIDE DEF run, n
      <4>4. CASE rr_index + 1 = n
        <5>1. apps' = [a \in 1 .. n |-> 0]
          BY <4>1, <4>2, <4>3, <4>4 DEF relative
        <5>2. rr_index' = 0
          BY <4>1, <4>2, <4>4
        <5>3. apps' \in Seq(Nat) /\ Len(apps') = n /\ DOMAIN apps' = 1 .. n
          BY <4>2, <5>1
        <5> QED BY <4>1, <4>2, <5>1, <5>2, <5>3, BoundAssumption DEF AppsOfRound
      <4>5. CASE rr_index + 1 < n
        <5>1. n = 2 /\ rr_index = 0
          BY <4>2, <4>5
        <5>2. run[2] = 0 /\ 2 \in DOMAIN run
          BY <4>3, <5>1
        <5>3. apps' = run /\ rr_index' = 1
          BY <4>1, <5>1, <5>2 DEF relative
        <5>4. run \in Seq(Nat) /\ Len(run) = n
          <6>1. apps \in Seq(Nat) /\ rr_index + 1 \in 1 .. Len(apps) /\ apps[rr_index + 1] + 1 \in Nat
            BY <4>2, <5>1 DEF n
          <6> QED BY <6>1, ExceptSeq DEF run, n
        <5> QED BY <4>1, <4>2, <4>3, <5>1, <5>3, <5>4, BoundAssumption DEF AppsOfRound
      <4> QED BY <4>2, <4>4, <4>5
    <3> QED BY <3>1, <3>2
  <2> QED BY <1>1, <1>2, <1>5, <2>1, InsideEntry DEF Kelfd, EntryLabels, Services, LoopTypeOK
<1>6. CASE Usrd
  <2>1. pending' \in 0 .. PENDING_MAX /\ program' \in {"none", "exec_tick", "shell", "command"} /\ pc' \in EntryLabels
    BY <1>2, <1>6, BoundAssumption DEF Usrd, LoopTypeOK, EntryLabels
  <2> QED BY <1>1, <1>2, <1>6, <2>1, InsideEntry DEF Usrd, Services, LoopTypeOK, AppsOfRound
<1>7. CASE UserlandTick
  <2>1. /\ shell' \in [ready : BOOLEAN, enabled : BOOLEAN, requested : BOOLEAN, first : BOOLEAN]
        /\ program' \in {"none", "exec_tick", "shell", "command"} /\ since_try' \in 0 .. RETRY
        /\ tried' \in BOOLEAN /\ pc' \in EntryLabels
    <3>1. /\ shell \in [ready : BOOLEAN, enabled : BOOLEAN, requested : BOOLEAN, first : BOOLEAN]
          /\ program \in {"none", "exec_tick", "shell", "command"} /\ since_try \in 0 .. RETRY
          /\ tried \in BOOLEAN /\ 0 \in 0 .. RETRY
      BY <1>2, BoundAssumption DEF LoopTypeOK
    <3>2. \/ pc' = "late" /\ UNCHANGED <<shell, program, since_try, tried>>
          \/ /\ shell' = [shell EXCEPT !.first = FALSE] /\ since_try' = 0 /\ tried' = TRUE
             /\ pc' \in {"program", "late"} /\ program' \in {"shell", program}
      BY <1>7 DEF UserlandTick, userland_tick, request_shell_exec
    <3> QED BY <3>1, <3>2 DEF EntryLabels
  <2> QED BY <1>1, <1>2, <1>7, <2>1, InsideEntry DEF UserlandTick, LoopTypeOK, AppsOfRound
<1>8. CASE LateTicks
  <2>1. program' \in {"none", "exec_tick", "shell", "command"} /\ pc' \in EntryLabels
    BY <1>2, <1>8 DEF LateTicks, LoopTypeOK, EntryLabels
  <2> QED BY <1>1, <1>2, <1>8, <2>1, InsideEntry DEF LateTicks, seen, LoopTypeOK, AppsOfRound
<1>9. CASE ProgramEnds
  <2>1. pc' \in EntryLabels
    BY <1>9 DEF ProgramEnds, EntryLabels
  <2>2. shell' \in [ready : BOOLEAN, enabled : BOOLEAN, requested : BOOLEAN, first : BOOLEAN]
    BY <1>2, <1>9 DEF ProgramEnds, LoopTypeOK
  <2> QED BY <1>1, <1>2, <1>9, <2>1, <2>2, InsideEntry DEF ProgramEnds, seen, LoopTypeOK, AppsOfRound
<1> QED BY <1>3, <1>4, <1>5, <1>6, <1>7, <1>8, <1>9

\* Reading the counter, taking a task up, entering it, returning, halting and waking.
LoopStep == ReadTick \/ Dispatch \/ Enter \/ Return \/ Halt \/ OtherInterrupt

LEMMA LoopStepTypes ==
    ASSUME LoopInv, LoopStep
    PROVE  /\ since_try' \in 0 .. RETRY /\ since_kelf' \in 0 .. KELF_INTERVAL /\ lag' \in 0 .. LAG_MAX
           /\ ran' \in BOOLEAN /\ dispatch_active' \in BOOLEAN /\ (ran => ran')
           /\ ticked' \in BOOLEAN /\ tried' \in BOOLEAN /\ beat' \subseteq Services
<1>1. /\ since_try \in 0 .. RETRY /\ since_kelf \in 0 .. KELF_INTERVAL /\ lag \in 0 .. LAG_MAX
      /\ RETRY \in Nat /\ KELF_INTERVAL \in Nat /\ LAG_MAX \in Nat
  BY BoundAssumption DEF LoopInv, LoopTypeOK, LAG_MAX
<1>2. /\ ran \in BOOLEAN /\ dispatch_active \in BOOLEAN /\ ticked \in BOOLEAN /\ tried \in BOOLEAN
      /\ beat \subseteq Services
  BY DEF LoopInv, LoopTypeOK
<1>3. since_try' \in 0 .. RETRY /\ since_kelf' \in 0 .. KELF_INTERVAL /\ lag' \in 0 .. LAG_MAX
  <2>1. CASE ReadTick
    BY <1>1, <2>1 DEF ReadTick, capped
  <2>2. CASE ~ReadTick
    BY <1>1, <2>2 DEF LoopStep, Dispatch, Enter, Return, Halt, OtherInterrupt, time
  <2> QED BY <2>1, <2>2
<1>4. ran' \in BOOLEAN /\ (ran => ran')
  <2>1. CASE Enter
    <3>1. ran' = (ran \/ entered = current)
      BY <2>1 DEF Enter
    <3> QED BY <3>1, Zenon
  <2>2. CASE ~Enter
    BY <1>2, <2>2 DEF LoopStep, ReadTick, Dispatch, MarkRunning, Enter, Return, Halt, OtherInterrupt
  <2> QED BY <2>1, <2>2
<1>5. dispatch_active' \in BOOLEAN
  BY <1>2 DEF LoopStep, ReadTick, Dispatch, Enter, Return, Halt, OtherInterrupt
<1>6. ticked' \in BOOLEAN /\ tried' \in BOOLEAN /\ beat' \subseteq Services
  BY <1>2 DEF LoopStep, ReadTick, Dispatch, Enter, Return, Halt, OtherInterrupt, time, seen
<1> QED BY <1>3, <1>4, <1>5, <1>6

LEMMA LoopStepInv == LoopInv /\ LoopStep => LoopInv'
<1> SUFFICES ASSUME LoopInv, LoopStep PROVE LoopInv'
  OBVIOUS
<1>1. /\ stage = "loop" /\ UNCHANGED <<machine, config, stage, boot, phase, pending, program>>
      /\ pc' \in Labels
  BY DEF LoopStep, ReadTick, Dispatch, Enter, Return, Halt, OtherInterrupt, at, Labels, EntryLabels
<1>2. UNCHANGED <<machine, config, stage, tasks, current, apps, rr_index, shell>>
  BY <1>1 DEF boot
<1>3. LoopTypeOK /\ EntryInTurn /\ InTurn /\ current \in DOMAIN tasks /\ DOMAIN tasks = 1 .. Len(tasks) /\ current # 0
  BY <1>1, LenProperties DEF LoopInv, LoopTypeOK
<1>4. entered' \in {entered, current, 0} /\ entered' \in 0 .. Len(tasks)
  <2>1. entered' \in {entered, current, 0}
    BY DEF LoopStep, ReadTick, Dispatch, Enter, Return, Halt, OtherInterrupt
  <2> QED BY <1>3, <2>1 DEF LoopTypeOK
<1>5. /\ dispatch_active' <=> pc' \in EntryLabels
      /\ entered' # 0 <=> pc' \in EntryLabels \cup {"mark", "enter"}
  BY <1>3 DEF LoopStep, ReadTick, Dispatch, Enter, Return, Halt, OtherInterrupt, at, EntryInTurn, EntryLabels
<1>6. EntryInTurn'
  <2>1. entered' # 0 => current \in {entered', next_ready_task(entered')}
    BY <1>3, <1>4 DEF EntryInTurn
  <2> QED BY <1>2, <1>5, <2>1 DEF EntryInTurn, next_ready_task
<1>7. LoopTypeOK'
  <2>1. LoopTypeOK
    BY <1>3
  <2> QED BY <1>1, <1>2, <1>4, <1>6, <2>1, SameTable, LoopStepTypes DEF LoopTypeOK
<1>8. InTurn'
  <2>1. /\ pc \in {"mark", "enter"} /\ entered # current => ticked
        /\ dispatch_active /\ entered = current => ran
    BY <1>3 DEF InTurn
  <2>2. pc' \in {"mark", "enter"} /\ entered' # current => ticked'
    BY <2>1 DEF LoopStep, ReadTick, Dispatch, Enter, Return, Halt, OtherInterrupt, at
  <2>3. dispatch_active' /\ entered' = current => ran'
    <3>1. CASE Enter
      <4>1. ran' = (ran \/ entered = current) /\ (entered' = 0 \/ entered' = entered)
        BY <3>1 DEF Enter
      <4>2. entered = current => ran'
        BY <4>1, Zenon
      <4> QED BY <1>3, <4>1, <4>2
    <3>2. CASE ~Enter
      <4>1. ran' = ran /\ (dispatch_active' = FALSE \/ UNCHANGED <<dispatch_active, entered>> \/ ~dispatch_active')
        BY <1>3, <3>2 DEF LoopStep, ReadTick, Dispatch, MarkRunning, Enter, Return, Halt, OtherInterrupt, at, EntryInTurn, EntryLabels
      <4> QED BY <2>1, <4>1
    <3> QED BY <3>1, <3>2
  <2> QED BY <1>2, <2>2, <2>3 DEF InTurn
<1>9. TurnAhead'
  <2> SUFFICES ASSUME ~ran', tasks[current].name # "idle" PROVE Unused'
    BY <1>1, <1>2 DEF TurnAhead
  <2>1. ~ran
    BY LoopStepTypes
  <2>2. Unused
    BY <1>1, <2>1 DEF LoopInv, TurnAhead
  <2>3. TaskOK(current)
    BY <1>3 DEF LoopTypeOK
  <2>4. tasks[current].remaining \in Int
    BY <2>3, SliceAssumption DEF TaskOK, slice_of
  <2> DEFINE k == tasks[current].remaining
  <2>5. k' = k
    BY <1>2
  <2>6. CASE ReadTick
    BY <1>2, <1>3, <2>2, <2>6 DEF ReadTick, at, Unused, EntryInTurn, EntryLabels
  <2>7. CASE Dispatch
    BY <1>2, <1>3, <2>2, <2>7 DEF Dispatch, at, Unused, EntryInTurn, EntryLabels, time
  <2>8. CASE Enter
    <3>1. entered # current /\ entered # 0
      BY <1>3, <2>8 DEF Enter, at, EntryInTurn
    <3>2. k >= 3
      BY <2>2, <3>1 DEF Unused
    <3> QED BY <1>2, <2>4, <2>8, <3>2 DEF Enter, Unused
  <2>9. CASE Return
    <3>1. entered # current /\ entered # 0
      BY <1>3, <2>1, <2>9 DEF Return, at, EntryInTurn, EntryLabels, InTurn
    <3>2. k >= 3
      BY <2>2, <3>1 DEF Unused
    <3> QED BY <1>2, <2>4, <2>9, <3>2 DEF Return, Unused
  <2>10. CASE Halt
    BY <1>2, <1>3, <2>2, <2>4, <2>10 DEF Halt, at, Unused, EntryInTurn, EntryLabels, time
  <2>11. CASE OtherInterrupt
    BY <1>2, <1>3, <2>2, <2>4, <2>11 DEF OtherInterrupt, at, Unused, EntryInTurn, EntryLabels
  <2> QED BY <2>6, <2>7, <2>8, <2>9, <2>10, <2>11 DEF LoopStep
<1>10. AppsOfRound'
  BY <1>2 DEF LoopInv, AppsOfRound
<1> QED BY <1>1, <1>2, <1>7, <1>8, <1>9, <1>10, SameTable DEF LoopInv

\* The table after a tick, or after the task taken up was marked.
TurnsKept ==
    /\ \A i \in DOMAIN tasks' : TaskOK(i)'
    /\ tasks' \in Seq(TaskRec) /\ Len(tasks') = Len(tasks)
    /\ \A i \in DOMAIN tasks : tasks'[i].name = tasks[i].name
    /\ current' \in DOMAIN tasks'
    /\ TurnsOfRound'

LEMMA MarkedTable ==
    ASSUME LoopInv, MarkRunning
    PROVE  TurnsKept /\ \A i \in DOMAIN tasks : tasks'[i].remaining = tasks[i].remaining
<1>1. /\ \A i \in DOMAIN tasks : TaskOK(i)
      /\ stage = "loop" /\ pc = "mark" /\ current' = current
      /\ current \in DOMAIN tasks /\ tasks \in Seq(TaskRec) /\ Len(tasks) \in Nat /\ DOMAIN tasks = 1 .. Len(tasks)
      /\ entered \in 1 .. Len(tasks)
      /\ \A i \in DOMAIN tasks : tasks[i] \in TaskRec
  BY LenProperties, ElementOfSeq DEF MarkRunning, at, LoopInv, LoopTypeOK, EntryInTurn
<1> DEFINE r == [tasks[entered] EXCEPT !.state = "RUNNING"]
<1>2. r \in TaskRec /\ r.name = tasks[entered].name /\ r.state = "RUNNING" /\ r.switches = tasks[entered].switches
      /\ r.remaining = tasks[entered].remaining
  BY <1>1 DEF TaskRec
<1>3. tasks' = [tasks EXCEPT ![entered] = r]
  BY DEF MarkRunning
<1> HIDE DEF r
<1>4. /\ tasks' \in Seq(TaskRec) /\ Len(tasks') = Len(tasks) /\ DOMAIN tasks' = DOMAIN tasks
      /\ \A i \in DOMAIN tasks : tasks'[i] = IF i = entered THEN r ELSE tasks[i]
  BY <1>1, <1>2, <1>3, ExceptSeq
<1>5. \A i \in DOMAIN tasks : /\ tasks'[i].name = tasks[i].name /\ tasks'[i].remaining = tasks[i].remaining
                              /\ tasks'[i].switches = tasks[i].switches
                              /\ tasks'[i].state \in {"RUNNING", tasks[i].state}
  BY <1>2, <1>4
<1>6. \A i \in DOMAIN tasks' : TaskOK(i)'
  <2> SUFFICES ASSUME NEW i \in DOMAIN tasks PROVE TaskOK(i)'
    BY <1>4
  <2> QED BY <1>1, <1>5 DEF TaskOK, slice_of
<1>7. TurnsOfRound'
  BY <1>1, <1>4, <1>5 DEF LoopInv, TurnsOfRound
<1> QED BY <1>1, <1>4, <1>5, <1>6, <1>7 DEF TurnsKept

\* Marking a task does not touch the turns.
LEMMA MarkInv == LoopInv /\ MarkRunning => LoopInv'
<1> SUFFICES ASSUME LoopInv, MarkRunning PROVE LoopInv'
  OBVIOUS
<1>1. /\ stage = "loop" /\ pc = "mark" /\ pc' = "enter"
      /\ UNCHANGED <<machine, config, stage, drivers, apps, rr_index, service, shell, current, dispatch_active, entered,
                     phase, pending, program, since_try, since_kelf, lag, ticked, ran, beat, tried>>
  BY DEF MarkRunning, at, time, seen
<1>2. LoopTypeOK /\ EntryInTurn /\ InTurn /\ TurnAhead /\ AppsOfRound /\ current \in DOMAIN tasks
  BY <1>1 DEF LoopInv, LoopTypeOK
<1>3. TurnsKept /\ tasks'[current].remaining = tasks[current].remaining /\ tasks'[current].name = tasks[current].name
  BY <1>2, MarkedTable DEF TurnsKept
<1>4. EntryInTurn'
  BY <1>1, <1>2, <1>3 DEF EntryInTurn, EntryLabels, next_ready_task, TurnsKept
<1>5. LoopTypeOK'
  <2>1. pc' \in Labels /\ entered' \in 0 .. Len(tasks') /\ current' \in DOMAIN tasks' /\ \A i \in DOMAIN tasks' : TaskOK(i)'
    BY <1>1, <1>2, <1>3 DEF Labels, LoopTypeOK, TurnsKept
  <2> QED BY <1>1, <1>2, <1>4, <2>1 DEF LoopTypeOK
<1>6. InTurn' /\ AppsOfRound'
  BY <1>1, <1>2 DEF InTurn, AppsOfRound
<1>7. TurnAhead'
  BY <1>1, <1>2, <1>3 DEF TurnAhead, Unused
<1> QED BY <1>1, <1>3, <1>5, <1>6, <1>7 DEF LoopInv, TurnsKept

\* What a tick does to the turn: nothing while an entry runs, a tick less to go, or the
\* turn passes to the next task with its full slice.
TickKept == dispatch_active /\ UNCHANGED turn
TickCounted ==
    /\ ~dispatch_active /\ tasks[current].remaining > 1
    /\ tasks' = [tasks EXCEPT ![current].remaining = @ - 1]
    /\ UNCHANGED <<current, ran>>
TickPassed ==
    /\ ~dispatch_active /\ tasks[current].remaining <= 1
    /\ rotate(next_ready_task(current))

LEMMA TickCases == TimerTick => TickKept \/ TickCounted \/ TickPassed
  BY DEF TimerTick, on_timer_tick, TickKept, TickCounted, TickPassed

LEMMA CountedTable == LoopInv /\ stage \in {"open", "loop"} /\ TickCounted => TurnsKept
<1> SUFFICES ASSUME LoopInv, stage \in {"open", "loop"}, TickCounted PROVE TurnsKept
  OBVIOUS
<1>1. /\ \A i \in DOMAIN tasks : TaskOK(i)
      /\ current \in DOMAIN tasks /\ tasks \in Seq(TaskRec) /\ Len(tasks) \in Nat /\ DOMAIN tasks = 1 .. Len(tasks)
      /\ \A i \in DOMAIN tasks : tasks[i] \in TaskRec
  BY LenProperties, ElementOfSeq DEF LoopInv, LoopTypeOK
<1>2. \A i \in DOMAIN tasks : tasks[i].name \in TaskNames /\ Slice[tasks[i].name] \in Nat /\ tasks[i].remaining \in 1 .. Slice[tasks[i].name]
  BY <1>1, SliceAssumption DEF TaskOK, slice_of
<1> DEFINE r == [tasks[current] EXCEPT !.remaining = @ - 1]
<1>3. r \in TaskRec /\ r.name = tasks[current].name /\ r.state = tasks[current].state /\ r.switches = tasks[current].switches
      /\ r.remaining = tasks[current].remaining - 1
  <2>1. tasks[current] \in TaskRec /\ tasks[current].remaining - 1 \in Nat
    BY <1>1 DEF TickCounted, TaskRec
  <2> QED BY <2>1 DEF TaskRec
<1>4. tasks' = [tasks EXCEPT ![current] = r] /\ current' = current
  BY DEF TickCounted
<1> HIDE DEF r
<1>5. /\ tasks' \in Seq(TaskRec) /\ Len(tasks') = Len(tasks) /\ DOMAIN tasks' = DOMAIN tasks
      /\ \A i \in DOMAIN tasks : tasks'[i] = IF i = current THEN r ELSE tasks[i]
  BY <1>1, <1>3, <1>4, ExceptSeq
<1>6. \A i \in DOMAIN tasks' : TaskOK(i)'
  <2> SUFFICES ASSUME NEW i \in DOMAIN tasks PROVE TaskOK(i)'
    BY <1>5
  <2>1. TaskOK(i) /\ tasks[current].remaining > 1
    BY <1>1 DEF TickCounted
  <2> QED BY <1>1, <1>2, <1>3, <1>4, <1>5, <2>1 DEF TaskOK, slice_of
<1>7. TurnsOfRound'
  BY <1>1, <1>3, <1>4, <1>5 DEF LoopInv, TurnsOfRound
<1>8. \A i \in DOMAIN tasks : tasks'[i].name = tasks[i].name
  BY <1>3, <1>5
<1> QED BY <1>1, <1>4, <1>5, <1>6, <1>7, <1>8 DEF TurnsKept

\* Passing the turn on gives the next task all of its slice, and starts the round again
\* with the first.
LEMMA PassedTable ==
    ASSUME LoopInv, stage \in {"open", "loop"}, TickPassed
    PROVE  TurnsKept /\ tasks'[current'].remaining = Slice[tasks'[current'].name]
           /\ (UNCHANGED <<current, ran>> \/ ~ran')
<1> DEFINE n == Len(tasks)
           next == next_ready_task(current)
<1>1. /\ \A i \in DOMAIN tasks : TaskOK(i) /\ tasks[i] \in TaskRec
      /\ n \in Nat /\ current \in 1 .. n /\ tasks \in Seq(TaskRec) /\ DOMAIN tasks = 1 .. n
      /\ \A i \in 1 .. n : tasks[i].switches = IF 1 < i /\ i <= current THEN 1 ELSE 0
  BY LenProperties, ElementOfSeq DEF LoopInv, LoopTypeOK, TurnsOfRound
<1>2. \A i \in 1 .. n : /\ tasks[i] \in TaskRec /\ tasks[i].name \in TaskNames
                        /\ Slice[tasks[i].name] \in Nat \ {0} /\ tasks[i].remaining \in 1 .. Slice[tasks[i].name]
                        /\ tasks[i].state \in {"READY", "RUNNING"} /\ (i = current => tasks[i].state = "RUNNING")
  BY <1>1, SliceAssumption DEF TaskOK, slice_of
<1>3. next = (IF current < n THEN current + 1 ELSE 1) /\ next \in 1 .. n
  <2>1. n \in Nat /\ current \in 1 .. n /\ next = (current % n) + 1
    BY <1>1 DEF next_ready_task
  <2> HIDE DEF n, next
  <2>2. (current % n) + 1 = IF current < n THEN current + 1 ELSE 1
    BY <2>1, NextTask
  <2> QED BY <2>1, <2>2
<1>4. rotate(next)
  BY DEF TickPassed
<1> HIDE DEF n, next
<1>5. CASE next = current
  <2> DEFINE r == [tasks[current] EXCEPT !.remaining = Slice[tasks[current].name]]
  <2>1. tasks' = [tasks EXCEPT ![current] = r] /\ current' = current /\ ran' = ran
    BY <1>4, <1>5 DEF rotate, slice_of
  <2>2. r \in TaskRec /\ r.name = tasks[current].name /\ r.state = tasks[current].state /\ r.switches = tasks[current].switches
        /\ r.remaining = Slice[tasks[current].name]
    BY <1>1, <1>2 DEF TaskRec
  <2> HIDE DEF r
  <2>3. /\ tasks' \in Seq(TaskRec) /\ Len(tasks') = n /\ DOMAIN tasks' = 1 .. n
        /\ \A i \in 1 .. n : tasks'[i] = IF i = current THEN r ELSE tasks[i]
    BY <1>1, <2>1, <2>2, ExceptSeq DEF n
  <2>4. \A i \in DOMAIN tasks' : TaskOK(i)'
    <3> SUFFICES ASSUME NEW i \in 1 .. n PROVE TaskOK(i)'
      BY <2>3
    <3> QED BY <1>1, <1>2, <2>1, <2>2, <2>3 DEF TaskOK, slice_of
  <2>5. TurnsOfRound'
    BY <1>1, <2>1, <2>2, <2>3 DEF TurnsOfRound
  <2>6. \A i \in 1 .. n : tasks'[i].name = tasks[i].name
    BY <2>2, <2>3
  <2> QED BY <1>1, <2>1, <2>2, <2>3, <2>4, <2>5, <2>6 DEF TurnsKept, n
<1>6. CASE next # current
  <2> DEFINE r == [tasks[current] EXCEPT !.remaining = Slice[tasks[current].name], !.state = "READY"]
             p == [tasks[next] EXCEPT !.remaining = Slice[tasks[next].name], !.state = "RUNNING"]
             q == [p EXCEPT !.switches = tasks[next].switches + 1]
             big == [tasks EXCEPT ![current].remaining = slice_of(current), ![current].state = "READY",
                                  ![next].remaining = slice_of(next), ![next].state = "RUNNING",
                                  ![next].switches = @ + 1]
             t == [i \in 1 .. n |-> IF i = current THEN r ELSE IF i = next THEN q ELSE tasks[i]]
             u == [i \in 1 .. n |-> [t[i] EXCEPT !.switches = @ - 1]]
  <2>1. tasks' = relative_switches(t) /\ current' = next /\ ran' = FALSE
    <3>1. tasks' = relative_switches(big) /\ current' = next /\ ran' = FALSE
      BY <1>4, <1>6 DEF rotate
    <3>2. big = t
      BY <1>1, <1>3, <1>6 DEF slice_of
    <3> QED BY <3>1, <3>2
  <2>2. /\ r \in TaskRec /\ r.name = tasks[current].name /\ r.state = "READY" /\ r.switches = tasks[current].switches
        /\ r.remaining = Slice[tasks[current].name]
    BY <1>1, <1>2 DEF TaskRec
  <2>3. /\ q \in TaskRec /\ q.name = tasks[next].name /\ q.state = "RUNNING" /\ q.switches = tasks[next].switches + 1
        /\ q.remaining = Slice[tasks[next].name]
    <3>1. tasks[next] \in TaskRec /\ Slice[tasks[next].name] \in Nat
      BY <1>1, <1>2, <1>3
    <3>2. tasks[next].switches + 1 \in Nat
      BY <3>1 DEF TaskRec
    <3> HIDE DEF next
    <3>3. p \in TaskRec /\ p.name = tasks[next].name /\ p.state = "RUNNING" /\ p.switches = tasks[next].switches
          /\ p.remaining = Slice[tasks[next].name]
      BY <3>1 DEF TaskRec
    <3> HIDE DEF p
    <3> QED BY <3>2, <3>3 DEF TaskRec
  <2> HIDE DEF r, p, q
  <2>4. \A i \in 1 .. n : /\ t[i] \in TaskRec /\ t[i].name = tasks[i].name
                          /\ t[i].state \in {"READY", "RUNNING"} /\ (i = next => t[i].state = "RUNNING")
                          /\ t[i].remaining \in 1 .. Slice[tasks[i].name]
                          /\ t[i].switches = IF (1 < i /\ i <= current) \/ i = next THEN 1 ELSE 0
    <3> SUFFICES ASSUME NEW i \in 1 .. n
                 PROVE  /\ t[i] \in TaskRec /\ t[i].name = tasks[i].name
                        /\ t[i].state \in {"READY", "RUNNING"} /\ (i = next => t[i].state = "RUNNING")
                        /\ t[i].remaining \in 1 .. Slice[tasks[i].name]
                        /\ t[i].switches = IF (1 < i /\ i <= current) \/ i = next THEN 1 ELSE 0
      OBVIOUS
    <3>1. CASE i = current
      BY <1>1, <1>2, <1>6, <2>2, <3>1
    <3>2. CASE i = next
      BY <1>1, <1>2, <1>3, <1>6, <2>3, <3>2
    <3>3. CASE i # current /\ i # next
      BY <1>1, <1>2, <3>3
    <3> QED BY <3>1, <3>2, <3>3
  <2>5. t[next].remaining = Slice[tasks[next].name] /\ DOMAIN t = 1 .. n
    BY <1>3, <1>6, <2>3
  <2> HIDE DEF t
  <2>6. \A i \in 1 .. n : /\ tasks'[i] \in TaskRec /\ tasks'[i].name = tasks[i].name
                          /\ tasks'[i].state = t[i].state /\ tasks'[i].remaining = t[i].remaining
                          /\ tasks'[i].switches = IF 1 < i /\ i <= next THEN 1 ELSE 0
    <3>1. CASE next = 1
      <4>1. current = n /\ n >= 2
        BY <1>1, <1>3, <1>6, <3>1
      <4>2. \A i \in DOMAIN t : t[i].switches = 1
        BY <2>4, <2>5, <3>1, <4>1
      <4>3. tasks' = u
        BY <2>1, <2>5, <4>2 DEF relative_switches
      <4>4. \A i \in 1 .. n : /\ u[i] \in TaskRec /\ u[i].name = t[i].name /\ u[i].state = t[i].state
                              /\ u[i].remaining = t[i].remaining /\ u[i].switches = 0
        BY <2>4, <2>5, <4>2 DEF TaskRec
      <4> HIDE DEF u
      <4> QED BY <2>4, <3>1, <4>3, <4>4
    <3>2. CASE next # 1
      <4>1. next = current + 1 /\ 1 \in DOMAIN t
        BY <1>1, <1>3, <2>5, <3>2
      <4>2. t[1].switches = 0
        BY <1>1, <2>4, <3>2, <4>1
      <4>3. tasks' = t
        BY <2>1, <4>1, <4>2 DEF relative_switches
      <4> QED BY <1>1, <2>4, <4>1, <4>3
    <3> QED BY <3>1, <3>2
  <2>7. DOMAIN tasks' = 1 .. n
    BY <2>1, <2>5 DEF relative_switches
  <2>8. tasks' \in Seq(TaskRec) /\ Len(tasks') = n
    <3>1. tasks' = [i \in 1 .. n |-> tasks'[i]]
      BY <2>1, <2>5, <2>7 DEF relative_switches, t
    <3> QED BY <1>1, <2>6, <3>1
  <2>9. \A i \in DOMAIN tasks' : TaskOK(i)'
    <3> SUFFICES ASSUME NEW i \in 1 .. n PROVE TaskOK(i)'
      BY <2>7
    <3>1. tasks'[i].switches \in Nat
      BY <2>6
    <3> QED BY <1>2, <2>1, <2>4, <2>6, <3>1 DEF TaskOK, slice_of
  <2>10. TurnsOfRound'
    BY <2>1, <2>6, <2>7 DEF TurnsOfRound
  <2>11. tasks'[current'].remaining = Slice[tasks'[current'].name]
    BY <1>3, <2>1, <2>5, <2>6
  <2> QED BY <1>1, <1>3, <2>1, <2>6, <2>7, <2>8, <2>9, <2>10, <2>11 DEF TurnsKept, n
<1> QED BY <1>5, <1>6

\* While an entry runs the table is as it was.
LEMMA KeptTable == LoopInv /\ stage \in {"open", "loop"} /\ TickKept => TurnsKept
<1> SUFFICES ASSUME LoopInv, stage \in {"open", "loop"}, TickKept PROVE TurnsKept
  OBVIOUS
<1>1. UNCHANGED <<tasks, current>>
  BY DEF TickKept, turn
<1> QED BY <1>1 DEF LoopInv, LoopTypeOK, TaskOK, slice_of, TurnsOfRound, TurnsKept

\* A tick, wherever it falls, passes the turn on only when that is due.
LEMMA TimerInv == LoopInv /\ TimerTick => LoopInv'
<1> SUFFICES ASSUME LoopInv, TimerTick PROVE LoopInv'
  OBVIOUS
<1>1. /\ stage \in {"open", "loop"} /\ stage' = stage
      /\ UNCHANGED <<machine, config, apps, rr_index, shell, dispatch_active, entered, phase, pending, program,
                     since_try, since_kelf, seen>>
      /\ lag' = capped(lag + 1, LAG_MAX) /\ pc' = IF pc = "hlt" THEN "read" ELSE pc
      /\ stage = "open" \/ dispatch_active \/ pc = "hlt" \/ ~ticked
  BY DEF TimerTick
<1>2. LoopTypeOK /\ EntryInTurn /\ InTurn /\ (stage = "open" => pc = "read")
  BY DEF LoopInv, LoopTypeOK
<1>3. ticked' = ~dispatch_active /\ dispatch_active \in BOOLEAN
  BY <1>2 DEF TimerTick, LoopTypeOK
<1>4. TickKept \/ TickCounted \/ TickPassed
  BY TickCases
<1>5. TurnsKept
  BY <1>1, <1>4, KeptTable, CountedTable, PassedTable
<1>6. current \in DOMAIN tasks /\ DOMAIN tasks = 1 .. Len(tasks) /\ Len(tasks') = Len(tasks)
  BY <1>1, <1>2, <1>5, LenProperties DEF LoopInv, LoopTypeOK, TurnsKept
\* Outside an entry, the task taken up is the current one until a tick comes.
<1>7. ~dispatch_active => entered \in {0, current}
  <2> SUFFICES ASSUME ~dispatch_active, entered # 0 PROVE entered = current
    OBVIOUS
  <2>1. pc \in {"mark", "enter"}
    BY <1>2 DEF EntryInTurn
  <2>2. ~ticked
    BY <1>1, <1>2, <2>1
  <2> QED BY <1>2, <2>1, <2>2 DEF InTurn
<1>8. current' = current \/ (~dispatch_active /\ current' = next_ready_task(current))
  BY <1>4 DEF TickKept, TickCounted, TickPassed, rotate, turn
<1>9. EntryInTurn'
  <2>1. pc \in EntryLabels <=> pc' \in EntryLabels
    BY <1>1 DEF EntryLabels
  <2>2. pc \in EntryLabels \cup {"mark", "enter"} <=> pc' \in EntryLabels \cup {"mark", "enter"}
    BY <1>1 DEF EntryLabels
  <2>3. entered # 0 => current' \in {entered, next_ready_task(entered)}
    BY <1>2, <1>7, <1>8 DEF EntryInTurn
  <2>4. next_ready_task(entered)' = next_ready_task(entered)
    BY <1>1, <1>6 DEF next_ready_task
  <2> QED BY <1>1, <1>2, <2>1, <2>2, <2>3, <2>4 DEF EntryInTurn
<1>10. InTurn'
  <2>1. pc' \in {"mark", "enter"} => ticked'
    BY <1>1, <1>2, <1>3 DEF EntryInTurn, EntryLabels
  <2>2. dispatch_active => current' = current /\ ran' = ran
    BY <1>4 DEF TickKept, TickCounted, TickPassed, turn
  <2> QED BY <1>1, <1>2, <2>1, <2>2 DEF InTurn
<1>11. ran' \in BOOLEAN
  <2>1. ran \in BOOLEAN
    BY <1>2 DEF LoopTypeOK
  <2> QED BY <1>4, <2>1 DEF TickKept, TickCounted, TickPassed, rotate, turn
<1>12. ticked' \in BOOLEAN
  BY <1>3, Zenon
<1>13. lag' \in 0 .. LAG_MAX
  BY <1>1, <1>2, BoundAssumption DEF LoopTypeOK, capped, LAG_MAX
<1>14. pc' \in Labels
  BY <1>1, <1>2 DEF LoopTypeOK, Labels
<1>15. /\ \A i \in DOMAIN tasks' : TaskOK(i)'
       /\ current' \in DOMAIN tasks'
       /\ entered' \in 0 .. Len(tasks')
  BY <1>1, <1>2, <1>5 DEF LoopTypeOK, TurnsKept
<1>16. LoopTypeOK'
  <2>1. /\ machine' \in Machines /\ config' \in Configs /\ stage' \in Stages
        /\ apps' \in Seq(Nat) /\ Len(apps') <= 2
        /\ IF apps' = <<>> THEN rr_index' = 0 ELSE rr_index' \in 0 .. Len(apps') - 1
    BY <1>1, <1>2 DEF LoopTypeOK
  <2>2. /\ shell' \in [ready : BOOLEAN, enabled : BOOLEAN, requested : BOOLEAN, first : BOOLEAN]
        /\ phase' \in 0 .. 3 /\ pending' \in 0 .. PENDING_MAX
        /\ program' \in {"none", "exec_tick", "shell", "command"}
        /\ since_try' \in 0 .. RETRY /\ since_kelf' \in 0 .. KELF_INTERVAL
        /\ dispatch_active' \in BOOLEAN /\ tried' \in BOOLEAN /\ beat' \subseteq Services
    BY <1>1, <1>2 DEF LoopTypeOK, seen
  <2> QED BY <2>1, <2>2, <1>9, <1>11, <1>12, <1>13, <1>14, <1>15 DEF LoopTypeOK
<1>17. TurnAhead'
  <2> SUFFICES ASSUME stage = "loop", ~ran', tasks'[current'].name # "idle" PROVE Unused'
    BY <1>1 DEF TurnAhead
  <2>1. CASE TickKept
    <3>1. tasks' = tasks /\ current' = current /\ ran' = ran /\ dispatch_active
      BY <2>1 DEF TickKept, turn
    <3>2. pc' = pc /\ pc \in EntryLabels
      BY <1>1, <1>2, <3>1 DEF EntryInTurn, EntryLabels
    <3>3. Unused
      BY <1>1, <3>1 DEF LoopInv, TurnAhead
    <3> QED BY <1>1, <3>1, <3>2, <3>3 DEF Unused, EntryLabels
  <2>2. CASE TickCounted
    <3>1. current' = current /\ ran' = ran /\ ~dispatch_active /\ entered \in {0, current} /\ entered' = entered
      BY <1>1, <1>7, <2>2 DEF TickCounted
    <3>2. tasks'[current].name = tasks[current].name /\ tasks'[current].remaining = tasks[current].remaining - 1
          /\ tasks[current].remaining > 1 /\ tasks[current].remaining \in Int
      <4>1. tasks \in Seq(TaskRec) /\ tasks[current] \in TaskRec
        BY <1>6, ElementOfSeq DEF LoopInv
      <4> QED BY <1>6, <2>2, <4>1 DEF TickCounted, TaskRec
    <3>3. Unused
      BY <3>1, <3>2 DEF LoopInv, TurnAhead
    <3>4. pc' # "hlt" /\ ticked' /\ (pc' = "prehlt" => pc = "prehlt" /\ ~ticked)
      BY <1>1, <1>3, <3>1
    <3> QED BY <3>1, <3>2, <3>3, <3>4 DEF Unused
  <2>3. CASE TickPassed
    <3>1. tasks'[current'].remaining = Slice[tasks'[current'].name] /\ current' \in DOMAIN tasks' /\ ~dispatch_active
      BY <1>1, <1>5, <2>3, PassedTable DEF TurnsKept, TickPassed
    <3>2. tasks'[current'].name \in TaskNames
      BY <1>15, <3>1 DEF TaskOK
    <3>3. Slice[tasks'[current'].name] >= 3 /\ Slice[tasks'[current'].name] \in Int
      BY <3>2, LongSlices, SliceAssumption
    <3> QED BY <1>3, <3>1, <3>3 DEF Unused
  <2> QED BY <1>4, <2>1, <2>2, <2>3
<1>18. AppsOfRound'
  BY <1>1 DEF LoopInv, AppsOfRound
<1>19. stage' # "loop" => pc' = "read"
  BY <1>1, <1>2
<1> QED BY <1>5, <1>10, <1>16, <1>17, <1>18, <1>19 DEF LoopInv, TurnsKept

LEMMA StepInv == LoopInv /\ [Next]_vars => LoopInv'
<1> SUFFICES ASSUME LoopInv, [Next]_vars PROVE LoopInv'
  OBVIOUS
<1>1. CASE Boot
  BY <1>1, BootTasksInv, OtherBootInv, EnterLoopInv
<1>2. CASE TimerTick
  BY <1>2, TimerInv
<1>3. CASE OtherInterrupt \/ CpuStep \/ ProgramEnds
  BY <1>3, LoopStepInv, MarkInv, EntryInv DEF CpuStep, LoopStep
<1>4. CASE UNCHANGED vars
  <2>1. /\ UNCHANGED <<machine, config, stage, boot, dispatch_active, pc, entered, phase, pending, program,
                       time, ran, seen>>
    BY <1>4 DEF vars
  <2>2. UNCHANGED <<tasks, current, apps, rr_index, shell>>
    BY <2>1 DEF boot
  <2>3. LoopTypeOK'
    <3>1. LoopTypeOK /\ EntryInTurn
      BY DEF LoopInv, LoopTypeOK
    <3>2. EntryInTurn'
      BY <2>1, <2>2, <3>1 DEF EntryInTurn, next_ready_task
    <3> QED BY <2>1, <2>2, <3>1, <3>2, SameTable DEF LoopTypeOK, time, seen
  <2>4. TurnAhead' /\ InTurn' /\ AppsOfRound'
    BY <2>1, <2>2 DEF LoopInv, TurnAhead, Unused, InTurn, AppsOfRound, time
  <2> QED BY <2>1, <2>2, <2>3, <2>4, SameTable DEF LoopInv
<1> QED BY <1>1, <1>2, <1>3, <1>4 DEF Next

-----------------------------------------------------------------------------
(* The theorems. *)

\* The inductive invariant of the boot and of the main loop.
THEOREM LoopInvariance == Spec => []LoopInv
<1> QED BY InitInv, StepInv, PTL DEF Spec

\* The main loop keeps its tables in order: the current task is RUNNING, every task has ticks
\* left, and the dispatch flag of clks_scheduler_dispatch_current is set exactly while the
\* entry of a task runs, which is the current one or, when a tick came between the look at
\* clks_current_task and the flag, the one before it, however many ticks come meanwhile.
THEOREM LoopTypeCorrectness == Spec => []LoopTypeOK
<1>1. LoopInv => LoopTypeOK
  BY DEF LoopInv
<1> QED BY <1>1, LoopInvariance, PTL

\* clks_sched_next_ready_task and the rotation of clks_kelf_tick share the turns out: no
\* task has been given two more than another, and no kernel ELF task either.
THEOREM TurnsInRounds == Spec => []RoundRobin
<1>1. LoopInv => RoundRobin
  <2> SUFFICES ASSUME LoopInv PROVE RoundRobin
    OBVIOUS
  <2>1. \A i \in DOMAIN tasks : tasks[i].switches \in {0, 1}
    BY DEF LoopInv, TurnsOfRound
  <2>2. \A a \in DOMAIN apps : apps[a] \in {0, 1}
    BY DEF LoopInv, AppsOfRound
  <2> QED BY <2>1, <2>2 DEF RoundRobin, TurnsBalanced, KelfBalanced
<1> QED BY <1>1, LoopInvariance, PTL

\* Whatever the slices, of at least three ticks, a task with an entry is entered before its
\* turn is over: a tick that wakes the CPU, or comes between the instructions of the loop or
\* of the dispatch, does not take the turn away unused.
THEOREM NoTurnIsLost == Spec => NoEmptyTurn
<1>1. LoopInv /\ [Next]_vars => [stage = "loop" /\ current' # current => ran \/ tasks[current].name = "idle"]_vars
  <2> SUFFICES ASSUME LoopInv, Next, stage = "loop", current' # current, ~ran, tasks[current].name # "idle"
               PROVE  FALSE
    BY DEF vars, boot
  <2>1. ~Boot
    BY DEF Boot, BootMemory, BootFiles, BootUserland, BootDrivers, BootKelf, BootTasks, BootServices, EnterLoop
  <2>2. ~(OtherInterrupt \/ CpuStep \/ ProgramEnds)
    BY DEF OtherInterrupt, CpuStep, ProgramEnds, ReadTick, Dispatch, MarkRunning, Enter, Return, Halt, Klogd, Kworker,
           Kelfd, Usrd, UserlandTick, LateTicks, in_entry_kept, boot
  <2>3. TimerTick
    BY <2>1, <2>2 DEF Next
  <2>4. TickPassed
    BY <2>3, TickCases DEF TickKept, TickCounted, turn
  <2>5. ~(tasks[current].remaining >= 2) /\ tasks[current].remaining \in Int
    <3>1. TaskOK(current)
      BY DEF LoopInv, LoopTypeOK
    <3>2. tasks[current].remaining \in Int
      BY <3>1, SliceAssumption DEF TaskOK, slice_of
    <3> QED BY <2>4, <3>2 DEF TickPassed
  <2>6. ~dispatch_active /\ (pc = "hlt" \/ ~ticked)
    BY <2>3, <2>4 DEF TimerTick, TickPassed
  <2>7. pc \in Labels \ EntryLabels
    BY <2>6 DEF LoopInv, LoopTypeOK, EntryInTurn
  <2>8. Unused
    BY DEF LoopInv, TurnAhead
  <2> QED BY <2>5, <2>6, <2>7, <2>8 DEF Unused, Labels
<1> QED BY <1>1, LoopInvariance, PTL DEF Spec, NoEmptyTurn

\* After a user shell that ended with status zero clks_userland_tick launches no other: the
\* flag clks_userland_request_shell_exec then sets (userland.c:81) is never reset.
THEOREM ShellEndsForGood == Spec => []NoSecondShell
<1>1. Init => NoSecondShell
  BY DEF Init, NoSecondShell
<1>2. LoopInv /\ NoSecondShell /\ [Next]_vars => NoSecondShell'
  <2> SUFFICES ASSUME LoopInv, NoSecondShell, [Next]_vars PROVE NoSecondShell'
    OBVIOUS
  <2>1. shell \in [ready : BOOLEAN, enabled : BOOLEAN, requested : BOOLEAN, first : BOOLEAN]
    BY DEF LoopInv, LoopTypeOK
  <2>2. CASE UserlandTick
    <3>1. \/ UNCHANGED <<shell, program>>
          \/ ~shell.requested /\ shell' = [shell EXCEPT !.first = FALSE]
      BY <2>2 DEF UserlandTick, userland_tick, user_shell_due
    <3> QED BY <2>1, <3>1 DEF NoSecondShell
  <2>3. CASE ProgramEnds
    BY <2>3 DEF ProgramEnds, NoSecondShell
  <2>4. CASE BootUserland
    BY <2>4 DEF BootUserland, NoSecondShell
  <2>5. CASE ~UserlandTick /\ ~ProgramEnds /\ ~BootUserland
    <3>1. UNCHANGED shell /\ (program' = program \/ program' \in {"exec_tick", "command"})
      BY <2>5 DEF Next, Boot, BootMemory, BootFiles, BootDrivers, BootKelf, BootTasks, BootServices, EnterLoop,
                  CpuStep, TimerTick, OtherInterrupt, ReadTick, Dispatch, MarkRunning, Enter, Return, Halt, Klogd, Kworker, Kelfd,
                  Usrd, LateTicks, boot, loop_part, vars
    <3> QED BY <3>1 DEF NoSecondShell
  <2> QED BY <2>2, <2>3, <2>4, <2>5
<1> QED BY <1>1, <1>2, LoopInvariance, PTL DEF Spec

-----------------------------------------------------------------------------
(* What the services report. *)

DriverStates == {"READY", "FAILED"}
DriverTables == {t \in Seq(DriverStates) : Len(t) \in 1 .. DRIVER_MAX}

\* clks_driver_push keeps the table within its array, and no entry is taken back.
LEMMA PushFits ==
    ASSUME NEW t \in Seq(DriverStates), Len(t) <= DRIVER_MAX, NEW good
    PROVE  driver_push(t, state_of(good)) \in DriverTables
<1>1. state_of(good) \in DriverStates
  BY DEF state_of, DriverStates
<1>2. Len(t) \in Nat /\ DRIVER_MAX \in Nat \ {0}
  BY BoundAssumption, LenProperties
<1>3. CASE Len(t) >= DRIVER_MAX
  BY <1>2, <1>3 DEF driver_push, DriverTables
<1>4. CASE ~(Len(t) >= DRIVER_MAX)
  <2>1. Append(t, state_of(good)) \in Seq(DriverStates) /\ Len(Append(t, state_of(good))) = Len(t) + 1
    BY <1>1, AppendProperties
  <2> QED BY <1>2, <1>4, <2>1 DEF driver_push, DriverTables
<1> QED BY <1>3, <1>4

LEMMA ProbeFits == ASSUME NEW t \in DriverTables, NEW child
                   PROVE  driver_probe_child(t, child) \in DriverTables
  BY PushFits DEF driver_probe_child, DriverTables

LEMMA BuiltinsFit == driver_register_builtins \in DriverTables
<1>1. <<>> \in Seq(DriverStates) /\ Len(<<>>) = 0 /\ 0 <= DRIVER_MAX
  BY EmptySeq, BoundAssumption
<1>2. driver_push(<<>>, state_of(TRUE)) \in DriverTables
  BY <1>1, PushFits
<1>3. \A t \in DriverTables : \A good : driver_push(t, state_of(good)) \in DriverTables
  BY PushFits DEF DriverTables
<1> QED BY <1>2, <1>3 DEF driver_register_builtins

\* However many drivers the disk image holds, the table holds at least one and what fits.
LEMMA TableFits == ASSUME NEW table \in DriverTables, NEW children \in Seq(Children)
                   PROVE  driver_probe_driver_dir(table, children) \in DriverTables
<1> DEFINE N == Len(children)
           step == [n \in 1 .. N |-> [t \in DriverTables |-> driver_probe_child(t, children[n])]]
           R(f) == [i \in 0 .. N |-> IF i = 0 THEN table ELSE driver_probe_child(f[i - 1], children[i])]
           probed == CHOOSE f : f = R(f)
<1>1. N \in Nat
  BY LenProperties
<1>2. step \in [1 .. N -> [DriverTables -> DriverTables]]
  BY ProbeFits
<1>3. PICK g \in [0 .. N -> DriverTables] : iterates(g, table, step, N)
  <2> HIDE DEF N, step
  <2> QED BY <1>1, <1>2, IteratesExist
<1>4. g = R(g)
  <2>1. ASSUME NEW i \in 0 .. N PROVE g[i] = R(g)[i]
    <3>1. CASE i = 0
      BY <1>3, <3>1 DEF iterates
    <3>2. CASE i # 0
      <4>1. i \in 1 .. N /\ i - 1 \in 0 .. N
        BY <1>1, <3>2
      <4>2. g[i] = step[i][g[i - 1]] /\ g[i - 1] \in DriverTables
        BY <1>3, <4>1 DEF iterates
      <4>3. step[i][g[i - 1]] = driver_probe_child(g[i - 1], children[i])
        BY <4>1, <4>2
      <4> HIDE DEF step
      <4> QED BY <3>2, <4>2, <4>3
    <3> QED BY <3>1, <3>2
  <2> HIDE DEF N
  <2> QED BY <1>3, <2>1
<1>5. probed = R(probed)
  <2> HIDE DEF R
  <2> QED BY <1>4
<1> HIDE DEF probed
<1>6. \A i \in 0 .. N : probed[i] = IF i = 0 THEN table ELSE driver_probe_child(probed[i - 1], children[i])
  BY <1>5
<1> DEFINE H == {i \in 0 .. N : probed[i] \in DriverTables}
<1>7. 0 .. N \subseteq H
  <2>1. 0 \in H
    BY <1>1, <1>6
  <2>2. ASSUME NEW n \in 1 .. N, n - 1 \in H PROVE n \in H
    <3>1. n \in 0 .. N /\ n # 0 /\ probed[n - 1] \in DriverTables
      BY <1>1, <2>2
    <3> QED BY <1>6, <3>1, ProbeFits
  <2> HIDE DEF H, N
  <2> QED BY <1>1, <2>1, <2>2, UpTo
<1>8. probed[N] \in DriverTables
  BY <1>1, <1>7
<1> QED BY <1>8 DEF driver_probe_driver_dir, probed

HasKelfd(s) == \E i \in 1 .. Len(s) : s[i].name = "kelfd"

LEMMA TaskAdded ==
    ASSUME NEW s, BootTable(s), NEW name \in TaskNames, NEW enabled
    PROVE  HasKelfd(s \o add_kernel_task_ex(name, enabled)) <=> HasKelfd(s) \/ (enabled /\ name = "kelfd")
<1> DEFINE t == add_kernel_task_ex(name, enabled)
<1>1. t \in Seq(TaskRec) /\ s \in Seq(TaskRec)
  BY AddTask DEF BootTable
<1>2. HasKelfd(t) <=> enabled /\ name = "kelfd"
  BY DEF HasKelfd, add_kernel_task_ex
<1> HIDE DEF t
<1>3. /\ Len(s \o t) = Len(s) + Len(t) /\ Len(s) \in Nat /\ Len(t) \in Nat
      /\ \A i \in 1 .. Len(s) + Len(t) : (s \o t)[i] = IF i <= Len(s) THEN s[i] ELSE t[i - Len(s)]
  BY <1>1, ConcatProperties, LenProperties
<1>4. ASSUME HasKelfd(s) PROVE HasKelfd(s \o t)
  <2>1. PICK i \in 1 .. Len(s) : s[i].name = "kelfd"
    BY <1>4 DEF HasKelfd
  <2>2. i \in 1 .. Len(s) + Len(t) /\ (s \o t)[i] = s[i]
    BY <1>3
  <2> QED BY <1>3, <2>1, <2>2 DEF HasKelfd
<1>5. ASSUME HasKelfd(t) PROVE HasKelfd(s \o t)
  <2>1. PICK i \in 1 .. Len(t) : t[i].name = "kelfd"
    BY <1>5 DEF HasKelfd
  <2>2. Len(s) + i \in 1 .. Len(s) + Len(t) /\ (s \o t)[Len(s) + i] = t[i]
    BY <1>3
  <2> QED BY <1>3, <2>1, <2>2 DEF HasKelfd
<1>6. ASSUME HasKelfd(s \o t) PROVE HasKelfd(s) \/ HasKelfd(t)
  <2>1. PICK i \in 1 .. Len(s) + Len(t) : (s \o t)[i].name = "kelfd"
    BY <1>3, <1>6 DEF HasKelfd
  <2>2. CASE i <= Len(s)
    BY <1>3, <2>1, <2>2 DEF HasKelfd
  <2>3. CASE ~(i <= Len(s))
    BY <1>3, <2>1, <2>3 DEF HasKelfd
  <2> QED BY <2>2, <2>3
<1>7. HasKelfd(s \o t) <=> HasKelfd(s) \/ (enabled /\ name = "kelfd")
  BY <1>2, <1>4, <1>5, <1>6
<1> QED BY <1>7 DEF t

\* What the boot has found out so far, stage by stage.
BootTrue ==
    /\ stage \notin {"memory", "halted"} => machine.memmap
    /\ stage \notin {"memory", "files", "halted"} => machine.fs
    /\ stage \in {"drivers", "kelf", "tasks", "services", "open", "loop"} => shell.ready
    /\ stage \in {"kelf", "tasks", "services", "open", "loop"} =>
          Len(drivers) <= DRIVER_MAX /\ (Len(drivers) > 0 <=> config.drivers)
    /\ stage \in {"tasks", "services", "open", "loop"} =>
          (Len(apps) > 0 <=> config.kelf /\ \E a \in Apps : machine.elf[a] = "good")
    /\ stage \in {"services", "open", "loop"} => (HasKelfd(tasks) <=> config.kelf)
    /\ ServicesTrue

LEMMA InitTrue == Init => BootTrue
  BY DEF Init, BootTrue, ServicesTrue

LEMMA BootDriversTrue == LoopInv /\ BootTrue /\ BootDrivers => BootTrue'
<1> SUFFICES ASSUME LoopInv, BootTrue, BootDrivers PROVE BootTrue'
  OBVIOUS
<1>1. stage = "drivers" /\ stage' = "kelf" /\ UNCHANGED <<machine, config, shell>>
  BY DEF BootDrivers, loop_part
<1>2. machine.driver \in Seq(Children)
  BY MachineAssumption DEF LoopInv, LoopTypeOK, MachineType
<1>3. Len(drivers') <= DRIVER_MAX /\ (Len(drivers') > 0 <=> config.drivers)
  <2>1. CASE config.drivers
    <3>1. drivers' \in DriverTables
      BY <1>2, <2>1, BuiltinsFit, TableFits DEF BootDrivers
    <3> QED BY <2>1, <3>1, BoundAssumption DEF DriverTables
  <2>2. CASE ~config.drivers
    BY <2>2, EmptySeq, BoundAssumption DEF BootDrivers
  <2> QED BY <2>1, <2>2
<1> QED BY <1>1, <1>3 DEF BootTrue, ServicesTrue

LEMMA BootKelfTrue == LoopInv /\ BootTrue /\ BootKelf => BootTrue'
<1> SUFFICES ASSUME LoopInv, BootTrue, BootKelf PROVE BootTrue'
  OBVIOUS
<1>1. stage = "kelf" /\ stage' = "tasks" /\ UNCHANGED <<machine, config, shell, drivers>>
  BY DEF BootKelf, loop_part
<1>2. Len(apps') > 0 <=> config.kelf /\ \E a \in Apps : machine.elf[a] = "good"
  <2> DEFINE p == kelf_probe_path("elfrunner")
             q == kelf_probe_path("memc")
  <2>1. /\ p \in Seq({0}) /\ Len(p) = IF machine.elf["elfrunner"] = "good" THEN 1 ELSE 0
        /\ q \in Seq({0}) /\ Len(q) = IF machine.elf["memc"] = "good" THEN 1 ELSE 0
    BY ProbedPath
  <2>2. apps' = IF config.kelf THEN p \o q ELSE <<>>
    BY DEF BootKelf
  <2> HIDE DEF p, q
  <2>3. Len(p \o q) = Len(p) + Len(q)
    BY <2>1, ConcatProperties
  <2>4. (\E a \in Apps : machine.elf[a] = "good") <=> machine.elf["elfrunner"] = "good" \/ machine.elf["memc"] = "good"
    BY DEF Apps
  <2> QED BY <2>1, <2>2, <2>3, <2>4, EmptySeq
<1> QED BY <1>1, <1>2 DEF BootTrue, ServicesTrue

LEMMA BootTasksTrue == LoopInv /\ BootTrue /\ BootTasks => BootTrue'
<1> SUFFICES ASSUME LoopInv, BootTrue, BootTasks PROVE BootTrue'
  OBVIOUS
<1> DEFINE a == [add_kernel_task_ex("idle", TRUE) EXCEPT ![1].state = "RUNNING"]
           b == a \o add_kernel_task_ex("klogd", "klogd" \in config.tasks)
           c == b \o add_kernel_task_ex("kworker", "kworker" \in config.tasks)
           d == c \o add_kernel_task_ex("kelfd", config.kelf)
           e == d \o add_kernel_task_ex("usrd", "usrd" \in config.tasks)
<1>1. BootTable(a) /\ ~HasKelfd(a)
  BY IdleTable DEF HasKelfd, add_kernel_task_ex
<1> HIDE DEF a
<1>2. BootTable(b) /\ ~HasKelfd(b)
  BY <1>1, LongerTable, TaskAdded DEF TaskNames
<1> HIDE DEF b
<1>3. BootTable(c) /\ ~HasKelfd(c)
  BY <1>2, LongerTable, TaskAdded DEF TaskNames
<1> HIDE DEF c
<1>4. BootTable(d) /\ (HasKelfd(d) <=> config.kelf)
  BY <1>3, LongerTable, TaskAdded DEF TaskNames
<1> HIDE DEF d
<1>5. HasKelfd(e) <=> config.kelf
  BY <1>4, TaskAdded DEF TaskNames
<1>6. tasks' = e
  BY DEF BootTasks, a, b, c, d
<1>7. stage = "tasks" /\ stage' = "services" /\ UNCHANGED <<machine, config, shell, drivers, apps>>
  BY DEF BootTasks, loop_part
<1> HIDE DEF e
<1> QED BY <1>5, <1>6, <1>7 DEF BootTrue, ServicesTrue

LEMMA BootServicesTrue == LoopInv /\ BootTrue /\ BootServices => BootTrue'
<1> SUFFICES ASSUME LoopInv, BootTrue, BootServices PROVE BootTrue'
  OBVIOUS
<1>1. stage = "services" /\ stage' = "open" /\ UNCHANGED <<machine, config, shell, drivers, apps, tasks>>
  BY DEF BootServices, loop_part
<1>2. service' = [s \in Services |-> service_init(s)]
  BY DEF BootServices
<1>3. /\ service_init("driver") = "READY" <=> config.drivers
      /\ service_init("kelf") = "READY" <=> config.kelf /\ \E a \in Apps : machine.elf[a] = "good"
      /\ \A s \in Services \ {"driver", "kelf"} : service_init(s) = "READY"
  <2>1. machine.fs /\ shell.ready
    BY <1>1 DEF BootTrue
  <2> QED BY <1>1, <2>1 DEF BootTrue, service_init, ready_or_degraded, Services
<1>4. DOMAIN tasks' = 1 .. Len(tasks')
  BY <1>1, LenProperties DEF LoopInv
<1>5. ServicesTrue'
  BY <1>1, <1>2, <1>3, <1>4 DEF ServicesTrue, BootTrue, HasKelfd, Services
<1> QED BY <1>1, <1>5 DEF BootTrue

LEMMA OtherBootTrue == LoopInv /\ BootTrue /\ (BootMemory \/ BootFiles \/ BootUserland) => BootTrue'
<1> SUFFICES ASSUME LoopInv, BootTrue, BootMemory \/ BootFiles \/ BootUserland PROVE BootTrue'
  OBVIOUS
<1>1. CASE BootMemory
  BY <1>1 DEF BootMemory, BootTrue, ServicesTrue, loop_part
<1>2. CASE BootFiles
  BY <1>2 DEF BootFiles, BootTrue, ServicesTrue, loop_part
<1>3. CASE BootUserland
  BY <1>3 DEF BootUserland, BootTrue, ServicesTrue, loop_part
<1> QED BY <1>1, <1>2, <1>3

LEMMA EnterLoopTrue == BootTrue /\ EnterLoop => BootTrue'
<1> SUFFICES ASSUME BootTrue, EnterLoop PROVE BootTrue'
  OBVIOUS
<1>1. stage = "open" /\ stage' = "loop" /\ UNCHANGED <<machine, config, shell, drivers, apps, tasks, service>>
  BY DEF EnterLoop, boot
<1> QED BY <1>1 DEF BootTrue, ServicesTrue, HasKelfd

\* Nothing the loop does takes back what was reported.
LEMMA LoopKeeps ==
    ASSUME LoopInv, stage \in {"open", "loop"}, TimerTick \/ OtherInterrupt \/ CpuStep \/ ProgramEnds
    PROVE  /\ UNCHANGED <<machine, config, stage, drivers, service>>
           /\ Len(apps') = Len(apps) /\ shell'.ready = shell.ready
           /\ HasKelfd(tasks') <=> HasKelfd(tasks)
<1>1. UNCHANGED <<machine, config, stage, drivers, service>>
  BY DEF TimerTick, OtherInterrupt, CpuStep, ProgramEnds, ReadTick, Dispatch, MarkRunning, Enter, Return, Halt, Klogd, Kworker, Kelfd,
         Usrd, UserlandTick, LateTicks, in_entry_kept, boot
<1>2. Len(apps') = Len(apps)
  <2>1. CASE Kelfd
    <3>1. apps \in Seq(Nat) /\ apps' \in Seq(Nat)
      BY <2>1, EntryInv DEF LoopInv, LoopTypeOK
    <3>2. DOMAIN apps' = DOMAIN apps
      BY <2>1 DEF Kelfd, kelf_tick, relative
    <3> QED BY <3>1, <3>2, LenProperties
  <2>2. CASE ~Kelfd
    BY <2>2 DEF TimerTick, OtherInterrupt, CpuStep, ProgramEnds, ReadTick, Dispatch, MarkRunning, Enter, Return, Halt, Klogd, Kworker,
                Usrd, UserlandTick, LateTicks, in_entry_kept, boot
  <2> QED BY <2>1, <2>2
<1>3. shell'.ready = shell.ready
  <2>1. shell \in [ready : BOOLEAN, enabled : BOOLEAN, requested : BOOLEAN, first : BOOLEAN]
    BY DEF LoopInv, LoopTypeOK
  <2>2. \/ UNCHANGED shell \/ shell' = [shell EXCEPT !.first = FALSE] \/ shell' = [shell EXCEPT !.requested = TRUE]
    BY DEF TimerTick, OtherInterrupt, CpuStep, ProgramEnds, ReadTick, Dispatch, MarkRunning, Enter, Return, Halt, Klogd, Kworker, Kelfd,
           Usrd, UserlandTick, userland_tick, LateTicks, in_entry_kept, boot
  <2> QED BY <2>1, <2>2
<1>4. HasKelfd(tasks') <=> HasKelfd(tasks)
  <2>1. CASE TimerTick \/ MarkRunning
    <3>1. TurnsKept
      BY <2>1, TickCases, KeptTable, CountedTable, PassedTable, MarkedTable
    <3>2. Len(tasks') = Len(tasks) /\ DOMAIN tasks = 1 .. Len(tasks)
      BY <3>1, LenProperties DEF TurnsKept, LoopInv
    <3> QED BY <3>1, <3>2 DEF TurnsKept, HasKelfd
  <2>2. CASE ~(TimerTick \/ MarkRunning)
    <3>1. UNCHANGED tasks
      BY <2>2 DEF OtherInterrupt, CpuStep, ProgramEnds, ReadTick, Dispatch, Enter, Return, Halt, Klogd, Kworker, Kelfd,
                  Usrd, UserlandTick, LateTicks, in_entry_kept, boot
    <3> QED BY <3>1
  <2> QED BY <2>1, <2>2
<1> QED BY <1>1, <1>2, <1>3, <1>4

LEMMA StepTrue == LoopInv /\ BootTrue /\ [Next]_vars => BootTrue'
<1> SUFFICES ASSUME LoopInv, BootTrue, [Next]_vars PROVE BootTrue'
  OBVIOUS
<1>1. CASE Boot
  BY <1>1, BootDriversTrue, BootKelfTrue, BootTasksTrue, BootServicesTrue, OtherBootTrue, EnterLoopTrue DEF Boot
<1>2. CASE TimerTick \/ OtherInterrupt \/ CpuStep \/ ProgramEnds
  <2>1. stage \in {"open", "loop"}
    BY <1>2 DEF TimerTick, OtherInterrupt, CpuStep, ProgramEnds, ReadTick, Dispatch, MarkRunning, Enter, Return, Halt, Klogd, Kworker,
                Kelfd, Usrd, UserlandTick, LateTicks, in_entry, at
  <2>2. /\ UNCHANGED <<machine, config, stage, drivers, service>>
        /\ Len(apps') = Len(apps) /\ shell'.ready = shell.ready
        /\ HasKelfd(tasks') <=> HasKelfd(tasks)
    BY <1>2, <2>1, LoopKeeps
  <2>3. LoopInv'
    BY StepInv
  <2>4. DOMAIN tasks' = 1 .. Len(tasks') /\ DOMAIN tasks = 1 .. Len(tasks)
    BY <2>3, LenProperties DEF LoopInv
  <2>5. ServicesTrue'
    BY <2>1, <2>2, <2>4 DEF BootTrue, ServicesTrue, HasKelfd
  <2> QED BY <2>1, <2>2, <2>5 DEF BootTrue
<1>3. CASE UNCHANGED vars
  BY <1>3 DEF vars, boot, BootTrue, ServicesTrue
<1> QED BY <1>1, <1>2, <1>3 DEF Next

\* Whatever the machine, the build and the size of the driver table: what clks_service_init
\* reports when the loop is entered (service.c:39-91) is what the boot found, and stays so.
THEOREM ServicesAreTrue == Spec => []ServicesTrue
<1>1. BootTrue => ServicesTrue
  BY DEF BootTrue
<1> QED BY <1>1, InitTrue, StepTrue, LoopInvariance, PTL DEF Spec
=============================================================================
