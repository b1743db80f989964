------------------------------ MODULE MainLoop ------------------------------
(***************************************************************************)
(* What clks_kernel_main does: it brings the kernel up part by part, and   *)
(* then dispatches the current kernel task and halts, over and over        *)
(* (kmain.c), with the round-robin scheduler the timer interrupt drives    *)
(* (scheduler.c), the services the tasks keep alive (service.c), the       *)
(* kernel ELF tasks (kelf.c), the driver table (driver.c) and the launch   *)
(* of the user shell with its retries (userland.c).  Programs run inside   *)
(* the entry of the usrd task; all that is said of them here is that one   *)
(* runs, may leave others pending, and may never end.                      *)
(***************************************************************************)
EXTENDS Integers, Sequences

CONSTANTS
    Machines,       \* what firmware and disk image may hold, see MachineType
    Configs,        \* what the build enables, see ConfigType
    Slice,          \* time slice in ticks of each task, by name
    RETRY,          \* CLKS_USERLAND_RETRY_INTERVAL
    KELF_INTERVAL,  \* ticks between two dispatches of kernel ELF tasks
    DRIVER_MAX,     \* CLKS_DRIVER_MAX
    PENDING_MAX     \* bound: processes left pending

Services == {"log", "memory", "filesystem", "driver", "scheduler", "kelf", "userland"}
TaskNames == {"idle", "klogd", "kworker", "kelfd", "usrd"}
Apps == {"elfrunner", "memc"}
Images == {"good", "unloadable", "invalid", "missing"}
Children == {"driver", "broken", "folder", "text", "long"}

MachineType == [memmap : BOOLEAN, fs : BOOLEAN, system : BOOLEAN, fb : BOOLEAN, audio : BOOLEAN,
                elf : [Apps \cup {"shell"} -> Images], driver : Seq(Children)]
ConfigType == [drivers : BOOLEAN, kelf : BOOLEAN, system_check : BOOLEAN, app_probe : BOOLEAN,
               auto_exec : BOOLEAN, tasks : SUBSET {"klogd", "kworker", "usrd"}]

ASSUME MachineAssumption == Machines \subseteq MachineType /\ Configs \subseteq ConfigType
ASSUME SliceAssumption == Slice \in [TaskNames -> Nat \ {0}]
\* A task with an entry has at least three ticks (kmain.c gives 4, 3, 5 and 4): one may fall
\* into the dispatch of the task before it, one before hlt.
ASSUME LongSlices == \A t \in TaskNames \ {"idle"} : Slice[t] >= 3
ASSUME BoundAssumption ==
    /\ RETRY \in Nat \ {0} /\ KELF_INTERVAL \in Nat \ {0} /\ PENDING_MAX \in Nat
    /\ DRIVER_MAX \in Nat \ {0}

VARIABLES
    machine, config,  \* chosen once
    stage,            \* how far clks_kernel_main is
    drivers,          \* clks_driver_table
    apps,             \* clks_kelf_apps: runs of each, kept relative to the least
    rr_index,         \* clks_kelf_rr_index, modulo the number of apps
    service,          \* state of each registered service
    shell,            \* userland.c: ready, enabled, requested, first try pending
    tasks,            \* clks_tasks, with switch counts kept relative to the least
    current,          \* clks_current_task
    dispatch_active,  \* clks_dispatch_active
    pc,               \* where the loop is
    entered,          \* the task clks_scheduler_dispatch_current has taken up, or 0
    phase,            \* static phase of clks_task_kworker
    pending,          \* processes in the PENDING state
    program,          \* who started the program that runs, or "none"
    since_try,        \* tick - clks_user_last_try_tick, up to RETRY
    since_kelf,       \* tick - clks_kelf_last_dispatch_tick, up to KELF_INTERVAL
    lag,              \* ticks since the loop read the counter, up to the larger of the two
    ticked,           \* a tick came and no time has passed since
    ran,              \* the current task was entered in this turn, or the turn began before the loop
    beat,             \* services whose heartbeat came since the counter was read
    tried             \* the shell was launched since the counter was read

boot == <<drivers, apps, rr_index, service, shell, tasks, current>>
turn == <<tasks, current, ran>>
time == <<since_try, since_kelf, lag, ticked>>
seen == <<beat, tried>>
vars == <<machine, config, stage, boot, dispatch_active, pc, entered, phase, pending, program,
          time, ran, seen>>

LAG_MAX == IF RETRY > KELF_INTERVAL THEN RETRY ELSE KELF_INTERVAL
capped(n, max) == IF n > max THEN max ELSE n

(***************************************************************************)
(* The boot.  Interrupts are off; a step either succeeds or halts the CPU. *)
(***************************************************************************)

Init ==
    /\ machine \in Machines /\ config \in Configs
    /\ stage = "memory"
    /\ drivers = <<>> /\ apps = <<>> /\ rr_index = 0
    /\ service = [s \in {} |-> ""]
    /\ shell = [ready |-> FALSE, enabled |-> FALSE, requested |-> FALSE, first |-> FALSE]
    /\ tasks = <<>> /\ current = 1 /\ dispatch_active = FALSE
    /\ pc = "read" /\ entered = 0 /\ phase = 0 /\ pending = 0 /\ program = "none"
    /\ since_try = 0 /\ since_kelf = 0 /\ lag = 0 /\ ticked = FALSE /\ ran = FALSE
    /\ beat = {} /\ tried = FALSE

loop_part == <<machine, config, dispatch_active, pc, entered, phase, pending, program, time, ran, seen>>

BootMemory ==
    /\ stage = "memory"
    /\ stage' = IF machine.memmap THEN "files" ELSE "halted"
    /\ UNCHANGED <<boot, loop_part>>

BootFiles ==
    /\ stage = "files"
    /\ stage' = IF machine.fs /\ (config.system_check => machine.system)
                THEN "user" ELSE "halted"
    /\ UNCHANGED <<boot, loop_part>>

\* clks_userland_probe_elf.
userland_probe_elf(name) == machine.elf[name] \in {"good", "unloadable"}

\* clks_userland_init: what it set stays set when a later probe fails.
BootUserland ==
    /\ stage = "user"
    /\ shell' = [ready |-> userland_probe_elf("shell"), enabled |-> config.auto_exec,
                 requested |-> FALSE, first |-> TRUE]
    /\ stage' = IF /\ userland_probe_elf("shell")
                   /\ config.app_probe => \A app \in Apps : userland_probe_elf(app)
                THEN "drivers" ELSE "halted"
    /\ UNCHANGED <<drivers, apps, rr_index, service, tasks, current, loop_part>>

state_of(good) == IF good THEN "READY" ELSE "FAILED"

\* clks_driver_push refuses what no longer fits.
driver_push(table, state) == IF Len(table) >= DRIVER_MAX THEN table ELSE Append(table, state)

\* clks_driver_register_builtins.
driver_register_builtins ==
    LET display == driver_push(driver_push(<<>>, state_of(TRUE)), state_of(machine.fb))
    IN  driver_push(driver_push(display, state_of(machine.fb)), state_of(machine.audio))

\* clks_driver_probe_driver_dir looks at children that are named *.elf and whose names fit.
driver_has_elf_suffix(child) == child \in {"driver", "broken", "folder"}

driver_probe_child(table, child) ==
    IF driver_has_elf_suffix(child) THEN driver_push(table, state_of(child = "driver")) ELSE table

driver_probe_driver_dir(table, children) ==
    LET probed[i \in 0 .. Len(children)] ==
            IF i = 0 THEN table ELSE driver_probe_child(probed[i - 1], children[i])
    IN  probed[Len(children)]

BootDrivers ==
    /\ stage = "drivers"
    /\ drivers' = IF config.drivers
                  THEN driver_probe_driver_dir(driver_register_builtins, machine.driver) ELSE <<>>
    /\ stage' = "kelf"
    /\ UNCHANGED <<apps, rr_index, service, shell, tasks, current, loop_part>>

\* clks_kelf_probe_path: validated again, and with segments that can be laid out.
kelf_probe_path(app) == IF machine.elf[app] = "good" THEN <<0>> ELSE <<>>

BootKelf ==
    /\ stage = "kelf"
    /\ apps' = IF config.kelf THEN kelf_probe_path("elfrunner") \o kelf_probe_path("memc") ELSE <<>>
    /\ rr_index' = 0
    /\ stage' = "tasks"
    /\ UNCHANGED <<drivers, service, shell, tasks, current, loop_part>>

\* clks_scheduler_add_kernel_task_ex.
add_kernel_task_ex(name, enabled) ==
    IF enabled
    THEN <<[name |-> name, state |-> "READY", remaining |-> Slice[name], switches |-> 0]>>
    ELSE <<>>

\* clks_scheduler_init and the tasks the build enables.
BootTasks ==
    /\ stage = "tasks"
    /\ tasks' = [add_kernel_task_ex("idle", TRUE) EXCEPT ![1].state = "RUNNING"]
                \o add_kernel_task_ex("klogd", "klogd" \in config.tasks)
                \o add_kernel_task_ex("kworker", "kworker" \in config.tasks)
                \o add_kernel_task_ex("kelfd", config.kelf)
                \o add_kernel_task_ex("usrd", "usrd" \in config.tasks)
    /\ current' = 1
    /\ stage' = "services"
    /\ UNCHANGED <<drivers, apps, rr_index, service, shell, loop_part>>

ready_or_degraded(up) == IF up THEN "READY" ELSE "DEGRADED"

\* clks_service_init.  The heap is never empty, and without files the boot has halted.
service_init(s) ==
    ready_or_degraded(CASE s = "filesystem" -> machine.fs
                        [] s = "driver" -> Len(drivers) > 0
                        [] s = "kelf" -> Len(apps) > 0
                        [] s = "userland" -> shell.ready
                        [] OTHER -> TRUE)

\* Then the interrupts are enabled.
BootServices ==
    /\ stage = "services"
    /\ service' = [s \in Services |-> service_init(s)]
    /\ stage' = "open"
    /\ UNCHANGED <<drivers, apps, rr_index, shell, tasks, current, loop_part>>

\* The kernel shell is set up and the boot logged, which takes any number of ticks.
EnterLoop ==
    /\ stage = "open"
    /\ stage' = "loop"
    /\ ran' = TRUE /\ ticked' = FALSE
    /\ UNCHANGED <<machine, config, boot, dispatch_active, pc, entered, phase, pending, program,
                   since_try, since_kelf, lag, seen>>

Boot ==
    \/ BootMemory \/ BootFiles \/ BootUserland \/ BootDrivers
    \/ BootKelf \/ BootTasks \/ BootServices \/ EnterLoop

(***************************************************************************)
(* The timer interrupt.  It is periodic, and handlers take less than a     *)
(* period: between two ticks the CPU has waited in hlt or has been inside  *)
(* a task, since the few instructions of the loop itself take no time.  A  *)
(* tick may fall between any two of them.                                  *)
(***************************************************************************)

\* Mutant: the search forgets that the last task comes before the first.
next_ready_task_short(from) ==
    LET n == IF Len(tasks) = 1 THEN 1 ELSE Len(tasks) - 1 IN ((from - 1 + 1) % n) + 1

\* clks_sched_next_ready_task.  Every task is READY or RUNNING.
next_ready_task(from) == (from % Len(tasks)) + 1

\* Counts only ever grow; what is compared is how far apart they are.
relative(counts) ==
    IF \A i \in DOMAIN counts : counts[i] > 0 THEN [i \in DOMAIN counts |-> counts[i] - 1] ELSE counts

relative_switches(ts) ==
    IF \A i \in DOMAIN ts : ts[i].switches > 0
    THEN [i \in DOMAIN ts |-> [ts[i] EXCEPT !.switches = @ - 1]]
    ELSE ts

slice_of(i) == Slice[tasks[i].name]

\* The turn of the current task is over.
rotate(next) ==
    IF next = current
    THEN /\ tasks' = [tasks EXCEPT ![current].remaining = slice_of(current)]
         /\ UNCHANGED <<current, ran>>
    ELSE /\ tasks' = relative_switches(
                       [tasks EXCEPT ![current].remaining = slice_of(current), ![current].state = "READY",
                                     ![next].remaining = slice_of(next), ![next].state = "RUNNING",
                                     ![next].switches = @ + 1])
         /\ current' = next
         /\ ran' = FALSE

\* Mutant: a task is interrupted in its entry.
on_timer_tick_preempts ==
    \/ /\ tasks[current].remaining > 1
       /\ tasks' = [tasks EXCEPT ![current].remaining = @ - 1]
       /\ UNCHANGED <<current, ran>>
    \/ /\ tasks[current].remaining <= 1
       /\ rotate(next_ready_task(current))

\* Mutant: the turn ends with a tick to go.
on_timer_tick_early ==
    \/ /\ dispatch_active
       /\ UNCHANGED turn
    \/ /\ ~dispatch_active
       /\ tasks[current].remaining > 2
       /\ tasks' = [tasks EXCEPT ![current].remaining = @ - 1]
       /\ UNCHANGED <<current, ran>>
    \/ /\ ~dispatch_active
       /\ tasks[current].remaining <= 2
       /\ rotate(next_ready_task(current))

\* clks_scheduler_on_timer_tick.
on_timer_tick ==
    \/ /\ dispatch_active
       /\ UNCHANGED turn
    \/ /\ ~dispatch_active
       /\ tasks[current].remaining > 1
       /\ tasks' = [tasks EXCEPT ![current].remaining = @ - 1]
       /\ UNCHANGED <<current, ran>>
    \/ /\ ~dispatch_active
       /\ tasks[current].remaining <= 1
       /\ rotate(next_ready_task(current))

TimerTick ==
    /\ stage \in {"open", "loop"}
    /\ stage = "open" \/ dispatch_active \/ pc = "hlt" \/ ~ticked
    /\ on_timer_tick
    /\ lag' = capped(lag + 1, LAG_MAX)
    /\ ticked' = ~dispatch_active
    /\ pc' = IF pc = "hlt" THEN "read" ELSE pc
    /\ UNCHANGED <<machine, config, stage, drivers, apps, rr_index, service, shell, dispatch_active,
                   entered, phase, pending, program, since_try, since_kelf, seen>>

\* A key or a mouse byte wakes the CPU as well.
OtherInterrupt ==
    /\ stage = "loop"
    /\ pc = "hlt"
    /\ pc' = "read"
    /\ ticked' = FALSE
    /\ UNCHANGED <<machine, config, stage, boot, dispatch_active, entered, phase, pending, program,
                   since_try, since_kelf, lag, ran, seen>>

(***************************************************************************)
(* The loop.                                                               *)
(***************************************************************************)

at(label) == stage = "loop" /\ pc = label
in_entry(name) == at("entry") /\ tasks[entered].name = name

\* What a step inside an entry leaves alone, besides what it does.
in_entry_kept == <<machine, config, stage, drivers, service, tasks, current, dispatch_active, entered,
                   lag, ticked, ran>>

ReadTick ==
    /\ at("read")
    /\ since_try' = capped(since_try + lag, RETRY)
    /\ since_kelf' = capped(since_kelf + lag, KELF_INTERVAL)
    /\ lag' = 0
    /\ beat' = {} /\ tried' = FALSE
    /\ pc' = "dispatch"
    /\ UNCHANGED <<machine, config, stage, boot, dispatch_active, entered, phase, pending, program,
                   ticked, ran>>

\* clks_scheduler_dispatch_current takes up the current task.  The interrupts are enabled: a tick
\* before the flag is set may end the task's turn, which does not keep it from being entered.
Dispatch ==
    /\ at("dispatch")
    /\ IF dispatch_active THEN pc' = "prehlt" /\ UNCHANGED entered
                          ELSE pc' = "mark" /\ entered' = current
    /\ UNCHANGED <<machine, config, stage, boot, dispatch_active, phase, pending, program, time, ran, seen>>

\* It is RUNNING, though it may not be the current one any more.
MarkRunning ==
    /\ at("mark")
    /\ tasks' = [tasks EXCEPT ![entered].state = "RUNNING"]
    /\ pc' = "enter"
    /\ UNCHANGED <<machine, config, stage, drivers, apps, rr_index, service, shell, current,
                   dispatch_active, entered, phase, pending, program, time, ran, seen>>

\* From here on the ticks do not count.
Enter ==
    /\ at("enter")
    /\ ran' = (ran \/ entered = current)
    /\ IF tasks[entered].name = "idle"
       THEN pc' = "prehlt" /\ entered' = 0 /\ UNCHANGED dispatch_active
       ELSE pc' = "entry" /\ dispatch_active' = TRUE /\ UNCHANGED entered
    /\ UNCHANGED <<machine, config, stage, boot, phase, pending, program, time, seen>>

\* clks_task_klogd.
Klogd ==
    /\ in_entry("klogd")
    /\ beat' = {"log"}
    /\ pc' = "return"
    /\ UNCHANGED <<in_entry_kept, apps, rr_index, shell, phase, pending, program, since_try,
                   since_kelf, tried>>

phase_service == [p \in 0 .. 3 |-> CASE p = 0 -> "memory" [] p = 1 -> "filesystem"
                                      [] p = 2 -> "driver" [] OTHER -> "log"]

\* Mutant: the phase starts over one service early.
next_phase_short == IF phase >= 1 THEN 0 ELSE phase + 1

\* phase = (phase + 1U) & 3U.
next_phase == (phase + 1) % 4

\* clks_task_kworker.
Kworker ==
    /\ in_entry("kworker")
    /\ beat' = {"scheduler", phase_service[phase]}
    /\ phase' = next_phase
    /\ pc' = "return"
    /\ UNCHANGED <<in_entry_kept, apps, rr_index, shell, pending, program, since_try, since_kelf, tried>>

\* clks_kelf_tick: every app in the table is loaded.
kelf_tick ==
    IF apps = <<>> \/ since_kelf < KELF_INTERVAL
    THEN UNCHANGED <<apps, rr_index, since_kelf>>
    ELSE /\ apps' = relative([apps EXCEPT ![rr_index + 1] = @ + 1])
         /\ rr_index' = (rr_index + 1) % Len(apps)
         /\ since_kelf' = 0

\* clks_task_kelfd.
Kelfd ==
    /\ in_entry("kelfd")
    /\ beat' = {"kelf"}
    /\ kelf_tick
    /\ pc' = "return"
    /\ UNCHANGED <<in_entry_kept, shell, phase, pending, program, since_try, tried>>

\* clks_task_usrd begins: its heartbeat, and clks_exec_tick, which runs a pending process.
Usrd ==
    /\ in_entry("usrd")
    /\ beat' = {"userland"}
    /\ \/ /\ pending = 0
          /\ pc' = "user"
          /\ UNCHANGED <<pending, program>>
       \/ /\ pending > 0
          /\ pending' = pending - 1
          /\ program' = "exec_tick"
          /\ pc' = "program"
    /\ UNCHANGED <<in_entry_kept, apps, rr_index, shell, phase, since_try, since_kelf, tried>>

\* clks_userland_request_shell_exec: the shell may fail to load.
request_shell_exec ==
    /\ tried' = TRUE
    /\ \/ pc' = "program" /\ program' = "shell"
       \/ pc' = "late" /\ UNCHANGED program

user_shell_due == shell.enabled /\ shell.ready /\ ~shell.requested

\* Mutant: the tick of the last try is noted before it is looked at.
userland_tick_notes_first ==
    IF ~user_shell_due \/ (~shell.first /\ since_try < RETRY)
    THEN /\ pc' = "late"
         /\ since_try' = 0
         /\ UNCHANGED <<shell, program, tried>>
    ELSE /\ shell' = [shell EXCEPT !.first = FALSE]
         /\ since_try' = 0
         /\ request_shell_exec

\* clks_userland_tick.
userland_tick ==
    IF ~user_shell_due \/ (~shell.first /\ since_try < RETRY)
    THEN pc' = "late" /\ UNCHANGED <<shell, program, since_try, tried>>
    ELSE /\ shell' = [shell EXCEPT !.first = FALSE]
         /\ since_try' = 0
         /\ request_shell_exec

UserlandTick ==
    /\ at("user")
    /\ userland_tick
    /\ UNCHANGED <<in_entry_kept, apps, rr_index, phase, pending, since_kelf, beat>>

\* The ticks of desktop and terminal, and clks_shell_tick, where a command line of the kernel
\* shell may run a program.
LateTicks ==
    /\ at("late")
    /\ \/ pc' = "return" /\ UNCHANGED program
       \/ pc' = "program" /\ program' = "command"
    /\ UNCHANGED <<in_entry_kept, apps, rr_index, shell, phase, pending, since_try, since_kelf, seen>>

\* A program ends, with status zero or another, and may leave processes pending.
ProgramEnds ==
    /\ at("program")
    /\ program' = "none"
    /\ pending' \in 0 .. PENDING_MAX
    /\ pc' = CASE program = "exec_tick" -> "user" [] program = "shell" -> "late" [] OTHER -> "return"
    /\ \E zero \in BOOLEAN :
          shell' = IF program = "shell" /\ zero THEN [shell EXCEPT !.requested = TRUE] ELSE shell
    /\ UNCHANGED <<in_entry_kept, apps, rr_index, phase, since_try, since_kelf, seen>>

\* The entry returns to clks_scheduler_dispatch_current.
Return ==
    /\ at("return")
    /\ dispatch_active' = FALSE
    /\ entered' = 0
    /\ pc' = "prehlt"
    /\ UNCHANGED <<machine, config, stage, boot, phase, pending, program, time, ran, seen>>

\* A tick that came before this is not noticed by hlt.
Halt ==
    /\ at("prehlt")
    /\ pc' = "hlt"
    /\ UNCHANGED <<machine, config, stage, boot, dispatch_active, entered, phase, pending, program,
                   time, ran, seen>>

CpuStep ==
    \/ ReadTick \/ Dispatch \/ MarkRunning \/ Enter \/ Return \/ Halt
    \/ Klogd \/ Kworker \/ Kelfd
    \/ Usrd \/ UserlandTick \/ LateTicks

Next == Boot \/ TimerTick \/ OtherInterrupt \/ CpuStep \/ ProgramEnds

TickInHlt == pc = "hlt" /\ TimerTick

\* The CPU goes on, the timer ticks; a program may run for ever.  Ticks inside an entry do not
\* count for the scheduler: interrupts that wake the CPU before each tick, so that every tick
\* falls into an entry, would leave the turn with one task.  That they do not do so for ever is
\* the strong fairness.
Fairness == WF_vars(Boot) /\ WF_vars(CpuStep) /\ WF_vars(TimerTick) /\ SF_vars(TickInHlt)

Spec == Init /\ [][Next]_vars
FairSpec == Spec /\ Fairness

(***************************************************************************)
(* Properties.                                                             *)
(***************************************************************************)

Stages == {"memory", "files", "user", "drivers", "kelf", "tasks", "services", "open", "loop", "halted"}
EntryLabels == {"entry", "user", "late", "program", "return"}
Labels == EntryLabels \cup {"read", "dispatch", "mark", "enter", "prehlt", "hlt"}

\* The current task is RUNNING; so is, until its next turn is over, a task that was marked just
\* after its turn had ended.
TaskOK(i) ==
    /\ tasks[i].name \in TaskNames
    /\ tasks[i].state \in {"READY", "RUNNING"}
    /\ i = current => tasks[i].state = "RUNNING"
    /\ tasks[i].remaining \in 1 .. slice_of(i)
    /\ tasks[i].switches \in Nat

\* The dispatch flag says exactly that an entry runs (scheduler.c:103 and 129).  However many
\* ticks come, an entry that runs is that of the current task, or of the one before it, whose
\* turn ended between the look at clks_current_task and the flag (scheduler.c:107 and 118).
EntryInTurn ==
    /\ dispatch_active <=> pc \in EntryLabels
    /\ entered # 0 <=> pc \in EntryLabels \cup {"mark", "enter"}
    /\ entered # 0 => current \in {entered, next_ready_task(entered)}

\* The type of the state.  The current task is RUNNING, no task is without ticks, and no entry
\* runs out of turn.
LoopTypeOK ==
    /\ machine \in Machines /\ config \in Configs
    /\ stage \in Stages /\ pc \in Labels
    /\ apps \in Seq(Nat) /\ Len(apps) <= 2
    /\ IF apps = <<>> THEN rr_index = 0 ELSE rr_index \in 0 .. Len(apps) - 1
    /\ shell \in [ready : BOOLEAN, enabled : BOOLEAN, requested : BOOLEAN, first : BOOLEAN]
    /\ \A i \in DOMAIN tasks : TaskOK(i)
    /\ stage \in {"services", "open", "loop"} => current \in DOMAIN tasks
    /\ entered \in 0 .. Len(tasks) /\ phase \in 0 .. 3 /\ pending \in 0 .. PENDING_MAX
    /\ program \in {"none", "exec_tick", "shell", "command"}
    /\ since_try \in 0 .. RETRY /\ since_kelf \in 0 .. KELF_INTERVAL /\ lag \in 0 .. LAG_MAX
    /\ dispatch_active \in BOOLEAN /\ ticked \in BOOLEAN /\ ran \in BOOLEAN /\ tried \in BOOLEAN
    /\ beat \subseteq Services
    /\ EntryInTurn

\* Round robin: over any stretch no task has been given two turns more than another.
TurnsBalanced == \A i, j \in DOMAIN tasks : tasks[i].switches <= tasks[j].switches + 1

\* The kernel ELF tasks are dispatched in turn.
KelfBalanced == \A a, b \in DOMAIN apps : apps[a] <= apps[b] + 1

\* The tasks take turns, and the kernel ELF tasks do.
RoundRobin == TurnsBalanced /\ KelfBalanced

\* A turn is never lost: though the tick that gives a task its turn may come while the task
\* before it is being dispatched, or just before hlt, and another just after the loop read the
\* counter, a task that has an entry is entered before its turn is over.  (The turn in which
\* the loop begins may be lost to the ticks of the boot.)
NoEmptyTurn ==
    [][stage = "loop" /\ current' # current => ran \/ tasks[current].name = "idle"]_vars

\* What clks_service_init reported is so for as long as the system runs: the parts a service
\* stands for came up before it was registered, and the boot halts without memory, files,
\* the user shell and, when they are checked, the system programs.  The driver table holds
\* what fits of the drivers found.
ServicesTrue ==
    stage \in {"open", "loop"} =>
        /\ DOMAIN service = Services
        /\ service["driver"] = "READY" <=> config.drivers
        /\ service["kelf"] = "READY" <=> config.kelf /\ \E a \in Apps : machine.elf[a] = "good"
        /\ \A s \in Services \ {"driver", "kelf"} : service[s] = "READY"
        /\ shell.ready /\ machine.memmap /\ machine.fs
        /\ (\E i \in DOMAIN tasks : tasks[i].name = "kelfd") <=> config.kelf
        /\ Len(drivers) <= DRIVER_MAX

\* Once the user shell has ended with status zero it is not launched again: the kernel shell
\* stays in charge.
NoSecondShell == shell.requested => program # "shell"

served_by == [s \in Services |-> CASE s = "log" -> {"klogd", "kworker"}
                                    [] s = "kelf" -> {"kelfd"}
                                    [] s = "userland" -> {"usrd"}
                                    [] OTHER -> {"kworker"}]
is_served(s) == \E i \in DOMAIN tasks : tasks[i].name \in served_by[s]

\* Every service one of the tasks stands for shows a heartbeat again and again, unless a
\* program never ends: while one runs, none of the tasks does.
ServicesBeat == \A s \in Services : <>[](program # "none") \/ []<>(s \in beat \/ ~is_served(s))

\* What the service table says is so, and its heartbeats go on.
ServicesHonest == []ServicesTrue /\ ServicesBeat

has_usrd == \E i \in DOMAIN tasks : tasks[i].name = "usrd"

\* A user shell that cannot be started, or ends with another status than zero, is launched
\* again and again until it ends well, unless a program never ends.
ShellRetried ==
    <>[](program # "none") \/ []<>(tried \/ shell.requested \/ ~shell.enabled \/ ~has_usrd)

\* The user shell is launched until it ends well, and then no more.
ShellLaunched == []NoSecondShell /\ ShellRetried

=============================================================================
