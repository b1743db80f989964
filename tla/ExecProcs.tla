----------------------------- MODULE ExecProcs -----------------------------
(***************************************************************************)
(* The process side of clks/kernel/exec.c: the process table, the stack of *)
(* nested program runs, the pending-dispatch flag, signals, waitpid, the   *)
(* dynamic-library table and the interrupt entry points that force-stop or *)
(* unwind a program.  One CPU runs everything: the kernel main loop, and   *)
(* on top of it one frame per program that is running; a program that      *)
(* executes, waits for, or yields to another program stays below it.       *)
(* What interleaves with a run are interrupts, so run_proc_slot is split   *)
(* at every point where an interrupt may see or change what it uses next.  *)
(***************************************************************************)
EXTENDS Integers

CONSTANTS
    MAX_PROCS,     \* CLKS_EXEC_MAX_PROCS: slots of the process table
    MAX_DEPTH,     \* CLKS_EXEC_MAX_DEPTH: nested runs
    DYNLIB_MAX,    \* CLKS_EXEC_DYNLIB_MAX: slots of the dynamic-library table
    Paths,         \* absolute paths of executable files
    UserPaths,     \* the ones path_is_user_program accepts
    LibPaths,      \* absolute paths of libraries
    Ttys,          \* virtual terminals
    Codes,         \* exit codes programs use
    Signals,       \* signal arguments programs pass to proc_kill
    Vectors,       \* CPU exception vectors programs raise
    MAX_PID,       \* bound: pids handed out
    MAX_HANDLE,    \* bound: dynamic-library handles handed out
    MAX_REF        \* bound: references to one library

ASSUME LimitsAssumption ==
    /\ MAX_PROCS \in Nat \ {0}
    /\ MAX_DEPTH \in Nat \ {0}
    /\ DYNLIB_MAX \in Nat
    /\ MAX_PID \in Nat \ {0}
    /\ MAX_HANDLE \in Nat
    /\ MAX_REF \in Nat
ASSUME InputsAssumption ==
    /\ UserPaths \subseteq Paths
    /\ Codes \subseteq Nat
    /\ Signals \subseteq Nat
    /\ Vectors \subseteq 0 .. 31
    /\ Ttys # {}

VARIABLES
    proc,          \* clks_exec_proc_table
    next_pid,      \* clks_exec_next_pid
    frame,         \* the parallel stacks pid_stack, exit_requested_stack, ...
    depth,         \* run_proc_slot activations that have marked their record RUNNING
    run,           \* locals and control point of each run_proc_slot activation
    running_depth, \* clks_exec_running_depth
    pending_dispatch_active,
    dynlib,        \* clks_exec_dynlib_table
    next_handle,   \* clks_exec_next_dynlib_handle
    active_tty,    \* clks_tty_active()
    panicked       \* clks_panic_exception was reached: the machine is halted

vars == <<proc, next_pid, frame, depth, run, running_depth,
          pending_dispatch_active, dynlib, next_handle, active_tty, panicked>>

Slots == 0 .. MAX_PROCS - 1
Levels == 0 .. MAX_DEPTH - 1
DynSlots == 0 .. DYNLIB_MAX - 1

SIGTERM == 15
SIGCONT == 18
SIGSTOP == 19

(***************************************************************************)
(* Exit statuses: a program's own code, -1 for a run that failed, or the   *)
(* signal encoding (bit 63 set, signal in bits 7:0, vector in bits 15:8).  *)
(* The tag says where a status comes from; bit 63 alone does not, since -1 *)
(* and large exit codes have it too.                                       *)
(***************************************************************************)
code(c) == <<"code", c, 0>>
encode_signal_status(signal, vector) == <<"signal", signal, vector>>
Statuses == {"code", "signal"} \X (-1 .. 255 \cup Codes) \X (0 .. 31)

signal_from_vector(v) ==
    CASE v \in {0, 16, 19} -> 8
      [] v = 6 -> 4
      [] v = 3 -> 5
      [] v \in {10, 11, 12, 13, 14, 17} -> 11
      [] OTHER -> 6

effective_signal(signal) == IF signal = 0 THEN SIGTERM ELSE signal % 256

path_is_user_program(path) == path \in UserPaths

NoProc == [state |-> "UNUSED", pid |-> 0, path |-> "", exit_status |-> code(0),
           tty |-> 0, last_signal |-> 0, last_fault |-> 0]
NoRun == [phase |-> "none", slot |-> 0, via |-> "none", base |-> FALSE,
          irq |-> FALSE, ret |-> code(0), spin |-> FALSE]
NoFrame == [pid |-> 0, exit_requested |-> FALSE, exit_status |-> code(0),
            stop_requested |-> FALSE, unwind_valid |-> FALSE]
NoLib == [used |-> FALSE, handle |-> 0, owner |-> 0, path |-> "", ref |-> 0]

-----------------------------------------------------------------------------
(***************************************************************************)
(* Lookups and allocation.                                                 *)
(***************************************************************************)
\* Every search of a table returns the first match.
first_of(s, S) == s \in S /\ \A t \in S : s <= t

\* Between the mark and the push, clks_exec_pid_stack_depth is still one less than depth.
pid_stack_depth == IF depth > 0 /\ run[depth - 1].phase = "push" THEN depth - 1 ELSE depth

current_pid == IF pid_stack_depth = 0 THEN 0 ELSE frame[pid_stack_depth - 1].pid

slots_of_pid(pid) == {s \in Slots : proc[s].state # "UNUSED" /\ proc[s].pid = pid}
proc_find_slot_by_pid(s, pid) == first_of(s, slots_of_pid(pid))

\* An unused slot if there is one, else the first EXITED record is evicted.
unused_slots == {s \in Slots : proc[s].state = "UNUSED"}
exited_slots == {s \in Slots : proc[s].state = "EXITED"}
\* Mutant: a stopped process counts as finished.
proc_alloc_slot_evicts_stopped(s) ==
    first_of(s, IF unused_slots # {} THEN unused_slots
                ELSE {t \in Slots : proc[t].state \in {"EXITED", "STOPPED"}})

proc_alloc_slot(s) == first_of(s, IF unused_slots # {} THEN unused_slots
                                                     ELSE exited_slots)

pending_slots == {s \in Slots : proc[s].state = "PENDING"}

current_path_is_user ==
    /\ pid_stack_depth > 0
    /\ \E s \in Slots : /\ proc_find_slot_by_pid(s, current_pid)
                        /\ path_is_user_program(proc[s].path)

prepare_proc_record(pid, path, state) ==
    [state |-> state, pid |-> pid, path |-> path, exit_status |-> code(-1),
     tty |-> active_tty, last_signal |-> 0, last_fault |-> 0]

mark_exited(p, status) == [p EXCEPT !.state = "EXITED", !.exit_status = status]

\* Mutant: a library opened twice loses one reference and stays.
dynlib_release_one_reference(pid) ==
    [i \in DynSlots |->
        CASE ~(pid # 0 /\ dynlib[i].used /\ dynlib[i].owner = pid) -> dynlib[i]
          [] dynlib[i].ref > 1 -> [dynlib[i] EXCEPT !.ref = @ - 1]
          [] OTHER -> NoLib]

dynlib_release_owner(pid) ==
    [i \in DynSlots |-> IF pid # 0 /\ dynlib[i].used /\ dynlib[i].owner = pid
                        THEN NoLib ELSE dynlib[i]]

-----------------------------------------------------------------------------
(***************************************************************************)
(* Who may step.  A program is executing its own image when the top run is *)
(* in phase "user"; spin marks a program inside libc's exit(), which after *)
(* the exit system call only yields.  IntEnabled is the flag IF: a system  *)
(* call runs with it cleared (interrupt gate), sti;hlt;cli opens it, and a *)
(* run inherits its caller's value, raised while the program itself runs   *)
(* unless a pending dispatch is active.                                    *)
(***************************************************************************)
Control == IF panicked THEN "halted"
           ELSE IF depth = 0 THEN "main" ELSE run[depth - 1].phase
At(phase) == Control = phase
InSyscall == At("user") /\ ~run[depth - 1].spin

IntEnabled ==
    CASE Control \in {"main", "hlt", "woken"} -> TRUE
      [] Control \in {"user", "lib", "returned"} -> run[depth - 1].irq
      [] Control \in {"push", "load", "counted", "failed", "closed", "decided", "stopping",
                      "exiting", "ended"}
           -> run[depth - 1].base
      [] OTHER -> FALSE

Goto(phase) == run' = [run EXCEPT ![depth - 1].phase = phase]

(***************************************************************************)
(* run_proc_slot up to the mark, entered with the table in state procs by  *)
(* a caller of kind via: "exec" (run_path_internal), "wait" (wait_pid),    *)
(* "yield" (yield and sleep_ticks) or "tick" (exec_tick).  All but "exec"  *)
(* hold pending_dispatch_active around the run.  The push is a step of its *)
(* own: a run started by the main loop can be interrupted before it, when  *)
(* its record is RUNNING and no process is the current one.                *)
(***************************************************************************)
Dispatching(via) == via \in {"wait", "yield", "tick"}

\* Mutant: the exit request of an earlier run at this depth is kept.
NewFrame_stale(f, pid) == [f EXCEPT !.pid = pid, !.stop_requested = FALSE]

NewFrame(f, pid) == [f EXCEPT !.pid = pid, !.exit_requested = FALSE, !.exit_status = code(0),
                              !.stop_requested = FALSE]

NewRun(slot, via) ==
    [phase |-> "push", slot |-> slot, via |-> via, base |-> (depth = 0),
     irq |-> FALSE, ret |-> code(-1), spin |-> FALSE]

EnterRun(slot, procs, via) ==
    /\ depth < MAX_DEPTH
    /\ proc' = [procs EXCEPT ![slot].state = "RUNNING"]
    /\ run' = [d \in Levels |->
                 CASE d = depth -> NewRun(slot, via)
                   [] d = depth - 1 -> [run[d] EXCEPT !.phase = "call"]
                   [] OTHER -> run[d]]
    /\ depth' = depth + 1
    /\ pending_dispatch_active' = (pending_dispatch_active \/ Dispatching(via))
    /\ UNCHANGED <<frame, running_depth, dynlib, next_handle, active_tty, panicked>>

\* The stack is full: the record is marked EXITED(-1) without having run.
RefuseRun(slot, procs, back) ==
    /\ depth >= MAX_DEPTH
    /\ proc' = [procs EXCEPT ![slot] = mark_exited(@, code(-1))]
    /\ \E phase \in back : Goto(phase)
    /\ UNCHANGED <<frame, depth, running_depth, pending_dispatch_active, dynlib,
                   next_handle, active_tty, panicked>>

RunProcSlot(slot, procs, via, back) ==
    EnterRun(slot, procs, via) \/ RefuseRun(slot, procs, back)

-----------------------------------------------------------------------------
(***************************************************************************)
(* The body of run_proc_slot and invoke_entry, step by step.               *)
(***************************************************************************)

PushFrame ==
    /\ At("push")
    /\ frame' = [frame EXCEPT ![depth - 1] = NewFrame(@, proc[run[depth - 1].slot].pid)]
    /\ Goto("load")
    /\ UNCHANGED <<proc, next_pid, depth, running_depth, pending_dispatch_active, dynlib,
                   next_handle, active_tty, panicked>>

\* A missing file, a bad ELF, no memory for the image; or none for the run stack, once the run
\* has been taken out of the count.
LoadFail ==
    /\ At("load") \/ At("failed")
    /\ proc' = [proc EXCEPT ![run[depth - 1].slot] = mark_exited(@, code(-1))]
    /\ run' = [run EXCEPT ![depth - 1].phase = "ended", ![depth - 1].ret = code(-1)]
    /\ UNCHANGED <<next_pid, frame, depth, running_depth, pending_dispatch_active,
                   dynlib, next_handle, active_tty, panicked>>

\* The image is loaded, and the run counted.
CountRun ==
    /\ At("load")
    /\ running_depth' = running_depth + 1
    /\ Goto("counted")
    /\ UNCHANGED <<proc, next_pid, frame, depth, pending_dispatch_active, dynlib, next_handle,
                   active_tty, panicked>>

\* Mutant: the failure of the run stack is taken for one before the run was counted.
NoRunStack_counted ==
    /\ At("counted")
    /\ Goto("failed")
    /\ UNCHANGED <<proc, next_pid, frame, depth, running_depth, pending_dispatch_active, dynlib,
                   next_handle, active_tty, panicked>>

\* There is no memory for the run stack.
NoRunStack ==
    /\ At("counted")
    /\ running_depth' = IF running_depth > 0 THEN running_depth - 1 ELSE running_depth
    /\ Goto("failed")
    /\ UNCHANGED <<proc, next_pid, frame, depth, pending_dispatch_active, dynlib, next_handle,
                   active_tty, panicked>>

\* Unwind slot published, interrupt window opened, entry called.
InvokeEntry ==
    /\ At("counted")
    /\ frame' = [frame EXCEPT ![depth - 1].unwind_valid = TRUE]
    /\ run' = [run EXCEPT ![depth - 1].phase = "user",
                          ![depth - 1].irq = @ \/ run[depth - 1].base
                                               \/ ~pending_dispatch_active]
    /\ UNCHANGED <<proc, next_pid, depth, running_depth, pending_dispatch_active, dynlib,
                   next_handle, active_tty, panicked>>

\* The entry point returns (or was unwound): the unwind window is closed and
\* the caller's interrupt flag restored.
CloseUnwindWindow ==
    /\ At("returned")
    /\ frame' = [frame EXCEPT ![depth - 1].unwind_valid = FALSE]
    /\ Goto("closed")
    /\ UNCHANGED <<proc, next_pid, depth, running_depth, pending_dispatch_active,
                   dynlib, next_handle, active_tty, panicked>>

\* running_depth is left and a requested exit status replaces the return value.
SettleStatus ==
    /\ At("closed")
    /\ running_depth' = IF running_depth > 0 THEN running_depth - 1 ELSE running_depth
    /\ run' = [run EXCEPT ![depth - 1].phase = "decided",
                          ![depth - 1].ret = IF frame[depth - 1].exit_requested
                                             THEN frame[depth - 1].exit_status ELSE @]
    /\ UNCHANGED <<proc, next_pid, frame, depth, pending_dispatch_active, dynlib,
                   next_handle, active_tty, panicked>>

\* The test of stop_requested, and the two branches it chooses between.
TestStop ==
    /\ At("decided")
    /\ Goto(IF frame[depth - 1].stop_requested THEN "stopping" ELSE "exiting")
    /\ UNCHANGED <<proc, next_pid, frame, depth, running_depth,
                   pending_dispatch_active, dynlib, next_handle, active_tty, panicked>>

RecordStopped ==
    /\ At("stopping")
    /\ proc' = [proc EXCEPT ![run[depth - 1].slot].state = "STOPPED",
                            ![run[depth - 1].slot].exit_status = run[depth - 1].ret]
    /\ Goto("ended")
    /\ UNCHANGED <<next_pid, frame, depth, running_depth, pending_dispatch_active,
                   dynlib, next_handle, active_tty, panicked>>

RecordExited ==
    /\ At("exiting")
    /\ proc' = [proc EXCEPT ![run[depth - 1].slot] = mark_exited(@, run[depth - 1].ret)]
    /\ Goto("ended")
    /\ UNCHANGED <<next_pid, frame, depth, running_depth, pending_dispatch_active,
                   dynlib, next_handle, active_tty, panicked>>

\* Mutant: the dispatch flag is left raised.
PopFrame_keeps_flag ==
    /\ At("ended")
    /\ dynlib' = dynlib_release_owner(proc[run[depth - 1].slot].pid)
    /\ frame' = [frame EXCEPT ![depth - 1].stop_requested = FALSE]
    /\ run' = [d \in Levels |->
                 CASE d = depth - 1 -> NoRun
                   [] d = depth - 2 -> [run[d] EXCEPT !.phase = "user"]
                   [] OTHER -> run[d]]
    /\ depth' = depth - 1
    /\ UNCHANGED <<proc, next_pid, running_depth, pending_dispatch_active,
                   next_handle, active_tty, panicked>>

\* Libraries released, frame popped, dispatch flag dropped by the caller that
\* raised it.  The program below resumes; one in sleep_ticks may sleep on.
PopFrame ==
    /\ At("ended")
    /\ dynlib' = dynlib_release_owner(proc[run[depth - 1].slot].pid)
    /\ frame' = [frame EXCEPT ![depth - 1].stop_requested = FALSE]
    /\ \E back \in IF run[depth - 1].via = "yield" THEN {"user", "hlt"} ELSE {"user"} :
         run' = [d \in Levels |->
                   CASE d = depth - 1 -> NoRun
                     [] d = depth - 2 -> [run[d] EXCEPT !.phase = back]
                     [] OTHER -> run[d]]
    /\ depth' = depth - 1
    /\ pending_dispatch_active' =
         (pending_dispatch_active /\ ~Dispatching(run[depth - 1].via))
    /\ UNCHANGED <<proc, next_pid, running_depth, next_handle, active_tty, panicked>>

-----------------------------------------------------------------------------
(***************************************************************************)
(* Starting programs.  next_pid wraps at 2^64 in the code; the bound       *)
(* MAX_PID stops handing out pids long before.                             *)
(***************************************************************************)
CanAllocate(slot) == proc_alloc_slot(slot) /\ next_pid <= MAX_PID

\* spawn_path / spawn_pathv: the record is queued as PENDING.
SysSpawn(path, slot) ==
    /\ InSyscall
    /\ CanAllocate(slot)
    /\ proc' = [proc EXCEPT ![slot] = prepare_proc_record(next_pid, path, "PENDING")]
    /\ next_pid' = next_pid + 1
    /\ UNCHANGED <<frame, depth, run, running_depth, pending_dispatch_active,
                   dynlib, next_handle, active_tty, panicked>>

\* run_path / run_pathv / run_pathv_io, from a program or from the main loop
\* (the kernel shell, or userland's request for /shell/shell.elf).
ExecPath(path, slot) ==
    /\ InSyscall \/ At("main")
    /\ CanAllocate(slot)
    /\ next_pid' = next_pid + 1
    /\ RunProcSlot(slot, [proc EXCEPT ![slot] =
                            prepare_proc_record(next_pid, path, "RUNNING")],
                   "exec", {"user"})

\* run_pathv_io with an invalid stdio override: the slot taken is cleared.
SysExecBadStdio(slot) ==
    /\ InSyscall
    /\ CanAllocate(slot)
    /\ proc' = [proc EXCEPT ![slot] = NoProc]
    /\ next_pid' = next_pid + 1
    /\ UNCHANGED <<frame, depth, run, running_depth, pending_dispatch_active,
                   dynlib, next_handle, active_tty, panicked>>

\* Mutant: a stopped or running process is run by its waiter too.
SysWaitPid_any(pid, slot) ==
    /\ InSyscall
    /\ proc_find_slot_by_pid(slot, pid)
    /\ proc[slot].state # "EXITED"
    /\ ~pending_dispatch_active
    /\ UNCHANGED next_pid
    /\ RunProcSlot(slot, proc, "wait", {"user"})

\* wait_pid on a PENDING process runs it on the spot, unless a dispatch is
\* active; in every other state it only reads.
SysWaitPid(pid, slot) ==
    /\ InSyscall
    /\ proc_find_slot_by_pid(slot, pid)
    /\ proc[slot].state = "PENDING"
    /\ ~pending_dispatch_active
    /\ UNCHANGED next_pid
    /\ RunProcSlot(slot, proc, "wait", {"user"})

-----------------------------------------------------------------------------
(***************************************************************************)
(* Yield, sleep and the tick.  dispatch_pending_once runs the pending      *)
(* record with the lowest slot number unless a dispatch is already active. *)
(***************************************************************************)
\* yield and sleep_ticks open the interrupt window and halt.
SysYield ==
    /\ At("user")
    /\ Goto("hlt")
    /\ UNCHANGED <<proc, next_pid, frame, depth, running_depth,
                   pending_dispatch_active, dynlib, next_handle, active_tty, panicked>>

\* Mutant: the flag is not tested.
YieldDispatch_nested(slot) ==
    /\ At("woken")
    /\ first_of(slot, pending_slots)
    /\ UNCHANGED next_pid
    /\ RunProcSlot(slot, proc, "yield", {"user", "hlt"})

\* cli, then dispatch_pending_once: a dispatch ...
YieldDispatch(slot) ==
    /\ At("woken")
    /\ ~pending_dispatch_active /\ first_of(slot, pending_slots)
    /\ UNCHANGED next_pid
    /\ RunProcSlot(slot, proc, "yield", {"user", "hlt"})

\* ... or nothing to dispatch: back to the program, or around sleep's loop.
YieldReturn ==
    /\ At("woken")
    /\ pending_dispatch_active \/ pending_slots = {}
    /\ Goto("user")
    /\ UNCHANGED <<proc, next_pid, frame, depth, running_depth,
                   pending_dispatch_active, dynlib, next_handle, active_tty, panicked>>

SleepAgain ==
    /\ At("woken")
    /\ pending_dispatch_active \/ pending_slots = {}
    /\ Goto("hlt")
    /\ UNCHANGED <<proc, next_pid, frame, depth, running_depth,
                   pending_dispatch_active, dynlib, next_handle, active_tty, panicked>>

\* exec_tick, called from the usrd task in the kernel main loop.
ExecTick(slot) ==
    /\ At("main")
    /\ ~pending_dispatch_active /\ first_of(slot, pending_slots)
    /\ UNCHANGED next_pid
    /\ RunProcSlot(slot, proc, "tick", {})

-----------------------------------------------------------------------------
(***************************************************************************)
(* Signals and termination.                                                *)
(***************************************************************************)
Signalled(p, sig) == [p EXCEPT !.last_signal = sig, !.last_fault = 0]

\* What proc_kill makes of the target's record ...
KillRecord(p, sig) ==
    IF p.state = "EXITED" THEN p
    ELSE IF sig = SIGCONT
    THEN IF p.state = "STOPPED" THEN [Signalled(p, sig) EXCEPT !.state = "PENDING"]
                                ELSE Signalled(p, sig)
    ELSE IF p.state \notin {"PENDING", "STOPPED"} THEN Signalled(p, sig)
    ELSE IF sig = SIGSTOP THEN [Signalled(p, sig) EXCEPT !.state = "STOPPED"]
    ELSE mark_exited(Signalled(p, sig), encode_signal_status(sig, 0))

\* ... and, when the target is the current running process, of its frame.
KillFrame(f, sig) ==
    IF sig = SIGCONT THEN f
    ELSE [f EXCEPT !.exit_requested = TRUE,
                   !.exit_status = encode_signal_status(sig, 0),
                   !.stop_requested = @ \/ sig = SIGSTOP]

proc_kill(slot, pid, sig) ==
    /\ proc' = [proc EXCEPT ![slot] = KillRecord(@, sig)]
    /\ frame' = IF proc[slot].state = "RUNNING" /\ current_pid = pid
                THEN [frame EXCEPT ![pid_stack_depth - 1] = KillFrame(@, sig)] ELSE frame

SysKill(pid, slot, signal) ==
    /\ InSyscall
    /\ proc_find_slot_by_pid(slot, pid)
    /\ proc_kill(slot, pid, effective_signal(signal))
    /\ UNCHANGED <<next_pid, depth, run, running_depth, pending_dispatch_active,
                   dynlib, next_handle, active_tty, panicked>>

\* request_exit only records the request; the program keeps running.
request_exit(status) ==
    frame' = [frame EXCEPT ![depth - 1].exit_requested = TRUE,
                           ![depth - 1].exit_status = status]

SysExit(c) ==
    /\ InSyscall
    /\ request_exit(code(c))
    /\ UNCHANGED <<proc, next_pid, depth, run, running_depth, pending_dispatch_active,
                   dynlib, next_handle, active_tty, panicked>>

\* libc's exit(): the exit system call, then yields for ever.
LibcExit(c) ==
    /\ InSyscall
    /\ request_exit(code(c))
    /\ run' = [run EXCEPT ![depth - 1].spin = TRUE]
    /\ UNCHANGED <<proc, next_pid, depth, running_depth, pending_dispatch_active,
                   dynlib, next_handle, active_tty, panicked>>

\* The program returns from its entry point.
ProgramReturn(c) ==
    /\ InSyscall
    /\ run' = [run EXCEPT ![depth - 1].phase = "returned", ![depth - 1].ret = code(c)]
    /\ UNCHANGED <<proc, next_pid, frame, depth, running_depth,
                   pending_dispatch_active, dynlib, next_handle, active_tty, panicked>>

-----------------------------------------------------------------------------
(***************************************************************************)
(* Interrupts and exceptions.  rip_is_current_user_context accepts an      *)
(* address below the kernel base or inside the top run's image; code of a  *)
(* dynamic library lives in the kernel heap and is neither.                *)
(***************************************************************************)
exec_is_running == running_depth > 0

\* try_unwind_signaled_process at the end of an interrupt, and the return
\* from the interrupt: an unwound program leaves its entry point with the
\* requested status, a halted CPU wakes, anything else continues.
IrqReturn(frames) ==
    run' = CASE /\ At("user")
                /\ exec_is_running /\ current_path_is_user
                /\ frames[depth - 1].stop_requested
                /\ frames[depth - 1].unwind_valid
                  -> [run EXCEPT ![depth - 1].phase = "returned",
                                 ![depth - 1].ret = frames[depth - 1].exit_status]
             [] At("hlt") -> [run EXCEPT ![depth - 1].phase = "woken"]
             [] OTHER -> run

IrqTimer ==
    /\ IntEnabled
    /\ IrqReturn(frame)
    /\ UNCHANGED <<proc, next_pid, frame, depth, running_depth,
                   pending_dispatch_active, dynlib, next_handle, active_tty, panicked>>

\* force_stop_tty_running_process.  When the current process is not a target,
\* proc_kill refuses every other running process but has already noted the
\* signal in its record.
StoppableOn(s, tty) ==
    proc[s].state = "RUNNING" /\ proc[s].tty = tty /\ path_is_user_program(proc[s].path)

CurrentStoppable(s, tty) == /\ current_pid # 0
                            /\ proc_find_slot_by_pid(s, current_pid)
                            /\ StoppableOn(s, tty)

force_stop_tty_running_process(tty) ==
    \/ \E s \in Slots : /\ CurrentStoppable(s, tty)
                        /\ proc_kill(s, current_pid, SIGSTOP)
    \/ /\ \A s \in Slots : ~CurrentStoppable(s, tty)
       /\ proc' = [s \in Slots |-> IF StoppableOn(s, tty)
                                   THEN Signalled(proc[s], SIGSTOP) ELSE proc[s]]
       /\ frame' = frame

\* The keyboard interrupt of Ctrl+Alt+C.
IrqForceStop ==
    /\ IntEnabled
    /\ force_stop_tty_running_process(active_tty)
    /\ IrqReturn(frame')
    /\ UNCHANGED <<next_pid, depth, running_depth, pending_dispatch_active,
                   dynlib, next_handle, active_tty, panicked>>

\* The keyboard interrupt of Alt+F1..F4.
IrqSwitchTty(tty) ==
    /\ IntEnabled
    /\ active_tty' = tty
    /\ IrqReturn(frame)
    /\ UNCHANGED <<proc, next_pid, frame, depth, running_depth,
                   pending_dispatch_active, dynlib, next_handle, panicked>>

\* handle_exception for a fault of the program, raised in its image, at an
\* address below the kernel base (low) or inside a library.
FaultContext(low) == run[depth - 1].phase = "user" \/ low

FaultCaught(v, low, slot) ==
    LET status == encode_signal_status(signal_from_vector(v), v) IN
    /\ InSyscall \/ At("lib")
    /\ proc_find_slot_by_pid(slot, current_pid)
    /\ exec_is_running /\ current_path_is_user /\ FaultContext(low)
    /\ frame[depth - 1].unwind_valid
    /\ proc' = [proc EXCEPT ![slot].last_signal = signal_from_vector(v),
                            ![slot].last_fault = v]
    /\ frame' = [frame EXCEPT ![depth - 1].exit_requested = TRUE,
                              ![depth - 1].exit_status = status]
    /\ run' = [run EXCEPT ![depth - 1].phase = "returned", ![depth - 1].ret = status]
    /\ UNCHANGED <<next_pid, depth, running_depth, pending_dispatch_active,
                   dynlib, next_handle, active_tty, panicked>>

FaultPanics(low) ==
    /\ InSyscall \/ At("lib")
    /\ ~(exec_is_running /\ current_path_is_user /\ FaultContext(low))
    /\ panicked' = TRUE
    /\ UNCHANGED <<proc, next_pid, frame, depth, run, running_depth,
                   pending_dispatch_active, dynlib, next_handle, active_tty>>

-----------------------------------------------------------------------------
(***************************************************************************)
(* Dynamic libraries.  The table is per system, an entry per owner and     *)
(* path; the image is kept until the last reference or the owner's run     *)
(* ends.                                                                   *)
(***************************************************************************)
libs_of(pid) == {i \in DynSlots : dynlib[i].used /\ dynlib[i].owner = pid}
dynlib_find_by_owner_path(pid, path) == {i \in libs_of(pid) : dynlib[i].path = path}
dynlib_find_by_handle(handle) ==
    {i \in DynSlots : dynlib[i].used /\ dynlib[i].handle = handle}
dynlib_free == {i \in DynSlots : ~dynlib[i].used}

DlOpenAgain(path) ==
    /\ InSyscall
    /\ \E i \in dynlib_find_by_owner_path(current_pid, path) :
         /\ dynlib[i].ref < MAX_REF
         /\ dynlib' = [dynlib EXCEPT ![i].ref = @ + 1]
    /\ UNCHANGED <<proc, next_pid, frame, depth, run, running_depth,
                   pending_dispatch_active, next_handle, active_tty, panicked>>

DlOpenNew(path, slot) ==
    /\ InSyscall
    /\ dynlib_find_by_owner_path(current_pid, path) = {}
    /\ first_of(slot, dynlib_free)
    /\ next_handle <= MAX_HANDLE
    /\ dynlib' = [dynlib EXCEPT ![slot] =
                    [used |-> TRUE, handle |-> next_handle, owner |-> current_pid,
                     path |-> path, ref |-> 1]]
    /\ next_handle' = next_handle + 1
    /\ UNCHANGED <<proc, next_pid, frame, depth, run, running_depth,
                   pending_dispatch_active, active_tty, panicked>>

dynlib_drop_ref(lib) == IF lib.ref > 1 THEN [lib EXCEPT !.ref = @ - 1] ELSE NoLib

\* Any handle may be passed; only the owner's is accepted.
DlClose(handle) ==
    /\ InSyscall
    /\ \E i \in dynlib_find_by_handle(handle) :
         /\ dynlib[i].owner = current_pid
         /\ dynlib' = [dynlib EXCEPT ![i] = dynlib_drop_ref(dynlib[i])]
    /\ UNCHANGED <<proc, next_pid, frame, depth, run, running_depth,
                   pending_dispatch_active, next_handle, active_tty, panicked>>

\* The program calls a symbol of a library it holds, and comes back.
EnterLibrary ==
    /\ InSyscall
    /\ libs_of(current_pid) # {}
    /\ Goto("lib")
    /\ UNCHANGED <<proc, next_pid, frame, depth, running_depth,
                   pending_dispatch_active, dynlib, next_handle, active_tty, panicked>>

LeaveLibrary ==
    /\ At("lib")
    /\ Goto("user")
    /\ UNCHANGED <<proc, next_pid, frame, depth, running_depth,
                   pending_dispatch_active, dynlib, next_handle, active_tty, panicked>>

-----------------------------------------------------------------------------
\* clks_exec_init, after which the first tty is active.
Init ==
    /\ proc = [s \in Slots |-> NoProc]
    /\ next_pid = 1
    /\ frame = [d \in Levels |-> NoFrame]
    /\ depth = 0
    /\ run = [d \in Levels |-> NoRun]
    /\ running_depth = 0
    /\ pending_dispatch_active = FALSE
    /\ dynlib = [i \in DynSlots |-> NoLib]
    /\ next_handle = 1
    /\ active_tty \in Ttys
    /\ panicked = FALSE

RunStep == PushFrame \/ LoadFail \/ CountRun \/ NoRunStack \/ InvokeEntry \/ CloseUnwindWindow
           \/ SettleStatus \/ TestStop \/ RecordStopped \/ RecordExited \/ PopFrame

LaunchStep == \E slot \in Slots :
    \/ \E path \in Paths : SysSpawn(path, slot) \/ ExecPath(path, slot)
    \/ SysExecBadStdio(slot)
    \/ \E pid \in 1 .. MAX_PID : SysWaitPid(pid, slot)
    \/ YieldDispatch(slot) \/ ExecTick(slot)

YieldStep == SysYield \/ YieldReturn \/ SleepAgain

SignalStep ==
    \/ \E pid \in 1 .. MAX_PID, slot \in Slots, signal \in Signals :
         SysKill(pid, slot, signal)
    \/ \E c \in Codes : SysExit(c) \/ LibcExit(c) \/ ProgramReturn(c)

InterruptStep ==
    \/ IrqTimer \/ IrqForceStop
    \/ \E tty \in Ttys : IrqSwitchTty(tty)
    \/ \E v \in Vectors, low \in BOOLEAN, slot \in Slots : FaultCaught(v, low, slot)
    \/ \E v \in Vectors, low \in BOOLEAN : FaultPanics(low)

LibraryStep ==
    \/ \E path \in LibPaths : DlOpenAgain(path)
    \/ \E path \in LibPaths, slot \in DynSlots : DlOpenNew(path, slot)
    \/ \E handle \in 1 .. MAX_HANDLE : DlClose(handle)
    \/ EnterLibrary \/ LeaveLibrary

Next == RunStep \/ LaunchStep \/ YieldStep \/ SignalStep \/ InterruptStep \/ LibraryStep

Spec == Init /\ [][Next]_vars

-----------------------------------------------------------------------------
(***************************************************************************)
(* Properties.                                                             *)
(***************************************************************************)
States == {"UNUSED", "PENDING", "RUNNING", "EXITED", "STOPPED"}

\* Phases in which the entry point of the run has been called and has not
\* been left for good: the run stack is allocated and its unwind slot live.
CalledPhases == {"user", "lib", "hlt", "woken", "call", "returned"}
Phases == CalledPhases \cup {"none", "push", "load", "counted", "failed", "closed", "decided",
                             "stopping", "exiting", "ended"}

MaybePath == Paths \cup {""}
MaybeLib == LibPaths \cup {""}
ProcRecord == [state : States, pid : 0 .. MAX_PID, path : MaybePath,
               exit_status : Statuses, tty : Ttys \cup {0}, last_signal : 0 .. 255,
               last_fault : 0 .. 31]
FrameRecord == [pid : 0 .. MAX_PID, exit_requested : BOOLEAN, exit_status : Statuses,
                stop_requested : BOOLEAN, unwind_valid : BOOLEAN]
RunRecord == [phase : Phases, slot : Slots, via : {"none", "exec", "wait", "yield", "tick"},
              base : BOOLEAN, irq : BOOLEAN, ret : Statuses, spin : BOOLEAN]
LibRecord == [used : BOOLEAN, handle : 0 .. MAX_HANDLE, owner : 0 .. MAX_PID,
              path : MaybeLib, ref : 0 .. MAX_REF + 1]

\* Every variable holds a value of its kind, whatever programs and interrupts do.
TypeOK ==
    /\ proc \in [Slots -> ProcRecord]
    /\ next_pid \in 1 .. MAX_PID + 1
    /\ frame \in [Levels -> FrameRecord]
    /\ depth \in 0 .. MAX_DEPTH
    /\ run \in [Levels -> RunRecord]
    /\ running_depth \in 0 .. MAX_DEPTH
    /\ pending_dispatch_active \in BOOLEAN
    /\ dynlib \in [DynSlots -> LibRecord]
    /\ next_handle \in 1 .. MAX_HANDLE + 1
    /\ active_tty \in Ttys
    /\ panicked \in BOOLEAN

Stacked == 0 .. depth - 1

\* The frame stack and the process table agree: every frame belongs to a record
\* with its pid, no record is run twice, a frame's record is RUNNING until its
\* run has recorded the outcome, and a RUNNING record has a frame, or is about to
\* be given the next one.  It is what proc_kill, wait_pid and the eviction of
\* EXITED slots rely on.
FramesMatchTable ==
    /\ \A d \in Stacked :
         /\ run[d].phase # "push" => proc[run[d].slot].pid = frame[d].pid
         /\ IF d = depth - 1 /\ run[d].phase = "ended"
            THEN proc[run[d].slot].state \in {"EXITED", "STOPPED"}
            ELSE proc[run[d].slot].state = "RUNNING"
    /\ \A d, e \in Stacked : d # e => run[d].slot # run[e].slot
    /\ \A s \in Slots : proc[s].state = "RUNNING" => \E d \in Stacked : run[d].slot = s

\* No two live records share a pid, so a search by pid finds the process meant.
PidsUnique ==
    /\ \A s \in Slots : proc[s].state # "UNUSED" => proc[s].pid \in 1 .. next_pid - 1
    /\ \A s, t \in Slots :
         proc[s].state # "UNUSED" /\ proc[t].state # "UNUSED" /\ s # t
           => proc[s].pid # proc[t].pid

\* pending_dispatch_active is raised exactly while one dispatched run is on the
\* stack: dispatches never nest ("without recursive launch storm") and the flag
\* is never left behind by a run that failed, faulted or was stopped.
OneDispatch ==
    /\ pending_dispatch_active <=> \E d \in Stacked : Dispatching(run[d].via)
    /\ \A d, e \in Stacked :
         Dispatching(run[d].via) /\ Dispatching(run[e].via) => d = e

\* running_depth counts the runs from just before the call of their entry point,
\* or the failure to get a stack for it, until the return, or the failure, has
\* been processed, so exec_is_running tells the interrupt handlers the truth at
\* every step of a run.
RunningDepthExact ==
    running_depth = IF depth = 0 THEN 0
                    ELSE IF run[depth - 1].phase \in CalledPhases \cup {"counted", "closed"}
                    THEN depth ELSE depth - 1

\* An unwind slot is valid exactly while the run stack it points into is the
\* stack of a called entry point: no interrupt or fault can resume on a freed
\* run stack, and every called program can be unwound.
UnwindSlotsLive ==
    \A d \in Levels : frame[d].unwind_valid <=> d < depth /\ run[d].phase \in CalledPhases

\* The frame stack, the process table and the run stacks agree, and a search by
\* pid, which is how proc_kill, wait_pid and force_stop_tty_running_process get
\* from one to the other, finds the record that was meant.
StackAndTable == FramesMatchTable /\ PidsUnique /\ UnwindSlotsLive

\* A program executes with interrupts masked exactly when it is nested and it or
\* a program below it was started by a pending dispatch.
MaskedOnlyUnderDispatch ==
    \A d \in Stacked : run[d].phase \in CalledPhases =>
        (run[d].irq <=> d = 0 \/ \A e \in 0 .. d : ~Dispatching(run[e].via))

\* What the kernel keeps about the runs on the stack is true at every step of a
\* run, however it ends: the dispatch flag, the running count and the interrupt
\* flag that programs execute under.
RunsAccounted == OneDispatch /\ RunningDepthExact /\ MaskedOnlyUnderDispatch

\* No program passes proc_kill a signal, other than 0, whose low byte is 0: such
\* a signal is recorded as signal 0, and last_signal no longer tells a process
\* that was signalled from one that was not.
NonzeroSignals == \A signal \in Signals : effective_signal(signal) # 0

\* An exit status that encodes a signal is only ever seen on a process that was
\* signalled or faulted itself: no request left in the stacks by an earlier run
\* at the same depth leaks into a later one.
SignalStatusHasCause ==
    NonzeroSignals => \A s \in Slots :
        proc[s].state \in {"EXITED", "STOPPED"} /\ proc[s].exit_status[1] = "signal"
          => proc[s].last_signal # 0

\* Only a process that is on the run stack owns dynamic libraries, one entry for
\* each path and handle: release_owner leaves nothing behind, whichever way the
\* owner's run ended, and a later process can never inherit an entry.
LibrariesOwned ==
    /\ \A i \in DynSlots : dynlib[i].used =>
         /\ dynlib[i].ref > 0
         /\ \E d \in Stacked : run[d].phase # "push" /\ frame[d].pid = dynlib[i].owner
    /\ \A i, j \in DynSlots : i # j /\ dynlib[i].used /\ dynlib[j].used =>
         /\ dynlib[i].handle # dynlib[j].handle
         /\ dynlib[i].owner = dynlib[j].owner => dynlib[i].path # dynlib[j].path

\* The life of a record: a live process is never evicted from its slot, an EXITED
\* record keeps its status until the slot is reused, and states change only along
\* pending -> running -> exited with the STOP and CONT detours.
LegalChange(p, q) ==
    \/ q = p
    \/ p.state \in {"UNUSED", "EXITED"} /\ q.state = "UNUSED"
    \/ /\ p.state \in {"UNUSED", "EXITED"} /\ q.pid = next_pid
       /\ q.state \in {"PENDING", "RUNNING", "EXITED"}
    \/ /\ q.pid = p.pid
       /\ <<p.state, q.state>> \in
            {<<"PENDING", "PENDING">>, <<"PENDING", "RUNNING">>, <<"PENDING", "STOPPED">>,
             <<"PENDING", "EXITED">>, <<"RUNNING", "RUNNING">>, <<"RUNNING", "STOPPED">>,
             <<"RUNNING", "EXITED">>, <<"STOPPED", "STOPPED">>, <<"STOPPED", "PENDING">>,
             <<"STOPPED", "EXITED">>}

Lifecycle == [][\A s \in Slots : LegalChange(proc[s], proc'[s])]_vars

-----------------------------------------------------------------------------
(***************************************************************************)
(* The inductive invariant behind the safety properties.                   *)
(***************************************************************************)

UncalledPhases == {"push", "load", "counted", "failed"}

\* Control: only the top run executes, the ones below wait for it.
ControlShape ==
    \A d \in Levels :
        /\ d < depth - 1 => run[d].phase = "call"
        /\ d = depth - 1 => run[d].phase \notin {"none", "call"}
        /\ d >= depth => run[d].phase = "none"
        /\ d < depth => (run[d].base <=> d = 0)
        /\ run[d].phase \in UncalledPhases => ~run[d].irq

\* Requests: a stop is always also an exit request, and a signal status on its
\* way to a record already has its cause in that record.
RequestsCaused ==
    NonzeroSignals => \A d \in Stacked :
        /\ run[d].phase # "push" /\ frame[d].stop_requested => frame[d].exit_requested
        /\ run[d].phase # "push" /\ frame[d].exit_requested /\ frame[d].exit_status[1] = "signal"
             => proc[run[d].slot].last_signal # 0
        /\ run[d].ret[1] = "signal" => proc[run[d].slot].last_signal # 0

\* Libraries: handles in use were handed out.
HandlesIssued == \A i \in DynSlots : dynlib[i].used => dynlib[i].handle < next_handle

IInv == /\ TypeOK /\ ControlShape /\ FramesMatchTable /\ PidsUnique /\ OneDispatch
        /\ RunningDepthExact /\ UnwindSlotsLive /\ MaskedOnlyUnderDispatch
        /\ RequestsCaused /\ SignalStatusHasCause /\ HandlesIssued /\ LibrariesOwned
=============================================================================
