-------------------------- MODULE ExecProcsProofs --------------------------
(***************************************************************************)
(* The safety properties of ExecProcs for every size of the tables, every  *)
(* nesting limit and every set of programs, libraries, terminals and       *)
(* signals.  The inductive invariant is IInv of ExecProcs.  Most actions   *)
(* leave the stack of runs as it is and touch one field of the top run, so *)
(* the proof first says what such a step keeps (StackKept and the lemmas   *)
(* Kept...), then treats the actions one by one, the push and the pop last.*)
(***************************************************************************)
EXTENDS ExecProcs, TLAPS

\* The stack has the same runs, with the same process, caller and callers' IF.
StackKept ==
    /\ depth' = depth
    /\ pending_dispatch_active' = pending_dispatch_active
    /\ \A d \in Levels : /\ run'[d].slot = run[d].slot
                         /\ run'[d].via = run[d].via
                         /\ run'[d].base = run[d].base
                         /\ frame'[d].pid = frame[d].pid
                         /\ run'[d].phase = "push" <=> run[d].phase = "push"

\* Records keep their pid and stay running or not running.
RecordsKept ==
    \A s \in Slots : /\ proc'[s].pid = proc[s].pid
                     /\ proc'[s].state = "RUNNING" <=> proc[s].state = "RUNNING"
                     /\ proc'[s].state = "UNUSED" <=> proc[s].state = "UNUSED"

-----------------------------------------------------------------------------
(***************************************************************************)
(* Records with some fields rewritten.  The sets of values are hidden: what *)
(* is in them does not matter.                                             *)
(***************************************************************************)
InState(p, st) == [p EXCEPT !.state = st]
LEMMA StateUpdate ==
  ASSUME NEW p \in ProcRecord, NEW st \in States, NEW q, q = InState(p, st)
  PROVE  /\ q \in ProcRecord
         /\ q.state = st /\ q.pid = p.pid /\ q.exit_status = p.exit_status /\ q.last_signal = p.last_signal
<1> DEFINE Pid == 0 .. MAX_PID
           Tty == Ttys \cup {0}
           Sig == 0 .. 255
           Vec == 0 .. 31
           Record == [state : States, pid : Pid, path : MaybePath, exit_status : Statuses, tty : Tty,
                      last_signal : Sig, last_fault : Vec]
<1>1. p \in Record /\ ProcRecord = Record
  BY DEF ProcRecord
<1> HIDE DEF Pid, Tty, Sig, Vec
<1>2. q \in Record
  BY <1>1 DEF InState
<1>3. /\ q.state = st /\ q.pid = p.pid /\ q.exit_status = p.exit_status /\ q.last_signal = p.last_signal
  BY <1>1 DEF InState
<1> QED BY <1>1, <1>2, <1>3

Ended(p, st, status) == [p EXCEPT !.state = st, !.exit_status = status]
LEMMA EndUpdate ==
  ASSUME NEW p \in ProcRecord, NEW st \in States, NEW status \in Statuses, NEW q, q = Ended(p, st, status)
  PROVE  /\ q \in ProcRecord
         /\ q.state = st /\ q.exit_status = status /\ q.pid = p.pid /\ q.last_signal = p.last_signal
<1> DEFINE Pid == 0 .. MAX_PID
           Tty == Ttys \cup {0}
           Sig == 0 .. 255
           Vec == 0 .. 31
           Record == [state : States, pid : Pid, path : MaybePath, exit_status : Statuses, tty : Tty,
                      last_signal : Sig, last_fault : Vec]
<1>1. p \in Record /\ ProcRecord = Record
  BY DEF ProcRecord
<1> HIDE DEF Pid, Tty, Sig, Vec
<1>2. q \in Record
  BY <1>1 DEF Ended
<1>3. /\ q.state = st /\ q.exit_status = status /\ q.pid = p.pid /\ q.last_signal = p.last_signal
  BY <1>1 DEF Ended
<1> QED BY <1>1, <1>2, <1>3

Faulted(p, sig, v) == [p EXCEPT !.last_signal = sig, !.last_fault = v]
SignalBytes == 0 .. 255
VectorNumbers == 0 .. 31
LEMMA FaultUpdate ==
  ASSUME NEW p \in ProcRecord, NEW sig \in SignalBytes, NEW v \in VectorNumbers,
         NEW q, q = Faulted(p, sig, v)
  PROVE  /\ q \in ProcRecord
         /\ q.last_signal = sig /\ q.state = p.state /\ q.pid = p.pid
<1> DEFINE Pid == 0 .. MAX_PID
           Tty == Ttys \cup {0}
           Record == [state : States, pid : Pid, path : MaybePath, exit_status : Statuses, tty : Tty,
                      last_signal : SignalBytes, last_fault : VectorNumbers]
<1>1. p \in Record /\ ProcRecord = Record
  BY DEF ProcRecord, SignalBytes, VectorNumbers
<1> HIDE DEF Pid, Tty
<1>2. q \in Record
  BY <1>1 DEF Faulted
<1>3. /\ q.last_signal = sig /\ q.state = p.state /\ q.pid = p.pid
  BY <1>1 DEF Faulted
<1> QED BY <1>1, <1>2, <1>3

Requested(p, status) == [p EXCEPT !.exit_requested = TRUE, !.exit_status = status]
LEMMA RequestUpdate ==
  ASSUME NEW p \in FrameRecord, NEW status \in Statuses, NEW q, q = Requested(p, status)
  PROVE  /\ q \in FrameRecord
         /\ q.exit_requested /\ q.exit_status = status
         /\ q.pid = p.pid /\ q.unwind_valid = p.unwind_valid /\ q.stop_requested = p.stop_requested
<1> DEFINE Pid == 0 .. MAX_PID
           Record == [pid : Pid, exit_requested : BOOLEAN, exit_status : Statuses,
                      stop_requested : BOOLEAN, unwind_valid : BOOLEAN]
<1>1. p \in Record /\ FrameRecord = Record
  BY DEF FrameRecord
<1> HIDE DEF Pid
<1>2. q \in Record
  BY <1>1 DEF Requested
<1>3. /\ q.exit_requested /\ q.exit_status = status
      /\ q.pid = p.pid /\ q.unwind_valid = p.unwind_valid /\ q.stop_requested = p.stop_requested
  BY <1>1 DEF Requested
<1> QED BY <1>1, <1>2, <1>3

InPhase(p, ph) == [p EXCEPT !.phase = ph]
LEMMA PhaseUpdate ==
  ASSUME NEW p \in RunRecord, NEW ph \in Phases, NEW q, q = InPhase(p, ph)
  PROVE  /\ q \in RunRecord
         /\ q.phase = ph /\ q.ret = p.ret
         /\ q.slot = p.slot /\ q.via = p.via /\ q.base = p.base /\ q.irq = p.irq
<1> DEFINE Via == {"none", "exec", "wait", "yield", "tick"}
           Record == [phase : Phases, slot : Slots, via : Via, base : BOOLEAN, irq : BOOLEAN, ret : Statuses, spin : BOOLEAN]
<1>1. p \in Record /\ RunRecord = Record
  BY DEF RunRecord
<1> HIDE DEF Via
<1>2. q \in Record
  BY <1>1 DEF InPhase
<1>3. /\ q.phase = ph /\ q.ret = p.ret
      /\ q.slot = p.slot /\ q.via = p.via /\ q.base = p.base /\ q.irq = p.irq
  BY <1>1 DEF InPhase
<1> QED BY <1>1, <1>2, <1>3

-----------------------------------------------------------------------------
LEMMA StackedLevels == TypeOK => Stacked \subseteq Levels
  BY LimitsAssumption DEF TypeOK, Stacked, Levels

LEMMA KeptDispatch ==
  ASSUME IInv, StackKept PROVE OneDispatch'
  BY StackedLevels DEF IInv, StackKept, OneDispatch, Stacked

LEMMA KeptMasked ==
  ASSUME IInv, StackKept,
         \A d \in Levels : run'[d].irq = run[d].irq,
         \A d \in Levels : run'[d].phase \in CalledPhases => run[d].phase \in CalledPhases
  PROVE  MaskedOnlyUnderDispatch'
<1>1. \A d \in Stacked : 0 .. d \subseteq Levels
  BY LimitsAssumption DEF IInv, TypeOK, Stacked, Levels
<1> QED
  BY <1>1, StackedLevels DEF IInv, StackKept, MaskedOnlyUnderDispatch, Stacked

LEMMA KeptLibraries ==
  ASSUME IInv, StackKept, dynlib' = dynlib, next_handle' = next_handle
  PROVE  HandlesIssued' /\ LibrariesOwned'
  BY StackedLevels DEF IInv, StackKept, HandlesIssued, LibrariesOwned, Stacked

LEMMA KeptFrames ==
  ASSUME IInv, StackKept, RecordsKept,
         \A d \in Levels : run'[d].phase = "ended" <=> run[d].phase = "ended",
         \A d \in Levels : run[d].phase = "ended" =>
            proc'[run[d].slot].state = proc[run[d].slot].state
  PROVE  FramesMatchTable'
<1>1. \A d \in Stacked : d \in Levels /\ run[d].slot \in Slots
  BY StackedLevels DEF IInv, TypeOK, RunRecord
<1> QED
  BY <1>1 DEF IInv, StackKept, RecordsKept, FramesMatchTable, Stacked

LEMMA KeptPids ==
  ASSUME IInv, RecordsKept, next_pid' = next_pid
  PROVE  PidsUnique'
  BY DEF IInv, RecordsKept, PidsUnique

LEMMA KeptRequests ==
  ASSUME IInv, StackKept,
         \A s \in Slots : proc[s].last_signal # 0 => proc'[s].last_signal # 0,
         \A d \in Levels : /\ run'[d].ret = run[d].ret
                           /\ frame'[d].exit_requested = frame[d].exit_requested
                           /\ frame'[d].exit_status = frame[d].exit_status
                           /\ frame'[d].stop_requested = frame[d].stop_requested
  PROVE  RequestsCaused'
<1>1. \A d \in Stacked : d \in Levels /\ run[d].slot \in Slots
  BY StackedLevels DEF IInv, TypeOK, RunRecord
<1> QED
  BY <1>1 DEF IInv, StackKept, RequestsCaused, Stacked

-----------------------------------------------------------------------------
LEMMA TopRun ==
  ASSUME IInv, NEW phase, phase \notin {"halted", "main"}, At(phase)
  PROVE  /\ depth \in 1 .. MAX_DEPTH
         /\ depth - 1 \in Levels /\ depth - 1 \in Stacked
         /\ run[depth - 1].phase = phase
         /\ run[depth - 1].slot \in Slots
         /\ phase # "push" => pid_stack_depth = depth
         /\ ~panicked
<1>0. phase # "push" /\ run[depth - 1].phase = phase => pid_stack_depth = depth
  BY DEF pid_stack_depth
<1>1. depth # 0 /\ run[depth - 1].phase = phase /\ ~panicked
  BY DEF At, Control
<1>2. depth \in 1 .. MAX_DEPTH /\ depth - 1 \in Levels /\ depth - 1 \in Stacked
  BY <1>1, LimitsAssumption DEF IInv, TypeOK, Levels, Stacked
<1> QED
  BY <1>0, <1>1, <1>2 DEF IInv, TypeOK, RunRecord

\* The frame of the current process belongs to a run that was pushed.
LEMMA FramedTop ==
  ASSUME IInv, pid_stack_depth # 0
  PROVE  /\ pid_stack_depth - 1 \in Levels /\ pid_stack_depth - 1 \in Stacked
         /\ run[pid_stack_depth - 1].phase # "push" /\ run[pid_stack_depth - 1].slot \in Slots
         /\ current_pid = frame[pid_stack_depth - 1].pid
<1>1. depth \in 0 .. MAX_DEPTH /\ (pid_stack_depth = depth \/ pid_stack_depth = depth - 1)
  BY DEF IInv, TypeOK, pid_stack_depth
<1>2. depth \in 1 .. MAX_DEPTH
  BY <1>1 DEF pid_stack_depth
<1>3. pid_stack_depth - 1 \in Levels /\ pid_stack_depth - 1 \in Stacked
  BY <1>1, <1>2, LimitsAssumption DEF Levels, Stacked
<1>4. run[pid_stack_depth - 1].phase # "push"
  <2>1. CASE pid_stack_depth = depth
    BY <1>2, <2>1 DEF pid_stack_depth
  <2>2. CASE pid_stack_depth = depth - 1
    <3>1. pid_stack_depth - 1 < depth - 1
      BY <1>2, <2>2
    <3> QED BY <1>3, <3>1 DEF IInv, ControlShape
  <2> QED BY <1>1, <2>1, <2>2
<1> QED
  BY <1>3, <1>4 DEF IInv, TypeOK, RunRecord, current_pid

-----------------------------------------------------------------------------
(***************************************************************************)
(* Quiet steps: the top run moves between points of the called program, or *)
(* nowhere, and no run starts or ends.  System calls that only signal or   *)
(* open libraries, yields, interrupts and faults are of this kind.         *)
(***************************************************************************)
ProgramPhases == CalledPhases \ {"call"}

PhasesKept ==
    \A d \in Levels :
        /\ run'[d].irq = run[d].irq
        /\ frame'[d].unwind_valid = frame[d].unwind_valid
        /\ \/ run'[d].phase = run[d].phase
           \/ /\ d = depth - 1
              /\ run[d].phase \in ProgramPhases /\ run'[d].phase \in ProgramPhases

LEMMA QuietStep ==
  ASSUME IInv, TypeOK', StackKept, PhasesKept, RecordsKept,
         \A s \in Slots : proc[s].state = "EXITED" => proc'[s].state = "EXITED",
         \A s \in Slots : proc[s].state = "STOPPED" /\ proc'[s].state # "STOPPED" =>
            run[depth - 1].phase \in ProgramPhases,
         next_pid' = next_pid, running_depth' = running_depth,
         RequestsCaused', SignalStatusHasCause', HandlesIssued', LibrariesOwned'
  PROVE  IInv'
<1>1. \A d \in Levels : run'[d].phase \in CalledPhases <=> run[d].phase \in CalledPhases
  BY DEF PhasesKept, ProgramPhases
<1>2. \A d \in Levels : /\ run'[d].phase = "ended" <=> run[d].phase = "ended"
                        /\ run'[d].phase = "closed" <=> run[d].phase = "closed"
                        /\ run'[d].phase = "counted" <=> run[d].phase = "counted"
                        /\ run'[d].phase \in UncalledPhases <=> run[d].phase \in UncalledPhases
  BY DEF PhasesKept, ProgramPhases, CalledPhases, UncalledPhases
<1>3. \A d \in Levels : run[d].phase = "ended" => d = depth - 1
  BY DEF IInv, TypeOK, ControlShape, Levels
<1>4. ASSUME NEW d \in Levels, run[d].phase = "ended"
      PROVE  proc'[run[d].slot].state = proc[run[d].slot].state
  <2>1. d = depth - 1 /\ d \in Stacked /\ run[d].slot \in Slots
    BY <1>3, <1>4, StackedLevels DEF IInv, TypeOK, Stacked, Levels, RunRecord
  <2>2. proc[run[d].slot].state \in {"EXITED", "STOPPED"}
    BY <2>1, <1>4 DEF IInv, FramesMatchTable
  <2> QED
    BY <2>1, <2>2, <1>4 DEF ProgramPhases, CalledPhases
<1>5. FramesMatchTable'
  BY <1>2, <1>4, KeptFrames
<1>6. ControlShape'
  <2> SUFFICES ASSUME NEW d \in Levels
               PROVE  /\ d < depth - 1 => run'[d].phase = "call"
                      /\ d = depth - 1 => run'[d].phase \notin {"none", "call"}
                      /\ d >= depth => run'[d].phase = "none"
                      /\ d < depth => (run'[d].base <=> d = 0)
                      /\ run'[d].phase \in UncalledPhases => ~run'[d].irq
    BY DEF ControlShape, StackKept
  <2>0. /\ d < depth - 1 => run[d].phase = "call"
        /\ d = depth - 1 => run[d].phase \notin {"none", "call"}
        /\ d >= depth => run[d].phase = "none"
        /\ d < depth => (run[d].base <=> d = 0)
        /\ run[d].phase \in UncalledPhases => ~run[d].irq
    BY DEF IInv, ControlShape
  <2>1. d \in Int /\ depth \in Int
    BY LimitsAssumption DEF IInv, TypeOK, Levels
  <2>2. /\ run'[d].base = run[d].base /\ run'[d].irq = run[d].irq
        /\ run'[d].phase \in UncalledPhases <=> run[d].phase \in UncalledPhases
    BY <1>2 DEF StackKept, PhasesKept
  <2>3. \/ run'[d].phase = run[d].phase
        \/ d = depth - 1 /\ run'[d].phase \notin {"none", "call"}
    BY DEF PhasesKept, ProgramPhases, CalledPhases
  <2> QED
    BY <2>0, <2>1, <2>2, <2>3
<1>7. RunningDepthExact'
  <2>1. depth # 0 => depth - 1 \in Levels
    BY LimitsAssumption DEF IInv, TypeOK, Levels
  <2> QED
    BY <2>1, <1>1, <1>2 DEF IInv, RunningDepthExact, StackKept
<1>8. UnwindSlotsLive'
  BY <1>1 DEF IInv, UnwindSlotsLive, StackKept, PhasesKept
<1>9. MaskedOnlyUnderDispatch'
  BY <1>1, KeptMasked DEF PhasesKept
<1> QED
  BY <1>5, <1>6, <1>7, <1>8, <1>9, KeptPids, KeptDispatch DEF IInv

LEMMA GotoStep ==
  ASSUME IInv, NEW p \in ProgramPhases, NEW q \in ProgramPhases, At(p), Goto(q),
         UNCHANGED <<proc, next_pid, frame, depth, running_depth,
                     pending_dispatch_active, dynlib, next_handle, panicked>>,
         active_tty' \in Ttys
  PROVE  IInv'
<1>1. depth - 1 \in Levels /\ run[depth - 1].phase = p
  BY TopRun DEF ProgramPhases, CalledPhases
<1>2. \A d \in Levels : run'[d] = IF d = depth - 1 THEN [run[d] EXCEPT !.phase = q] ELSE run[d]
  BY <1>1 DEF Goto, IInv, TypeOK
<1>3. TypeOK'
  <2>1. run' \in [Levels -> RunRecord]
    BY <1>1 DEF Goto, IInv, TypeOK, RunRecord, ProgramPhases, Phases
  <2> QED BY <2>1 DEF IInv, TypeOK
<1>4. StackKept /\ PhasesKept
  <2>1. p # "push" /\ q # "push"
    BY DEF ProgramPhases, CalledPhases
  <2>2. run[depth - 1] \in RunRecord
    BY <1>1 DEF IInv, TypeOK
  <2>3. /\ run'[depth - 1].phase = q
        /\ run'[depth - 1].slot = run[depth - 1].slot /\ run'[depth - 1].via = run[depth - 1].via
        /\ run'[depth - 1].base = run[depth - 1].base /\ run'[depth - 1].irq = run[depth - 1].irq
    BY <1>1, <1>2, <2>2 DEF RunRecord
  <2>4. \A d \in Levels : d # depth - 1 => run'[d] = run[d]
    BY <1>2
  <2> QED
    BY <1>1, <2>1, <2>3, <2>4 DEF StackKept, PhasesKept
<1>5. RecordsKept
  BY DEF RecordsKept
<1>6. RequestsCaused'
  BY <1>2, <1>4, KeptRequests DEF IInv, TypeOK, RunRecord
<1>7. SignalStatusHasCause'
  BY DEF IInv, SignalStatusHasCause
<1> QED
  BY <1>3, <1>4, <1>5, <1>6, <1>7, QuietStep, KeptLibraries

LEMMA YieldStepIInv == IInv /\ YieldStep => IInv'
<1> SUFFICES ASSUME IInv, YieldStep PROVE IInv'
  OBVIOUS
<1>0. active_tty' \in Ttys
  BY DEF YieldStep, SysYield, YieldReturn, SleepAgain, IInv, TypeOK
<1> USE DEF ProgramPhases, CalledPhases
<1>1. CASE SysYield
  BY <1>0, <1>1, GotoStep DEF SysYield
<1>2. CASE YieldReturn
  BY <1>0, <1>2, GotoStep DEF YieldReturn
<1>3. CASE SleepAgain
  BY <1>0, <1>3, GotoStep DEF SleepAgain
<1> QED
  BY <1>1, <1>2, <1>3 DEF YieldStep

LEMMA LibraryCallIInv == IInv /\ (EnterLibrary \/ LeaveLibrary) => IInv'
<1> SUFFICES ASSUME IInv, EnterLibrary \/ LeaveLibrary PROVE IInv'
  OBVIOUS
<1>0. active_tty' \in Ttys
  BY DEF EnterLibrary, LeaveLibrary, IInv, TypeOK
<1> USE DEF ProgramPhases, CalledPhases
<1>1. CASE EnterLibrary
  BY <1>0, <1>1, GotoStep DEF EnterLibrary, InSyscall
<1>2. CASE LeaveLibrary
  BY <1>0, <1>2, GotoStep DEF LeaveLibrary
<1> QED
  BY <1>1, <1>2

\* A step that changes nothing but the library table and the active terminal.
LEMMA TableStep ==
  ASSUME IInv, UNCHANGED <<proc, next_pid, frame, depth, run, running_depth,
                           pending_dispatch_active>>,
         active_tty' \in Ttys, panicked' \in BOOLEAN,
         dynlib' \in [DynSlots -> LibRecord], next_handle' \in 1 .. MAX_HANDLE + 1,
         HandlesIssued', LibrariesOwned'
  PROVE  IInv'
<1>1. TypeOK'
  BY DEF IInv, TypeOK
<1>2. StackKept /\ PhasesKept /\ RecordsKept
  BY DEF StackKept, PhasesKept, RecordsKept
<1>3. RequestsCaused' /\ SignalStatusHasCause'
  BY DEF IInv, RequestsCaused, SignalStatusHasCause, Stacked
<1> QED
  BY <1>1, <1>2, <1>3, QuietStep

LEMMA FaultPanicsIInv ==
  ASSUME IInv, NEW low, FaultPanics(low) PROVE IInv'
<1>1. StackKept
  BY DEF FaultPanics, StackKept
<1> QED
  BY <1>1, KeptLibraries, TableStep DEF FaultPanics, IInv, TypeOK

LEMMA DlStepIInv ==
  ASSUME IInv,
         \/ \E path \in LibPaths : DlOpenAgain(path)
         \/ \E path \in LibPaths, slot \in DynSlots : DlOpenNew(path, slot)
         \/ \E handle \in 1 .. MAX_HANDLE : DlClose(handle)
  PROVE  IInv'
<1>0. InSyscall /\ At("user")
  BY DEF DlOpenAgain, DlOpenNew, DlClose, InSyscall
<1>1. /\ depth \in 1 .. MAX_DEPTH /\ depth - 1 \in Stacked /\ depth - 1 \in Levels
      /\ run[depth - 1].phase # "push" /\ pid_stack_depth = depth
  BY <1>0, TopRun
<1>2. current_pid = frame[depth - 1].pid /\ current_pid \in 0 .. MAX_PID
  BY <1>1 DEF current_pid, IInv, TypeOK, FrameRecord
<1>3. CASE \E path \in LibPaths : DlOpenAgain(path)
  <2> PICK path \in LibPaths : DlOpenAgain(path) BY <1>3
  <2>1. PICK i \in DynSlots : /\ dynlib[i].used /\ dynlib[i].ref < MAX_REF
                              /\ dynlib' = [dynlib EXCEPT ![i].ref = @ + 1]
    BY DEF DlOpenAgain, dynlib_find_by_owner_path, libs_of
  <2>2. dynlib' \in [DynSlots -> LibRecord]
    <3>1. dynlib[i] \in LibRecord
      BY DEF IInv, TypeOK
    <3>2. dynlib[i].ref + 1 \in 0 .. MAX_REF + 1
      <4>1. dynlib[i].ref \in 0 .. MAX_REF + 1
        BY <3>1 DEF LibRecord
      <4> QED BY <4>1, <2>1, LimitsAssumption
    <3>3. [dynlib[i] EXCEPT !.ref = @ + 1] \in LibRecord
      BY <3>1, <3>2 DEF LibRecord
    <3> QED
      BY <3>3, <2>1 DEF IInv, TypeOK
  <2>3. \A j \in DynSlots : /\ dynlib'[j].used = dynlib[j].used
                            /\ dynlib'[j].handle = dynlib[j].handle
                            /\ dynlib'[j].owner = dynlib[j].owner
                            /\ dynlib'[j].path = dynlib[j].path
                            /\ dynlib[j].ref > 0 => dynlib'[j].ref > 0
    <3> TAKE j \in DynSlots
    <3>1. dynlib[j] \in LibRecord
      BY DEF IInv, TypeOK
    <3>2. dynlib[j].ref \in 0 .. MAX_REF + 1
      BY <3>1 DEF LibRecord
    <3>3. dynlib'[j] = dynlib[j] \/ dynlib'[j] = [dynlib[j] EXCEPT !.ref = @ + 1]
      BY <2>1 DEF IInv, TypeOK
    <3>4. dynlib'[j].ref = dynlib[j].ref \/ dynlib'[j].ref = dynlib[j].ref + 1
      BY <3>1, <3>3 DEF LibRecord
    <3>5. dynlib[j].ref > 0 => dynlib'[j].ref > 0
      BY <3>2, <3>4, LimitsAssumption
    <3> QED
      BY <3>1, <3>3, <3>5 DEF LibRecord
  <2>4. HandlesIssued' /\ LibrariesOwned'
    BY <2>3 DEF DlOpenAgain, IInv, HandlesIssued, LibrariesOwned, Stacked
  <2> QED
    BY <2>2, <2>4, TableStep DEF DlOpenAgain, IInv, TypeOK
<1>4. CASE \E path \in LibPaths, slot \in DynSlots : DlOpenNew(path, slot)
  <2> PICK path \in LibPaths, slot \in DynSlots : DlOpenNew(path, slot) BY <1>4
  <2>1. /\ ~dynlib[slot].used /\ next_handle \in 1 .. MAX_HANDLE
        /\ \A j \in DynSlots : dynlib[j].used /\ dynlib[j].owner = current_pid
                                => dynlib[j].path # path
    BY DEF DlOpenNew, first_of, dynlib_free, dynlib_find_by_owner_path, libs_of, IInv, TypeOK
  <2>2. dynlib' \in [DynSlots -> LibRecord] /\ next_handle' \in 1 .. MAX_HANDLE + 1
    <3>1. next_handle + 1 \in 1 .. MAX_HANDLE + 1 /\ next_handle \in 0 .. MAX_HANDLE
      BY <2>1, LimitsAssumption
    <3>2. 1 \in 0 .. MAX_REF + 1
      BY LimitsAssumption
    <3>3. [used |-> TRUE, handle |-> next_handle, owner |-> current_pid,
           path |-> path, ref |-> 1] \in LibRecord
      <4>1. path \in MaybeLib
        BY DEF MaybeLib
      <4> QED BY <1>2, <3>1, <3>2, <4>1 DEF LibRecord
    <3> QED
      BY <3>1, <3>3 DEF DlOpenNew, IInv, TypeOK
  <2>3. /\ \A j \in DynSlots : j # slot => dynlib'[j] = dynlib[j]
        /\ dynlib'[slot].handle = next_handle /\ dynlib'[slot].owner = current_pid
        /\ dynlib'[slot].path = path /\ dynlib'[slot].ref = 1
    BY DEF DlOpenNew, IInv, TypeOK
  <2>a. \A j \in DynSlots : dynlib[j].handle \in 0 .. MAX_HANDLE
    BY DEF IInv, TypeOK, LibRecord
  <2>b. next_handle' = next_handle + 1 /\ UNCHANGED <<depth, frame, run>>
    BY DEF DlOpenNew
  <2>4. HandlesIssued'
    BY <2>1, <2>3, <2>a, <2>b DEF IInv, HandlesIssued
  <2>5. LibrariesOwned'
    <3>1. \A j \in DynSlots : dynlib'[j].used =>
            /\ dynlib'[j].ref > 0
            /\ \E d \in Stacked : run[d].phase # "push" /\ frame[d].pid = dynlib'[j].owner
      BY <1>1, <1>2, <2>3 DEF IInv, LibrariesOwned
    <3>2. \A j \in DynSlots : j # slot /\ dynlib'[j].used =>
            /\ dynlib'[j].handle # next_handle
            /\ dynlib'[j].owner = current_pid => dynlib'[j].path # path
      BY <2>1, <2>3, <2>a DEF IInv, HandlesIssued
    <3> QED
      BY <3>1, <3>2, <2>3, <2>b DEF IInv, LibrariesOwned, Stacked
  <2> QED
    BY <2>2, <2>4, <2>5, TableStep DEF DlOpenNew, IInv, TypeOK
<1>5. CASE \E handle \in 1 .. MAX_HANDLE : DlClose(handle)
  <2> PICK handle \in 1 .. MAX_HANDLE : DlClose(handle) BY <1>5
  <2>1. PICK i \in DynSlots : dynlib' = [dynlib EXCEPT ![i] = dynlib_drop_ref(dynlib[i])]
    BY DEF DlClose, dynlib_find_by_handle
  <2>a. NoLib \in LibRecord /\ ~NoLib.used
    BY LimitsAssumption DEF NoLib, LibRecord, MaybeLib
  <2>b. ASSUME NEW j \in DynSlots
        PROVE  dynlib[j] \in LibRecord /\ dynlib[j].ref \in 0 .. MAX_REF + 1
    BY DEF IInv, TypeOK, LibRecord
  <2>c. ASSUME NEW j \in DynSlots, dynlib[j].ref > 1
        PROVE  dynlib[j].ref - 1 > 0 /\ [dynlib[j] EXCEPT !.ref = @ - 1] \in LibRecord
    <3>1. dynlib[j].ref - 1 \in 0 .. MAX_REF + 1 /\ dynlib[j].ref - 1 > 0
      BY <2>b, <2>c, LimitsAssumption
    <3> QED
      BY <2>b, <3>1 DEF LibRecord
  <2>2. dynlib' \in [DynSlots -> LibRecord]
    <3>1. dynlib_drop_ref(dynlib[i]) \in LibRecord
      BY <2>a, <2>c DEF dynlib_drop_ref
    <3> QED
      BY <2>1, <3>1 DEF IInv, TypeOK
  <2>3. \A j \in DynSlots : dynlib'[j].used => /\ dynlib[j].used
                                               /\ dynlib'[j].handle = dynlib[j].handle
                                               /\ dynlib'[j].owner = dynlib[j].owner
                                               /\ dynlib'[j].path = dynlib[j].path
                                               /\ dynlib[j].ref > 0 => dynlib'[j].ref > 0
    <3> TAKE j \in DynSlots
    <3>1. \/ dynlib'[j] = dynlib[j]
          \/ dynlib'[j] = NoLib
          \/ dynlib[j].ref > 1 /\ dynlib'[j] = [dynlib[j] EXCEPT !.ref = @ - 1]
      <4>1. dynlib'[j] = dynlib[j] \/ dynlib'[j] = dynlib_drop_ref(dynlib[j])
        BY <2>1 DEF IInv, TypeOK
      <4> QED
        BY <4>1 DEF dynlib_drop_ref
    <3>2. CASE dynlib[j].ref > 1 /\ dynlib'[j] = [dynlib[j] EXCEPT !.ref = @ - 1]
      <4>1. dynlib'[j].ref = dynlib[j].ref - 1
        BY <2>b, <3>2 DEF LibRecord
      <4> QED
        BY <4>1, <2>b, <2>c, <3>2 DEF LibRecord
    <3> QED
      BY <3>1, <3>2, <2>a
  <2>4. HandlesIssued' /\ LibrariesOwned'
    BY <2>3 DEF DlClose, IInv, HandlesIssued, LibrariesOwned, Stacked
  <2> QED
    BY <2>2, <2>4, TableStep DEF DlClose, IInv, TypeOK
<1> QED
  BY <1>3, <1>4, <1>5

-----------------------------------------------------------------------------
(***************************************************************************)
(* Statuses, records and signals.                                          *)
(***************************************************************************)
LEMMA CodeStatus ==
  ASSUME NEW c \in Codes \cup {-1, 0} PROVE code(c) \in Statuses /\ code(c)[1] = "code"
<1>1. c \in (-1 .. 255) \cup Codes
  OBVIOUS
<1>2. 0 \in 0 .. 31
  OBVIOUS
<1> QED
  BY <1>1, <1>2 DEF code, Statuses

LEMMA SignalStatus ==
  ASSUME NEW s \in 0 .. 255, NEW v \in 0 .. 31
  PROVE  encode_signal_status(s, v) \in Statuses /\ encode_signal_status(s, v)[1] = "signal"
<1>1. s \in (-1 .. 255) \cup Codes
  OBVIOUS
<1> QED
  BY <1>1 DEF encode_signal_status, Statuses

LEMMA VectorSignal ==
  ASSUME NEW v \in 0 .. 31 PROVE signal_from_vector(v) \in 1 .. 255
  BY DEF signal_from_vector

LEMMA EffectiveSignal ==
  ASSUME NEW signal \in Signals
  PROVE  /\ effective_signal(signal) \in 0 .. 255
         /\ NonzeroSignals => effective_signal(signal) # 0
<1>1. signal \in Nat
  BY InputsAssumption
<1>2. effective_signal(signal) \in 0 .. 255
  BY <1>1 DEF effective_signal, SIGTERM
<1> QED
  BY <1>2 DEF NonzeroSignals

LEMMA MarkExitedFacts ==
  ASSUME NEW p \in ProcRecord, NEW status \in Statuses
  PROVE  /\ mark_exited(p, status) \in ProcRecord
         /\ mark_exited(p, status).state = "EXITED"
         /\ mark_exited(p, status).exit_status = status
         /\ mark_exited(p, status).pid = p.pid
         /\ mark_exited(p, status).last_signal = p.last_signal
<1>1. "EXITED" \in States
  BY DEF States
<1>2. mark_exited(p, status) = Ended(p, "EXITED", status)
  BY DEF mark_exited, Ended
<1> QED
  BY <1>1, <1>2, EndUpdate

\* What a signal does to a record in use.
LEMMA SignalledFacts ==
  ASSUME NEW p \in ProcRecord, NEW sig \in 0 .. 255
  PROVE  LET q == Signalled(p, sig)
         IN  /\ q \in ProcRecord /\ q.pid = p.pid /\ q.state = p.state
             /\ q.exit_status = p.exit_status /\ q.last_signal = sig
<1>1. 0 \in 0 .. 31
  OBVIOUS
<1>2. Signalled(p, sig) \in ProcRecord
  <2> DEFINE q == Signalled(p, sig)
  <2>1. sig \in SignalBytes /\ 0 \in VectorNumbers
    BY <1>1 DEF SignalBytes, VectorNumbers
  <2>2. q = Faulted(p, sig, 0)
    BY DEF Signalled, Faulted
  <2> HIDE DEF q
  <2>3. q \in ProcRecord
    BY <2>1, <2>2, FaultUpdate
  <2> QED
    BY <2>3 DEF q
<1>3. /\ Signalled(p, sig).pid = p.pid /\ Signalled(p, sig).state = p.state
      /\ Signalled(p, sig).exit_status = p.exit_status /\ Signalled(p, sig).last_signal = sig
  BY DEF Signalled, ProcRecord
<1> QED BY <1>2, <1>3

LEMMA KillRecordFacts ==
  ASSUME NEW p \in ProcRecord, NEW sig \in 0 .. 255, p.state # "UNUSED"
  PROVE  /\ KillRecord(p, sig) \in ProcRecord
         /\ KillRecord(p, sig).pid = p.pid
         /\ KillRecord(p, sig).state = "RUNNING" <=> p.state = "RUNNING"
         /\ KillRecord(p, sig).state # "UNUSED"
         /\ p.state = "EXITED" => KillRecord(p, sig) = p
         /\ p.state # "EXITED" => KillRecord(p, sig).last_signal = sig
         /\ p.state = "STOPPED" /\ sig = SIGSTOP => KillRecord(p, sig).state = "STOPPED"
<1> DEFINE q == Signalled(p, sig)
<1>0. sig \in 0 .. 255 /\ 0 \in 0 .. 31
  OBVIOUS
<1>1. /\ q \in ProcRecord /\ q.pid = p.pid /\ q.state = p.state /\ q.last_signal = sig
  BY SignalledFacts
<1>2. encode_signal_status(sig, 0) \in Statuses
  BY <1>0, SignalStatus
<1> HIDE DEF q
<1>3. ASSUME NEW st \in States
      PROVE  /\ [q EXCEPT !.state = st] \in ProcRecord /\ [q EXCEPT !.state = st].pid = p.pid
             /\ [q EXCEPT !.state = st].state = st /\ [q EXCEPT !.state = st].last_signal = sig
  <2>1. q \in ProcRecord
    BY <1>1
  <2>2. [q EXCEPT !.state = st] \in ProcRecord
    <3> DEFINE r == InState(q, st)
    <3>1. r \in ProcRecord
      <4>1. r = InState(q, st)
        OBVIOUS
      <4> HIDE DEF r
      <4> QED
        BY <2>1, <4>1, StateUpdate
    <3> QED
      BY <3>1 DEF InState
  <2>3. /\ [q EXCEPT !.state = st].pid = q.pid /\ [q EXCEPT !.state = st].state = st
        /\ [q EXCEPT !.state = st].last_signal = q.last_signal
    BY <2>1 DEF ProcRecord
  <2> QED BY <2>2, <2>3, <1>1
<1>4. LET x == mark_exited(q, encode_signal_status(sig, 0))
      IN  x \in ProcRecord /\ x.pid = p.pid /\ x.state = "EXITED" /\ x.last_signal = sig
  BY <1>1, <1>2, MarkExitedFacts
<1>5. KillRecord(p, sig) =
        IF p.state = "EXITED" THEN p
        ELSE IF sig = SIGCONT
        THEN IF p.state = "STOPPED" THEN [q EXCEPT !.state = "PENDING"] ELSE q
        ELSE IF p.state \notin {"PENDING", "STOPPED"} THEN q
        ELSE IF sig = SIGSTOP THEN [q EXCEPT !.state = "STOPPED"]
        ELSE mark_exited(q, encode_signal_status(sig, 0))
  BY DEF KillRecord, q
<1>6. "PENDING" \in States /\ "STOPPED" \in States
  BY DEF States
<1>7. CASE p.state = "EXITED"
  BY <1>5, <1>7
<1>8. CASE p.state # "EXITED" /\ sig = SIGCONT
  BY <1>1, <1>3, <1>5, <1>6, <1>8 DEF SIGSTOP, SIGCONT
<1>9. CASE p.state # "EXITED" /\ sig = SIGSTOP
  BY <1>1, <1>3, <1>5, <1>6, <1>9 DEF SIGSTOP, SIGCONT
<1>10. CASE p.state # "EXITED" /\ sig # SIGCONT /\ sig # SIGSTOP
  BY <1>1, <1>4, <1>5, <1>10
<1> QED
  BY <1>7, <1>8, <1>9, <1>10

\* A search by the current pid finds the record of the top run.
LEMMA CurrentSlot ==
  ASSUME IInv, pid_stack_depth # 0, NEW s \in Slots, proc_find_slot_by_pid(s, current_pid)
  PROVE  s = run[pid_stack_depth - 1].slot
<1> DEFINE d == pid_stack_depth - 1
<1>1. d \in Stacked /\ d \in Levels /\ run[d].slot \in Slots /\ run[d].phase # "push" /\ current_pid = frame[d].pid
  BY FramedTop
<1> HIDE DEF d
<1>2. proc[run[d].slot].pid = current_pid /\ proc[run[d].slot].state # "UNUSED"
  BY <1>1 DEF IInv, FramesMatchTable
<1>3. proc[s].pid = current_pid /\ proc[s].state # "UNUSED"
  BY DEF proc_find_slot_by_pid, first_of, slots_of_pid
<1>4. s = run[d].slot
  BY <1>1, <1>2, <1>3 DEF IInv, PidsUnique
<1> QED BY <1>4 DEF d

KillFacts ==
    /\ proc' \in [Slots -> ProcRecord]
    /\ frame' \in [Levels -> FrameRecord]
    /\ RecordsKept
    /\ SignalStatusHasCause'
    /\ \A s \in Slots : proc[s].state = "EXITED" => proc'[s].state = "EXITED"
    /\ NonzeroSignals => \A s \in Slots : proc[s].last_signal # 0 => proc'[s].last_signal # 0
    /\ \A d \in Levels : /\ frame'[d].pid = frame[d].pid
                         /\ frame'[d].unwind_valid = frame[d].unwind_valid
    /\ NonzeroSignals => \A d \in Stacked : run[d].phase # "push" =>
         /\ frame'[d].stop_requested => frame'[d].exit_requested
         /\ frame'[d].exit_requested /\ frame'[d].exit_status[1] = "signal"
              => proc'[run[d].slot].last_signal # 0

\* proc_kill on a process in the table, whoever the target is.
LEMMA KillEffect ==
  ASSUME IInv, NEW slot \in Slots, NEW pid, NEW sig \in 0 .. 255,
         NonzeroSignals => sig # 0,
         proc_find_slot_by_pid(slot, pid), proc_kill(slot, pid, sig)
  PROVE  /\ KillFacts
         /\ sig = SIGSTOP => \A s \in Slots : proc[s].state = "STOPPED"
                                               => proc'[s].state = "STOPPED"
<1>1. proc[slot] \in ProcRecord /\ proc[slot].pid = pid /\ proc[slot].state # "UNUSED"
  BY DEF proc_find_slot_by_pid, first_of, slots_of_pid, IInv, TypeOK
<1> DEFINE q == KillRecord(proc[slot], sig)
<1>2. /\ q \in ProcRecord /\ q.pid = proc[slot].pid /\ q.state # "UNUSED"
      /\ q.state = "RUNNING" <=> proc[slot].state = "RUNNING"
      /\ proc[slot].state = "EXITED" => q = proc[slot]
      /\ proc[slot].state # "EXITED" => q.last_signal = sig
      /\ proc[slot].state = "STOPPED" /\ sig = SIGSTOP => q.state = "STOPPED"
  BY <1>1, KillRecordFacts
<1>3. proc' = [proc EXCEPT ![slot] = q]
  BY DEF proc_kill
<1> HIDE DEF q
<1>4. /\ proc' \in [Slots -> ProcRecord] /\ proc'[slot] = q
      /\ \A s \in Slots : s # slot => proc'[s] = proc[s]
  BY <1>2, <1>3 DEF IInv, TypeOK
<1>5. RecordsKept
  BY <1>1, <1>2, <1>4 DEF RecordsKept
<1>6. SignalStatusHasCause'
  BY <1>2, <1>4 DEF IInv, SignalStatusHasCause
<1>7. \A s \in Slots : /\ proc[s].state = "EXITED" => proc'[s].state = "EXITED"
                       /\ NonzeroSignals /\ proc[s].last_signal # 0
                            => proc'[s].last_signal # 0
                       /\ sig = SIGSTOP /\ proc[s].state = "STOPPED"
                            => proc'[s].state = "STOPPED"
  BY <1>2, <1>4
<1>8. CASE frame' = frame
  <2>1. \A d \in Stacked : run[d].slot \in Slots
    BY StackedLevels DEF IInv, TypeOK, RunRecord
  <2> QED
    BY <2>1, <1>4, <1>5, <1>6, <1>7, <1>8 DEF KillFacts, IInv, TypeOK, RequestsCaused
<1>9. CASE frame' # frame
  <2> DEFINE top == pid_stack_depth - 1
  <2>1. /\ proc[slot].state = "RUNNING" /\ current_pid = pid
        /\ frame' = [frame EXCEPT ![top] = KillFrame(frame[top], sig)]
    BY <1>9 DEF proc_kill
  <2>b. pid_stack_depth # 0
    <3>1. pid \in 1 .. next_pid - 1
      BY <1>1 DEF IInv, PidsUnique
    <3> QED BY <3>1, <2>1 DEF current_pid
  <2>2. top \in Levels /\ run[top].phase # "push"
    BY <2>b, FramedTop
  <2>3. slot = run[top].slot
    BY <2>1, <2>b, CurrentSlot
  <2> HIDE DEF top
  <2>4. encode_signal_status(sig, 0) \in Statuses
    <3>1. sig \in 0 .. 255 /\ 0 \in 0 .. 31
      OBVIOUS
    <3> QED BY <3>1, SignalStatus
  <2> DEFINE f == KillFrame(frame[top], sig)
  <2>5. /\ f \in FrameRecord /\ f.pid = frame[top].pid
        /\ f.unwind_valid = frame[top].unwind_valid
        /\ f = frame[top] \/ f.exit_requested
    <3>1. frame[top] \in FrameRecord
      BY <2>2 DEF IInv, TypeOK
    <3>2. (frame[top].stop_requested \/ sig = SIGSTOP) \in BOOLEAN
      OBVIOUS
    <3> QED
      BY <3>1, <3>2, <2>4 DEF KillFrame, FrameRecord
  <2>a. frame' = [frame EXCEPT ![top] = f]
    BY <2>1
  <2> HIDE DEF f
  <2>6. /\ frame' \in [Levels -> FrameRecord] /\ frame'[top] = f
        /\ \A d \in Levels : d # top => frame'[d] = frame[d]
    BY <2>a, <2>2, <2>5 DEF IInv, TypeOK
  <2>7. \A d \in Levels : /\ frame'[d].pid = frame[d].pid
                          /\ frame'[d].unwind_valid = frame[d].unwind_valid
    BY <2>5, <2>6
  <2>8. NonzeroSignals => proc'[slot].last_signal # 0
    BY <1>2, <1>4, <2>1
  <2>9. ASSUME NonzeroSignals, NEW d \in Stacked, run[d].phase # "push"
        PROVE  /\ frame'[d].stop_requested => frame'[d].exit_requested
               /\ frame'[d].exit_requested /\ frame'[d].exit_status[1] = "signal"
                    => proc'[run[d].slot].last_signal # 0
    <3>1. d \in Levels /\ run[d].slot \in Slots
      BY StackedLevels DEF IInv, TypeOK, RunRecord
    <3>2. CASE d = top
      BY <3>2, <2>3, <2>5, <2>6, <2>8, <2>9 DEF IInv, RequestsCaused
    <3>3. CASE d # top
      BY <3>1, <3>3, <2>6, <2>9, <1>7 DEF IInv, RequestsCaused
    <3> QED BY <3>2, <3>3
  <2> QED
    BY <2>6, <2>7, <2>9, <1>4, <1>5, <1>6, <1>7 DEF KillFacts
<1> QED
  BY <1>8, <1>9

LEMMA SysKillIInv ==
  ASSUME IInv, NEW pid, NEW slot \in Slots, NEW signal \in Signals, SysKill(pid, slot, signal)
  PROVE  IInv'
<1>0. At("user")
  BY DEF SysKill, InSyscall
<1>1. depth - 1 \in Levels /\ run[depth - 1].phase = "user"
  BY <1>0, TopRun
<1>2. KillFacts
  BY EffectiveSignal, KillEffect DEF SysKill
<1>3. TypeOK'
  BY <1>2 DEF SysKill, KillFacts, IInv, TypeOK
<1>4. StackKept /\ PhasesKept
  BY <1>2 DEF SysKill, KillFacts, StackKept, PhasesKept
<1>5. RequestsCaused'
  <2>1. \A d \in Stacked : run[d].slot \in Slots
    BY StackedLevels DEF IInv, TypeOK, RunRecord
  <2> QED
    BY <2>1, <1>2 DEF SysKill, KillFacts, IInv, RequestsCaused, Stacked
<1>6. run[depth - 1].phase \in ProgramPhases
  BY <1>1 DEF ProgramPhases, CalledPhases
<1>7. /\ next_pid' = next_pid /\ running_depth' = running_depth
      /\ dynlib' = dynlib /\ next_handle' = next_handle
  BY DEF SysKill
<1> QED
  BY <1>2, <1>3, <1>4, <1>5, <1>6, <1>7, QuietStep, KeptLibraries DEF KillFacts

\* request_exit: the status is the program's own.
LEMMA ExitRequestIInv ==
  ASSUME IInv, NEW c \in Codes, SysExit(c) \/ LibcExit(c) PROVE IInv'
<1>0. At("user")
  BY DEF SysExit, LibcExit, InSyscall
<1>1. depth - 1 \in Levels /\ run[depth - 1].phase = "user"
  BY <1>0, TopRun
<1>2. code(c) \in Statuses /\ code(c)[1] = "code"
  BY CodeStatus
<1>3. /\ frame' = [frame EXCEPT ![depth - 1].exit_requested = TRUE,
                               ![depth - 1].exit_status = code(c)]
      /\ run' = run \/ run' = [run EXCEPT ![depth - 1].spin = TRUE]
      /\ UNCHANGED <<proc, next_pid, depth, running_depth, pending_dispatch_active,
                     dynlib, next_handle, active_tty, panicked>>
  BY DEF SysExit, LibcExit, request_exit
<1>4. TypeOK'
  <2>1. frame' \in [Levels -> FrameRecord]
    <3> DEFINE f == Requested(frame[depth - 1], code(c))
    <3>1. frame \in [Levels -> FrameRecord]
      BY DEF IInv, TypeOK
    <3>2. f \in FrameRecord
      BY <1>1, <1>2, <3>1, RequestUpdate
    <3>3. frame' = [frame EXCEPT ![depth - 1] = f]
      BY <1>1, <1>3, <3>1 DEF Requested
    <3> HIDE DEF f
    <3> QED BY <3>1, <3>2, <3>3
  <2>2. run' \in [Levels -> RunRecord]
    <3>1. run \in [Levels -> RunRecord]
      BY DEF IInv, TypeOK
    <3>2. [run[depth - 1] EXCEPT !.spin = TRUE] \in RunRecord
      <4>1. run[depth - 1] \in RunRecord
        BY <3>1, <1>1
      <4> QED BY <4>1 DEF RunRecord
    <3> QED BY <3>1, <3>2, <1>1, <1>3
  <2> QED
    BY <1>3, <2>1, <2>2 DEF IInv, TypeOK
<1>5. \A d \in Levels : /\ run'[d].slot = run[d].slot /\ run'[d].via = run[d].via
                        /\ run'[d].base = run[d].base /\ run'[d].irq = run[d].irq
                        /\ run'[d].phase = run[d].phase /\ run'[d].ret = run[d].ret
  BY <1>1, <1>3 DEF IInv, TypeOK, RunRecord
<1>6. \A d \in Levels : /\ frame'[d].pid = frame[d].pid
                        /\ frame'[d].unwind_valid = frame[d].unwind_valid
                        /\ frame'[d].stop_requested = frame[d].stop_requested
                        /\ d # depth - 1 => frame'[d] = frame[d]
  BY <1>1, <1>3 DEF IInv, TypeOK, FrameRecord
<1>7. frame'[depth - 1].exit_requested /\ frame'[depth - 1].exit_status = code(c)
  BY <1>1, <1>3 DEF IInv, TypeOK, FrameRecord
<1>8. StackKept /\ PhasesKept /\ RecordsKept
  BY <1>3, <1>5, <1>6 DEF StackKept, PhasesKept, RecordsKept
<1>9. RequestsCaused'
  <2>1. \A d \in Stacked : d \in Levels
    BY StackedLevels DEF IInv
  <2>2. Stacked' = Stacked
    BY <1>3 DEF Stacked
  <2>p. \A d \in Stacked : run'[d].phase # "push" => run[d].phase # "push"
    BY <2>1, <1>5
  <2> SUFFICES ASSUME NonzeroSignals, NEW d \in Stacked
               PROVE  /\ run'[d].phase # "push" /\ frame'[d].stop_requested
                           => frame'[d].exit_requested
                      /\ run'[d].phase # "push" /\ frame'[d].exit_requested
                         /\ frame'[d].exit_status[1] = "signal"
                           => proc'[run'[d].slot].last_signal # 0
                      /\ run'[d].ret[1] = "signal" => proc'[run'[d].slot].last_signal # 0
    BY <2>2 DEF RequestsCaused
  <2>3. CASE d = depth - 1
    BY <2>1, <2>3, <2>p, <1>2, <1>3, <1>5, <1>7 DEF IInv, RequestsCaused
  <2>4. CASE d # depth - 1
    <3>1. /\ frame'[d] = frame[d] /\ run'[d].slot = run[d].slot /\ run'[d].ret = run[d].ret
          /\ proc' = proc
      BY <2>1, <2>4, <1>3, <1>5, <1>6
    <3> QED BY <3>1, <2>p DEF IInv, RequestsCaused
  <2> QED BY <2>3, <2>4
<1>10. SignalStatusHasCause'
  BY <1>3 DEF IInv, SignalStatusHasCause
<1> QED
  BY <1>3, <1>4, <1>8, <1>9, <1>10, QuietStep, KeptLibraries

LEMMA ProgramReturnIInv ==
  ASSUME IInv, NEW c \in Codes, ProgramReturn(c) PROVE IInv'
<1>0. At("user")
  BY DEF ProgramReturn, InSyscall
<1>1. depth - 1 \in Levels /\ run[depth - 1].phase = "user"
  BY <1>0, TopRun
<1>2. code(c) \in Statuses /\ code(c)[1] = "code"
  BY CodeStatus
<1>3. TypeOK'
  <2>0. "returned" \in Phases
    BY DEF Phases, CalledPhases
  <2>1. run' \in [Levels -> RunRecord]
    BY <1>1, <1>2, <2>0 DEF ProgramReturn, IInv, TypeOK, RunRecord
  <2> QED
    BY <2>1 DEF ProgramReturn, IInv, TypeOK
<1>4. \A d \in Levels : /\ run'[d].slot = run[d].slot /\ run'[d].via = run[d].via
                        /\ run'[d].base = run[d].base /\ run'[d].irq = run[d].irq
                        /\ d # depth - 1 => run'[d] = run[d]
  BY <1>1 DEF ProgramReturn, IInv, TypeOK, RunRecord
<1>5. run'[depth - 1].phase = "returned" /\ run'[depth - 1].ret = code(c)
  BY <1>1 DEF ProgramReturn, IInv, TypeOK, RunRecord
<1>6. StackKept /\ PhasesKept /\ RecordsKept
  BY <1>1, <1>4, <1>5
     DEF ProgramReturn, StackKept, PhasesKept, RecordsKept, ProgramPhases, CalledPhases
<1>7. RequestsCaused' /\ SignalStatusHasCause'
  <2>1. \A d \in Stacked : d \in Levels
    BY StackedLevels DEF IInv
  <2>2. proc' = proc /\ frame' = frame /\ Stacked' = Stacked
    BY DEF ProgramReturn, Stacked
  <2>3. \A d \in Stacked : /\ run'[d].slot = run[d].slot
                           /\ run'[d].phase # "push" => run[d].phase # "push"
                           /\ run'[d].ret[1] = "signal" => run'[d].ret = run[d].ret
    BY <2>1, <1>1, <1>2, <1>4, <1>5
  <2>4. RequestsCaused'
    BY <2>2, <2>3 DEF IInv, RequestsCaused
  <2> QED
    BY <2>2, <2>4 DEF IInv, SignalStatusHasCause
<1> QED
  BY <1>3, <1>6, <1>7, QuietStep, KeptLibraries DEF ProgramReturn

-----------------------------------------------------------------------------
(***************************************************************************)
(* Interrupts and faults.                                                  *)
(***************************************************************************)
\* The return from an interrupt leaves the stack alone; a program it unwinds
\* returns the status of the request that stopped it.
LEMMA IrqReturnEffect ==
  ASSUME IInv, NEW frames \in [Levels -> FrameRecord], IrqReturn(frames)
  PROVE  /\ run' \in [Levels -> RunRecord]
         /\ \A d \in Levels :
              /\ run'[d].slot = run[d].slot /\ run'[d].via = run[d].via
              /\ run'[d].base = run[d].base /\ run'[d].irq = run[d].irq
              /\ \/ run'[d].phase = run[d].phase
                 \/ /\ d = depth - 1
                    /\ run[d].phase \in ProgramPhases /\ run'[d].phase \in ProgramPhases
              /\ \/ run'[d].ret = run[d].ret
                 \/ /\ run[d].phase # "push" /\ frames[d].stop_requested
                    /\ run'[d].ret = frames[d].exit_status
<1>0. {"user", "hlt", "woken", "returned"} \subseteq ProgramPhases \cap Phases
  BY DEF ProgramPhases, Phases, CalledPhases
<1>1. CASE run' = run
  BY <1>1 DEF IInv, TypeOK
<1>2. CASE /\ At("user") /\ frames[depth - 1].stop_requested
           /\ run' = [run EXCEPT ![depth - 1].phase = "returned",
                                 ![depth - 1].ret = frames[depth - 1].exit_status]
  <2>1. depth - 1 \in Levels /\ run[depth - 1].phase = "user"
    BY <1>2, TopRun
  <2>2. frames[depth - 1].exit_status \in Statuses
    BY <2>1 DEF FrameRecord
  <2>3. run' \in [Levels -> RunRecord]
    BY <1>0, <1>2, <2>1, <2>2 DEF IInv, TypeOK, RunRecord
  <2>4. \A d \in Levels :
          run'[d] = IF d = depth - 1
                    THEN [run[d] EXCEPT !.phase = "returned",
                                        !.ret = frames[depth - 1].exit_status]
                    ELSE run[d]
    BY <1>2, <2>1 DEF IInv, TypeOK
  <2>5. run[depth - 1] \in RunRecord
    BY <2>1 DEF IInv, TypeOK
  <2>6. /\ run'[depth - 1].slot = run[depth - 1].slot /\ run'[depth - 1].via = run[depth - 1].via
        /\ run'[depth - 1].base = run[depth - 1].base /\ run'[depth - 1].irq = run[depth - 1].irq
        /\ run'[depth - 1].phase = "returned"
        /\ run'[depth - 1].ret = frames[depth - 1].exit_status
    BY <2>1, <2>4, <2>5 DEF RunRecord
  <2>7. \A d \in Levels : d # depth - 1 => run'[d] = run[d]
    BY <2>4
  <2> QED
    BY <1>0, <1>2, <2>1, <2>3, <2>6, <2>7
<1>3. CASE At("hlt") /\ run' = [run EXCEPT ![depth - 1].phase = "woken"]
  <2>1. depth - 1 \in Levels /\ run[depth - 1].phase = "hlt"
    BY <1>3, TopRun
  <2>2. run' \in [Levels -> RunRecord]
    BY <1>0, <1>3, <2>1 DEF IInv, TypeOK, RunRecord
  <2>3. \A d \in Levels :
          run'[d] = IF d = depth - 1 THEN [run[d] EXCEPT !.phase = "woken"] ELSE run[d]
    BY <1>3, <2>1 DEF IInv, TypeOK
  <2> QED
    BY <1>0, <2>1, <2>2, <2>3 DEF IInv, TypeOK, RunRecord
<1> QED
  BY <1>1, <1>2, <1>3 DEF IrqReturn, At

LEMMA IrqQuietIInv ==
  ASSUME IInv, IrqTimer \/ \E tty \in Ttys : IrqSwitchTty(tty) PROVE IInv'
<1>1. /\ IrqReturn(frame) /\ active_tty' \in Ttys
      /\ UNCHANGED <<proc, next_pid, frame, depth, running_depth, pending_dispatch_active,
                     dynlib, next_handle, panicked>>
  BY DEF IrqTimer, IrqSwitchTty, IInv, TypeOK
<1>2. /\ run' \in [Levels -> RunRecord]
      /\ \A d \in Levels :
              /\ run'[d].slot = run[d].slot /\ run'[d].via = run[d].via
              /\ run'[d].base = run[d].base /\ run'[d].irq = run[d].irq
              /\ \/ run'[d].phase = run[d].phase
                 \/ /\ d = depth - 1
                    /\ run[d].phase \in ProgramPhases /\ run'[d].phase \in ProgramPhases
              /\ \/ run'[d].ret = run[d].ret
                 \/ /\ run[d].phase # "push" /\ frame[d].stop_requested
                    /\ run'[d].ret = frame[d].exit_status
  BY <1>1, IrqReturnEffect DEF IInv, TypeOK
<1>3. TypeOK'
  BY <1>1, <1>2 DEF IInv, TypeOK
<1>p. \A d \in Levels : run'[d].phase = "push" <=> run[d].phase = "push"
  BY <1>2 DEF ProgramPhases, CalledPhases
<1>4. StackKept /\ PhasesKept /\ RecordsKept
  BY <1>1, <1>2, <1>p DEF StackKept, PhasesKept, RecordsKept
<1>5. RequestsCaused' /\ SignalStatusHasCause'
  <2>1. \A d \in Stacked : d \in Levels
    BY StackedLevels DEF IInv
  <2>2. SignalStatusHasCause'
    BY <1>1 DEF IInv, SignalStatusHasCause
  <2> QED
    BY <2>1, <1>1, <1>2, <1>p DEF IInv, RequestsCaused, SignalStatusHasCause, Stacked
<1> QED
  BY <1>1, <1>3, <1>4, <1>5, QuietStep, KeptLibraries

\* The hotkey when the current process is not its target: running processes
\* are marked, nothing else happens to them.
LEMMA MarkEffect ==
  ASSUME IInv, NEW tty, frame' = frame,
         proc' = [s \in Slots |-> IF StoppableOn(s, tty) THEN Signalled(proc[s], SIGSTOP)
                                                        ELSE proc[s]]
  PROVE  /\ KillFacts
         /\ \A s \in Slots : proc[s].state = "STOPPED" => proc'[s].state = "STOPPED"
<1>1. ASSUME NEW s \in Slots
      PROVE  /\ proc'[s] \in ProcRecord /\ proc'[s].pid = proc[s].pid
             /\ proc'[s].state = proc[s].state
             /\ proc'[s].exit_status = proc[s].exit_status
             /\ proc[s].last_signal # 0 => proc'[s].last_signal # 0
  <2>1. proc[s] \in ProcRecord
    BY DEF IInv, TypeOK
  <2>2. SIGSTOP \in 0 .. 255 /\ SIGSTOP # 0
    BY DEF SIGSTOP
  <2>3. proc'[s] = proc[s] \/ proc'[s] = Signalled(proc[s], SIGSTOP)
    OBVIOUS
  <2> QED
    BY <2>1, <2>2, <2>3, SignalledFacts
<1>2. proc' \in [Slots -> ProcRecord]
  BY <1>1
<1>3. RecordsKept
  BY <1>1 DEF RecordsKept
<1>4. SignalStatusHasCause'
  BY <1>1 DEF IInv, SignalStatusHasCause
<1>5. \A d \in Stacked : run[d].slot \in Slots
  BY StackedLevels DEF IInv, TypeOK, RunRecord
<1> QED
  BY <1>1, <1>2, <1>3, <1>4, <1>5 DEF KillFacts, IInv, TypeOK, RequestsCaused

LEMMA IrqForceStopIInv == ASSUME IInv, IrqForceStop PROVE IInv'
<1>1. /\ force_stop_tty_running_process(active_tty) /\ IrqReturn(frame')
      /\ UNCHANGED <<next_pid, depth, running_depth, pending_dispatch_active, dynlib,
                     next_handle, active_tty, panicked>>
  BY DEF IrqForceStop
<1>2. /\ KillFacts
      /\ \A s \in Slots : proc[s].state = "STOPPED" => proc'[s].state = "STOPPED"
  <2>1. CASE \E s \in Slots : /\ CurrentStoppable(s, active_tty)
                              /\ proc_kill(s, current_pid, SIGSTOP)
    <3> PICK s \in Slots : /\ CurrentStoppable(s, active_tty)
                           /\ proc_kill(s, current_pid, SIGSTOP)
      BY <2>1
    <3>1. proc_find_slot_by_pid(s, current_pid) /\ SIGSTOP \in 0 .. 255 /\ SIGSTOP # 0
      BY DEF CurrentStoppable, SIGSTOP
    <3> QED
      BY <3>1, KillEffect
  <2>2. CASE /\ proc' = [s \in Slots |-> IF StoppableOn(s, active_tty)
                                         THEN Signalled(proc[s], SIGSTOP) ELSE proc[s]]
             /\ frame' = frame
    BY <2>2, MarkEffect
  <2> QED
    BY <1>1, <2>1, <2>2 DEF force_stop_tty_running_process
<1>3. /\ run' \in [Levels -> RunRecord]
      /\ \A d \in Levels :
              /\ run'[d].slot = run[d].slot /\ run'[d].via = run[d].via
              /\ run'[d].base = run[d].base /\ run'[d].irq = run[d].irq
              /\ \/ run'[d].phase = run[d].phase
                 \/ /\ d = depth - 1
                    /\ run[d].phase \in ProgramPhases /\ run'[d].phase \in ProgramPhases
              /\ \/ run'[d].ret = run[d].ret
                 \/ /\ run[d].phase # "push" /\ frame'[d].stop_requested
                    /\ run'[d].ret = frame'[d].exit_status
  BY <1>1, <1>2, IrqReturnEffect DEF KillFacts
<1>4. TypeOK'
  BY <1>1, <1>2, <1>3 DEF IInv, TypeOK, KillFacts
<1>p. \A d \in Levels : run'[d].phase = "push" <=> run[d].phase = "push"
  BY <1>3 DEF ProgramPhases, CalledPhases
<1>5. StackKept /\ PhasesKept /\ RecordsKept
  BY <1>1, <1>2, <1>3, <1>p DEF StackKept, PhasesKept, KillFacts
<1>6. RequestsCaused'
  <2>1. \A d \in Stacked : d \in Levels /\ run[d].slot \in Slots
    BY StackedLevels DEF IInv, TypeOK, RunRecord
  <2>2. Stacked' = Stacked
    BY <1>1 DEF Stacked
  <2> QED
    BY <2>1, <2>2, <1>2, <1>3, <1>p DEF IInv, RequestsCaused, KillFacts
<1> QED
  BY <1>1, <1>2, <1>4, <1>5, <1>6, QuietStep, KeptLibraries DEF KillFacts

LEMMA FaultCaughtIInv ==
  ASSUME IInv, NEW v \in Vectors, NEW low, NEW slot \in Slots, FaultCaught(v, low, slot)
  PROVE  IInv'
<1> DEFINE sig == signal_from_vector(v)
           status == encode_signal_status(sig, v)
<1>0. PICK p \in {"user", "lib"} : At(p)
  BY DEF FaultCaught, InSyscall
<1>1. /\ depth \in 1 .. MAX_DEPTH /\ depth - 1 \in Levels /\ run[depth - 1].phase = p
      /\ pid_stack_depth = depth
  BY <1>0, TopRun
<1>2. sig \in 1 .. 255 /\ sig \in 0 .. 255 /\ v \in 0 .. 31 /\ status \in Statuses
  <2>1. v \in 0 .. 31
    BY InputsAssumption
  <2>2. sig \in 1 .. 255
    BY <2>1, VectorSignal
  <2>3. sig \in 0 .. 255
    BY <2>2
  <2> QED
    BY <2>1, <2>2, <2>3, SignalStatus
<1>3. slot = run[depth - 1].slot
  BY <1>1, CurrentSlot DEF FaultCaught
<1>4. /\ proc' = [proc EXCEPT ![slot].last_signal = sig, ![slot].last_fault = v]
      /\ frame' = [frame EXCEPT ![depth - 1].exit_requested = TRUE,
                               ![depth - 1].exit_status = status]
      /\ run' = [run EXCEPT ![depth - 1].phase = "returned", ![depth - 1].ret = status]
      /\ UNCHANGED <<next_pid, depth, running_depth, pending_dispatch_active,
                     dynlib, next_handle, active_tty, panicked>>
  BY DEF FaultCaught
<1> HIDE DEF sig, status
<1>5. "returned" \in Phases /\ "returned" \in ProgramPhases /\ p \in ProgramPhases
  BY DEF Phases, ProgramPhases, CalledPhases
<1>6. /\ proc' \in [Slots -> ProcRecord]
      /\ \A s \in Slots : s # slot => proc'[s] = proc[s]
      /\ proc'[slot].state = proc[slot].state /\ proc'[slot].pid = proc[slot].pid
      /\ proc'[slot].last_signal = sig
  <2>1. proc[slot] \in ProcRecord
    BY DEF IInv, TypeOK
  <2>2. proc' = [proc EXCEPT ![slot] = [proc[slot] EXCEPT !.last_signal = sig, !.last_fault = v]]
    BY <1>4 DEF IInv, TypeOK
  <2> DEFINE q == Faulted(proc[slot], sig, v)
  <2>3. q \in ProcRecord /\ q.state = proc[slot].state /\ q.pid = proc[slot].pid
        /\ q.last_signal = sig
    <3>1. sig \in SignalBytes /\ v \in VectorNumbers
      BY <1>2 DEF SignalBytes, VectorNumbers
    <3> HIDE DEF q
    <3>2. q = Faulted(proc[slot], sig, v)
      BY DEF q
    <3> QED
      BY <2>1, <3>1, <3>2, FaultUpdate
  <2> HIDE DEF q
  <2>4. proc' = [proc EXCEPT ![slot] = q]
    BY <2>2 DEF q, Faulted
  <2> QED
    BY <2>3, <2>4 DEF IInv, TypeOK
<1>7. /\ frame' \in [Levels -> FrameRecord]
      /\ \A d \in Levels : d # depth - 1 => frame'[d] = frame[d]
      /\ frame'[depth - 1].pid = frame[depth - 1].pid
      /\ frame'[depth - 1].unwind_valid = frame[depth - 1].unwind_valid
      /\ frame'[depth - 1].exit_requested
  <2>1. frame[depth - 1] \in FrameRecord
    BY <1>1 DEF IInv, TypeOK
  <2> DEFINE f == Requested(frame[depth - 1], status)
  <2>2. frame' = [frame EXCEPT ![depth - 1] = f]
    BY <1>1, <1>4 DEF IInv, TypeOK, Requested
  <2>3. /\ f \in FrameRecord /\ f.pid = frame[depth - 1].pid /\ f.exit_requested
        /\ f.unwind_valid = frame[depth - 1].unwind_valid
    BY <2>1, <1>2, RequestUpdate
  <2> HIDE DEF f
  <2> QED
    BY <2>2, <2>3, <1>1 DEF IInv, TypeOK
<1>8. run' \in [Levels -> RunRecord]
  BY <1>1, <1>2, <1>4, <1>5 DEF IInv, TypeOK, RunRecord
<1>9. \A d \in Levels : d # depth - 1 => run'[d] = run[d]
  BY <1>1, <1>4 DEF IInv, TypeOK
<1>10. /\ run'[depth - 1].slot = run[depth - 1].slot /\ run'[depth - 1].via = run[depth - 1].via
       /\ run'[depth - 1].base = run[depth - 1].base /\ run'[depth - 1].irq = run[depth - 1].irq
       /\ run'[depth - 1].phase = "returned"
  BY <1>1, <1>4 DEF IInv, TypeOK, RunRecord
<1>11. TypeOK'
  BY <1>4, <1>6, <1>7, <1>8 DEF IInv, TypeOK
<1>12. StackKept /\ PhasesKept
  <2>1. StackKept
    BY <1>1, <1>4, <1>7, <1>9, <1>10 DEF StackKept
  <2>2. run[depth - 1].phase \in ProgramPhases
    BY <1>1, <1>5
  <2>3. PhasesKept
    <3> SUFFICES ASSUME NEW d \in Levels
                 PROVE  /\ run'[d].irq = run[d].irq
                        /\ frame'[d].unwind_valid = frame[d].unwind_valid
                        /\ \/ run'[d].phase = run[d].phase
                           \/ d = depth - 1 /\ run[d].phase \in ProgramPhases /\ run'[d].phase \in ProgramPhases
      BY DEF PhasesKept
    <3>1. CASE d = depth - 1
      BY <3>1, <2>2, <1>5, <1>7, <1>10
    <3>2. CASE d # depth - 1
      BY <3>2, <1>7, <1>9
    <3> QED BY <3>1, <3>2
  <2> QED BY <2>1, <2>3
<1>13. RecordsKept
  BY <1>6 DEF RecordsKept
<1>14. RequestsCaused'
  <2>1. \A d \in Stacked : d \in Levels /\ run[d].slot \in Slots
    BY StackedLevels DEF IInv, TypeOK, RunRecord
  <2>2. Stacked' = Stacked
    BY <1>4 DEF Stacked
  <2>3. proc'[run[depth - 1].slot].last_signal # 0
    BY <1>2, <1>3, <1>6
  <2>4. \A d \in Stacked : d # depth - 1 => run[d].slot # slot
    BY <1>1, <1>3 DEF IInv, FramesMatchTable, Stacked, TypeOK
  <2> QED
    BY <2>1, <2>2, <2>3, <2>4, <1>3, <1>6, <1>7, <1>9, <1>10 DEF IInv, RequestsCaused
<1>15. SignalStatusHasCause'
  <2>1. proc'[slot].last_signal # 0
    BY <1>2, <1>6
  <2> QED
    BY <2>1, <1>6 DEF IInv, SignalStatusHasCause
<1> QED
  BY <1>4, <1>6, <1>11, <1>12, <1>13, <1>14, <1>15, QuietStep, KeptLibraries

-----------------------------------------------------------------------------
(***************************************************************************)
(* The steps of run_proc_slot below the push and above the pop.            *)
(***************************************************************************)
LEMMA InvokeEntryIInv == IInv /\ InvokeEntry => IInv'
<1> SUFFICES ASSUME IInv, InvokeEntry PROVE IInv'
  OBVIOUS
<1>0. At("counted") BY DEF InvokeEntry
<1>1. /\ depth \in 1 .. MAX_DEPTH /\ depth - 1 \in Levels /\ depth - 1 \in Stacked
      /\ run[depth - 1].phase = "counted" /\ ~run[depth - 1].irq
  BY <1>0, TopRun DEF IInv, ControlShape, UncalledPhases
<1>2. /\ \A d \in Levels : d # depth - 1 => run'[d] = run[d] /\ frame'[d] = frame[d]
      /\ run'[depth - 1] = [run[depth - 1] EXCEPT !.phase = "user", !.irq = run[depth - 1].irq \/ run[depth - 1].base \/ ~pending_dispatch_active]
      /\ frame'[depth - 1] = [frame[depth - 1] EXCEPT !.unwind_valid = TRUE]
  BY <1>1 DEF InvokeEntry, IInv, TypeOK
<1>3. StackKept
  BY <1>1, <1>2 DEF InvokeEntry, StackKept, IInv, TypeOK, RunRecord, FrameRecord
<1>4. RecordsKept
  BY DEF InvokeEntry, RecordsKept
<1>5. TypeOK'
  <2>1. running_depth' \in 0 .. MAX_DEPTH
    BY DEF InvokeEntry, IInv, TypeOK
  <2>2. frame' \in [Levels -> FrameRecord]
    BY <1>1 DEF InvokeEntry, IInv, TypeOK, FrameRecord
  <2>3. run' \in [Levels -> RunRecord]
    BY <1>1 DEF InvokeEntry, IInv, TypeOK, RunRecord, Phases, CalledPhases
  <2> QED
    BY <2>1, <2>2, <2>3 DEF InvokeEntry, IInv, TypeOK
<1>6. ControlShape'
  BY <1>1 DEF InvokeEntry, IInv, TypeOK, ControlShape, RunRecord, UncalledPhases
<1>7. FramesMatchTable'
  BY <1>1, <1>2, <1>3, <1>4, KeptFrames DEF InvokeEntry, IInv, TypeOK, RunRecord
<1>8. RunningDepthExact'
  BY <1>1 DEF InvokeEntry, IInv, TypeOK, RunningDepthExact, CalledPhases
<1>9. UnwindSlotsLive'
  BY <1>1 DEF InvokeEntry, IInv, TypeOK, UnwindSlotsLive, CalledPhases
<1>10. MaskedOnlyUnderDispatch'
  <2> SUFFICES ASSUME NEW d \in Stacked, run'[d].phase \in CalledPhases
               PROVE  run'[d].irq <=> d = 0 \/ \A e \in 0 .. d : ~Dispatching(run[e].via)
    <3>1. Stacked' = Stacked /\ \A e \in Levels : run'[e].via = run[e].via
      BY <1>3 DEF StackKept, Stacked
    <3>2. \A e \in Stacked : 0 .. e \subseteq Levels
      BY LimitsAssumption DEF Stacked, Levels, IInv, TypeOK
    <3> QED BY <3>1, <3>2 DEF MaskedOnlyUnderDispatch
  <2>1. CASE d = depth - 1
    <3>1. run'[d].irq <=> run[d].base \/ ~pending_dispatch_active
      BY <2>1, <1>1, <1>2 DEF IInv, TypeOK, RunRecord, ControlShape
    <3>2. run[d].base <=> d = 0
      BY <2>1, <1>1 DEF IInv, ControlShape
    <3>3. 0 .. d = Stacked
      BY <2>1, <1>1 DEF Stacked
    <3> QED
      BY <3>1, <3>2, <3>3 DEF IInv, OneDispatch
  <2>2. CASE d # depth - 1
    BY <2>2, <1>1, <1>2, StackedLevels DEF IInv, MaskedOnlyUnderDispatch
  <2> QED BY <2>1, <2>2
<1>11. RequestsCaused'
  BY <1>1, <1>2, <1>3, KeptRequests DEF InvokeEntry, IInv, TypeOK, RunRecord, FrameRecord
<1>12. SignalStatusHasCause'
  BY DEF InvokeEntry, IInv, SignalStatusHasCause
<1> QED
  BY <1>3, <1>4, <1>5, <1>6, <1>7, <1>8, <1>9, <1>10, <1>11, <1>12, KeptPids, KeptDispatch,
     KeptLibraries DEF IInv, InvokeEntry

\* The other steps are taken before the program is called or after it was left: the
\* top run moves to a later phase q, its unwind slot is shut and only its own
\* record may change.
Beside ==
    {"counted", "failed", "closed", "decided", "stopping", "exiting", "ended"}

TopMoves(q) ==
    /\ depth' = depth /\ next_pid' = next_pid /\ dynlib' = dynlib
    /\ next_handle' = next_handle /\ pending_dispatch_active' = pending_dispatch_active
    /\ \A d \in Levels : d # depth - 1 => run'[d] = run[d] /\ frame'[d] = frame[d]
    /\ run'[depth - 1].slot = run[depth - 1].slot /\ run'[depth - 1].via = run[depth - 1].via
    /\ run'[depth - 1].base = run[depth - 1].base /\ run'[depth - 1].irq = run[depth - 1].irq
    /\ run'[depth - 1].phase = q
    /\ frame'[depth - 1].pid = frame[depth - 1].pid
    /\ ~frame'[depth - 1].unwind_valid
    /\ frame'[depth - 1].exit_requested = frame[depth - 1].exit_requested
    /\ frame'[depth - 1].exit_status = frame[depth - 1].exit_status
    /\ frame'[depth - 1].stop_requested = frame[depth - 1].stop_requested
    /\ \A s \in Slots : /\ s # run[depth - 1].slot => proc'[s] = proc[s]
                        /\ proc'[s].pid = proc[s].pid
                        /\ proc'[s].last_signal = proc[s].last_signal
    /\ IF q = "ended" THEN proc'[run[depth - 1].slot].state \in {"EXITED", "STOPPED"}
                      ELSE proc'[run[depth - 1].slot].state = "RUNNING"

LEMMA TopStep ==
  ASSUME IInv, TypeOK', NEW q \in Beside, TopMoves(q),
         depth \in 1 .. MAX_DEPTH, depth - 1 \in Levels, depth - 1 \in Stacked,
         run[depth - 1].phase \notin {"push", "ended"},
         q \in UncalledPhases => ~run[depth - 1].irq,
         \/ run'[depth - 1].ret[1] # "signal"
         \/ run'[depth - 1].ret = run[depth - 1].ret
         \/ /\ frame[depth - 1].exit_requested
            /\ run'[depth - 1].ret = frame[depth - 1].exit_status,
         q = "ended" => \/ proc'[run[depth - 1].slot].exit_status[1] # "signal"
                        \/ proc'[run[depth - 1].slot].exit_status = run[depth - 1].ret,
         RunningDepthExact'
  PROVE  IInv'
<1>0. q \notin CalledPhases \cup {"none", "push", "load", "call"}
  BY DEF Beside, CalledPhases
<1>1. \A d \in Stacked : d \in Levels /\ run[d].slot \in Slots
  BY StackedLevels DEF IInv, TypeOK, RunRecord
<1>2. Stacked' = Stacked
  BY DEF TopMoves, Stacked
<1>3. StackKept
  BY <1>0 DEF TopMoves, StackKept
<1>4. ControlShape'
  <2>1. \A d \in Levels : d < depth - 1 => d # depth - 1
    BY LimitsAssumption DEF Levels
  <2> QED
    BY <1>0, <2>1 DEF TopMoves, IInv, TypeOK, ControlShape
<1>5. proc[run[depth - 1].slot].state = "RUNNING"
  BY DEF IInv, FramesMatchTable
<1>6. FramesMatchTable'
  <2>1. \A d \in Stacked : d # depth - 1 => run[d].slot # run[depth - 1].slot
    BY DEF IInv, FramesMatchTable
  <2>2. \A d \in Stacked : run'[d].phase # "push" => proc'[run'[d].slot].pid = frame'[d].pid
    BY <1>1, <1>3 DEF TopMoves, IInv, FramesMatchTable, StackKept
  <2>3. \A d \in Stacked : IF d = depth - 1 /\ run'[d].phase = "ended"
                           THEN proc'[run'[d].slot].state \in {"EXITED", "STOPPED"}
                           ELSE proc'[run'[d].slot].state = "RUNNING"
    BY <1>1, <2>1 DEF TopMoves, IInv, FramesMatchTable
  <2>4. \A d, e \in Stacked : d # e => run'[d].slot # run'[e].slot
    BY <1>1, <1>3 DEF IInv, FramesMatchTable, StackKept
  <2>5. \A s \in Slots : proc'[s].state = "RUNNING" => \E d \in Stacked : run'[d].slot = s
    BY <1>1, <1>3, <1>5 DEF TopMoves, IInv, FramesMatchTable, StackKept
  <2>6. depth' = depth
    BY DEF TopMoves
  <2> QED
    BY <1>2, <2>2, <2>3, <2>4, <2>5, <2>6 DEF FramesMatchTable
<1>7. PidsUnique'
  <2>1. proc'[run[depth - 1].slot].state # "UNUSED"
    BY DEF TopMoves
  <2>2. \A s \in Slots : proc'[s].state # "UNUSED" => proc[s].state # "UNUSED"
    BY <1>5 DEF TopMoves
  <2> QED
    BY <2>1, <2>2 DEF TopMoves, IInv, PidsUnique
<1>8. UnwindSlotsLive'
  BY <1>0 DEF TopMoves, IInv, UnwindSlotsLive
<1>9. MaskedOnlyUnderDispatch'
  <2>1. \A d \in Levels : run'[d].irq = run[d].irq
    BY DEF TopMoves
  <2>2. \A d \in Levels : run'[d].phase \in CalledPhases => run[d].phase \in CalledPhases
    BY <1>0 DEF TopMoves
  <2> QED
    BY <1>3, <2>1, <2>2, KeptMasked
<1>10. RequestsCaused'
  <2> SUFFICES ASSUME NonzeroSignals, NEW d \in Stacked
               PROVE  /\ run'[d].phase # "push" /\ frame'[d].stop_requested
                           => frame'[d].exit_requested
                      /\ run'[d].phase # "push" /\ frame'[d].exit_requested
                         /\ frame'[d].exit_status[1] = "signal"
                           => proc'[run'[d].slot].last_signal # 0
                      /\ run'[d].ret[1] = "signal" => proc'[run'[d].slot].last_signal # 0
    BY <1>2 DEF RequestsCaused
  <2>1. d \in Levels /\ run[d].slot \in Slots
    BY <1>1
  <2>2. CASE d = depth - 1
    BY <2>1, <2>2 DEF TopMoves, IInv, RequestsCaused
  <2>3. CASE d # depth - 1
    BY <2>1, <2>3 DEF TopMoves, IInv, RequestsCaused
  <2> QED BY <2>2, <2>3
<1>11. SignalStatusHasCause'
  <2> SUFFICES ASSUME NonzeroSignals, NEW s \in Slots, proc'[s].state \in {"EXITED", "STOPPED"},
                      proc'[s].exit_status[1] = "signal"
               PROVE  proc'[s].last_signal # 0
    BY DEF SignalStatusHasCause
  <2>1. CASE s = run[depth - 1].slot
    BY <2>1 DEF TopMoves, IInv, RequestsCaused
  <2>2. CASE s # run[depth - 1].slot
    BY <2>2 DEF TopMoves, IInv, SignalStatusHasCause
  <2> QED BY <2>1, <2>2
<1>12. HandlesIssued' /\ LibrariesOwned'
  BY <1>3, KeptLibraries DEF TopMoves
<1> QED
  BY <1>3, <1>4, <1>6, <1>7, <1>8, <1>9, <1>10, <1>11, <1>12, KeptDispatch DEF IInv

\* The frame is pushed: it is that of the run, with no request in it.
LEMMA FrameFacts ==
  ASSUME NEW f \in FrameRecord, NEW pid \in 0 .. MAX_PID, NEW g, g = NewFrame(f, pid)
  PROVE  /\ g \in FrameRecord /\ g.pid = pid /\ ~g.exit_requested /\ ~g.stop_requested
         /\ g.unwind_valid = f.unwind_valid
<1> DEFINE Pid == 0 .. MAX_PID
           Record == [pid : Pid, exit_requested : BOOLEAN, exit_status : Statuses,
                      stop_requested : BOOLEAN, unwind_valid : BOOLEAN]
<1>1. f \in Record /\ FrameRecord = Record /\ pid \in Pid
  BY DEF FrameRecord
<1>2. code(0) \in Statuses
  BY CodeStatus
<1> HIDE DEF Pid
<1>3. g \in Record
  BY <1>1, <1>2 DEF NewFrame
<1>4. /\ g.pid = pid /\ ~g.exit_requested /\ ~g.stop_requested
      /\ g.unwind_valid = f.unwind_valid
  BY <1>1 DEF NewFrame
<1> QED BY <1>1, <1>3, <1>4

LEMMA PushFrameIInv == ASSUME IInv, PushFrame PROVE IInv'
<1>0. At("push") BY DEF PushFrame
<1>1. /\ depth \in 1 .. MAX_DEPTH /\ depth - 1 \in Levels /\ depth - 1 \in Stacked
      /\ run[depth - 1].phase = "push" /\ run[depth - 1].slot \in Slots
  BY <1>0, TopRun
<1> DEFINE top == depth - 1
           pid == proc[run[top].slot].pid
           new == NewFrame(frame[top], pid)
<1>2. /\ run[top] \in RunRecord /\ frame[top] \in FrameRecord /\ pid \in 0 .. MAX_PID
      /\ ~run[top].irq
  <2>1. proc[run[top].slot] \in ProcRecord
    BY <1>1 DEF IInv, TypeOK
  <2> QED
    BY <1>1, <2>1 DEF IInv, TypeOK, ProcRecord, ControlShape, UncalledPhases
<1>3. /\ new \in FrameRecord /\ new.pid = pid /\ ~new.exit_requested /\ ~new.stop_requested
      /\ new.unwind_valid = frame[top].unwind_valid
  BY <1>2, FrameFacts
<1>4. /\ frame' = [frame EXCEPT ![top] = new]
      /\ run' = [run EXCEPT ![top] = InPhase(run[top], "load")]
      /\ UNCHANGED <<proc, next_pid, depth, running_depth, pending_dispatch_active, dynlib,
                     next_handle, active_tty, panicked>>
  BY <1>1 DEF PushFrame, Goto, InPhase, IInv, TypeOK
<1> HIDE DEF new
<1>5. /\ InPhase(run[top], "load") \in RunRecord
      /\ InPhase(run[top], "load").phase = "load" /\ InPhase(run[top], "load").ret = run[top].ret
      /\ InPhase(run[top], "load").slot = run[top].slot
      /\ InPhase(run[top], "load").via = run[top].via
      /\ InPhase(run[top], "load").base = run[top].base
      /\ InPhase(run[top], "load").irq = run[top].irq
  <2>1. "load" \in Phases BY DEF Phases
  <2> QED BY <1>2, <2>1, PhaseUpdate
<1>6. /\ frame' \in [Levels -> FrameRecord] /\ frame'[top] = new
      /\ run' \in [Levels -> RunRecord] /\ run'[top] = InPhase(run[top], "load")
      /\ \A d \in Levels : d # top => frame'[d] = frame[d] /\ run'[d] = run[d]
  BY <1>1, <1>3, <1>4, <1>5 DEF IInv, TypeOK
<1>7. TypeOK'
  BY <1>4, <1>6 DEF IInv, TypeOK
<1>8. \A d \in Levels : /\ run'[d].slot = run[d].slot /\ run'[d].via = run[d].via
                        /\ run'[d].base = run[d].base /\ run'[d].irq = run[d].irq
                        /\ run'[d].ret = run[d].ret
                        /\ frame'[d].unwind_valid = frame[d].unwind_valid
  BY <1>3, <1>5, <1>6
<1>9. Stacked' = Stacked /\ depth' = depth /\ \A d \in Stacked : d \in Levels /\ run[d].slot \in Slots
  BY <1>4, StackedLevels DEF IInv, TypeOK, RunRecord, Stacked
<1>10. \A d \in Levels : run'[d].phase \in CalledPhases <=> run[d].phase \in CalledPhases
  BY <1>1, <1>5, <1>6 DEF CalledPhases
<1>11. run'[top].phase = "load"
  BY <1>5, <1>6
<1> USE DEF top
<1>12. ControlShape'
  <2>1. \A d \in Levels : d \in Int
    BY LimitsAssumption DEF Levels
  <2> QED
    BY <1>1, <1>2, <1>6, <1>8, <1>9, <1>11, <2>1 DEF IInv, TypeOK, ControlShape
<1>13. FramesMatchTable'
  <2>1. \A d \in Stacked : run'[d].phase # "push" => proc'[run'[d].slot].pid = frame'[d].pid
    <3> SUFFICES ASSUME NEW d \in Stacked, run'[d].phase # "push"
                 PROVE  proc[run[d].slot].pid = frame'[d].pid
      BY <1>4, <1>8, <1>9
    <3>1. CASE d = top
      BY <3>1, <1>3, <1>6
    <3>2. CASE d # top
      BY <3>2, <1>6, <1>9 DEF IInv, FramesMatchTable
    <3> QED BY <3>1, <3>2
  <2>2. \A d \in Stacked : IF d = depth' - 1 /\ run'[d].phase = "ended"
                           THEN proc'[run'[d].slot].state \in {"EXITED", "STOPPED"}
                           ELSE proc'[run'[d].slot].state = "RUNNING"
    BY <1>1, <1>4, <1>8, <1>9, <1>11 DEF IInv, FramesMatchTable
  <2>3. /\ \A d, e \in Stacked : d # e => run'[d].slot # run'[e].slot
        /\ \A s \in Slots : proc'[s].state = "RUNNING" => \E d \in Stacked : run'[d].slot = s
    BY <1>4, <1>8, <1>9 DEF IInv, FramesMatchTable
  <2> QED
    BY <1>9, <2>1, <2>2, <2>3 DEF FramesMatchTable
<1>14. PidsUnique' /\ SignalStatusHasCause' /\ HandlesIssued'
  BY <1>4 DEF IInv, PidsUnique, SignalStatusHasCause, HandlesIssued
<1>15. OneDispatch'
  BY <1>4, <1>8, <1>9 DEF IInv, OneDispatch
<1>16. RunningDepthExact'
  BY <1>1, <1>4, <1>11 DEF IInv, RunningDepthExact, CalledPhases
<1>17. UnwindSlotsLive'
  BY <1>8, <1>9, <1>10 DEF IInv, UnwindSlotsLive
<1>18. MaskedOnlyUnderDispatch'
  <2>1. \A d \in Stacked : 0 .. d \subseteq Levels
    BY LimitsAssumption DEF IInv, TypeOK, Stacked, Levels
  <2> QED
    BY <2>1, <1>8, <1>9, <1>10 DEF IInv, MaskedOnlyUnderDispatch
<1>19. RequestsCaused'
  <2> SUFFICES ASSUME NonzeroSignals, NEW d \in Stacked
               PROVE  /\ run'[d].phase # "push" /\ frame'[d].stop_requested
                           => frame'[d].exit_requested
                      /\ run'[d].phase # "push" /\ frame'[d].exit_requested
                         /\ frame'[d].exit_status[1] = "signal"
                           => proc'[run'[d].slot].last_signal # 0
                      /\ run'[d].ret[1] = "signal" => proc'[run'[d].slot].last_signal # 0
    BY <1>9 DEF RequestsCaused
  <2>0. run'[d].ret[1] = "signal" => proc'[run'[d].slot].last_signal # 0
    BY <1>4, <1>8, <1>9 DEF IInv, RequestsCaused
  <2>1. CASE d = top
    BY <2>0, <2>1, <1>3, <1>6
  <2>2. CASE d # top
    <3>1. frame'[d] = frame[d] /\ run'[d] = run[d] /\ proc' = proc
      BY <2>2, <1>4, <1>6, <1>9
    <3> QED BY <2>0, <3>1 DEF IInv, RequestsCaused
  <2> QED BY <2>1, <2>2
<1>20. LibrariesOwned'
  <2>1. ASSUME NEW i \in DynSlots, dynlib[i].used
        PROVE  \E d \in Stacked : run'[d].phase # "push" /\ frame'[d].pid = dynlib[i].owner
    <3> PICK d \in Stacked : run[d].phase # "push" /\ frame[d].pid = dynlib[i].owner
      BY <2>1 DEF IInv, LibrariesOwned
    <3>1. d # top /\ d \in Levels
      BY <1>1, <1>9
    <3> QED BY <3>1, <1>6
  <2> QED
    BY <2>1, <1>4, <1>9 DEF IInv, LibrariesOwned
<1> QED
  BY <1>7, <1>12, <1>13, <1>14, <1>15, <1>16, <1>17, <1>18, <1>19, <1>20 DEF IInv

\* The count is entered, and left again when there is no run stack.
LEMMA CountIInv == ASSUME IInv, CountRun \/ NoRunStack PROVE IInv'
<1>0. PICK p \in {"load", "counted"}, q \in {"counted", "failed"} :
        /\ At(p) /\ Goto(q)
        /\ \/ p = "load" /\ q = "counted" /\ running_depth' = running_depth + 1
           \/ /\ p = "counted" /\ q = "failed"
              /\ running_depth' = IF running_depth > 0 THEN running_depth - 1 ELSE running_depth
  BY DEF CountRun, NoRunStack
<1>1. /\ depth \in 1 .. MAX_DEPTH /\ depth - 1 \in Levels /\ depth - 1 \in Stacked
      /\ run[depth - 1].phase = p /\ run[depth - 1].slot \in Slots
  BY <1>0, TopRun
<1>2. UNCHANGED <<proc, next_pid, frame, depth, pending_dispatch_active, dynlib, next_handle,
                  active_tty, panicked>>
  BY DEF CountRun, NoRunStack
<1>3. run[depth - 1] \in RunRecord /\ ~run[depth - 1].irq
  BY <1>1 DEF IInv, TypeOK, ControlShape, UncalledPhases
<1>4. /\ run' \in [Levels -> RunRecord]
      /\ run'[depth - 1].slot = run[depth - 1].slot /\ run'[depth - 1].via = run[depth - 1].via
      /\ run'[depth - 1].base = run[depth - 1].base /\ run'[depth - 1].irq = run[depth - 1].irq
      /\ run'[depth - 1].phase = q /\ run'[depth - 1].ret = run[depth - 1].ret
      /\ \A d \in Levels : d # depth - 1 => run'[d] = run[d]
  <2>1. q \in Phases BY DEF Phases
  <2>2. run' = [run EXCEPT ![depth - 1] = InPhase(run[depth - 1], q)]
    BY <1>0, <1>1 DEF Goto, InPhase, IInv, TypeOK
  <2>3. /\ InPhase(run[depth - 1], q) \in RunRecord
        /\ InPhase(run[depth - 1], q).phase = q
        /\ InPhase(run[depth - 1], q).ret = run[depth - 1].ret
        /\ InPhase(run[depth - 1], q).slot = run[depth - 1].slot
        /\ InPhase(run[depth - 1], q).via = run[depth - 1].via
        /\ InPhase(run[depth - 1], q).base = run[depth - 1].base
        /\ InPhase(run[depth - 1], q).irq = run[depth - 1].irq
    BY <1>3, <2>1, PhaseUpdate
  <2> QED BY <1>1, <2>2, <2>3 DEF IInv, TypeOK
<1>5. running_depth = IF p = "counted" THEN depth ELSE depth - 1
  BY <1>1 DEF IInv, RunningDepthExact, CalledPhases
<1>6. running_depth' = (IF q = "counted" THEN depth ELSE depth - 1) /\ running_depth' \in 0 .. MAX_DEPTH
  BY <1>0, <1>1, <1>5, LimitsAssumption
<1>7. TypeOK'
  BY <1>2, <1>4, <1>6 DEF IInv, TypeOK
<1>8. ~frame[depth - 1].unwind_valid /\ proc[run[depth - 1].slot].state = "RUNNING"
  BY <1>1 DEF IInv, UnwindSlotsLive, FramesMatchTable, CalledPhases
<1>9. TopMoves(q)
  BY <1>1, <1>2, <1>4, <1>8 DEF TopMoves
<1>10. RunningDepthExact'
  BY <1>1, <1>2, <1>4, <1>6 DEF RunningDepthExact, CalledPhases
<1> QED
  BY <1>1, <1>3, <1>4, <1>7, <1>9, <1>10, TopStep DEF Beside, UncalledPhases

\* A load that fails: the record is EXITED(-1), nothing was called, and no run is counted.
LEMMA LoadFailIInv == ASSUME IInv, LoadFail PROVE IInv'
<1>0. PICK p \in {"load", "failed"} : At(p)
  BY DEF LoadFail
<1>1. /\ depth \in 1 .. MAX_DEPTH /\ depth - 1 \in Levels /\ depth - 1 \in Stacked
      /\ run[depth - 1].phase = p /\ run[depth - 1].slot \in Slots
  BY <1>0, TopRun
<1>2. code(-1) \in Statuses /\ code(-1)[1] = "code"
  BY CodeStatus
<1> DEFINE slot == run[depth - 1].slot
           q == mark_exited(proc[slot], code(-1))
<1>3. proc[slot] \in ProcRecord /\ run[depth - 1] \in RunRecord
  BY <1>1 DEF IInv, TypeOK
<1>4. /\ q \in ProcRecord /\ q.state = "EXITED" /\ q.exit_status = code(-1)
      /\ q.pid = proc[slot].pid /\ q.last_signal = proc[slot].last_signal
  BY <1>2, <1>3, MarkExitedFacts
<1>5. proc' = [proc EXCEPT ![slot] = q]
  BY DEF LoadFail
<1> HIDE DEF q
<1>6. /\ proc' \in [Slots -> ProcRecord] /\ proc'[slot] = q
      /\ \A s \in Slots : s # slot => proc'[s] = proc[s]
  BY <1>1, <1>4, <1>5 DEF IInv, TypeOK
<1> HIDE DEF slot
<1>7. run' \in [Levels -> RunRecord]
  <2>1. "ended" \in Phases BY DEF Phases
  <2> QED BY <1>1, <1>2, <2>1 DEF LoadFail, IInv, TypeOK, RunRecord
<1>8. /\ run'[depth - 1].slot = run[depth - 1].slot /\ run'[depth - 1].via = run[depth - 1].via
      /\ run'[depth - 1].base = run[depth - 1].base /\ run'[depth - 1].irq = run[depth - 1].irq
      /\ run'[depth - 1].phase = "ended" /\ run'[depth - 1].ret = code(-1)
      /\ \A d \in Levels : d # depth - 1 => run'[d] = run[d]
  BY <1>1, <1>3 DEF LoadFail, IInv, TypeOK, RunRecord
<1>9. TypeOK'
  BY <1>6, <1>7 DEF LoadFail, IInv, TypeOK
<1>10. ~frame[depth - 1].unwind_valid
  BY <1>1 DEF IInv, UnwindSlotsLive, CalledPhases
<1>11. TopMoves("ended")
  BY <1>1, <1>4, <1>6, <1>8, <1>10 DEF LoadFail, TopMoves, slot
<1>12. RunningDepthExact'
  BY <1>1, <1>8 DEF LoadFail, IInv, RunningDepthExact, CalledPhases
<1> QED
  BY <1>1, <1>2, <1>4, <1>6, <1>8, <1>9, <1>11, <1>12, TopStep DEF Beside, UncalledPhases, slot

LEMMA CloseUnwindWindowIInv == ASSUME IInv, CloseUnwindWindow PROVE IInv'
<1>0. At("returned") BY DEF CloseUnwindWindow
<1>1. /\ depth \in 1 .. MAX_DEPTH /\ depth - 1 \in Levels /\ depth - 1 \in Stacked
      /\ run[depth - 1].phase = "returned" /\ run[depth - 1].slot \in Slots
  BY <1>0, TopRun
<1>2. run[depth - 1] \in RunRecord /\ frame[depth - 1] \in FrameRecord
  BY <1>1 DEF IInv, TypeOK
<1>3. run' \in [Levels -> RunRecord] /\ frame' \in [Levels -> FrameRecord]
  <2>1. "closed" \in Phases BY DEF Phases
  <2>2. run' \in [Levels -> RunRecord]
    BY <1>1, <2>1 DEF CloseUnwindWindow, Goto, IInv, TypeOK, RunRecord
  <2>3. frame' \in [Levels -> FrameRecord]
    BY <1>1 DEF CloseUnwindWindow, IInv, TypeOK, FrameRecord
  <2> QED BY <2>2, <2>3
<1>4. /\ run'[depth - 1].slot = run[depth - 1].slot /\ run'[depth - 1].via = run[depth - 1].via
      /\ run'[depth - 1].base = run[depth - 1].base /\ run'[depth - 1].irq = run[depth - 1].irq
      /\ run'[depth - 1].phase = "closed" /\ run'[depth - 1].ret = run[depth - 1].ret
      /\ \A d \in Levels : d # depth - 1 => run'[d] = run[d]
  BY <1>1, <1>2 DEF CloseUnwindWindow, Goto, IInv, TypeOK, RunRecord
<1>5. /\ frame'[depth - 1].pid = frame[depth - 1].pid
      /\ ~frame'[depth - 1].unwind_valid
      /\ frame'[depth - 1].exit_requested = frame[depth - 1].exit_requested
      /\ frame'[depth - 1].exit_status = frame[depth - 1].exit_status
      /\ frame'[depth - 1].stop_requested = frame[depth - 1].stop_requested
      /\ \A d \in Levels : d # depth - 1 => frame'[d] = frame[d]
  BY <1>1, <1>2 DEF CloseUnwindWindow, IInv, TypeOK, FrameRecord
<1>6. TypeOK'
  BY <1>3 DEF CloseUnwindWindow, IInv, TypeOK
<1>7. proc[run[depth - 1].slot].state = "RUNNING"
  BY <1>1 DEF IInv, FramesMatchTable
<1>8. TopMoves("closed")
  BY <1>4, <1>5, <1>7 DEF CloseUnwindWindow, TopMoves
<1>9. RunningDepthExact'
  BY <1>1, <1>4 DEF CloseUnwindWindow, IInv, RunningDepthExact, CalledPhases
<1> QED
  BY <1>1, <1>4, <1>6, <1>8, <1>9, TopStep DEF Beside, UncalledPhases

LEMMA SettleStatusIInv == ASSUME IInv, SettleStatus PROVE IInv'
<1>0. At("closed") BY DEF SettleStatus
<1>1. /\ depth \in 1 .. MAX_DEPTH /\ depth - 1 \in Levels /\ depth - 1 \in Stacked
      /\ run[depth - 1].phase = "closed" /\ run[depth - 1].slot \in Slots
  BY <1>0, TopRun
<1>2. run[depth - 1] \in RunRecord /\ frame[depth - 1] \in FrameRecord
  BY <1>1 DEF IInv, TypeOK
<1> DEFINE r == IF frame[depth - 1].exit_requested THEN frame[depth - 1].exit_status
                                                  ELSE run[depth - 1].ret
<1>3. r \in Statuses
  BY <1>2 DEF RunRecord, FrameRecord
<1>4. run' = [run EXCEPT ![depth - 1] = [run[depth - 1] EXCEPT !.phase = "decided", !.ret = r]]
  BY <1>1, <1>2 DEF SettleStatus, IInv, TypeOK
<1>5. \/ r = run[depth - 1].ret
      \/ frame[depth - 1].exit_requested /\ r = frame[depth - 1].exit_status
  OBVIOUS
<1> HIDE DEF r
<1>6. /\ run'[depth - 1].slot = run[depth - 1].slot /\ run'[depth - 1].via = run[depth - 1].via
      /\ run'[depth - 1].base = run[depth - 1].base /\ run'[depth - 1].irq = run[depth - 1].irq
      /\ run'[depth - 1].phase = "decided" /\ run'[depth - 1].ret = r
      /\ \A d \in Levels : d # depth - 1 => run'[d] = run[d]
  BY <1>1, <1>2, <1>4 DEF IInv, TypeOK, RunRecord
<1>7. run' \in [Levels -> RunRecord]
  <2>1. "decided" \in Phases BY DEF Phases
  <2>2. [run[depth - 1] EXCEPT !.phase = "decided", !.ret = r] \in RunRecord
    BY <1>2, <1>3, <2>1 DEF RunRecord
  <2> QED BY <1>1, <1>4, <2>2 DEF IInv, TypeOK
<1>8. running_depth = depth
  BY <1>1 DEF IInv, RunningDepthExact
<1>9. running_depth' = depth - 1 /\ running_depth' \in 0 .. MAX_DEPTH
  BY <1>1, <1>8, LimitsAssumption DEF SettleStatus
<1>10. TypeOK'
  BY <1>7, <1>9 DEF SettleStatus, IInv, TypeOK
<1>11. ~frame[depth - 1].unwind_valid /\ proc[run[depth - 1].slot].state = "RUNNING"
  BY <1>1 DEF IInv, UnwindSlotsLive, FramesMatchTable, CalledPhases
<1>12. TopMoves("decided")
  BY <1>1, <1>6, <1>11 DEF SettleStatus, TopMoves
<1>13. RunningDepthExact'
  BY <1>1, <1>6, <1>9 DEF SettleStatus, RunningDepthExact, CalledPhases
<1> QED
  BY <1>1, <1>5, <1>6, <1>10, <1>12, <1>13, TopStep DEF Beside, UncalledPhases

\* After the count is left, a Goto that may settle the record of the top run.
LEMMA DecidedStep ==
  ASSUME IInv, NEW p \in {"decided", "stopping", "exiting"}, At(p),
         NEW q \in {"stopping", "exiting", "ended"}, Goto(q),
         UNCHANGED <<next_pid, frame, depth, running_depth, pending_dispatch_active,
                     dynlib, next_handle, active_tty, panicked>>,
         NEW new \in ProcRecord, proc' = [proc EXCEPT ![run[depth - 1].slot] = new],
         new.pid = proc[run[depth - 1].slot].pid,
         new.last_signal = proc[run[depth - 1].slot].last_signal,
         IF q = "ended" THEN /\ new.state \in {"EXITED", "STOPPED"}
                             /\ new.exit_status = run[depth - 1].ret
                        ELSE new.state = "RUNNING"
  PROVE  IInv'
<1>1. /\ depth \in 1 .. MAX_DEPTH /\ depth - 1 \in Levels /\ depth - 1 \in Stacked
      /\ run[depth - 1].phase = p /\ run[depth - 1].slot \in Slots
  BY TopRun
<1>2. run[depth - 1] \in RunRecord
  BY <1>1 DEF IInv, TypeOK
<1>3. /\ proc' \in [Slots -> ProcRecord] /\ proc'[run[depth - 1].slot] = new
      /\ \A s \in Slots : s # run[depth - 1].slot => proc'[s] = proc[s]
  BY <1>1 DEF IInv, TypeOK
<1>4. run' \in [Levels -> RunRecord]
  <2>1. q \in Phases BY DEF Phases
  <2> QED BY <1>1, <2>1 DEF Goto, IInv, TypeOK, RunRecord
<1>5. /\ run'[depth - 1].slot = run[depth - 1].slot /\ run'[depth - 1].via = run[depth - 1].via
      /\ run'[depth - 1].base = run[depth - 1].base /\ run'[depth - 1].irq = run[depth - 1].irq
      /\ run'[depth - 1].phase = q /\ run'[depth - 1].ret = run[depth - 1].ret
      /\ \A d \in Levels : d # depth - 1 => run'[d] = run[d]
  BY <1>1, <1>2 DEF Goto, IInv, TypeOK, RunRecord
<1>6. TypeOK'
  BY <1>3, <1>4 DEF IInv, TypeOK
<1>7. ~frame[depth - 1].unwind_valid
  BY <1>1 DEF IInv, UnwindSlotsLive, CalledPhases
<1>8. TopMoves(q)
  BY <1>1, <1>3, <1>5, <1>7 DEF TopMoves
<1>9. RunningDepthExact'
  BY <1>1, <1>5 DEF IInv, RunningDepthExact, CalledPhases
<1> QED
  BY <1>1, <1>3, <1>5, <1>6, <1>8, <1>9, TopStep DEF Beside, UncalledPhases

LEMMA OutcomeIInv ==
  ASSUME IInv, TestStop \/ RecordStopped \/ RecordExited PROVE IInv'
<1> DEFINE slot == run[depth - 1].slot
<1>0. PICK p \in {"decided", "stopping", "exiting"} : At(p)
  BY DEF TestStop, RecordStopped, RecordExited
<1>1. /\ depth - 1 \in Levels /\ depth - 1 \in Stacked /\ run[depth - 1].phase = p
      /\ slot \in Slots
  BY <1>0, TopRun
<1>2. proc[slot] \in ProcRecord /\ run[depth - 1].ret \in Statuses /\ proc \in [Slots -> ProcRecord]
  BY <1>1 DEF IInv, TypeOK, RunRecord
<1>3. CASE TestStop
  <2>1. proc[slot].state = "RUNNING"
    BY <1>1 DEF IInv, FramesMatchTable
  <2>2. proc' = [proc EXCEPT ![slot] = proc[slot]]
    BY <1>2, <1>3 DEF TestStop
  <2>3. PICK q \in {"stopping", "exiting"} : Goto(q)
    BY <1>3 DEF TestStop
  <2> QED
    BY <1>0, <1>2, <1>3, <2>1, <2>2, <2>3, DecidedStep DEF TestStop
<1>4. CASE RecordStopped
  <2> DEFINE new == Ended(proc[slot], "STOPPED", run[depth - 1].ret)
  <2>1. "STOPPED" \in States BY DEF States
  <2>2. /\ new \in ProcRecord /\ new.pid = proc[slot].pid /\ new.state = "STOPPED"
        /\ new.last_signal = proc[slot].last_signal /\ new.exit_status = run[depth - 1].ret
    BY <1>2, <2>1, EndUpdate
  <2>3. proc' = [proc EXCEPT ![slot] = new]
    BY <1>1, <1>2, <1>4 DEF RecordStopped, Ended
  <2> HIDE DEF new
  <2> QED
    BY <1>0, <1>4, <2>2, <2>3, DecidedStep DEF RecordStopped
<1>5. CASE RecordExited
  <2> DEFINE new == mark_exited(proc[slot], run[depth - 1].ret)
  <2>1. /\ new \in ProcRecord /\ new.pid = proc[slot].pid /\ new.state = "EXITED"
        /\ new.last_signal = proc[slot].last_signal /\ new.exit_status = run[depth - 1].ret
    BY <1>2, MarkExitedFacts
  <2>2. proc' = [proc EXCEPT ![slot] = new]
    BY <1>5 DEF RecordExited
  <2> HIDE DEF new
  <2> QED
    BY <1>0, <1>5, <2>1, <2>2, DecidedStep DEF RecordExited
<1> QED
  BY <1>3, <1>4, <1>5

-----------------------------------------------------------------------------
(***************************************************************************)
(* Launching.  The slot a launch takes is never the slot of a stacked run. *)
(***************************************************************************)
\* The program, or the main loop, is about to launch something.
AtLaunch == depth = 0 \/ run[depth - 1].phase \in ProgramPhases

LEMMA LaunchControl ==
  ASSUME IInv, NEW p, At(p), p \in ProgramPhases \cup {"main"}
  PROVE  AtLaunch /\ (p = "main" => depth = 0)
<1>1. CASE p = "main"
  <2>1. \A d \in Levels : d = depth - 1 => run[d].phase # "main"
    BY DEF IInv, TypeOK, RunRecord, Phases, CalledPhases
  <2>2. depth # 0 => depth - 1 \in Levels
    BY LimitsAssumption DEF IInv, TypeOK, Levels
  <2> QED BY <1>1, <2>1, <2>2 DEF At, Control, AtLaunch
<1>2. CASE p # "main"
  BY <1>2, TopRun DEF AtLaunch, ProgramPhases, CalledPhases
<1> QED BY <1>1, <1>2

LEMMA StackedRunning ==
  ASSUME IInv, AtLaunch
  PROVE  \A d \in Stacked : proc[run[d].slot].state = "RUNNING"
<1>1. \A d \in Stacked : d = depth - 1 => run[d].phase # "ended"
  BY DEF AtLaunch, IInv, TypeOK, Stacked, ProgramPhases, CalledPhases
<1> QED BY <1>1 DEF IInv, FramesMatchTable

LEMMA AllocFacts ==
  ASSUME IInv, NEW slot, CanAllocate(slot)
  PROVE  /\ slot \in Slots /\ proc[slot].state \in {"UNUSED", "EXITED"}
         /\ next_pid \in 1 .. MAX_PID /\ next_pid + 1 \in 1 .. MAX_PID + 1
         /\ next_pid \in 0 .. MAX_PID
<1>1. slot \in Slots /\ proc[slot].state \in {"UNUSED", "EXITED"}
  BY DEF CanAllocate, proc_alloc_slot, first_of, unused_slots, exited_slots
<1>2. next_pid \in 1 .. MAX_PID
  BY LimitsAssumption DEF CanAllocate, IInv, TypeOK
<1> QED BY <1>1, <1>2, LimitsAssumption

\* A new record takes a pid nobody has.
LEMMA FreshPid ==
  ASSUME IInv, NEW slot \in Slots, next_pid \in 1 .. MAX_PID, next_pid' = next_pid + 1,
         \A s \in Slots : s # slot => proc'[s].pid = proc[s].pid /\ proc'[s].state = proc[s].state,
         proc'[slot].state = "UNUSED" \/ proc'[slot].pid = next_pid
  PROVE  PidsUnique'
<1>1. \A s \in Slots : s # slot /\ proc'[s].state # "UNUSED" =>
        proc'[s].pid \in 1 .. next_pid - 1 /\ proc'[s].pid # next_pid
  BY LimitsAssumption DEF IInv, PidsUnique
<1>2. \A s \in Slots : proc'[s].state # "UNUSED" => proc'[s].pid \in 1 .. next_pid' - 1
  BY <1>1, LimitsAssumption
<1> QED
  BY <1>1, <1>2 DEF IInv, PidsUnique

LEMMA PreparedRecord ==
  ASSUME IInv, NEW path \in Paths, NEW st \in States, next_pid \in 0 .. MAX_PID
  PROVE  LET r == prepare_proc_record(next_pid, path, st)
         IN  /\ r \in ProcRecord /\ r.pid = next_pid /\ r.state = st
             /\ r.exit_status = code(-1) /\ r.last_signal = 0
<1>1. 0 \in 0 .. 255 /\ 0 \in 0 .. 31 /\ active_tty \in Ttys
  BY DEF IInv, TypeOK
<1>2. code(-1) \in Statuses
  BY CodeStatus
<1>3. path \in MaybePath
  BY DEF MaybePath
<1> QED
  BY <1>1, <1>2, <1>3 DEF prepare_proc_record, ProcRecord

\* A launch that does not run: one record off the stack is rewritten.
LEMMA OffStackStep ==
  ASSUME IInv, AtLaunch, NEW slot \in Slots, proc[slot].state # "RUNNING",
         NEW new \in ProcRecord, proc' = [proc EXCEPT ![slot] = new],
         new.state # "RUNNING", new.exit_status[1] # "signal",
         PidsUnique', next_pid' \in 1 .. MAX_PID + 1,
         \/ run' = run
         \/ \E q \in ProgramPhases : depth > 0 /\ Goto(q),
         UNCHANGED <<frame, depth, running_depth, pending_dispatch_active, dynlib,
                     next_handle, active_tty, panicked>>
  PROVE  IInv'
<1>0. \A d \in Stacked : d \in Levels /\ run[d].slot \in Slots
  BY StackedLevels DEF IInv, TypeOK, RunRecord
<1>1. depth > 0 => depth - 1 \in Levels
  BY LimitsAssumption DEF IInv, TypeOK, Levels
<1>2. /\ proc' \in [Slots -> ProcRecord] /\ proc'[slot] = new
      /\ \A s \in Slots : s # slot => proc'[s] = proc[s]
  BY DEF IInv, TypeOK
<1>3. /\ run' \in [Levels -> RunRecord]
      /\ \A d \in Levels : /\ run'[d].slot = run[d].slot /\ run'[d].via = run[d].via
                           /\ run'[d].base = run[d].base /\ run'[d].irq = run[d].irq
                           /\ run'[d].ret = run[d].ret
                           /\ \/ run'[d].phase = run[d].phase
                              \/ d = depth - 1 /\ run'[d].phase \in ProgramPhases
  <2>1. CASE run' = run
    BY <2>1 DEF IInv, TypeOK
  <2>2. CASE \E q \in ProgramPhases : depth > 0 /\ Goto(q)
    <3> PICK q \in ProgramPhases : depth > 0 /\ Goto(q) BY <2>2
    <3>1. q \in Phases BY DEF ProgramPhases, Phases
    <3>2. run' \in [Levels -> RunRecord]
      BY <1>1, <3>1 DEF Goto, IInv, TypeOK, RunRecord
    <3>3. \A d \in Levels : run'[d] = IF d = depth - 1 THEN [run[d] EXCEPT !.phase = q]
                                                       ELSE run[d]
      BY <1>1 DEF Goto, IInv, TypeOK
    <3>4. \A d \in Levels : run[d] \in RunRecord
      BY DEF IInv, TypeOK
    <3> QED BY <3>2, <3>3, <3>4 DEF RunRecord
  <2> QED BY <2>1, <2>2
<1>4. TypeOK'
  BY <1>2, <1>3 DEF IInv, TypeOK
<1>6. \A d \in Levels : \/ run'[d].phase = run[d].phase
                        \/ /\ d = depth - 1
                           /\ run[d].phase \in ProgramPhases /\ run'[d].phase \in ProgramPhases
  <2>1. depth = 0 => \A d \in Levels : d # depth - 1
    BY DEF Levels
  <2> QED BY <1>3, <2>1 DEF AtLaunch
<1>5. StackKept
  BY <1>3, <1>6 DEF StackKept, ProgramPhases, CalledPhases
<1>7. Stacked' = Stacked
  BY DEF Stacked
<1>8. \A d \in Stacked : run[d].slot # slot /\ proc[run[d].slot].state = "RUNNING"
  BY StackedRunning
<1>9. ControlShape'
  BY <1>3, <1>6 DEF IInv, TypeOK, ControlShape, ProgramPhases, CalledPhases, UncalledPhases
<1>10. FramesMatchTable'
  <2>1. \A d \in Stacked : run'[d].phase = "ended" => d # depth - 1
    BY <1>0, <1>6, <1>1 DEF AtLaunch, Stacked, IInv, TypeOK, ProgramPhases, CalledPhases
  <2>2. \A d \in Stacked : /\ run'[d].phase # "push" => proc'[run'[d].slot].pid = frame'[d].pid
                           /\ proc'[run'[d].slot].state = "RUNNING"
    BY <1>0, <1>2, <1>3, <1>5, <1>8 DEF IInv, FramesMatchTable, StackKept
  <2>3. \A s \in Slots : proc'[s].state = "RUNNING" => \E d \in Stacked : run'[d].slot = s
    BY <1>0, <1>2, <1>3 DEF IInv, FramesMatchTable
  <2>4. \A d, e \in Stacked : d # e => run'[d].slot # run'[e].slot
    BY <1>0, <1>3 DEF IInv, FramesMatchTable
  <2> QED BY <1>7, <2>1, <2>2, <2>3, <2>4 DEF FramesMatchTable
<1>11. \A d \in Levels : /\ run'[d].phase \in CalledPhases <=> run[d].phase \in CalledPhases
                         /\ run'[d].phase = "closed" <=> run[d].phase = "closed"
                         /\ run'[d].phase = "counted" <=> run[d].phase = "counted"
  BY <1>6 DEF ProgramPhases, CalledPhases
<1>12. RunningDepthExact'
  <2>1. depth # 0 => depth - 1 \in Levels
    BY LimitsAssumption DEF IInv, TypeOK, Levels
  <2> QED BY <2>1, <1>11 DEF IInv, RunningDepthExact
<1>13. UnwindSlotsLive'
  BY <1>11 DEF IInv, UnwindSlotsLive
<1>14. MaskedOnlyUnderDispatch'
  BY <1>3, <1>5, <1>11, KeptMasked
<1>15. RequestsCaused'
  BY <1>0, <1>2, <1>3, <1>5, <1>7, <1>8 DEF IInv, RequestsCaused, StackKept
<1>16. SignalStatusHasCause'
  BY <1>2 DEF IInv, SignalStatusHasCause
<1> QED
  BY <1>4, <1>5, <1>9, <1>10, <1>12, <1>13, <1>14, <1>15, <1>16, KeptDispatch, KeptLibraries
     DEF IInv

\* The mark: the table procs differs from proc at most in the slot that runs.
LEMMA EnterRunIInv ==
  ASSUME IInv, AtLaunch, NEW slot \in Slots, proc[slot].state # "RUNNING",
         NEW procs \in [Slots -> ProcRecord],
         \A s \in Slots : s # slot => procs[s] = proc[s],
         NEW via \in {"exec", "wait", "yield", "tick"},
         Dispatching(via) => ~pending_dispatch_active,
         EnterRun(slot, procs, via), PidsUnique', next_pid' \in 1 .. MAX_PID + 1
  PROVE  IInv'
<1>0. \A d \in Stacked : d \in Levels /\ run[d].slot \in Slots
  BY StackedLevels DEF IInv, TypeOK, RunRecord
<1>1. /\ depth \in 0 .. MAX_DEPTH - 1 /\ depth \in Levels /\ depth' = depth + 1
      /\ depth' \in 1 .. MAX_DEPTH
  BY LimitsAssumption DEF EnterRun, IInv, TypeOK, Levels
<1>2. Stacked' = Stacked \cup {depth} /\ depth \notin Stacked
  BY <1>1 DEF Stacked
<1> DEFINE r == InState(procs[slot], "RUNNING")
<1>3. r \in ProcRecord /\ r.state = "RUNNING" /\ r.pid = procs[slot].pid
  <2>1. "RUNNING" \in States BY DEF States
  <2>2. procs[slot] \in ProcRecord OBVIOUS
  <2> QED BY <2>1, <2>2, StateUpdate
<1>4. proc' = [procs EXCEPT ![slot] = r]
  BY DEF EnterRun, InState
<1> HIDE DEF r
<1>5. /\ proc' \in [Slots -> ProcRecord] /\ proc'[slot] = r
      /\ \A s \in Slots : s # slot => proc'[s] = proc[s]
  BY <1>3, <1>4
<1>8. frame' = frame
  BY DEF EnterRun
<1> DEFINE n == NewRun(slot, via)
<1>9. /\ n \in RunRecord /\ n.phase = "push" /\ n.slot = slot /\ n.via = via
      /\ n.base = (depth = 0) /\ ~n.irq /\ n.ret = code(-1)
  <2>1. code(-1) \in Statuses BY CodeStatus
  <2>2. "push" \in Phases BY DEF Phases
  <2>3. (depth = 0) \in BOOLEAN OBVIOUS
  <2> QED BY <2>1, <2>2, <2>3 DEF NewRun, RunRecord
<1>10. run' = [d \in Levels |-> CASE d = depth -> n
                                  [] d = depth - 1 -> [run[d] EXCEPT !.phase = "call"]
                                  [] OTHER -> run[d]]
  BY DEF EnterRun
<1> HIDE DEF n
<1>11. /\ run'[depth] = n
       /\ \A d \in Levels : d # depth /\ d # depth - 1 => run'[d] = run[d]
       /\ \A d \in Levels : d = depth - 1 => run'[d] = InPhase(run[d], "call")
  BY <1>1, <1>10 DEF InPhase
<1>12. \A d \in Levels : d = depth - 1 =>
         /\ run'[d] \in RunRecord /\ run'[d].phase = "call"
         /\ run'[d].slot = run[d].slot /\ run'[d].via = run[d].via
         /\ run'[d].base = run[d].base /\ run'[d].irq = run[d].irq /\ run'[d].ret = run[d].ret
  <2>1. \A d \in Levels : run[d] \in RunRecord
    BY DEF IInv, TypeOK
  <2>2. "call" \in Phases BY DEF Phases, CalledPhases
  <2> QED BY <1>11, <2>1, <2>2, PhaseUpdate
<1>13. \A d \in Levels : d # depth =>
         /\ run'[d].slot = run[d].slot /\ run'[d].via = run[d].via
         /\ run'[d].base = run[d].base /\ run'[d].irq = run[d].irq /\ run'[d].ret = run[d].ret
  BY <1>11, <1>12
<1>14. run' \in [Levels -> RunRecord]
  <2>1. \A d \in Levels : run'[d] \in RunRecord
    BY <1>9, <1>11, <1>12 DEF IInv, TypeOK
  <2> QED BY <1>10, <2>1
<1>15. TypeOK'
  <2>1. pending_dispatch_active' \in BOOLEAN
    BY DEF EnterRun, IInv, TypeOK
  <2>2. depth' \in 0 .. MAX_DEPTH
    BY <1>1
  <2>3. UNCHANGED <<running_depth, dynlib, next_handle, active_tty, panicked>>
    BY DEF EnterRun
  <2> QED BY <1>5, <1>8, <1>14, <2>1, <2>2, <2>3 DEF IInv, TypeOK
<1>16. ControlShape'
  <2> SUFFICES ASSUME NEW d \in Levels
               PROVE  /\ d < depth' - 1 => run'[d].phase = "call"
                      /\ d = depth' - 1 => run'[d].phase \notin {"none", "call"}
                      /\ d >= depth' => run'[d].phase = "none"
                      /\ d < depth' => (run'[d].base <=> d = 0)
                      /\ run'[d].phase \in UncalledPhases => ~run'[d].irq
    BY DEF ControlShape
  <2>0. d \in Int
    BY DEF Levels
  <2>1. CASE d = depth
    <3>1. ~(d < depth' - 1) /\ ~(d >= depth') /\ (depth = 0 <=> d = 0)
      BY <2>1, <1>1
    <3> QED BY <2>1, <3>1, <1>9, <1>11
  <2>2. CASE d = depth - 1
    <3>1. d # depth' - 1 /\ ~(d >= depth') /\ d < depth
      BY <2>2, <1>1
    <3> QED BY <2>2, <3>1, <1>12 DEF IInv, ControlShape, UncalledPhases
  <2>3. CASE d # depth /\ d # depth - 1
    <3>1. /\ d # depth' - 1 /\ (d < depth' - 1 <=> d < depth - 1)
          /\ (d >= depth' => d >= depth) /\ (d < depth' => d < depth)
      BY <2>0, <2>3, <1>1
    <3>2. run'[d] = run[d]
      BY <2>3, <1>11
    <3> QED BY <3>1, <3>2 DEF IInv, ControlShape
  <2> QED BY <2>1, <2>2, <2>3
<1>17. \A d \in Stacked : run[d].slot # slot /\ proc[run[d].slot].state = "RUNNING" /\ d # depth
  BY <1>2, StackedRunning
<1>p. \A d \in Stacked : run[d].phase # "push"
  <2>1. \A d \in Stacked : d < depth - 1 \/ d = depth - 1
    BY <1>1 DEF Stacked
  <2>2. \A d \in Stacked : d = depth - 1 => run[d].phase \in ProgramPhases
    BY DEF AtLaunch, Stacked
  <2> QED
    BY <1>0, <2>1, <2>2 DEF IInv, ControlShape, ProgramPhases, CalledPhases
<1>18. FramesMatchTable'
  <2>1. \A d \in Stacked' : /\ run'[d].phase # "push" => proc'[run'[d].slot].pid = frame'[d].pid
                            /\ proc'[run'[d].slot].state = "RUNNING"
    BY <1>0, <1>2, <1>3, <1>5, <1>8, <1>9, <1>11, <1>13, <1>17, <1>p DEF IInv, FramesMatchTable
  <2>2. \A d, e \in Stacked' : d # e => run'[d].slot # run'[e].slot
    BY <1>0, <1>2, <1>9, <1>11, <1>13, <1>17 DEF IInv, FramesMatchTable
  <2>3. \A s \in Slots : proc'[s].state = "RUNNING" => \E d \in Stacked' : run'[d].slot = s
    BY <1>0, <1>2, <1>5, <1>9, <1>11, <1>13, <1>17 DEF IInv, FramesMatchTable
  <2>4. \A d \in Stacked' : d = depth' - 1 => run'[d].phase # "ended"
    BY <1>1, <1>9, <1>11
  <2> QED BY <2>1, <2>2, <2>3, <2>4 DEF FramesMatchTable
<1>19. OneDispatch'
  <2>1. pending_dispatch_active' = (pending_dispatch_active \/ Dispatching(via))
    BY DEF EnterRun
  <2>2. run'[depth].via = via /\ \A d \in Stacked : run'[d].via = run[d].via
    BY <1>0, <1>9, <1>11, <1>13, <1>17
  <2>3. pending_dispatch_active' <=> \E d \in Stacked' : Dispatching(run'[d].via)
    BY <1>2, <2>1, <2>2 DEF IInv, OneDispatch, Dispatching
  <2>4. \A d, e \in Stacked' : Dispatching(run'[d].via) /\ Dispatching(run'[e].via) => d = e
    BY <1>2, <2>2 DEF IInv, OneDispatch, Dispatching
  <2> QED BY <2>3, <2>4 DEF OneDispatch
<1>20. RunningDepthExact'
  <2>1. running_depth = depth
    BY DEF AtLaunch, IInv, RunningDepthExact, ProgramPhases
  <2>2. running_depth' = running_depth
    BY DEF EnterRun
  <2>3. depth' - 1 = depth /\ depth' # 0
    BY <1>1
  <2> QED BY <1>9, <1>11, <2>1, <2>2, <2>3 DEF RunningDepthExact, CalledPhases
<1>21. UnwindSlotsLive'
  <2> SUFFICES ASSUME NEW d \in Levels
               PROVE  frame'[d].unwind_valid <=> d < depth' /\ run'[d].phase \in CalledPhases
    BY DEF UnwindSlotsLive
  <2>1. CASE d = depth
    <3>1. ~frame'[d].unwind_valid
      BY <2>1, <1>1, <1>8 DEF IInv, UnwindSlotsLive
    <3> QED BY <2>1, <3>1, <1>9, <1>11 DEF CalledPhases
  <2>2. CASE d = depth - 1
    <3>1. run[d].phase \in CalledPhases
      BY <2>2, <1>1 DEF AtLaunch, ProgramPhases, Levels
    <3>2. d < depth /\ d < depth'
      BY <2>2, <1>1
    <3> QED BY <2>2, <3>1, <3>2, <1>1, <1>8, <1>12 DEF IInv, UnwindSlotsLive, CalledPhases
  <2>3. CASE d # depth /\ d # depth - 1
    <3>1. d < depth' <=> d < depth
      BY <2>3, <1>1 DEF Levels
    <3> QED BY <2>3, <3>1, <1>8, <1>11 DEF IInv, UnwindSlotsLive
  <2> QED BY <2>1, <2>2, <2>3
<1>22. MaskedOnlyUnderDispatch'
  <2> SUFFICES ASSUME NEW d \in Stacked', run'[d].phase \in CalledPhases
               PROVE  run'[d].irq <=> d = 0 \/ \A e \in 0 .. d : ~Dispatching(run'[e].via)
    BY DEF MaskedOnlyUnderDispatch
  <2>1. d \in Stacked
    BY <1>2, <1>9, <1>11 DEF CalledPhases
  <2>2. 0 .. d \subseteq Stacked
    BY <2>1, <1>1 DEF Stacked
  <2>3. \A e \in 0 .. d : run'[e].via = run[e].via
    BY <2>2, <1>0, <1>13, <1>17
  <2>4. run[d].phase \in CalledPhases
    <3>1. CASE d = depth - 1
      BY <2>1, <3>1, <1>1 DEF AtLaunch, ProgramPhases, Stacked
    <3>2. CASE d # depth - 1
      BY <2>1, <3>2, <1>0, <1>11, <1>17
    <3> QED BY <3>1, <3>2
  <2>5. run'[d].irq = run[d].irq
    BY <2>1, <1>0, <1>13, <1>17
  <2> QED BY <2>1, <2>3, <2>4, <2>5 DEF IInv, MaskedOnlyUnderDispatch
<1>23. RequestsCaused'
  <2> SUFFICES ASSUME NonzeroSignals, NEW d \in Stacked'
               PROVE  /\ run'[d].phase # "push" /\ frame'[d].stop_requested
                           => frame'[d].exit_requested
                      /\ run'[d].phase # "push" /\ frame'[d].exit_requested
                         /\ frame'[d].exit_status[1] = "signal"
                           => proc'[run'[d].slot].last_signal # 0
                      /\ run'[d].ret[1] = "signal" => proc'[run'[d].slot].last_signal # 0
    BY DEF RequestsCaused
  <2>1. CASE d = depth
    <3>1. code(-1)[1] = "code" BY CodeStatus
    <3> QED BY <2>1, <3>1, <1>8, <1>9, <1>11
  <2>2. CASE d # depth
    <3>1. d \in Stacked /\ d \in Levels /\ run[d].slot # slot /\ run[d].slot \in Slots
      BY <2>2, <1>0, <1>2, <1>17
    <3>2. frame'[d] = frame[d] /\ run'[d].ret = run[d].ret /\ run'[d].slot = run[d].slot
      BY <2>2, <3>1, <1>8, <1>13
    <3> QED BY <3>1, <3>2, <1>5, <1>p DEF IInv, RequestsCaused
  <2> QED BY <2>1, <2>2
<1>24. SignalStatusHasCause'
  BY <1>3, <1>5 DEF IInv, SignalStatusHasCause
<1>25. HandlesIssued' /\ LibrariesOwned'
  <2>1. dynlib' = dynlib /\ next_handle' = next_handle
    BY DEF EnterRun
  <2>2. \A d \in Stacked : d \in Stacked' /\ frame'[d] = frame[d] /\ run'[d].phase # "push"
    BY <1>0, <1>2, <1>8, <1>11, <1>12, <1>17, <1>p
  <2> QED BY <2>1, <2>2 DEF IInv, HandlesIssued, LibrariesOwned
<1> QED
  BY <1>15, <1>16, <1>18, <1>19, <1>20, <1>21, <1>22, <1>23, <1>24, <1>25 DEF IInv

LEMMA SpawnIInv ==
  ASSUME IInv, NEW slot \in Slots,
         (\E path \in Paths : SysSpawn(path, slot)) \/ SysExecBadStdio(slot)
  PROVE  IInv'
<1>0. At("user") /\ CanAllocate(slot)
  BY DEF SysSpawn, SysExecBadStdio, InSyscall
<1>1. AtLaunch
  BY <1>0, LaunchControl DEF ProgramPhases, CalledPhases
<1>2. /\ proc[slot].state \in {"UNUSED", "EXITED"} /\ next_pid \in 1 .. MAX_PID
      /\ next_pid + 1 \in 1 .. MAX_PID + 1 /\ next_pid \in 0 .. MAX_PID
  BY <1>0, AllocFacts
<1>3. PICK new \in ProcRecord :
        /\ proc' = [proc EXCEPT ![slot] = new]
        /\ new.state = "UNUSED" \/ new.pid = next_pid
        /\ new.state # "RUNNING" /\ new.exit_status[1] = "code"
  <2>1. CASE \E path \in Paths : SysSpawn(path, slot)
    <3> PICK path \in Paths : SysSpawn(path, slot) BY <2>1
    <3>1. "PENDING" \in States BY DEF States
    <3> DEFINE r == prepare_proc_record(next_pid, path, "PENDING")
    <3>2. /\ r \in ProcRecord /\ r.pid = next_pid /\ r.state = "PENDING"
          /\ r.exit_status = code(-1)
      BY <1>2, <3>1, PreparedRecord
    <3>3. proc' = [proc EXCEPT ![slot] = r]
      BY DEF SysSpawn
    <3>4. code(-1)[1] = "code" BY CodeStatus
    <3> HIDE DEF r
    <3> QED BY <3>2, <3>3, <3>4
  <2>2. CASE SysExecBadStdio(slot)
    <3>1. code(0) \in Statuses /\ code(0)[1] = "code" BY CodeStatus
    <3>2. "UNUSED" \in States BY DEF States
    <3>3. 0 \in 0 .. MAX_PID /\ 0 \in 0 .. 255 /\ 0 \in 0 .. 31
      BY LimitsAssumption
    <3>4. NoProc \in ProcRecord /\ NoProc.state = "UNUSED" /\ NoProc.exit_status = code(0)
      BY <3>1, <3>2, <3>3 DEF NoProc, ProcRecord, MaybePath
    <3> QED BY <2>2, <3>1, <3>4 DEF SysExecBadStdio
  <2> QED BY <2>1, <2>2
<1>4. /\ next_pid' = next_pid + 1 /\ run' = run
      /\ UNCHANGED <<frame, depth, running_depth, pending_dispatch_active, dynlib,
                     next_handle, active_tty, panicked>>
  BY DEF SysSpawn, SysExecBadStdio
<1>5. proc'[slot] = new /\ \A s \in Slots : s # slot => proc'[s] = proc[s]
  BY <1>3 DEF IInv, TypeOK
<1>6. PidsUnique'
  BY <1>2, <1>3, <1>4, <1>5, FreshPid
<1> QED
  BY <1>1, <1>2, <1>3, <1>4, <1>6, OffStackStep

LEMMA ExecPathIInv ==
  ASSUME IInv, NEW path \in Paths, NEW slot \in Slots, ExecPath(path, slot)
  PROVE  IInv'
<1>0. PICK p \in {"user", "main"} : At(p)
  BY DEF ExecPath, InSyscall
<1>1. AtLaunch /\ (p = "main" => depth = 0)
  BY <1>0, LaunchControl DEF ProgramPhases, CalledPhases
<1>2. /\ proc[slot].state \in {"UNUSED", "EXITED"} /\ next_pid \in 1 .. MAX_PID
      /\ next_pid + 1 \in 1 .. MAX_PID + 1 /\ next_pid \in 0 .. MAX_PID
  BY AllocFacts DEF ExecPath
<1> DEFINE r == prepare_proc_record(next_pid, path, "RUNNING")
           procs == [proc EXCEPT ![slot] = r]
<1>3. /\ r \in ProcRecord /\ r.pid = next_pid /\ r.state = "RUNNING"
      /\ r.exit_status = code(-1)
  <2>1. "RUNNING" \in States BY DEF States
  <2> QED BY <1>2, <2>1, PreparedRecord
<1>4. next_pid' = next_pid + 1 /\ RunProcSlot(slot, procs, "exec", {"user"})
  BY DEF ExecPath
<1> HIDE DEF r
<1>5. /\ procs \in [Slots -> ProcRecord] /\ procs[slot] = r
      /\ \A s \in Slots : s # slot => procs[s] = proc[s]
  BY <1>3 DEF IInv, TypeOK
<1> HIDE DEF procs
<1>6. CASE EnterRun(slot, procs, "exec")
  <2>1. proc' = [procs EXCEPT ![slot].state = "RUNNING"]
    BY <1>6 DEF EnterRun
  <2>2. proc'[slot].pid = next_pid /\ \A s \in Slots : s # slot => proc'[s] = proc[s]
    <3>1. proc'[slot] = [r EXCEPT !.state = "RUNNING"]
      BY <2>1, <1>5
    <3>2. [r EXCEPT !.state = "RUNNING"].pid = r.pid
      BY <1>3 DEF ProcRecord
    <3> QED BY <2>1, <3>1, <3>2, <1>3, <1>5
  <2>3. PidsUnique'
    BY <1>2, <1>4, <2>2, FreshPid
  <2>4. ~Dispatching("exec") BY DEF Dispatching
  <2> QED BY <1>1, <1>2, <1>4, <1>5, <1>6, <2>3, <2>4, EnterRunIInv
<1>7. CASE RefuseRun(slot, procs, {"user"})
  <2>0. depth > 0
    BY <1>7, LimitsAssumption DEF RefuseRun, IInv, TypeOK
  <2> DEFINE q == mark_exited(procs[slot], code(-1))
  <2>1. code(-1) \in Statuses /\ code(-1)[1] = "code" BY CodeStatus
  <2>2. q \in ProcRecord /\ q.state = "EXITED" /\ q.exit_status = code(-1) /\ q.pid = next_pid
    BY <1>3, <1>5, <2>1, MarkExitedFacts
  <2>3. proc' = [procs EXCEPT ![slot] = q]
    BY <1>7 DEF RefuseRun
  <2> HIDE DEF q
  <2>4. proc' = [proc EXCEPT ![slot] = q]
    BY <2>3 DEF procs
  <2>5. proc'[slot] = q /\ \A s \in Slots : s # slot => proc'[s] = proc[s]
    BY <2>4 DEF IInv, TypeOK
  <2>6. PidsUnique'
    BY <1>2, <1>4, <2>2, <2>5, FreshPid
  <2>7. "user" \in ProgramPhases /\ Goto("user")
    BY <1>7 DEF RefuseRun, ProgramPhases, CalledPhases
  <2>8. UNCHANGED <<frame, depth, running_depth, pending_dispatch_active, dynlib,
                    next_handle, active_tty, panicked>>
    BY <1>7 DEF RefuseRun
  <2> QED BY <1>1, <1>2, <1>4, <2>0, <2>1, <2>2, <2>4, <2>6, <2>7, <2>8, OffStackStep
<1> QED
  BY <1>4, <1>6, <1>7 DEF RunProcSlot

\* wait_pid, yield, sleep_ticks and exec_tick run a record that is PENDING.
LEMMA DispatchIInv ==
  ASSUME IInv, NEW slot \in Slots,
         \/ \E pid \in 1 .. MAX_PID : SysWaitPid(pid, slot)
         \/ YieldDispatch(slot) \/ ExecTick(slot)
  PROVE  IInv'
<1>0. PICK p \in {"user", "woken", "main"} : At(p)
  BY DEF SysWaitPid, YieldDispatch, ExecTick, InSyscall
<1>1. AtLaunch /\ (p = "main" => depth = 0)
  BY <1>0, LaunchControl DEF ProgramPhases, CalledPhases
<1>2. /\ proc[slot].state = "PENDING" /\ ~pending_dispatch_active /\ next_pid' = next_pid
  BY DEF SysWaitPid, YieldDispatch, ExecTick, first_of, pending_slots
<1>3. PICK via \in {"wait", "yield", "tick"} :
        EnterRun(slot, proc, via) \/ \E back \in SUBSET {"user", "hlt"} : RefuseRun(slot, proc, back)
  BY DEF SysWaitPid, YieldDispatch, ExecTick, RunProcSlot
<1>4. proc \in [Slots -> ProcRecord] /\ next_pid' \in 1 .. MAX_PID + 1
  BY <1>2 DEF IInv, TypeOK
<1>5. ASSUME NEW q \in ProcRecord, proc' = [proc EXCEPT ![slot] = q], q.pid = proc[slot].pid
      PROVE  PidsUnique'
  <2>1. proc'[slot] = q /\ \A s \in Slots : s # slot => proc'[s] = proc[s]
    BY <1>4, <1>5
  <2>2. proc[slot].state # "UNUSED"
    BY <1>2
  <2> QED BY <2>1, <2>2, <1>2, <1>5 DEF IInv, PidsUnique
<1>6. proc[slot] \in ProcRecord
  BY <1>4
<1>7. CASE EnterRun(slot, proc, via)
  <2>1. proc' = [proc EXCEPT ![slot] = InState(proc[slot], "RUNNING")]
    BY <1>4, <1>7 DEF EnterRun, InState
  <2>2. /\ InState(proc[slot], "RUNNING") \in ProcRecord
        /\ InState(proc[slot], "RUNNING").pid = proc[slot].pid
    <3>1. "RUNNING" \in States BY DEF States
    <3> QED BY <1>6, <3>1, StateUpdate
  <2>3. PidsUnique'
    BY <1>5, <2>1, <2>2
  <2> QED BY <1>1, <1>2, <1>4, <1>7, <2>3, EnterRunIInv
<1>8. CASE \E back \in SUBSET {"user", "hlt"} : RefuseRun(slot, proc, back)
  <2> PICK back \in SUBSET {"user", "hlt"} : RefuseRun(slot, proc, back) BY <1>8
  <2>0. depth > 0
    BY LimitsAssumption DEF RefuseRun, IInv, TypeOK
  <2> DEFINE q == mark_exited(proc[slot], code(-1))
  <2>1. code(-1) \in Statuses /\ code(-1)[1] = "code" BY CodeStatus
  <2>2. q \in ProcRecord /\ q.state = "EXITED" /\ q.exit_status = code(-1)
        /\ q.pid = proc[slot].pid
    BY <1>6, <2>1, MarkExitedFacts
  <2>3. proc' = [proc EXCEPT ![slot] = q]
    BY DEF RefuseRun
  <2> HIDE DEF q
  <2>4. PidsUnique'
    BY <1>5, <2>2, <2>3
  <2>5. \E ph \in ProgramPhases : Goto(ph)
    BY DEF RefuseRun, ProgramPhases, CalledPhases
  <2>6. UNCHANGED <<frame, depth, running_depth, pending_dispatch_active, dynlib,
                    next_handle, active_tty, panicked>>
    BY DEF RefuseRun
  <2> QED BY <1>1, <1>2, <1>4, <2>0, <2>1, <2>2, <2>3, <2>4, <2>5, <2>6, OffStackStep
<1> QED
  BY <1>3, <1>7, <1>8

\* The pop: the libraries of the process that ends go with its frame.
LEMMA PopFrameIInv == ASSUME IInv, PopFrame PROVE IInv'
<1>0. At("ended") BY DEF PopFrame
<1>1. /\ depth \in 1 .. MAX_DEPTH /\ depth - 1 \in Levels /\ depth - 1 \in Stacked
      /\ run[depth - 1].phase = "ended" /\ run[depth - 1].slot \in Slots
  BY <1>0, TopRun
<1>2. \A d \in Stacked : d \in Levels /\ run[d].slot \in Slots
  BY StackedLevels DEF IInv, TypeOK, RunRecord
<1>3. depth' = depth - 1 /\ depth' \in 0 .. MAX_DEPTH - 1
  BY <1>1, LimitsAssumption DEF PopFrame
<1>4. Stacked' \subseteq Stacked /\ Stacked = Stacked' \cup {depth - 1} /\ depth - 1 \notin Stacked'
  BY <1>1, <1>3 DEF Stacked
<1> DEFINE pid == proc[run[depth - 1].slot].pid
<1>5. pid = frame[depth - 1].pid /\ pid # 0 /\ proc[run[depth - 1].slot].state \in {"EXITED", "STOPPED"}
  <2>1. /\ pid = frame[depth - 1].pid
        /\ proc[run[depth - 1].slot].state \in {"EXITED", "STOPPED"}
    BY <1>1 DEF IInv, FramesMatchTable
  <2>2. pid \in 1 .. next_pid - 1
    BY <2>1, <1>1 DEF IInv, PidsUnique
  <2> QED BY <2>1, <2>2
<1>6. dynlib' = [i \in DynSlots |-> IF dynlib[i].used /\ dynlib[i].owner = pid
                                    THEN NoLib ELSE dynlib[i]]
  BY <1>5 DEF PopFrame, dynlib_release_owner
<1>7. frame' = [frame EXCEPT ![depth - 1] = [frame[depth - 1] EXCEPT !.stop_requested = FALSE]]
  BY <1>1 DEF PopFrame, IInv, TypeOK
<1>8. /\ proc' = proc /\ next_pid' = next_pid /\ running_depth' = running_depth
      /\ next_handle' = next_handle /\ active_tty' = active_tty /\ panicked' = panicked
      /\ pending_dispatch_active' =
           (pending_dispatch_active /\ ~Dispatching(run[depth - 1].via))
  BY DEF PopFrame
<1>9. PICK back \in {"user", "hlt"} :
        run' = [d \in Levels |-> CASE d = depth - 1 -> NoRun
                                   [] d = depth - 2 -> [run[d] EXCEPT !.phase = back]
                                   [] OTHER -> run[d]]
  BY DEF PopFrame
<1> HIDE DEF pid
<1>10. \A d \in Levels : d # depth - 1 => frame'[d] = frame[d]
  BY <1>7 DEF IInv, TypeOK
<1>11. run'[depth - 1] = NoRun
  BY <1>1, <1>9
<1>12. \A d \in Levels : d # depth - 1 =>
         /\ run'[d] \in RunRecord
         /\ run'[d].slot = run[d].slot /\ run'[d].via = run[d].via
         /\ run'[d].base = run[d].base /\ run'[d].irq = run[d].irq /\ run'[d].ret = run[d].ret
         /\ IF d = depth - 2 THEN run'[d].phase = back ELSE run'[d].phase = run[d].phase
  <2>1. \A d \in Levels : run[d] \in RunRecord
    BY DEF IInv, TypeOK
  <2>2. back \in Phases BY DEF Phases, CalledPhases
  <2>3. \A d \in Levels : d # depth - 1 =>
          run'[d] = IF d = depth - 2 THEN InPhase(run[d], back) ELSE run[d]
    BY <1>9 DEF InPhase
  <2> QED BY <2>1, <2>2, <2>3, PhaseUpdate
<1>13. /\ NoRun \in RunRecord /\ NoRun.phase = "none"
  <2>1. code(0) \in Statuses BY CodeStatus
  <2>2. 0 \in Slots BY LimitsAssumption DEF Slots
  <2>3. "none" \in Phases BY DEF Phases
  <2> QED BY <2>1, <2>2, <2>3 DEF NoRun, RunRecord
<1>14. /\ frame' \in [Levels -> FrameRecord] /\ frame'[depth - 1].pid = frame[depth - 1].pid
       /\ frame'[depth - 1].unwind_valid = frame[depth - 1].unwind_valid
  <2>1. frame[depth - 1] \in FrameRecord
    BY <1>1 DEF IInv, TypeOK
  <2> QED BY <1>1, <1>7, <2>1 DEF IInv, TypeOK, FrameRecord
<1>15. TypeOK'
  <2>1. run' \in [Levels -> RunRecord]
    BY <1>9, <1>11, <1>12, <1>13
  <2>2. NoLib \in LibRecord
    BY LimitsAssumption DEF NoLib, LibRecord, MaybeLib
  <2>3. dynlib' \in [DynSlots -> LibRecord]
    BY <1>6, <2>2 DEF IInv, TypeOK
  <2>4. depth' \in 0 .. MAX_DEPTH
    BY <1>3, LimitsAssumption
  <2>5. pending_dispatch_active' \in BOOLEAN
    BY <1>8 DEF IInv, TypeOK
  <2> QED BY <1>8, <1>14, <2>1, <2>3, <2>4, <2>5 DEF IInv, TypeOK
<1>16. ControlShape'
  <2> SUFFICES ASSUME NEW d \in Levels
               PROVE  /\ d < depth' - 1 => run'[d].phase = "call"
                      /\ d = depth' - 1 => run'[d].phase \notin {"none", "call"}
                      /\ d >= depth' => run'[d].phase = "none"
                      /\ d < depth' => (run'[d].base <=> d = 0)
                      /\ run'[d].phase \in UncalledPhases => ~run'[d].irq
    BY DEF ControlShape
  <2>0. d \in Int
    BY DEF Levels
  <2>1. CASE d = depth - 1
    <3>1. ~(d < depth' - 1) /\ d # depth' - 1 /\ ~(d < depth')
      BY <2>1, <1>1, <1>3
    <3> QED BY <2>1, <3>1, <1>11, <1>13 DEF UncalledPhases
  <2>2. CASE d = depth - 2
    <3>1. /\ d # depth - 1 /\ d < depth /\ ~(d < depth' - 1) /\ ~(d >= depth')
      BY <2>2, <1>1, <1>3
    <3> QED BY <2>2, <3>1, <1>12 DEF IInv, ControlShape, UncalledPhases
  <2>3. CASE d # depth - 1 /\ d # depth - 2
    <3>1. /\ d # depth' - 1 /\ (d < depth' - 1 => d < depth - 1)
          /\ (d >= depth' => d >= depth) /\ (d < depth' => d < depth)
      BY <2>0, <2>3, <1>1, <1>3
    <3> QED BY <2>3, <3>1, <1>12 DEF IInv, ControlShape
  <2> QED BY <2>1, <2>2, <2>3
<1>17. \A d \in Stacked' : /\ d \in Stacked /\ d \in Levels /\ d # depth - 1
                           /\ run[d].phase = "call" /\ run[d].slot \in Slots
  <2>1. \A d \in Stacked' : d < depth - 1
    BY <1>3 DEF Stacked
  <2> QED BY <1>2, <1>4, <2>1 DEF IInv, ControlShape
<1>18. FramesMatchTable'
  <2>1. \A d \in Stacked' : /\ proc'[run'[d].slot].pid = frame'[d].pid
                            /\ proc'[run'[d].slot].state = "RUNNING"
    BY <1>8, <1>10, <1>12, <1>17 DEF IInv, FramesMatchTable
  <2>2. \A d, e \in Stacked' : d # e => run'[d].slot # run'[e].slot
    BY <1>12, <1>17 DEF IInv, FramesMatchTable
  <2>3. ASSUME NEW s \in Slots, proc'[s].state = "RUNNING"
        PROVE  \E d \in Stacked' : run'[d].slot = s
    <3>1. PICK d \in Stacked : run[d].slot = s
      BY <1>8, <2>3 DEF IInv, FramesMatchTable
    <3>2. d # depth - 1
      BY <1>5, <1>8, <2>3, <3>1
    <3> QED BY <1>4, <1>12, <1>17, <3>1, <3>2
  <2>4. \A d \in Stacked' : d = depth' - 1 => run'[d].phase # "ended"
    <3>1. \A d \in Stacked' : d = depth' - 1 => d = depth - 2
      BY <1>1, <1>3
    <3> QED BY <3>1, <1>12, <1>17
  <2> QED BY <2>1, <2>2, <2>3, <2>4 DEF FramesMatchTable
<1>19. PidsUnique'
  BY <1>8 DEF IInv, PidsUnique
<1>20. OneDispatch'
  <2>1. \A d \in Stacked' : run'[d].via = run[d].via
    BY <1>12, <1>17
  <2> QED BY <1>1, <1>4, <1>8, <2>1 DEF IInv, OneDispatch
<1>21. RunningDepthExact'
  <2>1. running_depth = depth - 1
    BY <1>1 DEF IInv, RunningDepthExact, CalledPhases
  <2>2. depth' # 0 => depth' - 1 = depth - 2 /\ depth' - 1 \in Levels /\ depth' - 1 # depth - 1
    BY <1>1, <1>3, LimitsAssumption DEF Levels
  <2>3. depth' # 0 => run'[depth' - 1].phase \in CalledPhases
    BY <1>12, <2>2 DEF CalledPhases
  <2> QED BY <1>3, <1>8, <2>1, <2>3 DEF RunningDepthExact
<1>22. UnwindSlotsLive'
  <2> SUFFICES ASSUME NEW d \in Levels
               PROVE  frame'[d].unwind_valid <=> d < depth' /\ run'[d].phase \in CalledPhases
    BY DEF UnwindSlotsLive
  <2>0. d \in Int BY DEF Levels
  <2>1. CASE d = depth - 1
    <3>1. ~frame[d].unwind_valid
      BY <2>1, <1>1 DEF IInv, UnwindSlotsLive, CalledPhases
    <3> QED BY <2>1, <3>1, <1>11, <1>13, <1>14 DEF CalledPhases
  <2>2. CASE d = depth - 2
    <3>1. d # depth - 1 /\ d < depth /\ d < depth' /\ d < depth - 1
      BY <2>2, <1>1, <1>3
    <3>2. run[d].phase = "call"
      BY <3>1 DEF IInv, ControlShape
    <3> QED BY <2>2, <3>1, <3>2, <1>10, <1>12 DEF IInv, UnwindSlotsLive, CalledPhases
  <2>3. CASE d # depth - 1 /\ d # depth - 2
    <3>1. d < depth' <=> d < depth
      BY <2>0, <2>3, <1>1, <1>3
    <3> QED BY <2>3, <3>1, <1>10, <1>12 DEF IInv, UnwindSlotsLive
  <2> QED BY <2>1, <2>2, <2>3
<1>23. MaskedOnlyUnderDispatch'
  <2> SUFFICES ASSUME NEW d \in Stacked', run'[d].phase \in CalledPhases
               PROVE  run'[d].irq <=> d = 0 \/ \A e \in 0 .. d : ~Dispatching(run'[e].via)
    BY DEF MaskedOnlyUnderDispatch
  <2>1. 0 .. d \subseteq Stacked'
    BY <1>3 DEF Stacked
  <2>2. \A e \in 0 .. d : run'[e].via = run[e].via
    BY <2>1, <1>12, <1>17
  <2>3. run[d].phase \in CalledPhases /\ run'[d].irq = run[d].irq /\ d \in Stacked
    BY <1>12, <1>17 DEF CalledPhases
  <2> QED BY <2>2, <2>3 DEF IInv, MaskedOnlyUnderDispatch
<1>24. RequestsCaused'
  BY <1>8, <1>10, <1>12, <1>17 DEF IInv, RequestsCaused
<1>25. SignalStatusHasCause'
  BY <1>8 DEF IInv, SignalStatusHasCause
<1>26. \A i \in DynSlots : dynlib'[i].used => dynlib[i].used /\ dynlib'[i] = dynlib[i]
                                              /\ dynlib[i].owner # pid
  BY <1>6 DEF NoLib
<1>27. HandlesIssued'
  BY <1>8, <1>26 DEF IInv, HandlesIssued
<1>28. LibrariesOwned'
  <2>1. ASSUME NEW i \in DynSlots, dynlib'[i].used
        PROVE  /\ dynlib'[i].ref > 0
               /\ \E d \in Stacked' : run'[d].phase # "push" /\ frame'[d].pid = dynlib'[i].owner
    <3>1. PICK d \in Stacked : run[d].phase # "push" /\ frame[d].pid = dynlib[i].owner
      BY <1>26, <2>1 DEF IInv, LibrariesOwned
    <3>2. d # depth - 1
      BY <1>5, <1>26, <2>1, <3>1
    <3>3. d \in Stacked' /\ run'[d].phase # "push"
      BY <1>4, <1>12, <1>17, <3>1, <3>2
    <3> QED BY <1>2, <1>10, <1>26, <2>1, <3>1, <3>2, <3>3 DEF IInv, LibrariesOwned
  <2> QED BY <1>26, <2>1 DEF IInv, LibrariesOwned
<1> QED
  BY <1>15, <1>16, <1>18, <1>19, <1>20, <1>21, <1>22, <1>23, <1>24, <1>25, <1>27, <1>28 DEF IInv

-----------------------------------------------------------------------------
LEMMA InitIInv == Init => IInv
<1> SUFFICES ASSUME Init PROVE IInv
  OBVIOUS
<1>1. code(0) \in Statuses /\ code(0)[1] = "code"
  BY CodeStatus
<1>2. /\ 0 \in 0 .. MAX_PID /\ 0 \in 0 .. MAX_DEPTH /\ 1 \in 1 .. MAX_PID + 1
      /\ 1 \in 1 .. MAX_HANDLE + 1 /\ 0 \in 0 .. 255 /\ 0 \in 0 .. 31
      /\ 0 \in 0 .. MAX_HANDLE /\ 0 \in 0 .. MAX_REF + 1 /\ 0 \in Slots
  BY LimitsAssumption DEF Slots
<1>3. NoProc \in ProcRecord /\ NoProc.state = "UNUSED"
  BY <1>1, <1>2 DEF NoProc, ProcRecord, MaybePath, States
<1>4. NoFrame \in FrameRecord /\ ~NoFrame.unwind_valid
  BY <1>1, <1>2 DEF NoFrame, FrameRecord
<1>5. NoRun \in RunRecord /\ NoRun.phase = "none"
  <2>1. "none" \in Phases BY DEF Phases
  <2> QED BY <1>1, <1>2, <2>1 DEF NoRun, RunRecord
<1>6. NoLib \in LibRecord /\ ~NoLib.used
  BY <1>2 DEF NoLib, LibRecord, MaybeLib
<1>7. TypeOK
  BY <1>2, <1>3, <1>4, <1>5, <1>6 DEF Init, TypeOK
<1>8. Stacked = {} /\ \A d \in Levels : d >= 0
  BY DEF Init, Stacked, Levels
<1>9. ControlShape
  <2>1. \A d \in Levels : ~(d < depth - 1) /\ d # depth - 1 /\ ~(d < depth)
    BY DEF Init, Levels
  <2> QED BY <1>5, <2>1 DEF Init, ControlShape, UncalledPhases
<1>10. FramesMatchTable /\ PidsUnique /\ SignalStatusHasCause
  BY <1>3, <1>8 DEF Init, FramesMatchTable, PidsUnique, SignalStatusHasCause
<1>11. OneDispatch /\ RunningDepthExact /\ MaskedOnlyUnderDispatch /\ RequestsCaused
  BY <1>8 DEF Init, OneDispatch, RunningDepthExact, MaskedOnlyUnderDispatch, RequestsCaused
<1>12. UnwindSlotsLive
  BY <1>4, <1>5 DEF Init, UnwindSlotsLive, CalledPhases
<1>13. HandlesIssued /\ LibrariesOwned
  BY <1>6 DEF Init, HandlesIssued, LibrariesOwned
<1> QED
  BY <1>7, <1>9, <1>10, <1>11, <1>12, <1>13 DEF IInv

LEMMA NextIInv == IInv /\ [Next]_vars => IInv'
<1> SUFFICES ASSUME IInv, [Next]_vars PROVE IInv'
  OBVIOUS
<1>1. CASE RunStep
  BY <1>1, PushFrameIInv, LoadFailIInv, CountIInv, InvokeEntryIInv, CloseUnwindWindowIInv, SettleStatusIInv,
     OutcomeIInv, PopFrameIInv DEF RunStep
<1>2. CASE LaunchStep
  <2> PICK slot \in Slots :
         \/ \E path \in Paths : SysSpawn(path, slot) \/ ExecPath(path, slot)
         \/ SysExecBadStdio(slot)
         \/ \E pid \in 1 .. MAX_PID : SysWaitPid(pid, slot)
         \/ YieldDispatch(slot) \/ ExecTick(slot)
    BY <1>2 DEF LaunchStep
  <2> QED BY SpawnIInv, ExecPathIInv, DispatchIInv
<1>3. CASE YieldStep
  BY <1>3, YieldStepIInv
<1>4. CASE SignalStep
  BY <1>4, SysKillIInv, ExitRequestIInv, ProgramReturnIInv DEF SignalStep
<1>5. CASE InterruptStep
  BY <1>5, IrqQuietIInv, IrqForceStopIInv, FaultCaughtIInv, FaultPanicsIInv DEF InterruptStep
<1>6. CASE LibraryStep
  BY <1>6, DlStepIInv, LibraryCallIInv DEF LibraryStep
<1>7. CASE UNCHANGED vars
  BY <1>7 DEF vars, IInv, TypeOK, ControlShape, FramesMatchTable, PidsUnique, OneDispatch,
     RunningDepthExact, UnwindSlotsLive, MaskedOnlyUnderDispatch, RequestsCaused,
     SignalStatusHasCause, HandlesIssued, LibrariesOwned, Stacked
<1> QED
  BY <1>1, <1>2, <1>3, <1>4, <1>5, <1>6, <1>7 DEF Next

\* The inductive invariant holds in every reachable state of exec.c's process
\* machinery, for every size of its tables and stacks.
THEOREM Invariance == Spec => []IInv
  BY InitIInv, NextIInv, PTL DEF Spec

\* TypeOK: every table, stack and counter of exec.c stays within its type.
THEOREM TypeCorrectness == Spec => []TypeOK
<1>1. IInv => TypeOK BY DEF IInv
<1> QED BY <1>1, Invariance, PTL

\* StackAndTable: run_proc_slot, proc_kill and the eviction in proc_alloc_slot
\* never leave a record RUNNING without a frame or a frame without its record, and
\* a search by pid in wait_pid, proc_kill and handle_exception finds the process
\* that was meant; and no interrupt or exception resumes on a freed run stack.
THEOREM StackTableAgreement == Spec => []StackAndTable
<1>1. IInv => StackAndTable BY DEF IInv, StackAndTable
<1> QED BY <1>1, Invariance, PTL

\* RunsAccounted: dispatch_pending_once and wait_pid never nest dispatches and
\* never leave pending_dispatch_active behind, exec_is_running is exact at every
\* step of run_proc_slot, and invoke_entry masks interrupts for the programs
\* nested in a dispatch and for no others.
THEOREM RunAccounting == Spec => []RunsAccounted
<1>1. IInv => RunsAccounted BY DEF IInv, RunsAccounted
<1> QED BY <1>1, Invariance, PTL

\* SignalStatusHasCause: no exit request outlives its frame in the depth-indexed
\* stacks.
THEOREM SignalStatusesCaused == Spec => []SignalStatusHasCause
<1>1. IInv => SignalStatusHasCause BY DEF IInv
<1> QED BY <1>1, Invariance, PTL

\* LibrariesOwned: dynlib_release_owner leaves no library without a running owner.
THEOREM LibraryOwnership == Spec => []LibrariesOwned
<1>1. IInv => LibrariesOwned BY DEF IInv
<1> QED BY <1>1, Invariance, PTL

-----------------------------------------------------------------------------
(***************************************************************************)
(* The life of a record.                                                   *)
(***************************************************************************)
LifecycleKept == \A s \in Slots : LegalChange(proc[s], proc'[s])

LEMMA SameTable == ASSUME proc' = proc PROVE LifecycleKept
  BY DEF LifecycleKept, LegalChange

\* One record changes, along a legal edge.
LEMMA OneRecord ==
  ASSUME IInv, NEW slot \in Slots, NEW new, proc' = [proc EXCEPT ![slot] = new],
         LegalChange(proc[slot], new)
  PROVE  LifecycleKept
<1>1. proc'[slot] = new /\ \A s \in Slots : s # slot => proc'[s] = proc[s]
  BY DEF IInv, TypeOK
<1> QED BY <1>1 DEF LifecycleKept, LegalChange

LEMMA RunStepLifecycle == ASSUME IInv, RunStep PROVE LifecycleKept
<1>1. CASE \/ PushFrame \/ CountRun \/ NoRunStack \/ InvokeEntry \/ CloseUnwindWindow
           \/ SettleStatus \/ TestStop \/ PopFrame
  BY <1>1, SameTable DEF PushFrame, CountRun, NoRunStack, InvokeEntry, CloseUnwindWindow, SettleStatus, TestStop, PopFrame
<1>2. CASE LoadFail \/ RecordStopped \/ RecordExited
  <2> DEFINE slot == run[depth - 1].slot
  <2>0. PICK p \in {"load", "failed", "stopping", "exiting"} : At(p)
    BY <1>2 DEF LoadFail, RecordStopped, RecordExited
  <2>1. slot \in Slots /\ proc[slot].state = "RUNNING" /\ proc[slot] \in ProcRecord
    BY <2>0, TopRun DEF IInv, TypeOK, FramesMatchTable
  <2>2. code(-1) \in Statuses /\ run[depth - 1].ret \in Statuses
    <3>1. run[depth - 1].ret \in Statuses
      BY <2>0, TopRun DEF IInv, TypeOK, RunRecord
    <3> QED BY <3>1, CodeStatus
  <2>3. PICK new : /\ proc' = [proc EXCEPT ![slot] = new]
                   /\ new.pid = proc[slot].pid /\ new.state \in {"STOPPED", "EXITED"}
    <3>1. CASE LoadFail
      <4> DEFINE x == mark_exited(proc[slot], code(-1))
      <4>1. x.pid = proc[slot].pid /\ x.state = "EXITED"
        BY <2>1, <2>2, MarkExitedFacts
      <4>2. proc' = [proc EXCEPT ![slot] = x]
        BY <3>1 DEF LoadFail
      <4> HIDE DEF x
      <4> QED BY <4>1, <4>2
    <3>2. CASE RecordExited
      <4> DEFINE x == mark_exited(proc[slot], run[depth - 1].ret)
      <4>1. x.pid = proc[slot].pid /\ x.state = "EXITED"
        BY <2>1, <2>2, MarkExitedFacts
      <4>2. proc' = [proc EXCEPT ![slot] = x]
        BY <3>2 DEF RecordExited
      <4> HIDE DEF x
      <4> QED BY <4>1, <4>2
    <3>3. CASE RecordStopped
      <4> DEFINE st == [proc[slot] EXCEPT !.state = "STOPPED", !.exit_status = run[depth - 1].ret]
      <4>1. proc' = [proc EXCEPT ![slot] = st]
        BY <2>1, <3>3 DEF RecordStopped, IInv, TypeOK
      <4>2. st.pid = proc[slot].pid /\ st.state = "STOPPED"
        BY <2>1 DEF ProcRecord
      <4> QED BY <4>1, <4>2
    <3> QED BY <1>2, <3>1, <3>2, <3>3
  <2>4. LegalChange(proc[slot], new)
    BY <2>1, <2>3 DEF LegalChange
  <2> QED BY <2>1, <2>3, <2>4, OneRecord
<1> QED BY <1>1, <1>2 DEF RunStep

LEMMA NewRecordLifecycle ==
  ASSUME IInv, NEW slot \in Slots, CanAllocate(slot), NEW new,
         proc' = [proc EXCEPT ![slot] = new],
         new.state = "UNUSED" \/ (new.pid = next_pid /\ new.state \in {"PENDING", "RUNNING", "EXITED"})
  PROVE  LifecycleKept
<1>1. proc[slot].state \in {"UNUSED", "EXITED"}
  BY AllocFacts
<1>2. LegalChange(proc[slot], new)
  BY <1>1 DEF LegalChange
<1> QED BY <1>2, OneRecord

LEMMA LaunchLifecycle == ASSUME IInv, LaunchStep PROVE LifecycleKept
<1> PICK slot \in Slots :
       \/ \E path \in Paths : SysSpawn(path, slot) \/ ExecPath(path, slot)
       \/ SysExecBadStdio(slot)
       \/ \E pid \in 1 .. MAX_PID : SysWaitPid(pid, slot)
       \/ YieldDispatch(slot) \/ ExecTick(slot)
  BY DEF LaunchStep
<1>0. code(-1) \in Statuses BY CodeStatus
<1>1. CASE SysExecBadStdio(slot)
  BY <1>1, NewRecordLifecycle DEF SysExecBadStdio, NoProc
<1>2. CASE \E path \in Paths : SysSpawn(path, slot)
  BY <1>2, NewRecordLifecycle DEF SysSpawn, prepare_proc_record
<1>3. ASSUME NEW path \in Paths, ExecPath(path, slot)
      PROVE  LifecycleKept
  <2> DEFINE r == prepare_proc_record(next_pid, path, "RUNNING")
  <2>1. CanAllocate(slot) /\ next_pid \in 0 .. MAX_PID
    BY <1>3, AllocFacts DEF ExecPath
  <2>2. r \in ProcRecord /\ r.pid = next_pid
    <3>1. "RUNNING" \in States BY DEF States
    <3> QED BY <2>1, <3>1, PreparedRecord
  <2> DEFINE procs == [proc EXCEPT ![slot] = r]
  <2>3. \E via, back : EnterRun(slot, procs, via) \/ RefuseRun(slot, procs, back)
    BY <1>3 DEF ExecPath, RunProcSlot
  <2> HIDE DEF r
  <2>4. procs[slot] = r /\ procs \in [Slots -> ProcRecord]
    BY <2>2 DEF IInv, TypeOK
  <2>5. PICK new : /\ proc' = [procs EXCEPT ![slot] = new]
                   /\ new.pid = next_pid /\ new.state \in {"RUNNING", "EXITED"}
    <3>1. CASE \E via : EnterRun(slot, procs, via)
      <4>1. proc' = [procs EXCEPT ![slot] = [r EXCEPT !.state = "RUNNING"]]
        BY <3>1, <2>4 DEF EnterRun
      <4>2. [r EXCEPT !.state = "RUNNING"].pid = r.pid /\ [r EXCEPT !.state = "RUNNING"].state = "RUNNING"
        BY <2>2 DEF ProcRecord
      <4> QED BY <4>1, <4>2, <2>2
    <3>2. CASE \E back : RefuseRun(slot, procs, back)
      <4> DEFINE x == mark_exited(r, code(-1))
      <4>1. proc' = [procs EXCEPT ![slot] = x]
        BY <3>2, <2>4 DEF RefuseRun
      <4>2. x.pid = next_pid /\ x.state = "EXITED"
        BY <2>2, <1>0, MarkExitedFacts
      <4> HIDE DEF x
      <4> QED BY <4>1, <4>2
    <3> QED BY <2>3, <3>1, <3>2
  <2>6. proc' = [proc EXCEPT ![slot] = new]
    BY <2>5
  <2> QED BY <2>1, <2>5, <2>6, NewRecordLifecycle
<1>4. CASE \/ \E pid \in 1 .. MAX_PID : SysWaitPid(pid, slot)
           \/ YieldDispatch(slot) \/ ExecTick(slot)
  <2>1. proc[slot].state = "PENDING" /\ proc[slot] \in ProcRecord /\ proc \in [Slots -> ProcRecord]
    BY <1>4 DEF SysWaitPid, YieldDispatch, ExecTick, first_of, pending_slots, IInv, TypeOK
  <2>2. \E via, back : EnterRun(slot, proc, via) \/ RefuseRun(slot, proc, back)
    BY <1>4 DEF SysWaitPid, YieldDispatch, ExecTick, RunProcSlot
  <2>3. PICK new : /\ proc' = [proc EXCEPT ![slot] = new]
                   /\ new.pid = proc[slot].pid /\ new.state \in {"RUNNING", "EXITED"}
    <3>1. CASE \E via : EnterRun(slot, proc, via)
      <4> DEFINE r == [proc[slot] EXCEPT !.state = "RUNNING"]
      <4>1. proc' = [proc EXCEPT ![slot] = r]
        BY <3>1, <2>1 DEF EnterRun
      <4>2. r.pid = proc[slot].pid /\ r.state = "RUNNING"
        BY <2>1 DEF ProcRecord
      <4> QED BY <4>1, <4>2
    <3>2. CASE \E back : RefuseRun(slot, proc, back)
      <4> DEFINE x == mark_exited(proc[slot], code(-1))
      <4>1. proc' = [proc EXCEPT ![slot] = x]
        BY <3>2, <2>1 DEF RefuseRun
      <4>2. x.pid = proc[slot].pid /\ x.state = "EXITED"
        BY <2>1, <1>0, MarkExitedFacts
      <4> HIDE DEF x
      <4> QED BY <4>1, <4>2
    <3> QED BY <2>2, <3>1, <3>2
  <2>4. LegalChange(proc[slot], new)
    BY <2>1, <2>3 DEF LegalChange
  <2> QED BY <2>3, <2>4, OneRecord
<1> QED BY <1>1, <1>2, <1>3, <1>4

LEMMA KillLegal ==
  ASSUME NEW p \in ProcRecord, NEW sig \in 0 .. 255, p.state # "UNUSED"
  PROVE  LegalChange(p, KillRecord(p, sig))
<1> DEFINE q == Signalled(p, sig)
<1>0. sig \in 0 .. 255 /\ 0 \in 0 .. 31
  OBVIOUS
<1>1. q \in ProcRecord /\ q.pid = p.pid /\ q.state = p.state
  BY SignalledFacts
<1>2. encode_signal_status(sig, 0) \in Statuses
  BY <1>0, SignalStatus
<1>3. p.state \in {"PENDING", "RUNNING", "STOPPED", "EXITED"}
  BY DEF ProcRecord, States
<1> HIDE DEF q
<1>4. \A st \in {"PENDING", "STOPPED"} : /\ [q EXCEPT !.state = st].pid = p.pid
                                         /\ [q EXCEPT !.state = st].state = st
  BY <1>1 DEF ProcRecord
<1>5. LET x == mark_exited(q, encode_signal_status(sig, 0))
      IN  x.pid = p.pid /\ x.state = "EXITED"
  BY <1>1, <1>2, MarkExitedFacts
<1>6. KillRecord(p, sig) =
        IF p.state = "EXITED" THEN p
        ELSE IF sig = SIGCONT
        THEN IF p.state = "STOPPED" THEN [q EXCEPT !.state = "PENDING"] ELSE q
        ELSE IF p.state \notin {"PENDING", "STOPPED"} THEN q
        ELSE IF sig = SIGSTOP THEN [q EXCEPT !.state = "STOPPED"]
        ELSE mark_exited(q, encode_signal_status(sig, 0))
  BY DEF KillRecord, q
<1>7. CASE p.state = "EXITED"
  BY <1>6, <1>7 DEF LegalChange
<1>8. CASE p.state # "EXITED"
  <2>1. \/ KillRecord(p, sig) = q
        \/ p.state = "STOPPED" /\ KillRecord(p, sig) = [q EXCEPT !.state = "PENDING"]
        \/ /\ p.state \in {"PENDING", "STOPPED"}
           /\ \/ KillRecord(p, sig) = [q EXCEPT !.state = "STOPPED"]
              \/ KillRecord(p, sig) = mark_exited(q, encode_signal_status(sig, 0))
    BY <1>6, <1>8
  <2> QED BY <1>1, <1>3, <1>4, <1>5, <1>8, <2>1 DEF LegalChange
<1> QED BY <1>7, <1>8

LEMMA KillLifecycle ==
  ASSUME IInv, NEW slot \in Slots, NEW pid, NEW sig \in 0 .. 255,
         proc_find_slot_by_pid(slot, pid), proc_kill(slot, pid, sig)
  PROVE  LifecycleKept
<1>1. proc[slot] \in ProcRecord /\ proc[slot].state # "UNUSED"
  BY DEF proc_find_slot_by_pid, first_of, slots_of_pid, IInv, TypeOK
<1>2. proc' = [proc EXCEPT ![slot] = KillRecord(proc[slot], sig)]
  BY DEF proc_kill
<1> QED BY <1>1, <1>2, KillLegal, OneRecord

LEMMA SignalLifecycle == ASSUME IInv, SignalStep PROVE LifecycleKept
<1>1. CASE \E c \in Codes : SysExit(c) \/ LibcExit(c) \/ ProgramReturn(c)
  BY <1>1, SameTable DEF SysExit, LibcExit, ProgramReturn
<1>2. CASE \E pid \in 1 .. MAX_PID, slot \in Slots, signal \in Signals :
             SysKill(pid, slot, signal)
  BY <1>2, EffectiveSignal, KillLifecycle DEF SysKill
<1> QED BY <1>1, <1>2 DEF SignalStep

LEMMA InterruptLifecycle == ASSUME IInv, InterruptStep PROVE LifecycleKept
<1>1. CASE \/ IrqTimer
           \/ \E tty \in Ttys : IrqSwitchTty(tty)
           \/ \E v \in Vectors, low \in BOOLEAN : FaultPanics(low)
  BY <1>1, SameTable DEF IrqTimer, IrqSwitchTty, FaultPanics
<1>2. CASE IrqForceStop
  <2>0. SIGSTOP \in 0 .. 255 BY DEF SIGSTOP
  <2>1. CASE \E s \in Slots : CurrentStoppable(s, active_tty) /\ proc_kill(s, current_pid, SIGSTOP)
    BY <2>0, <2>1, KillLifecycle DEF CurrentStoppable
  <2>2. CASE proc' = [s \in Slots |-> IF StoppableOn(s, active_tty)
                                      THEN Signalled(proc[s], SIGSTOP) ELSE proc[s]]
    <3>1. ASSUME NEW s \in Slots PROVE LegalChange(proc[s], proc'[s])
      <4>1. CASE StoppableOn(s, active_tty)
        <5>1. proc'[s] = Signalled(proc[s], SIGSTOP) /\ proc[s].state = "RUNNING"
          BY <2>2, <4>1 DEF StoppableOn
        <5>2. proc[s] \in ProcRecord BY DEF IInv, TypeOK
        <5>3. proc'[s].pid = proc[s].pid /\ proc'[s].state = proc[s].state
          BY <5>1, <5>2 DEF Signalled, ProcRecord
        <5> QED BY <5>1, <5>3 DEF LegalChange
      <4>2. CASE ~StoppableOn(s, active_tty)
        BY <2>2, <4>2 DEF LegalChange
      <4> QED BY <4>1, <4>2
    <3> QED BY <3>1 DEF LifecycleKept
  <2> QED BY <1>2, <2>1, <2>2 DEF IrqForceStop, force_stop_tty_running_process
<1>3. ASSUME NEW v \in Vectors, NEW low \in BOOLEAN, NEW slot \in Slots, FaultCaught(v, low, slot)
      PROVE  LifecycleKept
  <2> DEFINE new == [proc[slot] EXCEPT !.last_signal = signal_from_vector(v), !.last_fault = v]
  <2>0. PICK p \in {"user", "lib"} : At(p)
    BY <1>3 DEF FaultCaught, InSyscall
  <2>1. /\ depth > 0 /\ depth - 1 \in Stacked /\ run[depth - 1].phase # "ended"
        /\ pid_stack_depth = depth
    BY <2>0, TopRun
  <2>a. slot = run[depth - 1].slot
    BY <1>3, <2>1, CurrentSlot DEF FaultCaught
  <2>2. proc[slot] \in ProcRecord /\ proc[slot].state = "RUNNING"
    BY <2>1, <2>a DEF IInv, TypeOK, FramesMatchTable
  <2>3. proc' = [proc EXCEPT ![slot] = new]
    BY <1>3 DEF FaultCaught, IInv, TypeOK
  <2>4. new.pid = proc[slot].pid /\ new.state = proc[slot].state
    BY <2>2 DEF ProcRecord
  <2> HIDE DEF new
  <2>5. LegalChange(proc[slot], new)
    BY <2>2, <2>4 DEF LegalChange
  <2> QED BY <2>3, <2>5, OneRecord
<1> QED BY <1>1, <1>2, <1>3 DEF InterruptStep

LEMMA LifecycleStep == IInv /\ [Next]_vars => [LifecycleKept]_vars
<1> SUFFICES ASSUME IInv, Next PROVE LifecycleKept
  OBVIOUS
<1>1. CASE YieldStep \/ LibraryStep
  BY <1>1, SameTable DEF YieldStep, SysYield, YieldReturn, SleepAgain, LibraryStep,
     DlOpenAgain, DlOpenNew, DlClose, EnterLibrary, LeaveLibrary
<1> QED
  BY <1>1, RunStepLifecycle, LaunchLifecycle, SignalLifecycle, InterruptLifecycle DEF Next

\* Lifecycle: no step of a program, of the kernel or of an interrupt evicts a live
\* process or takes a record through a change of state proc_kill, wait_pid and
\* run_proc_slot do not mean to make.
THEOREM LegalLifecycle == Spec => Lifecycle
  BY Invariance, LifecycleStep, PTL DEF Spec, Lifecycle, LifecycleKept
=============================================================================
