---------------------------- MODULE ExecLiveness ----------------------------
(***************************************************************************)
(* What must eventually happen to processes, under the fairness of the     *)
(* machine (the timer keeps interrupting, the kernel keeps executing, the  *)
(* main loop keeps running the usrd task, a sleep of n ticks ends) and     *)
(* stated assumptions about programs.                                      *)
(***************************************************************************)
EXTENDS ExecProcs

\* The kernel's own code keeps running and the timer keeps ticking.
KernelFairness ==
    /\ WF_vars(RunStep)
    /\ WF_vars(IrqTimer)
    /\ WF_vars(\E slot \in Slots : YieldDispatch(slot))
    /\ WF_vars(\E slot \in Slots : ExecTick(slot))
    /\ SF_vars(YieldReturn)

\* Assumption about programs: each eventually returns from the functions it calls
\* in libraries and from its entry point.
ProgramsReturn == SF_vars(LeaveLibrary) /\ SF_vars(\E c \in Codes : ProgramReturn(c))

\* Restrictions on programs: none calls libc's exit(); none continues a process.
NoLibcExit == \A d \in Levels : ~run'[d].spin
NoContinue == \A s \in Slots : ~(proc[s].state = "STOPPED" /\ proc'[s].state = "PENDING")

\* Only the calls that raise signals or end a program can break them.
ReturningNext ==
    \/ RunStep \/ LaunchStep \/ YieldStep \/ InterruptStep \/ LibraryStep
    \/ SignalStep /\ NoLibcExit /\ NoContinue

\* Programs that return and do not revive one another.  (The lowest pending slot
\* is always taken: two that stop themselves and continue each other for ever
\* would starve a process pending in a higher slot.)
ReturningSpec == Init /\ [][ReturningNext]_vars /\ KernelFairness /\ ProgramsReturn

-----------------------------------------------------------------------------
\* A spawned process does not stay in the pending state for ever: the tick, a
\* yield, a sleep or a waitpid runs it, or a signal takes it out.
PendingDispatched ==
    \A s \in Slots : proc[s].state = "PENDING" /\ ~panicked
                       ~> (proc[s].state # "PENDING" \/ panicked)
=============================================================================
