----------------------------- MODULE UserShell -----------------------------
(***************************************************************************)
(* The user shell (cleonos/c/apps/shell).  It runs every command as a      *)
(* program and talks to it through files: the context it leaves for the    *)
(* program, the answer the program leaves for the shell, and two files     *)
(* that carry the text from one stage of a pipeline to the next.  Nothing  *)
(* else runs while the shell or a program does, except that a program that *)
(* sleeps or yields lets the kernel run one spawned earlier, which finds   *)
(* the same files.                                                         *)
(***************************************************************************)
EXTENDS UserPrograms

CONSTANTS
    MAX_STAGES,      \* USH_PIPELINE_MAX_STAGES
    DEPTH,           \* CLKS_EXEC_MAX_DEPTH, less the shell
    Scripts,         \* what the init script may hold: sequences of lines
    Typed,           \* the lines that may be typed
    Tree0,           \* the files at start
    Absent,          \* a file of the shell that is not there
    LINES_CAP,       \* bound: lines typed
    SPAWN_CAP,       \* bound: programs spawned and not yet run
    MISHAPS          \* bound: faults, and calls that fail for want of room

VARIABLES
    sh,              \* working directory, exit requested, counters
    script,          \* what is left of the init script
    job,             \* the line being executed
    pc,              \* where the shell is
    fds,             \* the descriptors it has open for the stage
    procs,           \* the programs on the kernel's stack, innermost last
    waiting,         \* the programs spawned and not yet run
    ctx, ret,        \* /temp/.ush_cmd_ctx.bin and _ret.bin
    pipes,           \* /temp/.ush_pipe_a.bin and _b.bin
    tree,            \* the other files
    screen,          \* what was written to the terminal since the line began
    typed, mishaps   \* how much of the bounds is used

vars == <<sh, script, job, pc, fds, procs, waiting, ctx, ret, pipes, tree, screen, typed, mishaps>>
fs == <<ctx, ret, pipes, tree>>
bounds == <<typed, mishaps>>

FAILED == U64_MAX                 \* what the kernel returns for a program it could not run
SIGNALLED == U64_MAX + 1          \* any status that tells of a signal
NoSink == [kind |-> "screen", path |-> <<>>, append |-> FALSE]
NoJob == [stages |-> <<>>, i |-> 0, in |-> "", toggle |-> "A", meta |-> FALSE, known |-> TRUE, success |-> TRUE,
          status |-> 0, typed |-> FALSE, tree |-> [p \in {} |-> FM!Directory], cwd |-> <<>>]

(***************************************************************************)
(* Lines (ush_execute_line, ush_pipeline_parse).                           *)
(***************************************************************************)
pipeline_has_meta(line) == \E n \in DOMAIN line : line[n] \in {"|", ">"}

command_of(c, mode, path) == [ok |-> c.ok, cmd |-> c.first, arg |-> trim_line(c.rest), mode |-> mode, path |-> path]
command(text, mode, path) == command_of(split_first_and_rest(text), mode, path)

\* At most one redirection, to one word: mode 1 is ">", mode 2 is ">>".
redirect(work, target, at, mode) ==
    IF Len(target) = 1 THEN command(SubSeq(work, 1, at - 1), mode, target[1]) ELSE [command(work, 0, <<>>) EXCEPT !.ok = FALSE]
parse_redirect(work, gts) ==
    CASE gts = {} -> command(work, 0, <<>>)
      [] Cardinality(gts) = 1 -> redirect(work, words(after(work, Min(gts))), Min(gts), 1)
      [] gts = {Min(gts), Min(gts) + 1} -> redirect(work, words(after(work, Min(gts) + 1)), Min(gts), 2)
      [] OTHER -> [command(work, 0, <<>>) EXCEPT !.ok = FALSE]
pipeline_parse_stage(segment) == parse_redirect(segment, {n \in DOMAIN segment : segment[n] = ">"})

all_good(stages) == IF Len(stages) > MAX_STAGES \/ \E n \in DOMAIN stages : ~stages[n].ok THEN <<>> ELSE stages
parse_segments(segments) == all_good([n \in DOMAIN segments |-> pipeline_parse_stage(segments[n])])
pipeline_parse(line) == parse_segments(fields(line, "|"))

alias_command(cmd) == CASE cmd = <<"run">> -> <<"exec">> [] cmd = <<"dir">> -> <<"ls">> [] OTHER -> cmd

counted(s, known, success) == [s EXCEPT !.total = @ + 1, !.ok = @ + (IF success THEN 1 ELSE 0),
                                        !.fail = @ + (IF success THEN 0 ELSE 1),
                                        !.unknown = @ + (IF known THEN 0 ELSE 1)]

Init ==
    /\ sh = [cwd |-> <<>>, exit |-> FALSE, code |-> 0, total |-> 0, ok |-> 0, fail |-> 0, unknown |-> 0]
    /\ script \in Scripts /\ job = NoJob /\ pc = "ready" /\ fds = {} /\ procs = <<>> /\ waiting = <<>>
    /\ ctx = Absent /\ ret = Absent /\ pipes = [p \in {"A", "B"} |-> Absent]
    /\ tree = Tree0 /\ screen = <<>> /\ typed = 0 /\ mishaps = 0

\* Where the loop of main goes after a line: it looks at exit_requested after
\* a typed line only.
after_line(s, was_typed) == IF was_typed /\ s.exit THEN "stopped" ELSE "ready"

\* A line comes from the script while there is any, then from the keyboard.
ExecuteLine(raw, is_typed) ==
    \E line \in {trim_line(raw)} :
    \E stages \in {IF pipeline_has_meta(line) THEN pipeline_parse(line) ELSE <<command(line, 0, <<>>)>>} :
        LET meta == pipeline_has_meta(line) IN
        /\ pc = "ready"
        /\ screen' = <<>>
        /\ pipes' = IF meta THEN [p \in {"A", "B"} |-> Absent] ELSE pipes
        /\ IF line = <<>> \/ line[1] = "#"
           THEN job' = NoJob /\ sh' = sh /\ pc' = after_line(sh, is_typed)
           ELSE IF stages = <<>>
           THEN job' = NoJob /\ sh' = counted(sh, TRUE, FALSE) /\ pc' = after_line(sh, is_typed)
           ELSE /\ job' = [NoJob EXCEPT !.stages = stages, !.i = 1, !.meta = meta, !.typed = is_typed,
                                        !.tree = tree, !.cwd = sh.cwd]
                /\ sh' = sh /\ pc' = "stage"
        /\ UNCHANGED <<fds, procs, waiting, ctx, ret, tree, mishaps>>

ScriptLine == /\ script # <<>> /\ script' = Tail(script)
              /\ ExecuteLine(Head(script), FALSE) /\ UNCHANGED typed
TypedLine(line) == /\ script = <<>> /\ typed < LINES_CAP /\ typed' = typed + 1
                   /\ ExecuteLine(line, TRUE) /\ UNCHANGED script

(***************************************************************************)
(* One stage (ush_execute_pipeline, ush_try_exec_external_with_fds).       *)
(***************************************************************************)
Stage == job.stages[job.i]
LastStage == job.i = Len(job.stages)
MayFail == mishaps < MISHAPS

\* Opening the stage's output: [ok, tree, pipes, sink].
Unopened == [ok |-> TRUE, tree |-> tree, pipes |-> pipes, sink |-> NoSink]
Refused == [Unopened EXCEPT !.ok = FALSE]
open_redirect(p, mode) ==
    LET made == IF mode = 1 \/ p \notin DOMAIN tree THEN fs_write_all(tree, p, <<>>, TRUE)
                ELSE [t |-> tree, ok |-> is_file(tree, p)]
        opened(m) == [Unopened EXCEPT !.ok = m.ok, !.tree = m.t,
                                      !.sink = [kind |-> "file", path |-> p, append |-> mode = 2]]
    IN  IF path_is_under_temp(p) THEN opened(made) ELSE Refused
open_output(room) ==
    IF ~LastStage
    THEN IF Stage.mode = 0 /\ room
         THEN [Unopened EXCEPT !.pipes[job.toggle] = <<>>, !.sink = [NoSink EXCEPT !.kind = job.toggle]]
         ELSE Refused
    ELSE IF Stage.mode = 0 THEN Unopened
    ELSE IF room THEN open_redirect(resolve_path(sh.cwd, Stage.path), Stage.mode) ELSE Refused

Exe == resolve_exec_path(sh.cwd, alias_command(Stage.cmd))
Opens == (IF job.in = "" THEN {} ELSE {"in"}) \cup (IF LastStage /\ Stage.mode = 0 THEN {} ELSE {"out"})
Failing(cond) == mishaps' = mishaps + (IF cond THEN 1 ELSE 0) /\ (cond => MayFail)

\* The output cannot be opened: the line ends, nothing stays open.
StageRefused(room) ==
    /\ pc = "stage" /\ Failing(~room)
    /\ \E o \in {open_output(room)} : ~o.ok /\ tree' = o.tree /\ pipes' = o.pipes
    /\ pc' = "finish" /\ job' = [job EXCEPT !.success = FALSE]
    /\ UNCHANGED <<sh, script, fds, procs, waiting, ctx, ret, screen, typed>>

\* There is no such program: the line ends.
StageUnknown ==
    /\ pc = "stage" /\ ~is_file(tree, Exe)
    /\ \E o \in {open_output(TRUE)} : o.ok /\ tree' = o.tree /\ pipes' = o.pipes
    /\ pc' = "finish" /\ job' = [job EXCEPT !.success = FALSE, !.known = FALSE]
    /\ UNCHANGED <<sh, script, fds, procs, waiting, ctx, ret, screen, typed, mishaps>>

Frame(path, in, sink) == [prog |-> path, pc |-> "start", stdin |-> in, sink |-> sink, own |-> FALSE,
                          arg |-> <<>>, cwd |-> <<>>, notice |-> <<>>, res |-> Res(<<>>, FALSE, <<>>, <<>>)]

\* Mutant: the answer of the program before is not removed first.
StageLaunch_keep_ret(room) ==
    /\ pc = "stage" /\ Failing(~room)
    /\ is_file(tree, Exe)
    /\ ctx' = IF room THEN [cmd |-> alias_command(Stage.cmd), arg |-> Stage.arg, cwd |-> sh.cwd] ELSE ctx
    /\ \E o \in {open_output(TRUE)} : /\ o.ok /\ tree' = o.tree /\ pipes' = o.pipes
                                     /\ procs' = IF room THEN <<Frame(Exe, job.in, o.sink)>> ELSE <<>>
    /\ pc' = IF room THEN "running" ELSE "finish"
    /\ fds' = IF room THEN Opens ELSE {}
    /\ job' = IF room THEN job ELSE [job EXCEPT !.success = FALSE]
    /\ UNCHANGED <<sh, script, waiting, ret, screen, typed>>

\* The old answer is removed, the context written, the program run; without
\* room for the context the stage fails.
StageLaunch(room) ==
    /\ pc = "stage" /\ Failing(~room)
    /\ is_file(tree, Exe)
    /\ ret' = Absent
    /\ ctx' = IF room THEN [cmd |-> alias_command(Stage.cmd), arg |-> Stage.arg, cwd |-> sh.cwd] ELSE ctx
    /\ \E o \in {open_output(TRUE)} : /\ o.ok /\ tree' = o.tree /\ pipes' = o.pipes
                                     /\ procs' = IF room THEN <<Frame(Exe, job.in, o.sink)>> ELSE <<>>
    /\ pc' = IF room THEN "running" ELSE "finish"
    /\ fds' = IF room THEN Opens ELSE {}
    /\ job' = IF room THEN job ELSE [job EXCEPT !.success = FALSE]
    /\ UNCHANGED <<sh, script, waiting, screen, typed>>

\* Mutant: the stage counter is not advanced.
next_stage_again(j) == [j EXCEPT !.in = j.toggle, !.toggle = IF @ = "A" THEN "B" ELSE "A"]
\* Mutant: the next stage writes to the file it reads.
next_stage_same_pipe(j) == [j EXCEPT !.i = @ + 1, !.in = j.toggle]
next_stage(j) == [j EXCEPT !.i = @ + 1, !.in = j.toggle, !.toggle = IF @ = "A" THEN "B" ELSE "A"]

ret_apply(s, r) == IF r = Absent THEN s
                   ELSE [s EXCEPT !.cwd = IF r.moved THEN r.cwd ELSE @, !.exit = @ \/ r.exit,
                                  !.code = IF r.exit THEN r.code ELSE @]

\* Mutant: a stage that failed leaves its descriptors open.
close_fds_on_success(open, ok) == IF ok THEN {} ELSE open
close_fds(open, ok) == {}

\* The program came back.  A status that means it could not be run makes the
\* shell take away the context only, whatever the program left as an answer.
Collect ==
    /\ pc = "collect"
    /\ LET ran == job.status # FAILED
           good == job.status = 0
       IN  /\ sh' = IF ran THEN ret_apply(sh, ret) ELSE sh
           /\ ctx' = Absent /\ ret' = IF ran THEN Absent ELSE ret
           /\ fds' = close_fds(fds, good)
           /\ job' = IF ~good THEN [job EXCEPT !.success = FALSE] ELSE IF LastStage THEN job ELSE next_stage(job)
           /\ pc' = IF good /\ ~LastStage THEN "stage" ELSE "finish"
    /\ UNCHANGED <<script, procs, waiting, pipes, tree, screen, bounds>>

Finish ==
    /\ pc = "finish"
    /\ pipes' = IF job.meta THEN [p \in {"A", "B"} |-> Absent] ELSE pipes
    /\ sh' = counted(sh, job.known, job.success)
    /\ pc' = after_line(sh, job.typed) /\ job' = NoJob
    /\ UNCHANGED <<script, fds, procs, waiting, ctx, ret, tree, screen, bounds>>

(***************************************************************************)
(* A program: the one on top of the stack runs.                            *)
(***************************************************************************)
Top == procs[Len(procs)]
SetTop(f) == [procs EXCEPT ![Len(procs)] = f]
Runs(at) == procs # <<>> /\ Top.pc = at
is_program(path) == path \in {<<"shell", p \o ".elf">> : p \in Programs}
name_of(path) == CHOOSE p \in Programs : path = <<"shell", p \o ".elf">>
Input == IF Top.stdin = "" THEN NoInput ELSE capture_stdin_pipe(pipes[Top.stdin])

\* The pipeline's text is read, then the context; the context of another
\* command is not its own, and without one there is no argument.
own_context(f) == ctx # Absent /\ ctx.cmd = <<name_of(f.prog)>>
ProgramStart ==
    /\ Runs("start") /\ is_program(Top.prog)
    /\ LET own == own_context(Top)
       IN  procs' = SetTop([Top EXCEPT !.pc = "work", !.own = own, !.notice = Input.notice,
                                       !.arg = IF own THEN ctx.arg ELSE <<>>, !.cwd = IF own THEN ctx.cwd ELSE <<>>])
    /\ UNCHANGED <<sh, script, job, pc, fds, waiting, fs, screen, bounds>>

\* Where a program's output goes: over the beginning of the file that was
\* opened, or to its end; a file that was removed meanwhile takes nothing,
\* unless it was opened for appending.
write_fd(t, sink, out) ==
    IF sink.append THEN fs_append(t, sink.path, out, TRUE).t
    ELSE IF ~is_file(t, sink.path) THEN t
    ELSE FM!With(t, sink.path, FM!File(out \o after(t[sink.path].bytes, Len(out))))

ProgramWork(room) ==
    /\ Runs("work") /\ Failing(~room)
    /\ \E r \in {app_main(name_of(Top.prog), tree, Top.cwd, Top.arg, Input, room)} :
       LET out == Top.notice \o r.out
           spawned == r.call = "spawn" /\ Len(waiting) < SPAWN_CAP
       IN  /\ tree' = IF Top.sink.kind = "file" THEN write_fd(r.tree, Top.sink, out) ELSE r.tree
           /\ pipes' = IF Top.sink.kind \in {"A", "B"} THEN [pipes EXCEPT ![Top.sink.kind] = @ \o out] ELSE pipes
           /\ screen' = IF Top.sink.kind = "screen" THEN screen \o out ELSE screen
           /\ waiting' = IF spawned THEN Append(waiting, r.path) ELSE waiting
           /\ procs' = SetTop([Top EXCEPT !.res = [r EXCEPT !.tree = <<>>, !.ok = @ /\ (r.call = "spawn" => spawned)],
                                          !.pc = IF r.call \in {"sleep", "yield", "exec"} THEN r.call ELSE "ret"])
    /\ UNCHANGED <<sh, script, job, pc, fds, ctx, ret, typed>>

\* exec: the program is run on top of this one, if there is one and the stack
\* of programs is not full.
ProgramExec ==
    /\ Runs("exec")
    /\ procs' = IF is_file(tree, Top.res.path) /\ is_program(Top.res.path) /\ Len(procs) < DEPTH
                THEN Append(SetTop([Top EXCEPT !.pc = "child"]), Frame(Top.res.path, "", NoSink))
                ELSE SetTop([Top EXCEPT !.pc = "ret", !.res.ok = FALSE])
    /\ UNCHANGED <<sh, script, job, pc, fds, waiting, fs, screen, bounds>>

\* A sleeping or yielding program lets the oldest spawned one run, unless one
\* that was run like this sleeps itself.
InDispatch == \E n \in DOMAIN procs : n > 1 /\ procs[n - 1].pc \in {"sleep", "yield"}
Dispatch ==
    /\ (Runs("sleep") \/ Runs("yield")) /\ ~InDispatch /\ waiting # <<>> /\ Len(procs) < DEPTH
    /\ waiting' = Tail(waiting)
    /\ procs' = IF is_file(tree, Head(waiting)) /\ is_program(Head(waiting)) THEN Append(procs, Frame(Head(waiting), "", NoSink)) ELSE procs
    /\ UNCHANGED <<sh, script, job, pc, fds, fs, screen, bounds>>

Wake == /\ Runs("sleep") \/ Runs("yield")
        /\ procs' = SetTop([Top EXCEPT !.pc = "ret"])
        /\ UNCHANGED <<sh, script, job, pc, fds, waiting, fs, screen, bounds>>

\* The answer: where it moved to, and whether the shell shall exit.
ProgramRet(room) ==
    /\ Runs("ret") /\ Failing(Top.own /\ ~room) /\ (Top.own \/ room)
    /\ ret' = IF Top.own /\ room
              THEN [moved |-> Top.res.cwd # Top.cwd, cwd |-> Top.res.cwd, exit |-> Top.res.exit, code |-> Top.res.code]
              ELSE ret
    /\ procs' = SetTop([Top EXCEPT !.pc = "end"])
    /\ UNCHANGED <<sh, script, job, pc, fds, waiting, ctx, pipes, tree, screen, typed>>

\* The top program is gone; whoever ran it goes on.
Return(status) ==
    LET below == procs[Len(procs) - 1]
        rest == Front(procs)
    IN  IF Len(procs) = 1
        THEN procs' = <<>> /\ pc' = "collect" /\ job' = [job EXCEPT !.status = status]
        ELSE /\ procs' = IF below.pc = "child"
                         THEN [rest EXCEPT ![Len(rest)].pc = "ret", ![Len(rest)].res.ok = status = 0]
                         ELSE rest
             /\ UNCHANGED <<pc, job>>

exit_status(f) == IF f.res.exit THEN f.res.code ELSE IF f.res.ok THEN 0 ELSE 1
ProgramEnd == /\ Runs("end") /\ Return(exit_status(Top))
              /\ UNCHANGED <<sh, script, fds, waiting, fs, screen, bounds>>

\* A fault or a signal ends the top program wherever it is.
ProgramFault == /\ procs # <<>> /\ Failing(TRUE) /\ Return(SIGNALLED)
                /\ UNCHANGED <<sh, script, fds, waiting, fs, screen, typed>>

\* The kernel has no slot or no memory for the program the shell asked for, or
\* the file is none.
LaunchFails == /\ Len(procs) = 1 /\ Runs("start") /\ Failing(is_program(Top.prog)) /\ Return(FAILED)
               /\ UNCHANGED <<sh, script, fds, waiting, fs, screen, typed>>

Program == \/ ProgramStart \/ LaunchFails \/ ProgramExec \/ Dispatch \/ Wake \/ ProgramEnd
           \/ \E room \in BOOLEAN : ProgramWork(room) \/ ProgramRet(room)
ShellStep == \/ ScriptLine \/ StageUnknown \/ Collect \/ Finish
             \/ \E room \in BOOLEAN : StageRefused(room) \/ StageLaunch(room)
Waiting == pc = "stopped" \/ (pc = "ready" /\ script = <<>>)

\* No key is pressed, or the shell has returned.
Idle == Waiting /\ UNCHANGED vars

Next == Program \/ ShellStep \/ ProgramFault \/ Idle \/ \E line \in Typed : TypedLine(line)

\* The processor runs the program on top, or the shell when there is none, and
\* a sleep ends with the timer: unless the shell waits, there is always a next
\* step (TLC finds no deadlock) and it is taken in the end.
Spec == Init /\ [][Next]_vars /\ ([]<>Waiting \/ []<><<pc' # pc \/ procs' # procs>>_vars)

(***************************************************************************)
(* Properties.                                                             *)
(***************************************************************************)
UShellTypeOK ==
    /\ pc \in {"ready", "stage", "running", "collect", "finish", "stopped"}
    /\ procs # <<>> <=> pc = "running"
    /\ Len(procs) <= DEPTH /\ Len(waiting) <= SPAWN_CAP
    /\ is_dir(Tree0, sh.cwd) \/ path_is_under_temp(sh.cwd)
    /\ sh.total = sh.ok + sh.fail /\ sh.unknown <= sh.fail
    /\ job.stages # <<>> => job.i \in DOMAIN job.stages

\* What the stages of a pipeline compute, one on the output of the other.
Pure(stage) == alias_command(stage.cmd) \in {<<p>> : p \in Tools \cup {"cat", "pwd"}}
Seen(n) == LET s == job.stages[n]
               p == resolve_path(job.cwd, s.path)
           IN  IF s.mode = 1 \/ (s.mode = 2 /\ p \notin DOMAIN job.tree)
               THEN fs_write_all(job.tree, p, <<>>, TRUE).t ELSE job.tree
Written(n, in) == in.notice \o app_main(job.stages[n].cmd[1], Seen(n), job.cwd, job.stages[n].arg, in, TRUE).out
Meaning(k) == LET given[n \in 1 .. k] == IF n = 1 THEN NoInput ELSE capture_stdin_pipe(Written(n - 1, given[n - 1]))
              IN  Written(k, given[k])

\* A pipeline of text commands that succeeds leaves in the file it is
\* redirected to, or on the screen, what its commands make of each other's
\* output (ush_execute_pipeline): no stage reads what another one left before,
\* and none loses its input to the stage that writes next.
PipelineMeaning ==
    pc = "finish" /\ job.success /\ (\A n \in DOMAIN job.stages : Pure(job.stages[n])) =>
        LET s == Last(job.stages)
            p == resolve_path(job.cwd, s.path)
            old == IF s.mode = 2 /\ p \in DOMAIN job.tree THEN job.tree[p].bytes ELSE <<>>
        IN  \E out \in {Meaning(Len(job.stages))} :
                IF s.mode = 0 THEN screen = out /\ tree = job.tree ELSE tree[p].bytes = old \o out

\* When the shell waits for the next line, the files and descriptors of the
\* last one are gone, however its stages ended; only an answer may be left,
\* after a program whose exit code reads as a failure to run it.
NothingLeft ==
    pc \in {"ready", "stopped"} => ctx = Absent /\ fds = {} /\ pipes["A"] = Absent /\ pipes["B"] = Absent

\* The shell moves only to where the cd that was typed leads, and is told to
\* exit only by an exit that was typed (ush_cmd_ret_apply), although every
\* program may write the answer, spawned ones run while another command is in
\* the foreground, and programs die before or after they answer.
ShellObeysTypedCommand ==
    [][/\ sh'.cwd # sh.cwd => Stage.cmd = <<"cd">>
                              /\ sh'.cwd = resolve_path(sh.cwd, IF Stage.arg = <<>> THEN <<"/">> ELSE Stage.arg)
       /\ sh'.exit # sh.exit => Stage.cmd = <<"exit">>]_vars

\* A program that is run by the name of a command finds the argument that was
\* typed and the shell's directory in its context, under an alias too.
ProgramFindsItsArgument ==
    procs # <<>> /\ procs[1].pc # "start" /\ alias_command(Stage.cmd) \in {<<p>> : p \in Programs} =>
        procs[1].own /\ procs[1].arg = Stage.arg /\ procs[1].cwd = sh.cwd

\* Every line comes to an end, whatever its programs run, and the shell goes
\* on to the next one or stops.
EveryLineFinishes == ~Waiting ~> Waiting

\* The files through which the shell and its programs talk hold what they should
\* when they are read, and are gone when the line is done.
ContextTrue == UShellTypeOK /\ NothingLeft /\ ProgramFindsItsArgument

=============================================================================
