--------------------------- MODULE UserPrograms ---------------------------
(***************************************************************************)
(* The programs of the user shell (cleonos/c/apps/*_main.c): what each one *)
(* does to the file tree, what it writes, and what it asks of the kernel.  *)
(* A program is given the argument and the working directory it found in   *)
(* its context, and the pipeline's text if its input is a pipeline.        *)
(***************************************************************************)
EXTENDS UserText, FileTree

CONSTANT PATH_MAX         \* USH_PATH_MAX, in characters

(***************************************************************************)
(* Paths.  A resolved path is the sequence of its names.                   *)
(***************************************************************************)
NoPath == <<"", "">>                       \* resolution failed
path_len(p) == IF p = <<>> THEN 1 ELSE FoldLeft(LAMBDA n, name : n + 1 + Len(name), 0, p)

path_push_component(p, name) == IF path_len(Append(p, name)) >= PATH_MAX THEN NoPath ELSE Append(p, name)
path_pop_component(p) == IF p = <<>> THEN p ELSE Front(p)
path_step(p, name) == CASE p = NoPath \/ name = "." -> p
                        [] name = ".." -> path_pop_component(p)
                        [] OTHER -> path_push_component(p, name)

\* The names between the slashes.
names_of(src) ==
    LET see(s, k) == IF k = "/" THEN [s EXCEPT !.open = FALSE]
                     ELSE IF s.open THEN [s EXCEPT !.names[Len(s.names)] = @ \o k]
                     ELSE [names |-> Append(s.names, k), open |-> TRUE]
    IN  FoldLeft(see, [names |-> <<>>, open |-> FALSE], src).names

resolve_path(cwd, arg) ==
    FoldLeft(path_step, IF arg # <<>> /\ arg[1] = "/" THEN <<>> ELSE cwd, names_of(arg))

has_elf_suffix(name) == Len(name) >= 4 /\ SubSeq(name, Len(name) - 3, Len(name)) = ".elf"
with_elf_suffix(p) == IF p = <<>> \/ has_elf_suffix(Last(p)) THEN p ELSE [p EXCEPT ![Len(p)] = @ \o ".elf"]

\* A program is named by an absolute path, taken as it is; by a path from the
\* working directory; or by its name below /shell.
exec_path(p) == IF p = NoPath \/ path_len(with_elf_suffix(p)) >= PATH_MAX THEN NoPath ELSE with_elf_suffix(p)
resolve_exec_path(cwd, arg) ==
    CASE arg = <<>> -> NoPath
      [] arg # <<>> /\ arg[1] = "/" -> exec_path(names_of(arg))
      [] arg # <<>> /\ arg[1] # "/" /\ (\E n \in DOMAIN arg : arg[n] = "/") -> exec_path(resolve_path(cwd, arg))
      [] OTHER -> exec_path(<<"shell">> \o names_of(arg))

path_is_under_system(p) == p # <<>> /\ Head(p) = "system"

(***************************************************************************)
(* The pipeline's text as a program finds it: what fits its buffer, and a  *)
(* notice, which goes to the program's own output, when the buffer filled. *)
(***************************************************************************)
NoInput == [piped |-> FALSE, text |-> <<>>, notice |-> <<>>]
capture_stdin_pipe(bytes) ==
    [piped |-> TRUE, text |-> SubSeq(bytes, 1, Min({Len(bytes), COPY_MAX})),
     notice |-> IF Len(bytes) < COPY_MAX THEN <<>> ELSE <<"[pipe] input truncated", "NL">>]

(***************************************************************************)
(* What a program leaves: the tree, its output, success, the directory it  *)
(* moved to, the exit it requests, and the call that lets others run.      *)
(***************************************************************************)
Res(t, ok, out, cwd) == [tree |-> t, ok |-> ok, out |-> out, cwd |-> cwd, exit |-> FALSE, code |-> 0,
                         call |-> "", path |-> <<>>]
Says(msg) == <<msg, "NL">>
Fails(t, cwd) == Res(t, FALSE, Says("error"), cwd)
Did(r, cwd) == IF r.ok THEN Res(r.t, TRUE, <<>>, cwd) ELSE Fails(r.t, cwd)
Asks(t, cwd, call, path) == [Res(t, TRUE, <<>>, cwd) EXCEPT !.call = call, !.path = path]

\* The input of a line tool: a file that fits its buffer, or the pipeline.
load_file(t, p) == IF is_file(t, p) THEN [ok |-> Len(t[p].bytes) <= COPY_MAX, text |-> t[p].bytes]
                   ELSE [ok |-> FALSE, text |-> <<>>]
load_input(t, cwd, file, in) == IF file = <<>> THEN [ok |-> in.piped, text |-> in.text]
                                ELSE load_file(t, resolve_path(cwd, file))

cmd_tool(cmd, t, cwd, arg, in) ==
    LET write(a, input) == IF a.ok /\ input.ok THEN Res(t, TRUE, emit(cmd, a, input.text), cwd) ELSE Fails(t, cwd)
        run(a) == write(a, load_input(t, cwd, a.file, in))
    IN  run(parse_args(cmd, arg))

\* cat copies a file of any size; the pipeline's text it prints as a C string.
cat_file(t, cwd, p) == IF is_file(t, p) THEN Res(t, TRUE, t[p].bytes, cwd) ELSE Fails(t, cwd)
cmd_cat(t, cwd, arg, in) ==
    IF arg # <<>> THEN cat_file(t, cwd, resolve_path(cwd, arg))
    ELSE IF in.piped THEN Res(t, TRUE, c_string(in.text), cwd) ELSE Fails(t, cwd)

cmd_pwd(t, cwd) == Res(t, TRUE, FlattenSeq([n \in DOMAIN cwd |-> <<"/", cwd[n]>>]) \o <<"NL">>, cwd)

\* (Nothing is stored at NoPath.)
move_to_dir(t, cwd, p) == IF is_dir(t, p) THEN Res(t, TRUE, <<>>, p) ELSE Fails(t, cwd)
cmd_cd(t, cwd, arg) == move_to_dir(t, cwd, resolve_path(cwd, IF arg = <<>> THEN <<"/">> ELSE arg))

\* mkdir, touch, rm: one path, which must lie under /temp.
on_temp(t, cwd, p, Op(_)) == IF path_is_under_temp(p) THEN Did(Op(p), cwd) ELSE Fails(t, cwd)
on_temp_path(t, cwd, arg, Op(_)) == IF arg = <<>> THEN Fails(t, cwd) ELSE on_temp(t, cwd, resolve_path(cwd, arg), Op)

cmd_mkdir(t, cwd, arg) == on_temp_path(t, cwd, arg, LAMBDA p : fs_mkdir(t, p))
cmd_touch(t, cwd, arg) == on_temp_path(t, cwd, arg, LAMBDA p : fs_write_all(t, p, <<>>, TRUE))
cmd_rm(t, cwd, arg) == on_temp_path(t, cwd, arg, LAMBDA p : fs_remove(t, p))

\* write and append: the rest of the argument, or what came down the pipeline.
with_payload(c, in) == IF c.rest # <<>> THEN [path |-> c.first, ok |-> TRUE, text |-> c.rest]
                       ELSE [path |-> c.first, ok |-> in.piped, text |-> in.text]
payload(arg, in) == with_payload(split_first_and_rest(arg), in)
cmd_write(t, cwd, arg, in, mem) ==
    LET write(c) == IF c.ok THEN on_temp_path(t, cwd, c.path, LAMBDA p : fs_write_all(t, p, c.text, mem)) ELSE Fails(t, cwd)
    IN  write(payload(arg, in))
cmd_append(t, cwd, arg, in, mem) ==
    LET add(c) == IF c.ok THEN on_temp_path(t, cwd, c.path, LAMBDA p : fs_append(t, p, c.text, mem)) ELSE Fails(t, cwd)
    IN  add(payload(arg, in))

resolve_two(cwd, ws) == [n \in 1 .. 2 |-> IF Len(ws) >= 2 THEN resolve_path(cwd, ws[n]) ELSE NoPath]
two_paths(cwd, arg) == resolve_two(cwd, words(arg))

\* The destination is emptied before the source is read.
cmd_cp(t, cwd, arg, mem) ==
    LET fill(e, p) == IF e.ok THEN Did(fs_write_all(e.t, p[2], e.t[p[1]].bytes, mem), cwd) ELSE Fails(e.t, cwd)
        copy(p) == IF path_is_under_temp(p[2]) /\ is_file(t, p[1])
                   THEN fill(fs_write_all(t, p[2], <<>>, TRUE), p) ELSE Fails(t, cwd)
    IN  copy(two_paths(cwd, arg))

cmd_mv(t, cwd, arg, mem) ==
    LET drop(copied, p) == IF copied.ok THEN Did(fs_remove(copied.t, p[1]), cwd) ELSE Fails(copied.t, cwd)
        move(p) == IF \/ ~path_is_under_temp(p[1]) \/ ~path_is_under_temp(p[2])
                      \/ ~is_file(t, p[1]) \/ Len(t[p[1]].bytes) > COPY_MAX THEN Fails(t, cwd)
                   ELSE drop(fs_write_all(t, p[2], t[p[1]].bytes, mem), p)
    IN  move(two_paths(cwd, arg))

\* The kernel notes the code at once; the program goes on to its end.
exit_with(t, cwd, code) == IF code < 0 THEN Fails(t, cwd)
                           ELSE [Res(t, TRUE, Says("exit: shell stopping"), cwd) EXCEPT !.exit = TRUE, !.code = code]
cmd_exit(t, cwd, arg) == exit_with(t, cwd, IF arg = <<>> THEN 0 ELSE parse_u64_dec(arg))

\* exec runs a program and waits for it, spawn and bg leave it for later; bg
\* with a number alone is about a stopped process and always succeeds.
ask_to_run(t, cwd, call, p) == IF p = NoPath \/ path_is_under_system(p) THEN Fails(t, cwd) ELSE Asks(t, cwd, call, p)
cmd_exec(t, cwd, arg, call) == ask_to_run(t, cwd, call, resolve_exec_path(cwd, split_first_and_rest(arg).first))
is_process(ws) == Len(ws) = 1 /\ parse_u64_dec(ws[1]) > 0
cmd_bg(t, cwd, arg) == IF is_process(words(arg)) THEN Res(t, TRUE, Says("bg: resumed"), cwd)
                       ELSE cmd_exec(t, cwd, arg, "spawn")

sleep_for(t, cwd, n) == IF n < 0 THEN Fails(t, cwd) ELSE Asks(t, cwd, IF n = 0 THEN "" ELSE "sleep", <<>>)
cmd_sleep(t, cwd, arg) == sleep_for(t, cwd, parse_u64_dec(arg))

Programs == Tools \cup {"cat", "pwd", "cd", "mkdir", "touch", "rm", "write", "append", "cp", "mv", "exit",
                        "exec", "spawn", "bg", "sleep", "yield"}

app_main(cmd, t, cwd, arg, in, mem) ==
    CASE cmd \in Tools -> cmd_tool(cmd, t, cwd, arg, in)
      [] cmd = "cat" -> cmd_cat(t, cwd, arg, in)
      [] cmd = "pwd" -> cmd_pwd(t, cwd)
      [] cmd = "cd" -> cmd_cd(t, cwd, arg)
      [] cmd = "mkdir" -> cmd_mkdir(t, cwd, arg)
      [] cmd = "touch" -> cmd_touch(t, cwd, arg)
      [] cmd = "rm" -> cmd_rm(t, cwd, arg)
      [] cmd = "write" -> cmd_write(t, cwd, arg, in, mem)
      [] cmd = "append" -> cmd_append(t, cwd, arg, in, mem)
      [] cmd = "cp" -> cmd_cp(t, cwd, arg, mem)
      [] cmd = "mv" -> cmd_mv(t, cwd, arg, mem)
      [] cmd = "exit" -> cmd_exit(t, cwd, arg)
      [] cmd = "exec" -> cmd_exec(t, cwd, arg, "exec")
      [] cmd = "spawn" -> cmd_exec(t, cwd, arg, "spawn")
      [] cmd = "bg" -> cmd_bg(t, cwd, arg)
      [] cmd = "sleep" -> cmd_sleep(t, cwd, arg)
      [] cmd = "yield" -> Asks(t, cwd, "yield", <<>>)
=============================================================================
