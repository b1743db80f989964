-------------------------- MODULE KShellCommands --------------------------
(***************************************************************************)
(* The commands of the kernel shell (clks/kernel/shell.c): how a line is   *)
(* split into a command and its arguments, how a path argument is resolved *)
(* against the working directory, and what each command does to the file   *)
(* tree.  A line is a sequence of keys; a key is one character, or a run   *)
(* of characters (a name) that nothing here looks into.  The tree is that  *)
(* of FileMap, which Files.tla implements.                                 *)
(***************************************************************************)
EXTENDS FileTree, FiniteSetsExt

CONSTANTS
    CMD_MAX, ARG_MAX,      \* sizes of the buffers for the command and its argument
    PATH_MAX,              \* size of a path buffer, in characters
    U64_MAX                \* the largest count dmesg can parse


(***************************************************************************)
(* Lines and words.                                                        *)
(***************************************************************************)
is_space(k) == k \in {" ", "TAB", "CR", "NL"}
first_n(s, n) == SubSeq(s, 1, IF n < Len(s) THEN n ELSE Len(s))
after(s, n) == SubSeq(s, n + 1, Len(s))
run_of(s, P(_)) == Max({k \in 0 .. Len(s) : \A j \in 1 .. k : P(s[j])})
no_space(k) == ~is_space(k)
skip_spaces(s) == after(s, run_of(s, is_space))
line_has_non_space(s) == \E k \in DOMAIN s : ~is_space(s[k])

trim_end(t) == SubSeq(t, 1, Min({k \in 0 .. Len(t) : \A j \in k + 1 .. Len(t) : is_space(t[j])}))
trim(s) == trim_end(skip_spaces(s))

\* The command and the rest, each cut to its buffer.
split_at(t, n) == [ok |-> t # <<>>, first |-> SubSeq(t, 1, n), rest |-> skip_spaces(after(t, n))]
split_word(t) == split_at(t, run_of(t, no_space))
split_first_and_rest(s) == split_word(skip_spaces(s))

cut_to_buffers(r) == [cmd |-> first_n(r.first, CMD_MAX - 1), arg |-> first_n(r.rest, ARG_MAX - 1)]
split_line(s) == cut_to_buffers(split_first_and_rest(s))

second_word(r) == [ok |-> r.ok /\ r.rest # <<>>, first |-> r.first, second |-> SubSeq(r.rest, 1, run_of(r.rest, no_space))]
split_two_args(s) == second_word(split_first_and_rest(s))

Digit == [k \in {"0", "1", "2", "9"} |-> CASE k = "0" -> 0 [] k = "1" -> 1 [] k = "2" -> 2 [] k = "9" -> 9]

\* -1 for what is not a number, or is too large for 64 bits.
parse_u64_dec(s) ==
    LET value[k \in 0 .. Len(s)] ==
            IF k = 0 THEN 0
            ELSE LET v == value[k - 1]
                 IN  IF v < 0 \/ s[k] \notin DOMAIN Digit THEN -1
                     ELSE IF v > ((U64_MAX - Digit[s[k]]) \div 10) THEN -1
                     ELSE 10 * v + Digit[s[k]]
    IN  IF s = <<>> THEN -1 ELSE value[Len(s)]

(***************************************************************************)
(* Paths.  A resolved path is the sequence of its names; the code keeps    *)
(* the same thing as text that starts with a slash.                        *)
(***************************************************************************)
path_len(p) == LET len[k \in 0 .. Len(p)] == IF k = 0 THEN 0 ELSE len[k - 1] + 1 + Len(p[k])
               IN  IF p = <<>> THEN 1 ELSE len[Len(p)]

NoPath == <<"", "">>                       \* resolution failed

path_push_component(p, name) == IF path_len(Append(p, name)) >= PATH_MAX THEN NoPath ELSE Append(p, name)
path_pop_component(p) == IF p = <<>> THEN p ELSE SubSeq(p, 1, Len(p) - 1)

path_step(p, name) == CASE name = "." -> p
                        [] name = ".." -> path_pop_component(p)
                        [] OTHER -> path_push_component(p, name)

\* The names of src between its slashes, taken one after the other.
path_parse_into(p, src) ==
    LET join[k \in 0 .. Len(src)] == IF k = 0 \/ src[k] = "/" THEN "" ELSE join[k - 1] \o src[k]
        ends(k) == src[k] # "/" /\ (k = Len(src) \/ src[k + 1] = "/")
        walk[k \in 0 .. Len(src)] ==
            IF k = 0 THEN p
            ELSE LET q == walk[k - 1] IN IF q = NoPath \/ ~ends(k) THEN q ELSE path_step(q, join[k])
    IN  walk[Len(src)]

resolve_path(cwd, arg) == IF arg = <<>> THEN cwd
                          ELSE path_parse_into(IF Head(arg) = "/" THEN <<>> ELSE cwd, arg)

\* An absolute path that is handed on as it was typed, dots and all.
as_typed(src) ==
    LET names[k \in 0 .. Len(src)] ==
            IF k = 0 THEN <<>>
            ELSE LET n == names[k - 1]
                 IN  IF src[k] = "/" THEN Append(n, "") ELSE [n EXCEPT ![Len(n)] = @ \o src[k]]
    IN  names[Len(src)]

\* A program is named by its path, or by its name below /shell without ".elf".
resolve_exec_path(arg) ==
    IF arg = <<>> THEN NoPath
    ELSE IF Head(arg) = "/" THEN as_typed(arg)
    ELSE LET full == <<"/", "shell", "/">> \o arg
         IN  as_typed(IF full[Len(full)] = ".elf" THEN full ELSE Append(full, ".elf"))

(***************************************************************************)
(* The commands: each gives the tree and the directory it leaves, whether  *)
(* it succeeded, whether it wrote to the terminal, and what is left to do  *)
(* ("" or a program to run, a source to remove, a halted machine).         *)
(***************************************************************************)
Result(t, cwd, ok, says) == [tree |-> t, cwd |-> cwd, ok |-> ok, says |-> says, then |-> "", path |-> <<>>]
Fails(t, cwd) == Result(t, cwd, FALSE, TRUE)
Shows(t, cwd) == Result(t, cwd, TRUE, TRUE)          \* help, pwd, the statistics
Changed(r, cwd) == Result(r.t, cwd, r.ok, ~r.ok)

\* Nothing is stored at NoPath.
cmd_ls(t, cwd, arg) == IF is_dir(t, resolve_path(cwd, IF arg = <<>> THEN <<".">> ELSE arg))
                       THEN Shows(t, cwd) ELSE Fails(t, cwd)

cmd_cat(t, cwd, arg) == IF arg # <<>> /\ is_file(t, resolve_path(cwd, arg)) THEN Shows(t, cwd) ELSE Fails(t, cwd)

move_to_dir(t, cwd, p) == IF is_dir(t, p) THEN Result(t, p, TRUE, FALSE) ELSE Fails(t, cwd)
cmd_cd(t, cwd, arg) == move_to_dir(t, cwd, resolve_path(cwd, IF arg = <<>> THEN <<"/">> ELSE arg))

\* mkdir, touch, rm: one path, which must lie under /temp.
on_temp(t, cwd, p, Op(_)) == IF path_is_under_temp(p) THEN Changed(Op(p), cwd) ELSE Fails(t, cwd)
on_temp_path(t, cwd, arg, Op(_)) == IF arg = <<>> THEN Fails(t, cwd) ELSE on_temp(t, cwd, resolve_path(cwd, arg), Op)

cmd_mkdir(t, cwd, arg) == on_temp_path(t, cwd, arg, LAMBDA p : fs_mkdir(t, p))
cmd_touch(t, cwd, arg) == on_temp_path(t, cwd, arg, LAMBDA p : fs_write_all(t, p, <<>>, TRUE))
cmd_rm(t, cwd, arg) == on_temp_path(t, cwd, arg, LAMBDA p : fs_remove(t, p))

\* The first word is the path, the rest what is written; no path, no write.
cmd_write(t, cwd, arg, mem) ==
    LET write(r) == on_temp_path(t, cwd, r.first, LAMBDA p : fs_write_all(t, p, r.rest, mem))
    IN  write(split_first_and_rest(arg))

cmd_append(t, cwd, arg, mem) ==
    LET add(r) == on_temp_path(t, cwd, r.first, LAMBDA p : fs_append(t, p, r.rest, mem))
    IN  add(split_first_and_rest(arg))

\* Source and destination of cp and mv, resolved.
resolve_two(cwd, r) == IF r.ok THEN [src |-> resolve_path(cwd, r.first), dst |-> resolve_path(cwd, r.second)]
                       ELSE [src |-> NoPath, dst |-> NoPath]
two_paths(cwd, arg) == resolve_two(cwd, split_two_args(arg))

copy(t, cwd, p, mem) == IF path_is_under_temp(p.dst) /\ is_file(t, p.src)
                        THEN Changed(fs_write_all(t, p.dst, t[p.src].bytes, mem), cwd) ELSE Fails(t, cwd)
cmd_cp(t, cwd, arg, mem) == copy(t, cwd, two_paths(cwd, arg), mem)

\* Mutant: the source goes whether or not it was copied.
then_remove_always(cp, p) == [cp EXCEPT !.then = "remove", !.path = p]
then_remove(cp, p) == IF cp.ok THEN [cp EXCEPT !.then = "remove", !.path = p] ELSE cp

\* A copy, and then the source is removed.
move(t, cwd, p, mem) == IF path_is_under_temp(p.src) /\ path_is_under_temp(p.dst)
                        THEN then_remove(copy(t, cwd, p, mem), p.src) ELSE Fails(t, cwd)
cmd_mv(t, cwd, arg, mem) == move(t, cwd, two_paths(cwd, arg), mem)

Runs(t, cwd, p) == [Result(t, cwd, FALSE, FALSE) EXCEPT !.then = "program", !.path = p]

\* clks_exec_run_path on an image: a file whose contents are an ELF image.
IsElf(t, p) == is_file(t, p) /\ t[p].bytes = <<"elf">>

run_elf(t, cwd, p) == IF IsElf(t, p) THEN Runs(t, cwd, p) ELSE Fails(t, cwd)
cmd_exec(t, cwd, arg) == run_elf(t, cwd, resolve_exec_path(arg))
cmd_elfloader(t, cwd, arg) == run_elf(t, cwd, IF arg = <<>> THEN <<"hello.elf">>
                                              ELSE IF Head(arg) = "/" THEN as_typed(arg) ELSE resolve_path(cwd, arg))

cmd_dmesg(t, cwd, arg) == IF arg # <<>> /\ parse_u64_dec(arg) <= 0 THEN Fails(t, cwd) ELSE Shows(t, cwd)

cmd_panic(t, cwd) == [Fails(t, cwd) EXCEPT !.then = "halt"]

Informative == {"help", "pwd", "memstat", "fsstat", "taskstat", "shstat", "rusttest", "clear", "kbdstat"}
Known == Informative \cup {"ls", "cat", "cd", "mkdir", "touch", "write", "append", "cp", "mv", "rm", "dmesg",
                           "panic", "elfloader", "exec", "run"}
name_of(cmd) == IF Len(cmd) = 1 THEN cmd[1] ELSE "?"     \* a command is one key

\* clks_shell_execute_line once the line is split: the chain of comparisons.
dispatch_name(t, cwd, name, arg, mem) ==
        CASE name \in Informative -> Shows(t, cwd)
          [] name = "ls" -> cmd_ls(t, cwd, arg)
          [] name = "cat" -> cmd_cat(t, cwd, arg)
          [] name = "cd" -> cmd_cd(t, cwd, arg)
          [] name = "mkdir" -> cmd_mkdir(t, cwd, arg)
          [] name = "touch" -> cmd_touch(t, cwd, arg)
          [] name = "write" -> cmd_write(t, cwd, arg, mem)
          [] name = "append" -> cmd_append(t, cwd, arg, mem)
          [] name = "cp" -> cmd_cp(t, cwd, arg, mem)
          [] name = "mv" -> cmd_mv(t, cwd, arg, mem)
          [] name = "rm" -> cmd_rm(t, cwd, arg)
          [] name = "dmesg" -> cmd_dmesg(t, cwd, arg)
          [] name = "panic" -> cmd_panic(t, cwd)
          [] name = "elfloader" -> cmd_elfloader(t, cwd, arg)
          [] name \in {"exec", "run"} -> cmd_exec(t, cwd, arg)
          [] OTHER -> Fails(t, cwd)
dispatch(t, cwd, cmd, arg, mem) == dispatch_name(t, cwd, name_of(cmd), arg, mem)
=============================================================================
