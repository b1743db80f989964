------------------------------- MODULE KShell -------------------------------
(***************************************************************************)
(* The interactive shell of the kernel (clks/kernel/shell.c).              *)
(*                                                                         *)
(* The line editor runs in two places: in the keyboard interrupt, which    *)
(* hands each key to it at once unless a program runs, and in the shell's  *)
(* tick, which drains what has queued up.  The interrupt may come while    *)
(* the tick has a key in hand: it then runs the editor from its first      *)
(* statement to its last between two statements of the tick's own call.    *)
(* So a key is handled piece by piece, a piece being a few statements of   *)
(* clks_shell_handle_char, and the interrupt does all pieces at once.  A   *)
(* piece that is cut in two by the interrupt is not modelled; torn records *)
(* that the interrupt changed the editor while a key was in hand, wherever *)
(* that was.                                                               *)
(*                                                                         *)
(* A finished line is put into a single buffer that the tick executes      *)
(* later.  Between two steps of the tick (take the flag, copy the line key *)
(* by key, execute it, clear the buffer) the interrupt may hand over       *)
(* further keys, a newline included.                                       *)
(*                                                                         *)
(* row and col are the terminal's row of the cursor, with the prompt as    *)
(* one cell; a line is taken to fit a row.  A buffer is an array of cells, *)
(* as in the code; lengths and the cursor wrap.                            *)
(***************************************************************************)
EXTENDS KShellCommands

CONSTANTS
    LINE_MAX,        \* CLKS_SHELL_LINE_MAX
    HISTORY_MAX,     \* CLKS_SHELL_HISTORY_MAX
    INPUT_BUDGET,    \* CLKS_SHELL_INPUT_BUDGET
    Keys,            \* the keys that print
    Bursts,          \* bound: for each burst of keys in a behaviour, the runs of keys it may be
    InitTree         \* the files at boot

VARIABLES
    ed,         \* the editor: line, cursor, rendered length, history, navigation; the row it shows
    pend,       \* clks_shell_pending_command and clks_shell_pending_line
    hand,       \* the key the tick has in hand, the pieces of its handling that are left,
                \* and how many keys of the line it has put into the buffer
    queue,      \* terminal 0's keyboard queue
    pc, left,   \* where the tick is, and its budget for keys
    cmd,        \* line_buf, then what the running command has left to do
    cwd, tree,
    stat,       \* cmd_total, cmd_ok, cmd_fail, cmd_unknown
    bursts,
    submitted,  \* history: lines ended with a newline
    accepted,   \* history: those of them put into the buffer, and what the tick was doing with it then
    torn,       \* history: the interrupt changed the editor while the tick had a key in hand
    ran,        \* history: lines executed, and whether the buffer changed while they were copied
    mv          \* history: the last mv, and what its source held

vars == <<ed, pend, hand, queue, pc, left, cmd, cwd, tree, stat, bursts, submitted, accepted, torn, ran, mv>>

PROMPT == "$"
END == "end of text"                                   \* '\0'
is_printable(k) == k \in Keys

(***************************************************************************)
(* Buffers.  Lengths and indices are unsigned and wrap.                    *)
(***************************************************************************)
Cells == 0 .. LINE_MAX - 1
EmptyLine == [i \in Cells |-> END]
more(n) == (n + 1) % (U64_MAX + 1)
less(n) == (n + U64_MAX) % (U64_MAX + 1)

cells(b, n) == [i \in 1 .. n |-> b[i - 1]]
text(b) == cells(b, Min({i \in Cells : b[i] = END} \cup {LINE_MAX}))
\* What the buffer held behind the end of the text stays.
copy_line(b, s) == [i \in Cells |-> IF i < Len(s) THEN s[i + 1] ELSE IF i = Len(s) THEN END ELSE b[i]]

(***************************************************************************)
(* The terminal row.                                                       *)
(***************************************************************************)
put(e, k) == CASE k = "NL" -> [e EXCEPT !.row = <<>>, !.col = 0]
               [] k = "CR" -> [e EXCEPT !.col = 0]
               [] OTHER -> [e EXCEPT !.row = SubSeq(@, 1, e.col) \o <<k>> \o SubSeq(@, e.col + 2, Len(@)),
                                     !.col = @ + 1]

Blanks(n) == IF n <= 0 THEN <<>> ELSE [k \in 1 .. n |-> " "]

\* From the first column: the prompt and keys, over what the row held.
over(row, keys) == <<PROMPT>> \o keys \o SubSeq(row, Len(keys) + 2, Len(row))

\* The line, and blanks over the rest of what was rendered last; then once
\* more up to the cursor.
render_line(e) ==
    [e EXCEPT !.row = over(over(@, cells(e.buf, e.len) \o Blanks(e.rendered - e.len)), cells(e.buf, e.cursor)),
              !.col = e.cursor + 1, !.rendered = e.len]

(***************************************************************************)
(* History and navigation.                                                 *)
(***************************************************************************)
cancel_nav(e) == [e EXCEPT !.nav = -1, !.saved = <<>>, !.savedLen = 0, !.savedCursor = 0]
\* Mutant: the cursor stays where it was.
reset_line_keep_cursor(e) == [e EXCEPT !.buf[0] = END, !.len = 0, !.rendered = 0]
reset_line(e) == [e EXCEPT !.buf[0] = END, !.len = 0, !.cursor = 0, !.rendered = 0]
load_line(e, s) == [e EXCEPT !.buf = copy_line(@, s), !.len = Len(s), !.cursor = Len(s)]

\* history_push: what it does for a line.
history_push(e, s) == IF ~line_has_non_space(s) \/ (e.count > 0 /\ e.hist[e.count] = s) THEN <<>>
                      ELSE IF e.count < HISTORY_MAX THEN <<"store", "count">> ELSE <<"shift">>
shift(h, s) == Append(SubSeq(h, 2, HISTORY_MAX), s)

lower(n, bound) == IF n < bound THEN n ELSE bound
history_apply_current(e) ==
    IF e.nav >= 0 THEN load_line(e, e.hist[e.nav + 1])
    ELSE [e EXCEPT !.buf = copy_line(@, e.saved), !.len = lower(e.savedLen, LINE_MAX - 1),
                   !.cursor = lower(e.savedCursor, lower(e.savedLen, LINE_MAX - 1))]

history_up(e) == IF e.nav >= 0 THEN [e EXCEPT !.nav = IF @ > 0 THEN @ - 1 ELSE @]
                 ELSE [e EXCEPT !.saved = text(e.buf), !.savedLen = e.len, !.savedCursor = e.cursor,
                                !.nav = e.count - 1]
history_down(e) == [e EXCEPT !.nav = IF @ + 1 < e.count THEN @ + 1 ELSE -1]

(***************************************************************************)
(* One key.                                                                *)
(***************************************************************************)
\* The tests on the key and on the line, and the pieces of what is to be done.
start(e, k) ==
    CASE k = "NL" -> <<"submit", "push", "cancel", "offer", "reset", "prompt">>
      [] k = "UP" /\ e.count > 0 -> <<"up", "apply", "render">>
      [] k = "DOWN" /\ e.nav >= 0 -> <<"down", "apply", "render">>
      [] k = "LEFT" /\ e.cursor > 0 -> <<"left", "render">>
      [] k = "RIGHT" /\ e.cursor < e.len -> <<"right", "render">>
      [] k = "HOME" /\ e.cursor # 0 -> <<"home", "render">>
      [] k = "END" /\ e.cursor # e.len -> <<"end", "render">>
      [] k = "BS" /\ e.cursor > 0 /\ e.len > 0 -> <<"drop", "shorten", "left", "render">>
      [] k = "DELETE" /\ e.cursor < e.len -> <<"drop", "shorten", "render">>
      [] (is_printable(k) \/ k = "TAB") /\ more(e.len) < LINE_MAX -> <<"cancel", "place">>
      [] OTHER -> <<>>                             \* CR, keys that do not print, nothing to do

\* What a piece that decides puts in its own place.
decided(x, s, k) ==
    CASE x = "start" -> start(s.ed, k)
      [] x = "push" -> history_push(s.ed, text(s.ed.buf))
      [] x = "offer" -> IF s.pend.on THEN <<"refuse">> ELSE <<"copy", "flag">>
      [] x = "place" -> IF s.ed.cursor = s.ed.len THEN <<"append", "terminate", "end", "echo", "rendered">>
                        ELSE <<"open", "write", "longer", "right", "terminate", "render">>
      [] OTHER -> <<>>

dropped(e, from) == [cancel_nav(e) EXCEPT !.buf = [i \in Cells |-> IF from <= i /\ i < e.len THEN @[i + 1] ELSE @[i]]]
opened(e) == [e EXCEPT !.buf = [i \in Cells |-> IF e.cursor < i /\ i <= e.len THEN @[i - 1] ELSE @[i]]]
glyph(k) == IF k = "TAB" THEN " " ELSE k

\* What a piece does to the line and to the row.
edited(x, e, k) ==
    CASE x = "up" -> history_up(e)
      [] x = "down" -> history_down(e)
      [] x = "apply" -> history_apply_current(e)
      [] x = "render" -> render_line(e)
      [] x = "left" -> [e EXCEPT !.cursor = less(@)]
      [] x = "right" -> [e EXCEPT !.cursor = more(@)]
      [] x = "home" -> [e EXCEPT !.cursor = 0]
      [] x = "end" -> [e EXCEPT !.cursor = e.len]
      [] x = "drop" -> dropped(e, IF k = "BS" THEN less(e.cursor) ELSE e.cursor)
      [] x = "shorten" -> [e EXCEPT !.len = less(@)]
      [] x = "longer" -> [e EXCEPT !.len = more(@)]
      [] x = "append" -> [e EXCEPT !.buf[e.len] = glyph(k), !.len = more(@)]
      [] x = "open" -> opened(e)
      [] x = "write" -> [e EXCEPT !.buf[e.cursor] = glyph(k)]
      [] x = "echo" -> put(e, glyph(k))
      [] x = "rendered" -> [e EXCEPT !.rendered = e.len]
      [] x = "terminate" -> [e EXCEPT !.buf[e.len] = END]
      [] x = "submit" -> [put(e, "NL") EXCEPT !.buf[e.len] = END]
      [] x = "store" -> [e EXCEPT !.hist[e.count + 1] = text(e.buf)]
      [] x = "count" -> [e EXCEPT !.count = @ + 1]
      [] x = "shift" -> [e EXCEPT !.hist = shift(@, text(e.buf))]
      [] x = "cancel" -> cancel_nav(e)
      [] x = "refuse" -> put(put(e, "busy"), "NL")
      [] x = "reset" -> cancel_nav(reset_line(e))
      [] x = "prompt" -> put(e, PROMPT)
      [] OTHER -> e

\* A piece that reads or writes outside the line or outside the history.
leaves(x, e) ==
    \/ x \in {"append", "open", "terminate", "submit"} /\ e.len >= LINE_MAX
    \/ x = "drop" /\ e.len >= LINE_MAX
    \/ x = "write" /\ e.cursor >= LINE_MAX
    \/ x = "render" /\ (e.len > LINE_MAX \/ e.cursor > LINE_MAX)
    \/ x \in {"push", "store", "shift", "up"} /\ Len(text(e.buf)) = LINE_MAX
    \/ x \in {"push", "store", "up"} /\ e.count > HISTORY_MAX
    \/ x = "store" /\ e.count >= HISTORY_MAX
    \/ x = "apply" /\ e.nav >= HISTORY_MAX

\* The editor with the buffer, the pieces left, how much of a line is put into
\* the buffer, and the histories.  amid: what the tick is doing with the buffer.
\* The line goes into the buffer key by key, "copy" being one key.
piece(s, k, amid) ==
    LET x == Head(s.todo)
        key == IF s.filled + 1 < LINE_MAX THEN s.ed.buf[s.filled] ELSE END
        more_keys == x = "copy" /\ key # END
        after_x == [s EXCEPT
            !.todo = IF more_keys THEN @ ELSE decided(x, s, k) \o Tail(@),
            !.filled = IF more_keys THEN @ + 1 ELSE 0,
            !.ed = edited(x, @, k),
            !.pend = CASE x = "copy" -> [@ EXCEPT !.line[s.filled] = key]
                       [] x = "flag" -> [@ EXCEPT !.on = TRUE]
                       [] OTHER -> @,
            !.submitted = IF x = "push" THEN Append(@, text(s.ed.buf)) ELSE @,
            !.accepted = IF x = "flag" THEN Append(@, [line |-> text(s.pend.line), amid |-> amid]) ELSE @]
    IN  IF leaves(x, s.ed) THEN [s EXCEPT !.ed.wild = TRUE, !.todo = <<>>] ELSE after_x

RECURSIVE handle_rest(_, _, _)
handle_rest(s, k, amid) == IF s.todo = <<>> THEN s ELSE handle_rest(piece(s, k, amid), k, amid)
handle_char(s, k, amid) == IF s.ed.wild THEN s ELSE handle_rest([s EXCEPT !.todo = <<"start">>], k, amid)

RECURSIVE handle_all(_, _, _)
handle_all(s, keys, amid) == IF keys = <<>> THEN s
                             ELSE handle_all(handle_char(s, Head(keys), amid), Tail(keys), amid)

Editor(todo, filled) == [ed |-> ed, pend |-> pend, todo |-> todo, filled |-> filled, submitted |-> submitted, accepted |-> accepted]
Becomes(s) == ed' = s.ed /\ pend' = s.pend /\ submitted' = s.submitted /\ accepted' = s.accepted

(***************************************************************************)
(* Actions.                                                                *)
(***************************************************************************)
NoMove == [on |-> FALSE, src |-> <<>>, dst |-> <<>>, bytes |-> <<>>]
Idle == [line |-> <<>>, mixed |-> FALSE, then |-> "", path |-> <<>>, ok |-> FALSE, name |-> ""]
NoKey == [key |-> "", todo |-> <<>>, filled |-> 0]

Init == /\ ed = [buf |-> EmptyLine, len |-> 0, cursor |-> 0, rendered |-> 0,
                 hist |-> [k \in 1 .. HISTORY_MAX |-> <<>>], count |-> 0, nav |-> -1,
                 saved |-> <<>>, savedLen |-> 0, savedCursor |-> 0, row |-> <<PROMPT>>, col |-> 1, wild |-> FALSE]
        /\ pend = [on |-> FALSE, line |-> EmptyLine]
        /\ hand = NoKey
        /\ queue = <<>> /\ pc = "idle" /\ left = 0 /\ cmd = Idle
        /\ cwd = <<>> /\ tree = InitTree
        /\ stat = [total |-> 0, ok |-> 0, fail |-> 0, unknown |-> 0]
        /\ bursts = 0 /\ submitted = <<>> /\ accepted = <<>> /\ torn = FALSE /\ ran = <<>> /\ mv = NoMove

\* What the tick is doing with the buffer: it has copied a part of it, or is at
\* another step between taking the flag and clearing the buffer, or is about to
\* put in a line of its own after it found the flag free.
AtWork == CASE pc = "taken" /\ cmd.line # <<>> -> "copying"
            [] pc \notin {"idle", "draining"} -> "executing"
            [] hand.todo # <<>> /\ Head(hand.todo) \in {"copy", "flag"} -> "filling"
            [] OTHER -> ""
Begun == hand.todo \notin {<<>>, <<"start">>}

\* The keyboard interrupt, once per key: the key is queued and, while no
\* program runs, the oldest queued key goes to the editor.
KeyBurst(b) ==
    /\ pc # "halted"
    /\ bursts' = bursts + 1
    /\ LET all == queue \o b
           n == IF pc = "program" THEN 0 ELSE Len(b)
       IN  /\ Becomes(handle_all(Editor(<<>>, 0), SubSeq(all, 1, n), AtWork))
           /\ queue' = SubSeq(all, n + 1, Len(all))
    /\ torn' = (torn \/ (Begun /\ <<ed', pend'>> # <<ed, pend>>))
    /\ cmd' = [cmd EXCEPT !.mixed = @ \/ (AtWork = "copying" /\ pend' # pend)]
    /\ UNCHANGED <<hand, pc, left, cwd, tree, stat, ran, mv>>

\* clks_shell_tick begins.
TickBegin ==
    /\ pc = "idle" /\ (queue # <<>> \/ pend.on)
    /\ pc' = "draining" /\ left' = INPUT_BUDGET
    /\ UNCHANGED <<ed, pend, hand, queue, cmd, cwd, tree, stat, bursts, submitted, accepted, torn, ran, mv>>

\* Mutant: the budget is compared with the limit the wrong way round.
budget_left_none(n) == n > INPUT_BUDGET
budget_left(n) == n > 0

\* clks_shell_drain_input, once round its loop: the oldest key is taken ...
DrainKey ==
    /\ pc = "draining" /\ hand.todo = <<>> /\ budget_left(left) /\ queue # <<>>
    /\ hand' = [NoKey EXCEPT !.key = Head(queue), !.todo = <<"start">>]
    /\ queue' = Tail(queue) /\ left' = left - 1
    /\ UNCHANGED <<ed, pend, pc, cmd, cwd, tree, stat, bursts, submitted, accepted, torn, ran, mv>>

\* ... and handled, piece by piece.
KeyPiece ==
    /\ hand.todo # <<>>
    /\ \E s \in {piece(Editor(hand.todo, hand.filled), hand.key, "")} :
          /\ Becomes(s)
          /\ hand' = IF s.todo = <<>> THEN NoKey ELSE [hand EXCEPT !.todo = s.todo, !.filled = s.filled]
    /\ UNCHANGED <<queue, pc, left, cmd, cwd, tree, stat, bursts, torn, ran, mv>>

\* clks_shell_process_pending_command: the flag is cleared first ...
TakePending ==
    /\ pc = "draining" /\ hand.todo = <<>> /\ (queue = <<>> \/ ~budget_left(left))
    /\ pend' = [pend EXCEPT !.on = FALSE]
    /\ pc' = IF pend.on THEN "taken" ELSE "idle"
    /\ left' = 0
    /\ UNCHANGED <<ed, hand, queue, cmd, cwd, tree, stat, bursts, submitted, accepted, torn, ran, mv>>

\* ... then clks_shell_execute_line copies the buffer, key by key ...
Copied == Len(cmd.line)
MoreToCopy == Copied + 1 < LINE_MAX /\ pend.line[Copied] # END

CopyKey ==
    /\ pc = "taken" /\ MoreToCopy
    /\ cmd' = [cmd EXCEPT !.line = Append(@, pend.line[Copied])]
    /\ UNCHANGED <<ed, pend, hand, queue, pc, left, cwd, tree, stat, bursts, submitted, accepted, torn, ran, mv>>

\* ... and trims the copy.
TrimLine ==
    /\ pc = "taken" /\ ~MoreToCopy
    /\ cmd' = [cmd EXCEPT !.line = trim(@)]
    /\ pc' = IF trim(cmd.line) = <<>> THEN "ran" ELSE "copied"
    /\ UNCHANGED <<ed, pend, hand, queue, left, cwd, tree, stat, bursts, submitted, accepted, torn, ran, mv>>

Counted(ok, name) == [total |-> stat.total + 1,
                      ok |-> IF ok THEN stat.ok + 1 ELSE stat.ok,
                      fail |-> IF ok THEN stat.fail ELSE stat.fail + 1,
                      unknown |-> IF name \in Known THEN stat.unknown ELSE stat.unknown + 1]

Says(says) == ed' = IF says THEN put(put(ed, "output"), "NL") ELSE ed

Execute(mem) ==
    /\ pc = "copied"
    /\ \E c \in {split_line(cmd.line)} :
       \E r \in {dispatch(tree, cwd, c.cmd, c.arg, mem)}, p \in {two_paths(cwd, c.arg)}, name \in {name_of(c.cmd)} :
           /\ ran' = Append(ran, [line |-> cmd.line, mixed |-> cmd.mixed])
           /\ tree' = r.tree /\ cwd' = r.cwd
           /\ Says(r.says)
           /\ mv' = IF name = "mv" /\ is_file(tree, p.src)
                    THEN [on |-> TRUE, src |-> p.src, dst |-> p.dst, bytes |-> tree[p.src].bytes]
                    ELSE NoMove
           /\ cmd' = [cmd EXCEPT !.then = r.then, !.path = r.path, !.name = name]
           /\ pc' = CASE r.then = "" -> "ran"
                      [] r.then = "remove" -> "removing"
                      [] r.then = "program" -> "program"
                      [] r.then = "halt" -> "halted"
           /\ stat' = IF r.then = "" THEN Counted(r.ok, name) ELSE stat
    /\ UNCHANGED <<pend, hand, queue, left, bursts, submitted, accepted, torn>>

\* The second half of mv.
RemoveSource ==
    /\ pc = "removing"
    /\ LET r == fs_remove(tree, cmd.path)
       IN  /\ tree' = r.t
           /\ Says(~r.ok)
           /\ stat' = Counted(r.ok, "mv")
    /\ pc' = "ran"
    /\ UNCHANGED <<pend, hand, queue, left, cmd, cwd, bursts, submitted, accepted, torn, ran, mv>>

\* The program that exec or elfloader started comes back (ExecProcs).
ProgramReturns ==
    /\ pc = "program"
    /\ \E ok \in BOOLEAN : stat' = Counted(ok, cmd.name)
    /\ Says(TRUE)
    /\ pc' = "ran"
    /\ UNCHANGED <<pend, hand, queue, left, cmd, cwd, tree, bursts, submitted, accepted, torn, ran, mv>>

\* Mutant: the buffer keeps the line that was executed.
blanked_not(p) == p
blanked(p) == [p EXCEPT !.line[0] = END]

\* clks_shell_pending_line[0] = '\0'.
ClearPending ==
    /\ pc = "ran"
    /\ pend' = blanked(pend)
    /\ cmd' = Idle /\ pc' = "idle"
    /\ UNCHANGED <<ed, hand, queue, left, cwd, tree, stat, bursts, submitted, accepted, torn, ran, mv>>

Tick == \/ TickBegin \/ DrainKey \/ KeyPiece \/ TakePending \/ CopyKey \/ TrimLine
        \/ (\E mem \in BOOLEAN : Execute(mem)) \/ RemoveSource \/ ClearPending

\* Nothing is said of a machine whose editor has left its buffers.
Next == ~ed.wild /\ (\/ (\E b \in (IF bursts < Len(Bursts) THEN Bursts[bursts + 1] ELSE {}) : KeyBurst(b))
                     \/ Tick \/ ProgramReturns)

\* The main loop runs the tick again and again (MainLoop.tla): weak fairness
\* of Tick, with its enabling condition and its steps written out (every step
\* but those of the keyboard and of a running program).  Programs need not
\* come back.
TickReady == /\ ~ed.wild
             /\ \/ pc = "idle" /\ (queue # <<>> \/ pend.on)
                \/ pc \notin {"idle", "program", "halted"}
TickFairness == []<><<pc # "program" /\ bursts' = bursts>>_vars \/ []<>~TickReady
Spec == Init /\ [][Next]_vars /\ TickFairness

(***************************************************************************)
(* Properties.                                                             *)
(***************************************************************************)
\* resolve_path: no dot and no empty name gets into the tree or into the
\* working directory, so that a file has one name and relative paths mean
\* what they say.
NamesAreCanonical == \A p \in DOMAIN tree \cup {cwd} :
                        \A k \in DOMAIN p : p[k] \notin {".", "..", ""}

\* Every index is in its buffer: the cursor in the line (one behind it between
\* the two decrements of a removal), navigation in the history, and the draft's
\* cursor in the draft.
InRange ==
    /\ ed.len < LINE_MAX /\ ed.cursor \in 0 .. (IF hand.todo = <<>> THEN ed.len ELSE ed.len + 1)
    /\ hand.todo = <<>> => ed.buf[ed.len] = END
    /\ ed.count \in 0 .. HISTORY_MAX /\ ed.nav \in -1 .. ed.count - 1
    /\ ed.savedCursor \in 0 .. ed.savedLen

\* The types; the indices leave their buffers only after the interrupt has
\* changed the editor under a key that the tick had in hand.
KShellTypeOK ==
    /\ ~torn => (InRange /\ ~ed.wild)
    /\ ed.len \in 0 .. U64_MAX /\ ed.cursor \in 0 .. U64_MAX
    /\ pc \in {"idle", "draining", "taken", "copied", "removing", "program", "ran", "halted"}
    /\ hand.todo # <<>> => pc = "draining"
    /\ left \in 0 .. INPUT_BUDGET
    /\ stat.total = stat.ok + stat.fail /\ stat.unknown <= stat.fail
    /\ \A p \in DOMAIN tree : tree[p].dir \in BOOLEAN
    /\ NamesAreCanonical

NonBlank(s) == SelectSeq(s, line_has_non_space)

\* Every second of two equal neighbours left out.
Deduplicated(s) == LET keep[k \in 0 .. Len(s)] ==
                           IF k = 0 THEN <<>>
                           ELSE keep[k - 1] \o (IF k > 1 /\ s[k] = s[k - 1] THEN <<>> ELSE <<s[k]>>)
                   IN  keep[Len(s)]

\* history_push: the history is the last HISTORY_MAX lines submitted, blank
\* lines and repetitions of the line before left out, refused lines included.
HistoryFaithful ==
    LET lines == Deduplicated(NonBlank(submitted))
        n == Len(lines)
    IN  SubSeq(ed.hist, 1, ed.count) = SubSeq(lines, IF n > HISTORY_MAX THEN n - HISTORY_MAX + 1 ELSE 1, n)

TheLine == text(ed.buf)

\* history_up, history_down: while the user walks through the history the
\* line is the entry walked to, so that editing or going on starts from it.
LineWhileBrowsing == ed.nav >= 0 => TheLine = ed.hist[ed.nav + 1]

StripBlanks(s) == LET kept == {k \in 0 .. Len(s) : \A j \in k + 1 .. Len(s) : s[j] = " "}
                  IN  SubSeq(s, 1, CHOOSE k \in kept : \A j \in kept : k <= j)

\* render_line: as long as the row begins with the prompt, what it shows is
\* the line that a newline would submit, with the cursor where keys go.
ShownIsLine == (ed.row # <<>> /\ ed.row[1] = PROMPT) =>
                  /\ StripBlanks(ed.row) = StripBlanks(<<PROMPT>> \o TheLine)
                  /\ ed.col = ed.cursor + 1

IsSubsequence(s, t) ==
    LET reach[k \in 0 .. Len(t)] ==      \* how much of s is found in the first k of t
            IF k = 0 THEN 0
            ELSE LET r == reach[k - 1] IN IF r < Len(s) /\ s[r + 1] = t[k] THEN r + 1 ELSE r
    IN  reach[Len(t)] = Len(s)

\* process_pending_command, execute_line: what is executed are lines that were
\* accepted, whole, in their order, and none of them twice; but a line that is
\* entered while the one before it is being copied may leave the tick with the
\* beginning of the one and the end of the other.
Mixture(s) == \E j, k \in DOMAIN accepted :
                 /\ j < k /\ accepted[k].amid = "copying"
                 /\ \E n \in 0 .. Len(accepted[j].line) :
                       s = trim(first_n(accepted[j].line, n) \o after(accepted[k].line, n))

LinesOf(s) == [k \in DOMAIN s |-> s[k].line]
CommandsRunAsTyped ==
    /\ IsSubsequence(LinesOf(SelectSeq(ran, LAMBDA r : ~r.mixed)), [k \in DOMAIN accepted |-> trim(accepted[k].line)])
    /\ \A k \in DOMAIN ran : ran[k].mixed => Mixture(ran[k].line)

\* process_pending_command: a line is lost only to one entered while the tick
\* was doing something with the buffer: executing a command (the flag is free
\* then, but the buffer is cleared once the command is done), or putting in a
\* line of its own after it has found the flag free.  Each such line costs at
\* most one; one that comes while the line before it is being copied can cost
\* both, for what is left of them may be blank.
LostOnlyWhileBusy ==
    (pc = "idle" /\ ~pend.on) =>
        LET typed == SelectSeq(accepted, LAMBDA a : line_has_non_space(a.line))
        IN  Len(ran) >= Len(typed) - Quantify(DOMAIN accepted, LAMBDA k : accepted[k].amid # "")
                                  - Quantify(DOMAIN accepted, LAMBDA k : accepted[k].amid = "copying")

\* cmd_mv: whether mv succeeds or fails, what the source held is still there,
\* under one of the two names.  (mv of a file onto itself removes it.)
MoveLosesNothing ==
    (mv.on /\ mv.src # mv.dst) =>
        \E p \in {mv.src, mv.dst} : is_file(tree, p) /\ tree[p].bytes = mv.bytes

\* clks_shell_tick: what was typed does not stay in the queue or in the
\* buffer, unless a program or the panic screen has the machine, or the
\* editor has left its buffers.
Responsive == (queue # <<>> \/ pend.on)
                ~> ((queue = <<>> /\ ~pend.on) \/ pc \in {"program", "halted"} \/ ed.wild)


\* A line that was entered runs once, whole and in its turn, or it met another
\* while the tick was at work on the buffer.
LinesRunOnce == CommandsRunAsTyped /\ LostOnlyWhileBusy

=============================================================================
