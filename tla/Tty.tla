--------------------------------- MODULE Tty ---------------------------------
(* The terminals of clks/kernel/tty.c and what the framebuffer shows of them.
   The record t holds the file's static variables; the operators below are its
   functions, each from a record to a record.  A cell is a tuple
   <<character, foreground, background, style>>, a byte is a number.
   A write (clks_tty_write_n) and the cursor's blinking are sequences of steps,
   because the keyboard interrupt (keyboard.c) may come anywhere in those of the
   kernel's main loop: it switches terminals, pages through the scrollback, and
   writes itself (the echo of the kernel shell, the log of a hot key), with a
   nested write that ends before the interrupted one goes on.  It may come
   between two steps or within one.  Within one, what the step and the interrupt
   draw is mixed on the screen, which torn records; the terminals themselves are
   then as if the interrupt had come before the step or after it.  For a switch
   and for paging, which change no text and no cursor, that is exact; for a
   nested write it leaves out that the two may mix within a single character. *)
EXTENDS Integers, Sequences, FiniteSets

CONSTANTS TTY_COUNT,          \* CLKS_TTY_COUNT
          TTY_ROWS, TTY_COLS, \* rows and columns of the framebuffer
          SCROLLBACK_LINES,   \* CLKS_TTY_SCROLLBACK_LINES
          ANSI_MAX_LEN,       \* CLKS_TTY_ANSI_MAX_LEN
          U32,                \* 2^32, or a smaller modulus for u32 arithmetic
          Texts,              \* what callers write: sequences of bytes
          Echoes,             \* what the keyboard interrupt writes, of those
          MAX_CALLS           \* bound on the calls of a behaviour

ASSUME TtyAssumption ==
  /\ TTY_COUNT \in Nat \ {0} /\ TTY_ROWS \in Nat \ {0} /\ TTY_COLS \in Nat \ {0}
  /\ SCROLLBACK_LINES \in Nat \ {0} /\ ANSI_MAX_LEN \in Nat \ {0}
  /\ U32 \in Nat /\ U32 > TTY_ROWS /\ U32 > TTY_COLS
\* A text is a sequence of unsigned bytes.
ASSUME TextsAssumption == Texts \subseteq Seq(0 .. 255) /\ Echoes \subseteq Texts /\ MAX_CALLS \in Nat

VARIABLES t,     \* the terminals and the screen
          w,     \* the write (or the blinking) under way
          held,  \* the one it has interrupted
          cut,   \* an interrupt has come within the current step of the main loop
          calls  \* calls made so far

vars == <<t, w, held, cut, calls>>

DESKTOP_INDEX == 1
FG == 15132390
BG == 1052688
SPACE == 32
ESC == 27
Blank == <<SPACE, FG, BG, {}>>

Ttys == 0 .. TTY_COUNT - 1
Cols == 0 .. TTY_COLS - 1
content_rows == IF TTY_ROWS > 1 THEN TTY_ROWS - 1 ELSE TTY_ROWS
Rows == 0 .. content_rows - 1
status_bar_enabled == TTY_ROWS > 1
BlankRow == [c \in Cols |-> Blank]
Least(a, b) == IF a < b THEN a ELSE b

-----------------------------------------------------------------------------
(* Scrollback: a ring of rows per terminal. *)

\* Mutant: the ring is read from slot 0 even when it has wrapped.
logical_to_physical_flat(y, i) == i
logical_to_physical(y, i) ==
  IF y.count < SCROLLBACK_LINES THEN i ELSE (y.head + i) % SCROLLBACK_LINES

clamped_offset(y) == Least(y.off, y.count)

scrollback_push_row(y, row) ==
  [y EXCEPT !.ring[y.head] = y.cells[row],
            !.head = (y.head + 1) % SCROLLBACK_LINES,
            !.count = Least(y.count + 1, SCROLLBACK_LINES)]

drop_scrollback(y) == [y EXCEPT !.head = 0, !.count = 0, !.off = 0]

\* The rows of the scrollback, oldest first.
History(y) == [k \in 1 .. y.count |-> y.ring[logical_to_physical(y, k - 1)]]

(* What a terminal ought to show in row r: redraw_active's choice of source. *)
view_row(y, r) ==
  LET doc == y.count - clamped_offset(y) + r
  IN  IF doc < y.count THEN y.ring[logical_to_physical(y, doc)] ELSE y.cells[doc - y.count]

-----------------------------------------------------------------------------
(* The screen, the cursor and the status bar. *)

Active(s) == s.tty[s.active]
Inverted(cell) == <<cell[1], cell[3], cell[2], cell[4]>>
NoBar == <<>>

\* The status line's numbers; the words around them and the run mode (which
\* exec.c decides at drawing time) are left out.
status_line(s) == <<s.active, Least(Active(s).row + 1, content_rows), Active(s).col + 1, clamped_offset(Active(s))>>

draw_status_bar(s) ==
  IF ~status_bar_enabled \/ s.active = DESKTOP_INDEX THEN s ELSE [s EXCEPT !.bar = status_line(s)]

draw_cell(s, i, r, c) == [s EXCEPT !.screen[r][c] = s.tty[i].cells[r][c]]

\* A cursor drawn while bytes are being written (by a redraw, by the sequence that
\* shows it, by a nested write) is not taken off the screen when the write moves
\* on: torn records it.  busy tells that bytes are being written.
draw_cursor(s) ==
  IF s.active = DESKTOP_INDEX \/ Active(s).off > 0
  THEN [s EXCEPT !.visible = FALSE]
  ELSE LET r == Active(s).row
           c == Active(s).col
       IN  [s EXCEPT !.screen[r][c] = Inverted(Active(s).cells[r][c]), !.visible = TRUE,
                     !.torn = IF s.busy THEN @ \cup {"cursor"} ELSE @]

hide_cursor(s) ==
  IF ~s.visible THEN s
  ELSE IF Active(s).off > 0 THEN [s EXCEPT !.visible = FALSE]
  ELSE [draw_cell(s, s.active, Active(s).row, Active(s).col) EXCEPT !.visible = FALSE]

\* fb_clear wipes the bar's row too.
redraw_active(s) ==
  LET y == [Active(s) EXCEPT !.off = clamped_offset(Active(s))]
      d == [s EXCEPT !.tty[s.active] = y,
                     !.screen = [r \in Rows |-> view_row(y, r)],
                     !.bar = NoBar, !.visible = FALSE, !.dirty = {}, !.torn = {}]
  IN  draw_status_bar(IF y.off = 0 THEN draw_cursor(d) ELSE d)

\* Mutant: nothing is marked, as if draws were never deferred.
dirty_mark_row_not(s, r) == s
dirty_mark_row(s, r) == [s EXCEPT !.dirty = @ \cup {r}]

\* The framebuffer moves up by one row at once, the rows marked dirty do not:
\* a row written in this call and not yet drawn is lost from the screen, which
\* torn records.
fb_scroll_up(s) ==
  [s EXCEPT !.screen = [r \in Rows |-> IF r + 1 < content_rows THEN s.screen[r + 1] ELSE BlankRow],
            !.bar = NoBar,
            !.torn = IF s.dirty = {} THEN @ ELSE @ \cup {"text"}]

\* What has changed in a row is marked; but a nested write leaves defer_draw
\* cleared, and the rest of the interrupted one draws its cells at once: over the
\* scrollback if that is what the terminal shows, which torn records.
draw_changed(s, i, r, changed) ==
  IF s.defer_draw THEN dirty_mark_row(s, r)
  ELSE [s EXCEPT !.screen[r] = [c \in Cols |-> IF c \in changed THEN s.tty[i].cells[r][c] ELSE @[c]],
                 !.torn = IF s.tty[i].off > 0 THEN @ \cup {"text"} ELSE @]

shift_rows(y) == [r \in Rows |-> IF r + 1 < content_rows THEN y.cells[r + 1] ELSE BlankRow]

scroll_up(s, i) ==
  LET d == [s EXCEPT !.tty[i] = [scrollback_push_row(@, 0) EXCEPT !.cells = shift_rows(s.tty[i])]]
  IN  IF i # s.active THEN d
      ELSE IF d.tty[i].off > 0 THEN redraw_active(d)
      ELSE draw_changed(fb_scroll_up(d), i, content_rows - 1, Cols)

-----------------------------------------------------------------------------
(* Characters. *)

put_visible(s, i, r, c, ch) ==
  LET y == s.tty[i]
      style == (IF y.bold THEN {"bold"} ELSE {}) \cup (IF y.underline THEN {"underline"} ELSE {})
      cell == IF y.inverse THEN <<ch, y.bg, y.fg, style>> ELSE <<ch, y.fg, y.bg, style>>
      d == [s EXCEPT !.tty[i].cells[r][c] = cell]
  IN  IF i = s.active THEN draw_changed(d, i, r, {c}) ELSE d

next_line(s, i) ==
  LET d == [s EXCEPT !.tty[i].col = 0]
  IN  IF s.tty[i].row + 1 < content_rows
      THEN [d EXCEPT !.tty[i].row = @ + 1]
      ELSE [scroll_up(d, i) EXCEPT !.tty[i].row = content_rows - 1]

put_glyph(s, i, ch) ==
  LET y == s.tty[i]
      d == put_visible(s, i, y.row, y.col, ch)
  IN  IF y.col + 1 < TTY_COLS THEN [d EXCEPT !.tty[i].col = @ + 1] ELSE next_line(d, i)

backspace(s, i) ==
  LET y == s.tty[i]
      r == IF y.col = 0 THEN y.row - 1 ELSE y.row
      c == IF y.col = 0 THEN TTY_COLS - 1 ELSE y.col - 1
  IN  IF y.col = 0 /\ y.row = 0 THEN s
      ELSE [put_visible(s, i, r, c, SPACE) EXCEPT !.tty[i].row = r, !.tty[i].col = c]

put_char_raw(s, i, ch) ==
  CASE ch = 13 -> [s EXCEPT !.tty[i].col = 0]
    [] ch = 10 -> next_line(s, i)
    [] ch = 8  -> backspace(s, i)
    [] ch = 9  -> LET sp[k \in 0 .. 4] == IF k = 0 THEN s ELSE put_glyph(sp[k - 1], i, SPACE) IN sp[4]
    [] OTHER   -> put_glyph(s, i, ch)

-----------------------------------------------------------------------------
(* ANSI sequences. *)

Digits == 48 .. 57

\* Parameters as u32 numbers, sixteen at most; a missing one is 0, other
\* characters ('?') are skipped.
parse_params(ps) ==
  LET Step(a, ch) ==
        IF ch \in Digits THEN [a EXCEPT !.value = (@ * 10 + ch - 48) % U32]
        ELSE IF ch = 59 THEN [value |-> 0, out |-> IF Len(a.out) < 16 THEN Append(a.out, a.value) ELSE a.out]
        ELSE a
      run[k \in 0 .. Len(ps) + 1] ==
        IF k = 0 THEN [value |-> 0, out |-> <<>>]
        ELSE Step(run[k - 1], IF k <= Len(ps) THEN ps[k] ELSE 59)
  IN  run[Len(ps) + 1].out

param_or_default(values, i, default) ==
  IF i > Len(values) THEN default ELSE IF values[i] = 0 THEN default ELSE values[i]

clear_cells(y, Erased(_, _)) == [r \in Rows |-> [c \in Cols |-> IF Erased(r, c) THEN Blank ELSE y.cells[r][c]]]

clear_line_mode(s, i, mode) ==
  LET y == s.tty[i]
      Erased(r, c) == r = y.row /\ (mode = 0 => c >= y.col) /\ (mode = 1 => c <= y.col)
      d == [s EXCEPT !.tty[i].cells = clear_cells(y, Erased)]
  IN  IF i = s.active THEN draw_changed(d, i, y.row, {c \in Cols : Erased(y.row, c)}) ELSE d

clear_screen_mode(s, i, mode) ==
  LET y == s.tty[i]
      Before(r, c) == r < y.row \/ (r = y.row /\ c <= y.col)
      After(r, c)  == r > y.row \/ (r = y.row /\ c >= y.col)
      Erased(r, c) == (mode = 0 => After(r, c)) /\ (mode = 1 => Before(r, c))
      cleared == [y EXCEPT !.cells = clear_cells(y, Erased)]
      d == [s EXCEPT !.tty[i] = IF mode = 3 THEN drop_scrollback(cleared) ELSE cleared]
  IN  IF i = s.active THEN redraw_active(d) ELSE d

palette == <<0, 13447473, 900217, 15066384, 2388680, 12337084, 1157325, 15066597,
             6710886, 15813708, 2347403, 16119107, 3902186, 14053590, 2734555, 16777215>>
ansi_palette(i) == palette[i + 1]
color_from_256(i) ==
  LET steps == <<0, 95, 135, 175, 215, 255>>
      n == i - 16
      gray == 8 + (i - 232) * 10
      rgb(r, g, b) == r * 65536 + g * 256 + b
  IN  IF i < 16 THEN ansi_palette(i)
      ELSE IF i <= 231 THEN rgb(steps[(n \div 36) + 1], steps[((n \div 6) % 6) + 1], steps[(n % 6) + 1])
      ELSE IF i <= 255 THEN rgb(gray, gray, gray)
      ELSE FG

reset_color_state(y) == [y EXCEPT !.fg = FG, !.bg = BG, !.bold = FALSE, !.underline = FALSE, !.inverse = FALSE]

\* One SGR code that takes no parameter of its own.
sgr_code(y, code) ==
  CASE code = 0          -> reset_color_state(y)
    [] code = 1          -> [y EXCEPT !.bold = TRUE]
    [] code = 4          -> [y EXCEPT !.underline = TRUE]
    [] code = 7          -> [y EXCEPT !.inverse = TRUE]
    [] code \in {21, 22} -> [y EXCEPT !.bold = FALSE]
    [] code = 24         -> [y EXCEPT !.underline = FALSE]
    [] code = 27         -> [y EXCEPT !.inverse = FALSE]
    [] code = 39         -> [y EXCEPT !.fg = FG]
    [] code = 49         -> [y EXCEPT !.bg = BG]
    [] code \in 30 .. 37   -> [y EXCEPT !.fg = ansi_palette(code - 30 + (IF y.bold THEN 8 ELSE 0))]
    [] code \in 90 .. 97   -> [y EXCEPT !.fg = ansi_palette(code - 82)]
    [] code \in 40 .. 47   -> [y EXCEPT !.bg = ansi_palette(code - 40)]
    [] code \in 100 .. 107 -> [y EXCEPT !.bg = ansi_palette(code - 92)]
    [] OTHER -> y

\* Codes 38 and 48 take the next two or four values, when they are there.
apply_sgr_params(y, values) ==
  LET n == Len(values)
      clamp(v) == Least(v, 255)
      Long(k) == values[k] \in {38, 48} /\ k + 1 <= n
      Used(k) == IF Long(k) /\ values[k + 1] = 5 /\ k + 2 <= n THEN 3
                 ELSE IF Long(k) /\ values[k + 1] = 2 /\ k + 4 <= n THEN 5 ELSE 1
      Colour(k) == IF Used(k) = 3 THEN color_from_256(values[k + 2])
                   ELSE clamp(values[k + 2]) * 65536 + clamp(values[k + 3]) * 256 + clamp(values[k + 4])
      One(a) == IF Used(a.i) = 1 THEN sgr_code(a.y, values[a.i])
                ELSE IF values[a.i] = 38 THEN [a.y EXCEPT !.fg = Colour(a.i)]
                ELSE [a.y EXCEPT !.bg = Colour(a.i)]
      run[k \in 0 .. n] ==
        IF k = 0 THEN [y |-> y, i |-> 1]
        ELSE IF run[k - 1].i > n THEN run[k - 1]
        ELSE [y |-> One(run[k - 1]), i |-> run[k - 1].i + Used(run[k - 1].i)]
  IN  run[n].y

\* Cursor motion: towards 0 it stops there; away from it the sum is taken in
\* u32 before it is compared with the last row or column.
back_by(pos, n) == IF n > pos THEN 0 ELSE pos - n
\* Mutant: the sum is not limited to the last row or column.
forward_by_unlimited(pos, n, last) == (pos + n) % U32
forward_by(pos, n, last) == Least((pos + n) % U32, last)
at_most(pos, last) == Least(pos, last)

restore_cursor(y) ==
  [y EXCEPT !.row = at_most(y.saved_row, content_rows - 1), !.col = at_most(y.saved_col, TTY_COLS - 1)]
save_cursor(y) == [y EXCEPT !.saved_row = y.row, !.saved_col = y.col]

\* The final characters that only move the cursor.
move_cursor(y, values, final) ==
  LET n == param_or_default(values, 1, 1)
      m == param_or_default(values, 2, 1)
      lastRow == content_rows - 1
      lastCol == TTY_COLS - 1
  IN  CASE final \in {72, 102} -> [y EXCEPT !.row = at_most(n - 1, lastRow), !.col = at_most(m - 1, lastCol)]
        [] final = 65  -> [y EXCEPT !.row = back_by(@, n)]
        [] final = 66  -> [y EXCEPT !.row = forward_by(@, n, lastRow)]
        [] final = 67  -> [y EXCEPT !.col = forward_by(@, n, lastCol)]
        [] final = 68  -> [y EXCEPT !.col = back_by(@, n)]
        [] final = 69  -> [y EXCEPT !.row = forward_by(@, n, lastRow), !.col = 0]
        [] final = 70  -> [y EXCEPT !.row = back_by(@, n), !.col = 0]
        [] final = 71  -> [y EXCEPT !.col = at_most(n - 1, lastCol)]
        [] final = 100 -> [y EXCEPT !.row = at_most(n - 1, lastRow)]
        [] final = 115 -> save_cursor(y)
        [] final = 117 -> restore_cursor(y)
        [] OTHER -> y

show_cursor(s, i) ==
  LET d == [s EXCEPT !.blink = TRUE]
  IN  IF i = s.active THEN draw_cursor(d) ELSE d
mute_cursor(s, i) ==
  LET d == [s EXCEPT !.blink = FALSE]
  IN  IF i = s.active THEN hide_cursor(d) ELSE d

process_csi_final(s, i, params, final) ==
  LET values == parse_params(params)
      private == params # <<>> /\ Head(params) = 63
  IN  CASE final = 109 -> [s EXCEPT !.tty[i] = apply_sgr_params(@, values)]
        [] final = 74  -> clear_screen_mode(s, i, values[1])
        [] final = 75  -> clear_line_mode(s, i, values[1])
        [] final = 104 /\ private /\ values[1] = 25 -> show_cursor(s, i)
        [] final = 108 /\ private /\ values[1] = 25 -> mute_cursor(s, i)
        [] OTHER -> [s EXCEPT !.tty[i] = move_cursor(@, values, final)]

reset_ansi_state(y) == [y EXCEPT !.esc = "text", !.params = <<>>]

\* One byte of a write: text, or a step of the escape parser.  A parameter
\* string that is too long ends the sequence, and its rest is printed.
process_byte(s, i, ch) ==
  LET y == s.tty[i]
  IN  CASE y.esc = "text" /\ ch # ESC -> put_char_raw(s, i, ch)
        [] y.esc = "text" /\ ch = ESC -> [s EXCEPT !.tty[i].esc = "escape", !.tty[i].params = <<>>]
        [] y.esc = "escape" ->
             [s EXCEPT !.tty[i] = CASE ch = 91 -> [y EXCEPT !.esc = "csi"]
                                    [] ch = 55 -> reset_ansi_state(save_cursor(y))
                                    [] ch = 56 -> reset_ansi_state(restore_cursor(y))
                                    [] OTHER   -> reset_ansi_state(y)]
        [] y.esc = "csi" /\ ch \in Digits \cup {59, 63} ->
             IF Len(y.params) < ANSI_MAX_LEN THEN [s EXCEPT !.tty[i].params = Append(@, ch)]
             ELSE [s EXCEPT !.tty[i] = reset_ansi_state(y)]
        [] OTHER ->
             LET d == process_csi_final(s, i, y.params, ch)
             IN  [d EXCEPT !.tty[i] = reset_ansi_state(@)]

-----------------------------------------------------------------------------
(* The calls. *)

NoWrite == [pc |-> "idle"]
Idle == w.pc = "idle"

NewTty ==
  [cells |-> [r \in Rows |-> BlankRow], row |-> 0, col |-> 0, fg |-> FG, bg |-> BG,
   bold |-> FALSE, underline |-> FALSE, inverse |-> FALSE, esc |-> "text", params |-> <<>>,
   saved_row |-> 0, saved_col |-> 0, head |-> 0, count |-> 0, off |-> 0,
   ring |-> [k \in 0 .. SCROLLBACK_LINES - 1 |-> BlankRow]]

tty_init ==
  redraw_active([tty |-> [i \in Ttys |-> NewTty], active |-> 0, visible |-> FALSE, blink |-> TRUE,
                 timing |-> FALSE, defer_draw |-> FALSE, busy |-> FALSE, dirty |-> {}, screen |-> [r \in Rows |-> BlankRow], bar |-> NoBar, torn |-> {}])

Init == t = tty_init /\ w = NoWrite /\ held = NoWrite /\ cut = FALSE /\ calls = 0

Call == calls < MAX_CALLS /\ calls' = calls + 1

\* The terminal of a write is the one active when it starts.
target(s) == s.active

\* A write ends scrolling back; the redraw puts a cursor on the screen again.
start_write(s) ==
  LET d == hide_cursor(s)
      y == Active(d)
      f == IF y.off > 0 THEN [redraw_active([d EXCEPT !.tty[d.active].off = 0]) EXCEPT !.torn = {"cursor"}] ELSE d
  IN  [f EXCEPT !.defer_draw = TRUE, !.busy = TRUE]

end_write(s) == [draw_status_bar(draw_cursor(s)) EXCEPT !.timing = FALSE]

Tears == {"cursor", "text", "bar"}
\* The screen after an interrupt within a step: nothing on it is certain.
Spoilt(s) == {[s EXCEPT !.torn = Tears, !.visible = seen] : seen \in BOOLEAN}

\* A step of the main loop, which an interrupt may have cut, or of a nested
\* write, which nothing interrupts.
Becomes(s) ==
  /\ IF cut THEN t' \in Spoilt(s) ELSE t' = s
  /\ cut' = (cut /\ held # NoWrite)

\* clks_tty_write_n, called with interrupts enabled.
WriteBegin(text) ==
  /\ Idle /\ Call /\ text # <<>>
  /\ w' = [pc |-> "start", text |-> text]
  /\ UNCHANGED <<t, held, cut>>

StartWrite ==
  /\ w.pc = "start"
  /\ Becomes(start_write(t))
  /\ w' = [pc |-> "bytes", tty |-> target(t), text |-> w.text]
  /\ UNCHANGED <<held, calls>>

\* Mutant: the bytes follow the active terminal.
byte_target_active(s, i) == s.active
\* The terminal the next byte goes to.
byte_target(s, i) == i

WriteByte ==
  /\ w.pc = "bytes" /\ w.text # <<>>
  /\ Becomes(process_byte(t, byte_target(t, w.tty), Head(w.text)))
  /\ w' = [w EXCEPT !.text = Tail(@)]
  /\ UNCHANGED <<held, calls>>

\* Drawing is not deferred any more; below a nested write, bytes may still be.
stop_defer(s) == [s EXCEPT !.defer_draw = FALSE, !.busy = (held.pc = "bytes")]

\* flush_dirty: a terminal that shows its scrollback is redrawn, otherwise the
\* rows marked dirty are drawn cell by cell.
FlushBegin ==
  /\ w.pc = "bytes" /\ w.text = <<>>
  /\ IF t.dirty # {} /\ Active(t).off > 0
     THEN Becomes(redraw_active(stop_defer(t))) /\ w' = [pc |-> "end"]
     ELSE Becomes(stop_defer(t)) /\ w' = [pc |-> "flush", tty |-> t.active, row |-> 0, col |-> 0]
  /\ UNCHANGED <<held, calls>>

\* The dirty mark is read at the start of a row, then its cells are drawn.
FlushCell ==
  /\ w.pc = "flush" /\ w.row < content_rows
  /\ IF w.col = 0 /\ w.row \notin t.dirty
     THEN UNCHANGED t /\ w' = [w EXCEPT !.row = @ + 1]
     ELSE /\ t' = draw_cell(t, w.tty, w.row, w.col)
          /\ w' = IF w.col + 1 < TTY_COLS THEN [w EXCEPT !.col = @ + 1]
                  ELSE [w EXCEPT !.row = @ + 1, !.col = 0]
  /\ UNCHANGED <<held, cut, calls>>

FlushEnd ==
  /\ w.pc = "flush" /\ w.row = content_rows
  /\ t' = [t EXCEPT !.dirty = {}]
  /\ w' = [pc |-> "end"]
  /\ UNCHANGED <<held, cut, calls>>

\* An interrupt in the middle of the flush finds a row half drawn, and the rest
\* of the row is drawn over what the interrupt has put on the screen.
Under(s, x) == IF x.pc = "flush" THEN [s EXCEPT !.torn = @ \cup {"text"}] ELSE s

\* The cursor and the status bar are drawn; a nested write returns.
WriteEnd ==
  /\ w.pc = "end"
  /\ Becomes(Under(end_write(t), held))
  /\ w' = held /\ held' = NoWrite
  /\ UNCHANGED calls

\* What the keyboard interrupt does, between two steps of the main loop or within
\* one; a nested write is part of it and nothing interrupts that.
Interrupt(s) ==
  /\ Call /\ held = NoWrite
  /\ \/ t' = Under(s, w) /\ UNCHANGED cut
     \/ w.pc \notin {"idle", "flush"} /\ t' \in Spoilt(s) /\ cut' = TRUE

\* A write of its own, wherever it comes.
Echo(text) ==
  /\ ~Idle /\ text # <<>>
  /\ Interrupt(t)
  /\ w' = [pc |-> "start", text |-> text] /\ held' = w

\* clks_tty_switch, from the keyboard interrupt or from a system call.
switch(s, i) ==
  [redraw_active([hide_cursor(s) EXCEPT !.active = i, !.visible = FALSE]) EXCEPT !.timing = FALSE]
Switch(i) == Interrupt(switch(t, i)) /\ UNCHANGED <<w, held>>

scroll_to(s, off) ==
  LET d == hide_cursor(s)
  IN  IF off = Active(d).off THEN d
      ELSE [redraw_active([d EXCEPT !.tty[d.active].off = off]) EXCEPT !.timing = FALSE]

page_up(s) == scroll_to(s, Least(clamped_offset(Active(s)) + content_rows, Active(s).count))
page_down(s) ==
  LET cur == clamped_offset(Active(s))
  IN  scroll_to(s, IF cur > content_rows THEN cur - content_rows ELSE 0)

PageUp ==
  /\ t.active # DESKTOP_INDEX /\ Active(t).count > 0
  /\ Interrupt(page_up(t)) /\ UNCHANGED <<w, held>>
PageDown ==
  /\ t.active # DESKTOP_INDEX /\ clamped_offset(Active(t)) > 0
  /\ Interrupt(page_down(t)) /\ UNCHANGED <<w, held>>

\* clks_tty_tick, called by the tty task between writes; late: the blink
\* interval has passed since the last accounted tick.
tick(s, late) ==
  IF s.active = DESKTOP_INDEX \/ Active(s).off > 0 THEN [s EXCEPT !.visible = FALSE]
  ELSE IF ~s.timing THEN [IF s.visible THEN s ELSE draw_cursor(s) EXCEPT !.timing = TRUE]
  ELSE IF ~late THEN s
  ELSE IF s.visible THEN hide_cursor(s) ELSE draw_cursor(s)

TickBegin == Idle /\ t.blink /\ w' = [pc |-> "tick"] /\ UNCHANGED <<t, held, cut, calls>>
Tick ==
  /\ w.pc = "tick"
  /\ \E late \in BOOLEAN : Becomes(tick(t, late))
  /\ w' = NoWrite
  /\ UNCHANGED <<held, calls>>

Next ==
  \/ \E text \in Texts : WriteBegin(text)
  \/ StartWrite \/ WriteByte \/ FlushBegin \/ FlushCell \/ FlushEnd \/ WriteEnd
  \/ \E text \in Echoes : Echo(text)
  \/ \E i \in Ttys : Switch(i)
  \/ PageUp \/ PageDown \/ TickBegin \/ Tick

Spec == Init /\ [][Next]_vars

-----------------------------------------------------------------------------
(* Properties. *)

\* Cursors, saved cursors and the scrollback's numbers stay in range for every
\* byte sequence, u32 sums of cursor motion included.
TtyTypeOK ==
  /\ t.active \in Ttys /\ t.visible \in BOOLEAN /\ t.dirty \subseteq Rows
  /\ calls \in 0 .. MAX_CALLS
  /\ \A i \in Ttys :
       LET y == t.tty[i] IN
       /\ y.row \in Rows /\ y.col \in Cols
       /\ y.saved_row \in Rows /\ y.saved_col \in Cols
       /\ y.esc \in {"text", "escape", "csi"} /\ Len(y.params) <= ANSI_MAX_LEN
       /\ y.head \in 0 .. SCROLLBACK_LINES - 1
       /\ y.count \in 0 .. SCROLLBACK_LINES /\ y.off \in 0 .. y.count

\* Between calls the screen shows the rows the active terminal is scrolled to;
\* the only ways out are a scroll over rows not drawn yet, an interrupt in the
\* middle of a flush or within another step, and bytes drawn at once, after a
\* nested write, over a terminal scrolled back meanwhile.  A redraw ends them.
ScreenShowsView ==
  Idle /\ "text" \notin t.torn =>
    \A r \in Rows, c \in Cols :
      LET cell == view_row(Active(t), r)[c] IN t.screen[r][c] \in {cell, Inverted(cell)}

\* Between calls exactly the cell under the cursor is inverted, and only while
\* the cursor counts as visible: nothing on the screen looks like a second
\* cursor, unless one was drawn in the middle of a write, a nested one included.
OneCursor ==
  Idle /\ t.torn = {} =>
    LET y == Active(t)
        Lit(r, c) == t.visible /\ y.row = r /\ y.col = c
    IN  \A r \in Rows, c \in Cols :
          LET cell == view_row(y, r)[c] IN t.screen[r][c] = IF Lit(r, c) THEN Inverted(cell) ELSE cell

\* Between calls the status bar of a text terminal tells its cursor and its
\* scroll position, even after its row was scrolled away in the framebuffer;
\* unless an interrupt has come within a step, and there was no redraw since.
StatusBarTrue ==
  Idle /\ "bar" \notin t.torn /\ status_bar_enabled /\ t.active # DESKTOP_INDEX => t.bar = status_line(t)

\* A write changes the text, the colours and the parser of the terminal it
\* started on, and of no other, however often the interrupt switches terminals.
WritesStayOnTheirTty ==
  [][w.pc = "bytes" /\ w'.pc \in {"bytes", "flush", "end"} /\ t' # t /\ calls' = calls
       => \A i \in Ttys \ {w.tty} : t'.tty[i] = t.tty[i]]_vars

\* The scrollback only grows at its young end; lines leave it at the old end,
\* only when it is full and one per byte (a tab is four characters), or all at
\* once when a program asks for it (ED 3).
ScrollbackOrder ==
  [][\A i \in Ttys :
       LET old == History(t.tty[i])
           new == History(t'.tty[i])
       IN  \/ new = <<>>
           \/ \E k \in 0 .. Len(old) :
                /\ k > 0 => Len(new) = SCROLLBACK_LINES /\ w.pc = "bytes"
                /\ k > 1 => Head(w.text) = 9
                /\ Len(old) - k <= Len(new)
                /\ SubSeq(new, 1, Len(old) - k) = SubSeq(old, k + 1, Len(old))]_vars

\* What is on the screen between calls is what the active terminal holds: its
\* rows, one cursor, and a status bar that tells where it is; torn names what an
\* interrupt may have left otherwise.
ScreenTrue == ScreenShowsView /\ OneCursor /\ StatusBarTrue

=============================================================================
