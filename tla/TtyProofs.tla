------------------------------ MODULE TtyProofs ------------------------------
(***************************************************************************)
(* For every number of terminals, screen size, scrollback, modulus and set *)
(* of texts: cursors and scrollback stay in range, a write changes the     *)
(* terminal it started on and no other, wherever the interrupts fall, and  *)
(* between two writes the screen shows what the active terminal holds.     *)
(***************************************************************************)
EXTENDS Tty, Induction, SequenceTheorems

Byte == 0 .. 255
Cell == Byte \X Nat \X Nat \X SUBSET {"bold", "underline"}
Row == [Cols -> Cell]
Grid == [Rows -> Row]

TtyRec ==
  [cells : Grid, row : Rows, col : Cols, fg : Nat, bg : Nat,
   bold : BOOLEAN, underline : BOOLEAN, inverse : BOOLEAN,
   esc : {"text", "escape", "csi"}, params : Seq(Byte), saved_row : Rows, saved_col : Cols,
   head : 0 .. SCROLLBACK_LINES - 1, count : 0 .. SCROLLBACK_LINES, off : 0 .. SCROLLBACK_LINES,
   ring : [0 .. SCROLLBACK_LINES - 1 -> Row]]

\* A terminal whose numbers fit together: until the ring is full it has been filled from its
\* first slot on.
TtyOK(y) ==
  /\ y \in TtyRec /\ y.off <= y.count /\ Len(y.params) <= ANSI_MAX_LEN
  /\ y.count < SCROLLBACK_LINES => y.head = y.count

ScreenRec ==
  [tty : [Ttys -> TtyRec], active : Ttys, visible : BOOLEAN, blink : BOOLEAN, timing : BOOLEAN,
   defer_draw : BOOLEAN, busy : BOOLEAN, dirty : SUBSET Rows, screen : Grid, bar : Seq(Nat),
   torn : SUBSET Tears]

ScreenOK(s) == s \in ScreenRec /\ \A i \in Ttys : TtyOK(s.tty[i])

\* What is done on behalf of terminal i leaves the others, and which one is active, alone.
Writes(s, d, i) == ScreenOK(d) /\ d.active = s.active /\ \A j \in Ttys \ {i} : d.tty[j] = s.tty[j]

\* What only draws leaves all of them alone.
Draws(s, d) == ScreenOK(d) /\ d.active = s.active /\ d.tty = s.tty

\* The scrollback stays as it is, or a row is pushed.
SameHistory(y, z) == z.ring = y.ring /\ z.head = y.head /\ z.count = y.count
SameView(y, z) == SameHistory(y, z) /\ z.off = y.off /\ z.cells = y.cells
OneLine(y, z) ==
  /\ \E row : z.ring = [y.ring EXCEPT ![y.head] = row]
  /\ z.head = (y.head + 1) % SCROLLBACK_LINES
  /\ z.count = Least(y.count + 1, SCROLLBACK_LINES)

Keeps(s, d, i) == Writes(s, d, i) /\ SameHistory(s.tty[i], d.tty[i])
MayPush(s, d, i) == Writes(s, d, i) /\ (SameHistory(s.tty[i], d.tty[i]) \/ OneLine(s.tty[i], d.tty[i]))

-----------------------------------------------------------------------------
(* Numbers and records. *)

LEMMA Sizes ==
  /\ TTY_COUNT \in Nat \ {0} /\ TTY_COLS \in Nat \ {0} /\ SCROLLBACK_LINES \in Nat \ {0}
  /\ ANSI_MAX_LEN \in Nat \ {0} /\ content_rows \in Nat \ {0} /\ U32 \in Nat \ {0}
  /\ 0 \in Ttys /\ 0 \in Rows /\ 0 \in Cols
  BY TtyAssumption DEF content_rows, Ttys, Rows, Cols

LEMMA ModRange == ASSUME NEW n \in Nat, NEW m \in Nat \ {0} PROVE n % m \in 0 .. m - 1 /\ (n < m => n % m = n)
  BY Z3

LEMMA Fields ==
  ASSUME NEW y, TtyOK(y)
  PROVE  /\ y \in TtyRec /\ y.row \in Rows /\ y.col \in Cols /\ y.saved_row \in Rows /\ y.saved_col \in Cols
         /\ y.head \in 0 .. SCROLLBACK_LINES - 1 /\ y.count \in 0 .. SCROLLBACK_LINES /\ y.off \in 0 .. y.count
         /\ y.params \in Seq(Byte) /\ Len(y.params) <= ANSI_MAX_LEN
<1>1. y \in TtyRec /\ y.off <= y.count /\ Len(y.params) <= ANSI_MAX_LEN
  BY DEF TtyOK
<1>2. /\ y.row \in Rows /\ y.col \in Cols /\ y.saved_row \in Rows /\ y.saved_col \in Cols
      /\ y.head \in 0 .. SCROLLBACK_LINES - 1 /\ y.count \in 0 .. SCROLLBACK_LINES /\ y.off \in 0 .. SCROLLBACK_LINES
      /\ y.params \in Seq(Byte)
  BY <1>1 DEF TtyRec
<1> QED BY <1>1, <1>2, Sizes

LEMMA TtyFields ==
  ASSUME NEW s, ScreenOK(s), NEW i \in Ttys
  PROVE  /\ s \in ScreenRec /\ s.tty[i] \in TtyRec /\ TtyOK(s.tty[i])
         /\ s.tty[i].row \in Rows /\ s.tty[i].col \in Cols
  BY DEF ScreenOK, TtyOK, TtyRec

\* One terminal is given new contents.
LEMMA SetTty ==
  ASSUME NEW s, ScreenOK(s), NEW i \in Ttys, NEW y, TtyOK(y)
  PROVE  /\ Writes(s, [s EXCEPT !.tty[i] = y], i)
         /\ [s EXCEPT !.tty[i] = y].tty[i] = y
<1> DEFINE d == [s EXCEPT !.tty[i] = y]
<1>1. s \in ScreenRec /\ y \in TtyRec
  BY DEF ScreenOK, TtyOK
<1>2. d \in ScreenRec /\ d.active = s.active /\ d.tty = [s.tty EXCEPT ![i] = y]
  BY <1>1 DEF ScreenRec
<1> HIDE DEF d
<1>3. \A j \in Ttys : d.tty[j] = IF j = i THEN y ELSE s.tty[j]
  BY <1>1, <1>2 DEF ScreenRec
<1>4. Writes(s, d, i) /\ d.tty[i] = y
  BY <1>2, <1>3 DEF Writes, ScreenOK
<1> QED BY <1>4 DEF d

LEMMA WritesOn ==
  ASSUME NEW s, NEW d, NEW e, NEW i \in Ttys, Writes(s, d, i), Writes(d, e, i) PROVE Writes(s, e, i)
  BY DEF Writes

LEMMA KeepsOn ==
  ASSUME NEW s, NEW d, NEW e, NEW i \in Ttys
  PROVE  /\ Keeps(s, d, i) /\ Keeps(d, e, i) => Keeps(s, e, i)
         /\ Keeps(s, d, i) /\ MayPush(d, e, i) => MayPush(s, e, i)
         /\ MayPush(s, d, i) /\ Keeps(d, e, i) => MayPush(s, e, i)
         /\ Keeps(s, d, i) => MayPush(s, d, i)
  BY DEF Writes, Keeps, MayPush, SameHistory, OneLine

LEMMA DrawsKeep == ASSUME NEW s, NEW d, NEW i \in Ttys, Draws(s, d) PROVE Keeps(s, d, i)
  BY DEF Keeps, Writes, Draws, SameHistory

LEMMA DrawsOn == ASSUME NEW s, NEW d, NEW e, Draws(s, d), Draws(d, e) PROVE Draws(s, e)
  BY DEF Draws

\* Nothing is done.
LEMMA DrawsNothing == ASSUME NEW s, ScreenOK(s) PROVE Draws(s, s)
  BY DEF Draws

-----------------------------------------------------------------------------
(* Drawing. *)

LEMMA BlankCell == Blank \in Cell /\ BlankRow \in Row
  BY DEF Blank, Cell, Byte, SPACE, FG, BG, BlankRow, Row

LEMMA InvertedCell == ASSUME NEW cell \in Cell PROVE Inverted(cell) \in Cell
  BY DEF Inverted, Cell

\* Every row of the view is one of the scrollback or of the terminal.
LEMMA ViewRow == ASSUME NEW y, TtyOK(y), NEW r \in Rows PROVE view_row(y, r) \in Row
<1> DEFINE doc == y.count - clamped_offset(y) + r
<1>1. /\ y \in TtyRec /\ y.count \in 0 .. SCROLLBACK_LINES /\ y.off \in Nat /\ y.head \in 0 .. SCROLLBACK_LINES - 1
      /\ y.off <= y.count /\ r \in Nat /\ y.ring \in [0 .. SCROLLBACK_LINES - 1 -> Row] /\ y.cells \in [Rows -> Row]
  BY Sizes DEF TtyOK, TtyRec, Grid, Rows
<1>2. clamped_offset(y) = y.off
  BY <1>1 DEF clamped_offset, Least
<1>3. doc = y.count - y.off + r /\ doc \in Nat
  BY <1>1, <1>2
<1>4. CASE doc < y.count
  <2>1. logical_to_physical(y, doc) \in 0 .. SCROLLBACK_LINES - 1
    <3>1. CASE y.count < SCROLLBACK_LINES
      BY <1>1, <1>3, <1>4, <3>1, Sizes DEF logical_to_physical
    <3>2. CASE ~(y.count < SCROLLBACK_LINES)
      <4>1. y.head + doc \in Nat
        BY <1>1, <1>3
      <4> HIDE DEF doc
      <4>2. (y.head + doc) % SCROLLBACK_LINES \in 0 .. SCROLLBACK_LINES - 1
        BY <4>1, Sizes, ModRange
      <4> QED BY <3>2, <4>2 DEF logical_to_physical
    <3> QED BY <3>1, <3>2
  <2>2. view_row(y, r) = y.ring[logical_to_physical(y, doc)]
    BY <1>4 DEF view_row
  <2> QED BY <1>1, <2>1, <2>2
<1>5. CASE ~(doc < y.count)
  <2>1. doc - y.count \in Rows
    BY <1>1, <1>3, <1>5, Sizes DEF Rows
  <2>2. view_row(y, r) = y.cells[doc - y.count]
    BY <1>5 DEF view_row
  <2> QED BY <1>1, <2>1, <2>2
<1> QED BY <1>4, <1>5

LEMMA StatusLine == ASSUME NEW s, ScreenOK(s) PROVE status_line(s) \in Seq(Nat)
<1>1. s.active \in Ttys /\ TtyOK(Active(s))
  BY DEF ScreenOK, ScreenRec, Active
<1>2. s.active \in Nat /\ Active(s).row + 1 \in Nat /\ Active(s).col + 1 \in Nat /\ Active(s).off \in Nat /\ Active(s).count \in Nat
  BY <1>1, Sizes, Fields DEF Ttys, Rows, Cols
<1>3. Least(Active(s).row + 1, content_rows) \in Nat /\ clamped_offset(Active(s)) \in Nat
  BY <1>2, Sizes DEF Least, clamped_offset
<1> QED BY <1>2, <1>3 DEF status_line

LEMMA StatusBarDraws == ASSUME NEW s, ScreenOK(s) PROVE Draws(s, draw_status_bar(s))
<1>1. CASE ~status_bar_enabled \/ s.active = DESKTOP_INDEX
  BY <1>1 DEF draw_status_bar, Draws
<1>2. CASE ~(~status_bar_enabled \/ s.active = DESKTOP_INDEX)
  <2> DEFINE line == status_line(s)
             d == [s EXCEPT !.bar = line]
  <2>1. line \in Seq(Nat) /\ s \in ScreenRec
    BY StatusLine DEF ScreenOK
  <2> HIDE DEF line
  <2>2. d \in ScreenRec
    BY <2>1 DEF ScreenRec
  <2>3. d.active = s.active /\ d.tty = s.tty
    BY <2>1 DEF ScreenRec
  <2>4. draw_status_bar(s) = d
    BY <1>2 DEF draw_status_bar, line
  <2> HIDE DEF d
  <2> QED BY <2>2, <2>3, <2>4 DEF Draws, ScreenOK
<1> QED BY <1>1, <1>2

LEMMA DrawCellDraws ==
  ASSUME NEW s, ScreenOK(s), NEW i \in Ttys, NEW r \in Rows, NEW c \in Cols
  PROVE  Draws(s, draw_cell(s, i, r, c))
<1> DEFINE cell == s.tty[i].cells[r][c]
           d == [s EXCEPT !.screen[r][c] = cell]
<1>1. s \in ScreenRec /\ cell \in Cell
  <2>1. s \in ScreenRec
    BY DEF ScreenOK
  <2>2. s.tty[i] \in TtyRec
    BY <2>1 DEF ScreenRec
  <2>3. s.tty[i].cells \in Grid
    BY <2>2 DEF TtyRec
  <2>4. cell \in Cell
    BY <2>3 DEF Grid, Row
  <2> QED BY <2>1, <2>4
<1> HIDE DEF cell
<1>2. d \in ScreenRec /\ d.active = s.active /\ d.tty = s.tty
  BY <1>1 DEF ScreenRec, Grid, Row
<1>3. draw_cell(s, i, r, c) = d
  BY DEF draw_cell, cell
<1> HIDE DEF d
<1> QED BY <1>2, <1>3 DEF Draws, ScreenOK

LEMMA CursorDraws == ASSUME NEW s, ScreenOK(s) PROVE Draws(s, draw_cursor(s))
<1>1. s \in ScreenRec /\ s.active \in Ttys
  BY DEF ScreenOK, ScreenRec
<1>2. CASE s.active = DESKTOP_INDEX \/ Active(s).off > 0
  <2> DEFINE d == [s EXCEPT !.visible = FALSE]
  <2>1. d \in ScreenRec /\ d.active = s.active /\ d.tty = s.tty
    BY <1>1 DEF ScreenRec
  <2>2. draw_cursor(s) = d
    BY <1>2 DEF draw_cursor
  <2> HIDE DEF d
  <2> QED BY <2>1, <2>2 DEF Draws, ScreenOK
<1>3. CASE ~(s.active = DESKTOP_INDEX \/ Active(s).off > 0)
  <2> DEFINE r == Active(s).row
             c == Active(s).col
             cell == Inverted(Active(s).cells[r][c])
             tears == IF s.busy THEN s.torn \cup {"cursor"} ELSE s.torn
             d == [s EXCEPT !.screen[r][c] = cell, !.visible = TRUE, !.torn = tears]
  <2>1. r \in Rows /\ c \in Cols
    BY <1>1, TtyFields DEF Active
  <2>2. Active(s).cells[r][c] \in Cell
    BY <1>1, <2>1, TtyFields DEF Active, TtyRec, Grid, Row
  <2>3. cell \in Cell
    BY <2>2, InvertedCell
  <2>4. tears \in SUBSET Tears
    BY <1>1 DEF ScreenRec, Tears
  <2>5. draw_cursor(s) = d
    BY <1>3 DEF draw_cursor
  <2> HIDE DEF r, c, cell, tears
  <2>6. d \in ScreenRec /\ d.active = s.active /\ d.tty = s.tty
    BY <1>1, <2>1, <2>3, <2>4 DEF ScreenRec, Grid, Row
  <2> HIDE DEF d
  <2> QED BY <2>5, <2>6 DEF Draws, ScreenOK
<1> QED BY <1>2, <1>3

LEMMA HideDraws == ASSUME NEW s, ScreenOK(s) PROVE Draws(s, hide_cursor(s))
<1>1. s \in ScreenRec /\ s.active \in Ttys
  BY DEF ScreenOK, ScreenRec
<1>2. \A z : ScreenOK(z) => Draws(z, [z EXCEPT !.visible = FALSE])
  <2> SUFFICES ASSUME NEW z, ScreenOK(z) PROVE Draws(z, [z EXCEPT !.visible = FALSE])
    OBVIOUS
  <2> DEFINE d == [z EXCEPT !.visible = FALSE]
  <2>1. z \in ScreenRec
    BY DEF ScreenOK
  <2>2. d \in ScreenRec /\ d.active = z.active /\ d.tty = z.tty
    BY <2>1 DEF ScreenRec
  <2> HIDE DEF d
  <2>3. Draws(z, d)
    BY <2>2 DEF Draws, ScreenOK
  <2> QED BY <2>3 DEF d
<1>3. CASE ~s.visible
  BY <1>3, DrawsNothing DEF hide_cursor
<1>4. CASE s.visible /\ Active(s).off > 0
  BY <1>2, <1>4 DEF hide_cursor
<1>5. CASE s.visible /\ ~(Active(s).off > 0)
  <2> DEFINE d == draw_cell(s, s.active, Active(s).row, Active(s).col)
  <2>1. Active(s).row \in Rows /\ Active(s).col \in Cols
    BY <1>1, TtyFields DEF Active
  <2>2. Draws(s, d)
    BY <1>1, <2>1, DrawCellDraws
  <2>3. hide_cursor(s) = [d EXCEPT !.visible = FALSE]
    BY <1>5 DEF hide_cursor
  <2> HIDE DEF d
  <2> QED BY <1>2, <2>2, <2>3 DEF Draws
<1> QED BY <1>3, <1>4, <1>5

LEMMA DirtyDraws == ASSUME NEW s, ScreenOK(s), NEW r \in Rows PROVE Draws(s, dirty_mark_row(s, r))
<1> DEFINE d == [s EXCEPT !.dirty = @ \cup {r}]
<1>1. s \in ScreenRec
  BY DEF ScreenOK
<1>2. d \in ScreenRec /\ d.active = s.active /\ d.tty = s.tty
  BY <1>1 DEF ScreenRec
<1>3. dirty_mark_row(s, r) = d
  BY DEF dirty_mark_row
<1> HIDE DEF d
<1> QED BY <1>2, <1>3 DEF Draws, ScreenOK

\* What has changed in a row is marked or drawn.
RowDrawn(s, i, r, changed) == [c \in Cols |-> IF c \in changed THEN s.tty[i].cells[r][c] ELSE s.screen[r][c]]

LEMMA ChangedDraws ==
  ASSUME NEW s, ScreenOK(s), NEW i \in Ttys, NEW r \in Rows, NEW changed
  PROVE  Draws(s, draw_changed(s, i, r, changed))
<1>1. CASE s.defer_draw
  BY <1>1, DirtyDraws DEF draw_changed
<1>2. CASE ~s.defer_draw
  <2> DEFINE row == RowDrawn(s, i, r, changed)
             tears == IF s.tty[i].off > 0 THEN s.torn \cup {"text"} ELSE s.torn
             d == [s EXCEPT !.screen[r] = row, !.torn = tears]
  <2>1. s \in ScreenRec /\ s.tty[i].cells \in Grid /\ s.screen \in Grid
    BY TtyFields DEF ScreenRec, TtyRec
  <2>2. row \in Row
    BY <2>1 DEF RowDrawn, Grid, Row
  <2>3. tears \in SUBSET Tears
    BY <2>1 DEF ScreenRec, Tears
  <2>4. draw_changed(s, i, r, changed) = d
    BY <1>2 DEF draw_changed, RowDrawn
  <2> HIDE DEF row, tears
  <2>5. d \in ScreenRec /\ d.active = s.active /\ d.tty = s.tty
    BY <2>1, <2>2, <2>3 DEF ScreenRec, Grid
  <2> HIDE DEF d
  <2> QED BY <2>4, <2>5 DEF Draws, ScreenOK
<1> QED BY <1>1, <1>2

\* The view of the active terminal, and nothing else on the screen.
repainted(s) ==
  [s EXCEPT !.screen = [r \in Rows |-> view_row(Active(s), r)], !.bar = NoBar, !.visible = FALSE, !.dirty = {}, !.torn = {}]

LEMMA Repainted ==
  ASSUME NEW s, ScreenOK(s), NEW d, d = repainted(s)
  PROVE  /\ Draws(s, d) /\ d.visible = FALSE /\ d.dirty = {} /\ d.torn = {} /\ d.busy = s.busy
         /\ d.screen = [r \in Rows |-> view_row(Active(s), r)]
<1>1. s \in ScreenRec /\ TtyOK(Active(s))
  BY DEF ScreenOK, ScreenRec, Active
<1> DEFINE shown == [r \in Rows |-> view_row(Active(s), r)]
<1>2. shown \in Grid
  BY <1>1, ViewRow DEF Grid
<1>3. d = [s EXCEPT !.screen = shown, !.bar = NoBar, !.visible = FALSE, !.dirty = {}, !.torn = {}]
  BY DEF repainted
<1> HIDE DEF shown
<1>4. NoBar \in Seq(Nat)
  BY EmptySeq DEF NoBar
<1>5. d \in ScreenRec /\ d.active = s.active /\ d.tty = s.tty
  BY <1>1, <1>2, <1>3, <1>4 DEF ScreenRec
<1>6. d.visible = FALSE /\ d.dirty = {} /\ d.torn = {} /\ d.busy = s.busy /\ d.screen = shown
  BY <1>1, <1>3 DEF ScreenRec
<1> QED BY <1>5, <1>6 DEF Draws, ScreenOK, shown

\* The offset redraw_active limits is within the scrollback already.
LEMMA RedrawIs ==
  ASSUME NEW s, ScreenOK(s)
  PROVE  redraw_active(s) = draw_status_bar(IF Active(s).off = 0 THEN draw_cursor(repainted(s)) ELSE repainted(s))
<1>1. s \in ScreenRec /\ s.active \in Ttys /\ TtyOK(Active(s)) /\ Active(s) = s.tty[s.active]
  BY DEF ScreenOK, ScreenRec, Active
<1>2. clamped_offset(Active(s)) = Active(s).off
  BY <1>1, Fields, Sizes DEF clamped_offset, Least
<1> DEFINE y == [Active(s) EXCEPT !.off = clamped_offset(Active(s))]
           shown == [r \in Rows |-> view_row(y, r)]
           d == [s EXCEPT !.tty[s.active] = y, !.screen = shown, !.bar = NoBar, !.visible = FALSE, !.dirty = {}, !.torn = {}]
<1>3. y = Active(s)
  BY <1>1, <1>2, Fields DEF TtyRec
<1>4. redraw_active(s) = draw_status_bar(IF y.off = 0 THEN draw_cursor(d) ELSE d)
  BY DEF redraw_active
<1> HIDE DEF y
<1>5. repainted(s) = [s EXCEPT !.screen = shown, !.bar = NoBar, !.visible = FALSE, !.dirty = {}, !.torn = {}]
  BY <1>3 DEF repainted
<1> HIDE DEF shown
<1>6. [s.tty EXCEPT ![s.active] = y] = s.tty
  BY <1>1, <1>3 DEF ScreenRec
<1>7. d = repainted(s)
  <2> DEFINE same == [s EXCEPT !.tty = [s.tty EXCEPT ![s.active] = y]]
  <2>1. same = s
    BY <1>1, <1>6 DEF ScreenRec
  <2>2. d = [same EXCEPT !.screen = shown, !.bar = NoBar, !.visible = FALSE, !.dirty = {}, !.torn = {}]
    OBVIOUS
  <2> HIDE DEF same, d
  <2> QED BY <1>5, <2>1, <2>2
<1> HIDE DEF d
<1> QED BY <1>3, <1>4, <1>7

LEMMA RedrawDraws == ASSUME NEW s, ScreenOK(s) PROVE Draws(s, redraw_active(s))
<1> DEFINE d == repainted(s)
           e == IF Active(s).off = 0 THEN draw_cursor(d) ELSE d
<1>1. Draws(s, d)
  BY Repainted
<1>2. redraw_active(s) = draw_status_bar(e)
  BY RedrawIs
<1> HIDE DEF d
<1>3. Draws(d, e)
  BY <1>1, CursorDraws, DrawsNothing DEF Draws
<1> HIDE DEF e
<1>4. Draws(e, draw_status_bar(e))
  BY <1>3, StatusBarDraws DEF Draws
<1> QED BY <1>1, <1>2, <1>3, <1>4, DrawsOn

-----------------------------------------------------------------------------
(* Characters. *)

\* The rows above the last come from the rows below them.
LEMMA ShiftedGrid == ASSUME NEW g \in Grid PROVE [r \in Rows |-> IF r + 1 < content_rows THEN g[r + 1] ELSE BlankRow] \in Grid
<1>1. ASSUME NEW r \in Rows, r + 1 < content_rows PROVE g[r + 1] \in Row
  <2>1. r + 1 \in Rows
    BY <1>1, Sizes DEF Rows
  <2> QED BY <2>1 DEF Grid
<1> QED BY <1>1, BlankCell DEF Grid

LEMMA FbScrollDraws == ASSUME NEW s, ScreenOK(s) PROVE Draws(s, fb_scroll_up(s))
<1> DEFINE g == [r \in Rows |-> IF r + 1 < content_rows THEN s.screen[r + 1] ELSE BlankRow]
           tears == IF s.dirty = {} THEN s.torn ELSE s.torn \cup {"text"}
           d == [s EXCEPT !.screen = g, !.bar = NoBar, !.torn = tears]
<1>1. s \in ScreenRec /\ s.screen \in Grid
  BY DEF ScreenOK, ScreenRec
<1>2. g \in Grid
  BY <1>1, ShiftedGrid
<1>3. tears \in SUBSET Tears /\ NoBar \in Seq(Nat)
  BY <1>1, EmptySeq DEF ScreenRec, NoBar, Tears
<1>4. fb_scroll_up(s) = d
  BY DEF fb_scroll_up
<1> HIDE DEF g, tears
<1>5. d \in ScreenRec /\ d.active = s.active /\ d.tty = s.tty
  BY <1>1, <1>2, <1>3 DEF ScreenRec
<1> HIDE DEF d
<1> QED BY <1>4, <1>5 DEF Draws, ScreenOK

\* The terminal after its first row went into the scrollback.
scrolled(y) == [scrollback_push_row(y, 0) EXCEPT !.cells = shift_rows(y)]

LEMMA Scrolled == ASSUME NEW y, TtyOK(y)
                  PROVE  /\ TtyOK(scrolled(y))
                         /\ scrolled(y).row = y.row /\ scrolled(y).col = y.col /\ scrolled(y).off = y.off
                         /\ scrolled(y).cells = shift_rows(y)
                         /\ scrolled(y).ring = [y.ring EXCEPT ![y.head] = y.cells[0]]
                         /\ scrolled(y).head = (y.head + 1) % SCROLLBACK_LINES
                         /\ scrolled(y).count = Least(y.count + 1, SCROLLBACK_LINES)
<1> DEFINE first == y.cells[0]
           h == (y.head + 1) % SCROLLBACK_LINES
           n == Least(y.count + 1, SCROLLBACK_LINES)
           g == shift_rows(y)
           z == [y EXCEPT !.ring[y.head] = first, !.head = h, !.count = n, !.cells = g]
<1>1. y \in TtyRec /\ first \in Row /\ y.cells \in Grid
  BY Fields, Sizes DEF TtyRec, Grid
<1>2. h \in 0 .. SCROLLBACK_LINES - 1 /\ (y.head + 1 < SCROLLBACK_LINES => h = y.head + 1)
  <2>1. y.head + 1 \in Nat
    BY Fields, Sizes
  <2> QED BY <2>1, Sizes, ModRange
<1>3. /\ n \in 0 .. SCROLLBACK_LINES /\ y.count <= n
      /\ n < SCROLLBACK_LINES => n = y.count + 1 /\ y.count < SCROLLBACK_LINES
  BY Fields, Sizes DEF Least
<1>4. g \in Grid
  BY <1>1, ShiftedGrid DEF shift_rows
<1>5. scrolled(y) = z
  BY <1>1 DEF scrolled, scrollback_push_row, TtyRec
<1> HIDE DEF first, h, n, g
<1>6. /\ z \in TtyRec /\ z.off = y.off /\ z.count = n /\ z.params = y.params /\ z.row = y.row /\ z.col = y.col
      /\ z.ring = [y.ring EXCEPT ![y.head] = first] /\ z.head = h /\ z.cells = g
  BY <1>1, <1>2, <1>3, <1>4, Fields DEF TtyRec
<1> HIDE DEF z
<1>7. n < SCROLLBACK_LINES => h = n
  BY <1>2, <1>3 DEF TtyOK
<1>8. TtyOK(z)
  BY <1>3, <1>6, <1>7, Fields, Sizes DEF TtyOK
<1> QED BY <1>5, <1>6, <1>8 DEF first, h, n, g

LEMMA SetRow ==
  ASSUME NEW s, ScreenOK(s), NEW i \in Ttys, NEW r \in Rows
  PROVE  Keeps(s, [s EXCEPT !.tty[i].row = r], i) /\ [s EXCEPT !.tty[i].row = r].tty[i].row = r
<1> DEFINE y == [s.tty[i] EXCEPT !.row = r]
<1>1. TtyOK(y) /\ SameHistory(s.tty[i], y) /\ y.row = r
  BY TtyFields DEF TtyOK, TtyRec, SameHistory
<1> DEFINE d == [s EXCEPT !.tty[i].row = r]
           e == [s EXCEPT !.tty[i] = y]
<1>2. d = e
  OBVIOUS
<1> HIDE DEF y
<1>3. Writes(s, e, i) /\ e.tty[i] = y
  BY <1>1, SetTty
<1> HIDE DEF d, e
<1>4. Keeps(s, d, i) /\ d.tty[i].row = r
  BY <1>1, <1>2, <1>3 DEF Keeps
<1> QED BY <1>4 DEF d

LEMMA SetCol ==
  ASSUME NEW s, ScreenOK(s), NEW i \in Ttys, NEW c \in Cols
  PROVE  Keeps(s, [s EXCEPT !.tty[i].col = c], i) /\ [s EXCEPT !.tty[i].col = c].tty[i].col = c
<1> DEFINE y == [s.tty[i] EXCEPT !.col = c]
<1>1. TtyOK(y) /\ SameHistory(s.tty[i], y) /\ y.col = c
  BY TtyFields DEF TtyOK, TtyRec, SameHistory
<1> DEFINE d == [s EXCEPT !.tty[i].col = c]
           e == [s EXCEPT !.tty[i] = y]
<1>2. d = e
  OBVIOUS
<1> HIDE DEF y
<1>3. Writes(s, e, i) /\ e.tty[i] = y
  BY <1>1, SetTty
<1> HIDE DEF d, e
<1>4. Keeps(s, d, i) /\ d.tty[i].col = c
  BY <1>1, <1>2, <1>3 DEF Keeps
<1> QED BY <1>4 DEF d

LEMMA ScrollUp == ASSUME NEW s, ScreenOK(s), NEW i \in Ttys PROVE MayPush(s, scroll_up(s, i), i)
<1> DEFINE y == scrolled(s.tty[i])
           d == [s EXCEPT !.tty[i] = y]
           last == content_rows - 1
<1>1. TtyOK(y) /\ OneLine(s.tty[i], y)
  BY TtyFields, Scrolled DEF OneLine
<1>2. scroll_up(s, i) = IF i # s.active THEN d
                        ELSE IF d.tty[i].off > 0 THEN redraw_active(d)
                        ELSE draw_changed(fb_scroll_up(d), i, last, Cols)
  BY DEF scroll_up, scrolled
<1> HIDE DEF y
<1>3. Writes(s, d, i) /\ d.tty[i] = y
  BY <1>1, SetTty
<1> HIDE DEF d
<1>4. ScreenOK(d) /\ MayPush(s, d, i)
  BY <1>1, <1>3 DEF Writes, MayPush
<1>5. last \in Rows
  BY Sizes DEF Rows
<1> HIDE DEF last
<1>6. Draws(d, redraw_active(d))
  BY <1>4, RedrawDraws
<1>7. Draws(d, draw_changed(fb_scroll_up(d), i, last, Cols))
  <2>1. Draws(d, fb_scroll_up(d))
    BY <1>4, FbScrollDraws
  <2>2. Draws(fb_scroll_up(d), draw_changed(fb_scroll_up(d), i, last, Cols))
    BY <2>1, <1>5, ChangedDraws DEF Draws
  <2> QED BY <2>1, <2>2, DrawsOn
<1> QED BY <1>2, <1>4, <1>6, <1>7, DrawsKeep, KeepsOn

\* Some cells of row r of terminal i are written, and marked or drawn when the terminal is shown.
RowWritten(s, d, i, r) ==
  \E z, changed :
    /\ TtyOK(z) /\ SameHistory(s.tty[i], z) /\ z.off = s.tty[i].off
    /\ \A q \in Rows, k \in Cols : (q = r /\ k \in changed) \/ z.cells[q][k] = s.tty[i].cells[q][k]
    /\ LET e == [s EXCEPT !.tty[i] = z] IN d = IF i = s.active THEN draw_changed(e, i, r, changed) ELSE e

LEMMA RowWrittenKeeps ==
  ASSUME NEW s, ScreenOK(s), NEW d, NEW i \in Ttys, NEW r \in Rows, RowWritten(s, d, i, r)
  PROVE  Keeps(s, d, i)
<1>1. PICK z, changed :
        /\ TtyOK(z) /\ SameHistory(s.tty[i], z)
        /\ LET e == [s EXCEPT !.tty[i] = z] IN d = IF i = s.active THEN draw_changed(e, i, r, changed) ELSE e
  BY DEF RowWritten
<1> DEFINE e == [s EXCEPT !.tty[i] = z]
<1>2. d = IF i = s.active THEN draw_changed(e, i, r, changed) ELSE e
  BY <1>1
<1>3. Keeps(s, e, i)
  BY <1>1, SetTty DEF Keeps
<1> HIDE DEF e
<1>4. Draws(e, draw_changed(e, i, r, changed))
  BY <1>3, ChangedDraws DEF Keeps, Writes
<1> QED BY <1>2, <1>3, <1>4, DrawsKeep, KeepsOn

LEMMA PutVisibleIs ==
  ASSUME NEW s, ScreenOK(s), NEW i \in Ttys, NEW r \in Rows, NEW c \in Cols, NEW ch \in Byte
  PROVE  RowWritten(s, put_visible(s, i, r, c, ch), i, r)
<1> DEFINE y == s.tty[i]
           style == (IF y.bold THEN {"bold"} ELSE {}) \cup (IF y.underline THEN {"underline"} ELSE {})
           cell == IF y.inverse THEN <<ch, y.bg, y.fg, style>> ELSE <<ch, y.fg, y.bg, style>>
           z == [y EXCEPT !.cells[r][c] = cell]
           d == [s EXCEPT !.tty[i] = z]
<1>1. y \in TtyRec /\ y.fg \in Nat /\ y.bg \in Nat
  BY TtyFields DEF TtyRec
<1>2. cell \in Cell
  BY <1>1 DEF Cell
<1>3. put_visible(s, i, r, c, ch) = IF i = s.active THEN draw_changed(d, i, r, {c}) ELSE d
  BY DEF put_visible
<1> HIDE DEF cell
<1>4. TtyOK(z) /\ SameHistory(y, z) /\ z.off = y.off
  <2>1. TtyOK(y)
    BY TtyFields
  <2> HIDE DEF y
  <2>2. z \in TtyRec /\ SameHistory(y, z) /\ z.off = y.off /\ z.params = y.params
    BY <1>1, <1>2 DEF TtyRec, Grid, Row, SameHistory
  <2> HIDE DEF z
  <2> QED BY <2>1, <2>2 DEF TtyOK, SameHistory
<1>5. \A q \in Rows, k \in Cols : (q = r /\ k \in {c}) \/ z.cells[q][k] = y.cells[q][k]
  <2> HIDE DEF y
  <2> QED BY <1>1 DEF TtyRec, Grid, Row
<1> HIDE DEF z
<1> QED BY <1>3, <1>4, <1>5 DEF RowWritten

LEMMA PutVisible ==
  ASSUME NEW s, ScreenOK(s), NEW i \in Ttys, NEW r \in Rows, NEW c \in Cols, NEW ch \in Byte
  PROVE  Keeps(s, put_visible(s, i, r, c, ch), i)
  BY PutVisibleIs, RowWrittenKeeps

LEMMA NextLine ==
  ASSUME NEW s, ScreenOK(s), NEW i \in Ttys PROVE MayPush(s, next_line(s, i), i)
<1> DEFINE d == [s EXCEPT !.tty[i].col = 0]
           below == d.tty[i].row + 1
           last == content_rows - 1
           u == scroll_up(d, i)
<1>1. Keeps(s, d, i)
  BY SetCol, Sizes
<1>2. ScreenOK(d)
  BY <1>1 DEF Keeps, Writes
<1>3. next_line(s, i) = IF s.tty[i].row + 1 < content_rows THEN [d EXCEPT !.tty[i].row = below]
                        ELSE [u EXCEPT !.tty[i].row = last]
  BY DEF next_line
<1>4. d.tty[i].row = s.tty[i].row
  BY TtyFields DEF ScreenRec, TtyRec
<1>5. last \in Rows /\ (s.tty[i].row + 1 < content_rows => below \in Rows)
  BY <1>4, TtyFields, Sizes DEF Rows
<1> HIDE DEF d, below, last
<1>6. MayPush(d, u, i) /\ ScreenOK(u)
  BY <1>2, ScrollUp DEF MayPush, Writes
<1> HIDE DEF u
<1>7. CASE s.tty[i].row + 1 < content_rows
  BY <1>1, <1>2, <1>3, <1>5, <1>7, SetRow, KeepsOn
<1>8. CASE ~(s.tty[i].row + 1 < content_rows)
  <2>1. Keeps(u, [u EXCEPT !.tty[i].row = last], i)
    BY <1>5, <1>6, SetRow
  <2> QED BY <1>1, <1>3, <1>6, <1>8, <2>1, KeepsOn
<1> QED BY <1>7, <1>8

LEMMA PutGlyph ==
  ASSUME NEW s, ScreenOK(s), NEW i \in Ttys, NEW ch \in Byte PROVE MayPush(s, put_glyph(s, i, ch), i)
<1> DEFINE y == s.tty[i]
           d == put_visible(s, i, y.row, y.col, ch)
           right == d.tty[i].col + 1
<1>1. Keeps(s, d, i) /\ ScreenOK(d)
  BY TtyFields, PutVisible DEF Keeps, Writes
<1>2. put_glyph(s, i, ch) = IF y.col + 1 < TTY_COLS THEN [d EXCEPT !.tty[i].col = right] ELSE next_line(d, i)
  BY DEF put_glyph
<1>3. d.tty[i].col = y.col
  BY TtyFields DEF put_visible, draw_changed, dirty_mark_row, ScreenRec, TtyRec
<1>4. y.col + 1 < TTY_COLS => right \in Cols
  BY <1>3, TtyFields, Sizes DEF Cols
<1> HIDE DEF y, d, right
<1>5. MayPush(d, next_line(d, i), i)
  BY <1>1, NextLine
<1> QED BY <1>1, <1>2, <1>4, <1>5, SetCol, KeepsOn

LEMMA Backspace ==
  ASSUME NEW s, ScreenOK(s), NEW i \in Ttys PROVE Keeps(s, backspace(s, i), i)
<1> DEFINE y == s.tty[i]
           r == IF y.col = 0 THEN y.row - 1 ELSE y.row
           c == IF y.col = 0 THEN TTY_COLS - 1 ELSE y.col - 1
           d == put_visible(s, i, r, c, SPACE)
           e == [d EXCEPT !.tty[i].row = r]
<1>1. CASE y.col = 0 /\ y.row = 0
  BY <1>1, DrawsNothing, DrawsKeep DEF backspace
<1>2. CASE ~(y.col = 0 /\ y.row = 0)
  <2>1. r \in Rows /\ c \in Cols /\ SPACE \in Byte
    BY <1>2, TtyFields, Sizes DEF Rows, Cols, SPACE, Byte
  <2>2. backspace(s, i) = [e EXCEPT !.tty[i].col = c]
    BY <1>2 DEF backspace
  <2> HIDE DEF r, c
  <2>3. Keeps(s, d, i) /\ ScreenOK(d)
    BY <2>1, PutVisible DEF Keeps, Writes
  <2> HIDE DEF d
  <2>4. Keeps(d, e, i) /\ ScreenOK(e)
    BY <2>1, <2>3, SetRow DEF Keeps, Writes
  <2> HIDE DEF e
  <2>5. Keeps(e, [e EXCEPT !.tty[i].col = c], i)
    BY <2>1, <2>4, SetCol
  <2> QED BY <2>2, <2>3, <2>4, <2>5, KeepsOn
<1> QED BY <1>1, <1>2

\* A tab is four spaces.
Tab(s, i) == LET sp[k \in 0 .. 4] == IF k = 0 THEN s ELSE put_glyph(sp[k - 1], i, SPACE) IN sp

\* Four glyphs one after the other.
TabSteps(u, s, i) == u[0] = s /\ \A k \in 1 .. 4 : u[k] = put_glyph(u[k - 1], i, SPACE)

LEMMA TabIs == ASSUME NEW s, NEW i PROVE TabSteps(Tab(s, i), s, i)
<1> DEFINE R(f) == [k \in 0 .. 4 |-> IF k = 0 THEN s ELSE put_glyph(f[k - 1], i, SPACE)]
           a == put_glyph(s, i, SPACE)
           b == put_glyph(a, i, SPACE)
           c == put_glyph(b, i, SPACE)
           d == put_glyph(c, i, SPACE)
           g == [k \in 0 .. 4 |-> CASE k = 0 -> s [] k = 1 -> a [] k = 2 -> b [] k = 3 -> c [] OTHER -> d]
           u == CHOOSE f : f = R(f)
<1>1. g = R(g)
  <2> HIDE DEF a, b, c, d
  <2>1. \A k \in 0 .. 4 : k \in {0, 1, 2, 3, 4}
    OBVIOUS
  <2>2. g[0] = s /\ g[1] = a /\ g[2] = b /\ g[3] = c /\ g[4] = d
    OBVIOUS
  <2>3. /\ a = put_glyph(g[0], i, SPACE) /\ b = put_glyph(g[1], i, SPACE) /\ c = put_glyph(g[2], i, SPACE)
        /\ d = put_glyph(g[3], i, SPACE)
    BY <2>2 DEF a, b, c, d
  <2> HIDE DEF g
  <2>4. \A k \in 0 .. 4 : g[k] = IF k = 0 THEN s ELSE put_glyph(g[k - 1], i, SPACE)
    BY <2>1, <2>2, <2>3
  <2>5. g = [k \in 0 .. 4 |-> g[k]]
    BY DEF g
  <2> QED BY <2>4, <2>5
<1>2. u = R(u)
  <2> HIDE DEF R, g
  <2> QED BY <1>1
<1> HIDE DEF u
<1>3. \A k \in 0 .. 4 : u[k] = IF k = 0 THEN s ELSE put_glyph(u[k - 1], i, SPACE)
  BY <1>2
<1>4. TabSteps(u, s, i)
  BY <1>3 DEF TabSteps
<1> QED BY <1>4 DEF Tab, u

LEMMA TabWrites ==
  ASSUME NEW s, ScreenOK(s), NEW i \in Ttys
  PROVE  \E a, b, c : MayPush(s, a, i) /\ MayPush(a, b, i) /\ MayPush(b, c, i) /\ MayPush(c, Tab(s, i)[4], i)
<1> DEFINE u == Tab(s, i)
<1>1. TabSteps(u, s, i)
  BY TabIs
<1> HIDE DEF u
<1>2. u[0] = s /\ u[1] = put_glyph(u[0], i, SPACE) /\ u[2] = put_glyph(u[1], i, SPACE) /\ u[3] = put_glyph(u[2], i, SPACE)
      /\ u[4] = put_glyph(u[3], i, SPACE) /\ SPACE \in Byte
  BY <1>1 DEF TabSteps, SPACE, Byte
<1>3. MayPush(s, u[1], i) /\ ScreenOK(u[1])
  BY <1>2, PutGlyph DEF MayPush, Writes
<1>4. MayPush(u[1], u[2], i) /\ ScreenOK(u[2])
  BY <1>2, <1>3, PutGlyph DEF MayPush, Writes
<1>5. MayPush(u[2], u[3], i) /\ ScreenOK(u[3])
  BY <1>2, <1>4, PutGlyph DEF MayPush, Writes
<1>6. MayPush(u[3], u[4], i)
  BY <1>2, <1>5, PutGlyph
<1> QED BY <1>3, <1>4, <1>5, <1>6 DEF u

\* What a character does: it pushes a row at most, unless it is a tab.
Four(s, d, i) == \E a, b, c : MayPush(s, a, i) /\ MayPush(a, b, i) /\ MayPush(b, c, i) /\ MayPush(c, d, i)

LEMMA PutCharRaw ==
  ASSUME NEW s, ScreenOK(s), NEW i \in Ttys, NEW ch \in Byte
  PROVE  IF ch = 9 THEN Four(s, put_char_raw(s, i, ch), i) ELSE MayPush(s, put_char_raw(s, i, ch), i)
<1>1. CASE ch = 13
  <2>1. put_char_raw(s, i, ch) = [s EXCEPT !.tty[i].col = 0]
    BY <1>1 DEF put_char_raw
  <2> QED BY <1>1, <2>1, SetCol, Sizes, KeepsOn
<1>2. CASE ch = 10
  BY <1>2, NextLine DEF put_char_raw
<1>3. CASE ch = 8
  BY <1>3, Backspace, KeepsOn DEF put_char_raw
<1>4. CASE ch = 9
  <2>1. put_char_raw(s, i, ch) = Tab(s, i)[4]
    BY <1>4 DEF put_char_raw, Tab
  <2> QED BY <1>4, <2>1, TabWrites DEF Four
<1>5. CASE ch \notin {8, 9, 10, 13}
  BY <1>5, PutGlyph DEF put_char_raw
<1> QED BY <1>1, <1>2, <1>3, <1>4, <1>5

-----------------------------------------------------------------------------
(* ANSI sequences. *)

Value == 0 .. U32 - 1
Parsed == [value : Value, out : Seq(Value)]

\* Whatever the digits, a parameter is a u32 number.
LEMMA ParamsParsed == ASSUME NEW ps \in Seq(Byte) PROVE parse_params(ps) \in Seq(Value)
<1> DEFINE Step(a, ch) ==
             IF ch \in Digits THEN [a EXCEPT !.value = (@ * 10 + ch - 48) % U32]
             ELSE IF ch = 59 THEN [value |-> 0, out |-> IF Len(a.out) < 16 THEN Append(a.out, a.value) ELSE a.out]
             ELSE a
           byte(k) == IF k <= Len(ps) THEN ps[k] ELSE 59
           zero == [value |-> 0, out |-> <<>>]
           N == Len(ps) + 1
           R(f) == [k \in 0 .. N |-> IF k = 0 THEN zero ELSE Step(f[k - 1], byte(k))]
           run == CHOOSE f : f = R(f)
           step == [k \in 1 .. N |-> [a \in Parsed |-> Step(a, byte(k))]]
<1>1. Len(ps) \in Nat /\ N \in Nat
  BY LenProperties
<1>2. ASSUME NEW a \in Parsed, NEW ch \in Byte PROVE Step(a, ch) \in Parsed
  <2>1. a.value \in Value /\ a.out \in Seq(Value)
    BY DEF Parsed
  <2>2. CASE ch \in Digits
    <3> DEFINE sum == a.value * 10 + ch - 48
               v == sum % U32
    <3>1. sum \in Nat
      BY <2>1, <2>2, Sizes DEF Value, Digits
    <3> HIDE DEF sum
    <3>2. v \in Value
      BY <3>1, Sizes, ModRange DEF Value
    <3>3. Step(a, ch) = [a EXCEPT !.value = v]
      BY <2>2 DEF sum
    <3> HIDE DEF v
    <3> QED BY <3>2, <3>3 DEF Parsed
  <2>3. CASE ch \notin Digits /\ ch = 59
    <3> DEFINE out == IF Len(a.out) < 16 THEN Append(a.out, a.value) ELSE a.out
    <3>1. out \in Seq(Value)
      BY <2>1, AppendProperties
    <3>2. Step(a, ch) = [value |-> 0, out |-> out]
      BY <2>3
    <3> HIDE DEF out, Step
    <3> QED BY <3>1, <3>2, Sizes DEF Parsed, Value
  <2>4. CASE ch \notin Digits /\ ch # 59
    BY <2>4
  <2> QED BY <2>2, <2>3, <2>4
<1>3. \A k \in 1 .. N : byte(k) \in Byte
  <2> SUFFICES ASSUME NEW k \in 1 .. N PROVE byte(k) \in Byte
    OBVIOUS
  <2>1. CASE k <= Len(ps)
    BY <1>1, <2>1, ElementOfSeq
  <2>2. CASE ~(k <= Len(ps))
    BY <2>2 DEF Byte
  <2> QED BY <2>1, <2>2
<1>4. zero \in Parsed
  BY Sizes, EmptySeq DEF Parsed, Value
<1> HIDE DEF Step, zero, byte, N
<1>5. step \in [1 .. N -> [Parsed -> Parsed]]
  BY <1>2, <1>3
<1>6. PICK g \in [0 .. N -> Parsed] : iterates(g, zero, step, N)
  <2> HIDE DEF step
  <2> QED BY <1>1, <1>4, <1>5, IteratesExist
<1>7. g = R(g)
  <2>1. ASSUME NEW k \in 0 .. N PROVE g[k] = R(g)[k]
    <3>1. CASE k = 0
      BY <1>6, <3>1 DEF iterates
    <3>2. CASE k # 0
      <4>1. k \in 1 .. N /\ k - 1 \in 0 .. N
        BY <1>1, <3>2
      <4>2. g[k] = step[k][g[k - 1]] /\ g[k - 1] \in Parsed
        BY <1>6, <4>1 DEF iterates
      <4>3. step[k][g[k - 1]] = Step(g[k - 1], byte(k))
        BY <4>1, <4>2
      <4> HIDE DEF step
      <4> QED BY <3>2, <4>2, <4>3
    <3> QED BY <3>1, <3>2
  <2> QED BY <1>6, <2>1
<1>8. run = R(run)
  <2> HIDE DEF R
  <2> QED BY <1>7
<1> HIDE DEF run
<1>9. \A k \in 0 .. N : run[k] = IF k = 0 THEN zero ELSE Step(run[k - 1], byte(k))
  BY <1>8
<1> DEFINE H == {k \in 0 .. N : run[k] \in Parsed}
<1>10. 0 .. N \subseteq H
  <2>1. 0 \in H
    BY <1>1, <1>4, <1>9
  <2>2. ASSUME NEW k \in 1 .. N, k - 1 \in H PROVE k \in H
    <3>1. k \in 0 .. N /\ k # 0 /\ run[k - 1] \in Parsed
      BY <1>1, <2>2
    <3> QED BY <1>2, <1>3, <1>9, <3>1
  <2> HIDE DEF H
  <2> QED BY <1>1, <2>1, <2>2, UpTo
<1>11. run[N] \in Parsed
  BY <1>1, <1>10
<1>12. parse_params(ps) = run[N].out
  BY DEF parse_params, run, N, R, Step, zero, byte
<1> QED BY <1>11, <1>12 DEF Parsed

LEMMA Defaulted ==
  ASSUME NEW values \in Seq(Value), NEW k \in Nat \ {0}
  PROVE  param_or_default(values, k, 1) \in Nat \ {0}
<1>1. CASE k > Len(values)
  BY <1>1 DEF param_or_default
<1>2. CASE ~(k > Len(values))
  <2>1. k \in 1 .. Len(values)
    BY <1>2, LenProperties
  <2>2. values[k] \in Value
    BY <2>1, ElementOfSeq
  <2> QED BY <1>2, <2>2, Sizes DEF param_or_default, Value
<1> QED BY <1>1, <1>2

\* A change of terminal i that its text, its scrollback and its parser are no part of.
Styled(y, z) == TtyOK(z) /\ SameView(y, z) /\ z.params = y.params

LEMMA Moved ==
  ASSUME NEW y, TtyOK(y), NEW r \in Rows, NEW c \in Cols
  PROVE  /\ Styled(y, [y EXCEPT !.row = r, !.col = c])
         /\ Styled(y, [y EXCEPT !.row = r])
         /\ Styled(y, [y EXCEPT !.col = c])
         /\ Styled(y, [y EXCEPT !.saved_row = r, !.saved_col = c])
         /\ Styled(y, y)
<1>1. y \in TtyRec
  BY Fields
<1>2. Styled(y, [y EXCEPT !.row = r, !.col = c])
  BY <1>1 DEF Styled, TtyOK, TtyRec, SameView, SameHistory
<1>3. Styled(y, [y EXCEPT !.row = r])
  BY <1>1 DEF Styled, TtyOK, TtyRec, SameView, SameHistory
<1>4. Styled(y, [y EXCEPT !.col = c])
  BY <1>1 DEF Styled, TtyOK, TtyRec, SameView, SameHistory
<1>5. Styled(y, [y EXCEPT !.saved_row = r, !.saved_col = c])
  BY <1>1 DEF Styled, TtyOK, TtyRec, SameView, SameHistory
<1>6. Styled(y, y)
  BY DEF Styled, SameView, SameHistory
<1> QED BY <1>2, <1>3, <1>4, <1>5, <1>6

LEMMA Limits ==
  ASSUME NEW last \in Nat, NEW pos \in 0 .. last, NEW n \in Nat
  PROVE  /\ at_most(n, last) \in 0 .. last
         /\ back_by(pos, n) \in 0 .. last
         /\ forward_by(pos, n, last) \in 0 .. last
<1>1. pos + n \in Nat
  OBVIOUS
<1> DEFINE sum == pos + n
<1> HIDE DEF sum
<1>2. sum % U32 \in Nat
  BY <1>1, Sizes, ModRange DEF sum
<1>3. forward_by(pos, n, last) \in 0 .. last
  BY <1>2 DEF forward_by, Least, sum
<1>4. at_most(n, last) \in 0 .. last
  BY DEF at_most, Least
<1>5. back_by(pos, n) \in 0 .. last
  BY DEF back_by
<1> QED BY <1>3, <1>4, <1>5

\* However far a sequence moves the cursor, even past the modulus, it stays on the screen.
LEMMA CursorMoved ==
  ASSUME NEW y, TtyOK(y), NEW values \in Seq(Value), NEW final
  PROVE  Styled(y, move_cursor(y, values, final))
<1> DEFINE n == param_or_default(values, 1, 1)
           m == param_or_default(values, 2, 1)
           lastRow == content_rows - 1
           lastCol == TTY_COLS - 1
           z == move_cursor(y, values, final)
<1> SUFFICES Styled(y, z)
  OBVIOUS
<1>1. n \in Nat /\ m \in Nat /\ n - 1 \in Nat /\ m - 1 \in Nat
  <2>1. n \in Nat \ {0} /\ m \in Nat \ {0}
    BY Defaulted
  <2> HIDE DEF n, m
  <2> QED BY <2>1
<1>2. y.row \in Rows /\ y.col \in Cols /\ y.saved_row \in Rows /\ y.saved_col \in Cols
  BY Fields
<1>3. lastRow \in Nat /\ lastCol \in Nat /\ Rows = 0 .. lastRow /\ Cols = 0 .. lastCol /\ 0 \in Cols
  BY Sizes DEF Rows, Cols
<1>4. y.saved_row \in Nat /\ y.saved_col \in Nat
  BY <1>2, <1>3
<1>5. at_most(n - 1, lastRow) \in Rows /\ at_most(n - 1, lastCol) \in Cols /\ at_most(m - 1, lastCol) \in Cols
  <2> DEFINE back == n - 1
             aside == m - 1
  <2>1. back \in Nat /\ aside \in Nat
    BY <1>1
  <2> HIDE DEF n, m, lastRow, lastCol, back, aside
  <2>2. at_most(back, lastRow) \in Rows /\ at_most(back, lastCol) \in Cols /\ at_most(aside, lastCol) \in Cols
    BY <1>2, <1>3, <2>1, Limits
  <2> QED BY <2>2 DEF back, aside
<1>6. at_most(y.saved_row, lastRow) \in Rows /\ at_most(y.saved_col, lastCol) \in Cols
  <2> HIDE DEF n, m, lastRow, lastCol
  <2> QED BY <1>2, <1>3, <1>4, Limits
<1>7. back_by(y.row, n) \in Rows /\ forward_by(y.row, n, lastRow) \in Rows
  <2> HIDE DEF n, m, lastRow, lastCol
  <2> QED BY <1>1, <1>2, <1>3, Limits
<1>8. back_by(y.col, n) \in Cols /\ forward_by(y.col, n, lastCol) \in Cols
  <2> HIDE DEF n, m, lastRow, lastCol
  <2> QED BY <1>1, <1>2, <1>3, Limits
<1>9. CASE final \in {72, 102}
  <2> DEFINE r == at_most(n - 1, lastRow)
             c == at_most(m - 1, lastCol)
  <2>1. z = [y EXCEPT !.row = r, !.col = c]
    BY <1>9 DEF move_cursor
  <2>2. r \in Rows /\ c \in Cols
    BY <1>5
  <2> HIDE DEF r, c, z
  <2> QED BY <1>2, <2>1, <2>2, Moved
<1>10. CASE final = 65
  <2> DEFINE r == back_by(y.row, n)
  <2>1. z = [y EXCEPT !.row = r]
    BY <1>10 DEF move_cursor
  <2>2. r \in Rows
    BY <1>7
  <2> HIDE DEF r, z
  <2> QED BY <1>2, <2>1, <2>2, Moved
<1>11. CASE final = 66
  <2> DEFINE r == forward_by(y.row, n, lastRow)
  <2>1. z = [y EXCEPT !.row = r]
    BY <1>11 DEF move_cursor
  <2>2. r \in Rows
    BY <1>7
  <2> HIDE DEF r, z
  <2> QED BY <1>2, <2>1, <2>2, Moved
<1>12. CASE final = 67
  <2> DEFINE c == forward_by(y.col, n, lastCol)
  <2>1. z = [y EXCEPT !.col = c]
    BY <1>12 DEF move_cursor
  <2>2. c \in Cols
    BY <1>8
  <2> HIDE DEF c, z
  <2> QED BY <1>2, <2>1, <2>2, Moved
<1>13. CASE final = 68
  <2> DEFINE c == back_by(y.col, n)
  <2>1. z = [y EXCEPT !.col = c]
    BY <1>13 DEF move_cursor
  <2>2. c \in Cols
    BY <1>8
  <2> HIDE DEF c, z
  <2> QED BY <1>2, <2>1, <2>2, Moved
<1>14. CASE final = 69
  <2> DEFINE r == forward_by(y.row, n, lastRow)
  <2>1. z = [y EXCEPT !.row = r, !.col = 0]
    BY <1>14 DEF move_cursor
  <2>2. r \in Rows /\ 0 \in Cols
    BY <1>3, <1>7
  <2> HIDE DEF r, z
  <2> QED BY <1>2, <2>1, <2>2, Moved
<1>15. CASE final = 70
  <2> DEFINE r == back_by(y.row, n)
  <2>1. z = [y EXCEPT !.row = r, !.col = 0]
    BY <1>15 DEF move_cursor
  <2>2. r \in Rows /\ 0 \in Cols
    BY <1>3, <1>7
  <2> HIDE DEF r, z
  <2> QED BY <1>2, <2>1, <2>2, Moved
<1>16. CASE final = 71
  <2> DEFINE c == at_most(n - 1, lastCol)
  <2>1. z = [y EXCEPT !.col = c]
    BY <1>16 DEF move_cursor
  <2>2. c \in Cols
    BY <1>5
  <2> HIDE DEF c, z
  <2> QED BY <1>2, <2>1, <2>2, Moved
<1>17. CASE final = 100
  <2> DEFINE r == at_most(n - 1, lastRow)
  <2>1. z = [y EXCEPT !.row = r]
    BY <1>17 DEF move_cursor
  <2>2. r \in Rows
    BY <1>5
  <2> HIDE DEF r, z
  <2> QED BY <1>2, <2>1, <2>2, Moved
<1>18. CASE final = 115
  <2> DEFINE r == y.row
             c == y.col
  <2>1. z = [y EXCEPT !.saved_row = r, !.saved_col = c]
    BY <1>18 DEF move_cursor, save_cursor
  <2>2. r \in Rows /\ c \in Cols
    BY <1>2
  <2> HIDE DEF r, c, z
  <2> QED BY <1>2, <2>1, <2>2, Moved
<1>19. CASE final = 117
  <2> DEFINE r == at_most(y.saved_row, lastRow)
             c == at_most(y.saved_col, lastCol)
  <2>1. z = [y EXCEPT !.row = r, !.col = c]
    BY <1>19 DEF move_cursor, restore_cursor
  <2>2. r \in Rows /\ c \in Cols
    BY <1>6
  <2> HIDE DEF r, c, z
  <2> QED BY <1>2, <2>1, <2>2, Moved
<1>20. CASE final \notin {72, 102, 65, 66, 67, 68, 69, 70, 71, 100, 115, 117}
  <2>1. z = y
    BY <1>20 DEF move_cursor
  <2> HIDE DEF z
  <2> QED BY <1>2, <2>1, Moved
<1> QED BY <1>9, <1>10, <1>11, <1>12, <1>13, <1>14, <1>15, <1>16, <1>17, <1>18, <1>19, <1>20

LEMMA Coloured ==
  ASSUME NEW y, TtyOK(y), NEW v \in Nat, NEW b \in BOOLEAN
  PROVE  /\ Styled(y, [y EXCEPT !.fg = v]) /\ Styled(y, [y EXCEPT !.bg = v])
         /\ Styled(y, [y EXCEPT !.bold = b]) /\ Styled(y, [y EXCEPT !.underline = b])
         /\ Styled(y, [y EXCEPT !.inverse = b])
<1>1. y \in TtyRec
  BY Fields
<1>2. Styled(y, [y EXCEPT !.fg = v])
  BY <1>1 DEF Styled, TtyOK, TtyRec, SameView, SameHistory
<1>3. Styled(y, [y EXCEPT !.bg = v])
  BY <1>1 DEF Styled, TtyOK, TtyRec, SameView, SameHistory
<1>4. Styled(y, [y EXCEPT !.bold = b])
  BY <1>1 DEF Styled, TtyOK, TtyRec, SameView, SameHistory
<1>5. Styled(y, [y EXCEPT !.underline = b])
  BY <1>1 DEF Styled, TtyOK, TtyRec, SameView, SameHistory
<1>6. Styled(y, [y EXCEPT !.inverse = b])
  BY <1>1 DEF Styled, TtyOK, TtyRec, SameView, SameHistory
<1> QED BY <1>2, <1>3, <1>4, <1>5, <1>6

LEMMA StyledOn == ASSUME NEW x, NEW y, NEW z, Styled(x, y), Styled(y, z) PROVE Styled(x, z)
  BY DEF Styled, SameView, SameHistory

LEMMA Reset == ASSUME NEW y, TtyOK(y) PROVE Styled(y, reset_color_state(y))
<1> DEFINE z == reset_color_state(y)
<1>1. y \in TtyRec /\ FG \in Nat /\ BG \in Nat
  BY Fields DEF FG, BG
<1>2. /\ z \in TtyRec /\ z.off = y.off /\ z.params = y.params /\ z.ring = y.ring /\ z.head = y.head /\ z.count = y.count
      /\ z.cells = y.cells
  BY <1>1 DEF reset_color_state, TtyRec
<1> HIDE DEF z
<1>3. Styled(y, z)
  BY <1>2 DEF Styled, TtyOK, SameView, SameHistory
<1> QED BY <1>3 DEF z

LEMMA Palette == ASSUME NEW k \in 0 .. 15 PROVE ansi_palette(k) \in Nat
<1>1. k + 1 \in 1 .. 16
  OBVIOUS
<1>2. palette \in Seq(Nat) /\ Len(palette) = 16
  BY DEF palette
<1> QED BY <1>1, <1>2, ElementOfSeq DEF ansi_palette

LEMMA Palette256 == ASSUME NEW k \in Nat PROVE color_from_256(k) \in Nat
<1> DEFINE steps == <<0, 95, 135, 175, 215, 255>>
           n == k - 16
<1>1. CASE k < 16
  BY <1>1, Palette DEF color_from_256
<1>2. CASE ~(k < 16) /\ k <= 231
  <2>1. n \in 0 .. 215
    BY <1>2
  <2> HIDE DEF n
  <2>2. n \div 36 \in 0 .. 5 /\ n % 6 \in 0 .. 5 /\ n \div 6 \in Nat
    BY <2>1, Z3
  <2> DEFINE q == n \div 6
  <2>3. q % 6 \in 0 .. 5
    <3> HIDE DEF q
    <3> QED BY <2>2, Z3 DEF q
  <2>4. \A j \in 0 .. 5 : steps[j + 1] \in Nat
    OBVIOUS
  <2> DEFINE r == steps[(n \div 36) + 1]
             g == steps[(q % 6) + 1]
             b == steps[(n % 6) + 1]
  <2>5. r \in Nat /\ g \in Nat /\ b \in Nat
    BY <2>2, <2>3, <2>4
  <2>6. color_from_256(k) = r * 65536 + g * 256 + b
    BY <1>2 DEF color_from_256, n
  <2> HIDE DEF r, g, b
  <2> QED BY <2>5, <2>6
<1>3. CASE ~(k <= 231) /\ k <= 255
  BY <1>3 DEF color_from_256
<1>4. CASE ~(k <= 255)
  BY <1>4 DEF color_from_256, FG
<1> QED BY <1>1, <1>2, <1>3, <1>4

\* A code that takes no parameter of its own changes colours and styles only.
LEMMA SgrCode == ASSUME NEW y, TtyOK(y), NEW code \in Nat PROVE Styled(y, sgr_code(y, code))
<1> DEFINE z == sgr_code(y, code)
<1> SUFFICES Styled(y, z)
  OBVIOUS
<1>1. FG \in Nat /\ BG \in Nat
  BY DEF FG, BG
<1>2. CASE code = 0
  BY <1>2, Reset DEF sgr_code
<1>3. CASE code = 1
  <2>1. z = [y EXCEPT !.bold = TRUE]
    BY <1>3 DEF sgr_code
  <2> HIDE DEF z
  <2> QED BY <1>1, <2>1, Coloured
<1>4. CASE code = 4
  <2>1. z = [y EXCEPT !.underline = TRUE]
    BY <1>4 DEF sgr_code
  <2> HIDE DEF z
  <2> QED BY <1>1, <2>1, Coloured
<1>5. CASE code = 7
  <2>1. z = [y EXCEPT !.inverse = TRUE]
    BY <1>5 DEF sgr_code
  <2> HIDE DEF z
  <2> QED BY <1>1, <2>1, Coloured
<1>6. CASE code \in {21, 22}
  <2>1. z = [y EXCEPT !.bold = FALSE]
    BY <1>6 DEF sgr_code
  <2> HIDE DEF z
  <2> QED BY <1>1, <2>1, Coloured
<1>7. CASE code = 24
  <2>1. z = [y EXCEPT !.underline = FALSE]
    BY <1>7 DEF sgr_code
  <2> HIDE DEF z
  <2> QED BY <1>1, <2>1, Coloured
<1>8. CASE code = 27
  <2>1. z = [y EXCEPT !.inverse = FALSE]
    BY <1>8 DEF sgr_code
  <2> HIDE DEF z
  <2> QED BY <1>1, <2>1, Coloured
<1>9. CASE code = 39
  <2>1. z = [y EXCEPT !.fg = FG]
    BY <1>9 DEF sgr_code
  <2> HIDE DEF z
  <2> QED BY <1>1, <2>1, Coloured
<1>10. CASE code = 49
  <2>1. z = [y EXCEPT !.bg = BG]
    BY <1>10 DEF sgr_code
  <2> HIDE DEF z
  <2> QED BY <1>1, <2>1, Coloured
<1>11. CASE code \in 30 .. 37
  <2> DEFINE k == code - 30 + (IF y.bold THEN 8 ELSE 0)
             v == ansi_palette(k)
  <2>1. z = [y EXCEPT !.fg = v]
    BY <1>11 DEF sgr_code
  <2>2. k \in 0 .. 15
    BY <1>11
  <2> HIDE DEF z, k
  <2>3. v \in Nat
    BY <2>2, Palette
  <2> HIDE DEF v
  <2> QED BY <2>1, <2>3, Coloured
<1>12. CASE code \in 90 .. 97
  <2> DEFINE k == code - 82
             v == ansi_palette(k)
  <2>1. z = [y EXCEPT !.fg = v]
    BY <1>12 DEF sgr_code
  <2>2. k \in 0 .. 15
    BY <1>12
  <2> HIDE DEF z, k
  <2>3. v \in Nat
    BY <2>2, Palette
  <2> HIDE DEF v
  <2> QED BY <2>1, <2>3, Coloured
<1>13. CASE code \in 40 .. 47
  <2> DEFINE k == code - 40
             v == ansi_palette(k)
  <2>1. z = [y EXCEPT !.bg = v]
    BY <1>13 DEF sgr_code
  <2>2. k \in 0 .. 15
    BY <1>13
  <2> HIDE DEF z, k
  <2>3. v \in Nat
    BY <2>2, Palette
  <2> HIDE DEF v
  <2> QED BY <2>1, <2>3, Coloured
<1>14. CASE code \in 100 .. 107
  <2> DEFINE k == code - 92
             v == ansi_palette(k)
  <2>1. z = [y EXCEPT !.bg = v]
    BY <1>14 DEF sgr_code
  <2>2. k \in 0 .. 15
    BY <1>14
  <2> HIDE DEF z, k
  <2>3. v \in Nat
    BY <2>2, Palette
  <2> HIDE DEF v
  <2> QED BY <2>1, <2>3, Coloured
<1>15. CASE code \notin {0, 1, 4, 7, 21, 22, 24, 27, 39, 49} \cup (30 .. 37) \cup (90 .. 97) \cup (40 .. 47) \cup (100 .. 107)
  <2>1. z = y
    BY <1>15 DEF sgr_code
  <2> HIDE DEF z
  <2> QED BY <2>1 DEF Styled, SameView, SameHistory
<1> QED BY <1>2, <1>3, <1>4, <1>5, <1>6, <1>7, <1>8, <1>9, <1>10, <1>11, <1>12, <1>13, <1>14, <1>15

\* Neither do the codes that take colours, however many values follow or are missing.
LEMMA SgrApplied ==
  ASSUME NEW y, TtyOK(y), NEW values \in Seq(Value) PROVE Styled(y, apply_sgr_params(y, values))
<1> DEFINE n == Len(values)
           clamp(v) == Least(v, 255)
           Long(k) == values[k] \in {38, 48} /\ k + 1 <= n
           Used(k) == IF Long(k) /\ values[k + 1] = 5 /\ k + 2 <= n THEN 3
                      ELSE IF Long(k) /\ values[k + 1] = 2 /\ k + 4 <= n THEN 5 ELSE 1
           Colour(k) == IF Used(k) = 3 THEN color_from_256(values[k + 2])
                        ELSE clamp(values[k + 2]) * 65536 + clamp(values[k + 3]) * 256 + clamp(values[k + 4])
           One(a) == IF Used(a.i) = 1 THEN sgr_code(a.y, values[a.i])
                     ELSE IF values[a.i] = 38 THEN [a.y EXCEPT !.fg = Colour(a.i)]
                     ELSE [a.y EXCEPT !.bg = Colour(a.i)]
           first == [y |-> y, i |-> 1]
           Step(a) == IF a.i > n THEN a ELSE [y |-> One(a), i |-> a.i + Used(a.i)]
           R(f) == [k \in 0 .. n |-> IF k = 0 THEN first
                                     ELSE IF f[k - 1].i > n THEN f[k - 1]
                                     ELSE [y |-> One(f[k - 1]), i |-> f[k - 1].i + Used(f[k - 1].i)]]
           run == CHOOSE f : f = R(f)
           Styles == {z \in TtyRec : Styled(y, z)}
           Done == [y : Styles, i : Nat \ {0}]
           step == [k \in 1 .. n |-> [a \in Done |-> Step(a)]]
<1>1. n \in Nat /\ \A k \in 1 .. n : values[k] \in Nat
  BY LenProperties, ElementOfSeq, Sizes DEF Value
<1>2. \A k : Used(k) \in {1, 3, 5}
  OBVIOUS
<1>3. ASSUME NEW k \in 1 .. n, Used(k) # 1 PROVE Colour(k) \in Nat
  <2>1. CASE Used(k) = 3
    <3>1. k + 2 \in 1 .. n
      BY <1>1, <2>1
    <3>2. Colour(k) = color_from_256(values[k + 2])
      BY <2>1
    <3> HIDE DEF n, Colour
    <3> QED BY <1>1, <3>1, <3>2, Palette256
  <2>2. CASE Used(k) # 3
    <3>1. k + 2 \in 1 .. n /\ k + 3 \in 1 .. n /\ k + 4 \in 1 .. n
      BY <1>1, <1>3, <2>2
    <3> DEFINE r == clamp(values[k + 2])
               g == clamp(values[k + 3])
               b == clamp(values[k + 4])
    <3>2. r \in Nat /\ g \in Nat /\ b \in Nat
      <4>1. values[k + 2] \in Nat /\ values[k + 3] \in Nat /\ values[k + 4] \in Nat
        BY <1>1, <3>1
      <4> QED BY <4>1 DEF Least
    <3>3. Colour(k) = r * 65536 + g * 256 + b
      BY <2>2
    <3> HIDE DEF r, g, b, Colour
    <3> QED BY <3>2, <3>3
  <2> QED BY <2>1, <2>2
<1> HIDE DEF Used, Colour
<1>4. ASSUME NEW a \in Done, a.i <= n PROVE One(a) \in Styles
  <2>1. a.i \in 1 .. n /\ a.y \in TtyRec /\ Styled(y, a.y) /\ TtyOK(a.y)
    BY <1>1, <1>4 DEF Styled
  <2>2. \A z : Styled(a.y, z) => z \in Styles
    BY <2>1, StyledOn DEF Styled, TtyOK
  <2> DEFINE c == Colour(a.i)
  <2>3. CASE Used(a.i) = 1
    <3>1. One(a) = sgr_code(a.y, values[a.i])
      BY <2>3
    <3>2. Styled(a.y, sgr_code(a.y, values[a.i]))
      BY <1>1, <2>1, SgrCode
    <3> HIDE DEF One
    <3> QED BY <2>2, <3>1, <3>2
  <2>4. CASE Used(a.i) # 1
    <3>1. c \in Nat
      BY <1>3, <2>1, <2>4
    <3>2. One(a) = [a.y EXCEPT !.fg = c] \/ One(a) = [a.y EXCEPT !.bg = c]
      BY <2>4
    <3> HIDE DEF c, One
    <3>3. Styled(a.y, [a.y EXCEPT !.fg = c]) /\ Styled(a.y, [a.y EXCEPT !.bg = c])
      BY <2>1, <3>1, Coloured
    <3> QED BY <2>2, <3>2, <3>3
  <2> QED BY <2>3, <2>4
<1> HIDE DEF One
<1>5. ASSUME NEW a \in Done PROVE Step(a) \in Done
  <2>1. a.i \in Nat \ {0} /\ Used(a.i) \in Nat
    BY <1>2
  <2>2. CASE a.i > n
    BY <2>2
  <2>3. CASE ~(a.i > n)
    <3>1. One(a) \in Styles
      BY <1>1, <1>4, <2>1, <2>3
    <3>2. a.i + Used(a.i) \in Nat \ {0}
      BY <2>1
    <3> HIDE DEF Styles
    <3> QED BY <2>3, <3>1, <3>2
  <2> QED BY <2>2, <2>3
<1>6. first \in Done
  BY Fields DEF Styled, SameView, SameHistory
<1> HIDE DEF first, Done, n
<1>7. step \in [1 .. n -> [Done -> Done]]
  <2> HIDE DEF Step
  <2> QED BY <1>5
<1>8. PICK g \in [0 .. n -> Done] : iterates(g, first, step, n)
  <2> HIDE DEF step
  <2> QED BY <1>1, <1>6, <1>7, IteratesExist
<1>9. g = R(g)
  <2>1. ASSUME NEW k \in 0 .. n PROVE g[k] = R(g)[k]
    <3>1. CASE k = 0
      BY <1>8, <3>1 DEF iterates
    <3>2. CASE k # 0
      <4>1. k \in 1 .. n /\ k - 1 \in 0 .. n
        BY <1>1, <3>2
      <4>2. g[k] = step[k][g[k - 1]] /\ g[k - 1] \in Done
        BY <1>8, <4>1 DEF iterates
      <4>3. step[k][g[k - 1]] = Step(g[k - 1])
        BY <4>1, <4>2
      <4> HIDE DEF step
      <4> QED BY <3>2, <4>2, <4>3
    <3> QED BY <3>1, <3>2
  <2> QED BY <1>8, <2>1
<1>10. run = R(run)
  <2> HIDE DEF R
  <2> QED BY <1>9
<1> HIDE DEF run
<1>11. \A k \in 0 .. n : run[k] = IF k = 0 THEN first ELSE Step(run[k - 1])
  BY <1>10
<1> DEFINE H == {k \in 0 .. n : run[k] \in Done}
<1>12. 0 .. n \subseteq H
  <2>1. 0 \in H
    <3>1. 0 \in 0 .. n
      BY <1>1
    <3> HIDE DEF Step
    <3>2. run[0] = first
      BY <1>11, <3>1
    <3> QED BY <1>6, <3>1, <3>2
  <2>2. ASSUME NEW k \in 1 .. n, k - 1 \in H PROVE k \in H
    <3>1. k \in 0 .. n /\ k # 0 /\ run[k - 1] \in Done
      BY <1>1, <2>2
    <3> HIDE DEF Step
    <3> QED BY <1>5, <1>11, <3>1
  <2> HIDE DEF H
  <2> QED BY <1>1, <2>1, <2>2, UpTo
<1>13. run[n] \in Done
  BY <1>1, <1>12
<1>14. apply_sgr_params(y, values) = run[n].y
  BY DEF apply_sgr_params, run, n, R, first, One, Colour, Used
<1> HIDE DEF Styles
<1>15. run[n].y \in Styles
  BY <1>13 DEF Done
<1> QED BY <1>14, <1>15 DEF Styles

\* Erasing and drawing keep the scrollback, unless it is to be dropped.
Clears(s, d, i) == Writes(s, d, i) /\ (SameHistory(s.tty[i], d.tty[i]) \/ d.tty[i].count = 0)

\* Some of the cells of a terminal are blank now.
LEMMA Erase ==
  ASSUME NEW y, TtyOK(y), NEW g \in Grid
  PROVE  /\ TtyOK([y EXCEPT !.cells = g]) /\ SameHistory(y, [y EXCEPT !.cells = g])
         /\ [y EXCEPT !.cells = g].off = y.off /\ [y EXCEPT !.cells = g].cells = g
<1> DEFINE z == [y EXCEPT !.cells = g]
<1>1. y \in TtyRec
  BY Fields
<1>2. /\ z \in TtyRec /\ z.off = y.off /\ z.params = y.params /\ z.ring = y.ring /\ z.head = y.head /\ z.count = y.count
      /\ z.cells = g
  BY <1>1 DEF TtyRec
<1> HIDE DEF z
<1>3. TtyOK(z) /\ SameHistory(y, z) /\ z.off = y.off /\ z.cells = g
  BY <1>2 DEF TtyOK, SameHistory
<1> QED BY <1>3 DEF z

LEMMA SetStyled ==
  ASSUME NEW s, ScreenOK(s), NEW i \in Ttys, NEW y, Styled(s.tty[i], y)
  PROVE  Keeps(s, [s EXCEPT !.tty[i] = y], i) /\ ScreenOK([s EXCEPT !.tty[i] = y])
<1> DEFINE d == [s EXCEPT !.tty[i] = y]
<1>1. Writes(s, d, i) /\ d.tty[i] = y
  BY SetTty DEF Styled
<1> HIDE DEF d
<1>2. Keeps(s, d, i) /\ ScreenOK(d)
  BY <1>1 DEF Keeps, Styled, SameView, Writes
<1> QED BY <1>2 DEF d

LEMMA ClearLineIs ==
  ASSUME NEW s, ScreenOK(s), NEW i \in Ttys, NEW mode
  PROVE  RowWritten(s, clear_line_mode(s, i, mode), i, s.tty[i].row)
<1> DEFINE y == s.tty[i]
           Erased(r, c) == r = y.row /\ (mode = 0 => c >= y.col) /\ (mode = 1 => c <= y.col)
           g == [r \in Rows |-> [c \in Cols |-> IF Erased(r, c) THEN Blank ELSE y.cells[r][c]]]
           z == [y EXCEPT !.cells = g]
           d == [s EXCEPT !.tty[i] = z]
<1>1. TtyOK(y) /\ y \in TtyRec /\ y.row \in Rows
  BY TtyFields
<1>2. g \in Grid
  <2>1. y.cells \in Grid
    BY <1>1 DEF TtyRec
  <2> HIDE DEF Erased, y
  <2> QED BY <2>1, BlankCell DEF Grid, Row
<1>3. clear_line_mode(s, i, mode) = IF i = s.active THEN draw_changed(d, i, y.row, {c \in Cols : Erased(y.row, c)}) ELSE d
  <2>1. d = [s EXCEPT !.tty[i].cells = g]
    OBVIOUS
  <2> QED BY <2>1 DEF clear_line_mode, clear_cells
<1>4. \A q \in Rows, k \in Cols : (q = y.row /\ k \in {c \in Cols : Erased(y.row, c)}) \/ g[q][k] = y.cells[q][k]
  OBVIOUS
<1> HIDE DEF g, Erased
<1>5. TtyOK(z) /\ SameHistory(y, z) /\ z.off = y.off /\ z.cells = g
  BY <1>1, <1>2, Erase
<1> HIDE DEF z
<1> QED BY <1>3, <1>4, <1>5 DEF RowWritten

LEMMA ClearLine ==
  ASSUME NEW s, ScreenOK(s), NEW i \in Ttys, NEW mode PROVE Keeps(s, clear_line_mode(s, i, mode), i)
  BY ClearLineIs, RowWrittenKeeps, TtyFields

\* Terminal i is rewritten, and redrawn when it is shown.
Rewritten(s, d, i) ==
  \E z : /\ TtyOK(z) /\ (SameHistory(s.tty[i], z) \/ z.count = 0)
         /\ LET e == [s EXCEPT !.tty[i] = z] IN d = IF i = s.active THEN redraw_active(e) ELSE e

LEMMA ClearScreenIs ==
  ASSUME NEW s, ScreenOK(s), NEW i \in Ttys, NEW mode PROVE Rewritten(s, clear_screen_mode(s, i, mode), i)
<1> DEFINE y == s.tty[i]
           Before(r, c) == r < y.row \/ (r = y.row /\ c <= y.col)
           After(r, c) == r > y.row \/ (r = y.row /\ c >= y.col)
           Erased(r, c) == (mode = 0 => After(r, c)) /\ (mode = 1 => Before(r, c))
           g == [r \in Rows |-> [c \in Cols |-> IF Erased(r, c) THEN Blank ELSE y.cells[r][c]]]
           cleared == [y EXCEPT !.cells = g]
           z == IF mode = 3 THEN drop_scrollback(cleared) ELSE cleared
           d == [s EXCEPT !.tty[i] = z]
<1>1. TtyOK(y) /\ y \in TtyRec /\ y.row \in Rows
  BY TtyFields
<1>2. g \in Grid
  <2>1. y.cells \in Grid
    BY <1>1 DEF TtyRec
  <2> HIDE DEF Erased, y
  <2> QED BY <2>1, BlankCell DEF Grid, Row
<1>3. clear_screen_mode(s, i, mode) = IF i = s.active THEN redraw_active(d) ELSE d
  BY DEF clear_screen_mode, clear_cells
<1> HIDE DEF g
<1>4. TtyOK(cleared) /\ SameHistory(y, cleared)
  BY <1>1, <1>2, Erase
<1> HIDE DEF cleared
<1>5. TtyOK(z) /\ (SameHistory(y, z) \/ z.count = 0)
  <2>1. CASE mode = 3
    <3> DEFINE e == drop_scrollback(cleared)
    <3>1. cleared \in TtyRec /\ TtyOK(cleared)
      BY <1>4 DEF TtyOK
    <3>2. 0 \in 0 .. SCROLLBACK_LINES - 1 /\ 0 \in 0 .. SCROLLBACK_LINES
      BY Sizes
    <3>3. e \in TtyRec /\ e.head = 0 /\ e.count = 0 /\ e.off = 0 /\ e.params = cleared.params
      BY <3>1, <3>2 DEF drop_scrollback, TtyRec
    <3> HIDE DEF e
    <3>4. TtyOK(e) /\ e.count = 0
      BY <3>1, <3>3 DEF TtyOK
    <3> QED BY <2>1, <3>4 DEF e
  <2>2. CASE mode # 3
    BY <1>4, <2>2
  <2> QED BY <2>1, <2>2
<1> HIDE DEF z
<1> QED BY <1>3, <1>5 DEF Rewritten

LEMMA ClearScreen ==
  ASSUME NEW s, ScreenOK(s), NEW i \in Ttys, NEW mode
  PROVE  Clears(s, clear_screen_mode(s, i, mode), i)
<1> DEFINE e == clear_screen_mode(s, i, mode)
<1> SUFFICES Clears(s, e, i)
  OBVIOUS
<1>0. Rewritten(s, e, i)
  BY ClearScreenIs
<1> HIDE DEF e
<1>1. PICK z : /\ TtyOK(z) /\ (SameHistory(s.tty[i], z) \/ z.count = 0)
               /\ LET d == [s EXCEPT !.tty[i] = z] IN e = IF i = s.active THEN redraw_active(d) ELSE d
  BY <1>0 DEF Rewritten
<1> DEFINE d == [s EXCEPT !.tty[i] = z]
<1>2. e = IF i = s.active THEN redraw_active(d) ELSE d
  BY <1>1
<1>3. Writes(s, d, i) /\ d.tty[i] = z
  BY <1>1, SetTty
<1> HIDE DEF d
<1>4. Clears(s, d, i) /\ ScreenOK(d)
  BY <1>1, <1>3 DEF Clears, Writes
<1>5. Draws(d, redraw_active(d))
  BY <1>4, RedrawDraws
<1>6. Clears(s, redraw_active(d), i)
  BY <1>4, <1>5 DEF Clears, Draws, Writes
<1> QED BY <1>2, <1>4, <1>6

LEMMA Blinks ==
  ASSUME NEW s, ScreenOK(s), NEW i \in Ttys
  PROVE  Keeps(s, show_cursor(s, i), i) /\ Keeps(s, mute_cursor(s, i), i)
<1>1. ASSUME NEW b \in BOOLEAN PROVE Draws(s, [s EXCEPT !.blink = b])
  <2> DEFINE d == [s EXCEPT !.blink = b]
  <2>1. s \in ScreenRec
    BY DEF ScreenOK
  <2>2. d \in ScreenRec /\ d.active = s.active /\ d.tty = s.tty
    BY <2>1 DEF ScreenRec
  <2> HIDE DEF d
  <2>3. Draws(s, d)
    BY <2>2 DEF Draws, ScreenOK
  <2> QED BY <2>3 DEF d
<1>2. Draws(s, show_cursor(s, i))
  <2> DEFINE d == [s EXCEPT !.blink = TRUE]
  <2>1. Draws(s, d)
    BY <1>1
  <2>2. show_cursor(s, i) = IF i = s.active THEN draw_cursor(d) ELSE d
    BY DEF show_cursor
  <2> HIDE DEF d
  <2>3. Draws(d, draw_cursor(d))
    BY <2>1, CursorDraws DEF Draws
  <2> QED BY <2>1, <2>2, <2>3, DrawsOn
<1>3. Draws(s, mute_cursor(s, i))
  <2> DEFINE d == [s EXCEPT !.blink = FALSE]
  <2>1. Draws(s, d)
    BY <1>1
  <2>2. mute_cursor(s, i) = IF i = s.active THEN hide_cursor(d) ELSE d
    BY DEF mute_cursor
  <2> HIDE DEF d
  <2>3. Draws(d, hide_cursor(d))
    BY <2>1, HideDraws DEF Draws
  <2> QED BY <2>1, <2>2, <2>3, DrawsOn
<1> QED BY <1>2, <1>3, DrawsKeep

\* What a sequence can do to the terminal: its colours or its cursor change, some of its
\* cells are erased, or the cursor is shown or hidden.
SequenceDone(s, d, i) ==
  \/ \E z : Styled(s.tty[i], z) /\ d = [s EXCEPT !.tty[i] = z]
  \/ \E mode : d = clear_screen_mode(s, i, mode)
  \/ \E mode : d = clear_line_mode(s, i, mode)
  \/ d = show_cursor(s, i) \/ d = mute_cursor(s, i)

LEMMA CsiFinalIs ==
  ASSUME NEW s, ScreenOK(s), NEW i \in Ttys, NEW params \in Seq(Byte), NEW final
  PROVE  SequenceDone(s, process_csi_final(s, i, params, final), i)
<1> DEFINE values == parse_params(params)
           private == params # <<>> /\ Head(params) = 63
           y == s.tty[i]
           d == process_csi_final(s, i, params, final)
<1>1. values \in Seq(Value) /\ TtyOK(y)
  BY ParamsParsed, TtyFields
<1> SUFFICES SequenceDone(s, d, i)
  OBVIOUS
<1>3. CASE final = 109
  <2> DEFINE z == apply_sgr_params(y, values)
  <2>1. d = [s EXCEPT !.tty[i] = z]
    BY <1>3 DEF process_csi_final
  <2> HIDE DEF values, d
  <2>2. Styled(y, z)
    BY <1>1, SgrApplied
  <2> HIDE DEF z
  <2> QED BY <2>1, <2>2 DEF SequenceDone
<1>4. CASE final = 74
  <2>1. d = clear_screen_mode(s, i, values[1])
    BY <1>4 DEF process_csi_final
  <2> HIDE DEF d
  <2> QED BY <2>1 DEF SequenceDone
<1>5. CASE final = 75
  <2>1. d = clear_line_mode(s, i, values[1])
    BY <1>5 DEF process_csi_final
  <2> HIDE DEF d
  <2> QED BY <2>1 DEF SequenceDone
<1>6. CASE final \in {104, 108} /\ private /\ values[1] = 25
  <2>1. d = show_cursor(s, i) \/ d = mute_cursor(s, i)
    BY <1>6 DEF process_csi_final
  <2> HIDE DEF d
  <2> QED BY <2>1 DEF SequenceDone
<1>7. CASE final \notin {109, 74, 75} /\ ~(final \in {104, 108} /\ private /\ values[1] = 25)
  <2> DEFINE z == move_cursor(y, values, final)
  <2>1. d = [s EXCEPT !.tty[i] = z]
    BY <1>7 DEF process_csi_final
  <2> HIDE DEF values, d
  <2>2. Styled(y, z)
    BY <1>1, CursorMoved
  <2> HIDE DEF z
  <2> QED BY <2>1, <2>2 DEF SequenceDone
<1> QED BY <1>3, <1>4, <1>5, <1>6, <1>7

LEMMA CsiFinal ==
  ASSUME NEW s, ScreenOK(s), NEW i \in Ttys, NEW params \in Seq(Byte), NEW final
  PROVE  Clears(s, process_csi_final(s, i, params, final), i)
<1> DEFINE d == process_csi_final(s, i, params, final)
<1>1. SequenceDone(s, d, i)
  BY CsiFinalIs
<1> HIDE DEF d
<1>2. Keeps(s, d, i) => Clears(s, d, i)
  BY DEF Keeps, Clears
<1>3. ASSUME NEW z, Styled(s.tty[i], z), d = [s EXCEPT !.tty[i] = z] PROVE Keeps(s, d, i)
  BY <1>3, SetStyled
<1>4. Clears(s, d, i)
  BY <1>1, <1>2, <1>3, ClearScreen, ClearLine, Blinks DEF SequenceDone
<1> QED BY <1>4 DEF d

\* The parser of a terminal is part of it: its scrollback is not touched by a step of it.
LEMMA ParserStep ==
  ASSUME NEW y, TtyOK(y), NEW e \in {"text", "escape", "csi"}, NEW ps \in Seq(Byte), Len(ps) <= ANSI_MAX_LEN
  PROVE  /\ TtyOK([y EXCEPT !.esc = e, !.params = ps])
         /\ SameView(y, [y EXCEPT !.esc = e, !.params = ps])
<1> DEFINE z == [y EXCEPT !.esc = e, !.params = ps]
<1>1. y \in TtyRec
  BY Fields
<1>2. /\ z \in TtyRec /\ z.off = y.off /\ z.params = ps /\ z.ring = y.ring /\ z.head = y.head /\ z.count = y.count
      /\ z.cells = y.cells
  BY <1>1 DEF TtyRec
<1> HIDE DEF z
<1>3. TtyOK(z) /\ SameView(y, z)
  BY <1>2 DEF TtyOK, SameView, SameHistory
<1> QED BY <1>3 DEF z

LEMMA ParserReset ==
  ASSUME NEW y, TtyOK(y) PROVE TtyOK(reset_ansi_state(y)) /\ SameView(y, reset_ansi_state(y))
<1>1. <<>> \in Seq(Byte) /\ Len(<<>>) <= ANSI_MAX_LEN
  BY EmptySeq, Sizes
<1> QED BY <1>1, ParserStep DEF reset_ansi_state

LEMMA SetParser ==
  ASSUME NEW s, ScreenOK(s), NEW i \in Ttys, NEW y, TtyOK(y), SameHistory(s.tty[i], y)
  PROVE  Keeps(s, [s EXCEPT !.tty[i] = y], i)
<1> DEFINE d == [s EXCEPT !.tty[i] = y]
<1>1. Writes(s, d, i) /\ d.tty[i] = y
  BY SetTty
<1> HIDE DEF d
<1>2. Keeps(s, d, i)
  BY <1>1 DEF Keeps
<1> QED BY <1>2 DEF d

\* A byte is text, a step of the parser, or the end of a sequence.
Parsing(s, d, i) == \E z : TtyOK(z) /\ SameView(s.tty[i], z) /\ d = [s EXCEPT !.tty[i] = z]
ByteDone(s, d, i, ch) ==
  \/ d = put_char_raw(s, i, ch) \/ Parsing(s, d, i)
  \/ \E f : SequenceDone(s, f, i) /\ Clears(s, f, i) /\ Parsing(f, d, i)

LEMMA ByteIs ==
  ASSUME NEW s, ScreenOK(s), NEW i \in Ttys, NEW ch \in Byte
  PROVE  ByteDone(s, process_byte(s, i, ch), i, ch)
<1> DEFINE y == s.tty[i]
           d == process_byte(s, i, ch)
<1> SUFFICES ByteDone(s, d, i, ch)
  OBVIOUS
<1>1. TtyOK(y) /\ y \in TtyRec /\ y.params \in Seq(Byte) /\ Len(y.params) <= ANSI_MAX_LEN
  BY TtyFields, Fields
<1>2. y.esc \in {"text", "escape", "csi"} /\ <<>> \in Seq(Byte) /\ Len(<<>>) <= ANSI_MAX_LEN
  BY <1>1, EmptySeq, Sizes DEF TtyRec
<1>4. \A z : TtyOK(z) /\ SameView(y, z) /\ d = [s EXCEPT !.tty[i] = z] => ByteDone(s, d, i, ch)
  <2> HIDE DEF d
  <2> QED BY DEF ByteDone, Parsing
<1>5. CASE y.esc = "text" /\ ch # ESC
  <2>1. d = put_char_raw(s, i, ch)
    BY <1>5 DEF process_byte
  <2> HIDE DEF d
  <2> QED BY <2>1 DEF ByteDone
<1>6. CASE y.esc = "text" /\ ch = ESC
  <2> DEFINE z == [y EXCEPT !.esc = "escape", !.params = <<>>]
  <2>1. d = [s EXCEPT !.tty[i] = z]
    BY <1>6 DEF process_byte
  <2>2. TtyOK(z) /\ SameView(y, z)
    BY <1>1, <1>2, ParserStep
  <2> HIDE DEF z, d
  <2> QED BY <1>4, <2>1, <2>2
<1>7. CASE y.esc = "escape"
  <2> DEFINE z == CASE ch = 91 -> [y EXCEPT !.esc = "csi"]
                    [] ch = 55 -> reset_ansi_state(save_cursor(y))
                    [] ch = 56 -> reset_ansi_state(restore_cursor(y))
                    [] OTHER   -> reset_ansi_state(y)
  <2>1. d = [s EXCEPT !.tty[i] = z]
    BY <1>7 DEF process_byte
  <2>2. CASE ch = 91
    <3> DEFINE e == [y EXCEPT !.esc = "csi"]
    <3>1. z = e
      BY <2>2
    <3>2. e = [y EXCEPT !.esc = "csi", !.params = y.params]
      BY <1>1 DEF TtyRec
    <3> HIDE DEF e, z
    <3>3. TtyOK(z) /\ SameView(y, z)
      BY <1>1, <3>1, <3>2, ParserStep
    <3> HIDE DEF d
    <3> QED BY <1>4, <2>1, <3>3
  <2>3. CASE ch # 91
    <3>1. Styled(y, save_cursor(y)) /\ Styled(y, restore_cursor(y)) /\ Styled(y, y)
      <4> DEFINE r == at_most(y.saved_row, content_rows - 1)
                 c == at_most(y.saved_col, TTY_COLS - 1)
      <4>1. /\ content_rows - 1 \in Nat /\ TTY_COLS - 1 \in Nat
            /\ Rows = 0 .. content_rows - 1 /\ Cols = 0 .. TTY_COLS - 1
            /\ y.saved_row \in Nat /\ y.saved_col \in Nat /\ y.row \in Rows /\ y.col \in Cols
        BY <1>1, Fields, Sizes DEF Rows, Cols
      <4>2. r \in Rows /\ c \in Cols
        BY <4>1, Limits
      <4> DEFINE save == save_cursor(y)
                 back == restore_cursor(y)
                 r2 == y.row
                 c2 == y.col
      <4>3. back = [y EXCEPT !.row = r, !.col = c]
        BY DEF restore_cursor
      <4>4. save = [y EXCEPT !.saved_row = r2, !.saved_col = c2]
        BY DEF save_cursor
      <4>5. r2 \in Rows /\ c2 \in Cols
        BY <4>1
      <4> HIDE DEF r, c, save, back, r2, c2
      <4>6. Styled(y, back)
        BY <1>1, <4>2, <4>3, Moved
      <4>7. Styled(y, save)
        BY <1>1, <4>4, <4>5, Moved
      <4>8. Styled(y, y)
        BY <1>1, <4>5, Moved
      <4> QED BY <4>6, <4>7, <4>8 DEF save, back
    <3>2. \E e : Styled(y, e) /\ z = reset_ansi_state(e)
      BY <2>3, <3>1
    <3> HIDE DEF z
    <3>3. TtyOK(z) /\ SameView(y, z)
      BY <3>2, ParserReset DEF Styled, SameView, SameHistory
    <3> HIDE DEF d
    <3> QED BY <1>4, <2>1, <3>3
  <2> QED BY <2>2, <2>3
<1>8. CASE y.esc = "csi" /\ ch \in Digits \cup {59, 63}
  <2>1. CASE Len(y.params) < ANSI_MAX_LEN
    <3> DEFINE ps == Append(y.params, ch)
               e == [y EXCEPT !.params = ps]
    <3>1. d = [s EXCEPT !.tty[i] = e]
      BY <1>8, <2>1 DEF process_byte, ESC
    <3>2. ps \in Seq(Byte) /\ Len(ps) <= ANSI_MAX_LEN
      <4>1. ps \in Seq(Byte) /\ Len(ps) = Len(y.params) + 1 /\ Len(y.params) \in Nat
        BY <1>1, AppendProperties, LenProperties
      <4> HIDE DEF ps
      <4> QED BY <2>1, <4>1, Sizes
    <3> HIDE DEF ps
    <3>3. e = [y EXCEPT !.esc = "csi", !.params = ps]
      BY <1>1, <1>8 DEF TtyRec
    <3> HIDE DEF e
    <3>4. TtyOK(e) /\ SameView(y, e)
      BY <1>1, <3>2, <3>3, ParserStep
    <3> HIDE DEF d
    <3> QED BY <1>4, <3>1, <3>4
  <2>2. CASE ~(Len(y.params) < ANSI_MAX_LEN)
    <3> DEFINE e == reset_ansi_state(y)
    <3>1. d = [s EXCEPT !.tty[i] = e]
      BY <1>8, <2>2 DEF process_byte, ESC
    <3>2. TtyOK(e) /\ SameView(y, e)
      BY <1>1, ParserReset
    <3> HIDE DEF d, e
    <3> QED BY <1>4, <3>1, <3>2
  <2> QED BY <2>1, <2>2
<1>9. CASE y.esc = "csi" /\ ch \notin Digits \cup {59, 63}
  <2> DEFINE f == process_csi_final(s, i, y.params, ch)
             e == reset_ansi_state(f.tty[i])
  <2>1. d = [f EXCEPT !.tty[i] = e]
    BY <1>9 DEF process_byte
  <2>2. Clears(s, f, i) /\ SequenceDone(s, f, i)
    BY <1>1, CsiFinal, CsiFinalIs
  <2> HIDE DEF f
  <2>3. ScreenOK(f) /\ TtyOK(f.tty[i])
    BY <2>2, TtyFields DEF Clears, Writes
  <2>4. TtyOK(e) /\ SameView(f.tty[i], e)
    BY <2>3, ParserReset
  <2> HIDE DEF d, e
  <2> QED BY <2>1, <2>2, <2>4 DEF ByteDone, Parsing
<1> QED BY <1>2, <1>5, <1>6, <1>7, <1>8, <1>9

LEMMA ParsingKeeps == ASSUME NEW s, ScreenOK(s), NEW d, NEW i \in Ttys, Parsing(s, d, i) PROVE Keeps(s, d, i)
  BY SetParser DEF Parsing, SameView

\* A byte changes the terminal it goes to: the text and the scrollback, or the scrollback
\* is gone.
Typed(s, d, i, ch) == MayPush(s, d, i) \/ Clears(s, d, i) \/ (ch = 9 /\ Four(s, d, i))

LEMMA ByteProcessed ==
  ASSUME NEW s, ScreenOK(s), NEW i \in Ttys, NEW ch \in Byte
  PROVE  Typed(s, process_byte(s, i, ch), i, ch)
<1> DEFINE d == process_byte(s, i, ch)
<1> SUFFICES Typed(s, d, i, ch)
  OBVIOUS
<1>1. ByteDone(s, d, i, ch)
  BY ByteIs
<1> HIDE DEF d
<1>2. CASE d = put_char_raw(s, i, ch)
  BY <1>2, PutCharRaw DEF Typed
<1>3. CASE Parsing(s, d, i)
  BY <1>3, ParsingKeeps, KeepsOn DEF Typed
<1>4. ASSUME NEW f, Clears(s, f, i), Parsing(f, d, i) PROVE Clears(s, d, i)
  <2>1. Keeps(f, d, i)
    BY <1>4, ParsingKeeps DEF Clears, Writes
  <2> QED BY <1>4, <2>1 DEF Keeps, Clears, Writes, SameHistory
<1>5. CASE \E f : SequenceDone(s, f, i) /\ Clears(s, f, i) /\ Parsing(f, d, i)
  BY <1>4, <1>5 DEF Typed
<1> QED BY <1>1, <1>2, <1>3, <1>5 DEF ByteDone

-----------------------------------------------------------------------------
(* The steps. *)

\* The scrollback of no terminal is touched.
Untouched(s, d) == ScreenOK(d) /\ \A i \in Ttys : SameHistory(s.tty[i], d.tty[i])

LEMMA DrawsUntouched == ASSUME NEW s, NEW d, Draws(s, d) PROVE Untouched(s, d)
  BY DEF Draws, Untouched, SameHistory

LEMMA KeepsUntouched == ASSUME NEW s, NEW d, NEW i \in Ttys, Keeps(s, d, i) PROVE Untouched(s, d)
  BY DEF Keeps, Writes, Untouched, SameHistory

LEMMA UntouchedOn == ASSUME NEW s, NEW d, NEW e, Untouched(s, d), Untouched(d, e) PROVE Untouched(s, e)
  BY DEF Untouched, SameHistory

\* The flags of the screen.
LEMMA DeferDraws ==
  ASSUME NEW s, ScreenOK(s), NEW b \in BOOLEAN, NEW bytes \in BOOLEAN
  PROVE  Draws(s, [s EXCEPT !.defer_draw = b, !.busy = bytes])
<1> DEFINE d == [s EXCEPT !.defer_draw = b, !.busy = bytes]
<1>1. s \in ScreenRec
  BY DEF ScreenOK
<1>2. d \in ScreenRec
  BY <1>1 DEF ScreenRec
<1>3. d.active = s.active /\ d.tty = s.tty
  BY <1>1 DEF ScreenRec
<1> HIDE DEF d
<1>4. Draws(s, d)
  BY <1>2, <1>3 DEF Draws, ScreenOK
<1> QED BY <1>4 DEF d

LEMMA TimingDraws == ASSUME NEW s, ScreenOK(s), NEW b \in BOOLEAN PROVE Draws(s, [s EXCEPT !.timing = b])
<1> DEFINE d == [s EXCEPT !.timing = b]
<1>1. s \in ScreenRec
  BY DEF ScreenOK
<1>2. d \in ScreenRec
  BY <1>1 DEF ScreenRec
<1>3. d.active = s.active /\ d.tty = s.tty
  BY <1>1 DEF ScreenRec
<1> HIDE DEF d
<1>4. Draws(s, d)
  BY <1>2, <1>3 DEF Draws, ScreenOK
<1> QED BY <1>4 DEF d

LEMMA ShownDraws == ASSUME NEW s, ScreenOK(s), NEW b \in BOOLEAN PROVE Draws(s, [s EXCEPT !.visible = b])
<1> DEFINE d == [s EXCEPT !.visible = b]
<1>1. s \in ScreenRec
  BY DEF ScreenOK
<1>2. d \in ScreenRec
  BY <1>1 DEF ScreenRec
<1>3. d.active = s.active /\ d.tty = s.tty
  BY <1>1 DEF ScreenRec
<1> HIDE DEF d
<1>4. Draws(s, d)
  BY <1>2, <1>3 DEF Draws, ScreenOK
<1> QED BY <1>4 DEF d

LEMMA TornDraws == ASSUME NEW s, ScreenOK(s), NEW tears \in SUBSET Tears PROVE Draws(s, [s EXCEPT !.torn = tears])
<1> DEFINE d == [s EXCEPT !.torn = tears]
<1>1. s \in ScreenRec
  BY DEF ScreenOK
<1>2. d \in ScreenRec
  BY <1>1 DEF ScreenRec
<1>3. d.active = s.active /\ d.tty = s.tty
  BY <1>1 DEF ScreenRec
<1> HIDE DEF d
<1>4. Draws(s, d)
  BY <1>2, <1>3 DEF Draws, ScreenOK
<1> QED BY <1>4 DEF d

LEMMA DirtySetDraws == ASSUME NEW s, ScreenOK(s), NEW rows \in SUBSET Rows PROVE Draws(s, [s EXCEPT !.dirty = rows])
<1> DEFINE d == [s EXCEPT !.dirty = rows]
<1>1. s \in ScreenRec
  BY DEF ScreenOK
<1>2. d \in ScreenRec
  BY <1>1 DEF ScreenRec
<1>3. d.active = s.active /\ d.tty = s.tty
  BY <1>1 DEF ScreenRec
<1> HIDE DEF d
<1>4. Draws(s, d)
  BY <1>2, <1>3 DEF Draws, ScreenOK
<1> QED BY <1>4 DEF d

\* A terminal is scrolled to a place within its scrollback.
LEMMA SetOff ==
  ASSUME NEW s, ScreenOK(s), NEW off \in 0 .. Active(s).count
  PROVE  Keeps(s, [s EXCEPT !.tty[s.active].off = off], s.active)
<1> DEFINE i == s.active
           y == s.tty[i]
           z == [y EXCEPT !.off = off]
           d == [s EXCEPT !.tty[i] = z]
<1>1. i \in Ttys /\ TtyOK(y) /\ y \in TtyRec /\ off \in 0 .. y.count /\ y.count \in 0 .. SCROLLBACK_LINES
  BY TtyFields, Fields DEF ScreenOK, ScreenRec, Active
<1>2. off \in 0 .. SCROLLBACK_LINES
  BY <1>1, Sizes
<1>3. z \in TtyRec /\ z.off = off /\ z.params = y.params /\ z.ring = y.ring /\ z.head = y.head /\ z.count = y.count
  BY <1>1, <1>2 DEF TtyRec
<1>4. d = [s EXCEPT !.tty[s.active].off = off]
  OBVIOUS
<1> HIDE DEF z
<1>5. TtyOK(z) /\ SameHistory(y, z)
  BY <1>1, <1>3 DEF TtyOK, SameHistory
<1>6. Keeps(s, d, i)
  BY <1>1, <1>5, SetParser
<1> HIDE DEF d
<1> QED BY <1>4, <1>6

LEMMA StartKeeps == ASSUME NEW s, ScreenOK(s) PROVE Keeps(s, start_write(s), s.active)
<1> DEFINE d == hide_cursor(s)
           e == [d EXCEPT !.tty[d.active].off = 0]
           g == redraw_active(e)
           h == [g EXCEPT !.torn = {"cursor"}]
           f == IF Active(d).off > 0 THEN h ELSE d
           z == [f EXCEPT !.defer_draw = TRUE, !.busy = TRUE]
<1>1. s.active \in Ttys
  BY DEF ScreenOK, ScreenRec
<1>2. Draws(s, d)
  BY HideDraws
<1>3. start_write(s) = z
  BY DEF start_write
<1> HIDE DEF z, d
<1>4. ScreenOK(d) /\ d.active = s.active
  BY <1>2 DEF Draws
<1>5. 0 \in 0 .. Active(d).count
  BY <1>1, <1>4, TtyFields, Fields DEF Active
<1>6. Keeps(d, e, s.active)
  BY <1>4, <1>5, SetOff
<1> HIDE DEF e
<1>7. Draws(e, g)
  BY <1>6, RedrawDraws DEF Keeps, Writes
<1> HIDE DEF g
<1>8. Draws(g, h)
  BY <1>7, TornDraws DEF Draws, Tears
<1> HIDE DEF h
<1>9. Keeps(s, h, s.active)
  BY <1>1, <1>2, <1>6, <1>7, <1>8, DrawsKeep, KeepsOn
<1>10. Keeps(s, f, s.active)
  BY <1>1, <1>2, <1>9, DrawsKeep
<1> HIDE DEF f
<1>11. Draws(f, z)
  BY <1>10, DeferDraws DEF Keeps, Writes, z
<1> QED BY <1>1, <1>3, <1>10, <1>11, DrawsKeep, KeepsOn

LEMMA EndDraws == ASSUME NEW s, ScreenOK(s) PROVE Draws(s, end_write(s))
<1> DEFINE d == draw_cursor(s)
           e == draw_status_bar(d)
<1>1. Draws(s, d)
  BY CursorDraws
<1>2. end_write(s) = [e EXCEPT !.timing = FALSE]
  BY DEF end_write
<1> HIDE DEF d
<1>3. Draws(d, e)
  BY <1>1, StatusBarDraws DEF Draws
<1> HIDE DEF e
<1>4. Draws(e, end_write(s))
  BY <1>2, <1>3, TimingDraws DEF Draws
<1> QED BY <1>1, <1>3, <1>4, DrawsOn

\* Another terminal is shown.
LEMMA SwitchUntouched == ASSUME NEW s, ScreenOK(s), NEW i \in Ttys PROVE Untouched(s, switch(s, i))
<1> DEFINE d == hide_cursor(s)
           e == [d EXCEPT !.active = i, !.visible = FALSE]
           f == redraw_active(e)
<1>1. Draws(s, d)
  BY HideDraws
<1>2. switch(s, i) = [f EXCEPT !.timing = FALSE]
  BY DEF switch
<1> HIDE DEF d
<1>3. d \in ScreenRec /\ ScreenOK(d) /\ d.tty = s.tty
  BY <1>1 DEF Draws, ScreenOK
<1>4. e \in ScreenRec /\ e.tty = s.tty
  BY <1>3 DEF ScreenRec
<1> HIDE DEF e
<1>5. ScreenOK(e) /\ Untouched(s, e)
  BY <1>3, <1>4 DEF ScreenOK, Untouched, SameHistory
<1>6. Draws(e, f)
  BY <1>5, RedrawDraws
<1> HIDE DEF f
<1>7. Draws(f, switch(s, i))
  BY <1>2, <1>6, TimingDraws DEF Draws
<1> QED BY <1>5, <1>6, <1>7, DrawsOn, DrawsUntouched, UntouchedOn

LEMMA ScrollUntouched ==
  ASSUME NEW s, ScreenOK(s), NEW off \in 0 .. Active(s).count PROVE Untouched(s, scroll_to(s, off))
<1> DEFINE d == hide_cursor(s)
           e == [d EXCEPT !.tty[d.active].off = off]
           g == redraw_active(e)
           h == [g EXCEPT !.timing = FALSE]
<1>1. Draws(s, d)
  BY HideDraws
<1>2. scroll_to(s, off) = IF off = Active(d).off THEN d ELSE h
  BY DEF scroll_to
<1> HIDE DEF d
<1>3. ScreenOK(d) /\ d.active \in Ttys /\ off \in 0 .. Active(d).count
  BY <1>1 DEF Draws, ScreenOK, ScreenRec, Active
<1>4. Keeps(d, e, d.active)
  BY <1>3, SetOff
<1> HIDE DEF e
<1>5. Draws(e, g)
  BY <1>4, RedrawDraws DEF Keeps, Writes
<1> HIDE DEF g
<1>6. Draws(g, h)
  BY <1>5, TimingDraws DEF Draws
<1> HIDE DEF h
<1>7. Untouched(d, h)
  BY <1>3, <1>4, <1>5, <1>6, KeepsUntouched, DrawsUntouched, UntouchedOn
<1> QED BY <1>1, <1>2, <1>7, DrawsUntouched, UntouchedOn

LEMMA TickDraws == ASSUME NEW s, ScreenOK(s), NEW late \in BOOLEAN PROVE Draws(s, tick(s, late))
<1>1. CASE s.active = DESKTOP_INDEX \/ Active(s).off > 0
  BY <1>1, ShownDraws DEF tick
<1>2. CASE ~(s.active = DESKTOP_INDEX \/ Active(s).off > 0) /\ ~s.timing
  <2> DEFINE d == IF s.visible THEN s ELSE draw_cursor(s)
  <2>1. Draws(s, d)
    BY CursorDraws, DrawsNothing
  <2>2. tick(s, late) = [d EXCEPT !.timing = TRUE]
    BY <1>2 DEF tick
  <2> HIDE DEF d
  <2>3. Draws(d, tick(s, late))
    BY <2>1, <2>2, TimingDraws DEF Draws
  <2> QED BY <2>1, <2>3, DrawsOn
<1>3. CASE ~(s.active = DESKTOP_INDEX \/ Active(s).off > 0) /\ s.timing
  BY <1>3, CursorDraws, HideDraws, DrawsNothing DEF tick
<1> QED BY <1>1, <1>2, <1>3

WriteOK(x) ==
  \/ x = NoWrite \/ x = [pc |-> "end"] \/ x = [pc |-> "tick"]
  \/ x \in [pc : {"start"}, text : Seq(Byte)]
  \/ x \in [pc : {"bytes"}, tty : Ttys, text : Seq(Byte)]
  \/ x \in [pc : {"flush"}, tty : Ttys, row : 0 .. content_rows, col : Cols]

\* The records themselves, not only the numbers TtyTypeOK names: a row of the scrollback
\* becomes a row of the screen, so each must be a row.
IInv == ScreenOK(t) /\ WriteOK(w) /\ WriteOK(held) /\ cut \in BOOLEAN /\ calls \in 0 .. MAX_CALLS

\* A byte of the write, or a step that touches no scrollback and, within the write, no other
\* terminal.
ByteStep == /\ w.pc = "bytes" /\ w.tty \in Ttys /\ w.text \in Seq(Byte) /\ w.text # <<>>
            /\ Typed(t, t', w.tty, Head(w.text))
OtherStep == /\ Untouched(t, t')
             /\ w.pc = "bytes" /\ calls' = calls => t'.tty = t.tty

LEMMA NewScreen ==
  ScreenOK([tty |-> [i \in Ttys |-> NewTty], active |-> 0, visible |-> FALSE, blink |-> TRUE,
            timing |-> FALSE, defer_draw |-> FALSE, busy |-> FALSE, dirty |-> {}, screen |-> [r \in Rows |-> BlankRow], bar |-> NoBar, torn |-> {}])
<1> DEFINE s == [tty |-> [i \in Ttys |-> NewTty], active |-> 0, visible |-> FALSE, blink |-> TRUE,
                 timing |-> FALSE, defer_draw |-> FALSE, busy |-> FALSE, dirty |-> {}, screen |-> [r \in Rows |-> BlankRow], bar |-> NoBar, torn |-> {}]
<1>1. /\ 0 \in 0 .. SCROLLBACK_LINES - 1 /\ 0 \in 0 .. SCROLLBACK_LINES /\ 0 \in Ttys /\ 0 \in Rows /\ 0 \in Cols
      /\ FG \in Nat /\ BG \in Nat /\ <<>> \in Seq(Byte) /\ <<>> \in Seq(Nat) /\ Len(<<>>) = 0
  BY Sizes, EmptySeq DEF FG, BG
<1>2. NewTty \in TtyRec
  BY <1>1, BlankCell DEF NewTty, TtyRec, Grid
<1>3. NewTty.off = 0 /\ NewTty.count = 0 /\ NewTty.head = 0 /\ NewTty.params = <<>>
  BY DEF NewTty
<1> HIDE DEF NewTty
<1>4. TtyOK(NewTty)
  BY <1>1, <1>2, <1>3, Sizes DEF TtyOK
<1>5. s \in ScreenRec /\ s.tty = [i \in Ttys |-> NewTty]
  BY <1>1, <1>2, BlankCell DEF ScreenRec, Grid, NoBar
<1> HIDE DEF s
<1>6. ScreenOK(s)
  BY <1>4, <1>5 DEF ScreenOK
<1> QED BY <1>6 DEF s

LEMMA Started == Init => IInv
<1> SUFFICES ASSUME Init PROVE IInv
  OBVIOUS
<1>1. ScreenOK(tty_init)
  BY NewScreen, RedrawDraws DEF tty_init, Draws
<1>2. WriteOK(NoWrite)
  BY DEF WriteOK
<1>3. t = tty_init /\ w = NoWrite /\ held = NoWrite /\ cut = FALSE /\ calls = 0
  BY DEF Init
<1>4. calls \in 0 .. MAX_CALLS
  BY <1>3, TextsAssumption
<1> QED BY <1>1, <1>2, <1>3, <1>4 DEF IInv

LEMMA CallCounted == ASSUME IInv, Call PROVE calls' \in 0 .. MAX_CALLS /\ calls' # calls
  BY TextsAssumption DEF IInv, Call

\* An interrupt may find the flush half done, or come within a step.
LEMMA UnderDraws == ASSUME NEW s, ScreenOK(s), NEW x PROVE Draws(s, Under(s, x))
<1> DEFINE tears == s.torn \cup {"text"}
           e == [s EXCEPT !.torn = tears]
<1>1. tears \in SUBSET Tears
  BY DEF ScreenOK, ScreenRec, Tears
<1>2. Under(s, x) = IF x.pc = "flush" THEN e ELSE s
  BY DEF Under
<1> HIDE DEF tears
<1>3. Draws(s, e)
  BY <1>1, TornDraws
<1> HIDE DEF e
<1> QED BY <1>2, <1>3, DrawsNothing

LEMMA SpoiltDraws ==
  ASSUME NEW s, ScreenOK(s), NEW d \in Spoilt(s)
  PROVE  Draws(s, d) /\ d.torn = Tears /\ d.dirty = s.dirty /\ d.busy = s.busy
<1>1. PICK seen \in BOOLEAN : d = [s EXCEPT !.torn = Tears, !.visible = seen]
  BY DEF Spoilt
<1>2. s \in ScreenRec
  BY DEF ScreenOK
<1>3. /\ d \in ScreenRec /\ d.active = s.active /\ d.tty = s.tty
      /\ d.torn = Tears /\ d.dirty = s.dirty /\ d.busy = s.busy
  BY <1>1, <1>2 DEF ScreenRec
<1> QED BY <1>3 DEF Draws, ScreenOK

LEMMA BecomesDraws ==
  ASSUME IInv, NEW s, ScreenOK(s), Becomes(s) PROVE Draws(s, t') /\ cut' \in BOOLEAN
<1>1. t' = s \/ t' \in Spoilt(s)
  BY DEF Becomes
<1>2. cut' \in BOOLEAN
  BY DEF Becomes
<1> QED BY <1>1, <1>2, SpoiltDraws, DrawsNothing

LEMMA InterruptDraws ==
  ASSUME IInv, NEW s, ScreenOK(s), Interrupt(s)
  PROVE  Draws(s, t') /\ cut' \in BOOLEAN /\ calls' \in 0 .. MAX_CALLS /\ calls' # calls
<1>1. t' = Under(s, w) \/ t' \in Spoilt(s)
  BY DEF Interrupt
<1>2. cut' \in BOOLEAN
  BY DEF Interrupt, IInv
<1>3. calls' \in 0 .. MAX_CALLS /\ calls' # calls
  BY CallCounted DEF Interrupt
<1>4. Draws(s, t')
  BY <1>1, SpoiltDraws, UnderDraws
<1> QED BY <1>2, <1>3, <1>4

LEMMA Interrupted ==
  ASSUME IInv, NEW d, Untouched(t, d), Interrupt(d), WriteOK(w'), WriteOK(held') PROVE IInv' /\ OtherStep
<1>1. Draws(d, t') /\ cut' \in BOOLEAN /\ calls' \in 0 .. MAX_CALLS /\ calls' # calls
  BY InterruptDraws DEF Untouched
<1>2. Untouched(t, t')
  BY <1>1, DrawsUntouched, UntouchedOn
<1> QED BY <1>1, <1>2 DEF IInv, OtherStep, Untouched, WriteOK

\* What a byte has done is left so by what is only drawn.
LEMMA TypedDraws ==
  ASSUME NEW s, NEW d, NEW e, NEW i \in Ttys, NEW ch, Typed(s, d, i, ch), Draws(d, e) PROVE Typed(s, e, i, ch)
<1>1. Keeps(d, e, i)
  BY DrawsKeep
<1>2. CASE MayPush(s, d, i)
  BY <1>1, <1>2, KeepsOn DEF Typed
<1>3. CASE Clears(s, d, i)
  BY <1>1, <1>3 DEF Typed, Clears, Keeps, Writes, SameHistory
<1>4. CASE ch = 9 /\ Four(s, d, i)
  BY <1>1, <1>4, KeepsOn DEF Typed, Four
<1> QED BY <1>2, <1>3, <1>4 DEF Typed

LEMMA AnyStep == ASSUME IInv, [Next]_vars PROVE IInv' /\ (ByteStep \/ OtherStep)
<1>1. /\ ScreenOK(t) /\ t \in ScreenRec /\ t.active \in Ttys /\ WriteOK(w) /\ WriteOK(held)
      /\ cut \in BOOLEAN /\ calls \in 0 .. MAX_CALLS
  BY DEF IInv, ScreenOK, ScreenRec
<1>2. ASSUME Draws(t, t'), UNCHANGED calls, cut' \in BOOLEAN, WriteOK(w'), WriteOK(held') PROVE IInv' /\ OtherStep
  <2>1. Untouched(t, t') /\ t'.tty = t.tty /\ ScreenOK(t')
    BY <1>2, DrawsUntouched DEF Draws
  <2> QED BY <1>1, <1>2, <2>1 DEF IInv, OtherStep, WriteOK
<1>3. ASSUME NEW text \in Texts, WriteBegin(text) PROVE IInv' /\ OtherStep
  <2>1. t' = t /\ w' = [pc |-> "start", text |-> text] /\ held' = held /\ cut' = cut /\ Call /\ w.pc = "idle"
    BY <1>3 DEF WriteBegin, Idle
  <2>2. Untouched(t, t')
    BY <1>1, <2>1, DrawsNothing, DrawsUntouched
  <2>3. WriteOK(w') /\ WriteOK(held')
    BY <1>1, <2>1, TextsAssumption DEF WriteOK, Byte
  <2> QED BY <1>1, <2>1, <2>2, <2>3, CallCounted DEF IInv, OtherStep, Untouched, WriteOK
<1>4. ASSUME StartWrite PROVE IInv' /\ OtherStep
  <2>1. /\ w.pc = "start" /\ Becomes(start_write(t)) /\ UNCHANGED <<held, calls>>
        /\ w' = [pc |-> "bytes", tty |-> t.active, text |-> w.text]
    BY <1>4 DEF StartWrite, target
  <2>2. Keeps(t, start_write(t), t.active) /\ ScreenOK(start_write(t))
    BY <1>1, StartKeeps DEF Keeps, Writes
  <2>3. Draws(start_write(t), t') /\ cut' \in BOOLEAN
    BY <2>1, <2>2, BecomesDraws
  <2>4. Untouched(t, t')
    BY <1>1, <2>2, <2>3, KeepsUntouched, DrawsUntouched, UntouchedOn
  <2>5. w \in [pc : {"start"}, text : Seq(Byte)]
    BY <1>1, <2>1 DEF WriteOK, NoWrite
  <2>6. WriteOK(w') /\ WriteOK(held')
    BY <1>1, <2>1, <2>5 DEF WriteOK
  <2> QED BY <1>1, <2>1, <2>3, <2>4, <2>6 DEF IInv, OtherStep, Untouched, WriteOK
<1>5. ASSUME WriteByte PROVE IInv' /\ ByteStep
  <2>1. w \in [pc : {"bytes"}, tty : Ttys, text : Seq(Byte)] /\ w.text # <<>>
    BY <1>1, <1>5 DEF WriteByte, WriteOK, NoWrite
  <2>2. Head(w.text) \in Byte /\ Tail(w.text) \in Seq(Byte)
    BY <2>1, HeadTailProperties
  <2> DEFINE d == process_byte(t, w.tty, Head(w.text))
  <2>3. Becomes(d) /\ w' = [w EXCEPT !.text = Tail(w.text)] /\ UNCHANGED <<held, calls>>
    BY <1>5 DEF WriteByte, byte_target
  <2>4. Typed(t, d, w.tty, Head(w.text))
    BY <1>1, <2>1, <2>2, ByteProcessed
  <2> HIDE DEF d
  <2>5. ScreenOK(d)
    BY <2>4 DEF Typed, MayPush, Clears, Four, Writes
  <2>6. Draws(d, t') /\ cut' \in BOOLEAN
    BY <2>3, <2>5, BecomesDraws
  <2>7. Typed(t, t', w.tty, Head(w.text)) /\ ScreenOK(t')
    BY <2>1, <2>4, <2>6, TypedDraws DEF Draws
  <2>8. WriteOK(w') /\ WriteOK(held')
    BY <1>1, <2>1, <2>2, <2>3 DEF WriteOK
  <2> QED BY <1>1, <2>1, <2>3, <2>6, <2>7, <2>8 DEF IInv, ByteStep, WriteOK
<1>6. ASSUME FlushBegin PROVE IInv' /\ OtherStep
  <2> DEFINE d == stop_defer(t)
  <2>1. Draws(t, d)
    BY <1>1, DeferDraws DEF stop_defer
  <2>2. \/ Becomes(redraw_active(d)) /\ w' = [pc |-> "end"]
        \/ Becomes(d) /\ w' = [pc |-> "flush", tty |-> t.active, row |-> 0, col |-> 0]
    BY <1>6 DEF FlushBegin
  <2> HIDE DEF d
  <2>3. Draws(d, redraw_active(d)) /\ ScreenOK(d) /\ ScreenOK(redraw_active(d))
    BY <2>1, RedrawDraws DEF Draws
  <2>4. Draws(t, t') /\ cut' \in BOOLEAN
    BY <2>1, <2>2, <2>3, BecomesDraws, DrawsOn
  <2>5. UNCHANGED <<held, calls>>
    BY <1>6 DEF FlushBegin
  <2>6. WriteOK(w') /\ WriteOK(held')
    BY <1>1, <2>2, <2>5, Sizes DEF WriteOK
  <2> QED BY <1>2, <2>4, <2>5, <2>6
<1>7. ASSUME FlushCell PROVE IInv' /\ OtherStep
  <2>1. w \in [pc : {"flush"}, tty : Ttys, row : 0 .. content_rows, col : Cols] /\ w.row < content_rows
    BY <1>1, <1>7 DEF FlushCell, WriteOK, NoWrite
  <2>2. w.row \in Rows /\ w.col \in Cols /\ w.tty \in Ttys /\ w.row + 1 \in 0 .. content_rows
    BY <2>1, Sizes DEF Rows
  <2>3. Draws(t, t')
    BY <1>1, <1>7, <2>2, DrawCellDraws, DrawsNothing DEF FlushCell
  <2>4. w.col + 1 < TTY_COLS => w.col + 1 \in Cols
    BY <2>2, Sizes DEF Cols
  <2>5. \/ w' = [w EXCEPT !.row = w.row + 1] \/ w' = [w EXCEPT !.row = w.row + 1, !.col = 0]
        \/ w.col + 1 < TTY_COLS /\ w' = [w EXCEPT !.col = w.col + 1]
    BY <1>7 DEF FlushCell
  <2>6. WriteOK(w')
    BY <2>1, <2>2, <2>4, <2>5, Sizes DEF WriteOK
  <2>7. UNCHANGED <<held, cut, calls>> /\ WriteOK(held')
    BY <1>1, <1>7 DEF FlushCell, WriteOK
  <2> QED BY <1>1, <1>2, <2>3, <2>6, <2>7
<1>8. ASSUME FlushEnd PROVE IInv' /\ OtherStep
  <2>1. Draws(t, t') /\ w' = [pc |-> "end"] /\ UNCHANGED <<held, cut, calls>>
    BY <1>1, <1>8, DirtySetDraws DEF FlushEnd
  <2> QED BY <1>1, <1>2, <2>1 DEF WriteOK
<1>9. ASSUME WriteEnd PROVE IInv' /\ OtherStep
  <2> DEFINE d == end_write(t)
             e == Under(d, held)
  <2>1. Becomes(e) /\ w' = held /\ held' = NoWrite /\ UNCHANGED calls
    BY <1>9 DEF WriteEnd
  <2>2. Draws(t, d)
    BY <1>1, EndDraws
  <2> HIDE DEF d
  <2>3. Draws(d, e) /\ ScreenOK(e)
    BY <2>2, UnderDraws DEF Draws
  <2> HIDE DEF e
  <2>4. Draws(e, t') /\ cut' \in BOOLEAN
    BY <2>1, <2>3, BecomesDraws
  <2>5. Draws(t, t')
    BY <2>2, <2>3, <2>4, DrawsOn
  <2> QED BY <1>1, <1>2, <2>1, <2>4, <2>5 DEF WriteOK
<1>10. ASSUME UNCHANGED <<w, held>> PROVE WriteOK(w') /\ WriteOK(held')
  BY <1>1, <1>10 DEF WriteOK
<1>11. ASSUME NEW i \in Ttys, Switch(i) PROVE IInv' /\ OtherStep
  BY <1>1, <1>10, <1>11, SwitchUntouched, Interrupted DEF Switch
<1>12. /\ TtyOK(Active(t)) /\ clamped_offset(Active(t)) = Active(t).off
       /\ Active(t).off \in 0 .. Active(t).count /\ Active(t).count \in Nat
  BY <1>1, TtyFields, Fields, Sizes DEF Active, clamped_offset, Least
<1>13. ASSUME PageUp PROVE IInv' /\ OtherStep
  <2> DEFINE off == Least(clamped_offset(Active(t)) + content_rows, Active(t).count)
  <2>1. off \in 0 .. Active(t).count
    BY <1>12, Sizes DEF Least
  <2>2. Interrupt(scroll_to(t, off)) /\ UNCHANGED <<w, held>>
    BY <1>13 DEF PageUp, page_up
  <2> HIDE DEF off
  <2> QED BY <1>1, <1>10, <2>1, <2>2, ScrollUntouched, Interrupted
<1>14. ASSUME PageDown PROVE IInv' /\ OtherStep
  <2> DEFINE cur == clamped_offset(Active(t))
             off == IF cur > content_rows THEN cur - content_rows ELSE 0
  <2>1. off \in 0 .. Active(t).count
    BY <1>12, Sizes
  <2>2. Interrupt(scroll_to(t, off)) /\ UNCHANGED <<w, held>>
    BY <1>14 DEF PageDown, page_down
  <2> HIDE DEF off
  <2> QED BY <1>1, <1>10, <2>1, <2>2, ScrollUntouched, Interrupted
<1>15. ASSUME NEW text \in Echoes, Echo(text) PROVE IInv' /\ OtherStep
  <2>1. Interrupt(t) /\ w' = [pc |-> "start", text |-> text] /\ held' = w
    BY <1>15 DEF Echo
  <2>2. WriteOK(w') /\ WriteOK(held')
    BY <1>1, <2>1, TextsAssumption DEF WriteOK, Byte
  <2>3. Untouched(t, t)
    BY <1>1, DrawsNothing, DrawsUntouched
  <2> QED BY <2>1, <2>2, <2>3, Interrupted
<1>16. ASSUME TickBegin PROVE IInv' /\ OtherStep
  <2>1. Draws(t, t') /\ w' = [pc |-> "tick"] /\ UNCHANGED <<held, cut, calls>>
    BY <1>1, <1>16, DrawsNothing DEF TickBegin
  <2> QED BY <1>1, <1>2, <2>1 DEF WriteOK
<1>17. ASSUME Tick PROVE IInv' /\ OtherStep
  <2>1. PICK late \in BOOLEAN : Becomes(tick(t, late))
    BY <1>17 DEF Tick
  <2> DEFINE d == tick(t, late)
  <2>2. Draws(t, d)
    BY <1>1, TickDraws
  <2>3. Becomes(d)
    BY <2>1
  <2> HIDE DEF d
  <2>4. Draws(d, t') /\ cut' \in BOOLEAN
    BY <2>2, <2>3, BecomesDraws DEF Draws
  <2>5. Draws(t, t')
    BY <2>2, <2>4, DrawsOn
  <2>6. w' = NoWrite /\ UNCHANGED <<held, calls>>
    BY <1>17 DEF Tick
  <2> QED BY <1>1, <1>2, <2>4, <2>5, <2>6 DEF WriteOK
<1>18. ASSUME UNCHANGED vars PROVE IInv' /\ OtherStep
  <2>1. Draws(t, t') /\ UNCHANGED <<w, held, cut, calls>>
    BY <1>1, <1>18, DrawsNothing DEF vars
  <2> QED BY <1>1, <1>2, <2>1 DEF WriteOK
<1> QED BY <1>3, <1>4, <1>5, <1>6, <1>7, <1>8, <1>9, <1>11, <1>13, <1>14, <1>15, <1>16, <1>17, <1>18 DEF Next

LEMMA Invariant == Spec => []IInv
<1>1. IInv /\ [Next]_vars => IInv'
  BY AnyStep
<1> QED BY <1>1, Started, PTL DEF Spec

\* Cursors, saved cursors and the scrollback's numbers stay in range for every sequence of
\* bytes written and every interrupt.
THEOREM TtyTypes == Spec => []TtyTypeOK
<1>1. IInv => TtyTypeOK
  <2> SUFFICES ASSUME IInv PROVE TtyTypeOK
    OBVIOUS
  <2>1. ScreenOK(t) /\ calls \in 0 .. MAX_CALLS
    BY DEF IInv
  <2>2. t.active \in Ttys /\ t.visible \in BOOLEAN /\ t.dirty \subseteq Rows
    BY <2>1 DEF ScreenOK, ScreenRec
  <2>3. \A i \in Ttys : TtyOK(t.tty[i]) /\ t.tty[i].esc \in {"text", "escape", "csi"}
    BY <2>1, TtyFields DEF TtyRec
  <2> QED BY <2>1, <2>2, <2>3, Fields DEF TtyTypeOK
<1> QED BY <1>1, Invariant, PTL

\* A write changes the terminal it started on and no other: the interrupt that shows another
\* terminal in the middle of it does not move its bytes there.
THEOREM WritesStay == Spec => WritesStayOnTheirTty
<1>1. ASSUME IInv, [Next]_vars
      PROVE  [w.pc = "bytes" /\ w'.pc \in {"bytes", "flush", "end"} /\ t' # t /\ calls' = calls
                => \A i \in Ttys \ {w.tty} : t'.tty[i] = t.tty[i]]_vars
  <2>1. CASE ByteStep
    <3>1. \A i \in Ttys \ {w.tty} : t'.tty[i] = t.tty[i]
      BY <2>1 DEF ByteStep, Typed, MayPush, Clears, Four, Writes
    <3> QED BY <3>1
  <2>2. CASE OtherStep
    BY <2>2 DEF OtherStep
  <2> QED BY <1>1, <2>1, <2>2, AnyStep
<1> QED BY <1>1, Invariant, PTL DEF Spec, WritesStayOnTheirTty

-----------------------------------------------------------------------------
(* The order of the scrollback. *)

\* new continues old, whose k first rows are gone.
Shifted(old, new, k) ==
  /\ k \in 0 .. Len(old)
  /\ k > 0 => Len(new) = SCROLLBACK_LINES
  /\ Len(old) - k <= Len(new)
  /\ \A j \in 1 .. Len(old) - k : new[j] = old[j + k]

Lines(y, z, n) == \E k \in 0 .. n : Shifted(History(y), History(z), k)

LEMMA WrapOnce ==
  ASSUME NEW m \in Nat \ {0}, NEW x \in 0 .. 2 * m - 1 PROVE x % m = IF x < m THEN x ELSE x - m
  BY Z3

LEMMA HistoryRows ==
  ASSUME NEW y, TtyOK(y)
  PROVE  /\ History(y) \in Seq(Row) /\ Len(History(y)) = y.count /\ y.count \in 0 .. SCROLLBACK_LINES
         /\ \A k \in 1 .. y.count : History(y)[k] = y.ring[logical_to_physical(y, k - 1)]
<1>1. y.count \in 0 .. SCROLLBACK_LINES /\ y.head \in 0 .. SCROLLBACK_LINES - 1 /\ y.ring \in [0 .. SCROLLBACK_LINES - 1 -> Row]
  BY Fields DEF TtyRec
<1>2. ASSUME NEW k \in 1 .. y.count PROVE y.ring[logical_to_physical(y, k - 1)] \in Row
  <2>1. k - 1 \in 0 .. SCROLLBACK_LINES - 1 /\ y.head + (k - 1) \in 0 .. 2 * SCROLLBACK_LINES - 1
    BY <1>1, Sizes
  <2> DEFINE x == y.head + (k - 1)
  <2> HIDE DEF x
  <2>4. x \in Nat /\ SCROLLBACK_LINES \in Nat \ {0}
    BY <2>1, Sizes DEF x
  <2>2. x % SCROLLBACK_LINES \in 0 .. SCROLLBACK_LINES - 1
    BY <2>4, ModRange
  <2>3. logical_to_physical(y, k - 1) \in 0 .. SCROLLBACK_LINES - 1
    BY <2>1, <2>2 DEF logical_to_physical, x
  <2> QED BY <1>1, <2>3
<1>3. History(y) \in [1 .. y.count -> Row]
  BY <1>2 DEF History
<1>4. y.count \in Nat
  BY <1>1, Sizes
<1>5. History(y) \in Seq(Row) /\ Len(History(y)) = y.count
  BY <1>3, <1>4
<1> QED BY <1>1, <1>5 DEF History

LEMMA HistorySame ==
  ASSUME NEW y, TtyOK(y), NEW z, TtyOK(z), SameHistory(y, z)
  PROVE  History(z) = History(y) /\ Lines(y, z, 0)
<1>1. History(z) = History(y)
  BY DEF SameHistory, History, logical_to_physical
<1>2. Shifted(History(y), History(y), 0)
  BY HistoryRows DEF Shifted
<1> QED BY <1>1, <1>2 DEF Lines

\* A row that is pushed comes last; the first one leaves when the ring is full.
LEMMA HistoryPushed ==
  ASSUME NEW y, TtyOK(y), NEW z, TtyOK(z), OneLine(y, z) PROVE Lines(y, z, 1)
<1> DEFINE m == SCROLLBACK_LINES
           old == History(y)
           new == History(z)
<1>1. /\ m \in Nat \ {0} /\ y.head \in 0 .. m - 1 /\ y.count \in 0 .. m /\ y.ring \in [0 .. m - 1 -> Row]
      /\ z.count = IF y.count + 1 < m THEN y.count + 1 ELSE m
      /\ Len(old) = y.count /\ Len(new) = z.count
  <2>1. m \in Nat \ {0} /\ y.head \in 0 .. m - 1 /\ y.count \in 0 .. m /\ y.ring \in [0 .. m - 1 -> Row]
    BY Sizes, Fields DEF TtyRec
  <2>2. z.count = Least(y.count + 1, m)
    BY DEF OneLine
  <2>3. Least(y.count + 1, m) = IF y.count + 1 < m THEN y.count + 1 ELSE m
    BY DEF Least
  <2>4. Len(old) = y.count /\ Len(new) = z.count
    BY HistoryRows
  <2> QED BY <2>1, <2>2, <2>3, <2>4
<1>2. PICK row : z.ring = [y.ring EXCEPT ![y.head] = row]
  BY DEF OneLine
<1>3. z.head = IF y.head + 1 < m THEN y.head + 1 ELSE 0
  <2>1. y.head + 1 \in 0 .. 2 * m - 1 /\ (y.head + 1 < m \/ y.head + 1 = m)
    BY <1>1
  <2> DEFINE x == y.head + 1
  <2> HIDE DEF x
  <2>2. x % m = IF x < m THEN x ELSE x - m
    BY <1>1, <2>1, WrapOnce DEF x
  <2>3. z.head = x % m
    BY DEF OneLine, x
  <2> QED BY <1>1, <2>1, <2>2, <2>3 DEF x
<1>4. /\ \A k \in 1 .. y.count : old[k] = y.ring[logical_to_physical(y, k - 1)]
      /\ \A k \in 1 .. z.count : new[k] = z.ring[logical_to_physical(z, k - 1)]
  BY HistoryRows
<1>5. CASE y.count < m
  <2>1. y.head = y.count
    BY <1>5 DEF TtyOK
  <2>2. ASSUME NEW j \in 1 .. y.count PROVE new[j] = old[j]
    <3>1. j \in 1 .. z.count /\ j - 1 \in 0 .. m - 1 /\ j - 1 # y.head
      BY <1>1, <1>5, <2>1
    <3>2. logical_to_physical(y, j - 1) = j - 1
      BY <1>5 DEF logical_to_physical
    <3>3. logical_to_physical(z, j - 1) = j - 1
      <4>1. CASE z.count < m
        BY <4>1 DEF logical_to_physical
      <4>2. CASE ~(z.count < m)
        <5>1. z.head = 0
          BY <1>1, <1>3, <1>5, <2>1, <4>2
        <5> DEFINE x == j - 1
        <5>2. x \in 0 .. 2 * m - 1 /\ x < m
          BY <1>1, <3>1
        <5> HIDE DEF x
        <5>3. x % m = x
          BY <1>1, <5>2, WrapOnce
        <5>4. z.head + x = x
          BY <5>1, <5>2
        <5>5. logical_to_physical(z, x) = (z.head + x) % m
          BY <4>2 DEF logical_to_physical
        <5> QED BY <5>3, <5>4, <5>5 DEF x
      <4> QED BY <4>1, <4>2
    <3>4. new[j] = z.ring[j - 1] /\ old[j] = y.ring[j - 1]
      BY <1>4, <3>1, <3>2, <3>3
    <3> QED BY <1>1, <1>2, <3>1, <3>4
  <2>3. Shifted(old, new, 0)
    BY <1>1, <2>2 DEF Shifted
  <2> QED BY <2>3 DEF Lines
<1>6. CASE y.count = m
  <2>1. z.count = m
    BY <1>1, <1>6
  <2>2. ASSUME NEW j \in 1 .. m - 1 PROVE new[j] = old[j + 1]
    <3> DEFINE a == z.head + (j - 1)
               b == y.head + j
    <3>1. a \in 0 .. 2 * m - 1 /\ b \in 0 .. 2 * m - 1 /\ j - 1 \in Nat
      BY <1>1, <1>3
    <3>2. (a = b \/ (b >= m /\ a = b - m)) /\ b # y.head /\ (b >= m => b - m # y.head)
      BY <1>1, <1>3
    <3>3. logical_to_physical(z, j - 1) = a % m /\ logical_to_physical(y, j) = b % m
      <4>1. ~(z.count < m) /\ ~(y.count < m)
        BY <1>1, <1>6, <2>1
      <4> QED BY <4>1 DEF logical_to_physical
    <3> HIDE DEF a, b
    <3>4. a % m = IF a < m THEN a ELSE a - m
      BY <1>1, <3>1, WrapOnce
    <3>5. b % m = IF b < m THEN b ELSE b - m
      BY <1>1, <3>1, WrapOnce
    <3>6. a % m = b % m /\ b % m # y.head /\ b % m \in 0 .. m - 1
      <4> DEFINE am == a % m
                 bm == b % m
      <4>1. am = IF a < m THEN a ELSE a - m
        BY <3>4
      <4>2. bm = IF b < m THEN b ELSE b - m
        BY <3>5
      <4> HIDE DEF am, bm
      <4>3. am = bm /\ bm # y.head /\ bm \in 0 .. m - 1
        BY <1>1, <3>1, <3>2, <4>1, <4>2
      <4> QED BY <4>3 DEF am, bm
    <3>7. (j + 1) - 1 = j /\ j + 1 \in 1 .. y.count /\ j \in 1 .. z.count
      BY <1>1, <1>6, <2>1
    <3>8. new[j] = z.ring[b % m] /\ old[j + 1] = y.ring[b % m]
      BY <1>4, <3>3, <3>6, <3>7
    <3> QED BY <1>1, <1>2, <3>6, <3>8
  <2>3. Shifted(old, new, 1)
    BY <1>1, <1>6, <2>1, <2>2 DEF Shifted
  <2> QED BY <2>3 DEF Lines
<1> QED BY <1>1, <1>5, <1>6

LEMMA LinesOn ==
  ASSUME NEW x, TtyOK(x), NEW y, TtyOK(y), NEW z, TtyOK(z), NEW m \in Nat, NEW n \in Nat, Lines(x, y, m), Lines(y, z, n)
  PROVE  Lines(x, z, m + n)
<1> DEFINE a == History(x)
           b == History(y)
           c == History(z)
<1>1. /\ Len(a) \in Nat /\ Len(b) \in Nat /\ Len(c) \in Nat /\ Len(c) <= SCROLLBACK_LINES /\ SCROLLBACK_LINES \in Nat
      /\ Len(b) <= SCROLLBACK_LINES
  BY HistoryRows, Sizes
<1>2. PICK k \in 0 .. m : Shifted(a, b, k)
  BY DEF Lines
<1>3. PICK l \in 0 .. n : Shifted(b, c, l)
  BY DEF Lines
<1> DEFINE h == IF k + l <= Len(a) THEN k + l ELSE Len(a)
<1> HIDE DEF a, b, c
<1>4. h \in 0 .. m + n /\ h \in 0 .. Len(a) /\ h <= k + l
  BY <1>1, <1>2, <1>3
<1>5. k \in 0 .. Len(a) /\ (k > 0 => Len(b) = SCROLLBACK_LINES) /\ Len(a) - k <= Len(b)
  BY <1>2 DEF Shifted
<1>6. l \in 0 .. Len(b) /\ (l > 0 => Len(c) = SCROLLBACK_LINES) /\ Len(b) - l <= Len(c)
  BY <1>3 DEF Shifted
<1>7. h > 0 => Len(c) = SCROLLBACK_LINES
  BY <1>1, <1>4, <1>5, <1>6
<1>8. Len(a) - h <= Len(c)
  BY <1>1, <1>4, <1>5, <1>6
<1>9. ASSUME NEW j \in 1 .. Len(a) - h PROVE c[j] = a[j + h]
  <2>1. h = k + l /\ j \in 1 .. Len(b) - l /\ j + l \in 1 .. Len(a) - k /\ (j + l) + k = j + h
    BY <1>1, <1>4, <1>5, <1>6
  <2>2. c[j] = b[j + l]
    BY <1>3, <2>1 DEF Shifted
  <2>3. b[j + l] = a[(j + l) + k]
    BY <1>2, <2>1 DEF Shifted
  <2> QED BY <2>1, <2>2, <2>3
<1>10. Shifted(a, c, h)
  BY <1>4, <1>7, <1>8, <1>9 DEF Shifted
<1> QED BY <1>4, <1>10 DEF Lines, a, c

\* The rows that stay are the same ones in the same order.
LEMMA ShiftedRows ==
  ASSUME NEW y, TtyOK(y), NEW z, TtyOK(z), NEW k, Shifted(History(y), History(z), k)
  PROVE  /\ k \in 0 .. Len(History(y)) /\ (k > 0 => Len(History(z)) = SCROLLBACK_LINES)
         /\ Len(History(y)) - k <= Len(History(z))
         /\ SubSeq(History(z), 1, Len(History(y)) - k) = SubSeq(History(y), k + 1, Len(History(y)))
<1> DEFINE a == History(y)
           b == History(z)
           n == Len(a) - k
           x == SubSeq(b, 1, n)
           v == SubSeq(a, k + 1, Len(a))
<1>1. /\ a \in Seq(Row) /\ b \in Seq(Row) /\ Len(a) \in Nat /\ Len(b) \in Nat
  BY HistoryRows, Sizes
<1>2. k \in 0 .. Len(a) /\ (k > 0 => Len(b) = SCROLLBACK_LINES) /\ n <= Len(b) /\ \A j \in 1 .. n : b[j] = a[j + k]
  BY DEF Shifted
<1> HIDE DEF a, b
<1>3. n \in Nat /\ k + 1 \in Nat /\ Len(a) - (k + 1) + 1 = n
  BY <1>1, <1>2
<1>4. \A j \in 1 .. n : b[j] \in Row
  BY <1>1, <1>2, <1>3
<1>5. \A j \in k + 1 .. Len(a) : a[j] \in Row
  BY <1>1, <1>2
<1> DEFINE p == k + 1
<1>6. \A j \in p .. Len(a) : a[j] \in Row
  BY <1>5
<1>7. p \in Int /\ Len(a) \in Int /\ n \in Int /\ n = Len(a) - p + 1
  BY <1>1, <1>3
<1> HIDE DEF n, p
<1>8. /\ x \in Seq(Row) /\ Len(x) = (IF 1 <= n THEN n - 1 + 1 ELSE 0)
      /\ \A j \in 1 .. n - 1 + 1 : x[j] = b[1 + j - 1]
  BY <1>4, <1>7, SubSeqProperties
<1>9. /\ SubSeq(a, p, Len(a)) \in Seq(Row) /\ Len(SubSeq(a, p, Len(a))) = (IF p <= Len(a) THEN Len(a) - p + 1 ELSE 0)
      /\ \A j \in 1 .. Len(a) - p + 1 : SubSeq(a, p, Len(a))[j] = a[p + j - 1]
  BY <1>6, <1>7, SubSeqProperties
<1>10. v = SubSeq(a, p, Len(a))
  BY DEF p
<1> HIDE DEF x, v
<1>11. x \in Seq(Row) /\ v \in Seq(Row) /\ Len(x) = n /\ Len(v) = n
  BY <1>3, <1>7, <1>8, <1>9, <1>10
<1>12. ASSUME NEW j \in 1 .. n PROVE x[j] = v[j]
  <2>1. j \in 1 .. n - 1 + 1 /\ 1 + j - 1 = j /\ j \in 1 .. Len(a) - p + 1 /\ p + j - 1 = j + k
    BY <1>3, <1>2, <1>7 DEF p
  <2>2. x[j] = b[j] /\ v[j] = a[j + k]
    BY <1>8, <1>9, <1>10, <2>1
  <2> QED BY <1>2, <2>2 DEF n
<1>13. x = v
  BY <1>11, <1>12, SeqEqual
<1> QED BY <1>2, <1>13 DEF a, b, n, x, v

\* A row leaves the scrollback only at its old end, one per character and only when it is
\* full, unless a program clears it.
THEOREM ScrollbackInOrder == Spec => ScrollbackOrder
<1> DEFINE Old(i) == History(t.tty[i])
           New(i) == History(t'.tty[i])
           Kept(i) == \E k \in 0 .. Len(Old(i)) :
                        /\ k > 0 => Len(New(i)) = SCROLLBACK_LINES /\ w.pc = "bytes"
                        /\ k > 1 => Head(w.text) = 9
                        /\ Len(Old(i)) - k <= Len(New(i))
                        /\ SubSeq(New(i), 1, Len(Old(i)) - k) = SubSeq(Old(i), k + 1, Len(Old(i)))
<1>1. ASSUME IInv, [Next]_vars, NEW i \in Ttys PROVE New(i) = <<>> \/ Kept(i)
  <2>1. TtyOK(t.tty[i]) /\ TtyOK(t'.tty[i]) /\ (ByteStep \/ OtherStep) /\ ScreenOK(t)
    BY <1>1, AnyStep, TtyFields DEF IInv
  <2>2. ASSUME NEW n \in Nat, Lines(t.tty[i], t'.tty[i], n), n > 0 => w.pc = "bytes", n > 1 => Head(w.text) = 9
        PROVE  Kept(i)
    <3>1. PICK k \in 0 .. n : Shifted(Old(i), New(i), k)
      BY <2>2 DEF Lines
    <3>2. /\ k \in 0 .. Len(Old(i)) /\ (k > 0 => Len(New(i)) = SCROLLBACK_LINES)
          /\ Len(Old(i)) - k <= Len(New(i))
          /\ SubSeq(New(i), 1, Len(Old(i)) - k) = SubSeq(Old(i), k + 1, Len(Old(i)))
      BY <2>1, <3>1, ShiftedRows
    <3>3. (k > 0 => w.pc = "bytes") /\ (k > 1 => Head(w.text) = 9)
      BY <2>2
    <3> HIDE DEF Old, New
    <3> QED BY <3>2, <3>3
  <2>3. CASE SameHistory(t.tty[i], t'.tty[i])
    BY <2>1, <2>2, <2>3, HistorySame
  <2>4. CASE ByteStep /\ i = w.tty
    <3>1. w.pc = "bytes" /\ i \in Ttys /\ Typed(t, t', i, Head(w.text))
      BY <2>4 DEF ByteStep
    <3>2. ASSUME NEW s, NEW d, ScreenOK(s), MayPush(s, d, i)
          PROVE  ScreenOK(d) /\ TtyOK(s.tty[i]) /\ TtyOK(d.tty[i]) /\ Lines(s.tty[i], d.tty[i], 1)
      <4>1. ScreenOK(d) /\ TtyOK(s.tty[i]) /\ TtyOK(d.tty[i])
        BY <3>2, TtyFields DEF MayPush, Writes
      <4>2. CASE SameHistory(s.tty[i], d.tty[i])
        <5>1. Lines(s.tty[i], d.tty[i], 0)
          BY <4>1, <4>2, HistorySame
        <5> QED BY <4>1, <5>1 DEF Lines
      <4>3. CASE OneLine(s.tty[i], d.tty[i])
        BY <4>1, <4>3, HistoryPushed
      <4> QED BY <3>2, <4>1, <4>2, <4>3 DEF MayPush
    <3>3. CASE MayPush(t, t', i)
      BY <2>1, <2>2, <3>1, <3>2, <3>3
    <3>4. CASE Clears(t, t', i)
      <4>1. CASE t'.tty[i].count = 0
        <5>1. New(i) \in Seq(Row) /\ Len(New(i)) = 0
          BY <2>1, <4>1, HistoryRows
        <5> HIDE DEF New
        <5>2. New(i) = <<>>
          BY <5>1, EmptySeq
        <5> QED BY <5>2
      <4> QED BY <2>3, <3>4, <4>1 DEF Clears
    <3>5. CASE Head(w.text) = 9 /\ Four(t, t', i)
      <4>1. PICK a, b, c : MayPush(t, a, i) /\ MayPush(a, b, i) /\ MayPush(b, c, i) /\ MayPush(c, t', i)
        BY <3>5 DEF Four
      <4>2. ScreenOK(a) /\ TtyOK(a.tty[i]) /\ Lines(t.tty[i], a.tty[i], 1)
        BY <2>1, <3>2, <4>1
      <4>3. ScreenOK(b) /\ TtyOK(b.tty[i]) /\ Lines(a.tty[i], b.tty[i], 1)
        BY <3>2, <4>1, <4>2
      <4>4. ScreenOK(c) /\ TtyOK(c.tty[i]) /\ Lines(b.tty[i], c.tty[i], 1)
        BY <3>2, <4>1, <4>3
      <4>5. Lines(c.tty[i], t'.tty[i], 1)
        BY <3>2, <4>1, <4>4
      <4>6. Lines(t.tty[i], b.tty[i], 2)
        <5>1. Lines(t.tty[i], b.tty[i], 1 + 1)
          BY <2>1, <4>2, <4>3, LinesOn
        <5> QED BY <5>1
      <4>7. Lines(t.tty[i], c.tty[i], 3)
        <5>1. Lines(t.tty[i], c.tty[i], 2 + 1)
          BY <2>1, <4>3, <4>4, <4>6, LinesOn
        <5> QED BY <5>1
      <4>8. Lines(t.tty[i], t'.tty[i], 4)
        <5>1. Lines(t.tty[i], t'.tty[i], 3 + 1)
          BY <2>1, <4>4, <4>5, <4>7, LinesOn
        <5> QED BY <5>1
      <4> QED BY <2>2, <3>1, <3>5, <4>8
    <3> QED BY <3>1, <3>3, <3>4, <3>5 DEF Typed
  <2>5. CASE ByteStep /\ i # w.tty
    <3>1. t'.tty[i] = t.tty[i]
      BY <2>5 DEF ByteStep, Typed, MayPush, Clears, Four, Writes
    <3> QED BY <2>3, <3>1 DEF SameHistory
  <2>6. CASE OtherStep
    BY <2>3, <2>6 DEF OtherStep, Untouched
  <2> QED BY <2>1, <2>4, <2>5, <2>6
<1>2. ASSUME IInv, [Next]_vars
      PROVE  [\A i \in Ttys :
                LET old == History(t.tty[i])
                    new == History(t'.tty[i])
                IN  \/ new = <<>>
                    \/ \E k \in 0 .. Len(old) :
                         /\ k > 0 => Len(new) = SCROLLBACK_LINES /\ w.pc = "bytes"
                         /\ k > 1 => Head(w.text) = 9
                         /\ Len(old) - k <= Len(new)
                         /\ SubSeq(new, 1, Len(old) - k) = SubSeq(old, k + 1, Len(old))]_vars
  <2>1. \A i \in Ttys : New(i) = <<>> \/ Kept(i)
    BY <1>1, <1>2
  <2> QED BY <2>1
<1> QED BY <1>2, Invariant, PTL DEF Spec, ScrollbackOrder

-----------------------------------------------------------------------------
(* What the screen shows.  Every cell has its own share of ScreenShowsView and OneCursor;    *)
(* a write is followed cell by cell: those it has changed and not drawn yet are in rows      *)
(* marked dirty, all others show what they should.                                           *)

Seen(s, r, c) == view_row(Active(s), r)[c]
Lit(s, r, c) == s.visible /\ Active(s).row = r /\ Active(s).col = c
Shown(s, r, c) ==
  /\ "text" \notin s.torn => s.screen[r][c] \in {Seen(s, r, c), Inverted(Seen(s, r, c))}
  /\ s.torn = {} => s.screen[r][c] = IF Lit(s, r, c) THEN Inverted(Seen(s, r, c)) ELSE Seen(s, r, c)
AllShown(s) == \A r \in Rows, c \in Cols : Shown(s, r, c)

\* A cursor on the screen belongs to a text terminal that is not scrolled back; after an
\* interrupt within a step there may be one anywhere.
CursorFits(s) == s.visible /\ "text" \notin s.torn => s.active # DESKTOP_INDEX /\ Active(s).off = 0

\* While bytes are written the cursor is off the screen, or torn says that it was drawn.
Quiet(s) == s.torn = {} => ~s.visible

BarTrue(s) ==
  "bar" \notin s.torn /\ status_bar_enabled /\ s.active # DESKTOP_INDEX => s.bar = status_line(s)

\* The rows that can be trusted in a write: those not marked, but a terminal that is scrolled
\* back shows its text elsewhere.
Fresh(s) == IF Active(s).off > 0 /\ s.dirty # {} THEN {} ELSE Rows \ s.dirty

\* Whenever a write may start, which is anywhere: an interrupt may echo a key.
Marked(s) == ScreenOK(s) /\ CursorFits(s) /\ \A r \in Fresh(s), c \in Cols : Shown(s, r, c)

\* Outside of writes, and when a write has been drawn; bytes may still be under way then, of
\* the write it has interrupted.
Settled(s) == ScreenOK(s) /\ CursorFits(s) /\ (s.busy => Quiet(s)) /\ s.dirty = {} /\ AllShown(s)

\* Between two bytes of a write.
Writing(s) == Marked(s) /\ Quiet(s) /\ s.busy

\* Between two cells of the flush v: what it has passed is drawn.
Passed(v, r, c) == r < v.row \/ (r = v.row /\ c < v.col)
Flushing(s, v) ==
  /\ ScreenOK(s) /\ CursorFits(s)
  /\ "text" \notin s.torn =>
       /\ Quiet(s) /\ v.tty = s.active /\ (s.dirty # {} => Active(s).off = 0) /\ (v.col > 0 => v.row \in s.dirty)
       /\ \A r \in Rows, c \in Cols : r \notin s.dirty \/ Passed(v, r, c) => Shown(s, r, c)

\* What drawing on the screen carries over.
Carries(s, d) ==
  /\ Draws(s, d) /\ CursorFits(d) /\ d.dirty = s.dirty /\ d.busy = s.busy /\ s.torn \subseteq d.torn
  /\ \A r \in Rows, c \in Cols : Shown(s, r, c) => Shown(d, r, c)

LEMMA CarriesOn == ASSUME NEW s, NEW d, NEW e, Carries(s, d), Carries(d, e) PROVE Carries(s, e)
  BY DrawsOn DEF Carries

LEMMA ActiveOK ==
  ASSUME NEW s, ScreenOK(s)
  PROVE  /\ s \in ScreenRec /\ s.active \in Ttys /\ TtyOK(Active(s)) /\ Active(s) = s.tty[s.active]
         /\ Active(s).row \in Rows /\ Active(s).col \in Cols /\ Active(s).cells \in Grid /\ s.screen \in Grid
         /\ Active(s).off \in Nat
<1>1. s \in ScreenRec /\ s.active \in Ttys /\ TtyOK(Active(s)) /\ Active(s) = s.tty[s.active] /\ s.screen \in Grid
  BY DEF ScreenOK, ScreenRec, Active
<1>2. Active(s).cells \in Grid /\ Active(s).row \in Rows /\ Active(s).col \in Cols
  BY <1>1 DEF TtyOK, TtyRec
<1>3. Active(s).off \in Nat
  BY <1>1, Fields, Sizes
<1> QED BY <1>1, <1>2, <1>3

LEMMA SameViewRow == ASSUME NEW y, NEW z, SameView(y, z), NEW r PROVE view_row(z, r) = view_row(y, r)
  BY DEF view_row, clamped_offset, logical_to_physical, SameView, SameHistory

LEMMA ViewAtBottom == ASSUME NEW y, TtyOK(y), y.off = 0, NEW r \in Rows PROVE view_row(y, r) = y.cells[r]
<1>1. y.count \in Nat /\ r \in Nat
  BY Fields, Sizes DEF Rows
<1>2. clamped_offset(y) = 0
  BY <1>1 DEF clamped_offset, Least
<1> QED BY <1>1, <1>2 DEF view_row

\* One cell of the screen is replaced.
Put(g, r, c, cell) == [g EXCEPT ![r][c] = cell]

LEMMA OneCell ==
  ASSUME NEW g \in Grid, NEW r \in Rows, NEW c \in Cols, NEW cell
  PROVE  \A q \in Rows, k \in Cols : Put(g, r, c, cell)[q][k] = IF q = r /\ k = c THEN cell ELSE g[q][k]
  BY DEF Put, Grid, Row

\* The same cells under the same cursor, if there is no doubt about it.
LEMMA SameScreen ==
  ASSUME NEW s, NEW d, CursorFits(s), d.screen = s.screen, d.torn = s.torn, d.visible => s.visible,
         s.torn = {} => d.visible = s.visible, d.dirty = s.dirty, d.busy = s.busy, Draws(s, d)
  PROVE  Carries(s, d)
<1>1. Active(d) = Active(s) /\ d.active = s.active
  BY DEF Draws, Active
<1>2. CursorFits(d)
  BY <1>1 DEF CursorFits
<1>3. \A r \in Rows, c \in Cols : Shown(s, r, c) => Shown(d, r, c)
  BY <1>1 DEF Shown, Seen, Lit
<1> QED BY <1>2, <1>3 DEF Carries

\* A terminal without a cursor has none on the screen but by accident.
LEMMA NoCursor ==
  ASSUME NEW s, ScreenOK(s), CursorFits(s), s.active = DESKTOP_INDEX \/ Active(s).off > 0,
         NEW d, d = [s EXCEPT !.visible = FALSE]
  PROVE  Carries(s, d) /\ d.bar = s.bar /\ d.torn = s.torn /\ ~d.visible
<1>1. Draws(s, d) /\ s \in ScreenRec
  BY ShownDraws DEF ScreenOK
<1>2. /\ d.screen = s.screen /\ d.torn = s.torn /\ d.visible = FALSE /\ d.dirty = s.dirty
      /\ d.busy = s.busy /\ d.bar = s.bar
  BY <1>1 DEF ScreenRec
<1>3. s.torn = {} => s.visible = FALSE
  <2>1. Active(s).off \in Nat /\ s.visible \in BOOLEAN
    BY <1>1, ActiveOK DEF ScreenRec
  <2> QED BY <2>1 DEF CursorFits
<1> QED BY <1>1, <1>2, <1>3, SameScreen

LEMMA CursorShows ==
  ASSUME NEW s, ScreenOK(s), CursorFits(s), NEW d, d = draw_cursor(s)
  PROVE  /\ Carries(s, d) /\ d.bar = s.bar /\ (s.busy => Quiet(d))
         /\ "text" \in d.torn => "text" \in s.torn
<1>1. Draws(s, d) /\ s \in ScreenRec
  BY CursorDraws DEF ScreenOK
<1>2. CASE s.active = DESKTOP_INDEX \/ Active(s).off > 0
  <2>1. d = [s EXCEPT !.visible = FALSE]
    BY <1>2 DEF draw_cursor
  <2>2. Carries(s, d) /\ d.bar = s.bar /\ d.torn = s.torn /\ ~d.visible
    BY <1>2, <2>1, NoCursor
  <2> QED BY <2>2 DEF Quiet
<1>3. CASE ~(s.active = DESKTOP_INDEX \/ Active(s).off > 0)
  <2> DEFINE y == Active(s)
             r == y.row
             c == y.col
             cell == Inverted(y.cells[r][c])
             tears == IF s.busy THEN s.torn \cup {"cursor"} ELSE s.torn
  <2>1. TtyOK(y) /\ r \in Rows /\ c \in Cols /\ y.off = 0 /\ s.screen \in Grid
    BY <1>3, ActiveOK
  <2>2. d = [s EXCEPT !.screen[r][c] = cell, !.visible = TRUE, !.torn = tears]
    BY <1>3 DEF draw_cursor
  <2>3. view_row(y, r)[c] = y.cells[r][c]
    BY <2>1, ViewAtBottom
  <2>4. Active(d) = y /\ d.active # DESKTOP_INDEX
    BY <1>1, <1>3 DEF Draws, Active
  <2>5. (s.torn \subseteq tears) /\ (s.busy => tears # {}) /\ ("text" \in tears => "text" \in s.torn)
    OBVIOUS
  <2> HIDE DEF y, cell, tears
  <2>6. /\ d.screen = Put(s.screen, r, c, cell) /\ d.torn = tears /\ d.visible = TRUE /\ d.dirty = s.dirty
        /\ d.busy = s.busy /\ d.bar = s.bar
    BY <1>1, <2>2 DEF ScreenRec, Put
  <2>7. \A q \in Rows, k \in Cols : d.screen[q][k] = IF q = r /\ k = c THEN cell ELSE s.screen[q][k]
    BY <2>1, <2>6, OneCell
  <2>8. ASSUME NEW q \in Rows, NEW k \in Cols, Shown(s, q, k) PROVE Shown(d, q, k)
    <3>1. Seen(d, q, k) = Seen(s, q, k) /\ (Lit(d, q, k) <=> q = r /\ k = c)
      BY <2>4, <2>6 DEF Seen, Lit, y
    <3>2. CASE q = r /\ k = c
      <4>1. d.screen[q][k] = Inverted(Seen(d, q, k))
        BY <2>3, <2>4, <2>7, <3>2 DEF Seen, cell
      <4> QED BY <3>1, <3>2, <4>1 DEF Shown
    <3>3. CASE ~(q = r /\ k = c)
      <4>1. d.screen[q][k] = s.screen[q][k] /\ ~Lit(d, q, k) /\ ~Lit(s, q, k)
        BY <2>7, <3>1, <3>3 DEF Lit, y
      <4>2. ("text" \notin d.torn => "text" \notin s.torn) /\ (d.torn = {} => s.torn = {})
        BY <2>5, <2>6
      <4> QED BY <2>8, <3>1, <4>1, <4>2 DEF Shown
    <3> QED BY <3>2, <3>3
  <2>9. CursorFits(d) /\ (s.busy => Quiet(d))
    BY <2>1, <2>4, <2>5, <2>6 DEF CursorFits, Quiet
  <2> QED BY <1>1, <2>5, <2>6, <2>8, <2>9 DEF Carries
<1> QED BY <1>2, <1>3

\* What drawing a cell changes.
LEMMA CellFields ==
  ASSUME NEW s, ScreenOK(s), NEW i \in Ttys, NEW r \in Rows, NEW c \in Cols, NEW d, d = draw_cell(s, i, r, c)
  PROVE  /\ Draws(s, d) /\ Active(d) = Active(s) /\ d.visible = s.visible /\ d.torn = s.torn /\ d.dirty = s.dirty
         /\ d.busy = s.busy /\ d.bar = s.bar
         /\ d.screen = Put(s.screen, r, c, s.tty[i].cells[r][c])
<1>1. s \in ScreenRec /\ Draws(s, d)
  BY ActiveOK, DrawCellDraws
<1> DEFINE cell == s.tty[i].cells[r][c]
<1>2. d = [s EXCEPT !.screen[r][c] = cell]
  BY DEF draw_cell
<1> HIDE DEF cell
<1>3. /\ d.screen = Put(s.screen, r, c, cell) /\ d.visible = s.visible /\ d.torn = s.torn /\ d.dirty = s.dirty
      /\ d.busy = s.busy /\ d.bar = s.bar
  BY <1>1, <1>2 DEF ScreenRec, Put
<1> QED BY <1>1, <1>3 DEF Draws, Active, cell

\* The cell of the active terminal that is drawn shows what it should, and so do the others.
LEMMA CellShows ==
  ASSUME NEW s, ScreenOK(s), Active(s).off = 0, NEW r \in Rows, NEW c \in Cols, NEW d,
         d.screen = Put(s.screen, r, c, Active(s).cells[r][c]), d.torn = s.torn, Active(d) = Active(s),
         Quiet(s) \/ Lit(s, r, c), Quiet(d)
  PROVE  Shown(d, r, c) /\ \A q \in Rows, k \in Cols : Shown(s, q, k) => Shown(d, q, k)
<1> DEFINE cell == Active(s).cells[r][c]
<1>1. TtyOK(Active(s)) /\ s.screen \in Grid
  BY ActiveOK
<1>2. view_row(Active(s), r)[c] = cell
  BY <1>1, ViewAtBottom
<1> HIDE DEF cell
<1>3. \A q \in Rows, k \in Cols : d.screen[q][k] = IF q = r /\ k = c THEN cell ELSE s.screen[q][k]
  BY <1>1, OneCell DEF cell
<1>4. Shown(d, r, c)
  <2>1. d.screen[r][c] = Seen(d, r, c)
    BY <1>2, <1>3 DEF Seen
  <2> QED BY <2>1 DEF Shown, Quiet, Lit
<1>5. ASSUME NEW q \in Rows, NEW k \in Cols, Shown(s, q, k), ~(q = r /\ k = c) PROVE Shown(d, q, k)
  <2>1. d.screen[q][k] = s.screen[q][k] /\ Seen(d, q, k) = Seen(s, q, k)
    BY <1>3, <1>5 DEF Seen
  <2>2. s.torn = {} => ~Lit(s, q, k) /\ ~Lit(d, q, k)
    BY <1>5 DEF Quiet, Lit
  <2> QED BY <1>5, <2>1, <2>2 DEF Shown
<1> QED BY <1>4, <1>5

LEMMA HideShows ==
  ASSUME NEW s, ScreenOK(s), CursorFits(s), NEW d, d = hide_cursor(s)
  PROVE  Carries(s, d) /\ d.bar = s.bar /\ d.torn = s.torn /\ ~d.visible
<1>1. CASE ~s.visible
  <2>1. d = s
    BY <1>1 DEF hide_cursor
  <2> QED BY <1>1, <2>1, DrawsNothing DEF Carries
<1>2. CASE s.visible /\ Active(s).off > 0
  <2>1. d = [s EXCEPT !.visible = FALSE]
    BY <1>2 DEF hide_cursor
  <2> QED BY <1>2, <2>1, NoCursor
<1>3. CASE s.visible /\ ~(Active(s).off > 0)
  <2>1. Active(s).off = 0 /\ Active(s).row \in Rows /\ Active(s).col \in Cols
    BY <1>3, ActiveOK
  <2> DEFINE r == Active(s).row
             c == Active(s).col
             e == draw_cell(s, s.active, r, c)
  <2>2. d = [e EXCEPT !.visible = FALSE]
    BY <1>3, <2>1 DEF hide_cursor
  <2>3. s.active \in Ttys /\ Active(s) = s.tty[s.active]
    BY ActiveOK
  <2>4. Lit(s, r, c)
    BY <1>3 DEF Lit
  <2> HIDE DEF r, c
  <2>5. r \in Rows /\ c \in Cols
    BY <2>1 DEF r, c
  <2>6. /\ Draws(s, e) /\ Active(e) = Active(s) /\ e.torn = s.torn /\ e.dirty = s.dirty
        /\ e.busy = s.busy /\ e.bar = s.bar
        /\ e.screen = Put(s.screen, r, c, Active(s).cells[r][c])
    BY <2>3, <2>5, CellFields
  <2> HIDE DEF e
  <2>7. e \in ScreenRec
    BY <2>6 DEF Draws, ScreenOK
  <2>8. /\ d.visible = FALSE /\ d.torn = s.torn /\ d.dirty = s.dirty /\ d.busy = s.busy /\ d.bar = s.bar
        /\ d.screen = e.screen
    BY <2>2, <2>6, <2>7 DEF ScreenRec
  <2>9. Draws(s, d)
    <3>1. Draws(e, d)
      BY <2>2, <2>6, ShownDraws DEF Draws
    <3> QED BY <2>6, <3>1, DrawsOn
  <2>10. Active(d) = Active(s) /\ Quiet(d) /\ CursorFits(d)
    BY <2>8, <2>9 DEF Draws, Active, Quiet, CursorFits
  <2>11. \A q \in Rows, k \in Cols : Shown(s, q, k) => Shown(d, q, k)
    BY <2>1, <2>4, <2>5, <2>6, <2>8, <2>10, CellShows
  <2> QED BY <2>8, <2>9, <2>10, <2>11 DEF Carries
<1> QED BY <1>1, <1>2, <1>3

LEMMA BarShows ==
  ASSUME NEW s, ScreenOK(s), CursorFits(s), NEW d, d = draw_status_bar(s)
  PROVE  Carries(s, d) /\ BarTrue(d) /\ d.torn = s.torn /\ d.visible = s.visible
<1>1. Draws(s, d) /\ s \in ScreenRec
  BY StatusBarDraws DEF ScreenOK
<1> DEFINE line == status_line(s)
<1>2. status_line(d) = line
  BY <1>1 DEF status_line, Draws, Active
<1>3. CASE ~status_bar_enabled \/ s.active = DESKTOP_INDEX
  <2>1. d = s
    BY <1>3 DEF draw_status_bar
  <2> QED BY <1>1, <1>3, <2>1, SameScreen DEF BarTrue
<1>4. CASE ~(~status_bar_enabled \/ s.active = DESKTOP_INDEX)
  <2>1. d = [s EXCEPT !.bar = line]
    BY <1>4 DEF draw_status_bar
  <2> HIDE DEF line
  <2>2. /\ d.screen = s.screen /\ d.torn = s.torn /\ d.visible = s.visible /\ d.dirty = s.dirty
        /\ d.busy = s.busy /\ d.bar = line
    BY <1>1, <2>1 DEF ScreenRec
  <2> QED BY <1>1, <1>2, <2>2, SameScreen DEF BarTrue
<1> QED BY <1>3, <1>4

\* All of the screen is drawn.
Redrawn(s, d) ==
  /\ ScreenOK(d) /\ CursorFits(d) /\ d.dirty = {} /\ d.busy = s.busy /\ AllShown(d)
  /\ (s.busy => Quiet(d)) /\ BarTrue(d) /\ "text" \notin d.torn

LEMMA RedrawShows == ASSUME NEW s, ScreenOK(s), NEW f, f = redraw_active(s) PROVE Redrawn(s, f)
<1> DEFINE d == repainted(s)
           e == IF Active(s).off = 0 THEN draw_cursor(d) ELSE d
<1>1. /\ Draws(s, d) /\ d.visible = FALSE /\ d.dirty = {} /\ d.torn = {} /\ d.busy = s.busy
      /\ d.screen = [r \in Rows |-> view_row(Active(s), r)]
  BY Repainted
<1>2. f = draw_status_bar(e)
  BY RedrawIs
<1> HIDE DEF d
<1>3. ScreenOK(d) /\ CursorFits(d) /\ Active(d) = Active(s) /\ Quiet(d)
  BY <1>1 DEF Draws, CursorFits, Active, Quiet
<1>4. AllShown(d)
  BY <1>1, <1>3 DEF AllShown, Shown, Seen, Lit
<1>5. Carries(d, e) /\ (d.busy => Quiet(e)) /\ "text" \notin e.torn
  <2>1. CASE Active(s).off = 0
    BY <1>1, <1>3, <2>1, CursorShows
  <2>2. CASE Active(s).off # 0
    BY <1>1, <1>3, <2>2, SameScreen, DrawsNothing
  <2> QED BY <2>1, <2>2
<1> HIDE DEF e
<1>6. ScreenOK(e) /\ CursorFits(e)
  BY <1>5 DEF Carries, Draws
<1>7. Carries(e, f) /\ BarTrue(f) /\ f.torn = e.torn /\ f.visible = e.visible
  BY <1>2, <1>6, BarShows
<1>8. Carries(d, f)
  BY <1>5, <1>7, CarriesOn
<1>9. Draws(s, f)
  BY <1>1, <1>8, DrawsOn DEF Carries
<1>10. s.busy => Quiet(f)
  BY <1>1, <1>5, <1>7 DEF Quiet
<1> QED BY <1>1, <1>4, <1>5, <1>7, <1>8, <1>9, <1>10 DEF Redrawn, Carries, AllShown, Draws

LEMMA RedrawWriting == ASSUME NEW s, ScreenOK(s), s.busy PROVE Writing(redraw_active(s))
<1> DEFINE f == redraw_active(s)
<1>1. Redrawn(s, f)
  BY RedrawShows
<1> HIDE DEF f
<1>2. Writing(f)
  BY <1>1 DEF Redrawn, Writing, Marked, AllShown, Fresh
<1> QED BY <1>2 DEF f

LEMMA RedrawSettled == ASSUME NEW s, ScreenOK(s) PROVE Settled(redraw_active(s)) /\ BarTrue(redraw_active(s))
<1> DEFINE f == redraw_active(s)
<1>1. Redrawn(s, f)
  BY RedrawShows
<1> HIDE DEF f
<1>2. Settled(f) /\ BarTrue(f)
  BY <1>1 DEF Redrawn, Settled
<1> QED BY <1>2 DEF f

-----------------------------------------------------------------------------
(* A byte of a write. *)

put_tty(s, i, z) == [s EXCEPT !.tty[i] = z]

TtyPut(s, d, i, z) ==
  /\ Writes(s, d, i) /\ (i = s.active => Active(d) = z) /\ (i # s.active => Active(d) = Active(s))
  /\ d.screen = s.screen /\ d.visible = s.visible /\ d.torn = s.torn /\ d.dirty = s.dirty
  /\ d.busy = s.busy /\ d.bar = s.bar

LEMMA PutTty ==
  ASSUME NEW s, ScreenOK(s), NEW i \in Ttys, NEW z, TtyOK(z), NEW d, d = put_tty(s, i, z)
  PROVE  TtyPut(s, d, i, z)
<1>1. Writes(s, d, i) /\ d.tty[i] = z
  BY SetTty DEF put_tty
<1>2. s.active \in Ttys /\ s \in ScreenRec
  BY ActiveOK
<1>3. Active(d) = IF i = s.active THEN z ELSE Active(s)
  BY <1>1, <1>2 DEF Active, Writes
<1>4. /\ d.screen = s.screen /\ d.visible = s.visible /\ d.torn = s.torn /\ d.dirty = s.dirty
      /\ d.busy = s.busy /\ d.bar = s.bar
  BY <1>2 DEF put_tty, ScreenRec
<1> QED BY <1>1, <1>3, <1>4 DEF TtyPut

\* Without a cursor on the screen, it does not matter where it stands.
LEMMA StillShown ==
  ASSUME NEW s, NEW d, NEW r, NEW c, NEW q, Shown(s, q, c), Quiet(s), d.torn = s.torn, d.visible = s.visible,
         d.screen[r][c] = s.screen[q][c], Seen(d, r, c) = Seen(s, q, c)
  PROVE  Shown(d, r, c)
  BY DEF Shown, Quiet, Lit

\* What the active terminal does not show, the screen need not.
LEMMA Unseen ==
  ASSUME NEW s, Writing(s), NEW i \in Ttys, NEW z, TtyOK(z), i = s.active => SameView(s.tty[i], z),
         NEW d, d = put_tty(s, i, z)
  PROVE  Writing(d)
<1>1. ScreenOK(s) /\ CursorFits(s) /\ Quiet(s) /\ s.busy
  BY DEF Writing, Marked
<1>2. TtyPut(s, d, i, z)
  BY <1>1, PutTty
<1>3. Active(s) = s.tty[s.active] /\ d.active = s.active /\ ScreenOK(d)
  BY <1>2 DEF TtyPut, Active, Writes
<1>4. Active(d).off = Active(s).off /\ \A r : view_row(Active(d), r) = view_row(Active(s), r)
  BY <1>2, <1>3, SameViewRow DEF SameView, TtyPut
<1>5. Fresh(d) = Fresh(s) /\ CursorFits(d) /\ Quiet(d)
  BY <1>1, <1>2, <1>3, <1>4 DEF Fresh, CursorFits, Quiet, TtyPut
<1>6. \A r \in Fresh(d), c \in Cols : Shown(d, r, c)
  BY <1>1, <1>2, <1>4, <1>5, StillShown DEF Writing, Marked, Seen, TtyPut
<1> QED BY <1>1, <1>2, <1>3, <1>5, <1>6 DEF Writing, Marked, TtyPut

\* A change is put off, or drawn.
ChangeDone(s, d, i, r, changed) ==
  /\ Draws(s, d) /\ d.visible = s.visible /\ d.busy = s.busy
  /\ \/ d.dirty = s.dirty \cup {r} /\ d.screen = s.screen /\ d.torn = s.torn
     \/ /\ d.dirty = s.dirty /\ d.torn = (IF s.tty[i].off > 0 THEN s.torn \cup {"text"} ELSE s.torn)
        /\ d.screen = [s.screen EXCEPT ![r] = RowDrawn(s, i, r, changed)]

LEMMA ChangedFields ==
  ASSUME NEW s, ScreenOK(s), NEW i \in Ttys, NEW r \in Rows, NEW changed, NEW d, d = draw_changed(s, i, r, changed)
  PROVE  ChangeDone(s, d, i, r, changed)
<1>1. Draws(s, d) /\ s \in ScreenRec
  BY ChangedDraws DEF ScreenOK
<1>2. CASE s.defer_draw
  <2>1. d = [s EXCEPT !.dirty = s.dirty \cup {r}]
    BY <1>2 DEF draw_changed, dirty_mark_row
  <2>2. /\ d.dirty = s.dirty \cup {r}
        /\ d.screen = s.screen /\ d.visible = s.visible /\ d.torn = s.torn /\ d.busy = s.busy
    BY <1>1, <2>1 DEF ScreenRec
  <2> QED BY <1>1, <2>2 DEF ChangeDone
<1>3. CASE ~s.defer_draw
  <2> DEFINE row == RowDrawn(s, i, r, changed)
             tears == IF s.tty[i].off > 0 THEN s.torn \cup {"text"} ELSE s.torn
             g == [s.screen EXCEPT ![r] = row]
  <2>1. d = [s EXCEPT !.screen = g, !.torn = tears]
    BY <1>3 DEF draw_changed, RowDrawn
  <2> HIDE DEF row, tears, g
  <2>2. d.screen = g /\ d.torn = tears /\ d.dirty = s.dirty /\ d.visible = s.visible /\ d.busy = s.busy
    BY <1>1, <2>1 DEF ScreenRec
  <2> QED BY <1>1, <2>2 DEF ChangeDone, row, tears, g
<1> QED BY <1>2, <1>3

\* A change of a row that is put off leaves the others as they are; one that is drawn leaves
\* its row shown too, but over a terminal scrolled back, which torn records.
LEMMA RowShows ==
  ASSUME NEW s, Writing(s), NEW d, NEW i \in Ttys, NEW r \in Rows, RowWritten(s, d, i, r) PROVE Writing(d)
<1>1. ScreenOK(s) /\ CursorFits(s) /\ Quiet(s) /\ s.busy
  BY DEF Writing, Marked
<1>2. PICK z, changed :
        /\ TtyOK(z) /\ SameHistory(s.tty[i], z) /\ z.off = s.tty[i].off
        /\ \A q \in Rows, k \in Cols : (q = r /\ k \in changed) \/ z.cells[q][k] = s.tty[i].cells[q][k]
        /\ LET e == [s EXCEPT !.tty[i] = z] IN d = IF i = s.active THEN draw_changed(e, i, r, changed) ELSE e
  BY DEF RowWritten
<1> DEFINE e == put_tty(s, i, z)
<1>3. d = IF i = s.active THEN draw_changed(e, i, r, changed) ELSE e
  BY <1>2 DEF put_tty
<1>4. TtyPut(s, e, i, z)
  BY <1>1, <1>2, PutTty
<1>5. CASE i # s.active
  BY <1>2, <1>3, <1>5, Unseen
<1>6. CASE i = s.active
  <2> HIDE DEF e
  <2>1. /\ ScreenOK(e) /\ e.tty[i] = z /\ Active(e) = z /\ e.active = s.active /\ e.visible = s.visible
        /\ e.torn = s.torn /\ e.dirty = s.dirty /\ e.busy = s.busy /\ e.screen = s.screen
    BY <1>4, <1>6 DEF TtyPut, Writes, Active
  <2>2. /\ Draws(e, d) /\ d.visible = s.visible /\ d.busy = s.busy
        /\ \/ d.dirty = s.dirty \cup {r} /\ d.screen = s.screen /\ d.torn = s.torn
           \/ /\ d.dirty = s.dirty /\ d.torn = (IF z.off > 0 THEN s.torn \cup {"text"} ELSE s.torn)
              /\ d.screen = [s.screen EXCEPT ![r] = RowDrawn(e, i, r, changed)]
    <3>1. d = draw_changed(e, i, r, changed)
      BY <1>3, <1>6
    <3>2. ChangeDone(e, d, i, r, changed)
      BY <2>1, <3>1, ChangedFields
    <3> QED BY <2>1, <3>2 DEF ChangeDone
  <2>3. /\ d.active = s.active /\ Active(d) = z /\ Active(s) = s.tty[i] /\ TtyOK(Active(s)) /\ ScreenOK(d)
        /\ s.screen \in Grid /\ z.off \in Nat
    BY <1>1, <1>2, <1>6, <2>1, <2>2, ActiveOK DEF Draws, Active
  <2>4. CASE "text" \in d.torn
    BY <1>1, <2>2, <2>3, <2>4 DEF Writing, Marked, CursorFits, Quiet, Shown
  <2>5. CASE "text" \notin d.torn
    <3>1. CursorFits(d) /\ Quiet(d) /\ d.torn = s.torn
      BY <1>1, <1>2, <2>2, <2>3, <2>5 DEF CursorFits, Quiet
    <3>2. ASSUME NEW q \in Fresh(d), NEW c \in Cols PROVE Shown(d, q, c)
      <4>1. z.off = 0 /\ q \in Rows /\ q \notin s.dirty
        BY <2>2, <2>3, <2>5, <3>2 DEF Fresh
      <4>2. q \in Fresh(s)
        BY <1>2, <2>3, <4>1 DEF Fresh
      <4>3. Seen(d, q, c) = z.cells[q][c] /\ Seen(s, q, c) = s.tty[i].cells[q][c]
        <5>1. view_row(z, q) = z.cells[q]
          BY <1>2, <4>1, ViewAtBottom
        <5>2. view_row(s.tty[i], q) = s.tty[i].cells[q]
          BY <1>2, <2>3, <4>1, ViewAtBottom
        <5> QED BY <2>3, <5>1, <5>2 DEF Seen
      <4>4. CASE q = r /\ c \in changed
        <5>1. d.screen = [s.screen EXCEPT ![r] = RowDrawn(e, i, r, changed)]
          BY <2>2, <3>2, <4>4 DEF Fresh
        <5>2. d.screen[q][c] = z.cells[q][c]
          BY <2>1, <2>3, <4>4, <5>1 DEF RowDrawn, Grid
        <5> QED BY <3>1, <4>3, <5>2 DEF Shown, Quiet, Lit
      <4>5. CASE ~(q = r /\ c \in changed)
        <5>1. d.screen[q][c] = s.screen[q][c]
          BY <2>1, <2>2, <2>3, <4>1, <4>5 DEF RowDrawn, Grid
        <5>2. Seen(d, q, c) = Seen(s, q, c)
          BY <1>2, <4>1, <4>3, <4>5
        <5>3. Shown(s, q, c)
          BY <4>2 DEF Writing, Marked
        <5> QED BY <1>1, <2>2, <3>1, <5>1, <5>2, <5>3, StillShown
      <4> QED BY <4>4, <4>5
    <3> QED BY <1>1, <2>2, <2>3, <3>1, <3>2 DEF Writing, Marked
  <2> QED BY <2>4, <2>5
<1> QED BY <1>5, <1>6

\* A row that was not drawn yet is lost, which torn records; otherwise the framebuffer moves as
\* the text does.
LEMMA ScrollShows == ASSUME NEW s, Writing(s), NEW i \in Ttys PROVE Writing(scroll_up(s, i))
<1> DEFINE y == s.tty[i]
           z == scrolled(y)
           e == put_tty(s, i, z)
           f == fb_scroll_up(e)
           last == content_rows - 1
           d == draw_changed(f, i, last, Cols)
<1>1. ScreenOK(s) /\ CursorFits(s) /\ Quiet(s) /\ s.busy
  BY DEF Writing, Marked
<1>2. TtyOK(y) /\ TtyOK(z) /\ z.off = y.off /\ z.cells = shift_rows(y)
  BY <1>1, TtyFields, Scrolled
<1>3. scroll_up(s, i) = IF i # s.active THEN e ELSE IF e.tty[i].off > 0 THEN redraw_active(e) ELSE d
  BY DEF scroll_up, put_tty, scrolled
<1> HIDE DEF z
<1>4. TtyPut(s, e, i, z)
  BY <1>1, <1>2, PutTty
<1>5. CASE i # s.active
  BY <1>2, <1>3, <1>5, Unseen
<1> HIDE DEF e
<1>6. ScreenOK(e) /\ last \in Rows /\ e.active = s.active
  BY <1>4, Sizes DEF TtyPut, Writes, Rows
<1>7. CASE i = s.active /\ e.tty[i].off > 0
  BY <1>1, <1>3, <1>4, <1>6, <1>7, RedrawWriting DEF TtyPut
<1>8. CASE i = s.active /\ ~(e.tty[i].off > 0)
  <2>1. /\ f.screen = [r \in Rows |-> IF r + 1 < content_rows THEN s.screen[r + 1] ELSE BlankRow]
        /\ f.visible = s.visible /\ f.torn = (IF s.dirty = {} THEN s.torn ELSE s.torn \cup {"text"})
        /\ f.dirty = s.dirty /\ f.busy = s.busy
    BY <1>4, <1>6 DEF TtyPut, fb_scroll_up, ScreenOK, ScreenRec
  <2>2. Draws(e, f)
    BY <1>6, FbScrollDraws
  <2> HIDE DEF f, last
  <2>3. z.off = 0 /\ y.off = 0 /\ e.tty[i] = z
    BY <1>2, <1>4, <1>6, <1>8, ActiveOK DEF TtyPut, Active
  <2>4. f.tty[i] = z /\ ScreenOK(f) /\ f.screen \in Grid
    BY <2>2, <2>3, ActiveOK DEF Draws
  <2>5. /\ Draws(f, d) /\ d.visible = s.visible /\ d.busy = s.busy /\ d.torn = f.torn
        /\ \/ d.dirty = s.dirty \cup {last} /\ d.screen = f.screen
           \/ d.dirty = s.dirty /\ d.screen = [f.screen EXCEPT ![last] = RowDrawn(f, i, last, Cols)]
    <3>1. ChangeDone(f, d, i, last, Cols)
      BY <1>6, <2>4, ChangedFields
    <3> HIDE DEF d
    <3> QED BY <2>1, <2>3, <2>4, <3>1 DEF ChangeDone
  <2> HIDE DEF d
  <2>6. ScreenOK(d) /\ d.active = s.active /\ Active(d) = z /\ Active(s) = y
    BY <1>4, <1>6, <1>8, <2>2, <2>5 DEF TtyPut, Draws, Active
  <2>7. CursorFits(d) /\ Quiet(d)
    BY <1>1, <2>1, <2>3, <2>5, <2>6 DEF CursorFits, Quiet
  <2>8. ASSUME NEW r \in Fresh(d), NEW c \in Cols PROVE Shown(d, r, c)
    <3>1. CASE s.dirty # {}
      BY <2>1, <2>5, <3>1 DEF Shown
    <3>2. CASE s.dirty = {} /\ r = last
      <4>1. d.screen = [f.screen EXCEPT ![last] = RowDrawn(f, i, last, Cols)]
        BY <2>5, <2>8, <3>2 DEF Fresh
      <4>2. d.screen[r][c] = z.cells[r][c]
        BY <1>6, <2>4, <3>2, <4>1 DEF RowDrawn, Grid
      <4>3. Seen(d, r, c) = z.cells[r][c]
        BY <1>2, <1>6, <2>3, <2>6, <3>2, ViewAtBottom DEF Seen
      <4> QED BY <2>7, <4>2, <4>3 DEF Shown, Quiet, Lit
    <3>3. CASE s.dirty = {} /\ r # last
      <4>1. r \in Rows
        BY <2>8 DEF Fresh
      <4>2. r + 1 < content_rows /\ r + 1 \in Rows
        BY <3>3, <4>1, Sizes DEF Rows, last
      <4>3. r + 1 \in Fresh(s)
        BY <3>3, <4>2 DEF Fresh
      <4>4. d.screen[r][c] = s.screen[r + 1][c]
        <5>1. d.screen[r] = f.screen[r]
          BY <1>6, <2>4, <2>5, <3>3, <4>1 DEF Grid
        <5> QED BY <2>1, <4>1, <4>2, <5>1
      <4>5. z.cells[r] = y.cells[r + 1]
        BY <1>2, <4>1, <4>2 DEF shift_rows
      <4> HIDE DEF y
      <4>6. Seen(d, r, c) = Seen(s, r + 1, c)
        BY <1>2, <2>3, <2>6, <4>1, <4>2, <4>5, ViewAtBottom DEF Seen
      <4>7. Shown(s, r + 1, c) /\ d.torn = s.torn
        BY <2>1, <2>5, <3>3, <4>3 DEF Writing, Marked
      <4> QED BY <1>1, <2>5, <4>4, <4>6, <4>7, StillShown
    <3> QED BY <3>1, <3>2, <3>3
  <2>9. Writing(d)
    BY <1>1, <2>5, <2>6, <2>7, <2>8 DEF Writing, Marked
  <2> QED BY <1>3, <1>8, <2>9
<1> QED BY <1>5, <1>7, <1>8

\* The terminal changes in what the screen does not show: its cursor, its colours, its parser.
LEMMA StyledShows ==
  ASSUME NEW s, Writing(s), NEW i \in Ttys, NEW z, TtyOK(z), SameView(s.tty[i], z), NEW d, d = [s EXCEPT !.tty[i] = z]
  PROVE  Writing(d)
<1>1. d = put_tty(s, i, z)
  BY DEF put_tty
<1> QED BY <1>1, Unseen

LEMMA CursorSet ==
  ASSUME NEW s, Writing(s), NEW i \in Ttys, NEW r \in Rows, NEW c \in Cols
  PROVE  Writing([s EXCEPT !.tty[i].row = r]) /\ Writing([s EXCEPT !.tty[i].col = c])
<1> DEFINE y == s.tty[i]
           below == [y EXCEPT !.row = r]
           beside == [y EXCEPT !.col = c]
           d == [s EXCEPT !.tty[i].row = r]
           e == [s EXCEPT !.tty[i].col = c]
<1>1. d = [s EXCEPT !.tty[i] = below] /\ e = [s EXCEPT !.tty[i] = beside]
  OBVIOUS
<1>2. Styled(y, below) /\ Styled(y, beside)
  BY TtyFields, Moved DEF Writing, Marked
<1> HIDE DEF below, beside, d, e
<1>3. Writing(d)
  BY <1>1, <1>2, StyledShows DEF Styled
<1>4. Writing(e)
  BY <1>1, <1>2, StyledShows DEF Styled
<1> QED BY <1>3, <1>4 DEF d, e

LEMMA NextLineShows == ASSUME NEW s, Writing(s), NEW i \in Ttys PROVE Writing(next_line(s, i))
<1> DEFINE d == [s EXCEPT !.tty[i].col = 0]
           below == d.tty[i].row + 1
           last == content_rows - 1
           u == scroll_up(d, i)
<1>1. next_line(s, i) = IF s.tty[i].row + 1 < content_rows THEN [d EXCEPT !.tty[i].row = below]
                        ELSE [u EXCEPT !.tty[i].row = last]
  BY DEF next_line
<1>2. d.tty[i].row = s.tty[i].row
  BY TtyFields DEF Writing, Marked, ScreenRec, TtyRec
<1>3. last \in Rows /\ (s.tty[i].row + 1 < content_rows => below \in Rows)
  BY <1>2, TtyFields, Sizes DEF Writing, Marked, Rows
<1>4. Writing(d)
  BY CursorSet, Sizes
<1> HIDE DEF d, below, last
<1>5. Writing(u)
  BY <1>4, ScrollShows
<1> HIDE DEF u
<1>6. s.tty[i].row + 1 < content_rows => Writing([d EXCEPT !.tty[i].row = below])
  BY <1>3, <1>4, CursorSet, Sizes
<1>7. Writing([u EXCEPT !.tty[i].row = last])
  BY <1>3, <1>5, CursorSet, Sizes
<1> QED BY <1>1, <1>6, <1>7

LEMMA GlyphColumn ==
  ASSUME NEW s, ScreenOK(s), NEW i \in Ttys, NEW r \in Rows, NEW c \in Cols, NEW ch \in Byte
  PROVE  put_visible(s, i, r, c, ch).tty[i].col = s.tty[i].col
<1>1. s \in ScreenRec /\ s.tty[i] \in TtyRec
  BY TtyFields
<1> QED BY <1>1 DEF put_visible, draw_changed, dirty_mark_row, ScreenRec, TtyRec

LEMMA GlyphShows ==
  ASSUME NEW s, Writing(s), NEW i \in Ttys, NEW ch \in Byte PROVE Writing(put_glyph(s, i, ch))
<1> DEFINE y == s.tty[i]
           d == put_visible(s, i, y.row, y.col, ch)
           right == d.tty[i].col + 1
<1>1. y.row \in Rows /\ y.col \in Cols /\ ScreenOK(s)
  BY TtyFields DEF Writing, Marked
<1>2. put_glyph(s, i, ch) = IF y.col + 1 < TTY_COLS THEN [d EXCEPT !.tty[i].col = right] ELSE next_line(d, i)
  BY DEF put_glyph
<1>3. d.tty[i].col = y.col
  BY <1>1, GlyphColumn
<1>4. y.col + 1 < TTY_COLS => right \in Cols
  BY <1>1, <1>3, Sizes DEF Cols
<1>5. Writing(d)
  BY <1>1, PutVisibleIs, RowShows
<1> HIDE DEF d, right
<1>6. Writing(next_line(d, i))
  BY <1>5, NextLineShows
<1>7. y.col + 1 < TTY_COLS => Writing([d EXCEPT !.tty[i].col = right])
  BY <1>4, <1>5, CursorSet, Sizes
<1> QED BY <1>2, <1>6, <1>7

LEMMA BackspaceShows == ASSUME NEW s, Writing(s), NEW i \in Ttys PROVE Writing(backspace(s, i))
<1> DEFINE y == s.tty[i]
           r == IF y.col = 0 THEN y.row - 1 ELSE y.row
           c == IF y.col = 0 THEN TTY_COLS - 1 ELSE y.col - 1
           d == put_visible(s, i, r, c, SPACE)
           e == [d EXCEPT !.tty[i].row = r]
<1>1. CASE y.col = 0 /\ y.row = 0
  BY <1>1 DEF backspace
<1>2. CASE ~(y.col = 0 /\ y.row = 0)
  <2>1. r \in Rows /\ c \in Cols /\ SPACE \in Byte /\ ScreenOK(s)
    BY <1>2, TtyFields, Sizes DEF Writing, Marked, Rows, Cols, SPACE, Byte
  <2>2. backspace(s, i) = [e EXCEPT !.tty[i].col = c]
    BY <1>2 DEF backspace
  <2> HIDE DEF r, c
  <2>3. Writing(d)
    BY <2>1, PutVisibleIs, RowShows
  <2> HIDE DEF d
  <2>4. Writing(e)
    BY <2>1, <2>3, CursorSet
  <2> HIDE DEF e
  <2>5. Writing([e EXCEPT !.tty[i].col = c])
    BY <2>1, <2>4, CursorSet
  <2> QED BY <2>2, <2>5
<1> QED BY <1>1, <1>2

LEMMA TabShows == ASSUME NEW s, Writing(s), NEW i \in Ttys PROVE Writing(Tab(s, i)[4])
<1> DEFINE u == Tab(s, i)
<1>1. TabSteps(u, s, i)
  BY TabIs
<1> HIDE DEF u
<1>2. u[0] = s /\ u[1] = put_glyph(u[0], i, SPACE) /\ u[2] = put_glyph(u[1], i, SPACE) /\ u[3] = put_glyph(u[2], i, SPACE)
      /\ u[4] = put_glyph(u[3], i, SPACE) /\ SPACE \in Byte
  BY <1>1 DEF TabSteps, SPACE, Byte
<1>3. Writing(u[1])
  BY <1>2, GlyphShows
<1>4. Writing(u[2])
  BY <1>2, <1>3, GlyphShows
<1>5. Writing(u[3])
  BY <1>2, <1>4, GlyphShows
<1>6. Writing(u[4])
  BY <1>2, <1>5, GlyphShows
<1> QED BY <1>6 DEF u

LEMMA CharShows ==
  ASSUME NEW s, Writing(s), NEW i \in Ttys, NEW ch \in Byte PROVE Writing(put_char_raw(s, i, ch))
<1>1. CASE ch = 13
  <2> DEFINE d == [s EXCEPT !.tty[i].col = 0]
  <2>1. put_char_raw(s, i, ch) = d
    BY <1>1 DEF put_char_raw
  <2>2. Writing(d)
    BY CursorSet, Sizes
  <2> HIDE DEF d
  <2> QED BY <2>1, <2>2
<1>2. CASE ch = 10
  BY <1>2, NextLineShows DEF put_char_raw
<1>3. CASE ch = 8
  BY <1>3, BackspaceShows DEF put_char_raw
<1>4. CASE ch = 9
  <2>1. put_char_raw(s, i, ch) = Tab(s, i)[4]
    BY <1>4 DEF put_char_raw, Tab
  <2> QED BY <2>1, TabShows
<1>5. CASE ch \notin {8, 9, 10, 13}
  BY <1>5, GlyphShows DEF put_char_raw
<1> QED BY <1>1, <1>2, <1>3, <1>4, <1>5

\* A screen that is erased is drawn again.
LEMMA RewriteShows ==
  ASSUME NEW s, Writing(s), NEW d, NEW i \in Ttys, Rewritten(s, d, i) PROVE Writing(d)
<1>1. PICK z : TtyOK(z) /\ LET e == [s EXCEPT !.tty[i] = z] IN d = IF i = s.active THEN redraw_active(e) ELSE e
  BY DEF Rewritten
<1> DEFINE e == put_tty(s, i, z)
<1>2. d = IF i = s.active THEN redraw_active(e) ELSE e
  BY <1>1 DEF put_tty
<1>3. TtyPut(s, e, i, z)
  BY <1>1, PutTty DEF Writing, Marked
<1>4. CASE i # s.active
  BY <1>1, <1>2, <1>4, Unseen
<1>5. CASE i = s.active
  <2> HIDE DEF e
  <2>1. ScreenOK(e) /\ e.busy
    BY <1>3 DEF TtyPut, Writes, Writing, Marked
  <2>2. Writing(redraw_active(e))
    BY <2>1, RedrawWriting
  <2> QED BY <1>2, <1>5, <2>2
<1> QED BY <1>4, <1>5

LEMMA CarriesMarked == ASSUME NEW s, NEW d, Marked(s), Carries(s, d) PROVE Marked(d)
  BY DEF Marked, Carries, Draws, Fresh, Active

LEMMA CarriesWriting ==
  ASSUME NEW s, NEW d, Writing(s), Carries(s, d), Quiet(d) PROVE Writing(d)
  BY CarriesMarked DEF Writing, Carries

LEMMA BlinkShows ==
  ASSUME NEW s, Writing(s), NEW i \in Ttys PROVE Writing(show_cursor(s, i)) /\ Writing(mute_cursor(s, i))
<1>1. s \in ScreenRec /\ ScreenOK(s) /\ CursorFits(s) /\ Quiet(s)
  BY DEF Writing, Marked, ScreenOK
<1>2. ASSUME NEW b \in BOOLEAN PROVE Writing([s EXCEPT !.blink = b])
  <2> DEFINE d == [s EXCEPT !.blink = b]
  <2>1. d \in ScreenRec
    BY <1>1 DEF ScreenRec
  <2>2. /\ d.active = s.active /\ d.tty = s.tty /\ d.screen = s.screen /\ d.torn = s.torn /\ d.visible = s.visible
        /\ d.dirty = s.dirty /\ d.busy = s.busy
    BY <1>1 DEF ScreenRec
  <2> HIDE DEF d
  <2>3. Draws(s, d) /\ Quiet(d)
    BY <1>1, <2>1, <2>2 DEF Draws, ScreenOK, Quiet
  <2>4. Carries(s, d)
    BY <1>1, <2>2, <2>3, SameScreen
  <2>5. Writing(d)
    BY <2>3, <2>4, CarriesWriting
  <2> QED BY <2>5 DEF d
<1>3. ASSUME NEW d, Writing(d) PROVE Writing(draw_cursor(d)) /\ Writing(hide_cursor(d))
  <2> DEFINE e == draw_cursor(d)
             f == hide_cursor(d)
  <2>1. Carries(d, e) /\ Quiet(e)
    BY <1>3, CursorShows DEF Writing, Marked
  <2>2. Carries(d, f) /\ Quiet(f)
    BY <1>3, HideShows DEF Writing, Marked, Quiet
  <2> HIDE DEF e, f
  <2>3. Writing(e) /\ Writing(f)
    BY <1>3, <2>1, <2>2, CarriesWriting
  <2> QED BY <2>3 DEF e, f
<1>4. Writing(show_cursor(s, i))
  BY <1>2, <1>3 DEF show_cursor
<1>5. Writing(mute_cursor(s, i))
  BY <1>2, <1>3 DEF mute_cursor
<1> QED BY <1>4, <1>5

LEMMA SequenceShows ==
  ASSUME NEW s, Writing(s), NEW d, NEW i \in Ttys, SequenceDone(s, d, i) PROVE Writing(d)
<1>1. ASSUME NEW z, Styled(s.tty[i], z), d = [s EXCEPT !.tty[i] = z] PROVE Writing(d)
  BY <1>1, StyledShows DEF Styled
<1>2. ASSUME NEW mode, d = clear_screen_mode(s, i, mode) PROVE Writing(d)
  BY <1>2, ClearScreenIs, RewriteShows DEF Writing, Marked
<1>3. ASSUME NEW mode, d = clear_line_mode(s, i, mode) PROVE Writing(d)
  <2>1. s.tty[i].row \in Rows /\ ScreenOK(s)
    BY TtyFields DEF Writing, Marked
  <2>2. RowWritten(s, d, i, s.tty[i].row)
    BY <1>3, <2>1, ClearLineIs
  <2> QED BY <2>1, <2>2, RowShows
<1> QED BY <1>1, <1>2, <1>3, BlinkShows DEF SequenceDone

LEMMA ByteShows ==
  ASSUME NEW s, Writing(s), NEW i \in Ttys, NEW ch \in Byte PROVE Writing(process_byte(s, i, ch))
<1> DEFINE d == process_byte(s, i, ch)
<1> SUFFICES Writing(d)
  OBVIOUS
<1>1. ByteDone(s, d, i, ch)
  BY ByteIs DEF Writing, Marked
<1> HIDE DEF d
<1>2. ASSUME NEW f, Writing(f), Parsing(f, d, i) PROVE Writing(d)
  BY <1>2, StyledShows DEF Parsing
<1>3. ASSUME NEW f, SequenceDone(s, f, i) PROVE Writing(f)
  BY <1>3, SequenceShows
<1> QED BY <1>1, <1>2, <1>3, CharShows DEF ByteDone

-----------------------------------------------------------------------------
(* The calls. *)

LEMMA CarriesSettled ==
  ASSUME NEW s, NEW d, Settled(s), Carries(s, d), d.busy => Quiet(d) PROVE Settled(d)
  BY DEF Settled, Carries, Draws, AllShown

LEMMA SettledMarked == ASSUME NEW s, Settled(s) PROVE Marked(s)
  BY DEF Settled, Marked, AllShown, Fresh

LEMMA BarCarried == ASSUME NEW s, NEW d, Carries(s, d), d.bar = s.bar, BarTrue(s) PROVE BarTrue(d)
  BY DEF BarTrue, Carries, Draws, status_line, Active

LEMMA TimingShows ==
  ASSUME NEW s, ScreenOK(s), CursorFits(s), NEW b \in BOOLEAN, NEW d, d = [s EXCEPT !.timing = b]
  PROVE  Carries(s, d) /\ d.bar = s.bar /\ d.torn = s.torn /\ d.visible = s.visible
<1>1. Draws(s, d) /\ s \in ScreenRec
  BY TimingDraws DEF ScreenOK
<1>2. /\ d.screen = s.screen /\ d.torn = s.torn /\ d.visible = s.visible
      /\ d.dirty = s.dirty /\ d.busy = s.busy /\ d.bar = s.bar
  BY <1>1 DEF ScreenRec
<1> QED BY <1>1, <1>2, SameScreen

\* The cursor is taken off, and a terminal scrolled back is redrawn at its bottom.
LEMMA StartShows == ASSUME NEW s, Marked(s) PROVE Writing(start_write(s))
<1> DEFINE d == hide_cursor(s)
           e == [d EXCEPT !.tty[d.active].off = 0]
           g == redraw_active(e)
           h == [g EXCEPT !.torn = {"cursor"}]
           f == IF Active(d).off > 0 THEN h ELSE d
           z == [f EXCEPT !.defer_draw = TRUE, !.busy = TRUE]
<1>1. ScreenOK(s) /\ CursorFits(s)
  BY DEF Marked
<1>2. Carries(s, d) /\ ~d.visible
  BY <1>1, HideShows
<1>3. start_write(s) = z
  BY DEF start_write
<1> HIDE DEF z, d
<1>4. Marked(d)
  BY <1>2, CarriesMarked
<1>5. Marked(f) /\ Quiet(f)
  <2>1. CASE ~(Active(d).off > 0)
    BY <1>2, <1>4, <2>1 DEF Quiet
  <2>2. CASE Active(d).off > 0
    <3>1. ScreenOK(d) /\ 0 \in 0 .. Active(d).count
      <4>1. ScreenOK(d)
        BY <1>4 DEF Marked
      <4>2. Active(d).count \in 0 .. SCROLLBACK_LINES
        BY <4>1, ActiveOK, Fields
      <4> QED BY <4>1, <4>2, Sizes
    <3>2. ScreenOK(e)
      BY <3>1, SetOff DEF Keeps, Writes
    <3> HIDE DEF e
    <3>3. Redrawn(e, g)
      BY <3>2, RedrawShows
    <3> HIDE DEF g
    <3>4. g \in ScreenRec /\ ScreenOK(g)
      BY <3>3 DEF Redrawn, ScreenOK
    <3>5. /\ h.screen = g.screen /\ h.visible = g.visible /\ h.torn = {"cursor"} /\ h.dirty = g.dirty
      BY <3>4 DEF ScreenRec
    <3>6. Draws(g, h)
      <4>1. {"cursor"} \in SUBSET Tears
        BY DEF Tears
      <4> QED BY <3>4, <4>1, TornDraws
    <3> HIDE DEF h
    <3>7. ScreenOK(h) /\ CursorFits(h) /\ Quiet(h) /\ h.dirty = {}
      BY <3>3, <3>5, <3>6 DEF Draws, Redrawn, CursorFits, Quiet, Active
    <3>8. \A r, c : Seen(h, r, c) = Seen(g, r, c)
      BY <3>6 DEF Draws, Seen, Active
    <3>9. AllShown(h)
      BY <3>3, <3>5, <3>8 DEF Redrawn, AllShown, Shown
    <3> QED BY <2>2, <3>7, <3>9 DEF Marked, AllShown, Fresh
  <2> QED BY <2>1, <2>2
<1> HIDE DEF f
<1>6. Draws(f, z) /\ f \in ScreenRec
  BY <1>5, DeferDraws DEF z, Marked, ScreenOK
<1>7. z.screen = f.screen /\ z.visible = f.visible /\ z.torn = f.torn /\ z.dirty = f.dirty /\ z.busy = TRUE
  BY <1>6 DEF z, ScreenRec
<1>8. ScreenOK(z) /\ CursorFits(z) /\ Quiet(z)
  BY <1>5, <1>6, <1>7 DEF Marked, Draws, CursorFits, Quiet, Active
<1>9. \A r \in Fresh(z), c \in Cols : Shown(z, r, c)
  BY <1>5, <1>6, <1>7 DEF Marked, Shown, Seen, Lit, Draws, Active, Fresh
<1> QED BY <1>3, <1>7, <1>8, <1>9 DEF Writing, Marked

LEMMA EndShows ==
  ASSUME NEW s, Settled(s), NEW f, f = end_write(s) PROVE Settled(f) /\ BarTrue(f) /\ f.busy = s.busy
<1> DEFINE d == draw_cursor(s)
           e == draw_status_bar(d)
<1>1. Carries(s, d) /\ (s.busy => Quiet(d)) /\ d.busy = s.busy
  BY CursorShows DEF Settled, Carries
<1>2. f = [e EXCEPT !.timing = FALSE]
  BY DEF end_write
<1> HIDE DEF d
<1>3. Settled(d)
  BY <1>1, CarriesSettled
<1>4. Carries(d, e) /\ BarTrue(e) /\ e.torn = d.torn /\ e.visible = d.visible /\ e.busy = d.busy
  BY <1>3, BarShows DEF Settled, Carries
<1> HIDE DEF e
<1>5. Settled(e)
  BY <1>1, <1>3, <1>4, CarriesSettled DEF Quiet
<1>6. Carries(e, f) /\ f.bar = e.bar /\ f.torn = e.torn /\ f.visible = e.visible /\ f.busy = e.busy
  BY <1>2, <1>5, TimingShows DEF Settled, Carries
<1>7. Settled(f)
  BY <1>1, <1>4, <1>5, <1>6, CarriesSettled DEF Quiet
<1>8. BarTrue(f)
  BY <1>4, <1>6, BarCarried
<1> QED BY <1>1, <1>4, <1>6, <1>7, <1>8

\* What an interrupt does to the screen: it draws all of it, or takes the cursor off.
Interrupts(s, d) == Redrawn(s, d) \/ (Carries(s, d) /\ d.bar = s.bar /\ ~d.visible)

LEMMA RedrawnTimed ==
  ASSUME NEW s, NEW f, Redrawn(s, f), NEW d, d = [f EXCEPT !.timing = FALSE] PROVE Redrawn(s, d)
<1>1. Carries(f, d) /\ d.bar = f.bar /\ d.torn = f.torn /\ d.visible = f.visible
  BY TimingShows DEF Redrawn
<1>2. BarTrue(d)
  BY <1>1, BarCarried DEF Redrawn
<1> QED BY <1>1, <1>2 DEF Redrawn, Carries, Draws, AllShown, Quiet

LEMMA SwitchShows ==
  ASSUME NEW s, ScreenOK(s), CursorFits(s), NEW i \in Ttys PROVE Interrupts(s, switch(s, i))
<1> DEFINE d == hide_cursor(s)
           e == [d EXCEPT !.active = i, !.visible = FALSE]
           f == redraw_active(e)
           g == switch(s, i)
<1>1. Carries(s, d)
  BY HideShows
<1>2. g = [f EXCEPT !.timing = FALSE]
  BY DEF switch
<1> HIDE DEF d, g
<1>3. d \in ScreenRec /\ ScreenOK(d) /\ d.busy = s.busy
  BY <1>1 DEF Carries, Draws, ScreenOK
<1>4. e \in ScreenRec /\ e.tty = d.tty /\ e.busy = d.busy
  BY <1>3 DEF ScreenRec
<1> HIDE DEF e
<1>5. ScreenOK(e)
  BY <1>3, <1>4 DEF ScreenOK
<1>6. Redrawn(e, f)
  BY <1>5, RedrawShows
<1> HIDE DEF f
<1>7. Redrawn(e, g)
  BY <1>2, <1>6, RedrawnTimed
<1>8. Redrawn(s, g)
  BY <1>3, <1>4, <1>7 DEF Redrawn
<1> QED BY <1>8 DEF Interrupts, g

LEMMA ScrollToShows ==
  ASSUME NEW s, ScreenOK(s), CursorFits(s), NEW off \in 0 .. Active(s).count PROVE Interrupts(s, scroll_to(s, off))
<1> DEFINE d == hide_cursor(s)
           e == [d EXCEPT !.tty[d.active].off = off]
           f == redraw_active(e)
           h == [f EXCEPT !.timing = FALSE]
           g == scroll_to(s, off)
<1>1. Carries(s, d) /\ d.bar = s.bar /\ ~d.visible
  BY HideShows
<1>2. g = IF off = Active(d).off THEN d ELSE h
  BY DEF scroll_to
<1> HIDE DEF d, g
<1>3. ScreenOK(d) /\ off \in 0 .. Active(d).count /\ d \in ScreenRec /\ d.busy = s.busy
  BY <1>1 DEF Carries, Draws, ScreenOK, Active
<1>4. ScreenOK(e)
  BY <1>3, SetOff DEF Keeps, Writes
<1>5. e.busy = d.busy
  BY <1>3 DEF ScreenRec
<1> HIDE DEF e
<1>6. Redrawn(e, f)
  BY <1>4, RedrawShows
<1> HIDE DEF f
<1>7. Redrawn(e, h)
  BY <1>6, RedrawnTimed
<1> HIDE DEF h
<1>8. Redrawn(s, h)
  BY <1>3, <1>5, <1>7 DEF Redrawn
<1> QED BY <1>1, <1>2, <1>8 DEF Interrupts, g

LEMMA InterruptSettled ==
  ASSUME NEW s, Settled(s), NEW d, Interrupts(s, d) PROVE Settled(d) /\ (BarTrue(s) => BarTrue(d))
<1>1. CASE Redrawn(s, d)
  BY <1>1 DEF Redrawn, Settled
<1>2. CASE Carries(s, d) /\ d.bar = s.bar /\ ~d.visible
  BY <1>2, CarriesSettled, BarCarried DEF Quiet
<1> QED BY <1>1, <1>2 DEF Interrupts

LEMMA InterruptMarked == ASSUME NEW s, Marked(s), NEW d, Interrupts(s, d) PROVE Marked(d)
<1>1. CASE Redrawn(s, d)
  BY <1>1 DEF Redrawn, Marked, AllShown, Fresh
<1>2. CASE Carries(s, d)
  BY <1>2, CarriesMarked
<1> QED BY <1>1, <1>2 DEF Interrupts

LEMMA InterruptWriting == ASSUME NEW s, Writing(s), NEW d, Interrupts(s, d) PROVE Writing(d)
<1>1. Marked(d)
  BY InterruptMarked DEF Writing
<1>2. CASE Redrawn(s, d)
  BY <1>1, <1>2 DEF Redrawn, Writing
<1>3. CASE Carries(s, d) /\ ~d.visible
  BY <1>1, <1>3 DEF Carries, Writing, Quiet
<1> QED BY <1>2, <1>3 DEF Interrupts

LEMMA InterruptFits == ASSUME NEW s, NEW d, Interrupts(s, d) PROVE ScreenOK(d) /\ CursorFits(d)
  BY DEF Interrupts, Redrawn, Carries, Draws

\* When the text is torn, nothing is promised of it.
LEMMA TornShows ==
  ASSUME NEW s, ScreenOK(s), "text" \in s.torn
  PROVE  /\ Marked(s) /\ Quiet(s) /\ (s.dirty = {} => Settled(s)) /\ (s.busy => Writing(s))
         /\ \A v : Flushing(s, v)
  BY DEF Marked, Settled, Writing, Flushing, CursorFits, Quiet, AllShown, Shown

\* The rest of the flush is drawn over what the interrupt drew, and torn says so.
LEMMA UnderShows ==
  ASSUME NEW s, ScreenOK(s), NEW x, NEW d, d = Under(s, x)
  PROVE  (x.pc # "flush" => d = s) /\ (x.pc = "flush" => ScreenOK(d) /\ "text" \in d.torn)
<1>1. CASE x.pc # "flush"
  BY <1>1 DEF Under
<1>2. CASE x.pc = "flush"
  <2> DEFINE tears == s.torn \cup {"text"}
  <2>1. d = [s EXCEPT !.torn = tears] /\ s \in ScreenRec
    BY <1>2 DEF Under, ScreenOK
  <2>2. d.torn = tears
    BY <2>1 DEF ScreenRec
  <2>3. ScreenOK(d)
    BY UnderDraws DEF Draws
  <2> QED BY <1>2, <2>2, <2>3
<1> QED BY <1>1, <1>2

\* An interrupt within the step takes every promise back, but for the text of the terminals.
LEMMA SpoiltShows ==
  ASSUME NEW s, ScreenOK(s), NEW d \in Spoilt(s)
  PROVE  ScreenOK(d) /\ "text" \in d.torn /\ BarTrue(d) /\ d.dirty = s.dirty /\ d.busy = s.busy
  BY SpoiltDraws DEF Draws, BarTrue, Tears

LEMMA BecomesShows ==
  ASSUME NEW s, ScreenOK(s), Becomes(s)
  PROVE  /\ Settled(s) => Settled(t')
         /\ Writing(s) => Writing(t')
         /\ BarTrue(s) => BarTrue(t')
         /\ \A v : Flushing(s, v) => Flushing(t', v)
         /\ t'.busy = s.busy
<1>1. CASE t' = s
  BY <1>1
<1>2. CASE t' \in Spoilt(s)
  <2>1. ScreenOK(t') /\ "text" \in t'.torn /\ BarTrue(t') /\ t'.dirty = s.dirty /\ t'.busy = s.busy
    BY <1>2, SpoiltShows
  <2>2. /\ (t'.dirty = {} => Settled(t')) /\ (t'.busy => Writing(t')) /\ \A v : Flushing(t', v)
    BY <2>1, TornShows
  <2>3. (Settled(s) => s.dirty = {}) /\ (Writing(s) => s.busy)
    BY DEF Settled, Writing
  <2> QED BY <2>1, <2>2, <2>3
<1> QED BY <1>1, <1>2 DEF Becomes

LEMMA TickShows ==
  ASSUME NEW s, Settled(s), BarTrue(s), NEW late \in BOOLEAN, NEW d, d = tick(s, late)
  PROVE  Settled(d) /\ BarTrue(d)
<1>1. ScreenOK(s) /\ CursorFits(s) /\ s \in ScreenRec /\ (s.busy => Quiet(s))
  BY DEF Settled, ScreenOK
<1>2. \A e : Carries(s, e) /\ e.bar = s.bar /\ (s.busy => Quiet(e)) => Settled(e) /\ BarTrue(e)
  BY CarriesSettled, BarCarried DEF Carries
<1>3. Carries(s, s)
  BY <1>1, DrawsNothing, SameScreen
<1>4. CASE s.active = DESKTOP_INDEX \/ Active(s).off > 0
  <2>1. d = [s EXCEPT !.visible = FALSE]
    BY <1>4 DEF tick
  <2>2. Carries(s, d) /\ d.bar = s.bar /\ d.torn = s.torn /\ ~d.visible
    BY <1>1, <1>4, <2>1, NoCursor
  <2>3. Quiet(d)
    BY <2>2 DEF Quiet
  <2> QED BY <1>2, <2>2, <2>3
<1>5. CASE ~(s.active = DESKTOP_INDEX \/ Active(s).off > 0) /\ ~s.timing
  <2> DEFINE e == IF s.visible THEN s ELSE draw_cursor(s)
  <2>1. d = [e EXCEPT !.timing = TRUE]
    BY <1>5 DEF tick
  <2>2. Carries(s, e) /\ e.bar = s.bar /\ (s.busy => Quiet(e))
    BY <1>1, <1>3, CursorShows
  <2> HIDE DEF e
  <2>3. Settled(e) /\ BarTrue(e)
    BY <1>2, <2>2
  <2>4. Carries(e, d) /\ d.bar = e.bar /\ d.torn = e.torn /\ d.visible = e.visible
    BY <2>1, <2>3, TimingShows DEF Settled
  <2>5. d.busy => Quiet(d)
    BY <2>2, <2>4 DEF Carries, Quiet
  <2> QED BY <2>3, <2>4, <2>5, CarriesSettled, BarCarried
<1>6. CASE ~(s.active = DESKTOP_INDEX \/ Active(s).off > 0) /\ s.timing
  <2>1. d = s \/ d = hide_cursor(s) \/ d = draw_cursor(s)
    BY <1>6 DEF tick
  <2>2. CASE d = s
    BY <2>2
  <2>3. CASE d = hide_cursor(s)
    <3>1. Carries(s, d) /\ d.bar = s.bar /\ ~d.visible
      BY <1>1, <2>3, HideShows
    <3> QED BY <1>2, <3>1 DEF Quiet
  <2>4. CASE d = draw_cursor(s)
    <3>1. Carries(s, d) /\ d.bar = s.bar /\ (s.busy => Quiet(d))
      BY <1>1, <2>4, CursorShows
    <3> QED BY <1>2, <3>1
  <2> QED BY <2>1, <2>2, <2>3, <2>4
<1> QED BY <1>4, <1>5, <1>6

-----------------------------------------------------------------------------
(* The screen, step by step. *)

\* At each step of the write under way; and bytes of the write it has interrupted are under
\* way all that time.
ScreenInv ==
  /\ w.pc \in {"idle", "tick", "end"} => Settled(t)
  /\ w.pc \in {"idle", "tick"} => BarTrue(t)
  /\ w.pc = "start" => Marked(t)
  /\ w.pc = "bytes" => Writing(t)
  /\ w.pc = "flush" => Flushing(t, w)
  /\ held.pc = "bytes" => t.busy

LEMMA ScreenStarted == Init => ScreenInv
<1> SUFFICES ASSUME Init PROVE ScreenInv
  OBVIOUS
<1> DEFINE s == [tty |-> [i \in Ttys |-> NewTty], active |-> 0, visible |-> FALSE, blink |-> TRUE,
                 timing |-> FALSE, defer_draw |-> FALSE, busy |-> FALSE, dirty |-> {}, screen |-> [r \in Rows |-> BlankRow], bar |-> NoBar, torn |-> {}]
<1>1. ScreenOK(s)
  BY NewScreen
<1>2. t = redraw_active(s) /\ w.pc = "idle" /\ held.pc = "idle"
  BY DEF Init, tty_init, NoWrite
<1> HIDE DEF s
<1>3. Settled(t) /\ BarTrue(t)
  BY <1>1, <1>2, RedrawSettled
<1> QED BY <1>2, <1>3 DEF ScreenInv

\* The flush begins with what the bytes have left undrawn.
LEMMA FlushBeginShows == ASSUME IInv, ScreenInv, FlushBegin PROVE ScreenInv'
<1> DEFINE below == held.pc = "bytes"
           d == [t EXCEPT !.defer_draw = FALSE, !.busy = below]
           e == redraw_active(d)
           v == [pc |-> "flush", tty |-> t.active, row |-> 0, col |-> 0]
<1>1. Writing(t) /\ ScreenOK(t) /\ t \in ScreenRec /\ Active(t).off \in Nat /\ below \in BOOLEAN
  BY ActiveOK DEF FlushBegin, ScreenInv, Writing, Marked
<1>2. Draws(t, d)
  BY <1>1, DeferDraws
<1> HIDE DEF below
<1>3. /\ d.screen = t.screen /\ d.visible = t.visible /\ d.torn = t.torn /\ d.dirty = t.dirty
      /\ d.busy = below
  BY <1>1 DEF ScreenRec
<1>4. /\ IF t.dirty # {} /\ Active(t).off > 0 THEN Becomes(e) /\ w' = [pc |-> "end"] ELSE Becomes(d) /\ w' = v
      /\ held' = held
  BY DEF FlushBegin, stop_defer, below
<1> HIDE DEF d
<1>5. CASE t.dirty # {} /\ Active(t).off > 0
  <2>1. Settled(e) /\ ScreenOK(e) /\ e.busy = below
    <3>1. Redrawn(d, e)
      BY <1>2, RedrawShows DEF Draws
    <3> HIDE DEF e
    <3> QED BY <1>3, <3>1 DEF Redrawn, Settled
  <2> HIDE DEF e
  <2>2. Settled(t') /\ t'.busy = below
    BY <1>4, <1>5, <2>1, BecomesShows
  <2>3. w'.pc = "end"
    BY <1>4, <1>5
  <2> QED BY <1>4, <2>2, <2>3 DEF ScreenInv, below
<1>6. CASE ~(t.dirty # {} /\ Active(t).off > 0)
  <2>1. Becomes(d) /\ w' = v
    BY <1>4, <1>6
  <2>2. d.active = t.active /\ Active(d) = Active(t) /\ ScreenOK(d)
    BY <1>2 DEF Draws, Active
  <2>3. CursorFits(d) /\ Quiet(d) /\ (d.dirty # {} => Active(d).off = 0)
    BY <1>1, <1>3, <1>6, <2>2 DEF Writing, Marked, CursorFits, Quiet
  <2>4. ASSUME NEW r \in Rows, NEW c \in Cols, r \notin d.dirty \/ Passed(v, r, c) PROVE Shown(d, r, c)
    <3>1. ~Passed(v, r, c)
      BY Sizes DEF Passed, Rows, Cols
    <3>2. r \in Fresh(t)
      BY <1>3, <1>6, <2>4, <3>1 DEF Fresh
    <3>3. Shown(t, r, c)
      BY <1>1, <3>2 DEF Writing, Marked
    <3> QED BY <1>3, <2>2, <3>3 DEF Shown, Seen, Lit
  <2>5. v.tty = t.active /\ v.col = 0 /\ v.pc = "flush"
    OBVIOUS
  <2> HIDE DEF v
  <2>6. Flushing(d, v)
    BY <2>2, <2>3, <2>4, <2>5 DEF Flushing
  <2>7. Flushing(t', v) /\ t'.busy = below
    BY <1>3, <2>1, <2>2, <2>6, BecomesShows
  <2> QED BY <1>4, <2>1, <2>5, <2>7 DEF ScreenInv, below
<1> QED BY <1>5, <1>6

\* A row that is not marked, or a cell of a marked row.
LEMMA FlushCellShows == ASSUME IInv, ScreenInv, FlushCell PROVE ScreenInv'
<1>1. /\ Flushing(t, w) /\ ScreenOK(t) /\ CursorFits(t) /\ w.pc = "flush" /\ w.row < content_rows
      /\ w \in [pc : {"flush"}, tty : Ttys, row : 0 .. content_rows, col : Cols]
  BY DEF FlushCell, ScreenInv, Flushing, IInv, WriteOK, NoWrite
<1>2. w.row \in Rows /\ w.col \in Cols /\ w.tty \in Ttys /\ w.row \in Nat /\ w.col \in Nat
  BY <1>1, Sizes DEF Rows, Cols
<1>3. \A r \in Rows : r \in Nat /\ r < content_rows
  BY Sizes DEF Rows
<1>4. \A c \in Cols : c \in Nat /\ c < TTY_COLS
  BY Sizes DEF Cols
<1>5. CASE w.col = 0 /\ w.row \notin t.dirty
  <2>1. t' = t /\ w' = [w EXCEPT !.row = @ + 1] /\ held' = held
    BY <1>5 DEF FlushCell
  <2>2. w'.pc = "flush" /\ w'.tty = w.tty /\ w'.row = w.row + 1 /\ w'.col = 0
    BY <1>1, <1>5, <2>1
  <2>3. ASSUME NEW r \in Rows, NEW c \in Cols, Passed(w', r, c) PROVE Passed(w, r, c) \/ r \notin t.dirty
    BY <1>2, <1>3, <1>4, <1>5, <2>2, <2>3 DEF Passed
  <2>4. Flushing(t, w')
    BY <1>1, <2>2, <2>3 DEF Flushing
  <2> QED BY <2>1, <2>2, <2>4 DEF ScreenInv
<1>6. CASE ~(w.col = 0 /\ w.row \notin t.dirty)
  <2>1. /\ t' = draw_cell(t, w.tty, w.row, w.col)
        /\ w' = IF w.col + 1 < TTY_COLS THEN [w EXCEPT !.col = @ + 1] ELSE [w EXCEPT !.row = @ + 1, !.col = 0]
        /\ held' = held
    BY <1>6 DEF FlushCell
  <2>2. /\ Draws(t, t') /\ Active(t)' = Active(t) /\ t'.visible = t.visible /\ t'.torn = t.torn /\ t'.dirty = t.dirty
        /\ t'.busy = t.busy
        /\ t'.screen = Put(t.screen, w.row, w.col, t.tty[w.tty].cells[w.row][w.col])
    BY <1>1, <1>2, <2>1, CellFields
  <2>3. /\ w'.pc = "flush" /\ w'.tty = w.tty
        /\ \/ w.col + 1 < TTY_COLS /\ w'.row = w.row /\ w'.col = w.col + 1
           \/ ~(w.col + 1 < TTY_COLS) /\ w'.row = w.row + 1 /\ w'.col = 0
    BY <1>1, <2>1
  <2>4. ScreenOK(t') /\ CursorFits(t') /\ t'.active = t.active
    BY <1>1, <2>2 DEF Draws, CursorFits, Flushing
  <2>5. ASSUME "text" \notin t.torn
        PROVE  /\ Quiet(t') /\ w'.tty = t'.active /\ (t'.dirty # {} => Active(t').off = 0) /\ (w'.col > 0 => w'.row \in t'.dirty)
               /\ \A r \in Rows, c \in Cols : r \notin t'.dirty \/ Passed(w', r, c) => Shown(t', r, c)
    <3>1. /\ Quiet(t) /\ w.tty = t.active /\ (t.dirty # {} => Active(t).off = 0) /\ (w.col > 0 => w.row \in t.dirty)
          /\ \A r \in Rows, c \in Cols : r \notin t.dirty \/ Passed(w, r, c) => Shown(t, r, c)
      BY <1>1, <2>5 DEF Flushing
    <3>2. w.row \in t.dirty /\ Active(t).off = 0 /\ Active(t) = t.tty[w.tty]
      BY <1>2, <1>6, <3>1 DEF Active
    <3>3. Quiet(t')
      BY <2>2, <3>1 DEF Quiet
    <3>4. Shown(t', w.row, w.col) /\ \A r \in Rows, c \in Cols : Shown(t, r, c) => Shown(t', r, c)
      BY <1>1, <1>2, <2>2, <3>1, <3>2, <3>3, CellShows
    <3>5. ASSUME NEW r \in Rows, NEW c \in Cols, Passed(w', r, c) PROVE Passed(w, r, c) \/ (r = w.row /\ c = w.col)
      BY <1>2, <1>3, <1>4, <2>3, <3>5, Sizes DEF Passed
    <3> QED BY <2>2, <2>3, <2>4, <3>1, <3>2, <3>3, <3>4, <3>5
  <2>6. Flushing(t', w')
    BY <2>2, <2>4, <2>5 DEF Flushing
  <2> QED BY <2>1, <2>2, <2>3, <2>6 DEF ScreenInv
<1> QED BY <1>5, <1>6

LEMMA FlushEndShows == ASSUME IInv, ScreenInv, FlushEnd PROVE ScreenInv'
<1>1. /\ Flushing(t, w) /\ ScreenOK(t) /\ w.row = content_rows /\ t' = [t EXCEPT !.dirty = {}] /\ w'.pc = "end"
      /\ held' = held
  BY DEF FlushEnd, ScreenInv, Flushing
<1>2. Draws(t, t') /\ t \in ScreenRec
  BY <1>1, DirtySetDraws DEF ScreenOK
<1>3. /\ t'.screen = t.screen /\ t'.visible = t.visible /\ t'.torn = t.torn /\ t'.dirty = {}
      /\ t'.busy = t.busy
  BY <1>1, <1>2 DEF ScreenRec
<1>4. ScreenOK(t') /\ t'.active = t.active /\ Active(t') = Active(t)
  BY <1>2 DEF Draws, Active
<1>5. Settled(t')
  <2>1. CASE "text" \in t.torn
    BY <1>3, <1>4, <2>1, TornShows
  <2>2. CASE "text" \notin t.torn
    <3>1. CursorFits(t') /\ Quiet(t')
      BY <1>1, <1>3, <1>4, <2>2 DEF Flushing, CursorFits, Quiet
    <3>2. ASSUME NEW r \in Rows, NEW c \in Cols PROVE Shown(t', r, c)
      <4>1. Passed(w, r, c)
        BY <1>1, Sizes DEF Passed, Rows
      <4>2. Shown(t, r, c)
        BY <1>1, <2>2, <4>1 DEF Flushing
      <4> QED BY <1>3, <1>4, <4>2 DEF Shown, Seen, Lit
    <3> QED BY <1>3, <1>4, <3>1, <3>2 DEF Settled, AllShown
  <2> QED BY <2>1, <2>2
<1> QED BY <1>1, <1>3, <1>5 DEF ScreenInv

\* A nested write returns to the one it has interrupted, wherever that was.
LEMMA WriteEndShows == ASSUME IInv, ScreenInv, WriteEnd PROVE ScreenInv'
<1> DEFINE d == end_write(t)
           e == Under(d, held)
<1>1. Settled(t) /\ Becomes(e) /\ w' = held /\ held'.pc = "idle" /\ (held.pc = "bytes" => t.busy)
  BY DEF WriteEnd, ScreenInv, NoWrite
<1>2. Settled(d) /\ BarTrue(d) /\ d.busy = t.busy
  BY <1>1, EndShows
<1> HIDE DEF d
<1>3. ScreenOK(d)
  BY <1>2 DEF Settled
<1>4. (held.pc # "flush" => e = d) /\ (held.pc = "flush" => ScreenOK(e) /\ "text" \in e.torn)
  BY <1>3, UnderShows
<1> HIDE DEF e
<1>5. CASE held.pc = "flush"
  <2>1. Flushing(t', held)
    BY <1>1, <1>4, <1>5, TornShows, BecomesShows
  <2> QED BY <1>1, <1>5, <2>1 DEF ScreenInv
<1>6. CASE held.pc # "flush"
  <2>1. Settled(t') /\ BarTrue(t') /\ t'.busy = t.busy
    BY <1>1, <1>2, <1>3, <1>4, <1>6, BecomesShows
  <2>2. Marked(t') /\ (t'.busy => Writing(t'))
    BY <2>1, SettledMarked DEF Writing, Settled
  <2> QED BY <1>1, <1>6, <2>1, <2>2 DEF ScreenInv
<1> QED BY <1>5, <1>6

\* Whatever is under way, a write may start.
LEMMA AlwaysMarked == ASSUME IInv, ScreenInv, w.pc # "flush" PROVE Marked(t) /\ (w.pc = "bytes" => t.busy)
<1>1. w.pc \in {"idle", "tick", "end", "start", "bytes"}
  BY DEF IInv, WriteOK, NoWrite
<1> QED BY <1>1, SettledMarked DEF ScreenInv, Writing

LEMMA EchoShows == ASSUME IInv, ScreenInv, NEW text, Echo(text) PROVE ScreenInv'
<1>1. Interrupt(t) /\ w'.pc = "start" /\ held' = w /\ ScreenOK(t)
  BY DEF Echo, IInv
<1>2. CASE t' = Under(t, w) /\ w.pc = "flush"
  <2>1. Marked(t')
    BY <1>1, <1>2, UnderShows, TornShows
  <2> QED BY <1>1, <1>2, <2>1 DEF ScreenInv
<1>3. CASE t' = Under(t, w) /\ w.pc # "flush"
  <2>1. t' = t
    BY <1>1, <1>3, UnderShows
  <2> QED BY <1>1, <1>3, <2>1, AlwaysMarked DEF ScreenInv
<1>4. CASE w.pc \notin {"idle", "flush"} /\ t' \in Spoilt(t)
  <2>1. Marked(t') /\ t'.busy = t.busy
    BY <1>1, <1>4, SpoiltShows, TornShows
  <2> QED BY <1>1, <1>4, <2>1, AlwaysMarked DEF ScreenInv
<1> QED BY <1>1, <1>2, <1>3, <1>4 DEF Interrupt

LEMMA InterruptShows ==
  ASSUME IInv, ScreenInv, NEW d, Interrupts(t, d), Interrupt(d), w' = w, held' = held PROVE ScreenInv'
<1>1. ScreenOK(d) /\ CursorFits(d) /\ held.pc = "idle"
  BY InterruptFits DEF Interrupt, NoWrite
<1>2. CASE t' = Under(d, w) /\ w.pc = "flush"
  <2>1. Flushing(t', w)
    BY <1>1, <1>2, UnderShows, TornShows
  <2> QED BY <1>1, <1>2, <2>1 DEF ScreenInv
<1>3. CASE t' = Under(d, w) /\ w.pc # "flush"
  <2>1. t' = d
    BY <1>1, <1>3, UnderShows
  <2> QED BY <1>1, <1>3, <2>1, InterruptSettled, InterruptMarked, InterruptWriting DEF ScreenInv
<1>4. CASE w.pc \notin {"idle", "flush"} /\ t' \in Spoilt(d)
  <2>1. ScreenOK(t') /\ "text" \in t'.torn /\ BarTrue(t') /\ t'.dirty = d.dirty /\ t'.busy = d.busy
    BY <1>1, <1>4, SpoiltShows
  <2>2. /\ Marked(t') /\ (t'.dirty = {} => Settled(t')) /\ (t'.busy => Writing(t'))
    BY <2>1, TornShows
  <2>3. (w.pc \in {"tick", "end"} => d.dirty = {}) /\ (w.pc = "bytes" => d.busy)
    BY InterruptSettled, InterruptWriting DEF ScreenInv, Settled, Writing
  <2> QED BY <1>1, <1>4, <2>1, <2>2, <2>3 DEF ScreenInv
<1> QED BY <1>1, <1>2, <1>3, <1>4 DEF Interrupt

LEMMA ScreenStep == ASSUME IInv, ScreenInv, [Next]_vars PROVE ScreenInv'
<1>1. ScreenOK(t) /\ CursorFits(t) /\ t.active \in Ttys
  <2>1. w.pc \in {"idle", "tick", "end", "start", "bytes", "flush"} /\ ScreenOK(t)
    BY DEF IInv, WriteOK, NoWrite
  <2>2. w.pc # "flush" => CursorFits(t)
    BY AlwaysMarked DEF Marked
  <2> QED BY <2>1, <2>2, ActiveOK DEF ScreenInv, Flushing
<1>2. ASSUME NEW text \in Texts, WriteBegin(text) PROVE ScreenInv'
  <2>1. t' = t /\ w'.pc = "start" /\ held' = held /\ w.pc = "idle"
    BY <1>2 DEF WriteBegin, Idle
  <2> QED BY <2>1, AlwaysMarked DEF ScreenInv
<1>3. ASSUME StartWrite PROVE ScreenInv'
  <2> DEFINE d == start_write(t)
  <2>1. Marked(t) /\ Becomes(d) /\ w'.pc = "bytes" /\ held' = held
    BY <1>3 DEF StartWrite, ScreenInv
  <2>2. Writing(d)
    BY <2>1, StartShows
  <2> HIDE DEF d
  <2>3. Writing(t')
    BY <2>1, <2>2, BecomesShows DEF Writing, Marked
  <2> QED BY <2>1, <2>3 DEF ScreenInv, Writing
<1>4. ASSUME WriteByte PROVE ScreenInv'
  <2> DEFINE d == process_byte(t, w.tty, Head(w.text))
  <2>1. w \in [pc : {"bytes"}, tty : Ttys, text : Seq(Byte)] /\ w.text # <<>>
    BY <1>4 DEF IInv, WriteByte, WriteOK, NoWrite
  <2>2. Head(w.text) \in Byte
    BY <2>1, HeadTailProperties
  <2>3. Becomes(d) /\ w' = [w EXCEPT !.text = Tail(w.text)] /\ held' = held
    BY <1>4 DEF WriteByte, byte_target
  <2>4. w'.pc = "bytes" /\ Writing(t)
    BY <2>1, <2>3 DEF ScreenInv
  <2>5. Writing(d)
    BY <2>1, <2>2, <2>4, ByteShows
  <2> HIDE DEF d
  <2>6. Writing(t')
    BY <2>3, <2>5, BecomesShows DEF Writing, Marked
  <2> QED BY <2>3, <2>4, <2>6 DEF ScreenInv, Writing
<1>5. ASSUME NEW i \in Ttys, Switch(i) PROVE ScreenInv'
  <2>1. Interrupt(switch(t, i)) /\ w' = w /\ held' = held
    BY <1>5 DEF Switch
  <2> QED BY <1>1, <2>1, SwitchShows, InterruptShows
<1>6. /\ clamped_offset(Active(t)) = Active(t).off
      /\ Active(t).off \in 0 .. Active(t).count /\ Active(t).count \in Nat
  BY <1>1, ActiveOK, Fields, Sizes DEF clamped_offset, Least
<1>7. ASSUME PageUp PROVE ScreenInv'
  <2> DEFINE off == Least(clamped_offset(Active(t)) + content_rows, Active(t).count)
  <2>1. off \in 0 .. Active(t).count
    BY <1>6, Sizes DEF Least
  <2>2. Interrupt(scroll_to(t, off)) /\ w' = w /\ held' = held
    BY <1>7 DEF PageUp, page_up
  <2> HIDE DEF off
  <2> QED BY <1>1, <2>1, <2>2, ScrollToShows, InterruptShows
<1>8. ASSUME PageDown PROVE ScreenInv'
  <2> DEFINE cur == clamped_offset(Active(t))
             off == IF cur > content_rows THEN cur - content_rows ELSE 0
  <2>1. off \in 0 .. Active(t).count
    BY <1>6, Sizes
  <2>2. Interrupt(scroll_to(t, off)) /\ w' = w /\ held' = held
    BY <1>8 DEF PageDown, page_down
  <2> HIDE DEF off
  <2> QED BY <1>1, <2>1, <2>2, ScrollToShows, InterruptShows
<1>9. ASSUME TickBegin PROVE ScreenInv'
  <2>1. t' = t /\ w'.pc = "tick" /\ held' = held /\ w.pc = "idle"
    BY <1>9 DEF TickBegin, Idle
  <2> QED BY <2>1 DEF ScreenInv
<1>10. ASSUME Tick PROVE ScreenInv'
  <2>1. PICK late \in BOOLEAN : Becomes(tick(t, late))
    BY <1>10 DEF Tick
  <2> DEFINE d == tick(t, late)
  <2>2. Becomes(d) /\ w'.pc = "idle" /\ held' = held /\ Settled(t) /\ BarTrue(t) /\ (held.pc = "bytes" => t.busy)
    BY <1>10, <2>1 DEF Tick, NoWrite, ScreenInv
  <2>3. Settled(d) /\ BarTrue(d)
    BY <2>2, TickShows
  <2>4. d.busy = t.busy
    BY <1>1 DEF tick, draw_cursor, hide_cursor, draw_cell, ScreenOK, ScreenRec
  <2> HIDE DEF d
  <2>5. Settled(t') /\ BarTrue(t') /\ t'.busy = d.busy
    BY <2>2, <2>3, BecomesShows DEF Settled
  <2> QED BY <2>2, <2>4, <2>5 DEF ScreenInv
<1>11. ASSUME UNCHANGED vars PROVE ScreenInv'
  BY <1>11 DEF vars, ScreenInv
<1> QED BY <1>2, <1>3, <1>4, <1>5, <1>7, <1>8, <1>9, <1>10, <1>11, FlushBeginShows, FlushCellShows, FlushEndShows,
        WriteEndShows, EchoShows DEF Next

\* Between calls the screen shows the active terminal, cell by cell, with one cursor and a
\* true status bar, until the next redraw after one of the things torn records: for every
\* text written and echoed, with interrupts between the steps of a write and within them.
THEOREM ScreenIsTrue == Spec => []ScreenTrue
<1>1. IInv /\ ScreenInv => ScreenTrue
  <2> SUFFICES ASSUME ScreenInv, Idle PROVE ScreenShowsView /\ OneCursor /\ StatusBarTrue
    BY DEF ScreenTrue, ScreenShowsView, OneCursor, StatusBarTrue
  <2>1. AllShown(t) /\ BarTrue(t)
    BY DEF ScreenInv, Idle, Settled
  <2>2. ScreenShowsView
    BY <2>1 DEF ScreenShowsView, AllShown, Shown, Seen
  <2>3. OneCursor
    BY <2>1 DEF OneCursor, AllShown, Shown, Seen, Lit
  <2>4. StatusBarTrue
    BY <2>1 DEF StatusBarTrue, BarTrue
  <2> QED BY <2>2, <2>3, <2>4
<1> QED BY <1>1, ScreenStarted, ScreenStep, Invariant, PTL DEF Spec
=============================================================================
