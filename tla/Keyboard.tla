------------------------------ MODULE Keyboard ------------------------------
(***************************************************************************)
(* clks/kernel/keyboard.c: the decoder of PS/2 scan codes, the hotkeys and *)
(* the ring of input characters of each virtual terminal.  Scan codes are  *)
(* handled in the keyboard interrupt; programs pop characters in system    *)
(* calls, where interrupts are masked; the kernel's own shell pops them    *)
(* from the main loop, where they are not, so its pop is a sequence of     *)
(* steps between which an interrupt may come (the kernel is built without  *)
(* optimisation: every statement loads and stores its variables).          *)
(* Statistics counters, log lines and the scrollback keys are left out.    *)
(***************************************************************************)
EXTENDS Integers, Sequences

CONSTANTS
    CAP,          \* CLKS_KBD_INPUT_CAP: cells of a ring
    TTY_COUNT,    \* clks_keyboard_effective_tty_count()
    Keys          \* keys of the keyboard: set 1 make codes, 0xE000 + code if prefixed

ASSUME SizesAssumption == CAP \in Nat \ {0} /\ TTY_COUNT \in 1 .. 8
ASSUME KeysAssumption == Keys \subseteq (1 .. 95) \cup (57344 + 1 .. 57344 + 95)

VARIABLES
    queue, head, tail, count,       \* clks_kbd_input_*: one ring per terminal
    alt_down, lshift_down, rshift_down, lctrl_down, rctrl_down,
    e0_prefix, force_stop_latch,
    active,       \* clks_tty_active()
    running,      \* terminal of the program on top of the exec stack, or NoProgram
    pop,          \* the kernel shell's clks_keyboard_pop_char, between its steps
    down,         \* keys that are physically down
    wire,         \* bytes the keyboard has sent and no interrupt has read
    held_stops    \* force stops since one of the keys of Ctrl+Alt+C was let go

ring == <<queue, head, tail, count>>
modifiers == <<alt_down, lshift_down, rshift_down, lctrl_down, rctrl_down>>
keyboard == <<down, wire>>
vars == <<ring, modifiers, e0_prefix, force_stop_latch, active, running, pop,
          keyboard, held_stops>>

Ttys == 0 .. TTY_COUNT - 1

SC_ALT == 56
SC_LSHIFT == 42
SC_RSHIFT == 54
SC_CTRL == 29
SC_F1 == 59
SC_F4 == 62
SC_C == 46
EXT_PREFIX == 224
EXT_KEY == 57344                     \* 0xE000

EXT_PAGEUP == 73
EXT_PAGEDOWN == 81
ExtShifted == {71, 75, 77, 79}       \* Home, Left, Right, End: Shift matters
ExtPlain == {72, 80, 83}             \* Up, Down, Delete
Shortcuts == {30, 46, 47}            \* Ctrl+A, Ctrl+C, Ctrl+V
Mapped == 2 .. 28 \cup 30 .. 41 \cup 43 .. 53 \cup {57}   \* cells of clks_kbd_map

\* A character: which table it comes from, the code, and whether Shift changed it.
Chars == {"key", "ext", "ctrl"} \X {k % 128 : k \in Keys} \X BOOLEAN
NoProgram == -1
NoChar == <<"none", 0, FALSE>>

NoPop == [pc |-> "idle", tty |-> 0, ch |-> NoChar, loaded |-> 0]

Init ==
    /\ queue = [t \in Ttys |-> [i \in 0 .. CAP - 1 |-> NoChar]]
    /\ head = [t \in Ttys |-> 0]
    /\ tail = [t \in Ttys |-> 0]
    /\ count = [t \in Ttys |-> 0]
    /\ alt_down = FALSE /\ lshift_down = FALSE /\ rshift_down = FALSE
    /\ lctrl_down = FALSE /\ rctrl_down = FALSE
    /\ e0_prefix = FALSE /\ force_stop_latch = FALSE
    /\ active = 0 /\ running = NoProgram /\ pop = NoPop
    /\ down = {} /\ wire = <<>> /\ held_stops = 0

shift_active == lshift_down \/ rshift_down
ctrl_active == lctrl_down \/ rctrl_down

clamp_tty_index(t) == IF t >= TTY_COUNT THEN 0 ELSE t

-----------------------------------------------------------------------------
(***************************************************************************)
(* The rings.  An interrupt that queued a character hands it to the kernel *)
(* shell at once when terminal 0 is active and no program runs.            *)
(***************************************************************************)
should_pump_shell_now == active = 0 /\ running = NoProgram

\* Mutant: the head does not wrap.
queue_push_no_wrap(t, ch) ==
    /\ queue' = [queue EXCEPT ![t][head[t]] = ch]
    /\ head' = [head EXCEPT ![t] = (@ + 1) % (CAP + 1)]
    /\ count' = [count EXCEPT ![t] = @ + 1]
    /\ UNCHANGED tail

queue_push(t, ch) ==
    /\ queue' = [queue EXCEPT ![t][head[t]] = ch]
    /\ head' = [head EXCEPT ![t] = (@ + 1) % CAP]
    /\ count' = [count EXCEPT ![t] = @ + 1]
    /\ UNCHANGED tail

\* The push, and a pop by clks_shell_pump_input(1) in the same interrupt.
queue_push_and_pump(t, ch) ==
    /\ queue' = [queue EXCEPT ![t][head[t]] = ch]
    /\ head' = [head EXCEPT ![t] = (@ + 1) % CAP]
    /\ tail' = [tail EXCEPT ![t] = (@ + 1) % CAP]
    /\ UNCHANGED count

queue_push_for_tty(tty_index, ch) ==
    LET t == clamp_tty_index(tty_index)
    IN  \/ count[t] >= CAP /\ UNCHANGED ring
        \/ count[t] < CAP /\ ~should_pump_shell_now /\ queue_push(t, ch)
        \/ count[t] < CAP /\ should_pump_shell_now /\ queue_push_and_pump(t, ch)

\* n pops in one system call.
pop_chars_for_tty(tty_index, n) ==
    LET t == clamp_tty_index(tty_index)
    IN  /\ n <= count[t]
        /\ tail' = [tail EXCEPT ![t] = (@ + n) % CAP]
        /\ count' = [count EXCEPT ![t] = @ - n]
        /\ UNCHANGED <<queue, head>>

-----------------------------------------------------------------------------
(***************************************************************************)
(* The keyboard (external): pressing a key, or holding it, sends its make  *)
(* code, letting it go its break code, either prefixed by 0xE0 for the     *)
(* keys that have one.                                                     *)
(***************************************************************************)
bytes_of(k, release) ==
    (IF k >= EXT_KEY THEN <<EXT_PREFIX>> ELSE <<>>)
        \o <<(k % 128) + (IF release THEN 128 ELSE 0)>>

ChordKeys == {SC_C, SC_CTRL, EXT_KEY + SC_CTRL, SC_ALT, EXT_KEY + SC_ALT}

Press(k) ==
    /\ wire = <<>>
    /\ down' = down \cup {k}
    /\ wire' = bytes_of(k, FALSE)
    /\ UNCHANGED <<ring, modifiers, e0_prefix, force_stop_latch, active, running,
                   pop, held_stops>>

Release(k) ==
    /\ wire = <<>>
    /\ k \in down
    /\ down' = down \ {k}
    /\ wire' = bytes_of(k, TRUE)
    /\ held_stops' = IF k \in ChordKeys THEN 0 ELSE held_stops
    /\ UNCHANGED <<ring, modifiers, e0_prefix, force_stop_latch, active, running, pop>>

-----------------------------------------------------------------------------
(***************************************************************************)
(* clks_keyboard_handle_scancode, one action per path through it.          *)
(***************************************************************************)
code == Head(wire) % 128
released == Head(wire) >= 128

\* The keyboard interrupt reads one byte, which is not the prefix.
ReadCode == /\ wire # <<>>
            /\ Head(wire) # EXT_PREFIX
            /\ wire' = Tail(wire)
            /\ UNCHANGED <<down, pop>>

ScPrefix ==
    /\ wire # <<>> /\ Head(wire) = EXT_PREFIX
    /\ wire' = Tail(wire)
    /\ e0_prefix' = TRUE
    /\ UNCHANGED <<ring, modifiers, force_stop_latch, active, running, pop, down,
                   held_stops>>

\* Mutant: the prefix survives the right Ctrl key.
ScCtrl_prefix_kept ==
    /\ ReadCode /\ code = SC_CTRL
    /\ \/ e0_prefix /\ rctrl_down' = ~released /\ UNCHANGED <<lctrl_down, e0_prefix>>
       \/ ~e0_prefix /\ lctrl_down' = ~released /\ UNCHANGED <<rctrl_down, e0_prefix>>
    /\ force_stop_latch' = (force_stop_latch /\ ~released)
    /\ UNCHANGED <<ring, alt_down, lshift_down, rshift_down, active, running, held_stops>>

ScCtrl ==
    /\ ReadCode /\ code = SC_CTRL
    /\ \/ e0_prefix /\ rctrl_down' = ~released /\ e0_prefix' = FALSE /\ UNCHANGED lctrl_down
       \/ ~e0_prefix /\ lctrl_down' = ~released /\ UNCHANGED <<rctrl_down, e0_prefix>>
    /\ force_stop_latch' = (force_stop_latch /\ ~released)
    /\ UNCHANGED <<ring, alt_down, lshift_down, rshift_down, active, running, held_stops>>

ScAlt ==
    /\ ReadCode /\ code = SC_ALT
    /\ alt_down' = ~released
    /\ force_stop_latch' = (force_stop_latch /\ ~released)
    /\ e0_prefix' = FALSE
    /\ UNCHANGED <<ring, lshift_down, rshift_down, lctrl_down, rctrl_down, active,
                   running, held_stops>>

\* The prefix, if any, is left in place.
ScShift ==
    /\ ReadCode /\ code \in {SC_LSHIFT, SC_RSHIFT}
    /\ lshift_down' = IF code = SC_LSHIFT THEN ~released ELSE lshift_down
    /\ rshift_down' = IF code = SC_RSHIFT THEN ~released ELSE rshift_down
    /\ UNCHANGED <<ring, alt_down, lctrl_down, rctrl_down, e0_prefix, force_stop_latch,
                   active, running, held_stops>>

OtherCode == ReadCode /\ code \notin {SC_CTRL, SC_ALT, SC_LSHIFT, SC_RSHIFT}

\* Mutant: letting C go leaves the latch.
ScRelease_latch_kept ==
    /\ OtherCode /\ released
    /\ e0_prefix' = FALSE
    /\ UNCHANGED <<ring, modifiers, force_stop_latch, active, running, held_stops>>

ScRelease ==
    /\ OtherCode /\ released
    /\ force_stop_latch' = (force_stop_latch /\ code # SC_C)
    /\ e0_prefix' = FALSE
    /\ UNCHANGED <<ring, modifiers, active, running, held_stops>>

translate_ext_scancode(c) ==
    IF c \in ExtShifted THEN <<"ext", c, shift_active>>
    ELSE IF c \in ExtPlain THEN <<"ext", c, FALSE>> ELSE NoChar

ScExt ==
    /\ OtherCode /\ ~released /\ e0_prefix
    /\ e0_prefix' = FALSE
    /\ LET ext == translate_ext_scancode(code)
       IN  IF code \in {EXT_PAGEUP, EXT_PAGEDOWN} \/ ext = NoChar
           THEN UNCHANGED ring
           ELSE queue_push_for_tty(active, ext)
    /\ UNCHANGED <<modifiers, force_stop_latch, active, running, held_stops>>

PlainMake == OtherCode /\ ~released /\ ~e0_prefix /\ UNCHANGED <<modifiers, e0_prefix>>

is_tty_hotkey == alt_down /\ code \in SC_F1 .. SC_F4
is_force_stop_hotkey == code = SC_C /\ alt_down /\ ctrl_active
is_ctrl_shortcut == ctrl_active /\ code \in Shortcuts

\* clks_tty_switch ignores a terminal that does not exist.
ScTtySwitch ==
    /\ PlainMake /\ is_tty_hotkey
    /\ active' = IF code - SC_F1 \in Ttys THEN code - SC_F1 ELSE active
    /\ UNCHANGED <<ring, force_stop_latch, running, held_stops>>

\* The first make code of C asks exec to stop the program of the active
\* terminal, which it does if that one is running; the repeats do nothing.
ScForceStop ==
    /\ PlainMake /\ ~is_tty_hotkey /\ is_force_stop_hotkey
    /\ \/ force_stop_latch /\ UNCHANGED <<force_stop_latch, running, held_stops>>
       \/ /\ ~force_stop_latch
          /\ force_stop_latch' = TRUE
          /\ held_stops' = held_stops + 1
          /\ running' \in {running} \cup (IF running = active THEN {NoProgram} ELSE {})
    /\ UNCHANGED <<ring, active>>

ScCtrlShortcut ==
    /\ PlainMake /\ ~is_tty_hotkey /\ ~is_force_stop_hotkey /\ is_ctrl_shortcut
    /\ queue_push_for_tty(active, <<"ctrl", code, FALSE>>)
    /\ UNCHANGED <<force_stop_latch, active, running, held_stops>>

ScChar ==
    /\ PlainMake /\ ~is_tty_hotkey /\ ~is_force_stop_hotkey /\ ~is_ctrl_shortcut
    /\ IF code \in Mapped THEN queue_push_for_tty(active, <<"key", code, shift_active>>)
                          ELSE UNCHANGED ring
    /\ UNCHANGED <<force_stop_latch, active, running, held_stops>>

HandleScancode ==
    \/ ScPrefix \/ ScCtrl \/ ScAlt \/ ScShift \/ ScRelease \/ ScExt
    \/ ScTtySwitch \/ ScForceStop \/ ScCtrlShortcut \/ ScChar

-----------------------------------------------------------------------------
(***************************************************************************)
(* Programs.  exec runs one on some terminal; its system calls pop from    *)
(* that terminal, kbd_get_char one character and a read of descriptor 0 as *)
(* many as there are, up to its size.                                      *)
(***************************************************************************)
RunProgram(t) ==
    /\ running = NoProgram /\ pop.pc = "idle"
    /\ running' = t
    /\ UNCHANGED <<ring, modifiers, e0_prefix, force_stop_latch, active, pop, keyboard,
                   held_stops>>

EndProgram ==
    /\ running # NoProgram
    /\ running' = NoProgram
    /\ UNCHANGED <<ring, modifiers, e0_prefix, force_stop_latch, active, pop, keyboard,
                   held_stops>>

\* Mutant: characters are taken from the active terminal.
SysRead_active(size) ==
    /\ running # NoProgram
    /\ count[clamp_tty_index(active)] > 0
    /\ pop_chars_for_tty(active, IF size <= count[clamp_tty_index(active)] THEN size
                                 ELSE count[clamp_tty_index(active)])
    /\ UNCHANGED <<modifiers, e0_prefix, force_stop_latch, active, running, pop, keyboard,
                   held_stops>>

SysRead(size) ==
    /\ running # NoProgram
    /\ count[clamp_tty_index(running)] > 0
    /\ pop_chars_for_tty(running, IF size <= count[clamp_tty_index(running)] THEN size
                                  ELSE count[clamp_tty_index(running)])
    /\ UNCHANGED <<modifiers, e0_prefix, force_stop_latch, active, running, pop, keyboard,
                   held_stops>>

SysKbdGetChar == SysRead(1)

SysTtySwitch(t) ==
    /\ running # NoProgram
    /\ active' = t
    /\ UNCHANGED <<ring, modifiers, e0_prefix, force_stop_latch, running, pop, keyboard,
                   held_stops>>

-----------------------------------------------------------------------------
(***************************************************************************)
(* The kernel shell's pop, from the usrd task of the main loop, with       *)
(* interrupts enabled: it tests the count, reads the cell, then updates    *)
(* the tail and the count, each by a load and a store.                     *)
(***************************************************************************)
ShellStep(pc) ==
    /\ running = NoProgram
    /\ pop.pc = pc
    /\ UNCHANGED <<queue, head, modifiers, e0_prefix, force_stop_latch, active, running,
                   keyboard, held_stops>>

ShellTest ==
    /\ ShellStep("idle")
    /\ count[clamp_tty_index(active)] > 0
    /\ pop' = [pop EXCEPT !.pc = "read", !.tty = clamp_tty_index(active)]
    /\ UNCHANGED <<tail, count>>

ShellReadCell ==
    /\ ShellStep("read")
    /\ pop' = [pop EXCEPT !.pc = "load_tail", !.ch = queue[pop.tty][tail[pop.tty]]]
    /\ UNCHANGED <<tail, count>>

ShellLoadTail ==
    /\ ShellStep("load_tail")
    /\ pop' = [pop EXCEPT !.pc = "store_tail", !.loaded = tail[pop.tty]]
    /\ UNCHANGED <<tail, count>>

ShellStoreTail ==
    /\ ShellStep("store_tail")
    /\ tail' = [tail EXCEPT ![pop.tty] = (pop.loaded + 1) % CAP]
    /\ pop' = [pop EXCEPT !.pc = "load_count", !.loaded = 0]
    /\ UNCHANGED count

ShellLoadCount ==
    /\ ShellStep("load_count")
    /\ pop' = [pop EXCEPT !.pc = "store_count", !.loaded = count[pop.tty]]
    /\ UNCHANGED <<tail, count>>

ShellStoreCount ==
    /\ ShellStep("store_count")
    /\ count' = [count EXCEPT ![pop.tty] = pop.loaded - 1]
    /\ pop' = NoPop
    /\ UNCHANGED tail

ShellPop == ShellTest \/ ShellReadCell \/ ShellLoadTail \/ ShellStoreTail
            \/ ShellLoadCount \/ ShellStoreCount

-----------------------------------------------------------------------------
Programs == \/ \E t \in Ttys : RunProgram(t) \/ SysTtySwitch(t)
            \/ \E size \in 1 .. CAP : SysRead(size)
            \/ SysKbdGetChar
            \/ EndProgram

\* Everything but the one reader that is not masked: programs read, and so does
\* the kernel shell from within the keyboard interrupt.
MaskedNext == \/ \E k \in Keys : Press(k) \/ Release(k)
              \/ HandleScancode
              \/ Programs

Next == MaskedNext \/ ShellPop

Spec == Init /\ [][Next]_vars

MaskedSpec == Init /\ [][MaskedNext]_vars

-----------------------------------------------------------------------------
\* Every variable stays within its bounds; in particular no index leaves a ring
\* and no count exceeds it, also when an interrupt hits the kernel shell's pop.
KeyboardTypeOK ==
    /\ queue \in [Ttys -> [0 .. CAP - 1 -> Chars \cup {NoChar}]]
    /\ head \in [Ttys -> 0 .. CAP - 1]
    /\ tail \in [Ttys -> 0 .. CAP - 1]
    /\ count \in [Ttys -> 0 .. CAP]
    /\ alt_down \in BOOLEAN /\ lshift_down \in BOOLEAN /\ rshift_down \in BOOLEAN
    /\ lctrl_down \in BOOLEAN /\ rctrl_down \in BOOLEAN
    /\ e0_prefix \in BOOLEAN /\ force_stop_latch \in BOOLEAN
    /\ active \in Ttys /\ running \in Ttys \cup {NoProgram}
    /\ pop.tty \in Ttys /\ pop.loaded \in 0 .. CAP

\* When every byte sent has been read, the Ctrl and Shift flags of the decoder
\* say which of those keys are down, although the two Ctrl keys differ only by a
\* prefix that arrives in an interrupt of its own.
ModifiersTrackKeys ==
    wire = <<>> => /\ lctrl_down <=> SC_CTRL \in down
                   /\ rctrl_down <=> EXT_KEY + SC_CTRL \in down
                   /\ lshift_down <=> SC_LSHIFT \in down
                   /\ rshift_down <=> SC_RSHIFT \in down

\* The latch of Ctrl+Alt+C never sticks: while it is set, C, a Ctrl and an Alt
\* key are still down, so letting the keys go always re-arms the hotkey.
LatchMeansHeld ==
    wire = <<>> /\ force_stop_latch =>
        /\ SC_C \in down
        /\ {SC_CTRL, EXT_KEY + SC_CTRL} \cap down # {}
        /\ {SC_ALT, EXT_KEY + SC_ALT} \cap down # {}

\* However long Ctrl+Alt+C is held and the key repeats, exec is asked once to
\* stop a program, until one of the keys is let go.
OneStopPerHold == held_stops <= 1

\* Ctrl+Alt+C stops one program each time it is pressed: the latch neither lets
\* the repeating key stop another one nor stays set once the keys are up.
StopLatch == LatchMeansHeld /\ OneStopPerHold

\* The contents of the rings, oldest character first.
buffered(t) == [i \in 1 .. count[t] |-> queue[t][(tail[t] + i - 1) % CAP]]

Fifo == INSTANCE KeyboardFifo WITH q <- [t \in Ttys |-> buffered(t)],
                                   reader <- running
\* The rings implement one bounded queue per terminal, in which a character
\* typed on one terminal is never read by a program of another.
FifoPerTty == Fifo!Spec
=============================================================================
