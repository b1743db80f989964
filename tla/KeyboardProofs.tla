--------------------------- MODULE KeyboardProofs ---------------------------
(***************************************************************************)
(* For every size of the rings, number of terminals and set of keys: no    *)
(* index or count of the keyboard driver leaves its range, though the      *)
(* kernel shell's pop is interrupted anywhere; and for every keyboard      *)
(* without the codes E0 2A, E0 36 and E0 2E, the decoder's flags say which *)
(* modifiers are down and Ctrl+Alt+C stops one program each time.  Where   *)
(* every reader runs masked, the rings implement KeyboardFifo's queues.    *)
(***************************************************************************)
EXTENDS Keyboard, SequenceTheorems, TLAPS

LEMMA PlainCode == ASSUME NEW k \in 1 .. 95 PROVE k % 128 = k
  OBVIOUS

LEMMA PrefixedCode == ASSUME NEW k \in 57345 .. 57439 PROVE k % 128 = k - 57344
  OBVIOUS

LEMMA BreakCode == ASSUME NEW c \in 1 .. 95 PROVE (c + 128) % 128 = c /\ c % 128 = c
  OBVIOUS

LEMMA Pair == ASSUME NEW a \in Nat, NEW b \in Nat PROVE <<a>> \o <<b>> = <<a, b>>
<1> DEFINE s == <<a>> \o <<b>>
           u == <<a, b>>
<1>1. Len(s) = 2 /\ s \in Seq(Nat) /\ s[1] = a /\ s[2] = b
  OBVIOUS
<1>2. Len(u) = 2 /\ u \in Seq(Nat) /\ u[1] = a /\ u[2] = b
  OBVIOUS
<1> HIDE DEF s, u
<1>3. \A i \in 1 .. Len(s) : s[i] = u[i]
  <2>1. 1 .. Len(s) = {1, 2}
    BY <1>1
  <2> QED BY <1>1, <1>2, <2>1
<1>4. s = u
  BY <1>1, <1>2, <1>3, SeqEqual
<1> QED BY <1>4 DEF s, u

LEMMA TailOfPair == ASSUME NEW a \in Nat, NEW b \in Nat PROVE Tail(<<a, b>>) = <<b>>
<1> DEFINE s == Tail(<<a, b>>)
           u == <<b>>
<1>1. Len(s) = 1 /\ s \in Seq(Nat) /\ s[1] = b
  OBVIOUS
<1>2. Len(u) = 1 /\ u \in Seq(Nat) /\ u[1] = b
  OBVIOUS
<1> HIDE DEF s, u
<1>3. s = u
  BY <1>1, <1>2, SeqEqual
<1> QED BY <1>3 DEF s, u

LEMMA Modulo == ASSUME NEW n \in Nat \ {0}, NEW a \in Nat PROVE a % n \in 0 .. n - 1
  OBVIOUS

\* The last byte the keyboard sends for a key.
last(k, release) == (k % 128) + (IF release THEN 128 ELSE 0)

LEMMA KeyCodes ==
    ASSUME NEW k \in Keys, NEW r \in BOOLEAN
    PROVE  /\ k % 128 \in 1 .. 95 /\ k = (IF k >= EXT_KEY THEN EXT_KEY ELSE 0) + (k % 128)
           /\ last(k, r) \in Nat /\ last(k, r) % 128 = k % 128 /\ last(k, r) # EXT_PREFIX
           /\ last(k, r) >= 128 <=> r
<1> DEFINE c == k % 128
<1>1. c \in 1 .. 95 /\ k = (IF k >= 57344 THEN 57344 ELSE 0) + c
  <2>1. CASE k \in 1 .. 95
    <3>1. c = k
      BY <2>1, PlainCode
    <3> HIDE DEF c
    <3> QED BY <2>1, <3>1
  <2>2. CASE k \in 57345 .. 57439
    <3>1. c = k - 57344
      BY <2>2, PrefixedCode
    <3> HIDE DEF c
    <3> QED BY <2>2, <3>1
  <2> QED BY <2>1, <2>2, KeysAssumption
<1>2. last(k, r) = IF r THEN c + 128 ELSE c
  BY <1>1 DEF last
<1> HIDE DEF c
<1>3. (c + 128) % 128 = c /\ c % 128 = c
  BY <1>1, BreakCode
<1>4. last(k, r) \in Nat /\ last(k, r) # EXT_PREFIX /\ (last(k, r) >= 128 <=> r)
  BY <1>1, <1>2 DEF EXT_PREFIX
<1>5. last(k, r) % 128 = c
  BY <1>2, <1>3
<1>6. k = (IF k >= EXT_KEY THEN EXT_KEY ELSE 0) + c
  BY <1>1 DEF EXT_KEY
<1>7. c = k % 128
  BY DEF c
<1> QED BY <1>1, <1>4, <1>5, <1>6, <1>7

LEMMA Bytes ==
    ASSUME NEW k \in Keys, NEW r \in BOOLEAN
    PROVE  bytes_of(k, r) = IF k >= EXT_KEY THEN <<EXT_PREFIX, last(k, r)>> ELSE <<last(k, r)>>
<1> DEFINE b == last(k, r)
<1>1. bytes_of(k, r) = (IF k >= EXT_KEY THEN <<EXT_PREFIX>> ELSE <<>>) \o <<b>>
  BY DEF bytes_of, last
<1> HIDE DEF b
<1>2. b \in Nat /\ EXT_PREFIX \in Nat
  BY KeyCodes DEF b, EXT_PREFIX
<1>3. <<EXT_PREFIX>> \o <<b>> = <<EXT_PREFIX, b>> /\ <<>> \o <<b>> = <<b>>
  BY <1>2, Pair, ConcatEmptySeq
<1> QED BY <1>1, <1>3 DEF b

-----------------------------------------------------------------------------
(* Types. *)

RingOK ==
    /\ queue \in [Ttys -> [0 .. CAP - 1 -> Chars \cup {NoChar}]]
    /\ head \in [Ttys -> 0 .. CAP - 1]
    /\ tail \in [Ttys -> 0 .. CAP - 1]
    /\ count \in [Ttys -> 0 .. CAP]

\* While the kernel shell pops, no program runs, so nothing else takes the character it found.
PopRec == [pc : {"idle", "read", "load_tail", "store_tail", "load_count", "store_count"},
           tty : Ttys, ch : Chars \cup {NoChar}, loaded : 0 .. CAP]
PopOK ==
    /\ pop \in PopRec
    /\ pop.pc # "idle" => running = NoProgram /\ count[pop.tty] >= 1
    /\ pop.pc = "store_count" => pop.loaded >= 1

\* What has been sent and not read is what is left of the bytes of one key.
WireOK ==
    \/ wire = <<>>
    \/ \E k \in Keys, r \in BOOLEAN :
          wire = <<last(k, r)>> \/ (k >= EXT_KEY /\ wire = <<EXT_PREFIX, last(k, r)>>)

KbdTypeInv == KeyboardTypeOK /\ PopOK /\ WireOK

LEMMA TtyIndex == 0 \in Ttys /\ \A t \in Ttys : clamp_tty_index(t) = t /\ t # NoProgram
  BY SizesAssumption DEF Ttys, clamp_tty_index, NoProgram

LEMMA Wraps == ASSUME NEW i \in Nat, NEW n \in Nat PROVE (i + n) % CAP \in 0 .. CAP - 1
<1>1. i + n \in Nat /\ CAP \in Nat \ {0}
  BY SizesAssumption
<1> QED BY <1>1, Modulo

\* A push stays within the ring and takes no character out, also when the kernel shell
\* pops one in the same interrupt.
LEMMA PushKeepsRing ==
    ASSUME RingOK, NEW t \in Ttys, NEW ch \in Chars, queue_push_for_tty(t, ch)
    PROVE  RingOK' /\ \A u \in Ttys : count'[u] >= count[u]
<1>1. clamp_tty_index(t) = t
  BY TtyIndex
<1>2. /\ head[t] \in 0 .. CAP - 1 /\ tail[t] \in 0 .. CAP - 1 /\ count[t] \in 0 .. CAP
      /\ \A u \in Ttys : count[u] \in 0 .. CAP
  BY DEF RingOK
<1>3. (head[t] + 1) % CAP \in 0 .. CAP - 1 /\ (tail[t] + 1) % CAP \in 0 .. CAP - 1
  <2>1. head[t] \in Nat /\ tail[t] \in Nat /\ 1 \in Nat
    BY <1>2
  <2> QED BY <2>1, Wraps
<1>4. [queue EXCEPT ![t][head[t]] = ch] \in [Ttys -> [0 .. CAP - 1 -> Chars \cup {NoChar}]]
  BY <1>2 DEF RingOK
<1> DEFINE h == (head[t] + 1) % CAP
           l == (tail[t] + 1) % CAP
<1>5. h \in 0 .. CAP - 1 /\ l \in 0 .. CAP - 1
  BY <1>3
<1>6. \/ UNCHANGED ring
      \/ /\ queue' = [queue EXCEPT ![t][head[t]] = ch] /\ head' = [head EXCEPT ![t] = h]
         /\ \/ count[t] < CAP /\ count' = [count EXCEPT ![t] = @ + 1] /\ UNCHANGED tail
            \/ tail' = [tail EXCEPT ![t] = l] /\ UNCHANGED count
  BY <1>1 DEF queue_push_for_tty, queue_push, queue_push_and_pump
<1> HIDE DEF h, l
<1>7. /\ queue' \in [Ttys -> [0 .. CAP - 1 -> Chars \cup {NoChar}]]
      /\ head' \in [Ttys -> 0 .. CAP - 1] /\ tail' \in [Ttys -> 0 .. CAP - 1]
  BY <1>4, <1>5, <1>6 DEF RingOK, ring
<1>8. count' \in [Ttys -> 0 .. CAP] /\ \A u \in Ttys : count'[u] >= count[u]
  <2>1. UNCHANGED count \/ (count[t] < CAP /\ count' = [count EXCEPT ![t] = @ + 1])
    BY <1>6 DEF ring
  <2>2. count \in [Ttys -> 0 .. CAP] /\ CAP \in Nat
    BY SizesAssumption DEF RingOK
  <2>3. CASE count[t] < CAP /\ count' = [count EXCEPT ![t] = @ + 1]
    <3>1. count[t] + 1 \in 0 .. CAP
      BY <1>2, <2>2, <2>3
    <3> QED BY <1>2, <2>2, <2>3, <3>1
  <2> QED BY <1>2, <2>1, <2>2, <2>3
<1> QED BY <1>7, <1>8 DEF RingOK

LEMMA PopKeepsRing ==
    ASSUME RingOK, NEW t \in Ttys, NEW n \in 0 .. CAP, pop_chars_for_tty(t, n)
    PROVE  RingOK'
<1>1. clamp_tty_index(t) = t
  BY TtyIndex
<1>2. /\ tail[t] \in 0 .. CAP - 1 /\ count[t] \in 0 .. CAP /\ n <= count[t]
      /\ tail' = [tail EXCEPT ![t] = (@ + n) % CAP] /\ count' = [count EXCEPT ![t] = @ - n]
      /\ UNCHANGED <<queue, head>>
  BY <1>1 DEF RingOK, pop_chars_for_tty
<1> DEFINE l == (tail[t] + n) % CAP
<1>3. l \in 0 .. CAP - 1 /\ tail' = [tail EXCEPT ![t] = l]
  <2>1. tail[t] \in Nat /\ n \in Nat
    BY <1>2
  <2> QED BY <1>2, <2>1, Wraps
<1> HIDE DEF l
<1>4. count[t] - n \in 0 .. CAP
  BY <1>2, SizesAssumption
<1> QED BY <1>2, <1>3, <1>4 DEF RingOK

LEMMA KbdTypeInit == Init => KbdTypeInv
<1> SUFFICES ASSUME Init PROVE KbdTypeInv
  OBVIOUS
<1>1. 0 \in Ttys /\ 0 \in 0 .. CAP - 1 /\ 0 \in 0 .. CAP /\ NoChar \in Chars \cup {NoChar}
  BY TtyIndex, SizesAssumption
<1>2. KeyboardTypeOK
  BY <1>1 DEF Init, KeyboardTypeOK, NoPop
<1>3. PopOK
  BY <1>1 DEF Init, PopOK, PopRec, NoPop
<1> QED BY <1>2, <1>3 DEF Init, KbdTypeInv, WireOK

\* Pressing and letting go puts the bytes of one key on the wire.
LEMMA KeysType == ASSUME KbdTypeInv, NEW k \in Keys, Press(k) \/ Release(k) PROVE KbdTypeInv'
<1>1. wire' = bytes_of(k, FALSE) \/ wire' = bytes_of(k, TRUE)
  BY DEF Press, Release
<1>2. WireOK'
  BY <1>1, Bytes DEF WireOK
<1>3. UNCHANGED <<ring, modifiers, e0_prefix, force_stop_latch, active, running, pop>>
  BY DEF Press, Release
<1> QED BY <1>2, <1>3 DEF KbdTypeInv, KeyboardTypeOK, PopOK, ring, modifiers

\* What an interrupt reads is the last byte of a key, or the prefix before it.
LEMMA ReadByte ==
    ASSUME WireOK, ReadCode
    PROVE  \E k \in Keys, r \in BOOLEAN :
              wire = <<last(k, r)>> /\ wire' = <<>> /\ code = k % 128 /\ (released <=> r)
<1>1. wire # <<>> /\ Head(wire) # EXT_PREFIX /\ wire' = Tail(wire)
  BY DEF ReadCode
<1>2. PICK k \in Keys, r \in BOOLEAN :
         wire = <<last(k, r)>> \/ (k >= EXT_KEY /\ wire = <<EXT_PREFIX, last(k, r)>>)
  BY <1>1 DEF WireOK
<1>3. wire = <<last(k, r)>>
  BY <1>1, <1>2
<1>4. Head(wire) = last(k, r) /\ wire' = <<>>
  BY <1>1, <1>3
<1>5. code = k % 128 /\ (released <=> r)
  BY <1>4, KeyCodes DEF code, released
<1> QED BY <1>3, <1>4, <1>5

LEMMA CodeChars ==
    ASSUME NEW k \in Keys, NEW c, c = k % 128
    PROVE  /\ <<"key", c, shift_active>> \in Chars /\ <<"ctrl", c, FALSE>> \in Chars
           /\ translate_ext_scancode(c) # NoChar => translate_ext_scancode(c) \in Chars
<1>1. c \in {i % 128 : i \in Keys}
  OBVIOUS
<1>2. shift_active \in BOOLEAN
  BY Zenon DEF shift_active
<1> QED BY <1>1, <1>2 DEF Chars, translate_ext_scancode

\* A step after which the rings are in order and no character was taken from one that the
\* kernel shell is popping.
FlagsOK ==
    /\ alt_down \in BOOLEAN /\ lshift_down \in BOOLEAN /\ rshift_down \in BOOLEAN
    /\ lctrl_down \in BOOLEAN /\ rctrl_down \in BOOLEAN
    /\ e0_prefix \in BOOLEAN /\ force_stop_latch \in BOOLEAN
NoneTaken == \A u \in Ttys : count'[u] >= count[u]
LEMMA InterruptType ==
    ASSUME KbdTypeInv, RingOK', NoneTaken, WireOK', FlagsOK',
           active' \in Ttys, running' \in {running, NoProgram}, pop' = pop
    PROVE  KbdTypeInv'
<1>1. KeyboardTypeOK'
  <2>1. running' \in Ttys \cup {NoProgram} /\ pop'.tty \in Ttys /\ pop'.loaded \in 0 .. CAP
    BY DEF KbdTypeInv, KeyboardTypeOK
  <2> QED BY <2>1 DEF KeyboardTypeOK, RingOK, FlagsOK
<1>2. PopOK'
  <2>1. PopOK /\ RingOK
    BY DEF KbdTypeInv, KeyboardTypeOK, RingOK
  <2>2. pop.tty \in Ttys /\ count[pop.tty] \in 0 .. CAP /\ count'[pop.tty] \in 0 .. CAP
    BY <2>1, SizesAssumption DEF PopOK, PopRec, RingOK
  <2>3. count'[pop.tty] >= count[pop.tty]
    BY <2>2 DEF NoneTaken
  <2> QED BY <2>1, <2>2, <2>3 DEF PopOK
<1> QED BY <1>1, <1>2 DEF KbdTypeInv

LEMMA SameRing ==
    ASSUME KbdTypeInv, UNCHANGED ring
    PROVE  RingOK' /\ NoneTaken
  BY SizesAssumption DEF KbdTypeInv, KeyboardTypeOK, RingOK, ring, NoneTaken

LEMMA ScancodeType == ASSUME KbdTypeInv, HandleScancode PROVE KbdTypeInv'
<1>1. /\ KeyboardTypeOK /\ RingOK /\ WireOK /\ active \in Ttys
      /\ alt_down \in BOOLEAN /\ lshift_down \in BOOLEAN /\ rshift_down \in BOOLEAN
      /\ lctrl_down \in BOOLEAN /\ rctrl_down \in BOOLEAN
      /\ e0_prefix \in BOOLEAN /\ force_stop_latch \in BOOLEAN
  BY DEF KbdTypeInv, KeyboardTypeOK, RingOK
<1>2. (~released) \in BOOLEAN /\ (force_stop_latch /\ ~released) \in BOOLEAN /\ (force_stop_latch /\ code # SC_C) \in BOOLEAN
  BY Zenon
<1>3. CASE ScPrefix
  <2>1. WireOK'
    <3>1. wire # <<>> /\ Head(wire) = EXT_PREFIX /\ wire' = Tail(wire)
      BY <1>3 DEF ScPrefix
    <3>2. PICK k \in Keys, r \in BOOLEAN :
             wire = <<last(k, r)>> \/ (k >= EXT_KEY /\ wire = <<EXT_PREFIX, last(k, r)>>)
      BY <1>1, <3>1 DEF WireOK
    <3>3. last(k, r) # EXT_PREFIX /\ last(k, r) \in Nat /\ EXT_PREFIX \in Nat
      BY KeyCodes DEF EXT_PREFIX
    <3>4. wire = <<EXT_PREFIX, last(k, r)>>
      BY <3>1, <3>2, <3>3
    <3>5. wire' = <<last(k, r)>>
      BY <3>1, <3>3, <3>4, TailOfPair
    <3> QED BY <3>5 DEF WireOK
  <2>2. RingOK' /\ NoneTaken
    BY <1>3, SameRing DEF ScPrefix
  <2>3. FlagsOK' /\ active' \in Ttys /\ running' \in {running, NoProgram} /\ pop' = pop
    BY <1>1, <1>3 DEF ScPrefix, modifiers, FlagsOK
  <2> QED BY <2>1, <2>2, <2>3, InterruptType
<1>4. CASE ~ScPrefix
  <2>1. ReadCode
    BY <1>4 DEF HandleScancode, ScCtrl, ScAlt, ScShift, ScRelease, ScExt, ScTtySwitch, ScForceStop,
                ScCtrlShortcut, ScChar, OtherCode, PlainMake
  <2>2. PICK k \in Keys, r \in BOOLEAN :
           wire = <<last(k, r)>> /\ wire' = <<>> /\ code = k % 128 /\ (released <=> r)
    BY <1>1, <2>1, ReadByte
  <2>3. WireOK' /\ pop' = pop
    BY <2>1, <2>2 DEF WireOK, ReadCode
  <2>4. RingOK' /\ NoneTaken
    <3>1. \/ UNCHANGED ring
          \/ \E ch \in Chars : queue_push_for_tty(active, ch)
      <4>1. CASE ScExt
        <5>1. UNCHANGED ring \/ (translate_ext_scancode(code) # NoChar /\ queue_push_for_tty(active, translate_ext_scancode(code)))
          BY <4>1 DEF ScExt
        <5> QED BY <2>2, <5>1, CodeChars
      <4>2. CASE ScCtrlShortcut
        BY <2>2, <4>2, CodeChars DEF ScCtrlShortcut
      <4>3. CASE ScChar
        BY <2>2, <4>3, CodeChars DEF ScChar
      <4>4. CASE ScCtrl \/ ScAlt \/ ScShift \/ ScRelease \/ ScTtySwitch \/ ScForceStop
        BY <4>4 DEF ScCtrl, ScAlt, ScShift, ScRelease, ScTtySwitch, ScForceStop
      <4> QED BY <1>4, <4>1, <4>2, <4>3, <4>4 DEF HandleScancode
    <3> QED BY <1>1, <3>1, SameRing, PushKeepsRing DEF NoneTaken
  <2>5. active' \in Ttys
    BY <1>1, <1>4 DEF HandleScancode, ScCtrl, ScAlt, ScShift, ScRelease, ScExt, ScTtySwitch, ScForceStop,
                      ScCtrlShortcut, ScChar
  <2>6. running' \in {running, NoProgram}
    BY <1>4 DEF HandleScancode, ScCtrl, ScAlt, ScShift, ScRelease, ScExt, ScTtySwitch, ScForceStop,
                ScCtrlShortcut, ScChar
  <2>7. /\ alt_down' \in {alt_down, ~released} /\ lshift_down' \in {lshift_down, ~released}
        /\ rshift_down' \in {rshift_down, ~released} /\ lctrl_down' \in {lctrl_down, ~released}
        /\ rctrl_down' \in {rctrl_down, ~released} /\ e0_prefix' \in {e0_prefix, FALSE}
        /\ force_stop_latch' \in {force_stop_latch, force_stop_latch /\ ~released, force_stop_latch /\ code # SC_C, TRUE}
    BY <1>4 DEF HandleScancode, ScCtrl, ScAlt, ScShift, ScRelease, ScExt, ScTtySwitch, ScForceStop,
                ScCtrlShortcut, ScChar, PlainMake, modifiers
  <2>8. FlagsOK'
    <3>1. alt_down' \in BOOLEAN /\ lshift_down' \in BOOLEAN /\ rshift_down' \in BOOLEAN
      BY <1>1, <1>2, <2>7, Zenon
    <3>2. lctrl_down' \in BOOLEAN /\ rctrl_down' \in BOOLEAN /\ e0_prefix' \in BOOLEAN
      BY <1>1, <1>2, <2>7, Zenon
    <3>3. force_stop_latch' \in BOOLEAN
      BY <1>1, <1>2, <2>7, Zenon
    <3> QED BY <3>1, <3>2, <3>3 DEF FlagsOK
  <2> QED BY <2>3, <2>4, <2>5, <2>6, <2>8, InterruptType
<1> QED BY <1>3, <1>4

\* Programs pop characters in system calls, which nothing interrupts.
LEMMA ProgramsType == ASSUME KbdTypeInv, Programs PROVE KbdTypeInv'
<1>1. /\ UNCHANGED <<modifiers, e0_prefix, force_stop_latch, pop, keyboard>>
      /\ active' \in Ttys /\ running' \in Ttys \cup {NoProgram}
      /\ PopOK /\ RingOK /\ WireOK /\ KeyboardTypeOK
  BY DEF Programs, RunProgram, SysTtySwitch, SysRead, SysKbdGetChar, EndProgram, KbdTypeInv, KeyboardTypeOK, RingOK
<1>2. CASE \E t \in Ttys : RunProgram(t) \/ SysTtySwitch(t)
  BY <1>1, <1>2 DEF RunProgram, SysTtySwitch, KbdTypeInv, KeyboardTypeOK, PopOK, WireOK, ring, modifiers, keyboard
<1>3. CASE EndProgram
  BY <1>1, <1>3 DEF EndProgram, KbdTypeInv, KeyboardTypeOK, PopOK, WireOK, ring, modifiers, keyboard
<1>4. CASE (\E size \in 1 .. CAP : SysRead(size)) \/ SysKbdGetChar
  <2>1. PICK size \in 1 .. CAP : SysRead(size)
    <3>1. 1 \in 1 .. CAP
      BY SizesAssumption
    <3> QED BY <1>4, <3>1 DEF SysKbdGetChar
  <2> DEFINE n == IF size <= count[clamp_tty_index(running)] THEN size ELSE count[clamp_tty_index(running)]
  <2>2. running # NoProgram /\ running \in Ttys /\ UNCHANGED <<active, running>> /\ pop_chars_for_tty(running, n)
    BY <1>1, <2>1 DEF SysRead, KeyboardTypeOK
  <2>3. n \in 0 .. CAP
    <3>1. count[clamp_tty_index(running)] \in 0 .. CAP
      BY <1>1, <2>2, TtyIndex DEF RingOK
    <3> QED BY <3>1, SizesAssumption
  <2> HIDE DEF n
  <2>4. RingOK'
    BY <1>1, <2>2, <2>3, PopKeepsRing
  <2> QED BY <1>1, <2>2, <2>4 DEF KbdTypeInv, KeyboardTypeOK, RingOK, PopOK, WireOK, modifiers, keyboard
<1> QED BY <1>2, <1>3, <1>4 DEF Programs

\* The kernel shell's pop, one load or store at a time: the count it stores last is what it
\* loaded less one, and it loaded at least one, since only it takes characters out.
LEMMA PopType == ASSUME KbdTypeInv, ShellPop PROVE KbdTypeInv'
<1>1. /\ running = NoProgram
      /\ UNCHANGED <<queue, head, modifiers, e0_prefix, force_stop_latch, active, running, keyboard>>
      /\ PopOK /\ RingOK /\ WireOK /\ KeyboardTypeOK
  BY DEF ShellPop, ShellTest, ShellReadCell, ShellLoadTail, ShellStoreTail, ShellLoadCount, ShellStoreCount,
         ShellStep, KbdTypeInv, KeyboardTypeOK, RingOK
<1>2. /\ pop.tty \in Ttys /\ pop.loaded \in 0 .. CAP /\ tail[pop.tty] \in 0 .. CAP - 1
      /\ count[pop.tty] \in 0 .. CAP /\ queue[pop.tty][tail[pop.tty]] \in Chars \cup {NoChar}
  <2>1. pop.tty \in Ttys /\ pop.loaded \in 0 .. CAP
    BY <1>1 DEF KeyboardTypeOK
  <2>2. /\ tail[pop.tty] \in 0 .. CAP - 1 /\ count[pop.tty] \in 0 .. CAP
        /\ queue[pop.tty] \in [0 .. CAP - 1 -> Chars \cup {NoChar}]
    BY <1>1, <2>1 DEF RingOK
  <2> QED BY <2>1, <2>2
<1>3. tail' \in [Ttys -> 0 .. CAP - 1] /\ count' \in [Ttys -> 0 .. CAP] /\ PopOK'
  <2>1. CASE ShellTest
    <3> DEFINE t == clamp_tty_index(active)
    <3>1. t \in Ttys /\ count[t] >= 1
      <4>1. active \in Ttys /\ t = active /\ count[t] > 0
        BY <1>1, <2>1, TtyIndex DEF KeyboardTypeOK, ShellTest
      <4> HIDE DEF t
      <4> QED BY <1>1, <4>1, SizesAssumption DEF RingOK
    <3>2. pop' = [pop EXCEPT !.pc = "read", !.tty = t] /\ pop \in PopRec /\ UNCHANGED <<tail, count>>
      BY <1>1, <2>1 DEF ShellTest, PopOK
    <3> HIDE DEF t
    <3>3. pop' \in PopRec /\ pop'.pc = "read" /\ pop'.tty = t
      BY <3>1, <3>2 DEF PopRec
    <3> QED BY <1>1, <3>1, <3>2, <3>3 DEF PopOK, RingOK
  <2>2. CASE ShellReadCell
    BY <1>1, <1>2, <2>2 DEF ShellReadCell, ShellStep, PopOK, PopRec, RingOK
  <2>3. CASE ShellLoadTail
    <3>1. pop.pc = "load_tail" /\ pop \in PopRec /\ UNCHANGED <<tail, count>>
          /\ pop' = [pop EXCEPT !.pc = "store_tail", !.loaded = tail[pop.tty]]
      BY <1>1, <2>3 DEF ShellLoadTail, ShellStep, PopOK
    <3>2. tail[pop.tty] \in 0 .. CAP
      BY <1>2, SizesAssumption
    <3>3. pop' \in PopRec /\ pop'.pc = "store_tail" /\ pop'.tty = pop.tty
      BY <3>1, <3>2 DEF PopRec
    <3> QED BY <1>1, <3>1, <3>3 DEF PopOK, RingOK
  <2>4. CASE ShellStoreTail
    <3> DEFINE l == (pop.loaded + 1) % CAP
    <3>1. l \in 0 .. CAP - 1
      <4>1. pop.loaded \in Nat /\ 1 \in Nat
        BY <1>2
      <4> QED BY <4>1, Wraps
    <3>2. tail' = [tail EXCEPT ![pop.tty] = l] /\ pop' = [pop EXCEPT !.pc = "load_count", !.loaded = 0] /\ UNCHANGED count
      BY <2>4 DEF ShellStoreTail
    <3>3. pop.pc = "store_tail"
      BY <2>4 DEF ShellStoreTail, ShellStep
    <3> HIDE DEF l
    <3>4. tail' \in [Ttys -> 0 .. CAP - 1]
      BY <1>1, <1>2, <3>1, <3>2 DEF RingOK
    <3>5. 0 \in 0 .. CAP /\ pop \in PopRec
      BY <1>1, SizesAssumption DEF PopOK
    <3>6. pop' \in PopRec /\ pop'.pc = "load_count" /\ pop'.tty = pop.tty
      BY <3>2, <3>5 DEF PopRec
    <3> QED BY <1>1, <3>2, <3>3, <3>4, <3>6 DEF PopOK, RingOK
  <2>5. CASE ShellLoadCount
    BY <1>1, <1>2, <2>5 DEF ShellLoadCount, ShellStep, PopOK, PopRec, RingOK
  <2>6. CASE ShellStoreCount
    <3>1. pop.loaded - 1 \in 0 .. CAP /\ 0 \in 0 .. CAP
      BY <1>1, <1>2, <2>6, SizesAssumption DEF ShellStoreCount, ShellStep, PopOK, PopRec
    <3> QED BY <1>1, <1>2, <2>6, <3>1, TtyIndex DEF ShellStoreCount, ShellStep, PopOK, PopRec, RingOK, NoPop
  <2> QED BY <2>1, <2>2, <2>3, <2>4, <2>5, <2>6 DEF ShellPop
<1>4. WireOK'
  BY <1>1 DEF WireOK, keyboard
<1>5. pop'.tty \in Ttys /\ pop'.loaded \in 0 .. CAP
  BY <1>3 DEF PopOK, PopRec
<1>6. KeyboardTypeOK'
  BY <1>1, <1>3, <1>5 DEF KeyboardTypeOK, modifiers
<1> QED BY <1>3, <1>4, <1>6 DEF KbdTypeInv

LEMMA KbdTypeStep == KbdTypeInv /\ [Next]_vars => KbdTypeInv'
<1> SUFFICES ASSUME KbdTypeInv, [Next]_vars PROVE KbdTypeInv'
  OBVIOUS
<1>1. CASE MaskedNext
  BY <1>1, KeysType, ScancodeType, ProgramsType DEF MaskedNext
<1>2. CASE ShellPop
  BY <1>2, PopType
<1>3. CASE UNCHANGED vars
  <2>1. UNCHANGED <<ring, modifiers, e0_prefix, force_stop_latch, active, running, pop, keyboard>>
    BY <1>3 DEF vars
  <2>2. UNCHANGED <<queue, head, tail, count, alt_down, lshift_down, rshift_down, lctrl_down, rctrl_down, wire>>
    BY <2>1 DEF ring, modifiers, keyboard
  <2> QED BY <2>1, <2>2 DEF KbdTypeInv, KeyboardTypeOK, PopOK, WireOK
<1> QED BY <1>1, <1>2, <1>3 DEF Next

\* Whatever the size of the rings, no index of the keyboard driver leaves its ring and no
\* count exceeds it, though an interrupt may come between any two steps of the kernel
\* shell's clks_keyboard_pop_char.
THEOREM KeyboardTypes == Spec => []KeyboardTypeOK
<1>1. KbdTypeInv => KeyboardTypeOK
  BY DEF KbdTypeInv
<1> QED BY <1>1, KbdTypeInit, KbdTypeStep, PTL DEF Spec

-----------------------------------------------------------------------------
(***************************************************************************)
(* The keys.  The prefix does not survive the right Ctrl key, but it does  *)
(* survive a Shift code, which some keyboards send prefixed around other   *)
(* keys; and letting the key with code E0 2E go (volume down) is taken for *)
(* letting C go.  What follows is about keyboards without those codes.     *)
(***************************************************************************)
OrdinaryKeys == {EXT_KEY + SC_LSHIFT, EXT_KEY + SC_RSHIFT, EXT_KEY + SC_C} \cap Keys = {}

Alts == {SC_ALT, EXT_KEY + SC_ALT}
Ctrls == {SC_CTRL, EXT_KEY + SC_CTRL}

\* The flags of all modifiers but k, whose code is on its way.
TracksBut(k) ==
    /\ k = SC_CTRL \/ (lctrl_down <=> SC_CTRL \in down)
    /\ k = EXT_KEY + SC_CTRL \/ (rctrl_down <=> EXT_KEY + SC_CTRL \in down)
    /\ k = SC_LSHIFT \/ (lshift_down <=> SC_LSHIFT \in down)
    /\ k = SC_RSHIFT \/ (rshift_down <=> SC_RSHIFT \in down)

\* One flag stands for both Alt keys: it is set only while one is down.
AltHeld == alt_down => Alts \cap down # {}
ChordHeld == force_stop_latch => SC_C \in down /\ Ctrls \cap down # {} /\ Alts \cap down # {}
StopsLatched == held_stops \in {0, 1} /\ (held_stops = 1 => force_stop_latch)

AtRest == wire = <<>> /\ ~e0_prefix /\ TracksBut(0) /\ AltHeld /\ ChordHeld

OnTheWay(k, r) ==
    \/ wire = bytes_of(k, r) /\ ~e0_prefix
    \/ k >= EXT_KEY /\ wire = <<last(k, r)>> /\ e0_prefix

\* The code of a key that has gone down, or up, is on its way.
Moving(k, r) ==
    /\ OnTheWay(k, r)
    /\ k \in down <=> ~r
    /\ TracksBut(k)
    /\ (r /\ k \in Alts) \/ AltHeld
    /\ (r /\ k \in ChordKeys) \/ ChordHeld
    /\ r /\ k \in ChordKeys => held_stops = 0

KeyInv == StopsLatched /\ (AtRest \/ \E k \in Keys, r \in BOOLEAN : Moving(k, r))

LEMMA KeyInit == Init => KeyInv
  BY DEF Init, KeyInv, StopsLatched, AtRest, TracksBut, AltHeld, ChordHeld

LEMMA KeyPressed == ASSUME KeyInv, NEW k \in Keys, Press(k) PROVE KeyInv'
<1>1. AtRest /\ StopsLatched
  <2>1. wire = <<>>
    BY DEF Press
  <2>2. \A i \in Keys, r \in BOOLEAN : ~OnTheWay(i, r)
    BY <2>1, Bytes DEF OnTheWay
  <2> QED BY <2>2 DEF KeyInv, Moving
<1>2. /\ down' = down \cup {k} /\ wire' = bytes_of(k, FALSE)
      /\ UNCHANGED <<modifiers, e0_prefix, force_stop_latch, held_stops>>
  BY DEF Press
<1>3. OnTheWay(k, FALSE)' /\ StopsLatched'
  BY <1>1, <1>2 DEF OnTheWay, AtRest, StopsLatched
<1>4. TracksBut(k)'
  BY <1>1, <1>2 DEF AtRest, TracksBut, modifiers, SC_CTRL, SC_LSHIFT, SC_RSHIFT, EXT_KEY
<1>5. AltHeld' /\ ChordHeld'
  BY <1>1, <1>2 DEF AtRest, AltHeld, ChordHeld, modifiers
<1>6. Moving(k, FALSE)'
  BY <1>2, <1>3, <1>4, <1>5 DEF Moving
<1> QED BY <1>3, <1>6 DEF KeyInv

LEMMA KeyReleased == ASSUME KeyInv, NEW k \in Keys, Release(k) PROVE KeyInv'
<1>1. AtRest /\ StopsLatched
  <2>1. wire = <<>>
    BY DEF Release
  <2>2. \A i \in Keys, r \in BOOLEAN : ~OnTheWay(i, r)
    BY <2>1, Bytes DEF OnTheWay
  <2> QED BY <2>2 DEF KeyInv, Moving
<1>2. /\ down' = down \ {k} /\ wire' = bytes_of(k, TRUE)
      /\ UNCHANGED <<modifiers, e0_prefix, force_stop_latch>>
      /\ held_stops' = IF k \in ChordKeys THEN 0 ELSE held_stops
  BY DEF Release
<1>3. OnTheWay(k, TRUE)' /\ StopsLatched'
  BY <1>1, <1>2 DEF OnTheWay, AtRest, StopsLatched
<1>4. TracksBut(k)'
  BY <1>1, <1>2 DEF AtRest, TracksBut, modifiers, SC_CTRL, SC_LSHIFT, SC_RSHIFT, EXT_KEY
<1>5. k \in Alts \/ AltHeld'
  BY <1>1, <1>2 DEF AtRest, AltHeld, modifiers
<1>6. k \in ChordKeys \/ ChordHeld'
  BY <1>1, <1>2 DEF AtRest, ChordHeld, ChordKeys, Alts, Ctrls
<1>7. Moving(k, TRUE)'
  BY <1>2, <1>3, <1>4, <1>5, <1>6 DEF Moving
<1> QED BY <1>3, <1>7 DEF KeyInv

LEMMA KeyHandled == ASSUME KeyInv, OrdinaryKeys, HandleScancode PROVE KeyInv'
<1>1. wire # <<>>
  BY DEF HandleScancode, ScPrefix, ScCtrl, ScAlt, ScShift, ScRelease, ScExt, ScTtySwitch, ScForceStop,
         ScCtrlShortcut, ScChar, OtherCode, PlainMake, ReadCode
<1>2. PICK k \in Keys, r \in BOOLEAN : Moving(k, r)
  BY <1>1 DEF KeyInv, AtRest
<1>3. StopsLatched
  BY DEF KeyInv
<1>4. last(k, r) # EXT_PREFIX /\ last(k, r) \in Nat /\ EXT_PREFIX \in Nat
  BY KeyCodes DEF EXT_PREFIX
<1>5. \/ wire = <<EXT_PREFIX, last(k, r)>> /\ k >= EXT_KEY /\ ~e0_prefix
      \/ wire = <<last(k, r)>> /\ (e0_prefix <=> k >= EXT_KEY)
  BY <1>2, Bytes DEF Moving, OnTheWay
<1>6. CASE ScPrefix
  <2>1. Head(wire) = EXT_PREFIX /\ wire' = Tail(wire) /\ e0_prefix' = TRUE
        /\ UNCHANGED <<modifiers, force_stop_latch, down, held_stops>>
    BY <1>6 DEF ScPrefix
  <2>2. wire = <<EXT_PREFIX, last(k, r)>> /\ k >= EXT_KEY
    BY <1>4, <1>5, <2>1
  <2>3. wire' = <<last(k, r)>>
    BY <1>4, <2>1, <2>2, TailOfPair
  <2>4. Moving(k, r)'
    BY <1>2, <2>1, <2>2, <2>3 DEF Moving, OnTheWay, TracksBut, AltHeld, ChordHeld, modifiers
  <2> QED BY <1>3, <2>1, <2>4 DEF KeyInv, StopsLatched
<1>7. CASE ~ScPrefix
  <2>1. ReadCode
    BY <1>7 DEF HandleScancode, ScCtrl, ScAlt, ScShift, ScRelease, ScExt, ScTtySwitch, ScForceStop,
                ScCtrlShortcut, ScChar, OtherCode, PlainMake
  <2>2. Head(wire) # EXT_PREFIX /\ wire' = Tail(wire) /\ down' = down
    BY <2>1 DEF ReadCode
  <2>3. wire = <<last(k, r)>> /\ (e0_prefix <=> k >= EXT_KEY) /\ wire' = <<>>
    BY <1>5, <2>2
  <2>4. code = k % 128 /\ (released <=> r)
    BY <2>3, KeyCodes DEF code, released
  <2>5. /\ code \in 1 .. 95
        /\ e0_prefix => k = EXT_KEY + code
        /\ ~e0_prefix => k = code
    BY <2>3, <2>4, KeyCodes
  <2>6. /\ k \in down <=> ~released
        /\ TracksBut(k)
        /\ (released /\ k \in Alts) \/ AltHeld
        /\ (released /\ k \in ChordKeys) \/ ChordHeld
        /\ released /\ k \in ChordKeys => held_stops = 0
    BY <1>2, <2>4 DEF Moving
  <2> USE DEF SC_CTRL, SC_ALT, SC_LSHIFT, SC_RSHIFT, SC_C, EXT_KEY
  <2>7. CASE ScCtrl
    <3>1. code = 29 /\ UNCHANGED <<alt_down, lshift_down, rshift_down, held_stops>>
      BY <2>7 DEF ScCtrl
    <3>2. /\ e0_prefix => (rctrl_down' <=> ~released) /\ lctrl_down' = lctrl_down
          /\ ~e0_prefix => (lctrl_down' <=> ~released) /\ rctrl_down' = rctrl_down
          /\ ~e0_prefix'
      <4>1. CASE e0_prefix /\ rctrl_down' = ~released /\ e0_prefix' = FALSE /\ lctrl_down' = lctrl_down
        BY <4>1, Zenon
      <4>2. CASE ~e0_prefix /\ lctrl_down' = ~released /\ rctrl_down' = rctrl_down /\ e0_prefix' = e0_prefix
        BY <4>2, Zenon
      <4> QED BY <2>7, <4>1, <4>2 DEF ScCtrl
    <3>3. force_stop_latch' <=> force_stop_latch /\ ~released
      BY <2>7 DEF ScCtrl
    <3>4. TracksBut(0)'
      BY <2>2, <2>5, <2>6, <3>1, <3>2 DEF TracksBut
    <3>5. k \in ChordKeys /\ k \notin Alts
      BY <2>5, <3>1 DEF ChordKeys, Alts
    <3>6. AltHeld' /\ ChordHeld' /\ StopsLatched'
      BY <1>3, <2>2, <2>6, <3>1, <3>3, <3>5 DEF AltHeld, ChordHeld, StopsLatched
    <3> QED BY <2>3, <3>2, <3>4, <3>6 DEF KeyInv, AtRest
  <2>8. CASE ScAlt
    <3>1. code = 56 /\ UNCHANGED <<lshift_down, rshift_down, lctrl_down, rctrl_down, held_stops>> /\ ~e0_prefix'
      BY <2>8 DEF ScAlt
    <3>2. (alt_down' <=> ~released) /\ (force_stop_latch' <=> force_stop_latch /\ ~released)
      BY <2>8 DEF ScAlt
    <3>3. k \in Alts /\ k \in ChordKeys /\ k \notin {29, 57344 + 29, 42, 54}
      BY <2>5, <3>1 DEF ChordKeys, Alts
    <3>4. TracksBut(0)'
      BY <2>2, <2>6, <3>1, <3>3 DEF TracksBut
    <3>5. AltHeld'
      BY <2>2, <2>6, <3>2, <3>3 DEF AltHeld
    <3>6. ChordHeld' /\ StopsLatched'
      BY <1>3, <2>2, <2>6, <3>1, <3>2, <3>3 DEF ChordHeld, StopsLatched
    <3> QED BY <2>3, <3>1, <3>4, <3>5, <3>6 DEF KeyInv, AtRest
  <2>9. CASE ScShift
    <3>1. code \in {42, 54} /\ UNCHANGED <<alt_down, lctrl_down, rctrl_down, e0_prefix, force_stop_latch, held_stops>>
      BY <2>9 DEF ScShift
    <3>2. ~e0_prefix /\ k = code
      BY <2>5, <3>1 DEF OrdinaryKeys
    <3>3. /\ code = 42 => (lshift_down' <=> ~released) /\ rshift_down' = rshift_down
          /\ code = 54 => (rshift_down' <=> ~released) /\ lshift_down' = lshift_down
      <4>1. CASE code = 42
        <5>1. lshift_down' = ~released /\ rshift_down' = rshift_down /\ code # 54
          BY <2>9, <4>1 DEF ScShift
        <5> QED BY <4>1, <5>1, Zenon
      <4>2. CASE code = 54
        <5>1. rshift_down' = ~released /\ lshift_down' = lshift_down /\ code # 42
          BY <2>9, <4>2 DEF ScShift
        <5> QED BY <4>2, <5>1, Zenon
      <4> QED BY <3>1, <4>1, <4>2
    <3>4. k \notin Alts /\ k \notin ChordKeys
      BY <3>1, <3>2 DEF Alts, ChordKeys
    <3>5. TracksBut(0)'
      BY <2>2, <2>6, <3>1, <3>2, <3>3 DEF TracksBut
    <3>6. AltHeld' /\ ChordHeld' /\ StopsLatched'
      BY <1>3, <2>2, <2>6, <3>1, <3>4 DEF AltHeld, ChordHeld, StopsLatched
    <3> QED BY <2>3, <3>1, <3>2, <3>5, <3>6 DEF KeyInv, AtRest
  <2>10. CASE ScRelease
    <3>1. released /\ code \notin {29, 56, 42, 54} /\ ~e0_prefix' /\ UNCHANGED <<modifiers, held_stops>>
      BY <2>10 DEF ScRelease, OtherCode
    <3>2. force_stop_latch' <=> force_stop_latch /\ code # 46
      BY <2>10 DEF ScRelease
    <3>3. k \notin {29, 57344 + 29, 42, 54} /\ k \notin Alts /\ (k \in ChordKeys <=> code = 46)
      BY <2>5, <3>1 DEF Alts, ChordKeys, OrdinaryKeys
    <3>4. TracksBut(0)'
      BY <2>2, <2>6, <3>1, <3>3 DEF TracksBut, modifiers
    <3>5. AltHeld' /\ ChordHeld' /\ StopsLatched'
      BY <1>3, <2>2, <2>6, <3>1, <3>2, <3>3 DEF AltHeld, ChordHeld, StopsLatched, modifiers
    <3> QED BY <2>3, <3>1, <3>4, <3>5 DEF KeyInv, AtRest
  <2>11. CASE ScExt \/ ScTtySwitch \/ ScForceStop \/ ScCtrlShortcut \/ ScChar
    <3>1. ~released /\ code \notin {29, 56, 42, 54} /\ ~e0_prefix' /\ UNCHANGED modifiers
      BY <2>11 DEF ScExt, ScTtySwitch, ScForceStop, ScCtrlShortcut, ScChar, PlainMake, OtherCode
    <3>2. k \notin {29, 57344 + 29, 42, 54}
      BY <2>5, <3>1
    <3>3. TracksBut(0)' /\ AltHeld' /\ AltHeld
      BY <2>2, <2>6, <3>1, <3>2 DEF TracksBut, AltHeld, modifiers
    <3>4. ChordHeld' /\ StopsLatched'
      <4>1. CASE UNCHANGED <<force_stop_latch, held_stops>>
        BY <1>3, <2>2, <2>6, <3>1, <4>1 DEF ChordHeld, StopsLatched
      <4>2. CASE ~UNCHANGED <<force_stop_latch, held_stops>>
        <5>1. ScForceStop /\ is_force_stop_hotkey /\ ~e0_prefix
          BY <2>11, <4>2 DEF ScExt, ScTtySwitch, ScForceStop, ScCtrlShortcut, ScChar, PlainMake
        <5>2. ~force_stop_latch /\ force_stop_latch' = TRUE /\ held_stops' = held_stops + 1
          BY <4>2, <5>1 DEF ScForceStop
        <5>3. code = 46 /\ alt_down /\ (lctrl_down \/ rctrl_down)
          BY <5>1 DEF is_force_stop_hotkey, ctrl_active
        <5>4. 46 \in down /\ Ctrls \cap down # {} /\ Alts \cap down # {}
          BY <2>5, <2>6, <3>1, <3>3, <5>1, <5>3 DEF TracksBut, AltHeld, Ctrls
        <5> QED BY <1>3, <2>2, <5>2, <5>4 DEF ChordHeld, StopsLatched
      <4> QED BY <4>1, <4>2
    <3> QED BY <2>3, <3>1, <3>3, <3>4 DEF KeyInv, AtRest
  <2> QED BY <1>7, <2>7, <2>8, <2>9, <2>10, <2>11 DEF HandleScancode
<1> QED BY <1>6, <1>7

LEMMA KeyStep == KeyInv /\ OrdinaryKeys /\ [Next]_vars => KeyInv'
<1> SUFFICES ASSUME KeyInv, OrdinaryKeys, [Next]_vars PROVE KeyInv'
  OBVIOUS
<1>1. CASE \E k \in Keys : Press(k) \/ Release(k)
  BY <1>1, KeyPressed, KeyReleased
<1>2. CASE HandleScancode
  BY <1>2, KeyHandled
<1>3. CASE Programs \/ ShellPop \/ UNCHANGED vars
  <2>1. UNCHANGED <<modifiers, e0_prefix, force_stop_latch, keyboard, held_stops>>
    BY <1>3 DEF Programs, RunProgram, SysTtySwitch, SysRead, SysKbdGetChar, EndProgram, ShellPop, ShellTest,
                ShellReadCell, ShellLoadTail, ShellStoreTail, ShellLoadCount, ShellStoreCount, ShellStep, vars
  <2> QED BY <2>1 DEF KeyInv, StopsLatched, AtRest, Moving, OnTheWay, TracksBut, AltHeld, ChordHeld,
                      modifiers, keyboard
<1> QED BY <1>1, <1>2, <1>3 DEF Next, MaskedNext

\* For every keyboard without prefixed Shift codes the Ctrl and Shift flags say, when all
\* codes have been read, which of those keys are down: the prefix that tells the Ctrl keys
\* apart is neither lost nor left over.
THEOREM ModifiersTracked == ASSUME OrdinaryKeys PROVE Spec => []ModifiersTrackKeys
<1>1. KeyInv => ModifiersTrackKeys
  <2> SUFFICES ASSUME KeyInv, wire = <<>> PROVE AtRest
    BY DEF ModifiersTrackKeys, AtRest, TracksBut, SC_CTRL, SC_LSHIFT, SC_RSHIFT, EXT_KEY
  <2>1. \A i \in Keys, r \in BOOLEAN : ~OnTheWay(i, r)
    BY Bytes DEF OnTheWay
  <2> QED BY <2>1 DEF KeyInv, Moving
<1>2. KeyInv /\ [Next]_vars => KeyInv'
  BY KeyStep
<1> QED BY <1>1, <1>2, KeyInit, PTL DEF Spec

\* And Ctrl+Alt+C asks exec once to stop a program, however long it is held, and can be
\* used again as soon as one of its keys was let go.
THEOREM StopsOncePerHold == ASSUME OrdinaryKeys PROVE Spec => []StopLatch
<1>1. KeyInv => StopLatch
  <2> SUFFICES ASSUME KeyInv PROVE StopLatch
    OBVIOUS
  <2>1. OneStopPerHold
    BY DEF KeyInv, StopsLatched, OneStopPerHold
  <2>2. LatchMeansHeld
    <3> SUFFICES ASSUME wire = <<>> PROVE ChordHeld
      BY DEF LatchMeansHeld, ChordHeld, Alts, Ctrls
    <3>1. \A i \in Keys, r \in BOOLEAN : ~OnTheWay(i, r)
      BY Bytes DEF OnTheWay
    <3> QED BY <3>1 DEF KeyInv, Moving, AtRest
  <2> QED BY <2>1, <2>2 DEF StopLatch
<1>2. KeyInv /\ [Next]_vars => KeyInv'
  BY KeyStep
<1> QED BY <1>1, <1>2, KeyInit, PTL DEF Spec

-----------------------------------------------------------------------------
(***************************************************************************)
(* The rings as queues.  A place of a ring is told by its distance from    *)
(* the tail; the n characters from a place on are read as a sequence.      *)
(***************************************************************************)
LEMMA ModLow == ASSUME NEW n \in Nat \ {0}, NEW x \in 0 .. n - 1 PROVE x % n = x
  OBVIOUS

LEMMA ModHigh == ASSUME NEW n \in Nat \ {0}, NEW x \in n .. 2 * n - 1 PROVE x % n = x - n
  OBVIOUS

\* A distance of at most a turn, from a place of a ring.
LEMMA Around ==
    ASSUME NEW a \in 0 .. CAP - 1, NEW d \in 0 .. CAP
    PROVE  /\ (a + d) % CAP = (IF a + d < CAP THEN a + d ELSE a + d - CAP)
           /\ (a + d) % CAP \in 0 .. CAP - 1
<1>1. CAP \in Nat \ {0}
  BY SizesAssumption
<1>2. CASE a + d < CAP
  <2>1. a + d \in 0 .. CAP - 1
    BY <1>1, <1>2
  <2>2. (a + d) % CAP = a + d
    BY <1>1, <2>1, ModLow
  <2> QED BY <1>2, <2>1, <2>2
<1>3. CASE ~(a + d < CAP)
  <2>1. a + d \in CAP .. 2 * CAP - 1
    BY <1>1, <1>3
  <2>2. (a + d) % CAP = a + d - CAP
    BY <1>1, <2>1, ModHigh
  <2>3. a + d - CAP \in 0 .. CAP - 1
    BY <1>1, <2>1
  <2> QED BY <1>3, <2>2, <2>3
<1> QED BY <1>2, <1>3

\* Going on from a place that was reached goes as far as going all the way.
LEMMA AroundTwice ==
    ASSUME NEW a \in 0 .. CAP - 1, NEW d \in 0 .. CAP, NEW e \in 0 .. CAP, d + e <= CAP
    PROVE  (((a + d) % CAP) + e) % CAP = (a + (d + e)) % CAP
<1> DEFINE b == (a + d) % CAP
           c == (b + e) % CAP
           all == (a + (d + e)) % CAP
<1>1. b = (IF a + d < CAP THEN a + d ELSE a + d - CAP) /\ b \in 0 .. CAP - 1
  BY Around
<1>2. d + e \in 0 .. CAP
  BY SizesAssumption
<1>3. all = IF a + (d + e) < CAP THEN a + (d + e) ELSE a + (d + e) - CAP
  BY <1>2, Around
<1> HIDE DEF all, b
<1>4. c = IF b + e < CAP THEN b + e ELSE b + e - CAP
  BY <1>1, Around
<1> HIDE DEF c
<1>5. c = all
  BY <1>1, <1>3, <1>4, SizesAssumption
<1> QED BY <1>5 DEF all, b, c

\* The n characters of a ring from place l on.
span(f, l, n) == [i \in 1 .. n |-> f[(l + i - 1) % CAP]]

LEMMA AFunction ==
    ASSUME NEW S, NEW n \in Nat, NEW f \in [1 .. n -> S]
    PROVE  f \in Seq(S) /\ Len(f) = n
<1>1. f \in Seq(S)
  BY IsASeq
<1>2. DOMAIN f = 1 .. n
  OBVIOUS
<1> QED BY <1>1, <1>2, LenProperties

LEMMA SpanIsSeq ==
    ASSUME NEW S, NEW f \in [0 .. CAP - 1 -> S], NEW l \in 0 .. CAP - 1, NEW n \in 0 .. CAP
    PROVE  /\ span(f, l, n) \in Seq(S) /\ Len(span(f, l, n)) = n
           /\ \A i \in 1 .. n : /\ span(f, l, n)[i] = f[(l + (i - 1)) % CAP]
                                /\ (l + (i - 1)) % CAP \in 0 .. CAP - 1
<1> DEFINE s == span(f, l, n)
<1>1. \A i \in 1 .. n : (l + i) - 1 = l + (i - 1) /\ i - 1 \in 0 .. CAP
  BY SizesAssumption
<1>2. \A i \in 1 .. n : (l + (i - 1)) % CAP \in 0 .. CAP - 1
  BY <1>1, Around
<1>3. s = [i \in 1 .. n |-> f[(l + (i - 1)) % CAP]]
  BY <1>1 DEF span
<1>4. s \in [1 .. n -> S]
  BY <1>2, <1>3
<1> HIDE DEF s
<1>5. s \in Seq(S) /\ Len(s) = n
  <2>1. n \in Nat
    BY SizesAssumption
  <2> QED BY <1>4, <2>1, AFunction
<1>6. \A i \in 1 .. n : s[i] = f[(l + (i - 1)) % CAP]
  BY <1>3
<1> QED BY <1>2, <1>5, <1>6 DEF s

\* Writing behind the span appends to it.
Put(f, h, ch) == [f EXCEPT ![h] = ch]
LEMMA SpanPush ==
    ASSUME NEW S, NEW f \in [0 .. CAP - 1 -> S], NEW l \in 0 .. CAP - 1, NEW n \in 0 .. CAP - 1,
           NEW ch \in S
    PROVE  span(Put(f, (l + n) % CAP, ch), l, n + 1) = Append(span(f, l, n), ch)
<1> DEFINE h == (l + n) % CAP
           g == Put(f, h, ch)
           new == span(g, l, n + 1)
           old == span(f, l, n)
<1>1. n \in 0 .. CAP /\ n + 1 \in 0 .. CAP /\ n \in Nat
  BY SizesAssumption
<1>2. h \in 0 .. CAP - 1 /\ h = IF l + n < CAP THEN l + n ELSE l + n - CAP
  BY <1>1, Around
<1>3. \A i \in 1 .. n : (l + (i - 1)) % CAP # h
  <2> TAKE i \in 1 .. n
  <2>1. i - 1 \in 0 .. CAP /\ i - 1 < n
    BY <1>1, SizesAssumption
  <2> DEFINE p == (l + (i - 1)) % CAP
  <2>2. p = IF l + (i - 1) < CAP THEN l + (i - 1) ELSE l + (i - 1) - CAP
    BY <2>1, Around
  <2> HIDE DEF p, h
  <2>3. p # h
    BY <1>1, <1>2, <2>1, <2>2, SizesAssumption
  <2> QED BY <2>3 DEF p
<1> HIDE DEF h
<1>4. g[h] = ch /\ \A p \in 0 .. CAP - 1 : p # h => g[p] = f[p]
  BY <1>2 DEF Put
<1>5. g \in [0 .. CAP - 1 -> S]
  BY <1>2 DEF Put
<1> HIDE DEF g
<1>6. /\ new \in Seq(S) /\ Len(new) = n + 1
      /\ \A i \in 1 .. n + 1 : /\ new[i] = g[(l + (i - 1)) % CAP]
                               /\ (l + (i - 1)) % CAP \in 0 .. CAP - 1
  <2> DEFINE more == n + 1
  <2>1. more \in 0 .. CAP
    BY <1>1
  <2> HIDE DEF more
  <2>2. /\ span(g, l, more) \in Seq(S) /\ Len(span(g, l, more)) = more
        /\ \A i \in 1 .. more : /\ span(g, l, more)[i] = g[(l + (i - 1)) % CAP]
                               /\ (l + (i - 1)) % CAP \in 0 .. CAP - 1
    BY <1>5, <2>1, SpanIsSeq
  <2> QED BY <2>2 DEF more
<1>7. /\ old \in Seq(S) /\ Len(old) = n
      /\ \A i \in 1 .. n : /\ old[i] = f[(l + (i - 1)) % CAP]
                           /\ (l + (i - 1)) % CAP \in 0 .. CAP - 1
  BY <1>1, SpanIsSeq
<1> HIDE DEF new, old
<1>8. \A i \in 1 .. n : new[i] = old[i]
  <2> TAKE i \in 1 .. n
  <2> DEFINE p == (l + (i - 1)) % CAP
  <2>1. i \in 1 .. n + 1
    BY <1>1
  <2>2. p \in 0 .. CAP - 1 /\ p # h /\ new[i] = g[p] /\ old[i] = f[p]
    BY <1>3, <1>6, <1>7, <2>1
  <2> HIDE DEF p
  <2> QED BY <1>4, <2>2
<1>9. new[n + 1] = ch
  <2>1. n + 1 \in 1 .. n + 1 /\ (n + 1) - 1 = n
    BY <1>1
  <2>2. new[n + 1] = g[(l + n) % CAP]
    BY <1>6, <2>1
  <2> QED BY <1>4, <2>2 DEF h
<1>10. /\ Append(old, ch) \in Seq(S) /\ Len(Append(old, ch)) = n + 1
      /\ \A i \in 1 .. n : Append(old, ch)[i] = old[i]
      /\ Append(old, ch)[n + 1] = ch
  BY <1>7, AppendProperties
<1>11. \A i \in 1 .. n + 1 : i \in 1 .. n \/ i = n + 1
  BY <1>1
<1>12. \A i \in 1 .. Len(new) : new[i] = Append(old, ch)[i]
  BY <1>6, <1>8, <1>9, <1>10, <1>11
<1>13. new = Append(old, ch)
  BY <1>6, <1>10, <1>12, SeqEqual
<1> QED BY <1>13 DEF new, old, g, h

\* Moving the start over k characters takes the k first ones off it.
LEMMA SpanTake ==
    ASSUME NEW S, NEW f \in [0 .. CAP - 1 -> S], NEW l \in 0 .. CAP - 1, NEW n \in 0 .. CAP,
           NEW k \in 0 .. n
    PROVE  span(f, (l + k) % CAP, n - k) = SubSeq(span(f, l, n), k + 1, n)
<1> DEFINE m == (l + k) % CAP
           new == span(f, m, n - k)
           old == span(f, l, n)
           sub == SubSeq(old, k + 1, n)
<1>1. k \in 0 .. CAP /\ n - k \in 0 .. CAP /\ k + 1 \in 1 .. n + 1 /\ n \in Nat /\ k \in Nat
  BY SizesAssumption
<1>2. m \in 0 .. CAP - 1
  BY <1>1, Around
<1>3. \A i \in 1 .. n - k : (m + (i - 1)) % CAP = (l + ((i + k) - 1)) % CAP
  <2> TAKE i \in 1 .. n - k
  <2>1. i - 1 \in 0 .. CAP /\ k + (i - 1) <= CAP /\ k + (i - 1) = (i + k) - 1
    BY <1>1, SizesAssumption
  <2> QED BY <1>1, <2>1, AroundTwice
<1> HIDE DEF m
<1>4. /\ new \in Seq(S) /\ Len(new) = n - k
      /\ \A i \in 1 .. n - k : /\ new[i] = f[(m + (i - 1)) % CAP]
                               /\ (m + (i - 1)) % CAP \in 0 .. CAP - 1
  BY <1>1, <1>2, SpanIsSeq
<1>5. /\ old \in Seq(S) /\ Len(old) = n
      /\ \A i \in 1 .. n : /\ old[i] = f[(l + (i - 1)) % CAP]
                           /\ (l + (i - 1)) % CAP \in 0 .. CAP - 1
  BY <1>1, SpanIsSeq
<1> HIDE DEF new, old
<1>6. /\ sub \in Seq(S) /\ Len(sub) = n - k
      /\ \A i \in 1 .. n - k : sub[i] = old[i + k]
  <2>1. CASE k < n
    <3>1. k + 1 \in 1 .. n /\ n \in k + 1 .. Len(old) /\ k + 1 \in 1 .. Len(old)
      BY <1>1, <1>5, <2>1
    <3>2. /\ sub \in Seq(S) /\ Len(sub) = n - (k + 1) + 1
          /\ \A i \in 1 .. n - (k + 1) + 1 : sub[i] = old[(k + 1) + i - 1]
      BY <1>5, <3>1, SubSeqProperties
    <3>3. n - (k + 1) + 1 = n - k /\ \A i \in 1 .. n - k : (k + 1) + i - 1 = i + k
      BY <1>1
    <3> HIDE DEF sub
    <3> QED BY <3>2, <3>3
  <2>2. CASE k = n
    <3>1. sub = << >>
      BY <1>1, <1>5, <2>2, SubSeqProperties
    <3>2. n - k = 0 /\ 1 .. n - k = {}
      BY <1>1, <2>2
    <3> HIDE DEF sub
    <3> QED BY <3>1, <3>2, EmptySeq
  <2> QED BY <1>1, <2>1, <2>2
<1> HIDE DEF sub
<1>7. \A i \in 1 .. n - k : new[i] = sub[i]
  <2> TAKE i \in 1 .. n - k
  <2>1. i + k \in 1 .. n
    BY <1>1
  <2> QED BY <1>3, <1>4, <1>5, <1>6, <2>1
<1>8. new = sub
  BY <1>4, <1>6, <1>7, SeqEqual
<1> QED BY <1>8 DEF new, old, sub, m

-----------------------------------------------------------------------------
\* With its reader masked, a ring's head is where its count says it is.
FifoInv == /\ KbdTypeInv
           /\ pop.pc = "idle"
           /\ \A t \in Ttys : head[t] = (tail[t] + count[t]) % CAP

\* The abstract queues, as FifoPerTty instantiates them.
queues == [t \in Ttys |-> buffered(t)]

LEMMA BufferedSpan == ASSUME NEW t PROVE buffered(t) = span(queue[t], tail[t], count[t])
  BY DEF buffered, span

LEMMA RingFacts ==
    ASSUME FifoInv, NEW t \in Ttys
    PROVE  /\ queue[t] \in [0 .. CAP - 1 -> Chars \cup {NoChar}]
           /\ head[t] = (tail[t] + count[t]) % CAP /\ head[t] \in 0 .. CAP - 1
           /\ tail[t] \in 0 .. CAP - 1 /\ count[t] \in 0 .. CAP
           /\ buffered(t) \in Seq(Chars \cup {NoChar}) /\ Len(buffered(t)) = count[t]
           /\ t \in DOMAIN queue /\ t \in DOMAIN head /\ t \in DOMAIN tail /\ t \in DOMAIN count
           /\ DOMAIN queues = Ttys /\ queues[t] = buffered(t)
<1>1. /\ queue[t] \in [0 .. CAP - 1 -> Chars \cup {NoChar}]
      /\ head[t] = (tail[t] + count[t]) % CAP /\ head[t] \in 0 .. CAP - 1
      /\ tail[t] \in 0 .. CAP - 1 /\ count[t] \in 0 .. CAP
      /\ t \in DOMAIN queue /\ t \in DOMAIN head /\ t \in DOMAIN tail /\ t \in DOMAIN count
  BY DEF FifoInv, KbdTypeInv, KeyboardTypeOK
<1>2. buffered(t) \in Seq(Chars \cup {NoChar}) /\ Len(buffered(t)) = count[t]
  <2>1. span(queue[t], tail[t], count[t]) \in Seq(Chars \cup {NoChar})
        /\ Len(span(queue[t], tail[t], count[t])) = count[t]
    <3> DEFINE f == queue[t]
               l == tail[t]
               n == count[t]
               S == Chars \cup {NoChar}
    <3>1. f \in [0 .. CAP - 1 -> S] /\ l \in 0 .. CAP - 1 /\ n \in 0 .. CAP
      BY <1>1
    <3> HIDE DEF f, l, n, S
    <3>2. span(f, l, n) \in Seq(S) /\ Len(span(f, l, n)) = n
      BY <3>1, SpanIsSeq
    <3> QED BY <3>2 DEF f, l, n, S
  <2> QED BY <2>1, BufferedSpan
<1>3. DOMAIN queues = Ttys /\ queues[t] = buffered(t)
  BY DEF queues
<1> QED BY <1>1, <1>2, <1>3

\* When one terminal's ring changes, so does its queue and no other.
LEMMA OneQueueChanges ==
    ASSUME NEW t \in Ttys, NEW s, buffered(t)' = s,
           \A u \in Ttys \ {t} : queue'[u] = queue[u] /\ tail'[u] = tail[u] /\ count'[u] = count[u]
    PROVE  queues' = [queues EXCEPT ![t] = s]
<1>1. \A u \in Ttys \ {t} : buffered(u)' = buffered(u)
  BY DEF buffered
<1>2. queues' = [u \in Ttys |-> buffered(u)']
  BY DEF queues
<1>3. queues = [u \in Ttys |-> buffered(u)]
  BY DEF queues
<1> QED BY <1>1, <1>2, <1>3

\* A push puts the character behind what its terminal's queue holds.
LEMMA PushAppends ==
    ASSUME FifoInv, NEW t \in Ttys, NEW ch \in Chars, queue_push(t, ch), count[t] < CAP
    PROVE  /\ queues' = [queues EXCEPT ![t] = Append(queues[t], ch)]
           /\ \A u \in Ttys : head'[u] = (tail'[u] + count'[u]) % CAP
<1>1. /\ queue[t] \in [0 .. CAP - 1 -> Chars \cup {NoChar}]
      /\ head[t] = (tail[t] + count[t]) % CAP /\ head[t] \in 0 .. CAP - 1
      /\ tail[t] \in 0 .. CAP - 1 /\ count[t] \in 0 .. CAP - 1
      /\ t \in DOMAIN queue /\ t \in DOMAIN head /\ t \in DOMAIN count
      /\ queues[t] = buffered(t)
  BY RingFacts, SizesAssumption
<1>2. /\ queue' = [queue EXCEPT ![t][head[t]] = ch] /\ head' = [head EXCEPT ![t] = (@ + 1) % CAP]
      /\ count' = [count EXCEPT ![t] = @ + 1] /\ tail' = tail
  BY DEF queue_push
<1>3. /\ queue'[t] = [queue[t] EXCEPT ![(tail[t] + count[t]) % CAP] = ch]
      /\ head'[t] = (head[t] + 1) % CAP /\ count'[t] = count[t] + 1 /\ tail'[t] = tail[t]
  BY <1>1, <1>2
<1>4. buffered(t)' = Append(buffered(t), ch)
  <2>1. buffered(t)' = span(queue'[t], tail'[t], count'[t])
    BY BufferedSpan DEF buffered, span
  <2>2. ch \in Chars \cup {NoChar}
    OBVIOUS
  <2>3. span(queue'[t], tail'[t], count'[t]) = Append(span(queue[t], tail[t], count[t]), ch)
    <3> DEFINE f == queue[t]
               l == tail[t]
               n == count[t]
               S == Chars \cup {NoChar}
    <3>1. f \in [0 .. CAP - 1 -> S] /\ l \in 0 .. CAP - 1 /\ n \in 0 .. CAP - 1 /\ ch \in S
      BY <1>1, <2>2
    <3> HIDE DEF f, l, n, S
    <3>2. span(Put(f, (l + n) % CAP, ch), l, n + 1) = Append(span(f, l, n), ch)
      BY <3>1, SpanPush
    <3> QED BY <1>3, <3>2 DEF f, l, n, Put
  <2> QED BY <2>1, <2>3, BufferedSpan
<1>5. \A u \in Ttys \ {t} : /\ queue'[u] = queue[u] /\ tail'[u] = tail[u]
                            /\ count'[u] = count[u] /\ head'[u] = head[u]
  BY <1>2 DEF FifoInv, KbdTypeInv, KeyboardTypeOK
<1>6. head'[t] = (tail'[t] + count'[t]) % CAP
  <2>1. count[t] \in 0 .. CAP /\ 1 \in 0 .. CAP /\ count[t] + 1 <= CAP
    BY <1>1, SizesAssumption
  <2>2. (((tail[t] + count[t]) % CAP) + 1) % CAP = (tail[t] + (count[t] + 1)) % CAP
    BY <1>1, <2>1, AroundTwice
  <2> QED BY <1>1, <1>3, <2>2
<1>7. \A u \in Ttys : head'[u] = (tail'[u] + count'[u]) % CAP
  BY <1>5, <1>6 DEF FifoInv
<1>8. queues' = [queues EXCEPT ![t] = Append(buffered(t), ch)]
  BY <1>4, <1>5, OneQueueChanges
<1> QED BY <1>1, <1>7, <1>8

\* A push with the kernel shell's pop in the same interrupt.
LEMMA PumpAppendsAndTakes ==
    ASSUME FifoInv, NEW t \in Ttys, NEW ch \in Chars, queue_push_and_pump(t, ch), count[t] < CAP
    PROVE  /\ queues' = [queues EXCEPT ![t] = Tail(Append(queues[t], ch))]
           /\ \A u \in Ttys : head'[u] = (tail'[u] + count'[u]) % CAP
<1> DEFINE l == tail[t]
           n == count[t]
           g == [queue[t] EXCEPT ![(l + n) % CAP] = ch]
<1>1. /\ queue[t] \in [0 .. CAP - 1 -> Chars \cup {NoChar}]
      /\ head[t] = (l + n) % CAP /\ head[t] \in 0 .. CAP - 1
      /\ l \in 0 .. CAP - 1 /\ n \in 0 .. CAP - 1
      /\ t \in DOMAIN queue /\ t \in DOMAIN head /\ t \in DOMAIN tail
      /\ buffered(t) \in Seq(Chars \cup {NoChar}) /\ Len(buffered(t)) = n
      /\ queues[t] = buffered(t)
  BY RingFacts, SizesAssumption
<1>2. /\ queue' = [queue EXCEPT ![t][head[t]] = ch] /\ head' = [head EXCEPT ![t] = (@ + 1) % CAP]
      /\ tail' = [tail EXCEPT ![t] = (@ + 1) % CAP] /\ count' = count
  BY DEF queue_push_and_pump
<1>3. /\ queue'[t] = g /\ head'[t] = (head[t] + 1) % CAP
      /\ tail'[t] = (l + 1) % CAP /\ count'[t] = n
  BY <1>1, <1>2
<1>4. buffered(t)' = Tail(Append(buffered(t), ch))
  <2>1. buffered(t)' = span(g, (l + 1) % CAP, n)
    BY <1>3 DEF buffered, span
  <2>2. ch \in Chars \cup {NoChar} /\ n + 1 \in 0 .. CAP /\ 1 \in 0 .. n + 1 /\ (n + 1) - 1 = n
    BY <1>1, SizesAssumption
  <2>3. span(g, l, n + 1) = Append(buffered(t), ch)
    <3> DEFINE f == queue[t]
               S == Chars \cup {NoChar}
    <3>1. f \in [0 .. CAP - 1 -> S] /\ l \in 0 .. CAP - 1 /\ n \in 0 .. CAP - 1 /\ ch \in S
      BY <1>1, <2>2
    <3>2. buffered(t) = span(f, l, n) /\ g = Put(f, (l + n) % CAP, ch)
      BY BufferedSpan DEF Put
    <3> HIDE DEF f, l, n, S, g
    <3>3. span(Put(f, (l + n) % CAP, ch), l, n + 1) = Append(span(f, l, n), ch)
      BY <3>1, SpanPush
    <3> QED BY <3>2, <3>3
  <2>4. g \in [0 .. CAP - 1 -> Chars \cup {NoChar}]
    BY <1>1, <2>2
  <2> DEFINE more == n + 1
             long == Append(buffered(t), ch)
  <2>5. Len(long) = more /\ long \in Seq(Chars \cup {NoChar}) /\ long # << >>
    BY <1>1, <2>2, AppendProperties
  <2>6. span(g, (l + 1) % CAP, more - 1) = SubSeq(span(g, l, more), 1 + 1, more)
    <3>1. more \in 0 .. CAP /\ 1 \in 0 .. more
      BY <2>2
    <3> HIDE DEF more, g, l
    <3> QED BY <1>1, <2>4, <3>1, SpanTake
  <2>7. Tail(long) = SubSeq(long, 2, Len(long))
    <3> HIDE DEF long
    <3> QED BY <2>5, TailIsSubSeq
  <2>8. more - 1 = n /\ 1 + 1 = 2
    BY <2>2
  <2> HIDE DEF long, g, l
  <2>9. span(g, (l + 1) % CAP, n) = SubSeq(long, 2, more)
    BY <2>3, <2>6, <2>8 DEF long
  <2> QED BY <2>1, <2>5, <2>7, <2>9 DEF long
<1>5. \A u \in Ttys \ {t} : /\ queue'[u] = queue[u] /\ tail'[u] = tail[u]
                            /\ count'[u] = count[u] /\ head'[u] = head[u]
  BY <1>2 DEF FifoInv, KbdTypeInv, KeyboardTypeOK
<1>6. head'[t] = (tail'[t] + count'[t]) % CAP
  <2>1. n \in 0 .. CAP /\ 1 \in 0 .. CAP /\ n + 1 <= CAP /\ 1 + n = n + 1
    BY <1>1, SizesAssumption
  <2>2. (((l + n) % CAP) + 1) % CAP = (l + (n + 1)) % CAP
    BY <1>1, <2>1, AroundTwice
  <2>3. (((l + 1) % CAP) + n) % CAP = (l + (1 + n)) % CAP
    BY <1>1, <2>1, AroundTwice
  <2> QED BY <1>1, <1>3, <2>1, <2>2, <2>3
<1>7. \A u \in Ttys : head'[u] = (tail'[u] + count'[u]) % CAP
  BY <1>5, <1>6 DEF FifoInv
<1>8. queues' = [queues EXCEPT ![t] = Tail(Append(buffered(t), ch))]
  BY <1>4, <1>5, OneQueueChanges
<1> QED BY <1>1, <1>7, <1>8

\* n pops take the n oldest characters off a queue.
LEMMA PopTakes ==
    ASSUME FifoInv, NEW t \in Ttys, NEW n \in 1 .. CAP, n <= count[t],
           pop_chars_for_tty(t, n)
    PROVE  /\ queues' = [queues EXCEPT ![t] = SubSeq(queues[t], n + 1, Len(queues[t]))]
           /\ \A u \in Ttys : head'[u] = (tail'[u] + count'[u]) % CAP
<1> DEFINE l == tail[t]
           c == count[t]
<1>1. /\ queue[t] \in [0 .. CAP - 1 -> Chars \cup {NoChar}]
      /\ head[t] = (l + c) % CAP
      /\ l \in 0 .. CAP - 1 /\ c \in 0 .. CAP /\ n \in 0 .. c
      /\ t \in DOMAIN tail /\ t \in DOMAIN count
      /\ Len(buffered(t)) = c /\ queues[t] = buffered(t)
  BY RingFacts, SizesAssumption
<1>2. /\ tail' = [tail EXCEPT ![t] = (@ + n) % CAP] /\ count' = [count EXCEPT ![t] = @ - n]
      /\ queue' = queue /\ head' = head
  BY TtyIndex DEF pop_chars_for_tty
<1>3. tail'[t] = (l + n) % CAP /\ count'[t] = c - n
  BY <1>1, <1>2
<1>4. buffered(t)' = SubSeq(buffered(t), n + 1, c)
  <2>1. buffered(t)' = span(queue[t], (l + n) % CAP, c - n)
    BY <1>2, <1>3 DEF buffered, span
  <2>2. span(queue[t], (l + n) % CAP, c - n) = SubSeq(span(queue[t], l, c), n + 1, c)
    BY <1>1, SpanTake
  <2> QED BY <2>1, <2>2, BufferedSpan
<1>5. \A u \in Ttys \ {t} : /\ queue'[u] = queue[u] /\ tail'[u] = tail[u]
                            /\ count'[u] = count[u] /\ head'[u] = head[u]
  BY <1>2 DEF FifoInv, KbdTypeInv, KeyboardTypeOK
<1>6. head'[t] = (tail'[t] + count'[t]) % CAP
  <2>1. n \in 0 .. CAP /\ c - n \in 0 .. CAP /\ n + (c - n) = c /\ n + (c - n) <= CAP
    BY <1>1, SizesAssumption
  <2> DEFINE rest == c - n
  <2> HIDE DEF rest, l
  <2>2. (((l + n) % CAP) + rest) % CAP = (l + (n + rest)) % CAP
    BY <1>1, <2>1, AroundTwice DEF rest
  <2> QED BY <1>1, <1>2, <1>3, <2>1, <2>2 DEF rest
<1>7. \A u \in Ttys : head'[u] = (tail'[u] + count'[u]) % CAP
  BY <1>5, <1>6 DEF FifoInv
<1>8. queues' = [queues EXCEPT ![t] = SubSeq(buffered(t), n + 1, c)]
  BY <1>4, <1>5, OneQueueChanges
<1> QED BY <1>1, <1>7, <1>8

-----------------------------------------------------------------------------
\* What a step does to the rings and to the variables the queues are about.
Quiet == UNCHANGED ring /\ active' = active /\ running' = running
Typed(ch) == queue_push_for_tty(active, ch) /\ active' = active /\ running' = running
Read(n) == /\ running # NoProgram /\ n <= count[running] /\ pop_chars_for_tty(running, n)
           /\ active' = active /\ running' = running
Switched(t) == UNCHANGED ring /\ active' = t /\ running' = running
Started(t) == running = NoProgram /\ UNCHANGED ring /\ active' = active /\ running' = t
Stopped == UNCHANGED ring /\ active' = active /\ running' = NoProgram

LEMMA ScancodeEffects ==
    ASSUME FifoInv, HandleScancode
    PROVE  /\ pop' = pop
           /\ Quiet \/ Stopped \/ (\E t \in Ttys : Switched(t)) \/ (\E ch \in Chars : Typed(ch))
<1>1. WireOK /\ active \in Ttys
  BY DEF FifoInv, KbdTypeInv, KeyboardTypeOK
<1>2. CASE ScPrefix
  BY <1>2 DEF ScPrefix, Quiet
<1>3. CASE ~ScPrefix
  <2>1. ReadCode
    BY <1>3 DEF HandleScancode, ScCtrl, ScAlt, ScShift, ScRelease, ScExt, ScTtySwitch, ScForceStop,
                ScCtrlShortcut, ScChar, OtherCode, PlainMake
  <2>2. PICK k \in Keys : code = k % 128
    BY <1>1, <2>1, ReadByte
  <2>3. pop' = pop
    BY <2>1 DEF ReadCode
  <2>4. CASE ScExt
    <3>1. UNCHANGED ring \/ (translate_ext_scancode(code) # NoChar /\ queue_push_for_tty(active, translate_ext_scancode(code)))
      BY <2>4 DEF ScExt
    <3>2. active' = active /\ running' = running
      BY <2>4 DEF ScExt
    <3> QED BY <2>2, <2>3, <3>1, <3>2, CodeChars DEF Quiet, Typed
  <2>5. CASE ScCtrlShortcut
    BY <2>2, <2>3, <2>5, CodeChars DEF ScCtrlShortcut, Typed
  <2>6. CASE ScChar
    BY <2>2, <2>3, <2>6, CodeChars DEF ScChar, Typed, Quiet
  <2>7. CASE ScCtrl \/ ScAlt \/ ScShift \/ ScRelease
    BY <2>3, <2>7 DEF ScCtrl, ScAlt, ScShift, ScRelease, Quiet
  <2>8. CASE ScTtySwitch
    BY <1>1, <2>3, <2>8 DEF ScTtySwitch, Switched
  <2>9. CASE ScForceStop
    BY <2>3, <2>9 DEF ScForceStop, Quiet, Stopped
  <2> QED BY <1>3, <2>4, <2>5, <2>6, <2>7, <2>8, <2>9 DEF HandleScancode
<1> QED BY <1>2, <1>3

LEMMA ProgramsEffects ==
    ASSUME FifoInv, Programs
    PROVE  /\ pop' = pop
           /\ \/ Stopped
              \/ \E t \in Ttys : Switched(t) \/ Started(t)
              \/ \E n \in 1 .. CAP : Read(n)
<1>1. CASE \E t \in Ttys : RunProgram(t) \/ SysTtySwitch(t)
  BY <1>1 DEF RunProgram, SysTtySwitch, Switched, Started
<1>2. CASE EndProgram
  BY <1>2 DEF EndProgram, Stopped
<1>3. CASE (\E size \in 1 .. CAP : SysRead(size)) \/ SysKbdGetChar
  <2>1. PICK size \in 1 .. CAP : SysRead(size)
    <3>1. 1 \in 1 .. CAP
      BY SizesAssumption
    <3> QED BY <1>3, <3>1 DEF SysKbdGetChar
  <2>2. running # NoProgram /\ running \in Ttys /\ clamp_tty_index(running) = running
        /\ count[running] \in 0 .. CAP
    BY <2>1, TtyIndex DEF SysRead, FifoInv, KbdTypeInv, KeyboardTypeOK
  <2> DEFINE n == IF size <= count[running] THEN size ELSE count[running]
  <2>3. /\ count[running] > 0 /\ pop_chars_for_tty(running, n)
        /\ UNCHANGED <<active, running, pop>>
    BY <2>1, <2>2 DEF SysRead
  <2>4. n \in 1 .. CAP /\ n <= count[running]
    BY <2>2, <2>3, SizesAssumption
  <2> HIDE DEF n
  <2> QED BY <2>2, <2>3, <2>4 DEF Read
<1> QED BY <1>1, <1>2, <1>3 DEF Programs

LEMMA SameQueues == ASSUME UNCHANGED ring PROVE UNCHANGED <<queue, head, tail, count, queues>>
  BY DEF ring, queues, buffered

\* Each effect is a step of the queues, and leaves the heads where they belong.
HeadsInPlace == \A t \in Ttys : head[t] = (tail[t] + count[t]) % CAP

LEMMA QuietStep ==
    ASSUME FifoInv, UNCHANGED ring PROVE HeadsInPlace' /\ queues' = queues
  BY SameQueues DEF FifoInv, HeadsInPlace

LEMMA TypedStep ==
    ASSUME FifoInv, NEW ch \in Chars, Typed(ch)
    PROVE  /\ HeadsInPlace'
           /\ UNCHANGED <<queues, active, running>> \/ Fifo!Type(ch) \/ Fifo!TypeToShell(ch)
<1>1. active \in Ttys /\ clamp_tty_index(active) = active /\ 0 \in Ttys
  BY TtyIndex DEF FifoInv, KbdTypeInv, KeyboardTypeOK
<1>2. queues[active] = buffered(active) /\ Len(queues[active]) = count[active]
  BY <1>1, RingFacts
<1>3. active' = active /\ running' = running
  BY DEF Typed
<1>4. CASE UNCHANGED ring
  BY <1>3, <1>4, QuietStep
<1>5. CASE count[active] < CAP /\ ~should_pump_shell_now /\ queue_push(active, ch)
  <2>1. HeadsInPlace' /\ queues' = [queues EXCEPT ![active] = Append(queues[active], ch)]
    BY <1>1, <1>5, PushAppends DEF HeadsInPlace
  <2>2. running # -1 \/ active # 0
    BY <1>5 DEF should_pump_shell_now, NoProgram
  <2> QED BY <1>2, <1>3, <1>5, <2>1, <2>2 DEF Fifo!Type, Fifo!NoReader, queues
<1>6. CASE count[active] < CAP /\ should_pump_shell_now /\ queue_push_and_pump(active, ch)
  <2>1. HeadsInPlace' /\ queues' = [queues EXCEPT ![active] = Tail(Append(queues[active], ch))]
    BY <1>1, <1>6, PumpAppendsAndTakes DEF HeadsInPlace
  <2>2. running = -1 /\ active = 0
    BY <1>6 DEF should_pump_shell_now, NoProgram
  <2> QED BY <1>2, <1>3, <1>6, <2>1, <2>2 DEF Fifo!TypeToShell, Fifo!NoReader, queues
<1> QED BY <1>1, <1>4, <1>5, <1>6 DEF Typed, queue_push_for_tty

LEMMA ReadStep ==
    ASSUME FifoInv, NEW n \in 1 .. CAP, Read(n) PROVE HeadsInPlace' /\ Fifo!Take(n)
<1>1. running \in Ttys /\ running # NoProgram
  BY DEF Read, FifoInv, KbdTypeInv, KeyboardTypeOK
<1>2. Len(queues[running]) = count[running]
  BY <1>1, RingFacts
<1>3. /\ HeadsInPlace'
      /\ queues' = [queues EXCEPT ![running] = SubSeq(queues[running], n + 1, Len(queues[running]))]
  BY <1>1, PopTakes DEF Read, HeadsInPlace
<1> QED BY <1>1, <1>2, <1>3 DEF Read, Fifo!Take, Fifo!NoReader, NoProgram, queues

LEMMA MaskedStep ==
    ASSUME FifoInv, MaskedNext
    PROVE  FifoInv' /\ (UNCHANGED <<queues, active, running>> \/ Fifo!Next)
<1>1. KbdTypeInv'
  BY KbdTypeStep DEF FifoInv, Next
<1>2. /\ pop' = pop
      /\ \/ Quiet \/ Stopped
         \/ \E t \in Ttys : Switched(t) \/ Started(t)
         \/ \E ch \in Chars : Typed(ch)
         \/ \E n \in 1 .. CAP : Read(n)
  <2>1. CASE \E k \in Keys : Press(k) \/ Release(k)
    BY <2>1 DEF Press, Release, Quiet
  <2> QED BY <2>1, ScancodeEffects, ProgramsEffects DEF MaskedNext
<1>3. HeadsInPlace' /\ (UNCHANGED <<queues, active, running>> \/ Fifo!Next)
  <2>1. CASE Quiet
    BY <2>1, QuietStep DEF Quiet
  <2>2. CASE Stopped
    <3>1. HeadsInPlace' /\ Fifo!Stop
      BY <2>2, QuietStep DEF Stopped, Fifo!Stop, Fifo!NoReader, NoProgram, queues
    <3> QED BY <3>1 DEF Fifo!Next
  <2>3. ASSUME NEW t \in Ttys, Switched(t) \/ Started(t)
        PROVE  HeadsInPlace' /\ Fifo!Next
    <3>1. HeadsInPlace' /\ (Fifo!Switch(t) \/ Fifo!Start(t))
      BY <2>3, QuietStep DEF Switched, Started, Fifo!Switch, Fifo!Start, Fifo!NoReader, NoProgram, queues
    <3> QED BY <3>1 DEF Fifo!Next
  <2>4. ASSUME NEW ch \in Chars, Typed(ch)
        PROVE  HeadsInPlace' /\ (UNCHANGED <<queues, active, running>> \/ Fifo!Next)
    BY <2>4, TypedStep DEF Fifo!Next
  <2>5. ASSUME NEW n \in 1 .. CAP, Read(n) PROVE HeadsInPlace' /\ Fifo!Next
    BY <2>5, ReadStep DEF Fifo!Next
  <2> QED BY <1>2, <2>1, <2>2, <2>3, <2>4, <2>5
<1> QED BY <1>1, <1>2, <1>3 DEF FifoInv, HeadsInPlace

LEMMA FifoInit == Init => FifoInv /\ Fifo!Init
<1> SUFFICES ASSUME Init PROVE FifoInv /\ Fifo!Init
  OBVIOUS
<1>1. KbdTypeInv /\ pop.pc = "idle" /\ 0 \in 0 .. CAP - 1 /\ 0 \in 0 .. CAP /\ 0 + 0 = 0 /\ 0 < CAP
  BY KbdTypeInit, SizesAssumption DEF Init, NoPop
<1>2. (0 + 0) % CAP = 0
  BY <1>1, Around
<1>3. FifoInv
  BY <1>1, <1>2 DEF FifoInv, Init
<1>4. \A t \in Ttys : buffered(t) = << >>
  BY <1>3, RingFacts, EmptySeq DEF Init
<1>5. active = 0 /\ running = -1
  BY DEF Init, NoProgram
<1> QED BY <1>3, <1>4, <1>5 DEF Fifo!Init, Fifo!NoReader

\* As long as every reader runs masked, whatever the size of the rings, the rings are one
\* bounded first-in first-out queue per terminal: a character typed is put behind those of
\* the active terminal, or dropped when its ring is full, and a program takes the oldest
\* ones of its own terminal, in order, each of them once.
THEOREM RingsAreQueues == MaskedSpec => FifoPerTty
<1>1. FifoInv /\ [MaskedNext]_vars => FifoInv' /\ [Fifo!Next]_<<queues, active, running>>
  <2> SUFFICES ASSUME FifoInv, [MaskedNext]_vars
               PROVE  FifoInv' /\ [Fifo!Next]_<<queues, active, running>>
    OBVIOUS
  <2>1. CASE MaskedNext
    BY <2>1, MaskedStep
  <2>2. CASE UNCHANGED vars
    <3>1. UNCHANGED <<ring, active, running, pop>>
      BY <2>2 DEF vars
    <3>2. HeadsInPlace' /\ queues' = queues
      BY <3>1, QuietStep
    <3>3. KbdTypeInv'
      BY <2>2, KbdTypeStep DEF FifoInv
    <3> QED BY <3>1, <3>2, <3>3 DEF FifoInv, HeadsInPlace
  <2> QED BY <2>1, <2>2
<1>2. Init => FifoInv /\ Fifo!Init
  BY FifoInit
<1> QED BY <1>1, <1>2, PTL DEF MaskedSpec, FifoPerTty, Fifo!Spec, queues
=============================================================================
