------------------------------- MODULE MCTty -------------------------------
(* What is written to the terminals when TLC checks Tty: printable text that
   wraps and scrolls, control characters, and escape sequences whole, split
   over two writes, too long, and with a number near the u32 modulus; and what the interrupt echoes. *)
EXTENDS Tty

CSI(params, final) == <<27, 91>> \o params \o <<final>>
MCTexts == {
  <<97>>,                                    \* a
  <<98, 10, 100, 10>>,                       \* two lines
  <<8>>, <<9>>,                              \* backspace, tab
  <<27, 91, 49>>,                            \* half of a sequence
  <<59, 51, 49, 109, 99, 13>>,               \* its rest, bold red; c, return
  CSI(<<56, 59, 51, 56, 59, 53, 59>>, 109),  \* parameters that are too long
  CSI(<<52, 56, 59, 53, 59, 57>>, 109) \o CSI(<<>>, 75),   \* background 9, erase the line
  CSI(<<51>>, 74),                           \* erase screen and scrollback
  CSI(<<49, 50, 55>>, 66),                   \* down by the modulus less one
  <<27, 55>> \o CSI(<<>>, 72) \o CSI(<<63, 50, 53>>, 104) \o <<27, 56>>,  \* save, home, show the cursor, restore
  CSI(<<63, 50, 53>>, 108)                   \* hide the cursor
}
\* The keyboard interrupt's own: letters echoed on two lines, which scrolls.
MCEchoes == {<<98, 10, 100, 10>>}
=============================================================================
