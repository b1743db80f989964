---------------------------- MODULE KeyboardFifo ----------------------------
(***************************************************************************)
(* What the keyboard driver promises its readers: one bounded first-in     *)
(* first-out queue per virtual terminal.  A character is queued for the    *)
(* terminal that is active when it is typed, or dropped when that queue is *)
(* full; a program takes characters from its own terminal only, in order,  *)
(* each of them once.                                                      *)
(***************************************************************************)
EXTENDS Integers, Sequences

CONSTANTS CAP, Ttys, Chars

VARIABLES
    q,        \* the characters typed on each terminal and not yet read
    active,   \* the terminal shown on the screen
    reader    \* the terminal of the running program, or NoReader

NoReader == -1

Init == q = [t \in Ttys |-> <<>>] /\ active = 0 /\ reader = NoReader

Type(c) == /\ reader # NoReader \/ active # 0
           /\ Len(q[active]) < CAP
           /\ q' = [q EXCEPT ![active] = Append(@, c)]
           /\ UNCHANGED <<active, reader>>

\* The running program takes the n oldest characters of its terminal.
Take(n) == /\ reader # NoReader
           /\ n <= Len(q[reader])
           /\ q' = [q EXCEPT ![reader] = SubSeq(@, n + 1, Len(@))]
           /\ UNCHANGED <<active, reader>>

\* With no program running, what is typed on terminal 0 goes to the kernel shell,
\* behind what is still queued there.
TypeToShell(c) == /\ reader = NoReader
                  /\ active = 0
                  /\ Len(q[0]) < CAP
                  /\ q' = [q EXCEPT ![0] = Tail(Append(@, c))]
                  /\ UNCHANGED <<active, reader>>

Switch(t) == active' = t /\ UNCHANGED <<q, reader>>
Start(t) == reader = NoReader /\ reader' = t /\ UNCHANGED <<q, active>>
Stop == reader' = NoReader /\ UNCHANGED <<q, active>>

Next == \/ \E c \in Chars : Type(c) \/ TypeToShell(c)
        \/ \E n \in 1 .. CAP : Take(n)
        \/ \E t \in Ttys : Switch(t) \/ Start(t)
        \/ Stop

Spec == Init /\ [][Next]_<<q, active, reader>>
=============================================================================
