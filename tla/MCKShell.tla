------------------------------ MODULE MCKShell ------------------------------
(* What is typed when TLC checks KShell: single editing keys, and whole
   commands that use every command of the shell on a tree with one file in
   /temp and one program. *)
EXTENDS KShell

MCTree == [p \in {<<>>, <<"temp">>, <<"temp", "f">>, <<"shell">>, <<"shell", "p.elf">>} |->
             CASE p = <<"temp", "f">> -> FM!File(<<"x">>)
               [] p = <<"shell", "p.elf">> -> FM!File(<<"elf">>)
               [] OTHER -> FM!Directory]

MCKeys == {" ", "a", "/", "temp", "f", "g", "x", ".", "..", "p", ".elf", "0", "2", "9", "shell",
           "help", "pwd", "cd", "ls", "cat", "mkdir", "touch", "write", "append", "cp", "mv", "rm", "dmesg",
           "panic", "elfloader", "exec", "run"}
F == <<"/", "temp", "/", "f">>
G == <<"/", "temp", "/", "a", "/", "g">>
Line(s) == s \o <<"NL">>
Edits == {<<"a", "CTRL">>, <<"LEFT", "BS">>, <<"HOME", "RIGHT", "TAB", "x">>, <<"LEFT", "DELETE">>,
          <<"UP">>, <<"DOWN", "END">>, <<"a", "BS">>, <<" ", "CR", "NL">>, <<"a", "NL", "x", "NL">>}
Commands == {Line(<<"mv", " ">> \o F \o <<" ">> \o G),
             Line(<<"cp", " ">> \o F \o <<" ">> \o G),
             Line(<<"write", " ", "g", " ", "a">>),
             Line(<<"append", " ">> \o F \o <<" ", "a">>),
             Line(<<"touch", " ">> \o G),
             Line(<<"mkdir", " ", "/", "temp", "/", ".", "/", "a">>),
             Line(<<"cd", " ", ".", "/", "temp", "/", "a", "/", "..">>),
             Line(<<"rm", " ", "f">>),
             Line(<<"cat", " ">> \o F), Line(<<"ls">>), Line(<<"dmesg", " ", "2", "9">>),
             Line(<<"run", " ", "p">>), Line(<<"elfloader", " ", "/", "shell", "/", "p", ".elf">>),
             Line(<<"pwd">>), Line(<<"panic">>)}
\* What comes last, into the work that the first two bursts have left: single
\* keys, a line, a move.
LastKeys == {<<"BS">>, <<"a">>, <<"UP">>, <<"a", "NL">>, Line(<<"mv", " ">> \o F \o <<" ">> \o G)}
MCBursts == <<Edits \cup Commands, Edits \cup Commands, LastKeys>>
=============================================================================
