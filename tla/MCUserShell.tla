---------------------------- MODULE MCUserShell ----------------------------
(* A tree with a few texts and the programs, and lines that use them: long
   pipelines, every redirection, commands by alias, programs that run others,
   and lines the shell refuses. *)
EXTENDS UserShell

MCCode == [k \in {"0", "1", "2", "3", "4", "5", "6", "7", "8", "9", "NL", " ", "a", "b", "c",
                  "[pipe] input truncated"} |->
    CASE k = "0" -> 48 [] k = "1" -> 49 [] k = "2" -> 50 [] k = "3" -> 51 [] k = "4" -> 52
      [] k = "5" -> 53 [] k = "6" -> 54 [] k = "7" -> 55 [] k = "8" -> 56 [] k = "9" -> 57
      [] k = "NL" -> 10 [] k = " " -> 32 [] k = "a" -> 97 [] k = "b" -> 98 [] k = "c" -> 99
      [] k = "[pipe] input truncated" -> 91]

Installed == {"cat", "sort", "uniq", "head", "cd", "pwd", "exit", "exec", "spawn", "sleep", "yield", "write",
              "append", "cp", "mv", "rm", "touch", "mkdir"}
File(bytes) == [dir |-> FALSE, bytes |-> bytes]
Directory == [dir |-> TRUE, bytes |-> <<>>]
Paths == {<<>>, <<"shell">>, <<"temp">>, <<"temp", "f">>, <<"temp", "x.elf">>}
         \cup {<<"shell", p \o ".elf">> : p \in Installed}
MCTree0 == [p \in Paths |-> IF p \in {<<>>, <<"shell">>, <<"temp">>} THEN Directory
                            ELSE IF p = <<"temp", "f">> THEN File(<<"b", "NL", "a", "NL", "b">>) ELSE File(<<>>)]
MCNodes == Cardinality(Paths) + 1

f == <<" ", "/", "temp", "/", "f">>
g == <<" ", "/", "temp", "/", "g">>
bar == <<" ", "|", " ">>
to == <<" ", ">">>
MCTyped ==
    { <<"cat">> \o f \o bar \o <<"sort">> \o bar \o <<"uniq">> \o to \o g,
      <<"cat">> \o f \o bar \o <<"sort">> \o bar \o <<"head", " ", "-n", " ", "2">>,
      <<"sort">> \o f \o to \o <<">">> \o f,
      <<"cat">> \o f \o to \o f,
      <<"cat">> \o f \o to \o g \o bar \o <<"sort">>,
      <<"cat">> \o f \o bar \o <<"nosuch">>,
      <<"cat">> \o f \o bar \o <<"write">> \o g,
      <<"pwd", " ", "|", "append">> \o f,
      <<"uniq", " ", "f", " ", ">", "g">>,
      <<"|", "cat">>,
      <<"pwd", "|", "pwd", "|", "pwd", "|", "pwd">>,
      <<"cd", " ", "temp">>,
      <<"cd", " ", "/", "shell", "/", "..">>,
      <<"exit">>,
      <<"exit", " ", "9", "9">>,
      <<"run", " ", "pwd">>,
      <<"exec", " ", "exec">>,
      <<"spawn", " ", "exit">>,
      <<"spawn", " ", "sleep">>,
      <<"sleep", " ", "1">>,
      <<"yield">>,
      <<"mv">> \o f \o g,
      <<"cp">> \o f \o f,
      <<"rm">> \o f,
      <<"/", "temp", "/", "x">> }
MCScripts == {<<>>, <<<<"#">>, <<" ", "exit", " ">>>>}
=============================================================================
