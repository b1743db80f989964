---------------------------- MODULE MCTextTools ----------------------------
(* All short texts over a few characters, and every tool with every form of
   its arguments. *)
EXTENDS TextTools

MCCode == [k \in {"NUL", "TAB", "NL", " ", ",", ":", "0", "1", "2", "3", "4", "5", "6", "7", "8", "9",
                  "a", "b", "hi"} |->
    CASE k = "NUL" -> 0 [] k = "TAB" -> 9 [] k = "NL" -> 10 [] k = " " -> 32 [] k = "," -> 44 [] k = ":" -> 58
      [] k = "0" -> 48 [] k = "1" -> 49 [] k = "2" -> 50 [] k = "3" -> 51 [] k = "4" -> 52
      [] k = "5" -> 53 [] k = "6" -> 54 [] k = "7" -> 55 [] k = "8" -> 56 [] k = "9" -> 57
      [] k = "a" -> 97 [] k = "b" -> 98 [] k = "hi" -> 200]

TextsOver(keys, n) == UNION {[1 .. m -> keys] : m \in 0 .. n}
MCInputs == TextsOver({"a", "b", " ", "NL"}, 5) \cup TextsOver({"a", "hi", "NUL", "NL"}, 4)
            \cup TextsOver({"b", "NL"}, 7)

Numbers == {<<"0">>, <<"1">>, <<"2">>, <<"9", "9">>, <<"2", "5", "5">>, <<"2", "5", "6">>, <<"2", "6", "0">>, <<"a">>}
MCCalls ==
    {<<c, <<>>>> : c \in {"wc", "uniq", "sort", "head", "tail", "grep", "cut"}}
    \cup {<<c, <<"-n", " ">> \o w>> : c \in {"head", "tail"}, w \in Numbers}
    \cup {<<"grep", <<"a", "b">>>>, <<"grep", <<"-n", " ", "b">>>>, <<"head", <<"-n">>>>, <<"sort", <<"a", " ", "b">>>>}
    \cup {<<"cut", <<"-f", " ">> \o w \o <<" ", "-d", " ", "b">>>> : w \in {<<"1">>, <<"2">>, <<"0">>}}
=============================================================================
