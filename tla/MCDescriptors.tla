--------------------------- MODULE MCDescriptors ---------------------------
(***************************************************************************)
(* A ramdisk with the five directories and a library, a /temp with room    *)
(* for three more nodes and few buffers, and two programs.                 *)
(***************************************************************************)
EXTENDS Descriptors

Abs(names) == [slash |-> TRUE, names |-> names]
Header(flag, raw, size, buf) == [flag |-> flag, raw |-> raw, size |-> size, buf |-> buf]
Data == [ZeroBlock EXCEPT !.flag = "payload"]
Dir(name) == Header("5", <<".", name, "">>, <<0, BLANK>>, NULL)
Base == <<Header("5", <<".", "">>, <<0>>, NULL), Dir("system"), Dir("shell"), Dir("temp"), Dir("driver"), Dir("dev")>>
Lib == <<Header("0", <<"temp", "a">>, <<BLANK, 0, 2>>, 101), Data>>
Odd == <<Header("L", <<"x">>, <<1>>, NULL), Data>>

MCRam == 101 :> <<1, 2>>
Image(blocks) == [size |-> 4 * Len(blocks), blocks |-> blocks]
MCImages == {Image(Base \o Lib \o <<ZeroBlock>>),
             Image(Base \o Odd \o <<Dir("proc")>>),
             Image(SubSeq(Base, 1, 4)),
             [Image(Base \o Lib) EXCEPT !.size = @ - 4],
             Image(Base \o <<Header("0", <<"temp", "", "a">>, <<0>>, NULL)>>)}
MCXPaths == {Abs(<<"temp", "a">>), Abs(<<"temp", ".", "d", "bcd">>), Abs(<<"temp", "d">>), Abs(<<"temp">>), Abs(<<"dev", "n">>)}
MCDirs == {Abs(<<"">>), Abs(<<"temp">>), Abs(<<"temp", "d">>), Abs(<<"proc">>)}
MCPayloads == {<<>>, <<1, 2>>}
Open(path, acc, c, t, a) == [path |-> path, flags |-> [acc |-> acc, creat |-> c, trunc |-> t, app |-> a]]
MCOpens == {Open(Abs(<<"temp", "a">>), 2, TRUE, FALSE, FALSE), Open(Abs(<<"", "temp", "d", "b">>), 1, TRUE, TRUE, TRUE),
            Open(Abs(<<"temp", "a">>), 0, FALSE, TRUE, FALSE)}
MCLibs == {Abs(<<"temp", "a">>)}
MCStdio == {<<INHERIT, INHERIT, INHERIT>>, <<INHERIT, 3, INHERIT>>, <<1, INHERIT, INHERIT>>}
=============================================================================
