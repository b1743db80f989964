----------------------------- MODULE MCMainLoop -----------------------------
(***************************************************************************)
(* Instances of MainLoop for TLC: one sound machine with every task, the   *)
(* ways a machine can fall short, and smaller builds.                      *)
(***************************************************************************)
EXTENDS MainLoop

Sound == [memmap |-> TRUE, fs |-> TRUE, system |-> TRUE, fb |-> TRUE, audio |-> TRUE,
          elf |-> [f \in Apps \cup {"shell"} |-> "good"], driver |-> <<"driver">>]

MCMachines ==
    {Sound,
     [Sound EXCEPT !.memmap = FALSE],
     [Sound EXCEPT !.fs = FALSE],
     [Sound EXCEPT !.system = FALSE, !.fb = FALSE, !.elf["elfrunner"] = "invalid", !.elf["memc"] = "missing",
                   !.driver = <<"text", "broken", "long", "folder", "driver">>],
     [Sound EXCEPT !.elf["shell"] = "missing"],
     [Sound EXCEPT !.elf["memc"] = "unloadable", !.audio = FALSE, !.driver = <<>>]}

Full == [drivers |-> TRUE, kelf |-> TRUE, system_check |-> TRUE, app_probe |-> TRUE,
         auto_exec |-> TRUE, tasks |-> {"kworker", "usrd"}]

MCConfigs ==
    {Full,
     [Full EXCEPT !.system_check = FALSE, !.app_probe = FALSE, !.tasks = {"klogd", "usrd"}],
     [Full EXCEPT !.system_check = FALSE, !.kelf = FALSE, !.tasks = {"usrd"}],
     [Full EXCEPT !.kelf = FALSE, !.drivers = FALSE, !.auto_exec = FALSE, !.tasks = {"usrd"}],
     [Full EXCEPT !.kelf = FALSE, !.drivers = FALSE, !.tasks = {}]}

\* The slices of kmain.c are 1, 4, 3, 5 and 4.
MCSlice == [t \in TaskNames |-> IF t = "idle" THEN 1 ELSE 3]

=============================================================================
