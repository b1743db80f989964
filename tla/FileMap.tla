------------------------------ MODULE FileMap ------------------------------
(***************************************************************************)
(* What the file system of CLeonOS promises, without nodes, slots, parent  *)
(* links or buffers: a tree of names, in which only what lies below /temp  *)
(* ever changes.  Files.tla is shown to implement it.                      *)
(***************************************************************************)
EXTENDS Integers, Sequences

VARIABLE tree        \* path |-> a directory, or a file and its contents

Directory == [dir |-> TRUE, bytes |-> <<>>]
File(c) == [dir |-> FALSE, bytes |-> c]
Prefixes(p) == {SubSeq(p, 1, k) : k \in 0 .. Len(p)}
Parent(p) == SubSeq(p, 1, Len(p) - 1)
BelowTemp(p) == Len(p) > 1 /\ Head(p) = "temp"

Closed(t) == /\ <<>> \in DOMAIN t /\ t[<<>>] = Directory
             /\ \A p \in DOMAIN t : p # <<>> =>
                    Parent(p) \in DOMAIN t /\ t[Parent(p)] = Directory

Init == Closed(tree)

\* The tree with p and the directories above it that are missing.
With(t, p, entry) == [q \in DOMAIN t \cup Prefixes(p) |->
                        IF q = p THEN entry ELSE IF q \in DOMAIN t THEN t[q] ELSE Directory]

\* A directory is made, with those above it; none of them is a file.
MakeDir(old, new, p) == /\ BelowTemp(p)
                        /\ \A q \in Prefixes(p) : q \in DOMAIN old => old[q] = Directory
                        /\ new = With(old, p, Directory)

\* A file gets new contents; a directory never becomes a file.
Store(old, new, p) == /\ BelowTemp(p) /\ p \in DOMAIN new
                      /\ \A q \in Prefixes(Parent(p)) : q \in DOMAIN old => old[q] = Directory
                      /\ p \in DOMAIN old => ~old[p].dir
                      /\ new = With(old, p, File(new[p].bytes))

\* A file or an empty directory goes away.
Delete(old, new, p) == /\ BelowTemp(p) /\ p \in DOMAIN old
                       /\ \A q \in DOMAIN old : q # <<>> => Parent(q) # p
                       /\ new = [q \in DOMAIN old \ {p} |-> old[q]]

\* The paths that appeared, went away or changed.
Touched(old, new) == (DOMAIN old \cup DOMAIN new) \
                        {p \in DOMAIN old \cap DOMAIN new : old[p] = new[p]}

Change(old, new) == \E p \in Touched(old, new) :
                       MakeDir(old, new, p) \/ Delete(old, new, p) \/ Store(old, new, p)

Next == Change(tree, tree')

Spec == Init /\ [][Next]_tree
=============================================================================
