----------------------------- MODULE FileTree -----------------------------
(***************************************************************************)
(* The calls of the file system (clks/kernel/fs.c) on a tree of names, as  *)
(* the shells use them: the tree is that of FileMap, which Files.tla       *)
(* implements.  mem says whether the kernel heap has room for the new      *)
(* contents.                                                               *)
(***************************************************************************)
EXTENDS Integers, Sequences, FiniteSets

CONSTANT MAX_NODES         \* slots of the file system's node table

FM == INSTANCE FileMap WITH tree <- <<>>

path_is_under_temp(p) == p # <<>> /\ Head(p) = "temp"
is_dir(t, p) == p \in DOMAIN t /\ t[p].dir
is_file(t, p) == p \in DOMAIN t /\ ~t[p].dir

\* Directories down to p are made one by one while there are free nodes; a
\* file in the way ends it.
ensure_dirs(t, p) ==
    LET make(acc, q) == IF ~acc.ok \/ is_dir(acc.t, q) THEN acc
                        ELSE IF is_file(acc.t, q) \/ Cardinality(DOMAIN acc.t) >= MAX_NODES THEN [acc EXCEPT !.ok = FALSE]
                        ELSE [acc EXCEPT !.t = FM!With(@, q, FM!Directory)]
        walk[k \in 0 .. Len(p)] == IF k = 0 THEN [t |-> t, ok |-> TRUE] ELSE make(walk[k - 1], SubSeq(p, 1, k))
    IN  walk[Len(p)]

fs_mkdir(t, p) == IF path_is_under_temp(p) THEN ensure_dirs(t, p) ELSE [t |-> t, ok |-> FALSE]

store(dirs, p, bytes, mem) ==
    IF \/ ~dirs.ok \/ is_dir(dirs.t, p) \/ ~(mem \/ bytes = <<>>)
       \/ p \notin DOMAIN dirs.t /\ Cardinality(DOMAIN dirs.t) >= MAX_NODES
    THEN [dirs EXCEPT !.ok = FALSE]
    ELSE [t |-> FM!With(dirs.t, p, FM!File(bytes)), ok |-> TRUE]
fs_write_all(t, p, bytes, mem) == IF FM!BelowTemp(p) THEN store(ensure_dirs(t, FM!Parent(p)), p, bytes, mem)
                                  ELSE [t |-> t, ok |-> FALSE]

fs_append(t, p, bytes, mem) ==
    IF is_dir(t, p) THEN [t |-> t, ok |-> FALSE]
    ELSE fs_write_all(t, p, IF is_file(t, p) THEN t[p].bytes \o bytes ELSE bytes, mem)

fs_remove(t, p) == IF \/ ~FM!BelowTemp(p) \/ p \notin DOMAIN t
                      \/ \E q \in DOMAIN t : q # <<>> /\ FM!Parent(q) = p
                   THEN [t |-> t, ok |-> FALSE]
                   ELSE [t |-> [q \in DOMAIN t \ {p} |-> t[q]], ok |-> TRUE]
=============================================================================
