---------------------------- MODULE Descriptors ----------------------------
(***************************************************************************)
(* What a process sees of the file system: the descriptor table of each    *)
(* process (clks/kernel/exec.c), the file calls and the virtual directory  *)
(* /proc of the system call layer (clks/kernel/syscall.c), and the file    *)
(* image a loaded library keeps pointing to (exec.c, clks_exec_dl_open).   *)
(* Processes nest: the caller waits while the program it runs is on top of *)
(* the stack.  A system call runs through an interrupt gate and nothing    *)
(* else of the kernel uses the file system meanwhile, so a call is a step. *)
(***************************************************************************)
EXTENDS Files

CONSTANTS FD_MAX,        \* CLKS_EXEC_FD_MAX
          DEPTH,         \* bound: how deep programs run each other
          DYNLIB_MAX,    \* CLKS_EXEC_DYNLIB_MAX
          CHUNK,         \* CLKS_SYSCALL_FS_IO_CHUNK_LEN
          SIZE_CAP,      \* bound: the longest file and the largest offset
          XPaths,        \* the paths programs pass
          Dirs,          \* the directories they list
          Payloads,      \* what they write
          ReadSizes,     \* how much they read at once
          FdArgs,        \* the descriptors they use
          Closable,      \* bound: the descriptors they close
          Opens,         \* the paths and flags they open
          Libs,          \* the libraries they load
          Stdio,         \* the descriptors they hand to a child as its 0, 1 and 2
          ELF            \* first byte of a file clks_elf64_load accepts

\* A call passes three descriptors to a child; the bound on the length of files
\* leaves room for those of the ramdisk.
ASSUME DescriptorsAssumption ==
    /\ FD_MAX \in Nat /\ FD_MAX >= 3 /\ DEPTH \in Nat \ {0} /\ CHUNK \in Nat \ {0} /\ DYNLIB_MAX \in Nat
    /\ FdArgs \subseteq Nat /\ ReadSizes \subseteq Nat /\ Payloads \subseteq Seq(0 .. 255)
    /\ \A o \in Opens : o.flags \in [acc : Nat, creat : BOOLEAN, trunc : BOOLEAN, app : BOOLEAN]
    /\ \A io \in Stdio : Len(io) = 3 /\ io \in Seq(Int)
    /\ SIZE_CAP \in Nat /\ \A b \in DOMAIN Ram : Len(Ram[b]) <= SIZE_CAP

VARIABLES stack,   \* the running programs, innermost last
          dyn      \* loaded libraries: slot |-> owner, path, file image

vars == <<fs, stack, dyn>>

Fds == 0 .. FD_MAX - 1
NoFd == [kind |-> "NONE", flags |-> [acc |-> 0, creat |-> FALSE, trunc |-> FALSE, app |-> FALSE],
         off |-> 0, path |-> <<>>]
NoLib == [owner |-> 0, path |-> <<>>, image |-> NULL, bytes |-> <<>>]
INHERIT == -1
DynSlots == 0 .. DYNLIB_MAX - 1

Top == stack[Len(stack)]
Running == stack # <<>>
CurrentPid == Len(stack)

(***************************************************************************)
(* Copying a path from the caller: what does not fit is cut off, silently. *)
(***************************************************************************)
NameStart(x, k) == (IF x.slash THEN 1 ELSE 0) + (IF k = 1 THEN 0 ELSE path_len(SubSeq(x.names, 1, k - 1)) + 1)
copy_user_string(x) ==
    LET kept == SelectSeq([k \in 1 .. Len(x.names) |-> k], LAMBDA k : NameStart(x, k) <= PATH_MAX - 1)
    IN  [x EXCEPT !.names = [k \in 1 .. Len(kept) |->
                               LET room == PATH_MAX - 1 - NameStart(x, k)
                               IN  IF Len(x.names[k]) <= room THEN x.names[k] ELSE SubSeq(x.names[k], 1, room)]]

\* What a call acts on is a path: a name that was cut short is still a name.
ASSUME PathsAssumption ==
    \A x \in XPaths \cup Libs \cup {o.path : o \in Opens} :
        copy_user_string(x) \in [slash : BOOLEAN, names : Seq(STRING)]
ASSUME DirsAssumption == Dirs \subseteq [slash : BOOLEAN, names : Seq(STRING)]

(***************************************************************************)
(* Opening, reading and writing.                                           *)
(***************************************************************************)
fd_access_mode_valid(flags) == flags.acc \in {0, 1, 2}
fd_can_read(flags) == flags.acc \in {0, 2}
fd_can_write(flags) == flags.acc \in {1, 2}

\* The device paths are compared letter by letter, before the file system.
device_kind(x) == LET is(name) == x = [slash |-> TRUE, names |-> <<"dev", name>>]
                  IN  CASE is("tty") -> "TTY" [] is("null") -> "NULL" [] is("zero") -> "ZERO"
                        [] is("random") \/ is("urandom") -> "RANDOM" [] OTHER -> "FILE"

std_fd(acc) == [NoFd EXCEPT !.kind = "TTY", !.flags.acc = acc]
fd_init_defaults == [d \in Fds |-> IF d = 0 THEN std_fd(0) ELSE IF d \in {1, 2} THEN std_fd(1) ELSE NoFd]

fd_find_free(fds) == LET free == {d \in Fds : fds[d].kind = "NONE"}
                     IN  IF free = {} THEN -1 ELSE Min(free)

fd_lookup(fds, d) == d \in Fds /\ fds[d].kind # "NONE"

\* The node is looked at again after it was made, and after it was cut to
\* nothing: the offset of O_APPEND comes from the last look.
fd_open(f, fds, x, flags) ==
    LET entry(kind, path, off) == [fds EXCEPT ![fd_find_free(fds)] =
                                     [kind |-> kind, flags |-> flags, path |-> path, off |-> off]]
        made == IF fs_stat(f, x).type # "NONE" THEN [fs |-> f, ok |-> TRUE]
                ELSE IF ~flags.creat \/ ~fd_can_write(flags) THEN Refuse(f)
                ELSE write_all(f, x, <<>>)
        cut(m) == IF ~m.ok \/ fs_stat(m.fs, x).type # "FILE" THEN Refuse(m.fs)
                  ELSE IF flags.trunc THEN write_all(m.fs, x, <<>>) ELSE m
        opened(c) == [fs |-> c.fs, fds |-> IF ~c.ok THEN fds
                                           ELSE entry("FILE", x, IF flags.app THEN fs_stat(c.fs, x).size ELSE 0)]
    IN  IF ~x.slash \/ ~fd_access_mode_valid(flags) \/ fd_find_free(fds) < 0
           \/ ((flags.trunc \/ flags.app) /\ ~fd_can_write(flags)) THEN [fs |-> f, fds |-> fds]
        ELSE IF device_kind(x) # "FILE" THEN [fs |-> f, fds |-> entry(device_kind(x), NoFd.path, 0)]
        ELSE opened(cut(made))

\* How many bytes a read of a file moves; -1 when the file is gone.
fd_file_read_len(f, e, n) ==
    LET i == find_external(f, e.path)
        size == f.nodes[i].size
    IN  IF read_all(f, e.path) = NULL THEN -1
        ELSE IF e.off >= size THEN 0
        ELSE IF size - e.off > n THEN n ELSE size - e.off

\* Mutant: a write in the middle ends the file where it ends.
overlay_cuts(old, at, bytes) ==
    [k \in 1 .. at + Len(bytes) |->
        IF k > at THEN bytes[k - at] ELSE IF k <= Len(old) THEN old[k] ELSE 0]

\* The old bytes, zeros up to the offset where there were none, the new bytes.
overlay(old, at, bytes) ==
    [k \in 1 .. Max({Len(old), at + Len(bytes)}) |->
        IF k > at /\ k <= at + Len(bytes) THEN bytes[k - at]
        ELSE IF k <= Len(old) THEN old[k] ELSE 0]

\* [fs, off, ok]: the file is built anew in a buffer and stored whole.
fd_file_write(f, e, bytes) ==
    LET new == overlay(FileBytes(f, find_external(f, e.path)), e.off, bytes)
        moved(r) == [fs |-> r.fs, ok |-> r.ok, off |-> IF r.ok THEN e.off + Len(bytes) ELSE e.off]
    IN  moved(IF e.flags.app THEN append(f, e.path, bytes)
              ELSE IF read_all(f, e.path) = NULL THEN Refuse(f)
              ELSE store_copy(f, normalize_external_path(e.path), kmalloc(f), new))

fd_copy_from_parent(parent, d, need_read, need_write) ==
    /\ fd_lookup(parent, d)
    /\ need_read => fd_can_read(parent[d].flags)
    /\ need_write => fd_can_write(parent[d].flags)

\* The child's first three descriptors, or none when an override is refused.
fd_apply_stdio_overrides(parent, in, out, err) ==
    LET ok == /\ in # INHERIT => fd_copy_from_parent(parent, in, TRUE, FALSE)
              /\ out # INHERIT => fd_copy_from_parent(parent, out, FALSE, TRUE)
              /\ err # INHERIT => fd_copy_from_parent(parent, err, FALSE, TRUE)
        given(d, over) == IF over = INHERIT THEN fd_init_defaults[d] ELSE parent[over]
    IN  IF ~ok THEN <<>>
        ELSE <<[fd_init_defaults EXCEPT ![0] = given(0, in), ![1] = given(1, out), ![2] = given(2, err)]>>

(***************************************************************************)
(* FS_WRITE and FS_APPEND: chunk by chunk, each copied to a heap buffer.   *)
(***************************************************************************)
fs_write_common(f, x, bytes, append_mode) ==
    LET pieces == (Len(bytes) + CHUNK - 1) \div CHUNK
        piece(k) == SubSeq(bytes, (k - 1) * CHUNK + 1, Min({k * CHUNK, Len(bytes)}))
        put(g, bs, first) == IF append_mode \/ ~first THEN append(g, x, bs) ELSE write_all(g, x, bs)
        chunk(acc, bs, copy, first) == IF ~acc.ok THEN acc
                                       ELSE IF copy = NULL THEN Refuse(acc.fs)
                                       ELSE release(put(fill(acc.fs, copy, bs), bs, first), copy)
        next(acc, k) == chunk(acc, piece(k), kmalloc(acc.fs), k = 1)
        after[k \in 0 .. pieces] == IF k = 0 THEN [fs |-> f, ok |-> TRUE] ELSE next(after[k - 1], k)
    IN  IF bytes # <<>> THEN after[pieces] ELSE put(f, <<>>, TRUE)

(***************************************************************************)
(* /proc: a directory of the system call layer, not of the file system.    *)
(***************************************************************************)
ASSUME DecimalAssumption ==
    \A p \in 1 .. DEPTH : /\ ToString(p) \notin {"self", "list"}
                          /\ \A q \in 1 .. DEPTH : ToString(p) = ToString(q) => p = q
PidNames == {ToString(p) : p \in 1 .. Len(stack)}
procfs_is_root(x) == x = [slash |-> TRUE, names |-> <<"proc">>]
procfs_parse_pid(x) == x.slash /\ Len(x.names) = 2 /\ x.names[1] = "proc" /\ x.names[2] \in {ToString(p) : p \in 1 .. DEPTH}
procfs_is(x, name) == x = [slash |-> TRUE, names |-> <<"proc", name>>]
fs_is_root(x) == x.slash /\ x.names \in {<<>>, <<"">>}
fs_has_real_proc_dir == fs_stat(fs, [slash |-> TRUE, names |-> <<"proc">>]).type = "DIR"

\* Whether reading the path yields a snapshot or the list.
procfs_render_file(x) == \/ procfs_is(x, "list")
                         \/ procfs_is(x, "self") /\ Running
                         \/ procfs_parse_pid(x) /\ x.names[2] \in PidNames

\* Mutant: the virtual /proc is counted though the root has a real one.
fs_child_count_always_proc(x) ==
    IF procfs_is_root(x) THEN 2 + Len(stack) ELSE count_children(fs, x) + (IF fs_is_root(x) THEN 1 ELSE 0)

fs_child_count(x) ==
    IF procfs_is_root(x) THEN 2 + Len(stack)
    ELSE count_children(fs, x) + (IF fs_is_root(x) /\ ~fs_has_real_proc_dir THEN 1 ELSE 0)

fs_get_child_name(x, index) ==
    IF procfs_is_root(x) THEN
        CASE index = 0 -> "self" [] index = 1 -> "list"
          [] index > 1 -> IF index - 1 <= Len(stack) THEN ToString(index - 1) ELSE ""
    ELSE IF fs_is_root(x) /\ ~fs_has_real_proc_dir THEN
        IF index = 0 THEN "proc" ELSE get_child_name(fs, x, index - 1)
    ELSE get_child_name(fs, x, index)

fs_stat_type(x) == IF procfs_is_root(x) THEN "DIR"
                   ELSE IF procfs_is(x, "list") \/ procfs_is(x, "self") \/ procfs_render_file(x) THEN "FILE"
                   ELSE fs_stat(fs, x).type

(***************************************************************************)
(* The calls, as steps of the program on top of the stack (or of the       *)
(* kernel's own shell, when none runs: it has no descriptors).             *)
(***************************************************************************)
Init == /\ \E image \in Images : fs = fs_init(image)
        /\ stack = <<>>
        /\ dyn = [s \in DynSlots |-> NoLib]

Fits(f) == \A i \in UsedNodes(f) : f.nodes[i].size <= SIZE_CAP

FsMkdir == \E x \in XPaths : fs' = mkdir(fs, copy_user_string(x)).fs /\ UNCHANGED <<stack, dyn>>
FsWrite == \E x \in XPaths, b \in Payloads, app \in BOOLEAN :
              /\ fs' = fs_write_common(fs, copy_user_string(x), b, app).fs /\ Fits(fs')
              /\ UNCHANGED <<stack, dyn>>
FsRemove == \E x \in XPaths : fs' = fs_remove(fs, copy_user_string(x)).fs /\ UNCHANGED <<stack, dyn>>

FdOpen == \E o \in Opens :
             /\ Running
             /\ \E r \in {fd_open(fs, Top, copy_user_string(o.path), o.flags)} :
                   fs' = r.fs /\ stack' = [stack EXCEPT ![Len(stack)] = r.fds]
             /\ UNCHANGED dyn

\* A read moves the offset of a file; of the devices, zero and random count
\* what was read, the keyboard and null do not.
FdRead == \E d \in FdArgs, n \in ReadSizes :
             /\ Running /\ fd_lookup(Top, d) /\ fd_can_read(Top[d].flags)
             /\ LET e == Top[d]
                    got == fd_file_read_len(fs, e, n)
                    moved == CASE e.kind = "FILE" -> IF got < 0 THEN 0 ELSE got
                               [] e.kind \in {"ZERO", "RANDOM"} -> n
                               [] e.kind \in {"TTY", "NULL"} -> 0
                IN  /\ e.off + moved <= SIZE_CAP
                    /\ stack' = [stack EXCEPT ![Len(stack)][d].off = @ + moved]
             /\ UNCHANGED <<fs, dyn>>

FdWrite == \E d \in FdArgs, b \in Payloads \ {<<>>} :
              /\ Running /\ fd_lookup(Top, d) /\ fd_can_write(Top[d].flags)
              /\ LET e == Top[d]
                 IN  IF e.kind = "FILE"
                     THEN \E r \in {fd_file_write(fs, e, b)} : fs' = r.fs /\ Fits(fs') /\ stack' = [stack EXCEPT ![Len(stack)][d].off = r.off]
                     ELSE /\ fs' = fs /\ e.off + Len(b) <= SIZE_CAP
                          /\ stack' = [stack EXCEPT ![Len(stack)][d].off = IF e.kind = "TTY" THEN @ ELSE @ + Len(b)]
              /\ stack'[Len(stack)][d].off <= SIZE_CAP
              /\ UNCHANGED dyn

FdClose == \E d \in Closable :
              /\ Running /\ fd_lookup(Top, d)
              /\ stack' = [stack EXCEPT ![Len(stack)][d] = NoFd] /\ UNCHANGED <<fs, dyn>>

FdDup == \E d \in FdArgs :
            /\ Running /\ fd_lookup(Top, d) /\ fd_find_free(Top) >= 0
            /\ stack' = [stack EXCEPT ![Len(stack)][fd_find_free(Top)] = Top[d]] /\ UNCHANGED <<fs, dyn>>

\* EXEC_PATHV_IO: the child starts, or its record is given up at once.
ExecIo == \E io \in Stdio :
             /\ fs.ready /\ Len(stack) < DEPTH
             /\ ~Running => io = <<INHERIT, INHERIT, INHERIT>>
             /\ LET fds == fd_apply_stdio_overrides(IF Running THEN Top ELSE fd_init_defaults, io[1], io[2], io[3])
                IN  stack' = stack \o fds
             /\ UNCHANGED <<fs, dyn>>

\* How often a program has opened a library is counted in ExecProcs.tla; here
\* opening it again finds it, and closing it is the last close.
DlOpen == \E x \in Libs :
             /\ Running
             /\ LET p == copy_user_string(x)
                    free == {s \in DynSlots : dyn[s] = NoLib}
                    image == read_all(fs, p)
                    bytes == BytesIn(fs, image)
                IN  IF \/ \E s \in DynSlots : dyn[s].owner = CurrentPid /\ dyn[s].path = p
                       \/ ~p.slash \/ free = {} \/ bytes = <<>>
                    THEN UNCHANGED dyn
                    ELSE IF bytes[1] # ELF THEN UNCHANGED dyn
                    ELSE dyn' = [dyn EXCEPT ![Min(free)] = [owner |-> CurrentPid, path |-> p,
                                                            image |-> image, bytes |-> bytes]]
             /\ UNCHANGED <<fs, stack>>

DlClose == \E s \in DynSlots : /\ Running /\ dyn[s].owner = CurrentPid
                               /\ dyn' = [dyn EXCEPT ![s] = NoLib]
                               /\ UNCHANGED <<fs, stack>>

\* The program returns: its record and its libraries are given up.
Return == /\ Running
          /\ stack' = SubSeq(stack, 1, Len(stack) - 1)
          /\ dyn' = [s \in DynSlots |-> IF dyn[s].owner = CurrentPid THEN NoLib ELSE dyn[s]]
          /\ UNCHANGED fs

Next == FsMkdir \/ FsWrite \/ FsRemove \/ FdOpen \/ FdRead \/ FdWrite \/ FdClose \/ FdDup
        \/ ExecIo \/ DlOpen \/ DlClose \/ Return

Spec == Init /\ [][Next]_vars

-----------------------------------------------------------------------------
(***************************************************************************)
(* Properties.                                                             *)
(***************************************************************************)
Path(i) == fs.nodes[i].path

\* Every field keeps its range: slots, buffers and offsets exist, a file's size
\* is that of the bytes in its buffer, and no library points to nothing.
FilesTypeOK ==
    /\ fs.count \in 0 .. MAX_NODES
    /\ \A i \in NodeIds : LET n == fs.nodes[i] IN
         /\ n.used \in BOOLEAN /\ n.type \in {"FILE", "DIR"} /\ n.parent \in NodeIds /\ n.heap \in BOOLEAN
         /\ i >= fs.count => n = FreeNode
         /\ n.used /\ n.type = "FILE" => n.size <= SIZE_CAP /\ (n.size > 0 => n.data \in DOMAIN fs.mem)
    /\ Len(stack) <= DEPTH
    /\ \A k \in DOMAIN stack, d \in Fds : stack[k][d].off \in 0 .. SIZE_CAP
    /\ \A s \in DynSlots : dyn[s].owner \in 0 .. Len(stack)

\* A path has one node, and the parent index of every node but the root is the
\* slot of the directory its path names: after any mix of removals and reuse
\* of slots, walking by index (listing, removal) and by path (everything else)
\* agree.
LinksMatchPaths ==
    /\ \A i, j \in UsedNodes(fs) : Path(i) = Path(j) => i = j
    /\ \A i \in UsedNodes(fs) : i # 0 =>
         LET p == fs.nodes[fs.nodes[i].parent]
         IN  Path(i) # <<>> /\ p.used /\ p.type = "DIR" /\ p.path = split_parent(Path(i))

\* Each heap buffer in use belongs to exactly one file, which knows it, and
\* holds its contents: no failed or repeated write leaks or shares a buffer.
BuffersOwned ==
    LET owners(b) == {i \in UsedNodes(fs) : fs.nodes[i].heap /\ fs.nodes[i].data = b}
    IN  /\ \A b \in HeapBufs : Cardinality(owners(b)) = IF fs.mem[b] = Freed THEN 0 ELSE 1
        /\ \A i \in UsedNodes(fs) : fs.nodes[i].type = "FILE" /\ fs.nodes[i].size > 0 =>
              /\ fs.mem[fs.nodes[i].data] # Freed
              /\ Len(fs.mem[fs.nodes[i].data]) = fs.nodes[i].size

\* Once the file system is up, the five directories it was checked for stay:
\* no sequence of removals takes one away.
LayoutStays == fs.ready => \A d \in RequiredDirs : LET i == find_node(fs, d)
                                                  IN  i >= 0 /\ fs.nodes[i].type = "DIR"

\* A library loaded from the ramdisk still finds its file image as it was,
\* whatever has since been written over, or removed from, its path.
LibraryImageStays == \A s \in DynSlots : dyn[s].image \in DOMAIN Ram =>
                                             fs.mem[dyn[s].image] = dyn[s].bytes

\* Whatever a descriptor would write next changes only the bytes it covers:
\* the file's other bytes stay, a gap reads as zeros, O_APPEND adds at the end,
\* and a write that fails leaves every file as it is.
WritesAreLocal ==
    Running => \A d \in FdArgs \cap Fds, b \in UNION {{SubSeq(p, 1, k) : k \in 1 .. Len(p)} : p \in Payloads} :
        LET e == Top[d]
            i == find_external(fs, e.path)
            old == IF i < 0 THEN <<>> ELSE FileBytes(fs, i)
            at == IF e.flags.app THEN Len(old) ELSE e.off
        IN  e.kind = "FILE" /\ fd_can_write(e.flags) => \A r \in {fd_file_write(fs, e, b)} :
              LET j == find_external(r.fs, e.path) IN
              /\ \A k \in UsedNodes(fs) \ {i} : FileBytes(r.fs, k) = FileBytes(fs, k)
              /\ IF ~r.ok THEN i >= 0 => FileBytes(r.fs, i) = old
                 ELSE LET new == FileBytes(r.fs, j)
                      IN  /\ Len(new) = Max({Len(old), at + Len(b)})
                          /\ SubSeq(new, at + 1, at + Len(b)) = b
                          /\ \A k \in DOMAIN new \ (at + 1 .. at + Len(b)) :
                                new[k] = IF k \in DOMAIN old THEN old[k] ELSE 0

\* What the listing relies on and nothing checks: no entry of the ramdisk is
\* called "..", and none is a file /proc (which would be listed beside the
\* virtual directory).
PlainImages ==
    \A image \in Images : \A k \in 1 .. Len(image.blocks) :
        LET h == image.blocks[k]
            p == build_path(h.raw)
        IN  p # NoPath => ".." \notin ToSet(p) /\ ~(p = <<"proc">> /\ h.flag = "0")

\* A name in a directory.
below(x, c) == [slash |-> TRUE, names |-> Append(IF fs_is_root(x) THEN <<>> ELSE x.names, c)]

\* Listing a directory by index yields each of its names once and nothing
\* else, /proc included, and everything listed can be asked for.
ListingExact ==
    PlainImages /\ fs.ready => \A x \in Dirs :
        LET n == fs_child_count(x)
            names == {fs_get_child_name(x, k) : k \in 0 .. n - 1}
            here == {basename(Path(i)) : i \in {j \in UsedNodes(fs) : Path(j) # <<>> /\ split_parent(Path(j)) = normalize_external_path(x)}}
            there == IF procfs_is_root(x) THEN {"self", "list"} \cup PidNames
                     ELSE IF normalize_external_path(x) = <<>> THEN here \cup {"proc"} ELSE here
        IN  /\ Cardinality(names) = n
            /\ fs_stat_type(x) = "DIR" /\ (x.names = normalize_external_path(x) \/ fs_is_root(x)) => names = there
            /\ \A c \in names : fs_stat_type(below(x, c)) # "NONE"

\* The node table, its links and buffers implement a plain tree of names in
\* which only what lies below /temp changes, one entry at a time.
TreeOf(f) == LET used == UsedNodes(f)
                 at == [p \in {f.nodes[i].path : i \in used} |-> CHOOSE i \in used : f.nodes[i].path = p]
             IN  [p \in DOMAIN at |-> IF f.nodes[at[p]].type = "DIR" THEN [dir |-> TRUE, bytes |-> <<>>]
                                      ELSE [dir |-> FALSE, bytes |-> FileBytes(f, at[p])]]
FM == INSTANCE FileMap WITH tree <- TreeOf(fs)
\* (FM!Spec, with the tree worked out once on each side of a step.)
ImplementsFileMap ==
    FM!Init /\ [][\E old \in {TreeOf(fs)}, new \in {TreeOf(fs')} : old = new \/ FM!Change(old, new)]_fs

\* The node table is a tree, read by index or by path; slots are reused without
\* leaving a stale link, and the directories the system was checked for at boot
\* stay.
NodeTable == FilesTypeOK /\ LinksMatchPaths /\ LayoutStays

\* Every heap buffer has one owner, and nothing the owner does to it is seen by
\* a library that was loaded from the ramdisk.
BuffersSound == BuffersOwned /\ LibraryImageStays

\* The file system's two arrays, of nodes and of buffers, stay what their users
\* take them for.
StoreSound == NodeTable /\ BuffersSound

=============================================================================
