------------------------------- MODULE Files -------------------------------
(***************************************************************************)
(* The file system: clks/kernel/fs.c (nodes in a fixed table, files below  *)
(* /temp in buffers of the kernel heap, the rest in the ramdisk image) and *)
(* clks/kernel/ramdisk.c (the tar image it is built from at boot).         *)
(*                                                                         *)
(* The state is the record fs; every function of fs.c is an operator from  *)
(* the record before to the record after.  A path inside the file system   *)
(* is the sequence of its names; a path from outside is a record that says *)
(* whether it begins with a slash, and what stands between its slashes.    *)
(***************************************************************************)
EXTENDS Integers, Sequences, FiniteSets, FiniteSetsExt, SequencesExt, TLC

CONSTANTS MAX_NODES,   \* CLKS_FS_MAX_NODES
          PATH_MAX,    \* CLKS_FS_PATH_MAX, in characters with the final NUL
          BLOCK,       \* CLKS_TAR_BLOCK_SIZE
          HEAP_BUFS,   \* how many kernel heap buffers there is room for
          Ram,         \* the ramdisk's payloads: buffer |-> bytes
          Images       \* the ramdisk images the kernel may be booted with

ASSUME FilesAssumption ==
    /\ MAX_NODES \in Nat \ {0} /\ PATH_MAX \in Nat \ {0} /\ BLOCK \in Nat \ {0}
    /\ HEAP_BUFS \in Nat
    /\ DOMAIN Ram \in SUBSET Int /\ DOMAIN Ram \cap (-1 .. HEAP_BUFS) = {}
    /\ Ram \in [DOMAIN Ram -> Seq(0 .. 255)]

VARIABLE fs

\* Buffers: the heap's are 1 .. HEAP_BUFS, the ramdisk's have other numbers.
NULL == 0
EMPTY_DATA == -1                  \* clks_fs_empty_file_data
Freed == <<-1>>                   \* what a free buffer holds; no byte is negative
HeapBufs == 1 .. HEAP_BUFS
NodeIds == 0 .. MAX_NODES - 1
NoPath == <<"">>                  \* no path ends in an empty name

FreeNode == [used |-> FALSE, type |-> "FILE", parent |-> 0, heap |-> FALSE,
             data |-> NULL, size |-> 0, path |-> <<>>]

(***************************************************************************)
(* The kernel heap, as far as the file system sees it (Heap.tla has the    *)
(* rest): the first free buffer, or NULL.                                  *)
(***************************************************************************)
kmalloc(f) == LET free == {b \in HeapBufs : f.mem[b] = Freed}
              IN  IF free = {} THEN NULL ELSE Min(free)
kfree(f, b) == [f EXCEPT !.mem[b] = Freed]
fill(f, b, bytes) == [f EXCEPT !.mem[b] = bytes]

(***************************************************************************)
(* Paths.                                                                  *)
(***************************************************************************)
path_len(p) == LET upto[k \in 0 .. Len(p)] == IF k = 0 THEN -1 ELSE upto[k - 1] + 1 + Len(p[k])
               IN  IF p = <<>> THEN 0 ELSE upto[Len(p)]

fits(p) == path_len(p) < PATH_MAX

\* Empty names and dots are passed over, one component after the other.
components(names) ==
    LET kept[k \in 0 .. Len(names)] ==
            IF k = 0 THEN <<>>
            ELSE IF names[k] \in {"", "."} THEN kept[k - 1] ELSE Append(kept[k - 1], names[k])
    IN  kept[Len(names)]

if_it_fits(p) == IF fits(p) THEN p ELSE NoPath
normalize_external_path(x) ==
    IF x.slash /\ ".." \notin ToSet(x.names) THEN if_it_fits(components(x.names)) ELSE NoPath

\* Mutant: everything but the root may be written.
in_temp_tree_any(p) == p # <<>>
in_temp_tree(p) == p # <<>> /\ Head(p) = "temp"

is_temp_file_path(p) == in_temp_tree(p) /\ Len(p) > 1
split_parent(p) == IF p = <<>> THEN <<>> ELSE SubSeq(p, 1, Len(p) - 1)
basename(p) == IF p = <<>> THEN "" ELSE p[Len(p)]

(***************************************************************************)
(* The node table.                                                         *)
(***************************************************************************)
UsedNodes(f) == {i \in 0 .. f.count - 1 : f.nodes[i].used}

find_node(f, p) == LET hits == {i \in UsedNodes(f) : f.nodes[i].path = p}
                   IN  IF hits = {} THEN -1 ELSE Min(hits)

find_external(f, x) == LET p == normalize_external_path(x)
                       IN  IF p = NoPath THEN -1 ELSE find_node(f, p)

\* The first hole, else the next fresh slot, else none.
alloc_slot(f) == LET holes == {i \in 0 .. f.count - 1 : ~f.nodes[i].used}
                 IN  IF holes # {} THEN Min(holes)
                     ELSE IF f.count < MAX_NODES THEN f.count ELSE -1

Failed(f) == [fs |-> f, at |-> -1]

\* Mutant: the slot's new owner keeps the parent of the last one.
new_node_old_parent(old, p, type, parent, data, size) ==
    [used |-> TRUE, type |-> type, parent |-> old.parent, heap |-> FALSE, path |-> p,
     data |-> IF type = "FILE" THEN data ELSE NULL,
     size |-> IF type = "FILE" THEN size ELSE 0]

\* What the slot is filled with; nothing of its last owner stays.
new_node(old, p, type, parent, data, size) ==
    [used |-> TRUE, type |-> type, parent |-> parent, heap |-> FALSE, path |-> p,
     data |-> IF type = "FILE" THEN data ELSE NULL,
     size |-> IF type = "FILE" THEN size ELSE 0]

create_or_update_node(f, p, type, parent, data, size) ==
    LET update(old) ==
            IF f.nodes[old].type # type THEN Failed(f)
            ELSE [at |-> old,
                  fs |-> [f EXCEPT !.nodes[old] =
                            IF type = "DIR" THEN [@ EXCEPT !.parent = parent]
                            ELSE [@ EXCEPT !.parent = parent, !.data = data, !.size = size, !.heap = FALSE]]]
        create(slot) ==
            IF slot < 0 THEN Failed(f)
            ELSE [at |-> slot,
                  fs |-> [f EXCEPT !.count = IF slot = @ THEN @ + 1 ELSE @,
                                   !.nodes[slot] = new_node(@, p, type, parent, data, size)]]
        place(old) == IF old >= 0 THEN update(old) ELSE create(alloc_slot(f))
    IN  IF fits(p) THEN place(find_node(f, p)) ELSE Failed(f)

may_enter(node) == node.type = "DIR"

\* One name after the other, each found or made below the last.  A trailing
\* slash (a last name that is empty) ends the walk; an empty name within fails.
enter(acc, prefix, at) == IF at < 0 THEN create_or_update_node(acc.fs, prefix, "DIR", acc.at, NULL, 0)
                          ELSE IF ~may_enter(acc.fs.nodes[at]) THEN Failed(acc.fs)
                          ELSE [acc EXCEPT !.at = at]
descend(acc, prefix) == IF acc.at < 0 THEN acc
                        ELSE IF basename(prefix) = "" THEN Failed(acc.fs)
                        ELSE enter(acc, prefix, find_node(acc.fs, prefix))
ensure_dir_hierarchy(f, p) ==
    LET walk[k \in 0 .. Len(p)] ==
            IF k = 0 THEN [fs |-> f, at |-> 0]
            ELSE IF k = Len(p) /\ p[k] = "" THEN walk[k - 1] ELSE descend(walk[k - 1], SubSeq(p, 1, k))
    IN  walk[Len(p)]

node_release_heap_data(f, i) ==
    IF f.nodes[i].type # "FILE" THEN f
    ELSE LET g == IF f.nodes[i].heap /\ f.nodes[i].data # NULL THEN kfree(f, f.nodes[i].data) ELSE f
         IN  [g EXCEPT !.nodes[i].heap = FALSE]

(***************************************************************************)
(* Boot: the tar image.  An image is its size in bytes and its blocks; a   *)
(* block is a header, a block of zeros or part of a payload.               *)
(***************************************************************************)
BLANK == -1                       \* a space or a NUL in a size field
ZeroBlock == [flag |-> "zero", raw |-> <<>>, size |-> <<>>, buf |-> NULL]

\* A size field: blanks, then octal digits up to the next blank.  Twelve
\* digits stay far below 2^64, so the code's overflow check cannot fire.
octal_value(ds) ==
    LET value[k \in 0 .. Len(ds)] == IF k = 0 THEN 0 ELSE 8 * value[k - 1] + ds[k]
    IN  IF \E k \in DOMAIN ds : ds[k] \notin 0 .. 7 THEN -1 ELSE value[Len(ds)]
parse_octal_u64(field) ==
    LET from(first) == IF first = 0 THEN <<>> ELSE SubSeq(field, first, Len(field))
        upto(rest, stop) == IF stop = 0 THEN rest ELSE SubSeq(rest, 1, stop - 1)
        digits(rest) == upto(rest, SelectInSeq(rest, LAMBDA c : c = BLANK))
    IN  octal_value(digits(from(SelectInSeq(field, LAMBDA c : c # BLANK))))

\* An image is made of tar blocks, and what follows the header of a file is as
\* long as the header says.
ASSUME ImagesAssumption ==
    \A image \in Images :
        /\ image.size \in Nat /\ Len(image.blocks) \in Nat
        /\ \A k \in 1 .. Len(image.blocks) :
             LET h == image.blocks[k]
                 size == parse_octal_u64(h.size)
             IN  /\ h.raw \in Seq(STRING) /\ h.size \in Seq(Int) /\ h.buf \in Int
                 /\ h.flag = "0" /\ size > 0 => h.buf \in DOMAIN Ram /\ size = Len(Ram[h.buf])

\* Leading "./" and "/" go, then trailing slashes; nothing left is no path.
without_lead(raw) == IF raw = <<>> THEN <<>>
                     ELSE SubSeq(raw, Max({k \in 0 .. Len(raw) - 1 : \A j \in 1 .. k : raw[j] \in {"", "."}}) + 1, Len(raw))
without_end(body) == SubSeq(body, 1, Min({k \in 0 .. Len(body) : \A j \in k + 1 .. Len(body) : body[j] = ""}))
named(p) == IF p = <<>> THEN NoPath ELSE if_it_fits(p)
build_path(raw) == named(without_end(without_lead(raw)))

\* clks_fs_ramdisk_visit: [fs, at], at < 0 when the image is refused.
ramdisk_visit(f, h) ==
    LET file(dirs, p) ==
            IF dirs.at < 0 \/ find_node(dirs.fs, split_parent(p)) < 0 THEN Failed(dirs.fs)
            ELSE create_or_update_node(dirs.fs, p, "FILE", find_node(dirs.fs, split_parent(p)), h.buf, parse_octal_u64(h.size))
        visit(p) == CASE p = NoPath \/ h.flag \notin {"5", "0"} -> [fs |-> f, at |-> 0]
                      [] p # NoPath /\ h.flag = "5" -> ensure_dir_hierarchy(f, p)
                      [] p # NoPath /\ h.flag = "0" -> file(ensure_dir_hierarchy(f, split_parent(p)), p)
    IN  visit(build_path(h.raw))

align_block(n) == ((n + BLOCK - 1) \div BLOCK) * BLOCK

\* clks_ramdisk_iterate: "on" while headers follow, then "end" or "refused".
ramdisk_iterate(f, image) ==
    LET advance(visited, off) == [fs |-> visited.fs, st |-> IF visited.at < 0 THEN "refused" ELSE "on", off |-> off]
        header(acc, off, h, size) ==
            IF off > image.size \/ h = ZeroBlock THEN [acc EXCEPT !.st = "end"]
            ELSE IF size < 0 \/ size > image.size - off THEN [acc EXCEPT !.st = "refused"]
            ELSE advance(ramdisk_visit(acc.fs, h), off + align_block(size))
        step(acc, k) == IF acc.st # "on" \/ acc.off # (k - 1) * BLOCK THEN acc
                        ELSE header(acc, k * BLOCK, image.blocks[k], parse_octal_u64(image.blocks[k].size))
        run[k \in 0 .. Len(image.blocks)] ==
            IF k = 0 THEN [fs |-> f, st |-> "on", off |-> 0] ELSE step(run[k - 1], k)
    IN  run[Len(image.blocks)]

RequiredDirs == {<<"system">>, <<"shell">>, <<"temp">>, <<"driver">>, <<"dev">>}

fs_init(image) ==
    LET blank == [nodes |-> [i \in NodeIds |-> FreeNode], count |-> 0, ready |-> FALSE,
                  mem |-> [b \in HeapBufs \cup DOMAIN Ram |-> IF b \in HeapBufs THEN Freed ELSE Ram[b]]]
        complete(f) == \A d \in RequiredDirs : \E i \in UsedNodes(f) : f.nodes[i].path = d /\ f.nodes[i].type = "DIR"
        checked(built) == [built.fs EXCEPT !.ready = built.st # "refused" /\ complete(built.fs)]
    IN  checked(ramdisk_iterate(create_or_update_node(blank, <<>>, "DIR", 0, NULL, 0).fs, image))

(***************************************************************************)
(* The operations.  Each returns [fs, ok]; read_all and stat change        *)
(* nothing.                                                                *)
(***************************************************************************)
Refuse(f) == [fs |-> f, ok |-> FALSE]

fs_stat(f, x) == LET i == find_external(f, x)
                 IN  IF ~f.ready \/ i < 0 THEN [type |-> "NONE", size |-> 0]
                     ELSE [type |-> f.nodes[i].type, size |-> f.nodes[i].size]

\* The buffer a caller gets to look at: NULL when there is no such file.
read_all(f, x) == LET i == find_external(f, x)
                  IN  IF ~f.ready \/ i < 0 THEN NULL
                      ELSE IF f.nodes[i].type # "FILE" THEN NULL
                      ELSE IF f.nodes[i].size = 0 THEN EMPTY_DATA ELSE f.nodes[i].data

BytesIn(f, b) == IF b \in {NULL, EMPTY_DATA} THEN <<>> ELSE f.mem[b]
FileBytes(f, i) == IF f.nodes[i].size = 0 THEN <<>> ELSE SubSeq(BytesIn(f, f.nodes[i].data), 1, f.nodes[i].size)

mkdir(f, x) ==
    LET made(r) == [fs |-> r.fs, ok |-> r.at >= 0]
        make(p) == IF ~f.ready \/ p = NoPath THEN Refuse(f)
                   ELSE IF ~in_temp_tree(p) THEN Refuse(f)
                   ELSE made(ensure_dir_hierarchy(f, p))
    IN  make(normalize_external_path(x))

give_back(f, buf) == IF buf = EMPTY_DATA THEN f ELSE kfree(f, buf)

\* The new contents are in a buffer of their own before the old one goes.
write_owned(made, buf) == IF made.at < 0 THEN Refuse(give_back(made.fs, buf))
                          ELSE [fs |-> [made.fs EXCEPT !.nodes[made.at].heap = buf # EMPTY_DATA], ok |-> TRUE]
release_old(f, old) == IF old >= 0 THEN node_release_heap_data(f, old) ELSE f
write_payload(f, p, old, buf, bytes) ==
    IF buf = NULL THEN Refuse(f)
    ELSE write_owned(create_or_update_node(release_old(IF buf = EMPTY_DATA THEN f ELSE fill(f, buf, bytes), old), p, "FILE",
                                           find_node(f, split_parent(p)), buf, Len(bytes)), buf)
write_node(f, p, old, bytes) ==
    IF old >= 0 /\ f.nodes[old].type # "FILE" THEN Refuse(f)
    ELSE write_payload(f, p, old, IF bytes = <<>> THEN EMPTY_DATA ELSE kmalloc(f), bytes)
write_below(dirs, p, bytes) == IF dirs.at < 0 THEN Refuse(dirs.fs)
                               ELSE write_node(dirs.fs, p, find_node(dirs.fs, p), bytes)
write_path(f, p, bytes) ==
    IF ~f.ready \/ p = NoPath THEN Refuse(f)
    ELSE IF ~is_temp_file_path(p) \/ ~in_temp_tree(split_parent(p)) THEN Refuse(f)
    ELSE write_below(ensure_dir_hierarchy(f, split_parent(p)), p, bytes)
write_all(f, x, bytes) == write_path(f, normalize_external_path(x), bytes)

\* A store from a buffer of its own, which is freed again.
release(r, buf) == [r EXCEPT !.fs = kfree(@, buf)]
store_copy(f, p, buf, bytes) == IF buf = NULL THEN Refuse(f)
                                ELSE release(write_path(fill(f, buf, bytes), p, bytes), buf)
append_path(f, p, i, bytes) ==
    IF ~f.ready \/ p = NoPath THEN Refuse(f)
    ELSE IF ~is_temp_file_path(p) THEN Refuse(f)
    ELSE IF i < 0 THEN write_path(f, p, bytes)
    ELSE IF f.nodes[i].type # "FILE" THEN Refuse(f)
    ELSE IF bytes = <<>> /\ f.nodes[i].size = 0 THEN write_path(f, p, <<>>)
    ELSE store_copy(f, p, kmalloc(f), FileBytes(f, i) \o bytes)
append(f, x, bytes) == append_path(f, normalize_external_path(x), find_external(f, x), bytes)

removable(p) == in_temp_tree(p) /\ p # <<"temp">>

occupied(f, i) == /\ f.nodes[i].type = "DIR"
                  /\ \E j \in UsedNodes(f) : f.nodes[j].parent = i

fs_remove(f, x) ==
    LET take(p, i) == IF ~f.ready \/ p = NoPath THEN Refuse(f)
                      ELSE IF ~removable(p) \/ i < 0 THEN Refuse(f)
                      ELSE IF occupied(f, i) THEN Refuse(f)
                      ELSE [fs |-> [node_release_heap_data(f, i) EXCEPT !.nodes[i] = FreeNode], ok |-> TRUE]
    IN  take(normalize_external_path(x), find_external(f, x))

Children(f, dir) == {i \in UsedNodes(f) : i # dir /\ f.nodes[i].parent = dir}

count_children(f, x) == LET d == find_external(f, x)
                        IN  IF ~f.ready \/ d < 0 THEN 0
                            ELSE IF f.nodes[d].type # "DIR" THEN 0 ELSE Cardinality(Children(f, d))

\* The child that has so many children in the slots before it.
child_at(children, index) == {i \in children : Cardinality({j \in children : j < i}) = index}
get_child_name(f, x, index) ==
    LET name(hit) == IF hit = {} THEN "" ELSE basename(f.nodes[Min(hit)].path)
        find(d) == IF ~f.ready \/ d < 0 THEN ""
                   ELSE IF f.nodes[d].type # "DIR" THEN "" ELSE name(child_at(Children(f, d), index))
    IN  find(find_external(f, x))

=============================================================================
