-------------------------- MODULE DescriptorsProofs --------------------------
(***************************************************************************)
(* For every size of the node table, of the heap and of the descriptor     *)
(* tables, and every ramdisk image: the node table is a tree whichever way *)
(* it is read, every buffer of a file is its own, and a listing is what it *)
(* should be.                                                              *)
(***************************************************************************)
EXTENDS Descriptors, Induction, SequenceTheorems, FiniteSetTheorems

Names == Seq(STRING)
Paths == [slash : BOOLEAN, names : Names]
Bytes == Seq(0 .. 255)
Buffers == HeapBufs \cup DOMAIN Ram

Node == [used : BOOLEAN, type : {"FILE", "DIR"}, parent : NodeIds, heap : BOOLEAN,
         data : Int, size : Nat, path : Names]
FsRec == [nodes : [NodeIds -> Node], count : 0 .. MAX_NODES, ready : BOOLEAN,
          mem : [Buffers -> Bytes \cup {Freed}]]

\* The last name of p is a name.
Called(p) == basename(p) # ""

\* The nodes as a tree: paths are unique and fit, and each node but the root lies in the
\* directory its path names.
Linked(f, i) ==
  f.nodes[i].path # <<>> =>
    LET up == f.nodes[f.nodes[i].parent]
    IN  up.used /\ up.type = "DIR" /\ up.path = split_parent(f.nodes[i].path) /\ Called(f.nodes[i].path)
Table(f) ==
  /\ f \in FsRec
  /\ \A i \in NodeIds : ~f.nodes[i].used => f.nodes[i] = FreeNode
  /\ \A i \in NodeIds : f.nodes[i].used => i < f.count /\ Linked(f, i)
  /\ \A i \in NodeIds : f.nodes[i].used => fits(f.nodes[i].path)
  /\ \A i, j \in NodeIds : f.nodes[i].used /\ f.nodes[j].used /\ f.nodes[i].path = f.nodes[j].path => i = j
  /\ f.nodes[0].used /\ f.nodes[0].type = "DIR" /\ f.nodes[0].path = <<>> /\ f.nodes[0].parent = 0

\* Where a node keeps its contents.
Content(f, i) ==
  LET n == f.nodes[i]
  IN  /\ n.type = "DIR" => ~n.heap /\ n.size = 0
      /\ n.heap => n.data \in HeapBufs /\ f.mem[n.data] # Freed /\ Len(f.mem[n.data]) = n.size /\ n.size > 0
      /\ ~n.heap /\ n.size > 0 => n.data \in DOMAIN Ram /\ Len(Ram[n.data]) = n.size

\* The heap's buffers are those of the files, and the ones in held, which are being filled.
Heap(f, held) ==
  /\ held \in SUBSET HeapBufs /\ \A b \in held : f.mem[b] # Freed
  /\ \A b \in DOMAIN Ram : f.mem[b] = Ram[b]
  /\ \A i \in NodeIds : Content(f, i)
  /\ \A i, j \in NodeIds : f.nodes[i].heap /\ f.nodes[j].heap /\ f.nodes[i].data = f.nodes[j].data => i = j
  /\ \A i \in NodeIds : f.nodes[i].heap => f.nodes[i].used /\ f.nodes[i].data \notin held
  /\ \A b \in HeapBufs \ held : f.mem[b] # Freed => \E i \in NodeIds : f.nodes[i].heap /\ f.nodes[i].data = b

FsOK(f, held) == Table(f) /\ Heap(f, held)

-----------------------------------------------------------------------------
(* Numbers, sequences and paths. *)

LEMMA Sizes ==
  /\ MAX_NODES \in Nat \ {0} /\ PATH_MAX \in Nat \ {0} /\ BLOCK \in Nat \ {0} /\ HEAP_BUFS \in Nat
  /\ DOMAIN Ram \in SUBSET Int /\ DOMAIN Ram \cap HeapBufs = {} /\ NULL \notin DOMAIN Ram /\ EMPTY_DATA \notin DOMAIN Ram
  /\ NULL \notin HeapBufs /\ EMPTY_DATA \notin HeapBufs /\ HeapBufs \in SUBSET Int /\ 0 \in NodeIds
  /\ NULL \in Int /\ EMPTY_DATA \in Int /\ NULL # EMPTY_DATA /\ NodeIds \in SUBSET Nat
  BY FilesAssumption DEF HeapBufs, NULL, EMPTY_DATA, NodeIds

LEMMA LeastOf == ASSUME NEW S \in SUBSET Nat, S # {} PROVE Min(S) \in S /\ \A m \in S : Min(S) <= m
<1>1. \E n \in S : \A m \in S : n <= m
  BY LeastNumber
<1> QED BY <1>1 DEF Min

LEMMA FreedIsNoFile == ASSUME NEW bytes \in Bytes PROVE bytes # Freed
<1> SUFFICES ASSUME bytes = Freed PROVE FALSE
  OBVIOUS
<1>1. Len(bytes) = 1 /\ bytes[1] = -1
  BY DEF Freed
<1>2. bytes \in [1 .. Len(bytes) -> 0 .. 255]
  BY LenProperties DEF Bytes
<1>3. 1 \in 1 .. Len(bytes)
  BY <1>1
<1>4. bytes[1] \in 0 .. 255
  BY <1>2, <1>3
<1> QED BY <1>1, <1>4

LEMMA Cut ==
  ASSUME NEW S, NEW s \in Seq(S), NEW k \in 0 .. Len(s)
  PROVE  /\ SubSeq(s, 1, k) \in Seq(S) /\ Len(SubSeq(s, 1, k)) = k
         /\ \A j \in 1 .. k : SubSeq(s, 1, k)[j] = s[j]
<1>1. \A j \in 1 .. k : s[j] \in S
  BY LenProperties
<1>2. k \in Int /\ 1 \in Int /\ Len(s) \in Nat
  BY LenProperties
<1> DEFINE c == SubSeq(s, 1, k)
<1>3. /\ c \in Seq(S) /\ Len(c) = (IF 1 <= k THEN k - 1 + 1 ELSE 0)
      /\ \A j \in 1 .. k - 1 + 1 : c[j] = s[1 + j - 1]
  BY <1>1, <1>2, SubSeqProperties
<1> HIDE DEF c
<1>4. c \in Seq(S) /\ Len(c) = k /\ \A j \in 1 .. k : c[j] = s[j]
  BY <1>2, <1>3
<1> QED BY <1>4 DEF c

LEMMA CutWhole == ASSUME NEW S, NEW s \in Seq(S) PROVE SubSeq(s, 1, Len(s)) = s
<1> DEFINE n == Len(s)
           c == SubSeq(s, 1, n)
<1>1. n \in Nat /\ n \in 0 .. n
  BY LenProperties
<1>2. c \in Seq(S) /\ Len(c) = n /\ \A j \in 1 .. n : c[j] = s[j]
  BY <1>1, Cut
<1> HIDE DEF c
<1>3. c = s
  BY <1>2, SeqEqual
<1> QED BY <1>3 DEF c

LEMMA CutTwice ==
  ASSUME NEW S, NEW s \in Seq(S), NEW k \in 0 .. Len(s), NEW j \in 0 .. k
  PROVE  SubSeq(SubSeq(s, 1, k), 1, j) = SubSeq(s, 1, j)
<1> DEFINE c == SubSeq(s, 1, k)
           d == SubSeq(c, 1, j)
           e == SubSeq(s, 1, j)
<1>1. Len(s) \in Nat /\ j \in 0 .. Len(s)
  BY LenProperties
<1>2. c \in Seq(S) /\ Len(c) = k /\ \A i \in 1 .. k : c[i] = s[i]
  BY Cut
<1> HIDE DEF c
<1>3. d \in Seq(S) /\ Len(d) = j /\ \A i \in 1 .. j : d[i] = c[i]
  BY <1>2, Cut
<1>4. e \in Seq(S) /\ Len(e) = j /\ \A i \in 1 .. j : e[i] = s[i]
  BY <1>1, Cut
<1> HIDE DEF d, e
<1>5. d = e
  BY <1>2, <1>3, <1>4, SeqEqual
<1> QED BY <1>5 DEF c, d, e

\* The directories above a path.
LEMMA Above ==
  ASSUME NEW p \in Names, p # <<>>
  PROVE  /\ Len(p) \in Nat \ {0} /\ split_parent(p) = SubSeq(p, 1, Len(p) - 1) /\ split_parent(p) \in Names
         /\ Len(split_parent(p)) = Len(p) - 1 /\ basename(p) = p[Len(p)]
<1>1. Len(p) \in Nat \ {0} /\ Len(p) - 1 \in 0 .. Len(p)
  BY EmptySeq DEF Names
<1>2. split_parent(p) = SubSeq(p, 1, Len(p) - 1) /\ basename(p) = p[Len(p)]
  BY DEF split_parent, basename
<1> DEFINE n == Len(p) - 1
<1> HIDE DEF n
<1>3. SubSeq(p, 1, n) \in Names /\ Len(SubSeq(p, 1, n)) = n
  BY <1>1, Cut DEF Names, n
<1> QED BY <1>1, <1>2, <1>3 DEF n

LEMMA Prefix ==
  ASSUME NEW p \in Names, NEW k \in 1 .. Len(p)
  PROVE  /\ SubSeq(p, 1, k) \in Names /\ Len(SubSeq(p, 1, k)) = k /\ SubSeq(p, 1, k) # <<>>
         /\ split_parent(SubSeq(p, 1, k)) = SubSeq(p, 1, k - 1) /\ basename(SubSeq(p, 1, k)) = p[k]
<1> DEFINE q == SubSeq(p, 1, k)
<1>1. Len(p) \in Nat /\ k \in 0 .. Len(p) /\ k - 1 \in 0 .. k
  BY LenProperties DEF Names
<1>2. q \in Names /\ Len(q) = k /\ \A j \in 1 .. k : q[j] = p[j]
  BY <1>1, Cut DEF Names
<1> DEFINE h == k - 1
<1> HIDE DEF h
<1>3. SubSeq(q, 1, h) = SubSeq(p, 1, h)
  BY <1>1, CutTwice DEF Names, h
<1> HIDE DEF q
<1>4. q # <<>>
  BY <1>2
<1>5. split_parent(q) = SubSeq(q, 1, Len(q) - 1) /\ basename(q) = q[Len(q)]
  BY <1>2, <1>4, Above
<1>6. q[Len(q)] = p[k]
  BY <1>1, <1>2
<1>7. split_parent(q) = SubSeq(q, 1, h) /\ basename(q) = p[k]
  BY <1>2, <1>5, <1>6 DEF h
<1> QED BY <1>2, <1>3, <1>4, <1>7 DEF q, h

-----------------------------------------------------------------------------
(* Records. *)

LEMMA NodeFields ==
  ASSUME NEW f \in FsRec, NEW i \in NodeIds
  PROVE  /\ f.nodes[i] \in Node /\ f.nodes[i].used \in BOOLEAN /\ f.nodes[i].type \in {"FILE", "DIR"}
         /\ f.nodes[i].parent \in NodeIds /\ f.nodes[i].heap \in BOOLEAN /\ f.nodes[i].data \in Int
         /\ f.nodes[i].size \in Nat /\ f.nodes[i].path \in Names
<1>1. f.nodes[i] \in Node
  BY DEF FsRec
<1> QED BY <1>1 DEF Node

LEMMA SameNode ==
  ASSUME NEW x \in Node, NEW y \in Node, x.used <=> y.used, x.type = y.type, x.parent = y.parent, x.heap <=> y.heap,
         x.data = y.data, x.size = y.size, x.path = y.path
  PROVE  x = y
<1>1. x.used \in BOOLEAN /\ y.used \in BOOLEAN /\ x.heap \in BOOLEAN /\ y.heap \in BOOLEAN
  BY DEF Node
<1>2. x.used = y.used /\ x.heap = y.heap
  BY <1>1
<1> QED BY <1>2 DEF Node

LEMMA FsFields ==
  ASSUME NEW f \in FsRec
  PROVE  /\ f.nodes \in [NodeIds -> Node] /\ f.count \in 0 .. MAX_NODES /\ f.count \in Nat /\ f.ready \in BOOLEAN
         /\ f.mem \in [Buffers -> Bytes \cup {Freed}]
  BY Sizes DEF FsRec

LEMMA FreeNodeType == FreeNode \in Node /\ ~FreeNode.used /\ ~FreeNode.heap /\ FreeNode.size = 0 /\ FreeNode.path = <<>>
<1>1. <<>> \in Names
  BY DEF Names
<1> QED BY <1>1, Sizes DEF FreeNode, Node

\* The used nodes are those of the table that say so.
LEMMA Used == ASSUME NEW f, Table(f) PROVE UsedNodes(f) = {i \in NodeIds : f.nodes[i].used}
<1>1. f.count \in 0 .. MAX_NODES /\ f.count \in Nat
  BY FsFields DEF Table
<1>2. \A i \in NodeIds : f.nodes[i].used => i < f.count
  BY DEF Table
<1>3. 0 .. f.count - 1 \subseteq NodeIds
  BY <1>1, Sizes DEF NodeIds
<1> QED BY <1>1, <1>2, <1>3, Sizes DEF UsedNodes

\* A path is found at the one node that has it, or nowhere.
LEMMA Found ==
  ASSUME NEW f, Table(f), NEW p
  PROVE  \/ find_node(f, p) = -1 /\ \A i \in NodeIds : f.nodes[i].used => f.nodes[i].path # p
         \/ /\ find_node(f, p) \in NodeIds /\ f.nodes[find_node(f, p)].used /\ f.nodes[find_node(f, p)].path = p
            /\ find_node(f, p) >= 0
<1> DEFINE hits == {i \in UsedNodes(f) : f.nodes[i].path = p}
<1>1. hits = {i \in NodeIds : f.nodes[i].used /\ f.nodes[i].path = p}
  BY Used
<1>2. CASE hits = {}
  BY <1>1, <1>2 DEF find_node
<1>3. CASE hits # {}
  <2>1. hits \in SUBSET Nat
    BY <1>1, Sizes
  <2>2. find_node(f, p) = Min(hits)
    BY <1>3 DEF find_node
  <2> HIDE DEF hits
  <2>3. Min(hits) \in hits
    BY <1>3, <2>1, LeastOf
  <2>4. \A m \in hits : m \in NodeIds /\ f.nodes[m].used /\ f.nodes[m].path = p /\ m >= 0
    BY <1>1, Sizes
  <2> QED BY <2>2, <2>3, <2>4
<1> QED BY <1>2, <1>3

LEMMA NotFound ==
  ASSUME NEW f, Table(f), NEW p, find_node(f, p) = -1 PROVE \A i \in NodeIds : f.nodes[i].used => f.nodes[i].path # p
<1> DEFINE k == find_node(f, p)
<1>1. \/ k = -1 /\ \A i \in NodeIds : f.nodes[i].used => f.nodes[i].path # p
      \/ k \in NodeIds /\ f.nodes[k].used /\ f.nodes[k].path = p /\ k >= 0
  BY Found
<1>2. k = -1
  OBVIOUS
<1> HIDE DEF k
<1> QED BY <1>1, <1>2

LEMMA FoundAt ==
  ASSUME NEW f, Table(f), NEW i \in NodeIds, f.nodes[i].used
  PROVE  find_node(f, f.nodes[i].path) = i
<1> DEFINE p == f.nodes[i].path
           k == find_node(f, p)
<1>1. \/ k = -1 /\ \A j \in NodeIds : f.nodes[j].used => f.nodes[j].path # p
      \/ k \in NodeIds /\ f.nodes[k].used /\ f.nodes[k].path = p
  BY Found
<1> HIDE DEF k
<1>2. k \in NodeIds /\ f.nodes[k].used /\ f.nodes[k].path = p
  BY <1>1
<1>3. k = i
  BY <1>2 DEF Table
<1> QED BY <1>3 DEF k

\* A slot for a new node is an unused one.
LEMMA Alloc ==
  ASSUME NEW f, Table(f)
  PROVE  \/ alloc_slot(f) = -1
         \/ /\ alloc_slot(f) \in NodeIds /\ ~f.nodes[alloc_slot(f)].used /\ alloc_slot(f) >= 0
            /\ alloc_slot(f) <= f.count /\ f.nodes[alloc_slot(f)] = FreeNode
<1> DEFINE holes == {i \in 0 .. f.count - 1 : ~f.nodes[i].used}
           k == alloc_slot(f)
<1>1. f.count \in 0 .. MAX_NODES /\ f.count \in Nat
  BY FsFields DEF Table
<1>2. 0 .. f.count - 1 \subseteq NodeIds
  BY <1>1, Sizes DEF NodeIds
<1>3. CASE holes # {}
  <2>1. holes \in SUBSET Nat
    BY <1>1
  <2>2. k = Min(holes)
    BY <1>3 DEF alloc_slot
  <2>3. \A m \in holes : m \in NodeIds /\ ~f.nodes[m].used /\ m >= 0 /\ m <= f.count
    BY <1>1, <1>2
  <2> HIDE DEF holes, k
  <2>4. Min(holes) \in holes
    BY <1>3, <2>1, LeastOf
  <2>5. k \in NodeIds /\ ~f.nodes[k].used /\ k >= 0 /\ k <= f.count
    BY <2>2, <2>3, <2>4
  <2>6. f.nodes[k] = FreeNode
    BY <2>5 DEF Table
  <2> QED BY <2>5, <2>6 DEF k
<1>4. CASE holes = {} /\ f.count < MAX_NODES
  <2>1. k = f.count
    BY <1>4 DEF alloc_slot
  <2>2. k \in NodeIds /\ k >= 0
    BY <1>1, <1>4, <2>1, Sizes DEF NodeIds
  <2> HIDE DEF k
  <2>3. ~f.nodes[k].used
    BY <1>1, <2>1, <2>2 DEF Table
  <2>4. f.nodes[k] = FreeNode
    BY <2>2, <2>3 DEF Table
  <2> QED BY <1>1, <2>1, <2>2, <2>3, <2>4 DEF k
<1>5. CASE holes = {} /\ ~(f.count < MAX_NODES)
  BY <1>5 DEF alloc_slot
<1> QED BY <1>3, <1>4, <1>5

-----------------------------------------------------------------------------
(* One node, or one buffer, at a time. *)

\* The node n lies in a directory of f, the one its path names.
Hung(f, n) ==
  /\ n.used /\ n.path # <<>> /\ Called(n.path) /\ fits(n.path)
  /\ f.nodes[n.parent].used /\ f.nodes[n.parent].type = "DIR" /\ f.nodes[n.parent].path = split_parent(n.path)

LEMMA TablePut ==
  ASSUME NEW f, Table(f), NEW g \in FsRec, NEW i \in NodeIds, NEW n \in Node,
         g.nodes = [f.nodes EXCEPT ![i] = n], Hung(f, n), f.count <= g.count, i < g.count,
         \A j \in NodeIds : f.nodes[j].used /\ f.nodes[j].path = n.path => j = i,
         f.nodes[i].used => n.path = f.nodes[i].path /\ n.type = f.nodes[i].type
  PROVE  Table(g)
<1>1. f \in FsRec /\ f.nodes \in [NodeIds -> Node] /\ f.count \in Nat /\ g.count \in Nat
  BY FsFields DEF Table
<1>2. g.nodes[i] = n /\ \A j \in NodeIds : j # i => g.nodes[j] = f.nodes[j]
  BY <1>1
<1>3. i # 0
  BY DEF Table, Hung
<1>4. \A j \in NodeIds : f.nodes[j].used => g.nodes[j].used /\ g.nodes[j].path = f.nodes[j].path /\ g.nodes[j].type = f.nodes[j].type
  BY <1>2 DEF Hung
<1>5. n.parent \in NodeIds
  BY DEF Node
<1>6. \A j \in NodeIds : ~g.nodes[j].used => g.nodes[j] = FreeNode
  <2>1. \A j \in NodeIds : ~f.nodes[j].used => f.nodes[j] = FreeNode
    BY DEF Table
  <2>2. n.used
    BY DEF Hung
  <2> QED BY <1>2, <2>1, <2>2
<1>7. \A j \in NodeIds : g.nodes[j].used => j < g.count
  <2> SUFFICES ASSUME NEW j \in NodeIds, g.nodes[j].used PROVE j < g.count
    OBVIOUS
  <2>1. CASE j = i
    BY <2>1
  <2>2. CASE j # i
    <3>1. j < f.count
      BY <1>2, <2>2 DEF Table
    <3>2. j \in Nat
      BY Sizes
    <3> QED BY <1>1, <3>1, <3>2
  <2> QED BY <2>1, <2>2
<1>8. \A j \in NodeIds : g.nodes[j].used => Linked(g, j)
  <2> SUFFICES ASSUME NEW j \in NodeIds, g.nodes[j].used PROVE Linked(g, j)
    OBVIOUS
  <2>1. CASE j = i
    BY <1>2, <1>4, <1>5, <2>1 DEF Linked, Hung
  <2>2. CASE j # i
    <3>1. g.nodes[j] = f.nodes[j] /\ Linked(f, j) /\ f.nodes[j].parent \in NodeIds
      BY <1>1, <1>2, <2>2, NodeFields DEF Table
    <3> QED BY <1>4, <3>1 DEF Linked
  <2> QED BY <2>1, <2>2
<1>9. \A j, k \in NodeIds : g.nodes[j].used /\ g.nodes[k].used /\ g.nodes[j].path = g.nodes[k].path => j = k
  BY <1>2 DEF Table
<1>10. g.nodes[0].used /\ g.nodes[0].type = "DIR" /\ g.nodes[0].path = <<>> /\ g.nodes[0].parent = 0
  BY <1>2, <1>3, Sizes DEF Table
<1>11. \A j \in NodeIds : g.nodes[j].used => fits(g.nodes[j].path)
  BY <1>2 DEF Table, Hung
<1> QED BY <1>6, <1>7, <1>8, <1>9, <1>10, <1>11 DEF Table

LEMMA TableTake ==
  ASSUME NEW f, Table(f), NEW g \in FsRec, NEW i \in NodeIds, i # 0,
         g.nodes = [f.nodes EXCEPT ![i] = FreeNode], g.count = f.count,
         \A j \in NodeIds : f.nodes[j].used /\ f.nodes[j].path # <<>> => f.nodes[j].parent # i
  PROVE  Table(g)
<1>1. f \in FsRec /\ f.nodes \in [NodeIds -> Node]
  BY FsFields DEF Table
<1>2. g.nodes[i] = FreeNode /\ \A j \in NodeIds : j # i => g.nodes[j] = f.nodes[j]
  BY <1>1
<1>3. ~FreeNode.used
  BY FreeNodeType
<1>4. \A j \in NodeIds : ~g.nodes[j].used => g.nodes[j] = FreeNode
  BY <1>2 DEF Table
<1>5. \A j \in NodeIds : g.nodes[j].used => j < g.count /\ Linked(g, j)
  <2> SUFFICES ASSUME NEW j \in NodeIds, g.nodes[j].used PROVE j < g.count /\ Linked(g, j)
    OBVIOUS
  <2>1. j # i /\ g.nodes[j] = f.nodes[j] /\ f.nodes[j].used
    BY <1>2, <1>3
  <2>2. j < f.count /\ Linked(f, j) /\ f.nodes[j].parent \in NodeIds
    BY <1>1, <2>1, NodeFields DEF Table
  <2>3. Linked(g, j)
    BY <1>2, <2>1, <2>2 DEF Linked
  <2> QED BY <2>2, <2>3
<1>6. \A j, k \in NodeIds : g.nodes[j].used /\ g.nodes[k].used /\ g.nodes[j].path = g.nodes[k].path => j = k
  BY <1>2, <1>3 DEF Table
<1>7. g.nodes[0].used /\ g.nodes[0].type = "DIR" /\ g.nodes[0].path = <<>> /\ g.nodes[0].parent = 0
  BY <1>2, Sizes DEF Table
<1>8. \A j \in NodeIds : g.nodes[j].used => fits(g.nodes[j].path)
  BY <1>2, <1>3 DEF Table
<1> QED BY <1>4, <1>5, <1>6, <1>7, <1>8 DEF Table

\* A node changes hands: its old buffer goes, its new one was free.
LEMMA HeapPut ==
  ASSUME NEW f \in FsRec, NEW H, Heap(f, H), NEW g \in FsRec, NEW i \in NodeIds, NEW n \in Node,
         g.nodes = [f.nodes EXCEPT ![i] = n], Content(g, i),
         n.heap => n.used /\ f.mem[n.data] = Freed /\ n.data \notin H,
         f.nodes[i].heap => g.mem[f.nodes[i].data] = Freed,
         \A b \in Buffers : \/ n.heap /\ b = n.data
                            \/ f.nodes[i].heap /\ b = f.nodes[i].data
                            \/ g.mem[b] = f.mem[b]
  PROVE  Heap(g, H)
<1>1. f.nodes \in [NodeIds -> Node] /\ HeapBufs \subseteq Buffers /\ DOMAIN Ram \subseteq Buffers /\ HeapBufs \cap DOMAIN Ram = {}
  BY FsFields, Sizes DEF Buffers
<1>2. g.nodes[i] = n /\ \A j \in NodeIds : j # i => g.nodes[j] = f.nodes[j]
  BY <1>1
<1>3. n.heap => n.data \in HeapBufs
  BY <1>2 DEF Content
<1>4. f.nodes[i].heap => f.nodes[i].data \in HeapBufs /\ f.nodes[i].data \notin H
  BY DEF Heap, Content
<1>5. H \in SUBSET HeapBufs /\ \A b \in H : g.mem[b] # Freed
  BY <1>1, <1>3, <1>4 DEF Heap
<1>6. \A b \in DOMAIN Ram : g.mem[b] = Ram[b]
  BY <1>1, <1>3, <1>4 DEF Heap
<1>7. \A j \in NodeIds : j # i /\ f.nodes[j].heap => f.nodes[j].data \in HeapBufs /\ g.mem[f.nodes[j].data] = f.mem[f.nodes[j].data]
  <2> SUFFICES ASSUME NEW j \in NodeIds, j # i, f.nodes[j].heap
               PROVE f.nodes[j].data \in HeapBufs /\ g.mem[f.nodes[j].data] = f.mem[f.nodes[j].data]
    OBVIOUS
  <2>1. f.nodes[j].data \in HeapBufs /\ f.mem[f.nodes[j].data] # Freed
    BY DEF Heap, Content
  <2>2. ~(f.nodes[i].heap /\ f.nodes[j].data = f.nodes[i].data)
    BY DEF Heap
  <2> QED BY <1>1, <2>1, <2>2
<1>8. \A j \in NodeIds : Content(g, j)
  <2> SUFFICES ASSUME NEW j \in NodeIds, j # i PROVE Content(g, j)
    OBVIOUS
  <2>1. g.nodes[j] = f.nodes[j] /\ Content(f, j)
    BY <1>2 DEF Heap
  <2> QED BY <1>7, <2>1 DEF Content
<1>9. \A j, k \in NodeIds : g.nodes[j].heap /\ g.nodes[k].heap /\ g.nodes[j].data = g.nodes[k].data => j = k
  <2>1. \A j \in NodeIds : j # i /\ f.nodes[j].heap /\ n.heap => f.nodes[j].data # n.data
    BY DEF Heap, Content
  <2> QED BY <1>2, <2>1 DEF Heap
<1>10. \A j \in NodeIds : g.nodes[j].heap => g.nodes[j].used /\ g.nodes[j].data \notin H
  BY <1>2 DEF Heap
<1>11. \A b \in HeapBufs \ H : g.mem[b] # Freed => \E j \in NodeIds : g.nodes[j].heap /\ g.nodes[j].data = b
  <2> SUFFICES ASSUME NEW b \in HeapBufs \ H, g.mem[b] # Freed PROVE \E j \in NodeIds : g.nodes[j].heap /\ g.nodes[j].data = b
    OBVIOUS
  <2>1. CASE n.heap /\ b = n.data
    BY <1>2, <2>1
  <2>2. CASE ~(n.heap /\ b = n.data)
    <3>1. ~(f.nodes[i].heap /\ b = f.nodes[i].data) /\ f.mem[b] # Freed
      BY <1>1, <2>2
    <3>2. PICK j \in NodeIds : f.nodes[j].heap /\ f.nodes[j].data = b
      BY <3>1 DEF Heap
    <3> QED BY <1>2, <3>1, <3>2
  <2> QED BY <2>1, <2>2
<1> QED BY <1>5, <1>6, <1>8, <1>9, <1>10, <1>11 DEF Heap

\* A buffer is taken, to be filled, or given back.
LEMMA HeapHeld ==
  ASSUME NEW f \in FsRec, NEW H, Heap(f, H), NEW b \in HeapBufs, f.mem[b] = Freed, NEW bytes \in Bytes,
         NEW g, g = fill(f, b, bytes)
  PROVE  g \in FsRec /\ Heap(g, H \cup {b}) /\ g.nodes = f.nodes /\ g.count = f.count
<1>1. f.mem \in [Buffers -> Bytes \cup {Freed}] /\ HeapBufs \subseteq Buffers /\ HeapBufs \cap DOMAIN Ram = {} /\ DOMAIN Ram \subseteq Buffers
  BY FsFields, Sizes DEF Buffers
<1>2. g \in FsRec /\ g.nodes = f.nodes /\ g.count = f.count /\ g.ready = f.ready /\ g.mem = [f.mem EXCEPT ![b] = bytes]
  BY <1>1 DEF fill, FsRec
<1>3. g.mem[b] = bytes /\ bytes # Freed /\ \A c \in Buffers : c # b => g.mem[c] = f.mem[c]
  BY <1>1, <1>2, FreedIsNoFile
<1>4. \A j \in NodeIds : f.nodes[j].heap => f.nodes[j].data # b /\ f.nodes[j].data \in HeapBufs
  BY DEF Heap, Content
<1>5. \A j \in NodeIds : Content(g, j)
  <2> SUFFICES ASSUME NEW j \in NodeIds PROVE Content(g, j)
    OBVIOUS
  <2>1. Content(f, j)
    BY DEF Heap
  <2> QED BY <1>1, <1>2, <1>3, <1>4, <2>1 DEF Content
<1>6. Heap(g, H \cup {b})
  BY <1>1, <1>2, <1>3, <1>4, <1>5 DEF Heap
<1> QED BY <1>2, <1>6

LEMMA HeapHold ==
  ASSUME NEW f \in FsRec, NEW H, Heap(f, H), NEW b \in HeapBufs, f.mem[b] = Freed, NEW bytes \in Bytes
  PROVE  /\ fill(f, b, bytes) \in FsRec /\ Heap(fill(f, b, bytes), H \cup {b})
         /\ fill(f, b, bytes).nodes = f.nodes /\ fill(f, b, bytes).count = f.count /\ fill(f, b, bytes).ready = f.ready
         /\ fill(f, b, bytes).mem = [f.mem EXCEPT ![b] = bytes]
<1> DEFINE g == fill(f, b, bytes)
<1>1. f.mem \in [Buffers -> Bytes \cup {Freed}] /\ HeapBufs \subseteq Buffers /\ HeapBufs \cap DOMAIN Ram = {} /\ DOMAIN Ram \subseteq Buffers
  BY FsFields, Sizes DEF Buffers
<1>2. g \in FsRec /\ g.nodes = f.nodes /\ g.count = f.count /\ g.ready = f.ready /\ g.mem = [f.mem EXCEPT ![b] = bytes]
  BY <1>1 DEF fill, FsRec
<1> HIDE DEF g
<1>3. g.mem[b] = bytes /\ bytes # Freed /\ \A c \in Buffers : c # b => g.mem[c] = f.mem[c]
  BY <1>1, <1>2, FreedIsNoFile
<1>4. \A j \in NodeIds : f.nodes[j].heap => f.nodes[j].data # b /\ f.nodes[j].data \in HeapBufs
  BY DEF Heap, Content
<1>5. \A j \in NodeIds : Content(g, j)
  <2> SUFFICES ASSUME NEW j \in NodeIds PROVE Content(g, j)
    OBVIOUS
  <2>1. Content(f, j)
    BY DEF Heap
  <2> QED BY <1>1, <1>2, <1>3, <1>4, <2>1 DEF Content
<1>6. Heap(g, H \cup {b})
  BY <1>1, <1>2, <1>3, <1>4, <1>5 DEF Heap
<1> QED BY <1>2, <1>6 DEF g

LEMMA HeapRelease ==
  ASSUME NEW f \in FsRec, NEW H, Heap(f, H), NEW b \in H
  PROVE  /\ kfree(f, b) \in FsRec /\ Heap(kfree(f, b), H \ {b})
         /\ kfree(f, b).nodes = f.nodes /\ kfree(f, b).count = f.count /\ kfree(f, b).ready = f.ready
         /\ kfree(f, b).mem = [f.mem EXCEPT ![b] = Freed]
<1> DEFINE g == kfree(f, b)
<1>1. f.mem \in [Buffers -> Bytes \cup {Freed}] /\ HeapBufs \subseteq Buffers /\ HeapBufs \cap DOMAIN Ram = {} /\ DOMAIN Ram \subseteq Buffers
  BY FsFields, Sizes DEF Buffers
<1>2. b \in HeapBufs
  BY DEF Heap
<1>3. g \in FsRec /\ g.nodes = f.nodes /\ g.count = f.count /\ g.ready = f.ready /\ g.mem = [f.mem EXCEPT ![b] = Freed]
  BY <1>1, <1>2 DEF kfree, FsRec
<1> HIDE DEF g
<1>4. g.mem[b] = Freed /\ \A c \in Buffers : c # b => g.mem[c] = f.mem[c]
  BY <1>1, <1>2, <1>3
<1>5. \A j \in NodeIds : f.nodes[j].heap => f.nodes[j].data # b /\ f.nodes[j].data \in HeapBufs
  BY DEF Heap, Content
<1>6. \A j \in NodeIds : Content(g, j)
  <2> SUFFICES ASSUME NEW j \in NodeIds PROVE Content(g, j)
    OBVIOUS
  <2>1. Content(f, j)
    BY DEF Heap
  <2> QED BY <1>1, <1>3, <1>4, <1>5, <2>1 DEF Content
<1>7. Heap(g, H \ {b})
  BY <1>1, <1>2, <1>3, <1>4, <1>5, <1>6 DEF Heap
<1> QED BY <1>3, <1>7 DEF g

\* kmalloc gives a free buffer or none.
LEMMA Malloc ==
  ASSUME NEW f
  PROVE  kmalloc(f) = NULL \/ (kmalloc(f) \in HeapBufs /\ f.mem[kmalloc(f)] = Freed)
<1> DEFINE free == {b \in HeapBufs : f.mem[b] = Freed}
<1>1. CASE free = {}
  BY <1>1 DEF kmalloc
<1>2. CASE free # {}
  <2>1. free \in SUBSET Nat
    BY Sizes DEF HeapBufs
  <2>2. kmalloc(f) = Min(free)
    BY <1>2 DEF kmalloc
  <2>3. \A b \in free : b \in HeapBufs /\ f.mem[b] = Freed
    OBVIOUS
  <2> HIDE DEF free
  <2>4. Min(free) \in free
    BY <1>2, <2>1, LeastOf
  <2> QED BY <2>2, <2>3, <2>4
<1> QED BY <1>1, <1>2

-----------------------------------------------------------------------------
(* What a file holds. *)

LEMMA NothingHeld == ASSUME NEW f, NEW i, ~f.nodes[i].heap, f.nodes[i].size = 0 PROVE Content(f, i)
  BY DEF Content

LEMMA Holds ==
  ASSUME NEW f \in FsRec, NEW H, Heap(f, H), NEW i \in NodeIds
  PROVE  /\ FileBytes(f, i) \in Bytes /\ Len(FileBytes(f, i)) = f.nodes[i].size
         /\ f.nodes[i].size = 0 => FileBytes(f, i) = <<>>
         /\ f.nodes[i].size > 0 => FileBytes(f, i) = f.mem[f.nodes[i].data] /\ f.nodes[i].data \in Buffers
<1> DEFINE n == f.nodes[i]
           c == f.mem[n.data]
<1>1. n.size \in Nat /\ n.heap \in BOOLEAN /\ n.data \in Int
  BY NodeFields
<1>2. CASE n.size = 0
  <2>1. FileBytes(f, i) = <<>>
    BY <1>2 DEF FileBytes
  <2>2. <<>> \in Bytes /\ Len(<<>>) = 0
    BY EmptySeq DEF Bytes
  <2> QED BY <1>2, <2>1, <2>2
<1>3. CASE n.size > 0
  <2>1. n.data \in Buffers /\ n.data # NULL /\ n.data # EMPTY_DATA
    BY <1>1, <1>3, Sizes DEF Heap, Content, Buffers
  <2>2. c \in Bytes /\ Len(c) = n.size
    <3>1. CASE n.heap
      <4>1. c # Freed /\ Len(c) = n.size
        BY <3>1 DEF Heap, Content
      <4> QED BY <2>1, <4>1, FsFields
    <3>2. CASE ~n.heap
      <4>1. n.data \in DOMAIN Ram /\ Len(Ram[n.data]) = n.size
        BY <1>3, <3>2 DEF Heap, Content
      <4>2. c = Ram[n.data] /\ Ram[n.data] \in Bytes
        BY <4>1, FilesAssumption DEF Heap, Bytes
      <4> QED BY <4>1, <4>2
    <3> QED BY <3>1, <3>2
  <2>3. BytesIn(f, n.data) = c /\ n.size # 0
    BY <1>1, <1>3, <2>1 DEF BytesIn
  <2>4. FileBytes(f, i) = SubSeq(c, 1, n.size)
    BY <2>3 DEF FileBytes
  <2> HIDE DEF c
  <2>5. FileBytes(f, i) = c
    BY <2>2, <2>4, CutWhole DEF Bytes
  <2>6. FileBytes(f, i) \in Bytes /\ Len(FileBytes(f, i)) = n.size
    BY <2>2, <2>5
  <2>7. FileBytes(f, i) = f.mem[n.data]
    BY <2>5 DEF c
  <2> QED BY <2>1, <2>3, <2>6, <2>7
<1> QED BY <1>1, <1>2, <1>3

\* What a node holds stays when neither the node nor its buffer changes.
LEMMA HoldsOn ==
  ASSUME NEW f, NEW g, NEW i, g.nodes[i].size = f.nodes[i].size, g.nodes[i].data = f.nodes[i].data,
         f.nodes[i].size # 0 => g.mem[f.nodes[i].data] = f.mem[f.nodes[i].data]
  PROVE  FileBytes(g, i) = FileBytes(f, i)
  BY DEF FileBytes, BytesIn

(* What the file system's functions do to the nodes, by path. *)

\* Node i is in g what it is in f.
Stays(f, g, i) == /\ g.nodes[i].used /\ g.nodes[i].path = f.nodes[i].path /\ g.nodes[i].type = f.nodes[i].type
                  /\ FileBytes(g, i) = FileBytes(f, i)

\* Directories were made on the way to p, nothing else.
IsAbove(q, p) == \E k \in 1 .. Len(p) : q = SubSeq(p, 1, k)
Grown(f, g, p) ==
  /\ g.ready = f.ready /\ g.mem = f.mem
  /\ \A i \in NodeIds : f.nodes[i].used => g.nodes[i] = f.nodes[i]
  /\ \A i \in NodeIds : g.nodes[i].used /\ ~f.nodes[i].used => g.nodes[i].type = "DIR" /\ IsAbove(g.nodes[i].path, p)

\* The file p was written, or directories were made on the way to it.
Stored(f, g, p) ==
  /\ g.ready = f.ready
  /\ \A i \in NodeIds : f.nodes[i].used =>
       /\ f.nodes[i].path # p => Stays(f, g, i)
       /\ g.nodes[i].used /\ g.nodes[i].path = f.nodes[i].path /\ g.nodes[i].type = f.nodes[i].type
  /\ \A i \in NodeIds : g.nodes[i].used /\ ~f.nodes[i].used =>
       IF g.nodes[i].path = p THEN g.nodes[i].type = "FILE"
       ELSE g.nodes[i].type = "DIR" /\ IsAbove(g.nodes[i].path, split_parent(p))

LEMMA GrownNot == ASSUME NEW f, NEW p PROVE Grown(f, f, p)
  BY DEF Grown

LEMMA GrownOn == ASSUME NEW f, NEW g, NEW h, NEW p, Grown(f, g, p), Grown(g, h, p) PROVE Grown(f, h, p)
  BY DEF Grown

LEMMA GrownStays ==
  ASSUME NEW f, NEW g, NEW p, Grown(f, g, p), NEW i \in NodeIds, f.nodes[i].used PROVE Stays(f, g, i)
<1>1. g.nodes[i] = f.nodes[i] /\ g.mem = f.mem
  BY DEF Grown
<1>2. FileBytes(g, i) = FileBytes(f, i)
  BY <1>1, HoldsOn
<1> QED BY <1>1, <1>2 DEF Stays

LEMMA StoredNot == ASSUME NEW f, NEW p PROVE Stored(f, f, p)
  BY DEF Stored, Stays

LEMMA StoredOn == ASSUME NEW f, NEW g, NEW h, NEW p, Stored(f, g, p), Stored(g, h, p) PROVE Stored(f, h, p)
<1>1. h.ready = f.ready
  BY DEF Stored
<1>2. ASSUME NEW i \in NodeIds, f.nodes[i].used
      PROVE  /\ f.nodes[i].path # p => Stays(f, h, i)
             /\ h.nodes[i].used /\ h.nodes[i].path = f.nodes[i].path /\ h.nodes[i].type = f.nodes[i].type
  BY <1>2 DEF Stored, Stays
<1>3. ASSUME NEW i \in NodeIds, h.nodes[i].used, ~f.nodes[i].used
      PROVE  IF h.nodes[i].path = p THEN h.nodes[i].type = "FILE"
             ELSE h.nodes[i].type = "DIR" /\ IsAbove(h.nodes[i].path, split_parent(p))
  <2>1. CASE g.nodes[i].used
    BY <1>3, <2>1 DEF Stored
  <2>2. CASE ~g.nodes[i].used
    BY <1>3, <2>2 DEF Stored
  <2> QED BY <2>1, <2>2
<1> QED BY <1>1, <1>2, <1>3 DEF Stored

LEMMA GrownStored ==
  ASSUME NEW f, NEW g, NEW p \in Names, p # <<>>, Grown(f, g, split_parent(p)) PROVE Stored(f, g, p)
<1>1. \A q : IsAbove(q, split_parent(p)) => q # p
  <2> SUFFICES ASSUME NEW k \in 1 .. Len(split_parent(p)) PROVE SubSeq(split_parent(p), 1, k) # p
    BY DEF IsAbove
  <2> DEFINE q == split_parent(p)
  <2>1. q \in Names /\ Len(q) = Len(p) - 1 /\ Len(p) \in Nat \ {0}
    BY Above
  <2> HIDE DEF q
  <2>2. k \in 1 .. Len(q)
    BY DEF q
  <2>3. Len(SubSeq(q, 1, k)) = k
    BY <2>1, <2>2, Prefix
  <2>4. k # Len(p)
    BY <2>1, <2>2
  <2> QED BY <2>3, <2>4 DEF q
<1>2. g.ready = f.ready
  BY DEF Grown
<1>3. \A i \in NodeIds : f.nodes[i].used => Stays(f, g, i)
  BY GrownStays
<1>4. \A i \in NodeIds : g.nodes[i].used /\ ~f.nodes[i].used => g.nodes[i].type = "DIR" /\ IsAbove(g.nodes[i].path, split_parent(p))
  BY DEF Grown
<1> QED BY <1>1, <1>2, <1>3, <1>4 DEF Stored, Stays

-----------------------------------------------------------------------------
(* clks_fs_create_or_update_node. *)

Fresh(p, type, parent, data, size) ==
  [used |-> TRUE, type |-> type, parent |-> parent, heap |-> FALSE, path |-> p,
   data |-> IF type = "FILE" THEN data ELSE NULL, size |-> IF type = "FILE" THEN size ELSE 0]

Updated(parent, p, data, size) == Fresh(p, "FILE", parent, data, size)

LEMMA FreshType ==
  ASSUME NEW p \in Names, NEW type \in {"FILE", "DIR"}, NEW parent \in NodeIds, NEW data \in Int, NEW size \in Nat
  PROVE  Fresh(p, type, parent, data, size) \in Node
  BY Sizes DEF Fresh, Node

\* One node is replaced, and nothing else changes.
Placed(f, g, i, n) ==
  /\ i \in NodeIds /\ i >= 0 /\ g \in FsRec /\ g.nodes = [f.nodes EXCEPT ![i] = n]
  /\ g.mem = f.mem /\ g.ready = f.ready /\ f.count <= g.count /\ i < g.count

LEMMA PlaceFresh ==
  ASSUME NEW f \in FsRec, NEW i \in NodeIds, NEW n \in Node, i <= f.count,
         NEW g, g = [f EXCEPT !.count = IF i = @ THEN @ + 1 ELSE @, !.nodes[i] = n]
  PROVE  Placed(f, g, i, n)
<1>1. f.nodes \in [NodeIds -> Node] /\ f.count \in Nat /\ f.count \in 0 .. MAX_NODES /\ f.ready \in BOOLEAN /\ f.mem \in [Buffers -> Bytes \cup {Freed}]
  BY FsFields
<1>2. i \in Nat /\ i < MAX_NODES
  BY Sizes DEF NodeIds
<1> DEFINE c == IF i = f.count THEN f.count + 1 ELSE f.count
           m == [f.nodes EXCEPT ![i] = n]
<1>3. g = [f EXCEPT !.count = c, !.nodes = m]
  BY <1>1
<1>4. c \in 0 .. MAX_NODES /\ f.count <= c /\ i < c
  BY <1>1, <1>2, Sizes
<1>5. m \in [NodeIds -> Node]
  BY <1>1
<1> HIDE DEF c, m
<1>6. g \in FsRec /\ g.nodes = m /\ g.count = c /\ g.mem = f.mem /\ g.ready = f.ready
  BY <1>3, <1>4, <1>5 DEF FsRec
<1>7. g.nodes = [f.nodes EXCEPT ![i] = n]
  BY <1>6 DEF m
<1> QED BY <1>2, <1>4, <1>6, <1>7 DEF Placed

LEMMA Create ==
  ASSUME NEW f, Table(f), NEW p \in Names, NEW type \in {"FILE", "DIR"}, NEW parent \in NodeIds, NEW data \in Int,
         NEW size \in Nat, find_node(f, p) = -1,
         NEW r, r = create_or_update_node(f, p, type, parent, data, size)
  PROVE  \/ r.at = -1 /\ r.fs = f
         \/ Placed(f, r.fs, r.at, Fresh(p, type, parent, data, size)) /\ f.nodes[r.at] = FreeNode /\ fits(p)
<1> DEFINE slot == alloc_slot(f)
           n == Fresh(p, type, parent, data, size)
           g == [f EXCEPT !.count = IF slot = @ THEN @ + 1 ELSE @, !.nodes[slot] = n]
           h == [f EXCEPT !.count = IF slot = @ THEN @ + 1 ELSE @, !.nodes[slot] = new_node(@, p, type, parent, data, size)]
<1>1. \/ slot = -1
      \/ slot \in NodeIds /\ slot >= 0 /\ slot <= f.count /\ f.nodes[slot] = FreeNode
  BY Alloc
<1>2. n \in Node /\ f \in FsRec
  BY FreshType DEF Table
<1>3. r = IF fits(p) THEN (IF slot < 0 THEN Failed(f) ELSE [at |-> slot, fs |-> h]) ELSE Failed(f)
  BY DEF create_or_update_node
<1>4. g = h
  BY DEF new_node, Fresh
<1>5. Failed(f).at = -1 /\ Failed(f).fs = f
  BY DEF Failed
<1> HIDE DEF slot, n, g, h
<1>6. CASE slot = -1
  BY <1>3, <1>5, <1>6
<1>7. CASE slot # -1 /\ fits(p)
  <2>1. slot \in NodeIds /\ slot >= 0 /\ slot <= f.count /\ f.nodes[slot] = FreeNode
    BY <1>1, <1>7
  <2>2. ~(slot < 0)
    BY <2>1, Sizes
  <2>3. r.at = slot /\ r.fs = g
    BY <1>3, <1>4, <1>7, <2>2
  <2>4. Placed(f, g, slot, n)
    BY <1>2, <2>1, PlaceFresh DEF g
  <2> QED BY <1>7, <2>1, <2>3, <2>4 DEF n
<1>8. CASE ~fits(p)
  BY <1>3, <1>5, <1>8
<1> QED BY <1>6, <1>7, <1>8

LEMMA Update ==
  ASSUME NEW f, Table(f), NEW p \in Names, NEW parent \in NodeIds, NEW data \in Int, NEW size \in Nat,
         NEW i, i = find_node(f, p), i # -1,
         NEW r, r = create_or_update_node(f, p, "FILE", parent, data, size)
  PROVE  IF fits(p) /\ f.nodes[i].type = "FILE"
         THEN r.at = i /\ Placed(f, r.fs, i, Updated(parent, p, data, size))
         ELSE r.at = -1 /\ r.fs = f
<1> DEFINE n == Updated(parent, p, data, size)
           h == [f EXCEPT !.nodes[i] = [@ EXCEPT !.parent = parent, !.data = data, !.size = size, !.heap = FALSE]]
           g == [f EXCEPT !.nodes[i] = n]
<1>1. i \in NodeIds /\ i >= 0 /\ f.nodes[i].used /\ f.nodes[i].path = p
  BY Found
<1>2. n \in Node /\ f \in FsRec /\ f.nodes[i] \in Node
  BY <1>1, FreshType, NodeFields DEF Table, Updated
<1>3. r = IF fits(p) THEN (IF f.nodes[i].type # "FILE" THEN Failed(f) ELSE [at |-> i, fs |-> h]) ELSE Failed(f)
  BY <1>1 DEF create_or_update_node
<1>4. Failed(f).at = -1 /\ Failed(f).fs = f
  BY DEF Failed
<1>5. CASE fits(p) /\ f.nodes[i].type = "FILE"
  <2> DEFINE old == f.nodes[i]
  <2>1. old \in Node /\ old.used = TRUE /\ old.type = "FILE" /\ old.path = p
    BY <1>1, <1>2, <1>5 DEF Node
  <2> HIDE DEF old
  <2> DEFINE u == [old EXCEPT !.parent = parent, !.data = data, !.size = size, !.heap = FALSE]
  <2>2. u \in Node
    BY <2>1 DEF Node
  <2>3. u.used /\ u.type = "FILE" /\ u.parent = parent /\ ~u.heap /\ u.path = p /\ u.data = data /\ u.size = size
    BY <2>1 DEF Node
  <2>4. n.used /\ n.type = "FILE" /\ n.parent = parent /\ ~n.heap /\ n.path = p /\ n.data = data /\ n.size = size
    BY DEF Updated, Fresh
  <2>5. u = n
    <3> HIDE DEF u, n
    <3> QED BY <1>2, <2>2, <2>3, <2>4, SameNode
  <2>6. [old EXCEPT !.parent = parent, !.data = data, !.size = size, !.heap = FALSE] = n
    BY <2>5 DEF u
  <2>7. g = h
    BY <2>6 DEF old
  <2> HIDE DEF h, n
  <2>8. r.at = i /\ r.fs = g
    BY <1>3, <1>5, <2>7
  <2>9. i < f.count /\ f.count \in Nat
    BY <1>1, FsFields DEF Table
  <2>10. g \in FsRec /\ g.nodes = [f.nodes EXCEPT ![i] = n] /\ g.mem = f.mem /\ g.ready = f.ready /\ g.count = f.count
    BY <1>1, <1>2 DEF FsRec
  <2> HIDE DEF g
  <2>11. Placed(f, g, i, n)
    BY <1>1, <2>9, <2>10 DEF Placed
  <2> QED BY <1>5, <2>8, <2>11 DEF n
<1>6. CASE ~(fits(p) /\ f.nodes[i].type = "FILE")
  BY <1>3, <1>4, <1>6
<1> QED BY <1>5, <1>6

-----------------------------------------------------------------------------
(* clks_fs_ensure_dir_hierarchy. *)

\* The directory q is node a.
At(f, a, q) == a \in NodeIds /\ a >= 0 /\ f.nodes[a].used /\ f.nodes[a].type = "DIR" /\ f.nodes[a].path = q

LEMMA CreateDir ==
  ASSUME NEW f, NEW H, FsOK(f, H), NEW q \in Names, q # <<>>, Called(q), NEW a, At(f, a, split_parent(q)),
         find_node(f, q) = -1, NEW r, r = create_or_update_node(f, q, "DIR", a, NULL, 0)
  PROVE  /\ FsOK(r.fs, H)
         /\ \/ r.at = -1 /\ r.fs = f
            \/ At(r.fs, r.at, q) /\ \A p : IsAbove(q, p) => Grown(f, r.fs, p)
<1> DEFINE n == Fresh(q, "DIR", a, NULL, 0)
           g == r.fs
           i == r.at
<1>1. Table(f) /\ Heap(f, H) /\ f \in FsRec /\ a \in NodeIds /\ NULL \in Int /\ 0 \in Nat
  BY Sizes DEF FsOK, Table, At
<1>2. \/ i = -1 /\ g = f
      \/ Placed(f, g, i, n) /\ f.nodes[i] = FreeNode /\ fits(q)
  BY <1>1, Create
<1>3. CASE i = -1 /\ g = f
  BY <1>3
<1>4. CASE Placed(f, g, i, n) /\ f.nodes[i] = FreeNode /\ fits(q)
  <2>1. /\ n \in Node /\ n.used /\ n.type = "DIR" /\ n.parent = a /\ ~n.heap /\ n.path = q /\ n.size = 0
    BY <1>1, FreshType DEF Fresh
  <2> HIDE DEF n, g, i
  <2>2. /\ i \in NodeIds /\ i >= 0 /\ g \in FsRec /\ g.nodes = [f.nodes EXCEPT ![i] = n]
        /\ g.mem = f.mem /\ g.ready = f.ready /\ f.count <= g.count /\ i < g.count
    BY <1>4 DEF Placed
  <2>3. ~f.nodes[i].used /\ ~f.nodes[i].heap
    BY <1>4, FreeNodeType
  <2>4. g.nodes[i] = n /\ \A j \in NodeIds : j # i => g.nodes[j] = f.nodes[j]
    BY <1>1, <2>2, FsFields
  <2>5. Hung(f, n)
    BY <1>4, <2>1 DEF Hung, At
  <2>6. \A j \in NodeIds : f.nodes[j].used => f.nodes[j].path # q
    BY <1>1, NotFound
  <2>7. Table(g)
    <3>1. \A j \in NodeIds : f.nodes[j].used /\ f.nodes[j].path = n.path => j = i
      BY <2>1, <2>6
    <3> QED BY <1>1, <2>1, <2>2, <2>3, <2>5, <3>1, TablePut
  <2>8. Content(g, i)
    <3>1. ~g.nodes[i].heap /\ g.nodes[i].size = 0
      BY <2>1, <2>4
    <3> QED BY <3>1, NothingHeld
  <2>9. Heap(g, H)
    BY <1>1, <2>1, <2>2, <2>3, <2>8, HeapPut
  <2>10. At(g, i, q)
    BY <2>1, <2>2, <2>4 DEF At
  <2>11. \A j \in NodeIds : f.nodes[j].used => g.nodes[j] = f.nodes[j]
    BY <2>3, <2>4
  <2>12. \A j \in NodeIds : g.nodes[j].used /\ ~f.nodes[j].used => g.nodes[j].type = "DIR" /\ g.nodes[j].path = q
    BY <2>1, <2>4
  <2>13. \A p : IsAbove(q, p) => Grown(f, g, p)
    BY <2>2, <2>11, <2>12 DEF Grown
  <2>14. FsOK(g, H)
    BY <2>7, <2>9 DEF FsOK
  <2> QED BY <2>10, <2>13, <2>14 DEF g, i
<1> QED BY <1>2, <1>3, <1>4

LEMMA Descend ==
  ASSUME NEW f, NEW H, FsOK(f, H), NEW p \in Names, NEW k \in 1 .. Len(p), NEW a, a = -1 \/ At(f, a, SubSeq(p, 1, k - 1)),
         NEW r, r = descend([fs |-> f, at |-> a], SubSeq(p, 1, k))
  PROVE  /\ FsOK(r.fs, H) /\ Grown(f, r.fs, p)
         /\ r.at = -1 \/ At(r.fs, r.at, SubSeq(p, 1, k))
         /\ r \in [fs : FsRec, at : Int]
<1> DEFINE q == SubSeq(p, 1, k)
           i == find_node(f, q)
           acc == [fs |-> f, at |-> a]
           m == create_or_update_node(f, q, "DIR", a, NULL, 0)
<1>1. /\ q \in Names /\ q # <<>> /\ split_parent(q) = SubSeq(p, 1, k - 1) /\ IsAbove(q, p)
  BY Prefix DEF IsAbove
<1>2. Table(f) /\ f \in FsRec /\ Grown(f, f, p)
  BY GrownNot DEF FsOK, Table
<1>3. \/ i = -1 /\ \A j \in NodeIds : f.nodes[j].used => f.nodes[j].path # q
      \/ i \in NodeIds /\ f.nodes[i].used /\ f.nodes[i].path = q /\ i >= 0
  BY <1>2, Found
<1>4. acc = [fs |-> f, at |-> a] /\ acc.fs = f /\ acc.at = a /\ Failed(f) = [fs |-> f, at |-> -1] /\ [acc EXCEPT !.at = i] = [fs |-> f, at |-> i]
  BY DEF Failed
<1>5. r = IF a < 0 THEN acc
          ELSE IF basename(q) = "" THEN Failed(f)
          ELSE IF i < 0 THEN m
          ELSE IF ~(f.nodes[i].type = "DIR") THEN Failed(f) ELSE [acc EXCEPT !.at = i]
  BY <1>4 DEF descend, enter, may_enter
<1>6. i \in Int /\ (i < 0 <=> i = -1) /\ (a < 0 <=> a = -1) /\ a \in Int
  <2>1. a = -1 \/ a \in Nat
    BY Sizes DEF At
  <2> HIDE DEF i
  <2>2. i = -1 \/ i \in Nat
    BY <1>3, Sizes
  <2> QED BY <2>1, <2>2
<1> HIDE DEF i, acc, m
<1>7. CASE a = -1 \/ (basename(q) = "" /\ a # -1)
  <2>1. r = [fs |-> f, at |-> -1]
    BY <1>4, <1>5, <1>6, <1>7
  <2>2. r.fs = f /\ r.at = -1 /\ r \in [fs : FsRec, at : Int]
    BY <1>2, <2>1
  <2> QED BY <1>2, <2>2
<1>8. CASE a # -1 /\ basename(q) # "" /\ i = -1
  <2>1. r = m
    BY <1>5, <1>6, <1>8
  <2>2. At(f, a, split_parent(q))
    BY <1>1, <1>8
  <2>3. /\ FsOK(r.fs, H)
        /\ \/ r.at = -1 /\ r.fs = f
           \/ At(r.fs, r.at, q) /\ \A p_1 : IsAbove(q, p_1) => Grown(f, r.fs, p_1)
    <3>1. Called(q)
      BY <1>8 DEF Called
    <3>2. find_node(f, q) = -1 /\ q # <<>> /\ q \in Names /\ r = create_or_update_node(f, q, "DIR", a, NULL, 0)
      BY <1>1, <1>8, <2>1 DEF i, m
    <3> HIDE DEF q
    <3> QED BY <2>2, <3>1, <3>2, CreateDir
  <2>4. r \in [fs : FsRec, at : Int]
    <3>1. r.fs \in FsRec
      BY <2>3 DEF FsOK, Table
    <3>2. r.at = -1 \/ r.at \in NodeIds
      BY <2>3, Zenon DEF At
    <3>3. r.at = -1 \/ r.at \in Nat
      BY <3>2, Sizes
    <3>4. r.at \in Int
      BY <3>3
    <3>5. r = [fs |-> r.fs, at |-> r.at]
      BY <2>1 DEF m, create_or_update_node, Failed
    <3> QED BY <3>1, <3>5, <3>4
  <2> QED BY <1>1, <1>2, <2>3, <2>4
<1>9. CASE a # -1 /\ basename(q) # "" /\ i # -1
  <2>1. CASE f.nodes[i].type = "DIR"
    <3>1. r = [fs |-> f, at |-> i]
      BY <1>4, <1>5, <1>6, <1>9, <2>1
    <3>2. At(f, i, q)
      BY <1>3, <1>9, <2>1 DEF At
    <3>3. r.fs = f /\ r.at = i /\ r \in [fs : FsRec, at : Int]
      BY <1>2, <1>6, <3>1
    <3> QED BY <1>2, <3>2, <3>3
  <2>2. CASE f.nodes[i].type # "DIR"
    <3>1. r = [fs |-> f, at |-> -1]
      BY <1>4, <1>5, <1>6, <1>9, <2>2
    <3>2. r.fs = f /\ r.at = -1 /\ r \in [fs : FsRec, at : Int]
      BY <1>2, <3>1
    <3> QED BY <1>2, <3>2
  <2> QED BY <2>1, <2>2
<1> QED BY <1>7, <1>8, <1>9

\* Where the walk stands once it has passed k names.
Walked(f, H, p, k, acc) ==
  /\ acc \in [fs : FsRec, at : Int] /\ FsOK(acc.fs, H) /\ Grown(f, acc.fs, p)
  /\ \/ acc.at = -1
     \/ At(acc.fs, acc.at, SubSeq(p, 1, k))
     \/ k = Len(p) /\ k > 0 /\ p[k] = "" /\ At(acc.fs, acc.at, SubSeq(p, 1, k - 1))

EnterName(p, k, acc) == IF k = Len(p) /\ p[k] = "" THEN acc ELSE descend(acc, SubSeq(p, 1, k))

LEMMA OneName ==
  ASSUME NEW f, NEW H, NEW p \in Names, NEW k \in 1 .. Len(p), NEW acc, Walked(f, H, p, k - 1, acc)
  PROVE  Walked(f, H, p, k, EnterName(p, k, acc))
<1>1. acc \in [fs : FsRec, at : Int] /\ FsOK(acc.fs, H) /\ Grown(f, acc.fs, p)
  BY DEF Walked
<1>2. acc.at = -1 \/ At(acc.fs, acc.at, SubSeq(p, 1, k - 1))
  <2>1. k - 1 # Len(p) /\ k > 0
    OBVIOUS
  <2> QED BY <2>1 DEF Walked
<1>3. CASE k = Len(p) /\ p[k] = ""
  <2>1. EnterName(p, k, acc) = acc
    BY <1>3, Zenon DEF EnterName
  <2>2. k > 0
    OBVIOUS
  <2> QED BY <1>1, <1>2, <1>3, <2>1, <2>2 DEF Walked
<1>4. CASE ~(k = Len(p) /\ p[k] = "")
  <2> DEFINE r == EnterName(p, k, acc)
             g == acc.fs
             a == acc.at
  <2>1. acc = [fs |-> g, at |-> a]
    BY <1>1
  <2>2. r = descend([fs |-> g, at |-> a], SubSeq(p, 1, k))
    BY <1>4, <2>1 DEF EnterName
  <2> HIDE DEF r, g, a
  <2>3. FsOK(g, H) /\ Grown(f, g, p) /\ (a = -1 \/ At(g, a, SubSeq(p, 1, k - 1)))
    BY <1>1, <1>2 DEF g, a
  <2>4. /\ FsOK(r.fs, H) /\ Grown(g, r.fs, p)
        /\ r.at = -1 \/ At(r.fs, r.at, SubSeq(p, 1, k))
        /\ r \in [fs : FsRec, at : Int]
    BY <2>2, <2>3, Descend
  <2>5. Grown(f, r.fs, p)
    BY <2>3, <2>4, GrownOn
  <2>6. Walked(f, H, p, k, r)
    BY <2>4, <2>5 DEF Walked
  <2> QED BY <2>6 DEF r
<1> QED BY <1>3, <1>4

LEMMA Hierarchy ==
  ASSUME NEW f, NEW H, FsOK(f, H), NEW p \in Names, NEW r, r = ensure_dir_hierarchy(f, p)
  PROVE  Walked(f, H, p, Len(p), r)
<1> DEFINE N == Len(p)
           D == [fs : FsRec, at : Int]
           start == [fs |-> f, at |-> 0]
           W(k, acc) == Walked(f, H, p, k, acc)
           next(k, acc) == EnterName(p, k, acc)
           R(h) == [k \in 0 .. N |-> IF k = 0 THEN start ELSE next(k, h[k - 1])]
<1>1. N \in Nat
  BY LenProperties DEF Names
<1>2. W(0, start) /\ start \in D
  <2>1. f \in FsRec /\ start \in D /\ start.fs = f /\ start.at = 0 /\ Grown(f, f, p)
    BY GrownNot DEF FsOK, Table
  <2>2. SubSeq(p, 1, 0) = <<>>
    <3>1. 0 \in 0 .. Len(p)
      BY <1>1
    <3>2. SubSeq(p, 1, 0) \in Names /\ Len(SubSeq(p, 1, 0)) = 0
      BY <3>1, Cut DEF Names
    <3> QED BY <3>2, EmptySeq DEF Names
  <2>3. At(f, 0, SubSeq(p, 1, 0))
    BY <2>2, Sizes DEF FsOK, Table, At
  <2> HIDE DEF start
  <2> QED BY <2>1, <2>3 DEF Walked
<1>3. ASSUME NEW k \in 1 .. N, NEW acc, W(k - 1, acc) PROVE W(k, next(k, acc)) /\ next(k, acc) \in D
  <2>1. Walked(f, H, p, k, EnterName(p, k, acc))
    BY <1>3, OneName
  <2> QED BY <2>1 DEF Walked
<1> HIDE DEF W, start, next, D
<1>4. ASSUME NEW h, h[0] = start, \A k \in 1 .. N : W(k - 1, h[k - 1]) => h[k] = next(k, h[k - 1])
      PROVE  \A k \in 0 .. N : W(k, h[k])
  <2> DEFINE G == {k \in 0 .. N : W(k, h[k])}
  <2>1. 0 \in G
    BY <1>1, <1>2, <1>4
  <2>2. \A k \in 1 .. N : k - 1 \in G => k \in G
    BY <1>1, <1>3, <1>4
  <2> HIDE DEF G
  <2>3. 0 .. N \subseteq G
    BY <1>1, <2>1, <2>2, UpTo
  <2> QED BY <2>3 DEF G
<1>5. \E h : h = R(h)
  <2> DEFINE step == [k \in 1 .. N |-> [acc \in D |-> IF next(k, acc) \in D THEN next(k, acc) ELSE acc]]
  <2>1. step \in [1 .. N -> [D -> D]]
    OBVIOUS
  <2> HIDE DEF step
  <2>2. PICK h \in [0 .. N -> D] : iterates(h, start, step, N)
    BY <1>1, <1>2, <2>1, IteratesExist
  <2>3. h[0] = start /\ \A k \in 1 .. N : h[k] = step[k][h[k - 1]]
    BY <2>2 DEF iterates
  <2>4. \A k \in 1 .. N : h[k - 1] \in D
    <3>1. \A k \in 1 .. N : k - 1 \in 0 .. N
      BY <1>1
    <3> QED BY <2>2, <3>1
  <2>5. \A k \in 1 .. N : W(k - 1, h[k - 1]) => h[k] = next(k, h[k - 1])
    BY <1>3, <2>3, <2>4 DEF step
  <2>6. \A k \in 0 .. N : W(k, h[k])
    BY <1>4, <2>3, <2>5
  <2>7. \A k \in 1 .. N : k - 1 \in 0 .. N
    BY <1>1
  <2>8. \A k \in 0 .. N : h[k] = IF k = 0 THEN start ELSE next(k, h[k - 1])
    <3>1. \A k \in 0 .. N : k = 0 \/ k \in 1 .. N
      BY <1>1
    <3> QED BY <2>3, <2>5, <2>6, <2>7, <3>1
  <2>9. h = R(h)
    BY <2>2, <2>8
  <2> QED BY <2>9
<1> DEFINE walk == CHOOSE h : h = R(h)
<1>6. walk = R(walk)
  BY <1>5
<1>7. r = walk[N]
  BY DEF ensure_dir_hierarchy, EnterName, start, next
<1> HIDE DEF walk
<1>8. walk[0] = start /\ \A k \in 1 .. N : walk[k] = next(k, walk[k - 1])
  <2>1. 0 \in 0 .. N /\ \A k \in 1 .. N : k \in 0 .. N /\ k # 0
    BY <1>1
  <2> QED BY <1>6, <2>1
<1>9. W(N, walk[N])
  <2>1. \A k \in 0 .. N : W(k, walk[k])
    BY <1>4, <1>8
  <2>2. N \in 0 .. N
    BY <1>1
  <2> QED BY <2>1, <2>2
<1> QED BY <1>7, <1>9 DEF W

-----------------------------------------------------------------------------
(* What callers pass as a path. *)

\* What a path says once empty names and dots are gone.
Plain(p) == p \in Names /\ \A k \in 1 .. Len(p) : p[k] # ""

KeepName(names, k, acc) == IF names[k] \in {"", "."} THEN acc ELSE Append(acc, names[k])

LEMMA NameKept ==
  ASSUME NEW names \in Names, NEW k \in 1 .. Len(names), NEW acc, Plain(acc) PROVE Plain(KeepName(names, k, acc))
<1>1. names[k] \in STRING
  BY LenProperties DEF Names
<1>2. CASE names[k] \in {"", "."}
  BY <1>2 DEF KeepName
<1>3. CASE names[k] \notin {"", "."}
  <2> DEFINE n == names[k]
             e == Append(acc, n)
  <2>1. n \in STRING /\ n # "" /\ acc \in Seq(STRING) /\ e = KeepName(names, k, acc)
    BY <1>1, <1>3 DEF Plain, Names, KeepName
  <2> HIDE DEF n
  <2> HIDE DEF e
  <2>2. e \in Seq(STRING) /\ Len(e) = Len(acc) + 1 /\ (\A i \in 1 .. Len(acc) : e[i] = acc[i]) /\ e[Len(acc) + 1] = n
    <3>1. e = Append(acc, n)
      BY DEF e
    <3>2. /\ Append(acc, n) \in Seq(STRING)
          /\ Append(acc, n) # <<>>
          /\ Len(Append(acc, n)) = Len(acc) + 1
          /\ \A i \in 1 .. Len(acc) : Append(acc, n)[i] = acc[i]
          /\ Append(acc, n)[Len(acc) + 1] = n
      BY <2>1, AppendProperties
    <3> QED BY <3>1, <3>2
  <2>3. Len(acc) \in Nat
    BY <2>1, LenProperties
  <2>4. \A i \in 1 .. Len(e) : i \in 1 .. Len(acc) \/ i = Len(acc) + 1
    BY <2>2, <2>3
  <2>5. Plain(e)
    BY <2>1, <2>2, <2>4 DEF Plain, Names
  <2> QED BY <2>1, <2>5
<1> QED BY <1>2, <1>3

\* Passing over a name after the other.
LEMMA KeptThrough ==
  ASSUME NEW names, Len(names) \in Nat, NEW D, <<>> \in D,
         \A k \in 1 .. Len(names) : \A acc \in D : KeepName(names, k, acc) \in D
  PROVE  \E kept \in [0 .. Len(names) -> D] :
           /\ kept[0] = <<>> /\ components(names) = kept[Len(names)]
           /\ \A k \in 1 .. Len(names) : kept[k] = KeepName(names, k, kept[k - 1])
<1> DEFINE N == Len(names)
           next(k, acc) == KeepName(names, k, acc)
           R(h) == [k \in 0 .. N |-> IF k = 0 THEN <<>> ELSE next(k, h[k - 1])]
<1>1. N \in Nat
  OBVIOUS
<1>2. <<>> \in D
  OBVIOUS
<1>3. \A k \in 1 .. N : \A acc \in D : next(k, acc) \in D
  OBVIOUS
<1> HIDE DEF next
<1>4. PICK f \in [0 .. N -> D] : f = R(f)
  <2> DEFINE step == [k \in 1 .. N |-> [acc \in D |-> next(k, acc)]]
  <2>1. step \in [1 .. N -> [D -> D]]
    BY <1>3
  <2> HIDE DEF step
  <2>2. PICK h \in [0 .. N -> D] : iterates(h, <<>>, step, N)
    BY <1>1, <1>2, <2>1, IteratesExist
  <2>3. \A k \in 1 .. N : k - 1 \in 0 .. N /\ h[k - 1] \in D
    BY <1>1, <2>2
  <2>4. h[0] = <<>> /\ \A k \in 1 .. N : h[k] = next(k, h[k - 1])
    BY <2>2, <2>3 DEF iterates, step
  <2>5. \A k \in 0 .. N : h[k] = IF k = 0 THEN <<>> ELSE next(k, h[k - 1])
    <3>1. \A k \in 0 .. N : k = 0 \/ k \in 1 .. N
      BY <1>1
    <3> QED BY <2>4, <3>1
  <2>6. h = R(h)
    BY <2>2, <2>5
  <2> QED BY <2>2, <2>6
<1> DEFINE kept == CHOOSE h : h = R(h)
<1>5. kept = R(kept)
  BY <1>4
<1>6. components(names) = kept[N]
  BY DEF components, KeepName, next
<1> HIDE DEF kept
<1>7. 0 \in 0 .. N /\ N \in 0 .. N /\ \A k \in 1 .. N : k \in 0 .. N /\ k # 0
  BY <1>1
<1>8. kept[0] = <<>> /\ \A k \in 1 .. N : kept[k] = next(k, kept[k - 1])
  BY <1>5, <1>7
<1> DEFINE G == {k \in 0 .. N : kept[k] \in D}
<1>9. 0 \in G
  BY <1>2, <1>7, <1>8
<1>10. \A k \in 1 .. N : k - 1 \in G => k \in G
  BY <1>3, <1>7, <1>8
<1> HIDE DEF G
<1>11. 0 .. N \subseteq G
  BY <1>1, <1>9, <1>10, UpTo
<1>12. \A k \in 0 .. N : kept[k] \in D
  BY <1>11 DEF G
<1>13. kept \in [0 .. N -> D]
  BY <1>5, <1>12
<1> QED BY <1>6, <1>8, <1>13 DEF next

LEMMA KeptNames ==
  ASSUME NEW names \in Names
  PROVE  \E kept \in [0 .. Len(names) -> {p \in Names : Plain(p)}] :
           /\ kept[0] = <<>> /\ components(names) = kept[Len(names)]
           /\ \A k \in 1 .. Len(names) : kept[k] = KeepName(names, k, kept[k - 1])
<1> DEFINE D == {p \in Names : Plain(p)}
<1>1. Len(names) \in Nat
  BY LenProperties DEF Names
<1>2. <<>> \in D
  <2>1. <<>> \in Names /\ \A k \in 1 .. Len(<<>>) : FALSE
    BY EmptySeq DEF Names
  <2> QED BY <2>1 DEF Plain
<1>3. \A k \in 1 .. Len(names) : \A acc \in D : KeepName(names, k, acc) \in D
  BY NameKept DEF Plain
<1> HIDE DEF D
<1>4. \E kept \in [0 .. Len(names) -> D] :
        /\ kept[0] = <<>> /\ components(names) = kept[Len(names)]
        /\ \A k \in 1 .. Len(names) : kept[k] = KeepName(names, k, kept[k - 1])
  BY <1>1, <1>2, <1>3, KeptThrough
<1> QED BY <1>4 DEF D

\* The same, whatever the names are.
LEMMA KeptAny ==
  ASSUME NEW S, NEW names \in Seq(S)
  PROVE  \E kept : /\ kept[0] = <<>> /\ components(names) = kept[Len(names)]
                   /\ \A k \in 1 .. Len(names) : kept[k] = KeepName(names, k, kept[k - 1])
<1> DEFINE D == Seq(S)
<1>1. Len(names) \in Nat
  BY LenProperties
<1>2. <<>> \in D
  BY EmptySeq
<1>3. ASSUME NEW k \in 1 .. Len(names), NEW acc \in D PROVE KeepName(names, k, acc) \in D
  <2>1. names[k] \in S
    BY ElementOfSeq
  <2>2. Append(acc, names[k]) \in D
    BY <2>1, AppendProperties
  <2> QED BY <2>2, Zenon DEF KeepName
<1> HIDE DEF D
<1> QED BY <1>1, <1>2, <1>3, KeptThrough

LEMMA Components == ASSUME NEW names \in Names PROVE Plain(components(names))
<1>1. PICK kept \in [0 .. Len(names) -> {p \in Names : Plain(p)}] : components(names) = kept[Len(names)]
  BY KeptNames
<1>2. Len(names) \in 0 .. Len(names)
  BY LenProperties DEF Names
<1> QED BY <1>1, <1>2

\* No name of p leads upwards.
NoDots(p) == \A k \in 1 .. Len(p) : p[k] # ".."
Tidy == {p \in Names : NoDots(p)}

LEMMA DotsKept ==
  ASSUME NEW names \in Tidy, NEW k \in 1 .. Len(names), NEW acc \in Tidy PROVE KeepName(names, k, acc) \in Tidy
<1> DEFINE n == names[k]
<1>1. n \in STRING /\ n # ".." /\ acc \in Seq(STRING) /\ Len(acc) \in Nat
  BY LenProperties DEF Tidy, NoDots, Names
<1>2. KeepName(names, k, acc) = acc \/ KeepName(names, k, acc) = Append(acc, n)
  BY DEF KeepName
<1> HIDE DEF n
<1>3. /\ Append(acc, n) \in Seq(STRING) /\ Len(Append(acc, n)) = Len(acc) + 1
      /\ \A i \in 1 .. Len(acc) : Append(acc, n)[i] = acc[i]
      /\ Append(acc, n)[Len(acc) + 1] = n
  BY <1>1, AppendProperties
<1> DEFINE e == Append(acc, n)
<1> HIDE DEF e
<1>4. e \in Tidy
  <2>1. \A i \in 1 .. Len(acc) + 1 : i \in 1 .. Len(acc) \/ i = Len(acc) + 1
    BY <1>1
  <2>2. \A i \in 1 .. Len(acc) : acc[i] # ".."
    BY DEF Tidy, NoDots
  <2> QED BY <1>1, <1>3, <2>1, <2>2 DEF Tidy, NoDots, Names, e
<1> QED BY <1>2, <1>4 DEF e

LEMMA ComponentsTidy == ASSUME NEW names \in Tidy PROVE components(names) \in Tidy
<1> DEFINE N == Len(names)
<1>1. names \in Names /\ N \in Nat
  BY LenProperties DEF Tidy, Names
<1>2. PICK kept : /\ kept[0] = <<>> /\ components(names) = kept[N]
                  /\ \A k \in 1 .. N : kept[k] = KeepName(names, k, kept[k - 1])
  BY <1>1, KeptNames
<1> DEFINE G == {k \in 0 .. N : kept[k] \in Tidy}
<1>3. 0 \in G
  <2>1. <<>> \in Names /\ \A k \in 1 .. Len(<<>>) : FALSE
    BY EmptySeq DEF Names
  <2> QED BY <1>1, <1>2, <2>1 DEF Tidy, NoDots
<1>4. \A k \in 1 .. N : k - 1 \in G => k \in G
  <2>1. \A k \in 1 .. N : k \in 0 .. N
    BY <1>1
  <2> QED BY <1>2, <2>1, DotsKept
<1> HIDE DEF G
<1>5. 0 .. N \subseteq G
  BY <1>1, <1>3, <1>4, UpTo
<1>6. N \in 0 .. N
  BY <1>1
<1> QED BY <1>2, <1>5, <1>6 DEF G

\* One name more: what e normalises to, given s.
OnePart(e, s, c) == /\ c \in {"", "."} => components(e) = components(s)
                    /\ c \notin {"", "."} => components(e) = Append(components(s), c)

LEMMA ComponentsOn ==
  ASSUME NEW S, NEW s \in Seq(S), NEW c \in S, NEW e, e = Append(s, c)
  PROVE  OnePart(e, s, c)
<1> DEFINE N == Len(s)
<1>1. N \in Nat
  BY LenProperties
<1>2. /\ e \in Seq(S) /\ Len(e) = N + 1 /\ e[N + 1] = c
      /\ \A k \in 1 .. N : e[k] = s[k]
  BY AppendProperties
<1>3. PICK a : /\ a[0] = <<>> /\ components(s) = a[N]
               /\ \A k \in 1 .. N : a[k] = KeepName(s, k, a[k - 1])
  BY KeptAny
<1>14. \A t \in Seq(S) : \E b : /\ b[0] = <<>> /\ components(t) = b[Len(t)]
                                /\ \A k \in 1 .. Len(t) : b[k] = KeepName(t, k, b[k - 1])
  BY KeptAny
<1>4. PICK b : /\ b[0] = <<>> /\ components(e) = b[Len(e)]
               /\ \A k \in 1 .. Len(e) : b[k] = KeepName(e, k, b[k - 1])
  BY <1>2, <1>14
<1> HIDE DEF N
<1>11. \A k \in 1 .. N : k \in 1 .. Len(e) /\ k \in 0 .. N /\ e[k] = s[k]
  <2>1. \A k \in 1 .. N : k \in 1 .. N + 1 /\ k \in 0 .. N
    BY <1>1
  <2> QED BY <1>2, <2>1, Zenon
<1> DEFINE G == {k \in 0 .. N : b[k] = a[k]}
<1>5. 0 \in G
  BY <1>1, <1>3, <1>4
<1>6. \A k \in 1 .. N : k - 1 \in G => k \in G
  <2> SUFFICES ASSUME NEW k \in 1 .. N, k - 1 \in G PROVE b[k] = a[k]
    BY <1>1
  <2>1. k \in 1 .. Len(e) /\ e[k] = s[k] /\ k \in 0 .. N
    BY <1>11
  <2>2. b[k - 1] = a[k - 1]
    BY DEF G
  <2>3. b[k] = KeepName(e, k, b[k - 1]) /\ a[k] = KeepName(s, k, a[k - 1])
    BY <1>3, <1>4, <2>1
  <2>4. KeepName(e, k, b[k - 1]) = KeepName(s, k, a[k - 1])
    BY <2>1, <2>2, Zenon DEF KeepName
  <2> QED BY <2>3, <2>4
<1> HIDE DEF G
<1>7. 0 .. N \subseteq G
  BY <1>1, <1>5, <1>6, UpTo
<1>8. N \in 0 .. N /\ N + 1 \in 1 .. Len(e) /\ (N + 1) - 1 = N
  BY <1>1, <1>2
<1>9. b[N] = a[N]
  BY <1>7, <1>8 DEF G
<1>10. b[N + 1] = KeepName(e, N + 1, b[N])
  BY <1>4, <1>8
<1>12. e[N + 1] = c /\ components(s) = b[N] /\ components(e) = b[N + 1]
  BY <1>2, <1>3, <1>4, <1>9
<1> QED BY <1>10, <1>12, Zenon DEF KeepName, OnePart

Normal(p) == Plain(p) /\ fits(p) /\ NoDots(p)

LEMMA NormalPath ==
  ASSUME NEW x \in Paths, normalize_external_path(x) # NoPath PROVE Normal(normalize_external_path(x))
<1> DEFINE c == components(x.names)
<1>1. Plain(c)
  BY Components DEF Paths
<1>2. ".." \notin ToSet(x.names) => NoDots(c)
  <2> SUFFICES ASSUME ".." \notin ToSet(x.names) PROVE NoDots(c)
    OBVIOUS
  <2>1. x.names \in Tidy
    <3>1. x.names \in Seq(STRING) /\ DOMAIN x.names = 1 .. Len(x.names)
      BY LenProperties DEF Paths, Names
    <3> QED BY <3>1 DEF Tidy, NoDots, Names, ToSet
  <2> QED BY <2>1, ComponentsTidy DEF Tidy
<1> HIDE DEF c
<1>3. normalize_external_path(x) = NoPath \/ (normalize_external_path(x) = c /\ fits(c) /\ NoDots(c))
  BY <1>2 DEF normalize_external_path, if_it_fits, c
<1> QED BY <1>1, <1>3 DEF Normal

LEMMA PlainAbove ==
  ASSUME NEW p, Plain(p), p # <<>> PROVE p \in Names /\ Called(p) /\ Plain(split_parent(p))
<1>1. p \in Names /\ Len(p) \in Nat \ {0} /\ Len(p) \in 1 .. Len(p)
  <2>1. p \in Names
    BY DEF Plain
  <2>2. Len(p) \in Nat \ {0}
    BY <2>1, Above
  <2> QED BY <2>1, <2>2
<1>2. basename(p) = p[Len(p)] /\ split_parent(p) = SubSeq(p, 1, Len(p) - 1)
  BY <1>1, Above
<1>3. Called(p)
  BY <1>1, <1>2 DEF Plain, Called
<1> DEFINE n == Len(p) - 1
           q == SubSeq(p, 1, n)
<1>4. n \in 0 .. Len(p)
  BY <1>1
<1> HIDE DEF n
<1>5. q \in Names /\ Len(q) = n /\ \A j \in 1 .. n : q[j] = p[j]
  BY <1>1, <1>4, Cut DEF Names
<1> HIDE DEF q
<1>6. Plain(q)
  <2>1. \A j \in 1 .. n : j \in 1 .. Len(p)
    BY <1>1, <1>4
  <2> QED BY <1>5, <2>1 DEF Plain
<1> QED BY <1>1, <1>2, <1>3, <1>6 DEF n, q

\* The walk along a plain path ends at it, or fails.
LEMMA PlainWalk ==
  ASSUME NEW f, NEW H, FsOK(f, H), NEW p, Plain(p), NEW r, r = ensure_dir_hierarchy(f, p)
  PROVE  FsOK(r.fs, H) /\ Grown(f, r.fs, p) /\ (r.at = -1 \/ At(r.fs, r.at, p))
<1>1. p \in Names /\ Len(p) \in Nat
  BY LenProperties DEF Plain, Names
<1>2. Walked(f, H, p, Len(p), r)
  BY <1>1, Hierarchy
<1>3. SubSeq(p, 1, Len(p)) = p
  BY <1>1, CutWhole DEF Names
<1>4. ~(Len(p) > 0 /\ p[Len(p)] = "")
  <2>1. Len(p) > 0 => Len(p) \in 1 .. Len(p)
    BY <1>1
  <2> QED BY <2>1 DEF Plain
<1> QED BY <1>2, <1>3, <1>4 DEF Walked

-----------------------------------------------------------------------------
(* clks_fs_write_all_common. *)

\* A file whose contents are in a buffer of the heap, or empty.
InHeap(buf) == buf # EMPTY_DATA
NewFile(p, parent, buf, size) ==
  [used |-> TRUE, type |-> "FILE", parent |-> parent, heap |-> InHeap(buf), data |-> buf, size |-> size, path |-> p]

\* From f, the file p was written at node i: its buffer is buf, the one it had is free.
Written(f, g, i, p, parent, buf, bytes) ==
  /\ i \in NodeIds /\ i >= 0 /\ g \in FsRec /\ g.ready = f.ready /\ f.count <= g.count /\ i < g.count /\ fits(p)
  /\ f.nodes[i] = FreeNode \/ (f.nodes[i].used /\ f.nodes[i].path = p /\ f.nodes[i].type = "FILE")
  /\ g.nodes = [f.nodes EXCEPT ![i] = NewFile(p, parent, buf, Len(bytes))]
  /\ \A b \in Buffers : g.mem[b] = IF f.nodes[i].heap /\ b = f.nodes[i].data THEN Freed
                                   ELSE IF b = buf THEN bytes ELSE f.mem[b]

LEMMA SameFs ==
  ASSUME NEW f \in FsRec, NEW g \in FsRec, f.nodes = g.nodes, f.count = g.count, f.ready = g.ready,
         \A b \in Buffers : f.mem[b] = g.mem[b]
  PROVE  f = g
<1>1. f.mem \in [Buffers -> Bytes \cup {Freed}] /\ g.mem \in [Buffers -> Bytes \cup {Freed}]
  BY FsFields
<1>2. f.mem = g.mem
  BY <1>1
<1> QED BY <1>2 DEF FsRec

LEMMA NewFileType ==
  ASSUME NEW p \in Names, NEW parent \in NodeIds, NEW buf \in Int, NEW size \in Nat,
         NEW node, node = NewFile(p, parent, buf, size)
  PROVE  /\ node \in Node /\ node.used /\ node.type = "FILE" /\ node.parent = parent /\ node.heap = InHeap(buf)
         /\ node.data = buf /\ node.size = size /\ node.path = p
<1>1. InHeap(buf) \in BOOLEAN
  BY DEF InHeap
<1> QED BY <1>1 DEF NewFile, Node

\* The flag that a node's buffer is its own, alone.
SetHeap(h, i, v) == [h EXCEPT !.nodes[i].heap = v]

LEMMA HeapFlag ==
  ASSUME NEW h \in FsRec, NEW i \in NodeIds, NEW v, v \in BOOLEAN, NEW g, g = SetHeap(h, i, v)
  PROVE  /\ g \in FsRec /\ g.count = h.count /\ g.ready = h.ready /\ g.mem = h.mem
         /\ \A j \in NodeIds : j # i => g.nodes[j] = h.nodes[j]
         /\ g.nodes[i] \in Node /\ g.nodes[i].used = h.nodes[i].used /\ g.nodes[i].type = h.nodes[i].type
         /\ g.nodes[i].parent = h.nodes[i].parent /\ g.nodes[i].heap = v /\ g.nodes[i].data = h.nodes[i].data
         /\ g.nodes[i].size = h.nodes[i].size /\ g.nodes[i].path = h.nodes[i].path
<1> DEFINE x == h.nodes[i]
<1>1. h.nodes \in [NodeIds -> Node] /\ x \in Node
  BY FsFields, NodeFields
<1> HIDE DEF x
<1> DEFINE y == [x EXCEPT !.heap = v]
           m == [h.nodes EXCEPT ![i] = y]
<1>2. /\ y \in Node /\ y.used = x.used /\ y.type = x.type /\ y.parent = x.parent /\ y.heap = v /\ y.data = x.data
      /\ y.size = x.size /\ y.path = x.path
  BY <1>1 DEF Node
<1>3. g = [h EXCEPT !.nodes = m]
  BY DEF x, SetHeap
<1> HIDE DEF y
<1>4. m \in [NodeIds -> Node] /\ m[i] = y /\ \A j \in NodeIds : j # i => m[j] = h.nodes[j]
  BY <1>1, <1>2
<1> HIDE DEF m
<1>5. g \in FsRec /\ g.nodes = m /\ g.count = h.count /\ g.ready = h.ready /\ g.mem = h.mem
  BY <1>3, <1>4 DEF FsRec
<1> QED BY <1>2, <1>4, <1>5 DEF x

\* clks_fs_node_release_heap_data frees the node's buffer and changes nothing else.
LEMMA Released ==
  ASSUME NEW f \in FsRec, NEW i \in NodeIds, f.nodes[i].heap => f.nodes[i].data \in HeapBufs,
         f.nodes[i].type = "DIR" => ~f.nodes[i].heap, NEW g, g = node_release_heap_data(f, i)
  PROVE  /\ g \in FsRec /\ g.count = f.count /\ g.ready = f.ready
         /\ \A j \in NodeIds : j # i => g.nodes[j] = f.nodes[j]
         /\ g.nodes[i] \in Node /\ g.nodes[i].used = f.nodes[i].used /\ g.nodes[i].type = f.nodes[i].type
         /\ g.nodes[i].parent = f.nodes[i].parent /\ ~g.nodes[i].heap /\ g.nodes[i].data = f.nodes[i].data
         /\ g.nodes[i].size = f.nodes[i].size /\ g.nodes[i].path = f.nodes[i].path
         /\ \A b \in Buffers : g.mem[b] = IF f.nodes[i].heap /\ b = f.nodes[i].data THEN Freed ELSE f.mem[b]
<1> DEFINE n == f.nodes[i]
<1>1. /\ n \in Node /\ n.heap \in BOOLEAN /\ n.type \in {"FILE", "DIR"} /\ f.mem \in [Buffers -> Bytes \cup {Freed}]
      /\ f.nodes \in [NodeIds -> Node] /\ HeapBufs \subseteq Buffers
  BY NodeFields, FsFields DEF Buffers
<1>2. CASE n.type # "FILE"
  <2>1. g = f /\ ~n.heap
    BY <1>1, <1>2 DEF node_release_heap_data
  <2> QED BY <1>1, <2>1
<1>3. CASE n.type = "FILE"
  <2> DEFINE h == IF n.heap /\ n.data # NULL THEN kfree(f, n.data) ELSE f
  <2>1. g = [h EXCEPT !.nodes[i].heap = FALSE]
    BY <1>3 DEF node_release_heap_data
  <2>2. /\ h \in FsRec /\ h.nodes = f.nodes /\ h.count = f.count /\ h.ready = f.ready
        /\ \A b \in Buffers : h.mem[b] = IF n.heap /\ b = n.data THEN Freed ELSE f.mem[b]
    <3>1. CASE n.heap
      <4>1. n.data \in Buffers /\ n.data # NULL
        BY <1>1, <3>1, Sizes
      <4> DEFINE m == [f.mem EXCEPT ![n.data] = Freed]
      <4>2. h = [f EXCEPT !.mem = m]
        BY <3>1, <4>1 DEF kfree
      <4>3. m \in [Buffers -> Bytes \cup {Freed}] /\ \A b \in Buffers : m[b] = IF b = n.data THEN Freed ELSE f.mem[b]
        BY <1>1, <4>1
      <4> HIDE DEF m, h
      <4>4. h \in FsRec /\ h.nodes = f.nodes /\ h.count = f.count /\ h.ready = f.ready /\ h.mem = m
        BY <4>2, <4>3 DEF FsRec
      <4> QED BY <3>1, <4>3, <4>4
    <3>2. CASE ~n.heap
      BY <3>2
    <3> QED BY <3>1, <3>2
  <2> HIDE DEF h
  <2>3. /\ g \in FsRec /\ g.count = h.count /\ g.ready = h.ready /\ g.mem = h.mem
        /\ \A j \in NodeIds : j # i => g.nodes[j] = h.nodes[j]
        /\ g.nodes[i] \in Node /\ g.nodes[i].used = h.nodes[i].used /\ g.nodes[i].type = h.nodes[i].type
        /\ g.nodes[i].parent = h.nodes[i].parent /\ g.nodes[i].heap = FALSE /\ g.nodes[i].data = h.nodes[i].data
        /\ g.nodes[i].size = h.nodes[i].size /\ g.nodes[i].path = h.nodes[i].path
    <3> DEFINE v == FALSE
    <3>1. v \in BOOLEAN /\ g = SetHeap(h, i, v)
      BY <2>1 DEF SetHeap
    <3> HIDE DEF v
    <3>2. /\ g \in FsRec /\ g.count = h.count /\ g.ready = h.ready /\ g.mem = h.mem
          /\ \A j \in NodeIds : j # i => g.nodes[j] = h.nodes[j]
          /\ g.nodes[i] \in Node /\ g.nodes[i].used = h.nodes[i].used /\ g.nodes[i].type = h.nodes[i].type
          /\ g.nodes[i].parent = h.nodes[i].parent /\ g.nodes[i].heap = v /\ g.nodes[i].data = h.nodes[i].data
          /\ g.nodes[i].size = h.nodes[i].size /\ g.nodes[i].path = h.nodes[i].path
      BY <2>2, <3>1, HeapFlag
    <3> QED BY <3>2 DEF v
  <2> QED BY <2>2, <2>3
<1> QED BY <1>1, <1>2, <1>3

\* What is stored: nothing, or some bytes and a free buffer for them.
Payload(f, buf, bytes) == \/ buf = EMPTY_DATA /\ bytes = <<>>
                          \/ buf \in HeapBufs /\ f.mem[buf] = Freed /\ bytes # <<>>
Filled(f, buf, bytes) == IF buf = EMPTY_DATA THEN f ELSE fill(f, buf, bytes)

LEMMA TableOnly ==
  ASSUME NEW f, Table(f), NEW g \in FsRec, g.nodes = f.nodes, g.count = f.count
  PROVE  Table(g)
  BY DEF Table, Linked

LEMMA SameTable ==
  ASSUME NEW f, Table(f), NEW g \in FsRec, g.nodes = f.nodes, g.count = f.count
  PROVE  Table(g) /\ \A p : find_node(g, p) = find_node(f, p)
<1>1. Table(g)
  BY TableOnly
<1>2. UsedNodes(g) = UsedNodes(f)
  BY DEF UsedNodes
<1>3. \A p : find_node(g, p) = find_node(f, p)
  BY <1>2 DEF find_node
<1> QED BY <1>1, <1>3

LEMMA FilledOnly ==
  ASSUME NEW f \in FsRec, NEW buf, NEW bytes \in Bytes, Payload(f, buf, bytes), NEW g, g = Filled(f, buf, bytes)
  PROVE  /\ g \in FsRec /\ g.nodes = f.nodes /\ g.count = f.count /\ g.ready = f.ready /\ buf \in Int
         /\ \A b \in Buffers : g.mem[b] = IF b = buf THEN bytes ELSE f.mem[b]
<1>1. f.mem \in [Buffers -> Bytes \cup {Freed}] /\ HeapBufs \subseteq Buffers /\ EMPTY_DATA \notin Buffers
  BY FsFields, Sizes DEF Buffers
<1>2. buf \in Int
  BY Sizes DEF Payload
<1>3. CASE buf = EMPTY_DATA
  <2>1. g = f
    BY <1>3 DEF Filled
  <2> QED BY <1>1, <1>2, <1>3, <2>1
<1>4. CASE buf # EMPTY_DATA
  <2>1. buf \in HeapBufs /\ buf \in Buffers
    BY <1>1, <1>4 DEF Payload
  <2> DEFINE m == [f.mem EXCEPT ![buf] = bytes]
  <2>2. g = [f EXCEPT !.mem = m]
    BY <1>4 DEF Filled, fill
  <2>3. m \in [Buffers -> Bytes \cup {Freed}] /\ \A b \in Buffers : m[b] = IF b = buf THEN bytes ELSE f.mem[b]
    BY <1>1, <2>1
  <2> HIDE DEF m
  <2>4. g \in FsRec /\ g.nodes = f.nodes /\ g.count = f.count /\ g.ready = f.ready /\ g.mem = m
    BY <2>2, <2>3 DEF FsRec
  <2> QED BY <1>2, <2>3, <2>4
<1> QED BY <1>3, <1>4

\* The buffer goes back when the node cannot be made, and nothing has happened.
LEMMA GivenBack ==
  ASSUME NEW f \in FsRec, NEW buf, NEW bytes \in Bytes, Payload(f, buf, bytes)
  PROVE  give_back(Filled(f, buf, bytes), buf) = f
<1> DEFINE g == Filled(f, buf, bytes)
           h == give_back(g, buf)
<1>1. /\ g \in FsRec /\ g.nodes = f.nodes /\ g.count = f.count /\ g.ready = f.ready
      /\ \A b \in Buffers : g.mem[b] = IF b = buf THEN bytes ELSE f.mem[b]
  BY FilledOnly
<1>2. CASE buf = EMPTY_DATA
  BY <1>2 DEF give_back, Filled
<1>3. CASE buf # EMPTY_DATA
  <2>1. f.mem[buf] = Freed /\ buf \in Buffers
    BY <1>3 DEF Payload, Buffers
  <2>2. h = kfree(g, buf)
    BY <1>3 DEF give_back
  <2> HIDE DEF g
  <2>3. g.mem \in [Buffers -> Bytes \cup {Freed}]
    BY <1>1, FsFields
  <2> DEFINE m == [g.mem EXCEPT ![buf] = Freed]
  <2>4. h = [g EXCEPT !.mem = m]
    BY <2>2 DEF kfree
  <2>5. m \in [Buffers -> Bytes \cup {Freed}] /\ \A b \in Buffers : m[b] = f.mem[b]
    BY <1>1, <2>1, <2>3
  <2> HIDE DEF m, h
  <2>6. h \in FsRec /\ h.nodes = f.nodes /\ h.count = f.count /\ h.ready = f.ready /\ h.mem = m
    BY <1>1, <2>4, <2>5 DEF FsRec
  <2>7. h = f
    BY <2>5, <2>6, SameFs
  <2> QED BY <2>7 DEF h, g
<1> QED BY <1>2, <1>3

\* The node gets the buffer for its own.
MadeAt(f, h, i, n) == h.nodes[i] = n /\ \A j \in NodeIds : j # i => h.nodes[j] = f.nodes[j]

HandedOver(f, h, s, i, n) ==
  s \in FsRec /\ s.count = h.count /\ s.ready = h.ready /\ s.mem = h.mem /\ s.nodes = [f.nodes EXCEPT ![i] = n]

LEMMA Owned ==
  ASSUME NEW f \in FsRec, NEW h \in FsRec, NEW i \in NodeIds, NEW p \in Names, NEW a \in NodeIds, NEW buf \in Int, NEW size \in Nat,
         MadeAt(f, h, i, Fresh(p, "FILE", a, buf, size)), NEW s, s = SetHeap(h, i, InHeap(buf))
  PROVE  HandedOver(f, h, s, i, NewFile(p, a, buf, size))
<1> DEFINE n == Fresh(p, "FILE", a, buf, size)
           w == NewFile(p, a, buf, size)
           v == InHeap(buf)
           x == s.nodes[i]
<1>1. /\ n \in Node /\ n.used /\ n.type = "FILE" /\ n.parent = a /\ n.data = buf /\ n.size = size /\ n.path = p
  BY FreshType DEF Fresh
<1>2. /\ w \in Node /\ w.used /\ w.type = "FILE" /\ w.parent = a /\ w.heap = InHeap(buf)
      /\ w.data = buf /\ w.size = size /\ w.path = p
  <2>1. w = NewFile(p, a, buf, size)
    OBVIOUS
  <2> HIDE DEF w
  <2> QED BY <2>1, NewFileType
<1>3. v \in BOOLEAN /\ s = SetHeap(h, i, v) /\ h.nodes[i] = n /\ \A j \in NodeIds : j # i => h.nodes[j] = f.nodes[j]
  BY DEF InHeap, MadeAt
<1> HIDE DEF v, n, w
<1>4. /\ s \in FsRec /\ s.count = h.count /\ s.ready = h.ready /\ s.mem = h.mem
      /\ \A j \in NodeIds : j # i => s.nodes[j] = h.nodes[j]
      /\ s.nodes[i] \in Node /\ s.nodes[i].used = h.nodes[i].used /\ s.nodes[i].type = h.nodes[i].type
      /\ s.nodes[i].parent = h.nodes[i].parent /\ s.nodes[i].heap = v /\ s.nodes[i].data = h.nodes[i].data
      /\ s.nodes[i].size = h.nodes[i].size /\ s.nodes[i].path = h.nodes[i].path
  BY <1>3, HeapFlag
<1>5. x \in Node /\ x.used /\ x.type = "FILE" /\ x.parent = a /\ x.heap = v /\ x.data = buf /\ x.size = size /\ x.path = p
  BY <1>1, <1>3, <1>4
<1> HIDE DEF x
<1>6. (x.used <=> w.used) /\ x.type = w.type /\ x.parent = w.parent /\ (x.heap <=> w.heap) /\ x.data = w.data /\ x.size = w.size /\ x.path = w.path
  BY <1>2, <1>5 DEF v
<1>7. x = w
  BY <1>2, <1>5, <1>6, SameNode
<1>8. s.nodes = [f.nodes EXCEPT ![i] = w]
  <2>1. s.nodes \in [NodeIds -> Node] /\ f.nodes \in [NodeIds -> Node]
    BY <1>4, FsFields
  <2>2. s.nodes[i] = w /\ \A j \in NodeIds : j # i => s.nodes[j] = f.nodes[j]
    BY <1>3, <1>4, <1>7 DEF x
  <2> QED BY <2>1, <2>2
<1> QED BY <1>4, <1>8 DEF w, HandedOver

LEMMA WriteNew ==
  ASSUME NEW f, Table(f), NEW p \in Names, p # <<>>, NEW a, At(f, a, split_parent(p)), find_node(f, p) = -1,
         NEW buf, NEW bytes \in Bytes, Payload(f, buf, bytes), NEW r, r = write_payload(f, p, -1, buf, bytes)
  PROVE  \/ ~r.ok /\ r.fs = f
         \/ r.ok /\ \E i \in NodeIds : Written(f, r.fs, i, p, a, buf, bytes)
<1> DEFINE g == Filled(f, buf, bytes)
           size == Len(bytes)
           m == create_or_update_node(g, p, "FILE", a, buf, size)
<1>1. /\ f \in FsRec /\ a \in NodeIds /\ find_node(f, split_parent(p)) = a /\ size \in Nat
      /\ buf # NULL /\ f.nodes \in [NodeIds -> Node]
  <2>1. a \in NodeIds /\ f.nodes[a].used /\ f.nodes[a].path = split_parent(p)
    BY DEF At
  <2>2. find_node(f, split_parent(p)) = a
    BY <2>1, FoundAt
  <2>3. Len(bytes) \in Nat
    BY LenProperties DEF Bytes
  <2>4. f \in FsRec /\ buf # NULL
    BY Sizes DEF Table, Payload
  <2> QED BY <2>1, <2>2, <2>3, <2>4, FsFields
<1>2. /\ g \in FsRec /\ g.nodes = f.nodes /\ g.count = f.count /\ g.ready = f.ready /\ buf \in Int
      /\ \A b \in Buffers : g.mem[b] = IF b = buf THEN bytes ELSE f.mem[b]
  BY <1>1, FilledOnly
<1>3. give_back(g, buf) = f
  BY <1>1, GivenBack
<1>4. r = write_owned(m, buf)
  BY <1>1 DEF write_payload, release_old, Filled
<1> HIDE DEF g, size
<1>5. Table(g) /\ find_node(g, p) = -1
  BY <1>2, SameTable
<1>6. \/ m.at = -1 /\ m.fs = g
      \/ Placed(g, m.fs, m.at, Fresh(p, "FILE", a, buf, size)) /\ g.nodes[m.at] = FreeNode /\ fits(p)
  BY <1>1, <1>2, <1>5, Create
<1> HIDE DEF m
<1>7. CASE m.at = -1 /\ m.fs = g
  <2>1. r = Refuse(f)
    BY <1>3, <1>4, <1>7 DEF write_owned
  <2> QED BY <2>1 DEF Refuse
<1>8. CASE Placed(g, m.fs, m.at, Fresh(p, "FILE", a, buf, size)) /\ g.nodes[m.at] = FreeNode /\ fits(p)
  <2> DEFINE i == m.at
             h == m.fs
             n == Fresh(p, "FILE", a, buf, size)
             s == SetHeap(h, i, InHeap(buf))
  <2>1. /\ i \in NodeIds /\ i >= 0 /\ h \in FsRec /\ h.nodes = [f.nodes EXCEPT ![i] = n]
        /\ h.mem = g.mem /\ h.ready = f.ready /\ f.count <= h.count /\ i < h.count /\ f.nodes[i] = FreeNode
    BY <1>2, <1>8 DEF Placed
  <2>2. r = [fs |-> s, ok |-> TRUE]
    BY <1>4, <2>1, Sizes DEF write_owned, SetHeap, InHeap
  <2> HIDE DEF i, h, n
  <2>3. s = SetHeap(h, i, InHeap(buf))
    OBVIOUS
  <2> HIDE DEF s
  <2>4. h.nodes[i] = n /\ \A j \in NodeIds : j # i => h.nodes[j] = f.nodes[j]
    BY <1>1, <2>1
  <2>5. /\ MadeAt(f, h, i, Fresh(p, "FILE", a, buf, size)) /\ f \in FsRec /\ h \in FsRec /\ i \in NodeIds /\ a \in NodeIds
        /\ buf \in Int /\ size \in Nat
    BY <1>1, <1>2, <2>1, <2>4 DEF n, MadeAt
  <2>6. /\ s \in FsRec /\ s.count = h.count /\ s.ready = h.ready /\ s.mem = h.mem
        /\ s.nodes = [f.nodes EXCEPT ![i] = NewFile(p, a, buf, size)]
    <3>1. HandedOver(f, h, s, i, NewFile(p, a, buf, size))
      BY <2>3, <2>5, Owned
    <3> QED BY <3>1 DEF HandedOver
  <2>7. ~f.nodes[i].heap
    BY <2>1, FreeNodeType
  <2>8. \A b \in Buffers : s.mem[b] = IF f.nodes[i].heap /\ b = f.nodes[i].data THEN Freed ELSE IF b = buf THEN bytes ELSE f.mem[b]
    BY <1>2, <2>1, <2>6, <2>7
  <2>9. Written(f, s, i, p, a, buf, bytes)
    BY <1>8, <2>1, <2>6, <2>8 DEF Written, size
  <2>10. r.ok /\ r.fs = s
    BY <2>2
  <2> QED BY <2>1, <2>9, <2>10
<1> QED BY <1>6, <1>7, <1>8

LEMMA WriteOver ==
  ASSUME NEW f, NEW H, FsOK(f, H), NEW p \in Names, p # <<>>, fits(p), NEW a, At(f, a, split_parent(p)),
         NEW i, i = find_node(f, p), i # -1, f.nodes[i].type = "FILE",
         NEW buf, NEW bytes \in Bytes, Payload(f, buf, bytes), NEW r, r = write_payload(f, p, i, buf, bytes)
  PROVE  r.ok /\ Written(f, r.fs, i, p, a, buf, bytes)
<1> DEFINE g == Filled(f, buf, bytes)
           k == node_release_heap_data(g, i)
           size == Len(bytes)
           m == create_or_update_node(k, p, "FILE", a, buf, size)
<1>1. /\ Table(f) /\ Heap(f, H) /\ f \in FsRec /\ a \in NodeIds /\ find_node(f, split_parent(p)) = a /\ size \in Nat
      /\ buf # NULL /\ f.nodes \in [NodeIds -> Node]
  <2>1. a \in NodeIds /\ f.nodes[a].used /\ f.nodes[a].path = split_parent(p)
    BY DEF At
  <2>2. Table(f) /\ Heap(f, H) /\ f \in FsRec /\ buf # NULL
    BY Sizes DEF FsOK, Table, Payload
  <2>3. find_node(f, split_parent(p)) = a
    BY <2>1, <2>2, FoundAt
  <2>4. Len(bytes) \in Nat
    BY LenProperties DEF Bytes
  <2> QED BY <2>1, <2>2, <2>3, <2>4, FsFields
<1>2. i \in NodeIds /\ i >= 0 /\ f.nodes[i].used /\ f.nodes[i].path = p
  BY <1>1, Found
<1>3. /\ g \in FsRec /\ g.nodes = f.nodes /\ g.count = f.count /\ g.ready = f.ready /\ buf \in Int
      /\ \A b \in Buffers : g.mem[b] = IF b = buf THEN bytes ELSE f.mem[b]
  BY <1>1, FilledOnly
<1>4. r = write_owned(m, buf)
  BY <1>1, <1>2 DEF write_payload, release_old, Filled
<1> HIDE DEF g, size
<1>5. Table(g)
  BY <1>1, <1>3, SameTable
<1>6. f.nodes[i].heap => f.nodes[i].data \in HeapBufs /\ f.nodes[i].data # buf
  <2>1. f.nodes[i].heap => f.nodes[i].data \in HeapBufs /\ f.mem[f.nodes[i].data] # Freed
    BY <1>1, <1>2 DEF Heap, Content
  <2>2. buf \in HeapBufs => f.mem[buf] = Freed
    BY Sizes DEF Payload
  <2> QED BY <2>1, <2>2
<1>7. /\ k \in FsRec /\ k.count = g.count /\ k.ready = g.ready
      /\ \A j \in NodeIds : j # i => k.nodes[j] = g.nodes[j]
      /\ k.nodes[i] \in Node /\ k.nodes[i].used = g.nodes[i].used /\ k.nodes[i].type = g.nodes[i].type
      /\ k.nodes[i].parent = g.nodes[i].parent /\ ~k.nodes[i].heap /\ k.nodes[i].data = g.nodes[i].data
      /\ k.nodes[i].size = g.nodes[i].size /\ k.nodes[i].path = g.nodes[i].path
      /\ \A b \in Buffers : k.mem[b] = IF g.nodes[i].heap /\ b = g.nodes[i].data THEN Freed ELSE g.mem[b]
  <2>1. g.nodes[i].heap => g.nodes[i].data \in HeapBufs
    BY <1>3, <1>6
  <2>2. g.nodes[i].type = "DIR" => ~g.nodes[i].heap
    BY <1>3
  <2> QED BY <1>2, <1>3, <2>1, <2>2, Released
<1> HIDE DEF k
<1>8. Table(k)
  <2> DEFINE n == k.nodes[i]
  <2>1. k.nodes = [g.nodes EXCEPT ![i] = n]
    <3>1. k.nodes \in [NodeIds -> Node] /\ g.nodes \in [NodeIds -> Node]
      BY <1>3, <1>7, FsFields
    <3> QED BY <1>2, <1>7, <3>1
  <2>2. Hung(g, n)
    <3>1. Linked(f, i)
      BY <1>1, <1>2 DEF Table
    <3> DEFINE u == f.nodes[i].parent
    <3>2. n.used /\ n.path = p /\ n.parent = u /\ g.nodes = f.nodes
      BY <1>2, <1>3, <1>7
    <3>3. f.nodes[u].used /\ f.nodes[u].type = "DIR" /\ f.nodes[u].path = split_parent(p) /\ Called(p)
      BY <1>2, <3>1 DEF Linked
    <3> HIDE DEF n, u
    <3> QED BY <3>2, <3>3 DEF Hung
  <2>3. g.count <= k.count /\ i < k.count
    BY <1>1, <1>2, <1>3, <1>7, FsFields DEF Table
  <2>4. \A j \in NodeIds : g.nodes[j].used /\ g.nodes[j].path = n.path => j = i
    BY <1>1, <1>2, <1>3, <1>7 DEF Table
  <2>5. n \in Node /\ (g.nodes[i].used => n.path = g.nodes[i].path /\ n.type = g.nodes[i].type)
    BY <1>7
  <2> HIDE DEF n
  <2> QED BY <1>2, <1>5, <1>7, <2>1, <2>2, <2>3, <2>4, <2>5, TablePut
<1>9. i = find_node(k, p) /\ k.nodes[i].type = "FILE"
  <2>1. k.nodes[i].used /\ k.nodes[i].path = p
    BY <1>2, <1>3, <1>7
  <2> QED BY <1>2, <1>3, <1>7, <1>8, <2>1, FoundAt
<1>10. m.at = i /\ Placed(k, m.fs, i, Updated(a, p, buf, size))
  <2> DEFINE q == m
  <2>1. q = create_or_update_node(k, p, "FILE", a, buf, size) /\ a \in NodeIds /\ buf \in Int /\ size \in Nat
    BY <1>1, <1>3
  <2> HIDE DEF q, m
  <2>2. IF fits(p) /\ k.nodes[i].type = "FILE"
        THEN q.at = i /\ Placed(k, q.fs, i, Updated(a, p, buf, size))
        ELSE q.at = -1 /\ q.fs = k
    BY <1>8, <1>9, <2>1, Update
  <2> QED BY <1>9, <2>2 DEF q
<1> HIDE DEF m
<1> DEFINE h == m.fs
           s == SetHeap(h, i, InHeap(buf))
           n == Fresh(p, "FILE", a, buf, size)
<1>11. /\ h \in FsRec /\ h.nodes = [k.nodes EXCEPT ![i] = n] /\ h.mem = k.mem /\ h.ready = f.ready
       /\ f.count <= h.count /\ i < h.count
  BY <1>3, <1>7, <1>10 DEF Placed, Updated
<1>12. r = [fs |-> s, ok |-> TRUE]
  BY <1>2, <1>4, <1>10, Sizes DEF write_owned, SetHeap, InHeap
<1> HIDE DEF h, n
<1>13. s = SetHeap(h, i, InHeap(buf))
  OBVIOUS
<1> HIDE DEF s
<1>14. h.nodes[i] = n /\ \A j \in NodeIds : j # i => h.nodes[j] = f.nodes[j]
  <2>1. k.nodes \in [NodeIds -> Node]
    BY <1>7, FsFields
  <2> QED BY <1>2, <1>3, <1>7, <1>11, <2>1
<1>15. /\ MadeAt(f, h, i, Fresh(p, "FILE", a, buf, size)) /\ f \in FsRec /\ h \in FsRec /\ i \in NodeIds /\ a \in NodeIds
       /\ buf \in Int /\ size \in Nat /\ s = SetHeap(h, i, InHeap(buf))
  BY <1>1, <1>2, <1>3, <1>11, <1>13, <1>14 DEF n, MadeAt
<1>16. /\ s \in FsRec /\ s.count = h.count /\ s.ready = h.ready /\ s.mem = h.mem
       /\ s.nodes = [f.nodes EXCEPT ![i] = NewFile(p, a, buf, size)]
  <2>1. HandedOver(f, h, s, i, NewFile(p, a, buf, size))
    BY <1>15, Owned
  <2> QED BY <2>1 DEF HandedOver
<1>17. \A b \in Buffers : s.mem[b] = IF f.nodes[i].heap /\ b = f.nodes[i].data THEN Freed ELSE IF b = buf THEN bytes ELSE f.mem[b]
  BY <1>3, <1>7, <1>11, <1>16
<1>18. Written(f, s, i, p, a, buf, bytes)
  BY <1>2, <1>11, <1>16, <1>17 DEF Written, size
<1>19. r.ok /\ r.fs = s
  BY <1>12
<1> QED BY <1>18, <1>19

\* No node but i is called p.
OnlyAt(f, p, i) == \A j \in NodeIds : f.nodes[j].used /\ f.nodes[j].path = p => j = i

LEMMA WrittenOK ==
  ASSUME NEW f, NEW H, FsOK(f, H), NEW p \in Names, p # <<>>, Called(p), NEW a, At(f, a, split_parent(p)),
         NEW buf, NEW bytes \in Bytes, Payload(f, buf, bytes), NEW g, NEW i, Written(f, g, i, p, a, buf, bytes),
         OnlyAt(f, p, i)
  PROVE  /\ FsOK(g, H) /\ Stored(f, g, p) /\ find_node(g, p) = i /\ g.nodes[i].type = "FILE" /\ FileBytes(g, i) = bytes
         /\ \A b \in H : g.mem[b] = f.mem[b]
<1> DEFINE size == Len(bytes)
           n == NewFile(p, a, buf, size)
<1>1. /\ Table(f) /\ Heap(f, H) /\ f \in FsRec /\ a \in NodeIds /\ f.nodes \in [NodeIds -> Node]
      /\ size \in Nat /\ buf \in Int
  <2>1. Len(bytes) \in Nat
    BY LenProperties DEF Bytes
  <2>2. buf \in Int
    BY Sizes DEF Payload
  <2> QED BY <2>1, <2>2, FsFields DEF FsOK, Table, At
<1>2. /\ i \in NodeIds /\ i >= 0 /\ g \in FsRec /\ g.ready = f.ready /\ f.count <= g.count /\ i < g.count
      /\ f.nodes[i] = FreeNode \/ (f.nodes[i].used /\ f.nodes[i].path = p /\ f.nodes[i].type = "FILE")
      /\ g.nodes = [f.nodes EXCEPT ![i] = n]
      /\ \A b \in Buffers : g.mem[b] = IF f.nodes[i].heap /\ b = f.nodes[i].data THEN Freed ELSE IF b = buf THEN bytes ELSE f.mem[b]
  BY DEF Written
<1>3. /\ n \in Node /\ n.used /\ n.type = "FILE" /\ n.parent = a /\ n.heap = InHeap(buf)
      /\ n.data = buf /\ n.size = size /\ n.path = p
  <2>1. n = NewFile(p, a, buf, size) /\ a \in NodeIds /\ buf \in Int /\ size \in Nat
    BY <1>1
  <2> HIDE DEF n, size
  <2> QED BY <2>1, NewFileType
<1> HIDE DEF n
<1>4. size = Len(bytes)
  OBVIOUS
<1> HIDE DEF size
<1>5. g.nodes[i] = n /\ \A j \in NodeIds : j # i => g.nodes[j] = f.nodes[j]
  BY <1>1, <1>2
<1>6. Hung(f, n)
  BY <1>3 DEF Hung, At, Written
<1>7. Table(g)
  <2>1. f.nodes[i].used => n.path = f.nodes[i].path /\ n.type = f.nodes[i].type
    BY <1>2, <1>3, FreeNodeType
  <2>2. \A j \in NodeIds : f.nodes[j].used /\ f.nodes[j].path = n.path => j = i
    BY <1>3 DEF OnlyAt
  <2>3. Table(f) /\ g \in FsRec /\ i \in NodeIds /\ n \in Node /\ g.nodes = [f.nodes EXCEPT ![i] = n] /\ f.count <= g.count /\ i < g.count
    BY <1>1, <1>2, <1>3
  <2> QED BY <1>6, <2>1, <2>2, <2>3, TablePut
<1>8. f.nodes[i].heap => f.nodes[i].data \in HeapBufs /\ f.nodes[i].data # buf /\ f.nodes[i].data \notin H
  <2>1. f.nodes[i].heap => f.nodes[i].data \in HeapBufs /\ f.mem[f.nodes[i].data] # Freed /\ f.nodes[i].data \notin H
    BY <1>1, <1>2 DEF Heap, Content
  <2>2. buf \in HeapBufs => f.mem[buf] = Freed
    BY Sizes DEF Payload
  <2> QED BY <2>1, <2>2
<1>9. InHeap(buf) => buf \in HeapBufs /\ buf \in Buffers /\ f.mem[buf] = Freed /\ buf \notin H /\ bytes # <<>>
  BY <1>1 DEF InHeap, Payload, Buffers, Heap
<1>10. ~InHeap(buf) => bytes = <<>>
  BY Sizes DEF InHeap, Payload
<1>11. InHeap(buf) => g.mem[buf] = bytes /\ bytes # Freed /\ size > 0
  <2>1. InHeap(buf) => g.mem[buf] = bytes
    BY <1>2, <1>8, <1>9
  <2>2. bytes # Freed
    BY FreedIsNoFile
  <2>3. bytes # <<>> => size > 0
    BY <1>4, EmptySeq DEF Bytes
  <2> QED BY <1>9, <2>1, <2>2, <2>3
<1>12. ~InHeap(buf) => size = 0
  BY <1>10, <1>4, EmptySeq
<1>13. Content(g, i)
  <2> DEFINE x == g.nodes[i]
  <2>1. x.type = "FILE" /\ (x.heap <=> InHeap(buf)) /\ x.data = buf /\ x.size = size
    BY <1>3, <1>5
  <2> HIDE DEF x
  <2>2. x.heap => x.data \in HeapBufs /\ g.mem[x.data] # Freed /\ Len(g.mem[x.data]) = x.size /\ x.size > 0
    BY <1>9, <1>11, <1>4, <2>1
  <2>3. ~x.heap => x.size = 0
    BY <1>12, <2>1
  <2> QED BY <2>1, <2>2, <2>3 DEF Content, x
<1>14. Heap(g, H)
  <2>1. n.heap => n.used /\ f.mem[n.data] = Freed /\ n.data \notin H
    BY <1>3, <1>9
  <2>2. f.nodes[i].heap => g.mem[f.nodes[i].data] = Freed
    <3>1. HeapBufs \subseteq Buffers
      BY DEF Buffers
    <3> QED BY <1>2, <1>8, <3>1
  <2>3. \A b \in Buffers : (n.heap /\ b = n.data) \/ (f.nodes[i].heap /\ b = f.nodes[i].data) \/ g.mem[b] = f.mem[b]
    <3> SUFFICES ASSUME NEW b \in Buffers, ~(f.nodes[i].heap /\ b = f.nodes[i].data), ~(n.heap /\ b = n.data)
                 PROVE  g.mem[b] = f.mem[b]
      OBVIOUS
    <3>1. EMPTY_DATA \notin Buffers
      BY Sizes DEF Buffers
    <3>2. b # buf
      BY <1>3, <3>1 DEF InHeap
    <3> QED BY <1>2, <3>2
  <2>4. /\ f \in FsRec /\ Heap(f, H) /\ g \in FsRec /\ i \in NodeIds /\ n \in Node
        /\ g.nodes = [f.nodes EXCEPT ![i] = n] /\ Content(g, i)
    BY <1>1, <1>2, <1>3, <1>13
  <2> QED BY <2>1, <2>2, <2>3, <2>4, HeapPut
<1>15. FsOK(g, H)
  BY <1>7, <1>14 DEF FsOK
<1>16. FileBytes(g, i) = bytes
  <2>1. CASE InHeap(buf)
    <3>1. g.nodes[i].size > 0
      BY <1>3, <1>5, <1>11, <2>1
    <3>2. FileBytes(g, i) = g.mem[g.nodes[i].data]
      BY <1>2, <1>14, <3>1, Holds
    <3> QED BY <1>3, <1>5, <1>11, <2>1, <3>2
  <2>2. CASE ~InHeap(buf)
    <3>1. g.nodes[i].size = 0
      BY <1>3, <1>5, <1>12, <2>2
    <3>2. FileBytes(g, i) = <<>>
      BY <1>2, <1>14, <3>1, Holds
    <3> QED BY <1>10, <2>2, <3>2
  <2> QED BY <2>1, <2>2
<1>17. find_node(g, p) = i
  <2>1. g.nodes[i].used /\ g.nodes[i].path = p
    BY <1>3, <1>5
  <2> QED BY <1>2, <1>7, <2>1, FoundAt
<1>18. \A b \in H : g.mem[b] = f.mem[b]
  <2> SUFFICES ASSUME NEW b \in H PROVE g.mem[b] = f.mem[b]
    OBVIOUS
  <2>1. b \in HeapBufs /\ b \in Buffers /\ f.mem[b] # Freed
    BY <1>1 DEF Heap, Buffers
  <2>2. b # buf
    BY <2>1, Sizes DEF Payload
  <2> QED BY <1>2, <1>8, <2>1, <2>2
<1>19. Stored(f, g, p)
  <2>1. ASSUME NEW j \in NodeIds, f.nodes[j].used, f.nodes[j].path # p PROVE Stays(f, g, j)
    <3>1. j # i /\ g.nodes[j] = f.nodes[j]
      BY <1>2, <1>5, <2>1, FreeNodeType
    <3>2. FileBytes(g, j) = FileBytes(f, j)
      <4>1. f.nodes[j].size # 0 => g.mem[f.nodes[j].data] = f.mem[f.nodes[j].data]
        <5> SUFFICES ASSUME f.nodes[j].size # 0 PROVE g.mem[f.nodes[j].data] = f.mem[f.nodes[j].data]
          OBVIOUS
        <5>1. f.nodes[j].size > 0
          <6>1. f.nodes[j].size \in Nat
            BY <1>1, NodeFields
          <6> QED BY <6>1
        <5>2. CASE f.nodes[j].heap
          <6>1. f.nodes[j].data \in HeapBufs /\ f.nodes[j].data \in Buffers /\ f.mem[f.nodes[j].data] # Freed
            BY <1>1, <5>2 DEF Heap, Content, Buffers
          <6>2. f.nodes[j].data # buf
            BY <6>1, Sizes DEF Payload
          <6>3. f.nodes[i].heap => f.nodes[i].data # f.nodes[j].data
            BY <1>1, <1>2, <3>1, <5>2 DEF Heap
          <6> QED BY <1>2, <6>1, <6>2, <6>3
        <5>3. CASE ~f.nodes[j].heap
          <6>1. f.nodes[j].data \in DOMAIN Ram /\ f.nodes[j].data \in Buffers
            BY <1>1, <5>1, <5>3 DEF Heap, Content, Buffers
          <6>2. f.nodes[j].data \notin HeapBufs /\ f.nodes[j].data # EMPTY_DATA
            BY <6>1, Sizes
          <6>3. f.nodes[j].data # buf
            BY <6>2 DEF Payload
          <6> QED BY <1>2, <1>8, <6>1, <6>2, <6>3
        <5> QED BY <5>2, <5>3
      <4> QED BY <3>1, <4>1, HoldsOn
    <3> QED BY <2>1, <3>1, <3>2 DEF Stays
  <2>2. ASSUME NEW j \in NodeIds, f.nodes[j].used
        PROVE g.nodes[j].used /\ g.nodes[j].path = f.nodes[j].path /\ g.nodes[j].type = f.nodes[j].type
    <3>1. CASE j = i
      <4>1. f.nodes[i].path = p /\ f.nodes[i].type = "FILE"
        BY <1>2, <2>2, <3>1, FreeNodeType
      <4> QED BY <1>3, <1>5, <3>1, <4>1
    <3>2. CASE j # i
      BY <1>5, <2>2, <3>2
    <3> QED BY <3>1, <3>2
  <2>3. ASSUME NEW j \in NodeIds, g.nodes[j].used, ~f.nodes[j].used
        PROVE g.nodes[j].path = p /\ g.nodes[j].type = "FILE"
    BY <1>3, <1>5, <2>3
  <2> QED BY <1>2, <2>1, <2>2, <2>3 DEF Stored
<1> QED BY <1>3, <1>5, <1>15, <1>16, <1>17, <1>18, <1>19

\* p is a file with these contents, and what was there is still there.
Holding(g, p, bytes) == /\ find_node(g, p) # -1 /\ g.nodes[find_node(g, p)].type = "FILE"
                        /\ FileBytes(g, find_node(g, p)) = bytes
Unharmed(f, g) == \A i \in NodeIds : f.nodes[i].used => Stays(f, g, i)

Result == [fs : FsRec, ok : BOOLEAN]
SameIn(H, f, g) == \A b \in H : g.mem[b] = f.mem[b]

LEMMA RefuseIs == ASSUME NEW f \in FsRec, NEW r, r = Refuse(f) PROVE r \in Result /\ r.fs = f /\ ~r.ok
  BY DEF Refuse, Result

\* Directories were made on the way to p, and every file is as it was.
Sprouted(f, g, p) ==
  /\ g.ready = f.ready /\ Unharmed(f, g)
  /\ \A i \in NodeIds : g.nodes[i].used /\ ~f.nodes[i].used => g.nodes[i].type = "DIR" /\ IsAbove(g.nodes[i].path, p)

LEMMA GrownSprouted == ASSUME NEW f, NEW g, NEW p, Grown(f, g, p) PROVE Sprouted(f, g, p)
<1>1. Unharmed(f, g)
  BY GrownStays DEF Unharmed
<1> QED BY <1>1 DEF Grown, Sprouted

LEMMA SproutedNot == ASSUME NEW f, NEW p PROVE Sprouted(f, f, p)
  BY DEF Sprouted, Unharmed, Stays

LEMMA PayloadOf ==
  ASSUME NEW f, NEW bytes, NEW buf, buf = (IF bytes = <<>> THEN EMPTY_DATA ELSE kmalloc(f)), buf # NULL
  PROVE  Payload(f, buf, bytes)
<1>1. CASE bytes = <<>>
  BY <1>1 DEF Payload
<1>2. CASE bytes # <<>>
  <2>1. kmalloc(f) = NULL \/ (kmalloc(f) \in HeapBufs /\ f.mem[kmalloc(f)] = Freed)
    BY Malloc
  <2> QED BY <1>2, <2>1 DEF Payload
<1> QED BY <1>1, <1>2

LEMMA WriteNode ==
  ASSUME NEW f, NEW H, FsOK(f, H), NEW p, Normal(p), p # <<>>, NEW a, At(f, a, split_parent(p)),
         NEW bytes \in Bytes, NEW r, r = write_node(f, p, find_node(f, p), bytes)
  PROVE  /\ r \in Result /\ FsOK(r.fs, H) /\ SameIn(H, f, r.fs) /\ Stored(f, r.fs, p)
         /\ r.ok => Holding(r.fs, p, bytes)
         /\ ~r.ok => r.fs = f
<1> DEFINE i == find_node(f, p)
           buf == IF bytes = <<>> THEN EMPTY_DATA ELSE kmalloc(f)
<1>1. Table(f) /\ f \in FsRec /\ p \in Names /\ fits(p) /\ Called(p)
  BY PlainAbove DEF FsOK, Table, Normal
<1>2. CASE r = Refuse(f)
  <2>1. r \in Result /\ r.fs = f /\ ~r.ok
    BY <1>1, <1>2, RefuseIs
  <2> QED BY <2>1, StoredNot DEF SameIn
<1>3. i = -1 \/ (i \in NodeIds /\ i >= 0 /\ i # -1 /\ f.nodes[i].used /\ f.nodes[i].path = p)
  <2>1. \/ i = -1 /\ \A j \in NodeIds : f.nodes[j].used => f.nodes[j].path # p
        \/ i \in NodeIds /\ f.nodes[i].used /\ f.nodes[i].path = p /\ i >= 0
    BY <1>1, Found
  <2> HIDE DEF i
  <2> QED BY <2>1, Sizes
<1>4. r = Refuse(f) \/ (r = write_payload(f, p, i, buf, bytes) /\ buf # NULL /\ (i = -1 \/ f.nodes[i].type = "FILE"))
  <2>1. CASE i >= 0 /\ f.nodes[i].type # "FILE"
    BY <2>1 DEF write_node
  <2>2. CASE ~(i >= 0 /\ f.nodes[i].type # "FILE")
    <3>1. r = write_payload(f, p, i, buf, bytes)
      BY <2>2 DEF write_node
    <3>2. i = -1 \/ f.nodes[i].type = "FILE"
      <4> HIDE DEF i
      <4> QED BY <1>3, <2>2
    <3>3. buf = NULL => r = Refuse(f)
      <4> HIDE DEF buf
      <4> QED BY <3>1 DEF write_payload
    <3> QED BY <3>1, <3>2, <3>3
  <2> QED BY <2>1, <2>2
<1>5. r = write_payload(f, p, i, buf, bytes) => \E g, ok : ok \in BOOLEAN /\ r = [fs |-> g, ok |-> ok]
  BY DEF write_payload, write_owned, Refuse
<1> DEFINE Finished(g, n) ==
             /\ FsOK(g, H) /\ Stored(f, g, p) /\ find_node(g, p) = n /\ g.nodes[n].type = "FILE" /\ FileBytes(g, n) = bytes
             /\ \A b \in H : g.mem[b] = f.mem[b]
<1>6. ASSUME r = write_payload(f, p, i, buf, bytes), r.ok, NEW n \in NodeIds, Finished(r.fs, n)
      PROVE  /\ r \in Result /\ FsOK(r.fs, H) /\ SameIn(H, f, r.fs) /\ Stored(f, r.fs, p) /\ Holding(r.fs, p, bytes)
  <2>1. n # -1 /\ r.fs \in FsRec
    BY <1>6, Sizes DEF FsOK, Table
  <2>2. r \in Result
    BY <1>5, <1>6, <2>1 DEF Result
  <2> QED BY <1>6, <2>1, <2>2 DEF Holding, SameIn
<1>7. CASE r = write_payload(f, p, i, buf, bytes) /\ buf # NULL /\ (i = -1 \/ f.nodes[i].type = "FILE")
  <2>1. Payload(f, buf, bytes)
    BY <1>7, PayloadOf
  <2> HIDE DEF buf
  <2>2. CASE i = -1
    <3>1. \/ ~r.ok /\ r.fs = f
          \/ r.ok /\ \E n \in NodeIds : Written(f, r.fs, n, p, a, buf, bytes)
      <4>1. find_node(f, p) = -1 /\ r = write_payload(f, p, -1, buf, bytes)
        BY <1>7, <2>2
      <4> QED BY <1>1, <2>1, <4>1, WriteNew
    <3>2. CASE ~r.ok /\ r.fs = f
      BY <1>1, <1>7, <1>5, <3>2, StoredNot DEF SameIn, Result
    <3>3. CASE r.ok /\ \E n \in NodeIds : Written(f, r.fs, n, p, a, buf, bytes)
      <4>1. PICK n \in NodeIds : Written(f, r.fs, n, p, a, buf, bytes)
        BY <3>3
      <4>2. OnlyAt(f, p, n)
        <5>1. find_node(f, p) = -1
          BY <2>2
        <5> QED BY <1>1, <5>1, NotFound DEF OnlyAt
      <4>3. Finished(r.fs, n)
        BY <1>1, <2>1, <4>1, <4>2, WrittenOK
      <4> HIDE DEF Finished
      <4> QED BY <1>7, <1>6, <3>3, <4>3
    <3> QED BY <3>1, <3>2, <3>3
  <2>3. CASE i # -1
    <3>1. f.nodes[i].type = "FILE" /\ r = write_payload(f, p, i, buf, bytes) /\ i = find_node(f, p)
      BY <1>7, <2>3
    <3>2. OnlyAt(f, p, i)
      <4> HIDE DEF i
      <4> QED BY <1>1, <1>3, <2>3 DEF OnlyAt, Table
    <3> HIDE DEF i
    <3>3. r.ok /\ Written(f, r.fs, i, p, a, buf, bytes)
      BY <1>1, <2>1, <2>3, <3>1, WriteOver
    <3>4. i \in NodeIds
      BY <1>3, <2>3
    <3>5. Finished(r.fs, i)
      BY <1>1, <2>1, <3>2, <3>3, WrittenOK
    <3> HIDE DEF Finished
    <3> QED BY <1>6, <3>1, <3>3, <3>4, <3>5
  <2> QED BY <2>2, <2>3
<1> QED BY <1>2, <1>4, <1>7

\* p may be written.
Writable(f, p) == f.ready /\ is_temp_file_path(p)

\* What a store of bytes in the file p comes to: it holds them, or every file is as it was.
Wrote(f, H, p, bytes, r) ==
  /\ r \in Result /\ FsOK(r.fs, H) /\ SameIn(H, f, r.fs) /\ Stored(f, r.fs, p)
  /\ r.fs # f \/ r.ok => Writable(f, p)
  /\ r.ok => Holding(r.fs, p, bytes)
  /\ ~r.ok => Sprouted(f, r.fs, split_parent(p))

LEMMA WroteNot == ASSUME NEW f, NEW H, FsOK(f, H), NEW p, NEW bytes, NEW r, r = Refuse(f) PROVE Wrote(f, H, p, bytes, r)
<1>1. f \in FsRec
  BY DEF FsOK, Table
<1>2. r \in Result /\ r.fs = f /\ ~r.ok
  BY <1>1, RefuseIs
<1>3. Stored(f, f, p) /\ Sprouted(f, f, split_parent(p))
  BY StoredNot, SproutedNot
<1> QED BY <1>2, <1>3 DEF Wrote, SameIn

LEMMA TempFile ==
  ASSUME NEW p, Normal(p), is_temp_file_path(p)
  PROVE  p \in Names /\ p # <<>> /\ Called(p) /\ Plain(split_parent(p))
<1>1. p # <<>>
  BY DEF is_temp_file_path, in_temp_tree
<1> QED BY <1>1, PlainAbove DEF Normal

LEMMA WritePath ==
  ASSUME NEW f, NEW H, FsOK(f, H), NEW p, p = NoPath \/ Normal(p), NEW bytes \in Bytes, NEW r, r = write_path(f, p, bytes)
  PROVE  Wrote(f, H, p, bytes, r)
<1> DEFINE q == split_parent(p)
           d == ensure_dir_hierarchy(f, q)
<1>1. r = Refuse(f) \/ (Normal(p) /\ Writable(f, p) /\ r = write_below(d, p, bytes))
  BY DEF write_path, Writable
<1>2. CASE r = Refuse(f)
  BY <1>2, WroteNot
<1>3. CASE Normal(p) /\ Writable(f, p) /\ r = write_below(d, p, bytes)
  <2>1. p \in Names /\ p # <<>> /\ Plain(q)
    BY <1>3, TempFile DEF Writable
  <2>2. d = ensure_dir_hierarchy(f, q)
    OBVIOUS
  <2> HIDE DEF d
  <2>3. FsOK(d.fs, H) /\ Grown(f, d.fs, q) /\ (d.at = -1 \/ At(d.fs, d.at, q))
    <3> HIDE DEF q
    <3> QED BY <2>1, <2>2, PlainWalk
  <2>4. Stored(f, d.fs, p) /\ d.fs.mem = f.mem /\ Sprouted(f, d.fs, split_parent(p))
    <3>1. Sprouted(f, d.fs, q)
      <4> HIDE DEF q
      <4> QED BY <2>3, GrownSprouted
    <3> QED BY <2>1, <2>3, <3>1, GrownStored DEF Grown
  <2>5. CASE d.at = -1
    <3>1. r = Refuse(d.fs)
      BY <1>3, <2>5 DEF write_below
    <3>2. r \in Result /\ r.fs = d.fs /\ ~r.ok
      BY <2>3, <3>1, RefuseIs DEF FsOK, Table
    <3> QED BY <1>3, <2>3, <2>4, <3>2 DEF Wrote, SameIn
  <2>6. CASE At(d.fs, d.at, q)
    <3> DEFINE g == d.fs
    <3>1. r = write_node(g, p, find_node(g, p), bytes)
      <4>1. d.at \in Nat
        BY <2>6, Sizes DEF At
      <4>2. ~(d.at < 0)
        BY <4>1
      <4> QED BY <1>3, <4>2 DEF write_below
    <3>2. FsOK(g, H) /\ At(g, d.at, split_parent(p))
      BY <2>3, <2>6
    <3> HIDE DEF g
    <3>3. /\ r \in Result /\ FsOK(r.fs, H) /\ SameIn(H, g, r.fs) /\ Stored(g, r.fs, p)
          /\ r.ok => Holding(r.fs, p, bytes)
          /\ ~r.ok => r.fs = g
      BY <1>3, <2>1, <3>1, <3>2, WriteNode
    <3>4. Stored(f, r.fs, p)
      <4>1. Stored(f, g, p)
        BY <2>4 DEF g
      <4> QED BY <3>3, <4>1, StoredOn
    <3>5. SameIn(H, f, r.fs)
      BY <2>4, <3>3 DEF SameIn, g
    <3>6. ~r.ok => Sprouted(f, r.fs, split_parent(p))
      BY <2>4, <3>3 DEF g
    <3> QED BY <1>3, <3>3, <3>4, <3>5, <3>6 DEF Wrote
  <2> QED BY <2>3, <2>5, <2>6
<1> QED BY <1>1, <1>2, <1>3

-----------------------------------------------------------------------------
(* Stores from a buffer of their own. *)

\* No file is in a buffer that is free, or is being filled.
Beside(f, H, g, b) ==
  /\ b \in HeapBufs /\ (b \in H \/ f.mem[b] = Freed)
  /\ g.nodes = f.nodes /\ \A c \in Buffers : c # b => g.mem[c] = f.mem[c]
SameFiles(f, g) == \A i \in NodeIds : FileBytes(g, i) = FileBytes(f, i)

LEMMA NotInHeld ==
  ASSUME NEW f \in FsRec, NEW H, Heap(f, H), NEW b, NEW g, Beside(f, H, g, b) PROVE SameFiles(f, g)
<1> SUFFICES ASSUME NEW i \in NodeIds PROVE FileBytes(g, i) = FileBytes(f, i)
  BY DEF SameFiles
<1> DEFINE n == f.nodes[i]
<1>1. n.size # 0 => g.mem[n.data] = f.mem[n.data]
  <2> SUFFICES ASSUME n.size # 0 PROVE g.mem[n.data] = f.mem[n.data]
    OBVIOUS
  <2>1. n.size > 0 /\ n.heap \in BOOLEAN
    <3>1. n.size \in Nat /\ n.heap \in BOOLEAN
      BY NodeFields
    <3> QED BY <3>1
  <2>2. CASE n.heap
    BY <2>2 DEF Heap, Content, Buffers, Beside
  <2>3. CASE ~n.heap
    <3>1. n.data \in DOMAIN Ram
      BY <2>1, <2>3 DEF Heap, Content
    <3> QED BY <3>1, Sizes DEF Buffers, Beside
  <2> QED BY <2>1, <2>2, <2>3
<1> QED BY <1>1, HoldsOn DEF Beside

LEMMA StaysAround ==
  ASSUME NEW f, NEW g, g.nodes = f.nodes, SameFiles(f, g)
  PROVE  Unharmed(f, g) /\ (g.ready = f.ready => \A p : Stored(f, g, p))
  BY DEF Unharmed, Stored, Stays, SameFiles

LEMMA FromBuffer ==
  ASSUME NEW f, NEW H, FsOK(f, H), NEW p, NEW bytes, NEW b \in HeapBufs, f.mem[b] = Freed, NEW copy \in Bytes,
         NEW s, Wrote(fill(f, b, copy), H \cup {b}, p, bytes, s), NEW r, r = release(s, b)
  PROVE  Wrote(f, H, p, bytes, r)
<1> DEFINE g == fill(f, b, copy)
           h == s.fs
           k == kfree(h, b)
           I == H \cup {b}
<1>1. Table(f) /\ f \in FsRec /\ Heap(f, H) /\ b \notin H /\ I \ {b} = H /\ b \in I
  BY DEF FsOK, Table, Heap
<1>2. /\ g \in FsRec /\ Heap(g, I) /\ g.nodes = f.nodes /\ g.count = f.count /\ g.ready = f.ready
      /\ g.mem = [f.mem EXCEPT ![b] = copy]
  BY <1>1, HeapHold
<1>3. Wrote(g, I, p, bytes, s)
  OBVIOUS
<1> HIDE DEF g, I
<1>4. s \in Result /\ FsOK(h, I) /\ h \in FsRec /\ Heap(h, I) /\ Table(h) /\ SameIn(I, g, h) /\ Stored(g, h, p)
  BY <1>3 DEF Wrote, FsOK, Table
<1> HIDE DEF h
<1>5. /\ k \in FsRec /\ Heap(k, I \ {b}) /\ k.nodes = h.nodes /\ k.count = h.count /\ k.ready = h.ready
      /\ k.mem = [h.mem EXCEPT ![b] = Freed]
  BY <1>1, <1>4, HeapRelease
<1>6. r = [fs |-> k, ok |-> s.ok] /\ s.ok \in BOOLEAN
  <2>1. s = [fs |-> s.fs, ok |-> s.ok] /\ s.ok \in BOOLEAN
    BY <1>4 DEF Result
  <2>2. r = [s EXCEPT !.fs = k]
    BY DEF release, h
  <2> HIDE DEF k
  <2> QED BY <2>1, <2>2
<1> HIDE DEF k
<1>7. r \in Result /\ r.fs = k /\ (r.ok <=> s.ok)
  BY <1>5, <1>6 DEF Result
<1>8. Table(k) /\ \A q : find_node(k, q) = find_node(h, q)
  BY <1>4, <1>5, SameTable
<1>9. FsOK(k, H)
  BY <1>1, <1>5, <1>8 DEF FsOK
<1>10. f.mem \in [Buffers -> Bytes \cup {Freed}] /\ h.mem \in [Buffers -> Bytes \cup {Freed}] /\ b \in Buffers /\ H \subseteq Buffers
  BY <1>1, <1>4, FsFields DEF Buffers, Heap
<1>11. (\A c \in Buffers : c # b => g.mem[c] = f.mem[c]) /\ \A c \in Buffers : c # b => k.mem[c] = h.mem[c]
  BY <1>2, <1>5, <1>10
<1>12. SameFiles(f, g)
  <2>1. Beside(f, H, g, b)
    BY <1>2, <1>11 DEF Beside
  <2> QED BY <1>1, <2>1, NotInHeld
<1>13. SameFiles(h, k)
  <2>1. Beside(h, I, k, b)
    BY <1>1, <1>5, <1>11 DEF Beside
  <2> QED BY <1>4, <2>1, NotInHeld
<1>14. Unharmed(f, g) /\ Stored(f, g, p)
  BY <1>2, <1>12, StaysAround
<1>15. Unharmed(h, k) /\ Stored(h, k, p)
  BY <1>5, <1>13, StaysAround
<1>16. Stored(f, k, p)
  <2>1. Stored(f, h, p)
    BY <1>4, <1>14, StoredOn
  <2> QED BY <1>15, <2>1, StoredOn
<1>17. SameIn(H, f, k)
  BY <1>1, <1>4, <1>10, <1>11 DEF SameIn, I
<1>18. r.ok => Holding(k, p, bytes)
  <2> SUFFICES ASSUME s.ok PROVE Holding(k, p, bytes)
    BY <1>7
  <2> DEFINE i == find_node(h, p)
  <2>1. i # -1 /\ h.nodes[i].type = "FILE" /\ FileBytes(h, i) = bytes
    BY <1>3 DEF Wrote, Holding, h
  <2>2. i \in NodeIds
    BY <1>4, <2>1, Found
  <2>3. find_node(k, p) = i
    BY <1>8
  <2> HIDE DEF i
  <2> QED BY <1>5, <1>13, <2>1, <2>2, <2>3 DEF Holding, SameFiles
<1>19. ~r.ok => Sprouted(f, k, split_parent(p))
  <2> DEFINE q == split_parent(p)
  <2> SUFFICES ASSUME ~s.ok PROVE Sprouted(f, k, q)
    BY <1>7
  <2>1. Sprouted(g, h, q)
    BY <1>3 DEF Wrote, h
  <2> HIDE DEF q
  <2>2. Unharmed(f, k)
    BY <1>14, <1>15, <2>1 DEF Sprouted, Unharmed, Stays
  <2> QED BY <1>2, <1>5, <2>1, <2>2 DEF Sprouted
<1>20. k # f \/ r.ok => Writable(f, p)
  <2> SUFFICES ASSUME h = g, ~s.ok PROVE k = f
    <3>1. h # g \/ s.ok => Writable(f, p)
      BY <1>2, <1>3 DEF Wrote, Writable, h
    <3> QED BY <1>7, <3>1
  <2>1. \A c \in Buffers : k.mem[c] = f.mem[c]
    BY <1>5, <1>10, <1>11
  <2> QED BY <1>1, <1>2, <1>5, <2>1, SameFs
<1> QED BY <1>7, <1>9, <1>16, <1>17, <1>18, <1>19, <1>20 DEF Wrote

LEMMA StoreCopy ==
  ASSUME NEW f, NEW H, FsOK(f, H), NEW p, p = NoPath \/ Normal(p), NEW bytes \in Bytes,
         NEW r, r = store_copy(f, p, kmalloc(f), bytes)
  PROVE  Wrote(f, H, p, bytes, r)
<1> DEFINE b == kmalloc(f)
           g == fill(f, b, bytes)
           s == write_path(g, p, bytes)
<1>1. b = NULL \/ (b \in HeapBufs /\ f.mem[b] = Freed)
  BY Malloc
<1>2. r = IF b = NULL THEN Refuse(f) ELSE release(s, b)
  BY DEF store_copy
<1> HIDE DEF b
<1>3. CASE b = NULL
  BY <1>2, <1>3, WroteNot
<1>4. CASE b # NULL
  <2>1. b \in HeapBufs /\ f.mem[b] = Freed /\ r = release(s, b)
    BY <1>1, <1>2, <1>4
  <2>2. FsOK(g, H \cup {b})
    <3>1. Table(f) /\ f \in FsRec /\ Heap(f, H)
      BY DEF FsOK, Table
    <3>0. b \in HeapBufs /\ f.mem[b] = Freed
      BY <2>1
    <3>4. g = fill(f, b, bytes)
      OBVIOUS
    <3> HIDE DEF g
    <3>2. /\ g \in FsRec /\ Heap(g, H \cup {b}) /\ g.nodes = f.nodes /\ g.count = f.count
      BY <3>0, <3>1, <3>4, HeapHeld
    <3>3. Table(g)
      BY <3>1, <3>2, TableOnly, Zenon
    <3> QED BY <3>2, <3>3 DEF FsOK
  <2>3. Wrote(g, H \cup {b}, p, bytes, s)
    <3> HIDE DEF g
    <3> QED BY <2>2, WritePath
  <2> HIDE DEF s
  <2> QED BY <2>1, <2>3, FromBuffer
<1> QED BY <1>3, <1>4

-----------------------------------------------------------------------------
(* clks_fs_write_all and clks_fs_append. *)

LEMMA WriteAll ==
  ASSUME NEW f, NEW H, FsOK(f, H), NEW x \in Paths, NEW bytes \in Bytes, NEW r, r = write_all(f, x, bytes)
  PROVE  Wrote(f, H, normalize_external_path(x), bytes, r)
<1> DEFINE p == normalize_external_path(x)
<1>1. p = NoPath \/ Normal(p)
  BY NormalPath
<1>2. r = write_path(f, p, bytes)
  BY DEF write_all
<1> HIDE DEF p
<1>3. Wrote(f, H, p, bytes, r)
  BY <1>1, <1>2, WritePath
<1> QED BY <1>3 DEF p

\* What is in the file p; nothing, when there is none.
Contents(f, p) == IF find_node(f, p) = -1 THEN <<>> ELSE FileBytes(f, find_node(f, p))

LEMMA ContentsType ==
  ASSUME NEW f, NEW H, FsOK(f, H), NEW p PROVE Contents(f, p) \in Bytes
<1> DEFINE i == find_node(f, p)
<1>1. Table(f) /\ f \in FsRec /\ Heap(f, H)
  BY DEF FsOK, Table
<1>2. CASE i = -1
  BY <1>2, EmptySeq DEF Contents, Bytes
<1>3. CASE i # -1
  <2>1. i \in NodeIds
    BY <1>1, <1>3, Found
  <2> HIDE DEF i
  <2>2. FileBytes(f, i) \in Bytes
    BY <1>1, <2>1, Holds
  <2> QED BY <1>3, <2>2 DEF Contents, i
<1> QED BY <1>2, <1>3

LEMMA Joined ==
  ASSUME NEW a \in Bytes, NEW b \in Bytes
  PROVE a \o b \in Bytes /\ <<>> \o b = b /\ a \o <<>> = a /\ Len(a \o b) = Len(a) + Len(b) /\ <<>> \in Bytes
<1>1. a \o b \in Bytes /\ Len(a \o b) = Len(a) + Len(b)
  BY ConcatProperties DEF Bytes
<1>2. <<>> \o b = b /\ a \o <<>> = a /\ <<>> \in Bytes
  BY ConcatEmptySeq, EmptySeq DEF Bytes
<1> QED BY <1>1, <1>2

LEMMA AppendAll ==
  ASSUME NEW f, NEW H, FsOK(f, H), NEW x \in Paths, NEW bytes \in Bytes, NEW r, r = append(f, x, bytes),
         NEW p, p = normalize_external_path(x)
  PROVE  Wrote(f, H, p, Contents(f, p) \o bytes, r)
<1> DEFINE i == find_node(f, p)
           old == Contents(f, p)
           new == old \o bytes
<1>1. Table(f) /\ f \in FsRec /\ Heap(f, H) /\ (p = NoPath \/ Normal(p))
  BY NormalPath DEF FsOK, Table
<1>2. old \in Bytes /\ new \in Bytes /\ <<>> \o bytes = bytes
  BY ContentsType, Joined
<1>3. i = -1 \/ (i \in NodeIds /\ i # -1 /\ i >= 0)
  <2>1. i = -1 \/ (i \in NodeIds /\ i >= 0)
    BY <1>1, Found
  <2> HIDE DEF i
  <2> QED BY <2>1, Sizes
<1>4. r = append_path(f, p, IF p = NoPath THEN -1 ELSE i, bytes)
  BY DEF append, find_external
<1> HIDE DEF i
<1>5. \/ r = Refuse(f)
      \/ p # NoPath /\ i = -1 /\ r = write_path(f, p, bytes)
      \/ p # NoPath /\ i # -1 /\ bytes = <<>> /\ f.nodes[i].size = 0 /\ r = write_path(f, p, <<>>)
      \/ p # NoPath /\ i # -1 /\ r = store_copy(f, p, kmalloc(f), FileBytes(f, i) \o bytes)
  <2>1. CASE p = NoPath
    BY <1>4, <2>1 DEF append_path
  <2>2. CASE p # NoPath
    <3>1. r = append_path(f, p, i, bytes)
      BY <1>4, <2>2
    <3>2. i < 0 <=> i = -1
      <4>1. i = -1 \/ i \in Nat
        BY <1>3, Sizes
      <4> QED BY <4>1
    <3> QED BY <2>2, <3>1, <3>2, Zenon DEF append_path
  <2> QED BY <2>1, <2>2
<1>6. CASE r = Refuse(f)
  BY <1>6, WroteNot
<1>7. CASE p # NoPath /\ i = -1 /\ r = write_path(f, p, bytes)
  <2>1. new = bytes
    BY <1>2, <1>7 DEF Contents, i
  <2> HIDE DEF new
  <2>2. Wrote(f, H, p, bytes, r)
    BY <1>1, <1>7, WritePath
  <2> QED BY <2>1, <2>2 DEF new
<1>8. CASE p # NoPath /\ i # -1 /\ bytes = <<>> /\ f.nodes[i].size = 0 /\ r = write_path(f, p, <<>>)
  <2>1. FileBytes(f, i) = <<>>
    BY <1>8 DEF FileBytes
  <2>2. new = bytes
    BY <1>2, <1>8, <2>1 DEF Contents, i
  <2> HIDE DEF new
  <2>3. Wrote(f, H, p, bytes, r)
    BY <1>1, <1>8, WritePath
  <2> QED BY <2>2, <2>3 DEF new
<1>9. CASE p # NoPath /\ i # -1 /\ r = store_copy(f, p, kmalloc(f), FileBytes(f, i) \o bytes)
  <2>1. new = FileBytes(f, i) \o bytes
    BY <1>9 DEF Contents, i
  <2> HIDE DEF new
  <2>2. Wrote(f, H, p, new, r)
    BY <1>1, <1>2, <1>9, <2>1, StoreCopy
  <2> QED BY <2>2 DEF new
<1> QED BY <1>5, <1>6, <1>7, <1>8, <1>9

-----------------------------------------------------------------------------
(* clks_fs_mkdir and clks_fs_remove. *)

LEMMA Mkdir ==
  ASSUME NEW f, NEW H, FsOK(f, H), NEW x \in Paths, NEW p, p = normalize_external_path(x), NEW r, r = mkdir(f, x)
  PROVE  FsOK(r.fs, H) /\ (r.fs = f \/ (Normal(p) /\ f.ready /\ in_temp_tree(p) /\ Sprouted(f, r.fs, p)))
<1> DEFINE d == ensure_dir_hierarchy(f, p)
<1>1. p = NoPath \/ Normal(p)
  BY NormalPath
<1>2. r.fs = f \/ (Normal(p) /\ f.ready /\ in_temp_tree(p) /\ r.fs = d.fs)
  BY <1>1 DEF mkdir, Refuse
<1>3. d = ensure_dir_hierarchy(f, p)
  OBVIOUS
<1> HIDE DEF d
<1>4. CASE Normal(p) /\ f.ready /\ in_temp_tree(p) /\ r.fs = d.fs
  <2>1. FsOK(d.fs, H) /\ Grown(f, d.fs, p)
    BY <1>3, <1>4, PlainWalk DEF Normal
  <2> QED BY <1>4, <2>1, GrownSprouted
<1>5. CASE r.fs = f
  BY <1>5
<1> QED BY <1>2, <1>4, <1>5

\* The node i, which is called p and has nothing below it, went away.
Removed(f, g, p) ==
  /\ g.ready = f.ready /\ removable(p)
  /\ \E i \in NodeIds :
       /\ f.nodes[i].used /\ f.nodes[i].path = p /\ ~g.nodes[i].used
       /\ \A j \in NodeIds : j # i /\ f.nodes[j].used => Stays(f, g, j)
       /\ \A j \in NodeIds : g.nodes[j].used => f.nodes[j].used
       /\ \A j \in NodeIds : f.nodes[j].used /\ f.nodes[j].path # <<>> => split_parent(f.nodes[j].path) # p

\* Nothing lies below a node that may be removed.
LEMMA NothingBelow ==
  ASSUME NEW f, Table(f), NEW i \in NodeIds, f.nodes[i].used, ~occupied(f, i),
         NEW j \in NodeIds, f.nodes[j].used, f.nodes[j].path # <<>>
  PROVE  f.nodes[j].parent # i /\ split_parent(f.nodes[j].path) # f.nodes[i].path
<1> DEFINE u == f.nodes[j].parent
<1>1. u \in NodeIds /\ f.nodes[i].type \in {"FILE", "DIR"}
  BY NodeFields DEF Table
<1>2. f.nodes[u].used /\ f.nodes[u].type = "DIR" /\ f.nodes[u].path = split_parent(f.nodes[j].path)
  BY DEF Table, Linked
<1>3. j \in UsedNodes(f)
  BY Used
<1>4. u # i
  BY <1>2, <1>3 DEF occupied
<1> HIDE DEF u
<1>5. f.nodes[u].path # f.nodes[i].path
  BY <1>1, <1>2, <1>4 DEF Table
<1> QED BY <1>2, <1>4, <1>5 DEF u

LEMMA RemoveOne ==
  ASSUME NEW f, NEW H, FsOK(f, H), NEW x, NEW p, p = normalize_external_path(x), NEW r, r = fs_remove(f, x)
  PROVE  FsOK(r.fs, H) /\ (r.fs = f \/ Removed(f, r.fs, p))
<1> DEFINE i == find_node(f, p)
           k == node_release_heap_data(f, i)
           g == [k EXCEPT !.nodes[i] = FreeNode]
<1>1. Table(f) /\ Heap(f, H) /\ f \in FsRec
  BY DEF FsOK, Table
<1>2. i = -1 \/ (i \in NodeIds /\ f.nodes[i].used /\ f.nodes[i].path = p)
  BY <1>1, Found
<1>3. r.fs = f \/ (removable(p) /\ i >= 0 /\ ~occupied(f, i) /\ r.fs = g)
  <2> DEFINE e == find_external(f, x)
  <2>1. r.fs = f \/ (p # NoPath /\ removable(p) /\ ~(e < 0) /\ ~occupied(f, e) /\ r.fs = [node_release_heap_data(f, e) EXCEPT !.nodes[e] = FreeNode])
    <3> HIDE DEF e
    <3>1. r = (IF ~f.ready \/ p = NoPath THEN Refuse(f)
               ELSE IF ~removable(p) \/ e < 0 THEN Refuse(f)
               ELSE IF occupied(f, e) THEN Refuse(f)
               ELSE [fs |-> [node_release_heap_data(f, e) EXCEPT !.nodes[e] = FreeNode], ok |-> TRUE])
      BY Zenon DEF fs_remove, e
    <3> DEFINE h == [node_release_heap_data(f, e) EXCEPT !.nodes[e] = FreeNode]
    <3> HIDE DEF h
    <3>2. r = Refuse(f) \/ (p # NoPath /\ removable(p) /\ ~(e < 0) /\ ~occupied(f, e) /\ r = [fs |-> h, ok |-> TRUE])
      BY <3>1 DEF h
    <3> QED BY <3>2 DEF Refuse, h
  <2>2. p # NoPath => e = i
    BY DEF find_external
  <2> HIDE DEF e
  <2>3. ~(i < 0) => i >= 0
    <3> HIDE DEF i
    <3>1. i = -1 \/ i \in Nat
      BY <1>2, Sizes
    <3> QED BY <3>1
  <2> QED BY <2>1, <2>2, <2>3
<1>4. CASE r.fs = f
  BY <1>4
<1>5. CASE removable(p) /\ i >= 0 /\ ~occupied(f, i) /\ r.fs = g
  <2>1. i \in NodeIds /\ f.nodes[i].used /\ f.nodes[i].path = p
    <3> HIDE DEF i
    <3> QED BY <1>2, <1>5
  <2>2. k = node_release_heap_data(f, i)
    OBVIOUS
  <2> HIDE DEF i, k
  <2>3. /\ k \in FsRec /\ k.count = f.count /\ k.ready = f.ready
        /\ \A j \in NodeIds : j # i => k.nodes[j] = f.nodes[j]
        /\ k.nodes[i] \in Node /\ k.nodes[i].used = f.nodes[i].used /\ k.nodes[i].type = f.nodes[i].type
        /\ k.nodes[i].parent = f.nodes[i].parent /\ ~k.nodes[i].heap /\ k.nodes[i].data = f.nodes[i].data
        /\ k.nodes[i].size = f.nodes[i].size /\ k.nodes[i].path = f.nodes[i].path
        /\ \A b \in Buffers : k.mem[b] = IF f.nodes[i].heap /\ b = f.nodes[i].data THEN Freed ELSE f.mem[b]
    <3>1. f.nodes[i].heap => f.nodes[i].data \in HeapBufs
      BY <1>1, <2>1 DEF Heap, Content
    <3>2. f.nodes[i].type = "DIR" => ~f.nodes[i].heap
      BY <1>1, <2>1 DEF Heap, Content
    <3>3. f \in FsRec /\ i \in NodeIds
      BY <1>1, <2>1
    <3> QED BY <2>2, <3>1, <3>2, <3>3, Released
  <2>4. FreeNode \in Node /\ ~FreeNode.used /\ ~FreeNode.heap /\ FreeNode.size = 0
    BY FreeNodeType
  <2> DEFINE m == [k.nodes EXCEPT ![i] = FreeNode]
  <2>5. g = [k EXCEPT !.nodes = m]
    OBVIOUS
  <2>6. k.nodes \in [NodeIds -> Node] /\ f.nodes \in [NodeIds -> Node]
    BY <1>1, <2>3, FsFields
  <2>7. m \in [NodeIds -> Node] /\ m = [f.nodes EXCEPT ![i] = FreeNode]
    BY <2>1, <2>3, <2>4, <2>6
  <2> HIDE DEF m
  <2>8. g \in FsRec /\ g.nodes = m /\ g.count = k.count /\ g.ready = k.ready /\ g.mem = k.mem
    BY <2>3, <2>5, <2>7 DEF FsRec
  <2>9. r.fs = g
    BY <1>5
  <2> HIDE DEF g
  <2>10. g.nodes[i] = FreeNode /\ \A j \in NodeIds : j # i => g.nodes[j] = f.nodes[j]
    BY <2>1, <2>6, <2>7, <2>8
  <2>11. \A j \in NodeIds : f.nodes[j].used /\ f.nodes[j].path # <<>> => f.nodes[j].parent # i /\ split_parent(f.nodes[j].path) # p
    BY <1>1, <1>5, <2>1, NothingBelow
  <2>12. i # 0
    <3>1. p # <<>>
      BY <1>5 DEF removable, in_temp_tree
    <3> QED BY <1>1, <2>1, <3>1 DEF Table
  <2>13. Table(g)
    <3>1. g.nodes = [f.nodes EXCEPT ![i] = FreeNode] /\ g.count = f.count
      BY <2>3, <2>7, <2>8
    <3> QED BY <1>1, <2>1, <2>8, <2>11, <2>12, <3>1, TableTake
  <2>14. Content(g, i)
    <3>1. ~g.nodes[i].heap /\ g.nodes[i].size = 0
      BY <2>4, <2>10
    <3> QED BY <3>1, NothingHeld
  <2>15. Heap(g, H)
    <3> DEFINE n == FreeNode
    <3>1. n \in Node /\ ~n.heap
      BY <2>4
    <3>2. g.nodes = [f.nodes EXCEPT ![i] = n]
      BY <2>7, <2>8
    <3> HIDE DEF n
    <3>3. f.nodes[i].heap => g.mem[f.nodes[i].data] = Freed
      <4>1. f.nodes[i].heap => f.nodes[i].data \in Buffers
        BY <1>1, <2>1 DEF Heap, Content, Buffers
      <4> QED BY <2>3, <2>8, <4>1
    <3>4. \A b \in Buffers : (f.nodes[i].heap /\ b = f.nodes[i].data) \/ g.mem[b] = f.mem[b]
      BY <2>3, <2>8
    <3> QED BY <1>1, <2>1, <2>8, <2>14, <3>1, <3>2, <3>3, <3>4, HeapPut
  <2>16. FsOK(g, H)
    BY <2>13, <2>15 DEF FsOK
  <2>17. \A j \in NodeIds : j # i /\ f.nodes[j].used => Stays(f, g, j)
    <3> SUFFICES ASSUME NEW j \in NodeIds, j # i, f.nodes[j].used PROVE Stays(f, g, j)
      OBVIOUS
    <3>1. g.nodes[j] = f.nodes[j]
      BY <2>10
    <3>2. f.nodes[j].size # 0 => g.mem[f.nodes[j].data] = f.mem[f.nodes[j].data]
      <4> SUFFICES ASSUME f.nodes[j].size # 0 PROVE g.mem[f.nodes[j].data] = f.mem[f.nodes[j].data]
        OBVIOUS
      <4>1. f.nodes[j].size > 0
        <5>1. f.nodes[j].size \in Nat
          BY <1>1, NodeFields
        <5> QED BY <5>1
      <4>2. f.nodes[j].data \in Buffers
        BY <1>1, <4>1, Holds
      <4>3. ~(f.nodes[i].heap /\ f.nodes[j].data = f.nodes[i].data)
        <5>1. CASE f.nodes[j].heap
          BY <1>1, <2>1, <5>1 DEF Heap
        <5>2. CASE ~f.nodes[j].heap
          <6>1. f.nodes[j].data \in DOMAIN Ram
            BY <1>1, <4>1, <5>2 DEF Heap, Content
          <6>2. f.nodes[i].heap => f.nodes[i].data \in HeapBufs
            BY <1>1, <2>1 DEF Heap, Content
          <6> QED BY <6>1, <6>2, Sizes
        <5> QED BY <5>1, <5>2
      <4> QED BY <2>3, <2>8, <4>2, <4>3
    <3> QED BY <3>1, <3>2, HoldsOn DEF Stays
  <2>18. Removed(f, g, p)
    <3>1. g.ready = f.ready /\ ~g.nodes[i].used
      BY <2>3, <2>4, <2>8, <2>10
    <3>2. \A j \in NodeIds : g.nodes[j].used => f.nodes[j].used
      BY <2>1, <2>10
    <3> QED BY <1>5, <2>1, <2>11, <2>17, <3>1, <3>2 DEF Removed
  <2> QED BY <2>9, <2>16, <2>18
<1> QED BY <1>3, <1>4, <1>5

-----------------------------------------------------------------------------
(* The system call layer's writes: FS_WRITE and FS_APPEND, chunk by chunk. *)

\* What the chunks before left: the file p may have been written, nothing else was.
Kept(f, p, r) == r \in Result /\ FsOK(r.fs, {}) /\ Stored(f, r.fs, p) /\ (r.fs # f => Writable(f, p))

LEMMA KeptOn ==
  ASSUME NEW f, NEW p, NEW r, Kept(f, p, r), NEW bytes, NEW s, Wrote(r.fs, {}, p, bytes, s) PROVE Kept(f, p, s)
<1>1. Stored(f, s.fs, p)
  BY StoredOn DEF Kept, Wrote
<1>2. s.fs # f => Writable(f, p)
  <2>1. r.fs.ready = f.ready
    BY DEF Kept, Stored
  <2> QED BY <2>1 DEF Kept, Wrote, Writable
<1> QED BY <1>1, <1>2 DEF Kept, Wrote

LEMMA KeptNot ==
  ASSUME NEW f, FsOK(f, {}), NEW p, NEW r, r = [fs |-> f, ok |-> TRUE] PROVE Kept(f, p, r)
<1>1. f \in FsRec
  BY DEF FsOK, Table
<1>2. r \in Result /\ r.fs = f
  BY <1>1 DEF Result
<1> QED BY <1>2, StoredNot DEF Kept

PutBytes(f, x, bytes, append_mode, first) == IF append_mode \/ ~first THEN append(f, x, bytes) ELSE write_all(f, x, bytes)

LEMMA Put ==
  ASSUME NEW f, NEW H, FsOK(f, H), NEW x \in Paths, NEW p, p = normalize_external_path(x), NEW bytes \in Bytes,
         NEW mode, NEW first, NEW r, r = PutBytes(f, x, bytes, mode, first)
  PROVE  \E c : Wrote(f, H, p, c, r)
<1>1. CASE mode \/ ~first
  <2>1. r = append(f, x, bytes)
    BY <1>1 DEF PutBytes
  <2> QED BY <2>1, AppendAll
<1>2. CASE ~(mode \/ ~first)
  <2>1. r = write_all(f, x, bytes)
    BY <1>2 DEF PutBytes
  <2>2. Wrote(f, H, p, bytes, r)
    BY <2>1, WriteAll
  <2> QED BY <2>2
<1> QED BY <1>1, <1>2

PutChunk(acc, x, bytes, copy, mode, first) ==
  IF ~acc.ok THEN acc
  ELSE IF copy = NULL THEN Refuse(acc.fs)
  ELSE release(PutBytes(fill(acc.fs, copy, bytes), x, bytes, mode, first), copy)

LEMMA Chunk ==
  ASSUME NEW f, NEW x \in Paths, NEW p, p = normalize_external_path(x), NEW acc, Kept(f, p, acc), NEW bytes \in Bytes,
         NEW mode, NEW first, NEW r, r = PutChunk(acc, x, bytes, kmalloc(acc.fs), mode, first)
  PROVE  Kept(f, p, r)
<1> DEFINE m == acc.fs
           b == kmalloc(m)
           g == fill(m, b, bytes)
           s == PutBytes(g, x, bytes, mode, first)
<1>1. FsOK(m, {})
  BY DEF Kept
<1>2. b = NULL \/ (b \in HeapBufs /\ m.mem[b] = Freed)
  BY Malloc
<1>3. r = IF ~acc.ok THEN acc ELSE IF b = NULL THEN Refuse(m) ELSE release(s, b)
  BY DEF PutChunk
<1> HIDE DEF b, m
<1>4. CASE r = acc
  BY <1>4
<1>5. CASE r = Refuse(m)
  <2>1. Wrote(m, {}, p, <<>>, r)
    BY <1>1, <1>5, WroteNot
  <2>2. Wrote(acc.fs, {}, p, <<>>, r)
    BY <2>1 DEF m
  <2> QED BY <2>2, KeptOn
<1>6. CASE r = release(s, b) /\ b # NULL
  <2>1. b \in HeapBufs /\ m.mem[b] = Freed /\ r = release(s, b)
    BY <1>2, <1>6
  <2>2. FsOK(g, {} \cup {b})
    <3>1. Table(m) /\ m \in FsRec /\ Heap(m, {})
      BY <1>1 DEF FsOK, Table
    <3>0. b \in HeapBufs /\ m.mem[b] = Freed
      BY <2>1
    <3>4. g = fill(m, b, bytes)
      OBVIOUS
    <3> HIDE DEF g
    <3>2. /\ g \in FsRec /\ Heap(g, {} \cup {b}) /\ g.nodes = m.nodes /\ g.count = m.count
      BY <3>0, <3>1, <3>4, HeapHeld
    <3>3. Table(g)
      BY <3>1, <3>2, TableOnly, Zenon
    <3> QED BY <3>2, <3>3 DEF FsOK
  <2>3. \E c : Wrote(g, {} \cup {b}, p, c, s)
    <3> HIDE DEF g
    <3> QED BY <2>2, Put
  <2> HIDE DEF s
  <2>4. PICK c : Wrote(g, {} \cup {b}, p, c, s)
    BY <2>3
  <2>5. Wrote(m, {}, p, c, r)
    BY <1>1, <2>1, <2>4, FromBuffer
  <2>6. Wrote(acc.fs, {}, p, c, r)
    BY <2>5 DEF m
  <2> QED BY <2>6, KeptOn
<1> QED BY <1>3, <1>4, <1>5, <1>6

LEMMA PieceType ==
  ASSUME NEW bytes \in Bytes, NEW k \in Nat \ {0}, (k - 1) * CHUNK + 1 <= Len(bytes) + 1
  PROVE  SubSeq(bytes, (k - 1) * CHUNK + 1, Min({k * CHUNK, Len(bytes)})) \in Bytes
<1> DEFINE n == Len(bytes)
           a == (k - 1) * CHUNK + 1
           e == k * CHUNK
           z == Min({e, n})
<1>1. n \in Nat /\ bytes \in [1 .. n -> 0 .. 255]
  BY LenProperties DEF Bytes
<1>2. a \in Nat \ {0} /\ e \in Nat
  <2>1. CHUNK \in Nat /\ k \in Nat /\ k - 1 \in Nat
    BY DescriptorsAssumption
  <2>2. \A u, v \in Nat : u * v \in Nat
    OBVIOUS
  <2> DEFINE w == (k - 1) * CHUNK
  <2>3. w \in Nat /\ e \in Nat
    BY <2>1, <2>2
  <2> HIDE DEF w
  <2>4. w + 1 \in Nat \ {0}
    BY <2>3
  <2> QED BY <2>3, <2>4 DEF w
<1>3. a <= n + 1
  OBVIOUS
<1> HIDE DEF n, a, e
<1>4. z \in Nat /\ z <= n
  <2>1. {e, n} \in SUBSET Nat /\ {e, n} # {} /\ n \in {e, n}
    BY <1>1, <1>2
  <2> DEFINE S == {e, n}
  <2> HIDE DEF S
  <2>2. Min(S) \in S /\ \A m \in S : Min(S) <= m
    BY <2>1, LeastOf DEF S
  <2> QED BY <2>1, <2>2 DEF S
<1> HIDE DEF z
<1>5. \A j \in a .. z : bytes[j] \in 0 .. 255
  <2>1. a .. z \subseteq 1 .. n
    BY <1>1, <1>2, <1>4
  <2> QED BY <1>1, <2>1
<1>6. a \in Int /\ z \in Int
  BY <1>2, <1>4
<1>7. SubSeq(bytes, a, z) \in Seq(0 .. 255)
  BY <1>5, <1>6, SubSeqProperties
<1> QED BY <1>7 DEF a, e, n, z, Bytes

LEMMA Pieces ==
  ASSUME NEW n \in Nat, NEW c \in Nat \ {0}, NEW q, q = (n + c - 1) \div c
  PROVE  q \in Nat /\ \A k \in 1 .. q : (k - 1) * c <= n
<1>1. q \in Nat /\ q * c <= n + c - 1
  OBVIOUS
<1>2. ASSUME NEW k \in 1 .. q PROVE (k - 1) * c <= n
  <2>1. k \in Nat /\ k <= q
    BY <1>1
  <2>2. k * c <= q * c
    BY <1>1, <2>1
  <2>3. (k - 1) * c = k * c - c
    BY <2>1
  <2> DEFINE a == k * c
             b == q * c
             d == (k - 1) * c
  <2>4. a \in Nat /\ b \in Nat /\ a <= b /\ d = a - c /\ b <= n + c - 1
    BY <1>1, <2>1, <2>2, <2>3
  <2> HIDE DEF a, b, d
  <2>5. d <= n
    BY <2>4
  <2> QED BY <2>5 DEF d
<1> QED BY <1>1, <1>2

LEMMA WriteCommon ==
  ASSUME NEW f, FsOK(f, {}), NEW x \in Paths, NEW p, p = normalize_external_path(x), NEW bytes \in Bytes,
         NEW mode, NEW r, r = fs_write_common(f, x, bytes, mode)
  PROVE  Kept(f, p, r)
<1> DEFINE N == (Len(bytes) + CHUNK - 1) \div CHUNK
           piece(k) == SubSeq(bytes, (k - 1) * CHUNK + 1, Min({k * CHUNK, Len(bytes)}))
           start == [fs |-> f, ok |-> TRUE]
           next(k, acc) == PutChunk(acc, x, piece(k), kmalloc(acc.fs), mode, k = 1)
           D == {acc \in Result : Kept(f, p, acc)}
           R(h) == [k \in 0 .. N |-> IF k = 0 THEN start ELSE next(k, h[k - 1])]
           after == CHOOSE h : h = R(h)
<1>1. r = IF bytes # <<>> THEN after[N] ELSE PutBytes(f, x, <<>>, mode, TRUE)
  BY DEF fs_write_common, PutBytes, PutChunk
<1>2. CASE bytes = <<>>
  <2> DEFINE s == PutBytes(f, x, bytes, mode, TRUE)
  <2>1. r = s
    BY <1>1, <1>2
  <2>2. \E c : Wrote(f, {}, p, c, r)
    <3> HIDE DEF after
    <3> QED BY <2>1, Put
  <2>3. PICK c : Wrote(f, {}, p, c, r)
    BY <2>2
  <2>4. Kept(f, p, start) /\ start.fs = f
    BY KeptNot
  <2> HIDE DEF start
  <2>5. Wrote(start.fs, {}, p, c, r)
    BY <2>3, <2>4
  <2> QED BY <2>4, <2>5, KeptOn
<1>3. CASE bytes # <<>>
  <2>1. N \in Nat /\ \A k \in 1 .. N : (k - 1) * CHUNK <= Len(bytes)
    <3>1. Len(bytes) \in Nat /\ CHUNK \in Nat \ {0}
      BY DescriptorsAssumption DEF Bytes
    <3> DEFINE n == Len(bytes)
    <3> HIDE DEF n, after, start, next, R, piece
    <3>2. n \in Nat
      BY <3>1 DEF n
    <3>3. N = (n + CHUNK - 1) \div CHUNK
      BY DEF n
    <3> HIDE DEF N
    <3>4. N \in Nat /\ \A k \in 1 .. N : (k - 1) * CHUNK <= n
      BY <3>1, <3>2, <3>3, Pieces
    <3> QED BY <3>4 DEF n
  <2> HIDE DEF N
  <2>2. \A k \in 1 .. N : piece(k) \in Bytes
    <3> SUFFICES ASSUME NEW k \in 1 .. N PROVE piece(k) \in Bytes
      OBVIOUS
    <3>1. k \in Nat \ {0}
      BY <2>1
    <3> DEFINE a == (k - 1) * CHUNK
    <3>2. a \in Int /\ a <= Len(bytes)
      <4>1. CHUNK \in Int /\ k - 1 \in Int
        BY <3>1, DescriptorsAssumption
      <4>2. a \in Int
        BY <4>1
      <4> QED BY <2>1, <4>2
    <3> HIDE DEF a
    <3>3. a + 1 <= Len(bytes) + 1
      <4>1. Len(bytes) \in Nat
        BY DEF Bytes
      <4> QED BY <3>2, <4>1
    <3>4. (k - 1) * CHUNK + 1 <= Len(bytes) + 1
      BY <3>3 DEF a
    <3> QED BY <3>1, <3>4, PieceType
  <2>3. start \in D
    BY KeptNot DEF Kept
  <2>4. \A k \in 1 .. N : \A acc \in D : next(k, acc) \in D
    <3> SUFFICES ASSUME NEW k \in 1 .. N, NEW acc \in D PROVE next(k, acc) \in D
      OBVIOUS
    <3> DEFINE bs == piece(k)
               s == next(k, acc)
               first == k = 1
    <3>1. bs \in Bytes /\ Kept(f, p, acc)
      BY <2>2
    <3>2. s = PutChunk(acc, x, bs, kmalloc(acc.fs), mode, first)
      OBVIOUS
    <3> HIDE DEF bs, s, first
    <3>3. Kept(f, p, s)
      BY <3>1, <3>2, Chunk
    <3>4. s \in D
      BY <3>3 DEF Kept
    <3> QED BY <3>4 DEF s
  <2> HIDE DEF D, next, start
  <2>5. \E h : h = R(h)
    <3> DEFINE step == [k \in 1 .. N |-> [acc \in D |-> next(k, acc)]]
    <3>1. step \in [1 .. N -> [D -> D]]
      BY <2>4
    <3> HIDE DEF step
    <3>2. PICK h \in [0 .. N -> D] : iterates(h, start, step, N)
      BY <2>1, <2>3, <3>1, IteratesExist
    <3>3. \A k \in 1 .. N : k - 1 \in 0 .. N /\ h[k - 1] \in D
      BY <2>1, <3>2
    <3>4. h[0] = start /\ \A k \in 1 .. N : h[k] = next(k, h[k - 1])
      BY <3>2, <3>3 DEF iterates, step
    <3>5. \A k \in 0 .. N : h[k] = IF k = 0 THEN start ELSE next(k, h[k - 1])
      <4>1. \A k \in 0 .. N : k = 0 \/ k \in 1 .. N
        BY <2>1
      <4> QED BY <3>4, <4>1
    <3>6. h = R(h)
      BY <3>2, <3>5
    <3> QED BY <3>6
  <2>6. after = R(after)
    BY <2>5
  <2>7. r = after[N]
    BY <1>1, <1>3
  <2> HIDE DEF after
  <2>8. after[0] = start /\ \A k \in 1 .. N : after[k] = next(k, after[k - 1])
    <3>1. 0 \in 0 .. N /\ \A k \in 1 .. N : k \in 0 .. N /\ k # 0
      BY <2>1
    <3> QED BY <2>6, <3>1
  <2> DEFINE G == {k \in 0 .. N : after[k] \in D}
  <2>9. 0 \in G
    BY <2>1, <2>3, <2>8
  <2>10. \A k \in 1 .. N : k - 1 \in G => k \in G
    BY <2>1, <2>4, <2>8
  <2> HIDE DEF G
  <2>11. 0 .. N \subseteq G
    BY <2>1, <2>9, <2>10, UpTo
  <2>12. N \in 0 .. N
    BY <2>1
  <2>13. r \in D
    BY <2>7, <2>11, <2>12 DEF G
  <2> QED BY <2>13 DEF D
<1> QED BY <1>2, <1>3

-----------------------------------------------------------------------------
(* The descriptors' writes. *)

LEMMA FitsAs ==
  ASSUME NEW f, Table(f) PROVE Fits(f) <=> \A i \in NodeIds : f.nodes[i].used => f.nodes[i].size <= SIZE_CAP
  BY Used DEF Fits

\* A node that stays has the size it had; a directory has none.
LEMMA FitsStays ==
  ASSUME NEW f, NEW H, FsOK(f, H), NEW g, NEW I, FsOK(g, I), NEW i \in NodeIds,
         \/ Fits(f) /\ f.nodes[i].used /\ Stays(f, g, i)
         \/ g.nodes[i].type = "DIR" \/ FileBytes(g, i) = <<>>
  PROVE  g.nodes[i].size <= SIZE_CAP
<1>1. Table(f) /\ f \in FsRec /\ Heap(f, H) /\ g \in FsRec /\ Heap(g, I)
  BY DEF FsOK, Table
<1>2. Len(FileBytes(f, i)) = f.nodes[i].size /\ Len(FileBytes(g, i)) = g.nodes[i].size
  BY <1>1, Holds
<1>3. SIZE_CAP \in Nat
  BY DescriptorsAssumption
<1>4. CASE Fits(f) /\ f.nodes[i].used /\ Stays(f, g, i)
  <2>1. g.nodes[i].size = f.nodes[i].size
    BY <1>2, <1>4 DEF Stays
  <2>2. f.nodes[i].size <= SIZE_CAP
    BY <1>1, <1>4, FitsAs
  <2> QED BY <2>1, <2>2
<1>5. CASE g.nodes[i].type = "DIR" \/ FileBytes(g, i) = <<>>
  <2>1. g.nodes[i].size = 0
    <3>1. g.nodes[i].type = "DIR" => g.nodes[i].size = 0
      BY <1>1 DEF Heap, Content
    <3>2. FileBytes(g, i) = <<>> => g.nodes[i].size = 0
      BY <1>2
    <3> QED BY <1>5, <3>1, <3>2
  <2> QED BY <1>3, <2>1
<1> QED BY <1>4, <1>5

LEMMA FitsEmptied ==
  ASSUME NEW f, FsOK(f, {}), Fits(f), NEW p, NEW s, Wrote(f, {}, p, <<>>, s) PROVE Fits(s.fs)
<1> DEFINE g == s.fs
<1>1. FsOK(g, {}) /\ Table(g) /\ Stored(f, g, p)
  BY DEF Wrote, FsOK
<1>2. (s.ok => Holding(g, p, <<>>)) /\ (~s.ok => Sprouted(f, g, split_parent(p)))
  BY DEF Wrote
<1> HIDE DEF g
<1>3. ASSUME NEW i \in NodeIds, g.nodes[i].used PROVE g.nodes[i].size <= SIZE_CAP
  <2>1. CASE ~s.ok
    <3>1. f.nodes[i].used \/ g.nodes[i].type = "DIR"
      BY <1>2, <1>3, <2>1 DEF Sprouted
    <3>2. f.nodes[i].used => Stays(f, g, i)
      BY <1>2, <2>1 DEF Sprouted, Unharmed
    <3> QED BY <1>1, <3>1, <3>2, FitsStays
  <2>2. CASE s.ok /\ g.nodes[i].path = p
    <3> DEFINE j == find_node(g, p)
    <3>1. j # -1 /\ FileBytes(g, j) = <<>>
      BY <1>2, <2>2 DEF Holding
    <3>2. j \in NodeIds /\ g.nodes[j].used /\ g.nodes[j].path = p
      BY <1>1, <3>1, Found
    <3> HIDE DEF j
    <3>3. i = j
      BY <1>1, <1>3, <2>2, <3>2 DEF Table
    <3> QED BY <1>1, <3>1, <3>3, FitsStays
  <2>3. CASE s.ok /\ g.nodes[i].path # p
    <3>1. f.nodes[i].used => Stays(f, g, i)
      <4>1. f.nodes[i].used => g.nodes[i].path = f.nodes[i].path
        BY <1>1 DEF Stored
      <4> QED BY <1>1, <2>3, <4>1 DEF Stored
    <3>2. ~f.nodes[i].used => g.nodes[i].type = "DIR"
      BY <1>1, <1>3, <2>3 DEF Stored
    <3> QED BY <1>1, <3>1, <3>2, FitsStays
  <2> QED BY <2>1, <2>2, <2>3
<1>4. Fits(g)
  BY <1>1, <1>3, FitsAs
<1> QED BY <1>4 DEF g

\* The file p may have been made or emptied, nothing else was.
Emptied(f, p, r) == Kept(f, p, r) /\ (Fits(f) => Fits(r.fs))

LEMMA EmptiedOn ==
  ASSUME NEW f, NEW p, NEW r, Emptied(f, p, r), NEW s, Wrote(r.fs, {}, p, <<>>, s) PROVE Emptied(f, p, s)
<1> DEFINE g == r.fs
<1>1. FsOK(g, {}) /\ Wrote(g, {}, p, <<>>, s)
  BY DEF Emptied, Kept
<1>2. Kept(f, p, s)
  <2> DEFINE e == <<>>
  <2>1. Kept(f, p, r) /\ Wrote(r.fs, {}, p, e, s)
    BY DEF Emptied
  <2> HIDE DEF e
  <2> QED BY <2>1, KeptOn
<1>3. Fits(f) => Fits(g)
  BY DEF Emptied
<1> HIDE DEF g
<1>4. Fits(g) => Fits(s.fs)
  BY <1>1, FitsEmptied
<1> QED BY <1>2, <1>3, <1>4 DEF Emptied

\* The descriptor that fd_open fills in.
Entry(kind, flags, path, off) == [kind |-> kind, flags |-> flags, path |-> path, off |-> off]
Opened(g, fds, x, flags, after) ==
  \/ after = fds
  \/ after = [fds EXCEPT ![fd_find_free(fds)] = Entry("FILE", flags, x, 0)]
  \/ after = [fds EXCEPT ![fd_find_free(fds)] = Entry("FILE", flags, x, fs_stat(g, x).size)]
  \/ \E kind \in {"TTY", "NULL", "ZERO", "RANDOM"} : after = [fds EXCEPT ![fd_find_free(fds)] = Entry(kind, flags, <<>>, 0)]

LEMMA Device == ASSUME NEW x PROVE device_kind(x) \in {"TTY", "NULL", "ZERO", "RANDOM", "FILE"}
  BY DEF device_kind

LEMMA Open ==
  ASSUME NEW f, FsOK(f, {}), NEW fds, NEW x \in Paths, NEW p, p = normalize_external_path(x), NEW flags,
         NEW r, r = fd_open(f, fds, x, flags)
  PROVE  \E s : Emptied(f, p, s) /\ r.fs = s.fs /\ Opened(s.fs, fds, x, flags, r.fds)
<1> DEFINE made == IF fs_stat(f, x).type # "NONE" THEN [fs |-> f, ok |-> TRUE]
                   ELSE IF ~flags.creat \/ ~fd_can_write(flags) THEN Refuse(f)
                   ELSE write_all(f, x, <<>>)
           cut == IF ~made.ok \/ fs_stat(made.fs, x).type # "FILE" THEN Refuse(made.fs)
                  ELSE IF flags.trunc THEN write_all(made.fs, x, <<>>) ELSE made
           start == [fs |-> f, ok |-> TRUE]
           free == fd_find_free(fds)
           none == [fs |-> f, fds |-> fds]
           device == [fs |-> f, fds |-> [fds EXCEPT ![free] = Entry(device_kind(x), flags, NoFd.path, 0)]]
           file == [fs |-> cut.fs, fds |-> IF ~cut.ok THEN fds
                                           ELSE [fds EXCEPT ![free] = Entry("FILE", flags, x, IF flags.app THEN fs_stat(cut.fs, x).size ELSE 0)]]
           refused == ~x.slash \/ ~fd_access_mode_valid(flags) \/ free < 0 \/ ((flags.trunc \/ flags.app) /\ ~fd_can_write(flags))
<1>1. r = IF refused THEN none ELSE IF device_kind(x) # "FILE" THEN device ELSE file
  BY DEF fd_open, Entry
<1>2. \/ r.fs = f /\ Opened(f, fds, x, flags, r.fds)
      \/ r.fs = cut.fs /\ Opened(cut.fs, fds, x, flags, r.fds)
  <2> HIDE DEF refused, cut, free, made
  <2>1. r = none \/ (device_kind(x) # "FILE" /\ r = device) \/ r = file
    <3> HIDE DEF none, device, file
    <3> QED BY <1>1
  <2>2. CASE r = none
    BY <2>2 DEF Opened
  <2>3. CASE device_kind(x) # "FILE" /\ r = device
    <3> DEFINE kind == device_kind(x)
    <3>1. kind \in {"TTY", "NULL", "ZERO", "RANDOM"}
      BY <2>3, Device
    <3>2. r.fs = f /\ r.fds = [fds EXCEPT ![free] = Entry(kind, flags, <<>>, 0)]
      BY <2>3 DEF NoFd
    <3> HIDE DEF kind
    <3> QED BY <3>1, <3>2 DEF Opened, free
  <2>4. CASE r = file
    <3> DEFINE size == fs_stat(cut.fs, x).size
               off == IF flags.app THEN size ELSE 0
    <3>1. r.fs = cut.fs
      BY <2>4
    <3> HIDE DEF size
    <3>2. off = 0 \/ off = size
      OBVIOUS
    <3>3. r.fds = IF ~cut.ok THEN fds ELSE [fds EXCEPT ![free] = Entry("FILE", flags, x, off)]
      BY <2>4 DEF size
    <3> HIDE DEF off
    <3>4. \/ r.fds = fds
          \/ r.fds = [fds EXCEPT ![free] = Entry("FILE", flags, x, 0)]
          \/ r.fds = [fds EXCEPT ![free] = Entry("FILE", flags, x, size)]
      BY <3>2, <3>3
    <3> QED BY <3>1, <3>4 DEF Opened, free, size
  <2> QED BY <2>1, <2>2, <2>3, <2>4
<1>3. <<>> \in Bytes
  BY DEF Bytes
<1>4. Emptied(f, p, start) /\ start.fs = f
  BY KeptNot DEF Emptied
\* What follows a result that is well: the same, a refusal, or another emptying.
<1>5. ASSUME NEW m, Emptied(f, p, m), NEW s, s = Refuse(m.fs) \/ s = write_all(m.fs, x, <<>>) PROVE Emptied(f, p, s)
  <2> DEFINE g == m.fs
             e == <<>>
  <2>1. FsOK(g, {}) /\ e \in Bytes
    BY <1>3, <1>5 DEF Emptied, Kept
  <2>2. s = Refuse(g) \/ s = write_all(g, x, e)
    BY <1>5
  <2> HIDE DEF g, e
  <2>3. Wrote(g, {}, p, e, s)
    <3>1. CASE s = Refuse(g)
      BY <2>1, <3>1, WroteNot
    <3>2. CASE s = write_all(g, x, e)
      BY <2>1, <3>2, WriteAll
    <3> QED BY <2>2, <3>1, <3>2
  <2>4. Wrote(m.fs, {}, p, <<>>, s)
    BY <2>3 DEF g, e
  <2> QED BY <1>5, <2>4, EmptiedOn
<1> DEFINE m == made
<1>6. m = start \/ m = Refuse(start.fs) \/ m = write_all(start.fs, x, <<>>)
  BY <1>4
<1>7. cut = Refuse(m.fs) \/ cut = write_all(m.fs, x, <<>>) \/ cut = m
  OBVIOUS
<1> HIDE DEF made, m, cut, start, none, device, file, refused
<1>8. Emptied(f, p, m)
  BY <1>4, <1>5, <1>6
<1>9. Emptied(f, p, cut)
  BY <1>5, <1>7, <1>8
<1> QED BY <1>2, <1>4, <1>9

LEMMA BytesAreFunctions ==
  ASSUME NEW s \in Bytes
  PROVE  Len(s) \in Nat /\ s \in [1 .. Len(s) -> 0 .. 255]
<1> DEFINE Byte == 0 .. 255
<1>1. s \in Seq(Byte)
  BY DEF Bytes
<1> HIDE DEF Byte
<1>2. Len(s) \in Nat /\ s \in [1 .. Len(s) -> Byte]
  BY <1>1, LenProperties
<1> QED BY <1>2 DEF Byte

LEMMA MaxOfTwo ==
  ASSUME NEW a \in Nat, NEW b \in Nat
  PROVE  Max({a, b}) \in Nat /\ Max({a, b}) = IF a >= b THEN a ELSE b
<1> DEFINE S == {a, b}
           m == IF a >= b THEN a ELSE b
<1>1. m \in S /\ \A y \in S : m >= y
  OBVIOUS
<1>2. Max(S) \in S /\ \A y \in S : Max(S) >= y
  BY <1>1 DEF Max
<1> DEFINE M == Max(S)
<1>3. M \in {a, b} /\ M >= a /\ M >= b
  BY <1>2
<1> HIDE DEF M
<1>4. M = m /\ M \in Nat
  BY <1>3
<1> QED BY <1>4 DEF M

\* new is old with the bytes put in at that offset.
Patched(old, at, bytes, new) ==
  /\ new \in Bytes /\ Len(new) = Max({Len(old), at + Len(bytes)})
  /\ Len(new) >= Len(old) /\ Len(new) >= at + Len(bytes)
  /\ \A k \in 1 .. Len(new) : new[k] = IF k > at /\ k <= at + Len(bytes) THEN bytes[k - at]
                                       ELSE IF k <= Len(old) THEN old[k] ELSE 0

LEMMA Overlaid ==
  ASSUME NEW old \in Bytes, NEW at \in Nat, NEW bytes \in Bytes, NEW new, new = overlay(old, at, bytes)
  PROVE  Patched(old, at, bytes, new) /\ new \in Bytes
<1> DEFINE n == Len(old)
           m == Len(bytes)
           M == Max({n, at + m})
<1>1. n \in Nat /\ m \in Nat /\ old \in [1 .. n -> 0 .. 255] /\ bytes \in [1 .. m -> 0 .. 255]
  BY BytesAreFunctions
<1> HIDE DEF n, m
<1>2. at + m \in Nat
  BY <1>1
<1>3. M \in Nat /\ M >= n /\ M >= at + m
  <2> DEFINE t == at + m
  <2>1. t \in Nat
    BY <1>1
  <2> HIDE DEF t
  <2>2. Max({n, t}) \in Nat /\ Max({n, t}) = IF n >= t THEN n ELSE t
    BY <1>1, <2>1, MaxOfTwo
  <2>3. Max({n, t}) \in Nat /\ Max({n, t}) >= n /\ Max({n, t}) >= t
    <3> DEFINE x == Max({n, t})
    <3>1. x \in Nat /\ x = IF n >= t THEN n ELSE t
      BY <2>2
    <3> HIDE DEF x
    <3>2. x >= n /\ x >= t
      BY <1>1, <2>1, <3>1
    <3> QED BY <3>1, <3>2 DEF x
  <2> QED BY <2>3 DEF t
<1>4. new = [k \in 1 .. M |-> IF k > at /\ k <= at + m THEN bytes[k - at] ELSE IF k <= n THEN old[k] ELSE 0]
  BY DEF overlay, n, m
<1> HIDE DEF M
<1>5. \A k \in 1 .. M : new[k] = IF k > at /\ k <= at + m THEN bytes[k - at] ELSE IF k <= n THEN old[k] ELSE 0
  BY <1>4
<1>6. \A k \in 1 .. M : new[k] \in 0 .. 255
  <2> SUFFICES ASSUME NEW k \in 1 .. M PROVE new[k] \in 0 .. 255
    OBVIOUS
  <2>1. k > at /\ k <= at + m => k - at \in 1 .. m
    BY <1>1, <1>3
  <2>2. k <= n => k \in 1 .. n
    BY <1>1, <1>3
  <2>3. CASE k > at /\ k <= at + m
    <3>1. new[k] = bytes[k - at] /\ k - at \in 1 .. m
      BY <1>5, <2>1, <2>3
    <3> QED BY <1>1, <3>1
  <2>4. CASE ~(k > at /\ k <= at + m) /\ k <= n
    <3>1. new[k] = old[k] /\ k \in 1 .. n
      BY <1>5, <2>2, <2>4
    <3> QED BY <1>1, <3>1
  <2>5. CASE ~(k > at /\ k <= at + m) /\ ~(k <= n)
    <3>1. new[k] = 0
      BY <1>5, <2>5
    <3> QED BY <3>1
  <2> QED BY <2>3, <2>4, <2>5
<1>7. new \in [1 .. M -> 0 .. 255]
  BY <1>4, <1>6
<1>8. new \in Seq(0 .. 255) /\ Len(new) = M
  BY <1>3, <1>4, <1>7
<1> QED BY <1>3, <1>5, <1>8 DEF M, n, m, Bytes, Patched

\* What a write through the descriptor e would store.
NewContents(f, e, bytes) ==
  LET p == normalize_external_path(e.path)
  IN  IF e.flags.app THEN Contents(f, p) \o bytes ELSE overlay(Contents(f, p), e.off, bytes)

LEMMA FileWrite ==
  ASSUME NEW f, FsOK(f, {}), NEW e, e.path \in Paths, e.off \in Nat, NEW p, p = normalize_external_path(e.path),
         NEW bytes \in Bytes, NEW r, r = fd_file_write(f, e, bytes)
  PROVE  \E s : /\ Wrote(f, {}, p, NewContents(f, e, bytes), s) /\ r.fs = s.fs /\ (r.ok <=> s.ok)
                /\ r.off = IF s.ok THEN e.off + Len(bytes) ELSE e.off
<1> DEFINE i == find_external(f, e.path)
           new == overlay(FileBytes(f, i), e.off, bytes)
           s == IF e.flags.app THEN append(f, e.path, bytes)
                ELSE IF read_all(f, e.path) = NULL THEN Refuse(f)
                ELSE store_copy(f, p, kmalloc(f), new)
           want == NewContents(f, e, bytes)
<1>1. r = [fs |-> s.fs, ok |-> s.ok, off |-> IF s.ok THEN e.off + Len(bytes) ELSE e.off]
  BY DEF fd_file_write
<1>2. p = NoPath \/ Normal(p)
  BY NormalPath
<1>3. Wrote(f, {}, p, want, s)
  <2>1. CASE e.flags.app
    <3>1. s = append(f, e.path, bytes) /\ want = Contents(f, p) \o bytes
      BY <2>1 DEF NewContents
    <3> HIDE DEF s, want
    <3>2. Wrote(f, {}, p, Contents(f, p) \o bytes, s)
      BY <3>1, AppendAll
    <3> QED BY <3>1, <3>2
  <2>2. CASE ~e.flags.app /\ read_all(f, e.path) = NULL
    <3>1. s = Refuse(f)
      BY <2>2
    <3> HIDE DEF s, want
    <3> QED BY <3>1, WroteNot
  <2>3. CASE ~e.flags.app /\ read_all(f, e.path) # NULL
    <3>1. ~(i < 0)
      BY <2>3 DEF read_all
    <3>2. i = -1 \/ i = find_node(f, p)
      BY DEF find_external
    <3>3. i = find_node(f, p) /\ i # -1
      BY <3>1, <3>2
    <3>4. FileBytes(f, i) = Contents(f, p)
      BY <3>3 DEF Contents
    <3>5. new = want
      BY <2>3, <3>4 DEF NewContents
    <3>6. s = store_copy(f, p, kmalloc(f), new)
      BY <2>3
    <3> HIDE DEF s
    <3>7. new \in Bytes
      <4> DEFINE old == Contents(f, p)
      <4>1. old \in Bytes
        BY ContentsType
      <4> DEFINE at == e.off
      <4>2. new = overlay(old, at, bytes) /\ at \in Nat
        BY <3>4
      <4> HIDE DEF old, new, at
      <4> QED BY <4>1, <4>2, Overlaid
    <3> HIDE DEF new, want
    <3>8. Wrote(f, {}, p, new, s)
      BY <1>2, <3>6, <3>7, StoreCopy
    <3> QED BY <3>5, <3>8
  <2> QED BY <2>1, <2>2, <2>3
<1> HIDE DEF s
<1> QED BY <1>1, <1>3

-----------------------------------------------------------------------------
(* The boot: size fields and names of the tar image. *)

LEMMA Position ==
  ASSUME NEW s \in Seq(Int), NEW I \in SUBSET (1 .. Len(s)), NEW k, k = IF I # {} THEN Min(I) ELSE 0
  PROVE  k \in 0 .. Len(s)
<1>1. Len(s) \in Nat
  OBVIOUS
<1>2. I \in SUBSET Nat
  OBVIOUS
<1>3. CASE I # {}
  <2>1. Min(I) \in I
    BY <1>2, <1>3, LeastOf
  <2>2. k \in I
    BY <1>3, <2>1
  <2>3. k \in 1 .. Len(s)
    BY <2>2
  <2> QED BY <1>1, <2>3
<1>4. CASE I = {}
  BY <1>1, <1>4
<1> QED BY <1>3, <1>4

LEMMA Inside ==
  ASSUME NEW S, NEW s \in Seq(S), NEW a \in 1 .. Len(s), NEW b \in 0 .. Len(s)
  PROVE  SubSeq(s, a, b) \in Seq(S)
<1>1. Len(s) \in Nat /\ s \in [1 .. Len(s) -> S]
  BY LenProperties
<1>2. a .. b \subseteq 1 .. Len(s) /\ a \in Int /\ b \in Int
  BY <1>1
<1>3. \A j \in a .. b : s[j] \in S
  BY <1>1, <1>2
<1> QED BY <1>2, <1>3, SubSeqProperties

LEMMA Octal ==
  ASSUME NEW ds \in Seq(Int), NEW v, v = octal_value(ds) PROVE v = -1 \/ v \in Nat
<1> DEFINE N == Len(ds)
           next(k, acc) == 8 * acc + ds[k]
           R(h) == [k \in 0 .. N |-> IF k = 0 THEN 0 ELSE next(k, h[k - 1])]
           value == CHOOSE h : h = R(h)
<1>1. v = IF \E k \in DOMAIN ds : ds[k] \notin 0 .. 7 THEN -1 ELSE value[N]
  BY DEF octal_value
<1>2. CASE \E k \in DOMAIN ds : ds[k] \notin 0 .. 7
  BY <1>1, <1>2
<1>3. CASE ~(\E k \in DOMAIN ds : ds[k] \notin 0 .. 7)
  <2>1. N \in Nat /\ DOMAIN ds = 1 .. N
    BY LenProperties
  <2>2. \A k \in 1 .. N : \A acc \in Nat : next(k, acc) \in Nat
    <3>1. \A k \in 1 .. N : ds[k] \in 0 .. 7
      BY <1>3, <2>1
    <3>2. \A acc \in Nat : \A c \in 0 .. 7 : 8 * acc + c \in Nat
      OBVIOUS
    <3> HIDE DEF N
    <3> QED BY <3>1, <3>2
  <2>3. v = value[N]
    BY <1>1, <1>3
  <2> HIDE DEF next, N
  <2>4. \E h : h = R(h)
    <3> DEFINE step == [k \in 1 .. N |-> [acc \in Nat |-> next(k, acc)]]
    <3>1. step \in [1 .. N -> [Nat -> Nat]] /\ 0 \in Nat
      BY <2>2
    <3> HIDE DEF step
    <3>2. PICK h \in [0 .. N -> Nat] : iterates(h, 0, step, N)
      BY <2>1, <3>1, IteratesExist
    <3>3. \A k \in 1 .. N : k - 1 \in 0 .. N /\ h[k - 1] \in Nat
      BY <2>1, <3>2
    <3>4. h[0] = 0 /\ \A k \in 1 .. N : h[k] = next(k, h[k - 1])
      BY <3>2, <3>3 DEF iterates, step
    <3>5. \A k \in 0 .. N : h[k] = IF k = 0 THEN 0 ELSE next(k, h[k - 1])
      <4>1. \A k \in 0 .. N : k = 0 \/ k \in 1 .. N
        BY <2>1
      <4> QED BY <3>4, <4>1
    <3>6. h = R(h)
      BY <3>2, <3>5
    <3> QED BY <3>6
  <2>5. value = R(value)
    BY <2>4
  <2> HIDE DEF value
  <2>6. value[0] = 0 /\ \A k \in 1 .. N : value[k] = next(k, value[k - 1])
    <3>1. 0 \in 0 .. N /\ \A k \in 1 .. N : k \in 0 .. N /\ k # 0
      BY <2>1
    <3> QED BY <2>5, <3>1
  <2> DEFINE G == {k \in 0 .. N : value[k] \in Nat}
  <2>7. 0 \in G
    BY <2>1, <2>6
  <2>8. ASSUME NEW k \in 1 .. N, k - 1 \in G PROVE k \in G
    <3>1. value[k - 1] \in Nat /\ k \in 0 .. N /\ value[k] = next(k, value[k - 1])
      BY <2>1, <2>6, <2>8
    <3>2. next(k, value[k - 1]) \in Nat
      BY <2>2, <3>1
    <3> QED BY <3>1, <3>2
  <2> HIDE DEF G
  <2>9. 0 .. N \subseteq G
    BY <2>1, <2>7, <2>8, UpTo
  <2>10. N \in 0 .. N
    BY <2>1
  <2> QED BY <2>3, <2>9, <2>10 DEF G
<1> QED BY <1>2, <1>3

\* A size is a number, or refused.
LEMMA ParsedSize ==
  ASSUME NEW field \in Seq(Int), NEW v, v = parse_octal_u64(field) PROVE v = -1 \/ v \in Nat
<1> DEFINE I == {i \in 1 .. Len(field) : field[i] # BLANK}
           first == IF I # {} THEN Min(I) ELSE 0
           rest == IF first = 0 THEN <<>> ELSE SubSeq(field, first, Len(field))
           J == {i \in 1 .. Len(rest) : rest[i] = BLANK}
           stop == IF J # {} THEN Min(J) ELSE 0
           ds == IF stop = 0 THEN rest ELSE SubSeq(rest, 1, stop - 1)
<1>1. v = octal_value(ds)
  BY DEF parse_octal_u64, SelectInSeq
<1>2. Len(field) \in Nat
  OBVIOUS
<1>3. first \in 0 .. Len(field)
  <2>1. I \in SUBSET (1 .. Len(field))
    OBVIOUS
  <2> HIDE DEF I
  <2> QED BY <2>1, Position
<1> HIDE DEF first
<1>4. rest \in Seq(Int)
  <2>1. CASE first = 0
    BY <2>1
  <2>2. CASE first # 0
    <3>1. first \in 1 .. Len(field) /\ Len(field) \in 0 .. Len(field)
      BY <1>2, <1>3, <2>2
    <3>2. SubSeq(field, first, Len(field)) \in Seq(Int)
      BY <3>1, Inside
    <3> QED BY <2>2, <3>2
  <2> QED BY <2>1, <2>2
<1> HIDE DEF rest
<1>5. stop \in 0 .. Len(rest)
  <2>1. J \in SUBSET (1 .. Len(rest))
    OBVIOUS
  <2> HIDE DEF J
  <2> QED BY <1>4, <2>1, Position
<1> HIDE DEF stop
<1>6. ds \in Seq(Int)
  <2>1. CASE stop = 0
    BY <1>4, <2>1
  <2>2. CASE stop # 0
    <3> DEFINE k == stop - 1
    <3>1. k \in 0 .. Len(rest)
      BY <1>4, <1>5, <2>2
    <3> HIDE DEF k
    <3>2. SubSeq(rest, 1, k) \in Seq(Int)
      BY <1>4, <3>1, Cut
    <3> QED BY <2>2, <3>2 DEF k
  <2> QED BY <2>1, <2>2
<1> HIDE DEF ds
<1> QED BY <1>1, <1>6, Octal

LEMMA GreatestOf ==
  ASSUME NEW n \in Nat, NEW S \in SUBSET (0 .. n), S # {} PROVE Max(S) \in S /\ \A s \in S : Max(S) >= s
<1> DEFINE T == {n - s : s \in S}
<1>1. \A s \in S : s \in Nat /\ n - s \in Nat /\ n - (n - s) = s
  OBVIOUS
<1>2. T \in SUBSET Nat /\ T # {}
  BY <1>1
<1> HIDE DEF T
<1>3. PICK t \in T : \A u \in T : t <= u
  BY <1>2, LeastNumber
<1>4. PICK m \in S : t = n - m
  BY <1>3 DEF T
<1>5. \A s \in S : m >= s
  <2> SUFFICES ASSUME NEW s \in S PROVE m >= s
    OBVIOUS
  <2>1. n - s \in T
    BY DEF T
  <2>2. n - m <= n - s
    BY <1>3, <1>4, <2>1
  <2>3. m \in Nat /\ s \in Nat
    BY <1>1
  <2> QED BY <2>2, <2>3
<1> QED BY <1>5 DEF Max

\* An empty name between two slashes.
Blank(name) == name = ""

LEMMA BlankNotCalled == ASSUME NEW p PROVE Called(p) <=> ~Blank(basename(p))
  BY Zenon DEF Called, Blank

LEMMA Lead == ASSUME NEW raw \in Names PROVE without_lead(raw) \in Names
<1> DEFINE n == Len(raw)
           S == {k \in 0 .. n - 1 : \A j \in 1 .. k : raw[j] \in {"", "."}}
<1>1. n \in Nat
  BY DEF Names
<1>2. CASE raw = <<>>
  BY <1>2 DEF without_lead
<1>3. CASE raw # <<>>
  <2>1. n \in Nat \ {0}
    BY <1>3, Above
  <2>2. without_lead(raw) = SubSeq(raw, Max(S) + 1, n)
    BY <1>3, Zenon DEF without_lead
  <2>3. 0 \in S
    <3> DEFINE dots == {"", "."}
    <3> HIDE DEF dots
    <3>1. 0 \in 0 .. n - 1 /\ 1 .. 0 = {}
      BY <2>1
    <3>2. 0 \in {k \in 0 .. n - 1 : \A j \in 1 .. k : raw[j] \in dots}
      BY <3>1
    <3> QED BY <3>2 DEF dots
  <2>4. S \in SUBSET (0 .. n)
    <3> DEFINE dots == {"", "."}
    <3> HIDE DEF dots
    <3>1. {k \in 0 .. n - 1 : \A j \in 1 .. k : raw[j] \in dots} \in SUBSET (0 .. n - 1)
      OBVIOUS
    <3>2. S \in SUBSET (0 .. n - 1)
      BY <3>1 DEF dots
    <3> HIDE DEF S, n
    <3> QED BY <1>1, <3>2
  <2>5. \A k \in S : k \in 0 .. n - 1
    BY Zenon
  <2> HIDE DEF S, n
  <2> DEFINE a == Max(S) + 1
  <2>6. a \in 1 .. n /\ n \in 0 .. n
    <3>1. Max(S) \in S
      BY <1>1, <2>3, <2>4, GreatestOf
    <3>2. Max(S) \in 0 .. n - 1
      BY <2>5, <3>1
    <3> QED BY <2>1, <3>2
  <2> HIDE DEF a
  <2>7. a \in 1 .. Len(raw) /\ n \in 0 .. Len(raw)
    BY <2>6 DEF n
  <2>8. SubSeq(raw, a, n) \in Names
    BY <2>7, Inside DEF Names
  <2> QED BY <2>2, <2>8 DEF a
<1> QED BY <1>2, <1>3

LEMMA End ==
  ASSUME NEW body \in Names, NEW p, p = without_end(body) PROVE p \in Names /\ (p # <<>> => Called(p))
<1> DEFINE n == Len(body)
           T == {k \in 0 .. n : \A j \in k + 1 .. n : Blank(body[j])}
           m == Min(T)
<1>1. n \in Nat /\ \A j \in 1 .. n : body[j] \in STRING
  BY LenProperties DEF Names
<1>2. p = SubSeq(body, 1, m)
  BY Zenon DEF without_end, Blank
<1>3. n \in T /\ T \in SUBSET Nat
  <2>1. n \in 0 .. n /\ n + 1 .. n = {}
    BY <1>1
  <2> HIDE DEF n
  <2> QED BY <1>1, <2>1
<1>4. m \in T /\ \A k \in T : m <= k
  <2> HIDE DEF T
  <2> QED BY <1>3, LeastOf
<1>5. m \in 0 .. n /\ m \in 0 .. Len(body)
  BY <1>4
<1> HIDE DEF m
<1>6. p \in Names /\ Len(p) = m /\ \A j \in 1 .. m : p[j] = body[j]
  BY <1>2, <1>5, Cut DEF Names
<1>7. ASSUME p # <<>> PROVE Called(p)
  <2>1. Len(p) \in Nat \ {0} /\ basename(p) = p[Len(p)]
    BY <1>6, <1>7, Above
  <2>2. m \in 1 .. m /\ basename(p) = body[m]
    BY <1>6, <2>1
  <2>3. ~Blank(body[m])
    <3> SUFFICES ASSUME Blank(body[m]) PROVE FALSE
      OBVIOUS
    <3> DEFINE h == m - 1
    <3>1. h \in 0 .. n /\ h + 1 = m /\ ~(m <= h)
      BY <1>1, <1>5, <1>6, <2>1
    <3>2. \A j \in m + 1 .. n : Blank(body[j])
      BY <1>4
    <3>3. \A j \in m .. n : j = m \/ j \in m + 1 .. n
      BY <1>1, <1>5
    <3>4. \A j \in h + 1 .. n : Blank(body[j])
      BY <3>1, <3>2, <3>3
    <3> HIDE DEF h
    <3>5. h \in T
      BY <3>1, <3>4
    <3> QED BY <1>4, <3>1, <3>5
  <2> QED BY <2>2, <2>3, BlankNotCalled
<1> QED BY <1>6, <1>7

LEMMA BuildPath ==
  ASSUME NEW raw \in Names, NEW p, p = build_path(raw), p # NoPath PROVE p \in Names /\ p # <<>> /\ Called(p)
<1> DEFINE body == without_lead(raw)
           q == without_end(body)
<1>1. body \in Names
  BY Lead
<1> HIDE DEF body
<1>2. q \in Names /\ (q # <<>> => Called(q))
  BY <1>1, End
<1>3. p = named(q)
  BY DEF build_path, body
<1> HIDE DEF q
<1>4. p = q /\ q # <<>>
  BY <1>3 DEF named, if_it_fits
<1> QED BY <1>2, <1>4

-----------------------------------------------------------------------------
(* The boot: from the tar image to the node table. *)

\* No path leads upwards, and /proc is not a file.
TidyNode(n) == n.used => NoDots(n.path) /\ (n.path = <<"proc">> => n.type = "DIR")
Named(f) == PlainImages => \A i \in NodeIds : TidyNode(f.nodes[i])
NamedPath(p) == PlainImages => NoDots(p)

LEMMA AboveTidy == ASSUME NEW p \in Names, NoDots(p), NEW q, IsAbove(q, p) PROVE NoDots(q)
<1>1. PICK k \in 1 .. Len(p) : q = SubSeq(p, 1, k)
  BY DEF IsAbove
<1>2. Len(p) \in Nat /\ k \in 0 .. Len(p)
  BY LenProperties DEF Names
<1>3. Len(q) = k /\ \A j \in 1 .. k : q[j] = p[j] /\ j \in 1 .. Len(p)
  <2>1. Len(SubSeq(p, 1, k)) = k /\ \A j \in 1 .. k : SubSeq(p, 1, k)[j] = p[j]
    BY <1>2, Cut DEF Names
  <2> QED BY <1>1, <1>2, <2>1
<1> QED BY <1>3 DEF NoDots

LEMMA ParentTidy == ASSUME NEW p \in Names, p # <<>>, NoDots(p) PROVE NoDots(split_parent(p))
<1>1. split_parent(p) = SubSeq(p, 1, Len(p) - 1) /\ Len(p) \in Nat \ {0}
  BY Above
<1>2. Len(p) - 1 \in 0 .. Len(p) /\ \A j \in 1 .. Len(p) - 1 : j \in 1 .. Len(p)
  BY <1>1
<1> DEFINE q == SubSeq(p, 1, Len(p) - 1)
<1>3. Len(q) = Len(p) - 1 /\ \A j \in 1 .. Len(p) - 1 : q[j] = p[j]
  BY <1>2, Cut DEF Names
<1> HIDE DEF q
<1>4. NoDots(q)
  BY <1>2, <1>3 DEF NoDots
<1> QED BY <1>1, <1>4 DEF q

LEMMA NamedGrown ==
  ASSUME NEW f, NEW g, NEW p \in Names, Named(f), NamedPath(p), Grown(f, g, p) PROVE Named(g)
<1> SUFFICES ASSUME PlainImages, NEW i \in NodeIds, g.nodes[i].used PROVE TidyNode(g.nodes[i])
  BY DEF Named, TidyNode
<1>1. CASE f.nodes[i].used
  BY <1>1 DEF Grown, Named
<1>2. CASE ~f.nodes[i].used
  <2>1. g.nodes[i].type = "DIR" /\ IsAbove(g.nodes[i].path, p)
    BY <1>2 DEF Grown
  <2> QED BY <2>1, AboveTidy DEF NamedPath, TidyNode
<1> QED BY <1>1, <1>2

LEMMA NamedPut ==
  ASSUME NEW f \in FsRec, NEW g, NEW i, NEW n, Named(f), g.nodes = [f.nodes EXCEPT ![i] = n], PlainImages => TidyNode(n)
  PROVE  Named(g)
<1> SUFFICES ASSUME PlainImages, NEW j \in NodeIds PROVE TidyNode(g.nodes[j])
  BY DEF Named
<1>1. f.nodes \in [NodeIds -> Node]
  BY FsFields
<1>2. g.nodes[j] = n \/ g.nodes[j] = f.nodes[j]
  BY <1>1
<1> QED BY <1>2 DEF Named

\* Until the file system is up, nothing is in the heap.
Booting(f) == FsOK(f, {}) /\ ~f.ready /\ (\A b \in HeapBufs : f.mem[b] = Freed) /\ Named(f)

LEMMA NoneInHeap == ASSUME NEW f, Booting(f) PROVE \A i \in NodeIds : ~f.nodes[i].heap
<1> SUFFICES ASSUME NEW i \in NodeIds, f.nodes[i].heap PROVE FALSE
  OBVIOUS
<1>1. f.nodes[i].data \in HeapBufs /\ f.mem[f.nodes[i].data] # Freed
  BY DEF Booting, FsOK, Heap, Content
<1> QED BY <1>1 DEF Booting

LEMMA BootGrown ==
  ASSUME NEW f, Booting(f), NEW g, FsOK(g, {}), NEW p \in Names, NamedPath(p), Grown(f, g, p) PROVE Booting(g)
<1>1. Named(g)
  BY NamedGrown DEF Booting
<1> QED BY <1>1 DEF Booting, Grown

\* A file of the ramdisk, by its path.
FilePath(p) == fits(p) /\ (PlainImages => NoDots(p) /\ p # <<"proc">>)

\* The payload of a file of the image is what its header says.
Packed(buf, size) == buf \in Int /\ size \in Nat /\ (size > 0 => buf \in DOMAIN Ram /\ Len(Ram[buf]) = size)

LEMMA RamFile ==
  ASSUME NEW f, Booting(f), NEW p \in Names, p # <<>>, Called(p), NEW a, At(f, a, split_parent(p)),
         NEW buf, NEW size, Packed(buf, size), NEW i, NEW g, Placed(f, g, i, Fresh(p, "FILE", a, buf, size)),
         OnlyAt(f, p, i), f.nodes[i].used => f.nodes[i].path = p /\ f.nodes[i].type = "FILE", FilePath(p)
  PROVE  Booting(g)
<1> DEFINE n == Fresh(p, "FILE", a, buf, size)
<1>1. Table(f) /\ Heap(f, {}) /\ f \in FsRec /\ a \in NodeIds /\ buf \in Int /\ size \in Nat
  BY DEF Booting, FsOK, Table, At, Packed
<1>2. /\ n \in Node /\ n.used /\ n.type = "FILE" /\ n.parent = a /\ ~n.heap /\ n.path = p /\ n.size = size /\ n.data = buf
  BY <1>1, FreshType DEF Fresh
<1> HIDE DEF n
<1>3. /\ i \in NodeIds /\ i >= 0 /\ g \in FsRec /\ g.nodes = [f.nodes EXCEPT ![i] = n]
      /\ g.mem = f.mem /\ g.ready = f.ready /\ f.count <= g.count /\ i < g.count
  BY DEF Placed, n
<1>4. ~f.nodes[i].heap
  BY <1>3, NoneInHeap
<1>5. g.nodes[i] = n
  BY <1>1, <1>3, FsFields
<1>6. Hung(f, n)
  BY <1>2 DEF Hung, At, FilePath
<1>7. Table(g)
  <2>1. \A j \in NodeIds : f.nodes[j].used /\ f.nodes[j].path = n.path => j = i
    BY <1>2 DEF OnlyAt
  <2>2. f.nodes[i].used => n.path = f.nodes[i].path /\ n.type = f.nodes[i].type
    BY <1>2
  <2> QED BY <1>1, <1>2, <1>3, <1>6, <2>1, <2>2, TablePut
<1>8. Content(g, i)
  BY <1>2, <1>5 DEF Content, Packed
<1>9. Heap(g, {})
  BY <1>1, <1>2, <1>3, <1>4, <1>8, HeapPut
<1>10. Named(g)
  <2>1. PlainImages => TidyNode(n)
    BY <1>2 DEF TidyNode, FilePath
  <2> QED BY <1>1, <1>3, <2>1, NamedPut DEF Booting
<1> QED BY <1>3, <1>7, <1>9, <1>10 DEF Booting, FsOK

LEMMA RamPlaced ==
  ASSUME NEW f, Booting(f), NEW p \in Names, p # <<>>, Called(p), NEW a, At(f, a, split_parent(p)),
         NEW buf, NEW size, Packed(buf, size), NEW r, r = create_or_update_node(f, p, "FILE", a, buf, size), fits(p) => FilePath(p)
  PROVE  Booting(r.fs)
<1> DEFINE k == find_node(f, p)
           g == r.fs
           n == Fresh(p, "FILE", a, buf, size)
<1>1. Table(f) /\ f \in FsRec /\ a \in NodeIds /\ buf \in Int /\ size \in Nat
  BY DEF Booting, FsOK, Table, At, Packed
<1>2. CASE k = -1
  <2>1. \/ r.at = -1 /\ g = f
        \/ Placed(f, g, r.at, n) /\ f.nodes[r.at] = FreeNode /\ FilePath(p)
    <3>1. find_node(f, p) = -1 /\ "FILE" \in {"FILE", "DIR"}
      BY <1>2
    <3> HIDE DEF k, g, n
    <3> DEFINE type == "FILE"
    <3>3. type \in {"FILE", "DIR"}
      OBVIOUS
    <3>4. r = create_or_update_node(f, p, type, a, buf, size)
      OBVIOUS
    <3> HIDE DEF type
    <3>2. \/ r.at = -1 /\ r.fs = f
          \/ Placed(f, r.fs, r.at, Fresh(p, type, a, buf, size)) /\ f.nodes[r.at] = FreeNode /\ fits(p)
      BY <1>1, <3>1, <3>3, <3>4, Create
    <3> QED BY <3>2 DEF g, n, type
  <2>2. CASE g = f
    BY <2>2
  <2>3. CASE Placed(f, g, r.at, n) /\ f.nodes[r.at] = FreeNode /\ FilePath(p)
    <3>1. OnlyAt(f, p, r.at)
      BY <1>1, <1>2, NotFound DEF OnlyAt
    <3>2. ~f.nodes[r.at].used
      BY <2>3, FreeNodeType
    <3> HIDE DEF g
    <3>3. Placed(f, g, r.at, Fresh(p, "FILE", a, buf, size))
      BY <2>3
    <3> HIDE DEF n
    <3>4. Booting(g)
      BY <2>3, <3>1, <3>2, <3>3, RamFile
    <3> QED BY <3>4 DEF g
  <2> QED BY <2>1, <2>2, <2>3
<1>3. CASE k # -1
  <2>1. k \in NodeIds /\ f.nodes[k].used /\ f.nodes[k].path = p
    BY <1>1, <1>3, Found
  <2>2. k = find_node(f, p)
    OBVIOUS
  <2> HIDE DEF k
  <2>3. IF fits(p) /\ f.nodes[k].type = "FILE"
        THEN r.at = k /\ Placed(f, g, k, Updated(a, p, buf, size))
        ELSE r.at = -1 /\ g = f
    BY <1>1, <1>3, <2>2, Update
  <2>4. CASE g = f
    BY <2>4
  <2>5. CASE FilePath(p) /\ f.nodes[k].type = "FILE" /\ Placed(f, g, k, Updated(a, p, buf, size))
    <3>1. OnlyAt(f, p, k)
      BY <1>1, <2>1 DEF OnlyAt, Table
    <3>2. Placed(f, g, k, Fresh(p, "FILE", a, buf, size))
      BY <2>5 DEF Updated
    <3> HIDE DEF g, n
    <3>3. f.nodes[k].path = p /\ f.nodes[k].type = "FILE"
      BY <2>1, <2>5
    <3>4. Booting(g)
      BY <2>5, <3>1, <3>2, <3>3, RamFile
    <3> QED BY <3>4 DEF g
  <2> QED BY <2>3, <2>4, <2>5
<1> QED BY <1>2, <1>3

\* A walk that ends at q, and a node called q: they are the same directory.
LEMMA WalkEnd ==
  ASSUME NEW f, NEW q \in Names, NEW r, Walked(f, {}, q, Len(q), r), r.at # -1, NEW a, a = find_node(r.fs, q), a # -1
  PROVE  At(r.fs, a, q)
<1> DEFINE g == r.fs
           b == r.at
           n == Len(q)
<1>1. Table(g)
  BY DEF Walked, FsOK
<1>2. a \in NodeIds /\ g.nodes[a].used /\ g.nodes[a].path = q
  BY <1>1, Found
<1>3. n \in Nat /\ SubSeq(q, 1, n) = q
  BY CutWhole DEF Names
<1>4. At(g, b, q) \/ (n > 0 /\ Blank(q[n]))
  <2>1. b # -1 => At(g, b, SubSeq(q, 1, n)) \/ (n > 0 /\ Blank(q[n]))
    BY Zenon DEF Walked, Blank
  <2> QED BY <1>3, <2>1
<1> HIDE DEF g, b
<1>5. CASE At(g, b, q)
  <2>1. a = b
    BY <1>1, <1>2, <1>5 DEF Table, At
  <2> QED BY <1>5, <2>1 DEF g
<1>6. CASE n > 0 /\ Blank(q[n])
  <2>1. q # <<>>
    <3>1. n # 0
      BY <1>6
    <3> QED BY <3>1
  <2>2. Called(q)
    BY <1>1, <1>2, <2>1 DEF Table, Linked
  <2>3. basename(q) = q[n]
    BY <2>1, Above
  <2> QED BY <1>6, <2>2, <2>3, BlankNotCalled
<1> QED BY <1>4, <1>5, <1>6

\* What the assumption on the images says of a block.
Block(h) ==
  /\ h.raw \in Names /\ h.size \in Seq(Int) /\ h.buf \in Int
  /\ h.flag = "0" /\ parse_octal_u64(h.size) > 0 =>
       h.buf \in DOMAIN Ram /\ parse_octal_u64(h.size) = Len(Ram[h.buf])
  /\ build_path(h.raw) # NoPath => NamedPath(build_path(h.raw))
  /\ build_path(h.raw) # NoPath /\ h.flag = "0" /\ fits(build_path(h.raw)) => FilePath(build_path(h.raw))

LEMMA BlockOf == ASSUME NEW image \in Images, NEW k \in 1 .. Len(image.blocks) PROVE Block(image.blocks[k])
<1> DEFINE h == image.blocks[k]
           p == build_path(h.raw)
<1>1. /\ h.raw \in Names /\ h.size \in Seq(Int) /\ h.buf \in Int
      /\ h.flag = "0" /\ parse_octal_u64(h.size) > 0 =>
           h.buf \in DOMAIN Ram /\ parse_octal_u64(h.size) = Len(Ram[h.buf])
  BY ImagesAssumption DEF Names
<1>2. PlainImages /\ p # NoPath => ".." \notin ToSet(p) /\ ~(p = <<"proc">> /\ h.flag = "0")
  BY DEF PlainImages
<1>3. p # NoPath => p \in Names
  BY <1>1, BuildPath
<1> HIDE DEF p, h
<1>4. ASSUME PlainImages, p # NoPath PROVE NoDots(p) /\ (h.flag = "0" => p # <<"proc">>)
  <2>1. p \in Seq(STRING)
    BY <1>3, <1>4 DEF Names
  <2>2. DOMAIN p = 1 .. Len(p)
    BY <2>1, LenProperties
  <2> QED BY <1>2, <1>4, <2>2 DEF NoDots, ToSet
<1>5. /\ p # NoPath => NamedPath(p)
      /\ p # NoPath /\ h.flag = "0" /\ fits(p) => FilePath(p)
  BY <1>4 DEF NamedPath, FilePath
<1> QED BY <1>1, <1>5 DEF Block, p, h

LEMMA Visit ==
  ASSUME NEW f, Booting(f), NEW h, Block(h), parse_octal_u64(h.size) \in Nat, NEW r, r = ramdisk_visit(f, h)
  PROVE  Booting(r.fs)
<1> DEFINE p == build_path(h.raw)
           q == split_parent(p)
           size == parse_octal_u64(h.size)
           dirs == ensure_dir_hierarchy(f, p)
           above == ensure_dir_hierarchy(f, q)
           a == find_node(above.fs, q)
           file == IF above.at < 0 \/ a < 0 THEN Failed(above.fs)
                   ELSE create_or_update_node(above.fs, p, "FILE", a, h.buf, size)
           nothing == [fs |-> f, at |-> 0]
           skipped == p = NoPath \/ h.flag \notin {"5", "0"}
<1>1. r = nothing \/ (p # NoPath /\ r = dirs) \/ (p # NoPath /\ h.flag = "0" /\ r = file)
  <2>1. r = CASE skipped -> nothing
              [] p # NoPath /\ h.flag = "5" -> dirs
              [] p # NoPath /\ h.flag = "0" -> file
    BY Zenon DEF ramdisk_visit
  <2> HIDE DEF nothing, dirs, file
  <2>2. skipped \/ (p # NoPath /\ h.flag = "5") \/ (p # NoPath /\ h.flag = "0")
    OBVIOUS
  <2> HIDE DEF p, skipped
  <2>3. "5" # "0"
    OBVIOUS
  <2> QED BY <2>1, <2>2, <2>3
<1>2. nothing.fs = f
  OBVIOUS
<1>3. FsOK(f, {}) /\ (p # NoPath => p \in Names /\ p # <<>> /\ Called(p))
  <2>1. h.raw \in Names
    BY DEF Block
  <2>2. FsOK(f, {})
    BY DEF Booting
  <2> QED BY <2>1, <2>2, BuildPath
<1>4. CASE r = nothing
  BY <1>2, <1>4
<1>5. CASE p # NoPath /\ r = dirs
  <2> HIDE DEF p
  <2>1. Walked(f, {}, p, Len(p), r)
    BY <1>3, <1>5, Hierarchy
  <2>2. FsOK(r.fs, {}) /\ Grown(f, r.fs, p)
    BY <2>1, Zenon DEF Walked
  <2>3. p \in Names /\ NamedPath(p)
    BY <1>3, <1>5, Zenon DEF Block, p
  <2> HIDE DEF dirs
  <2> QED BY <2>2, <2>3, BootGrown
<1>6. CASE p # NoPath /\ h.flag = "0" /\ r = file
  <2>1. q \in Names
    <3> HIDE DEF p
    <3> QED BY <1>3, <1>6, Above
  <2>2. above = ensure_dir_hierarchy(f, q)
    OBVIOUS
  <2>3. r = Failed(above.fs) \/ (~(above.at < 0) /\ ~(a < 0) /\ r = create_or_update_node(above.fs, p, "FILE", a, h.buf, size))
    BY <1>6
  <2>4. a = find_node(above.fs, q)
    OBVIOUS
  <2>5. h.flag = "0" /\ Packed(h.buf, size)
    BY <1>6 DEF Block, Packed
  <2>11. NamedPath(p) /\ (fits(p) => FilePath(p))
    BY <1>6, Zenon DEF Block
  <2>12. NamedPath(q)
    <3> HIDE DEF p
    <3> QED BY <1>3, <1>6, <2>11, ParentTidy DEF NamedPath
  <2> HIDE DEF p, above, a, file, dirs, nothing, size
  <2>6. Walked(f, {}, q, Len(q), above)
    <3> HIDE DEF q
    <3> QED BY <1>3, <2>1, <2>2, Hierarchy
  <2>7. FsOK(above.fs, {}) /\ Grown(f, above.fs, q)
    BY <2>6, Zenon DEF Walked
  <2>8. Booting(above.fs)
    <3> DEFINE g == above.fs
    <3>1. FsOK(g, {}) /\ Grown(f, g, q)
      BY <2>7
    <3> HIDE DEF g, q
    <3>2. Booting(g)
      BY <2>1, <2>12, <3>1, BootGrown
    <3> QED BY <3>2 DEF g
  <2>9. CASE r = Failed(above.fs)
    <3>1. r.fs = above.fs
      BY <2>9 DEF Failed
    <3> QED BY <2>8, <3>1
  <2>10. CASE ~(above.at < 0) /\ ~(a < 0) /\ r = create_or_update_node(above.fs, p, "FILE", a, h.buf, size)
    <3> DEFINE g == above.fs
               b == above.at
               buf == h.buf
    <3>1. b # -1 /\ a # -1
      BY <2>10
    <3>2. At(g, a, q)
      <4>1. above.at # -1
        BY <3>1
      <4> HIDE DEF g, b, q
      <4>2. At(above.fs, a, q)
        BY <2>1, <2>4, <2>6, <3>1, <4>1, WalkEnd
      <4> QED BY <4>2 DEF g
    <3>3. Booting(g) /\ Packed(buf, size) /\ r = create_or_update_node(g, p, "FILE", a, buf, size) /\ At(g, a, split_parent(p))
      BY <2>5, <2>8, <2>10, <3>2
    <3>4. p \in Names /\ p # <<>> /\ Called(p)
      BY <1>3, <1>6
    <3> HIDE DEF g, buf, b, q
    <3> QED BY <2>11, <3>3, <3>4, RamPlaced
  <2> QED BY <2>3, <2>9, <2>10
<1> QED BY <1>1, <1>4, <1>5, <1>6

\* Where reading the image stands: it goes on, has come to the end, or is refused.
Reading == {acc \in [fs : FsRec, st : {"on", "end", "refused"}, off : Int] : Booting(acc.fs)}

LEMMA ReadingIs ==
  ASSUME NEW f, Booting(f), NEW st \in {"on", "end", "refused"}, NEW off \in Int PROVE [fs |-> f, st |-> st, off |-> off] \in Reading
<1>1. f \in FsRec
  BY DEF Booting, FsOK, Table
<1> QED BY <1>1 DEF Reading

Advance(visited, off) == [fs |-> visited.fs, st |-> IF visited.at < 0 THEN "refused" ELSE "on", off |-> off]
Header(acc, off, h, size, total) ==
  IF off > total \/ h = ZeroBlock THEN [acc EXCEPT !.st = "end"]
  ELSE IF size < 0 \/ size > total - off THEN [acc EXCEPT !.st = "refused"]
  ELSE Advance(ramdisk_visit(acc.fs, h), off + align_block(size))
ReadBlock(acc, k, h, total) ==
  IF acc.st # "on" \/ acc.off # (k - 1) * BLOCK THEN acc ELSE Header(acc, k * BLOCK, h, parse_octal_u64(h.size), total)

LEMMA Aligned == ASSUME NEW n \in Nat PROVE align_block(n) \in Int
<1>1. BLOCK \in Nat \ {0}
  BY Sizes
<1>2. (n + BLOCK - 1) \div BLOCK \in Int
  BY <1>1
<1> DEFINE q == (n + BLOCK - 1) \div BLOCK
<1>3. align_block(n) = q * BLOCK
  BY DEF align_block
<1> HIDE DEF q
<1>4. q \in Int
  BY <1>2 DEF q
<1> QED BY <1>1, <1>3, <1>4

LEMMA OneBlock ==
  ASSUME NEW acc \in Reading, NEW k \in Nat, NEW h, Block(h), NEW total PROVE ReadBlock(acc, k, h, total) \in Reading
<1> DEFINE off == k * BLOCK
           size == parse_octal_u64(h.size)
           s == Header(acc, off, h, size, total)
           v == ramdisk_visit(acc.fs, h)
           f == acc.fs
<1>1. acc \in [fs : FsRec, st : {"on", "end", "refused"}, off : Int] /\ Booting(f) /\ acc.off \in Int
  BY DEF Reading
<1>2. size = -1 \/ size \in Nat
  BY ParsedSize DEF Block
<1>3. off \in Int
  BY Sizes
<1>4. ReadBlock(acc, k, h, total) = acc \/ ReadBlock(acc, k, h, total) = s
  BY DEF ReadBlock
<1> HIDE DEF off, size
<1>5. ASSUME NEW st \in {"on", "end", "refused"} PROVE [acc EXCEPT !.st = st] \in Reading
  <2>1. [acc EXCEPT !.st = st] = [fs |-> f, st |-> st, off |-> acc.off]
    BY <1>1
  <2> HIDE DEF f
  <2> QED BY <1>1, <2>1, ReadingIs
<1>6. s = [acc EXCEPT !.st = "end"] \/ s = [acc EXCEPT !.st = "refused"] \/ (size \in Nat /\ s = Advance(v, off + align_block(size)))
  <2>1. ~(size < 0) => size \in Nat
    BY <1>2
  <2> HIDE DEF v
  <2> QED BY <2>1 DEF Header, v
<1>7. size \in Nat /\ s = Advance(v, off + align_block(size)) => s \in Reading
  <2> SUFFICES ASSUME size \in Nat PROVE Advance(v, off + align_block(size)) \in Reading
    BY Zenon
  <2> DEFINE w == off + align_block(size)
             g == v.fs
  <2>1. w \in Int
    BY <1>3, Aligned
  <2>2. Booting(g)
    <3>1. v = ramdisk_visit(f, h) /\ parse_octal_u64(h.size) \in Nat
      BY DEF size
    <3> HIDE DEF v, f
    <3> QED BY <1>1, <3>1, Visit
  <2> HIDE DEF w, g, v
  <2>3. Advance(v, w) = [fs |-> g, st |-> IF v.at < 0 THEN "refused" ELSE "on", off |-> w]
    BY DEF Advance, g
  <2>4. (IF v.at < 0 THEN "refused" ELSE "on") \in {"on", "end", "refused"}
    OBVIOUS
  <2>5. Advance(v, w) \in Reading
    BY <2>1, <2>2, <2>3, <2>4, ReadingIs
  <2> QED BY <2>5 DEF w
<1>8. s \in Reading
  <2>1. [acc EXCEPT !.st = "end"] \in Reading /\ [acc EXCEPT !.st = "refused"] \in Reading
    BY <1>5
  <2> HIDE DEF s, v
  <2> QED BY <1>6, <1>7, <2>1
<1> QED BY <1>4, <1>8

LEMMA Image ==
  ASSUME NEW f, Booting(f), NEW image \in Images, NEW r, r = ramdisk_iterate(f, image) PROVE r \in Reading
<1> DEFINE N == Len(image.blocks)
           total == image.size
           start == [fs |-> f, st |-> "on", off |-> 0]
           next(k, acc) == ReadBlock(acc, k, image.blocks[k], total)
           R(h) == [k \in 0 .. N |-> IF k = 0 THEN start ELSE next(k, h[k - 1])]
           run == CHOOSE h : h = R(h)
<1>1. r = run[N]
  BY DEF ramdisk_iterate, ReadBlock, Header, Advance
<1>2. N \in Nat
  BY ImagesAssumption
<1>3. start \in Reading
  BY ReadingIs
<1>4. \A k \in 1 .. N : \A acc \in Reading : next(k, acc) \in Reading
  <2> SUFFICES ASSUME NEW k \in 1 .. N, NEW acc \in Reading PROVE next(k, acc) \in Reading
    OBVIOUS
  <2> DEFINE h == image.blocks[k]
  <2>1. Block(h) /\ k \in Nat
    BY <1>2, BlockOf
  <2> HIDE DEF h, total
  <2>2. ReadBlock(acc, k, h, total) \in Reading
    BY <2>1, OneBlock
  <2> QED BY <2>2 DEF h
<1> HIDE DEF next, start, N
<1>5. \E h : h = R(h)
  <2> DEFINE step == [k \in 1 .. N |-> [acc \in Reading |-> next(k, acc)]]
  <2>1. step \in [1 .. N -> [Reading -> Reading]]
    BY <1>4
  <2> HIDE DEF step
  <2>2. PICK h \in [0 .. N -> Reading] : iterates(h, start, step, N)
    BY <1>2, <1>3, <2>1, IteratesExist
  <2>3. \A k \in 1 .. N : k - 1 \in 0 .. N /\ h[k - 1] \in Reading
    BY <1>2, <2>2
  <2>4. h[0] = start /\ \A k \in 1 .. N : h[k] = next(k, h[k - 1])
    BY <2>2, <2>3 DEF iterates, step
  <2>5. \A k \in 0 .. N : h[k] = IF k = 0 THEN start ELSE next(k, h[k - 1])
    <3>1. \A k \in 0 .. N : k = 0 \/ k \in 1 .. N
      BY <1>2
    <3> QED BY <2>4, <3>1
  <2>6. h = R(h)
    BY <2>2, <2>5
  <2> QED BY <2>6
<1>6. run = R(run)
  BY <1>5
<1> HIDE DEF run
<1>7. run[0] = start /\ \A k \in 1 .. N : run[k] = next(k, run[k - 1])
  <2>1. 0 \in 0 .. N /\ \A k \in 1 .. N : k \in 0 .. N /\ k # 0
    BY <1>2
  <2> QED BY <1>6, <2>1
<1> DEFINE G == {k \in 0 .. N : run[k] \in Reading}
<1>8. 0 \in G
  BY <1>2, <1>3, <1>7
<1>9. \A k \in 1 .. N : k - 1 \in G => k \in G
  BY <1>2, <1>4, <1>7
<1> HIDE DEF G
<1>10. 0 .. N \subseteq G
  BY <1>2, <1>8, <1>9, UpTo
<1>11. N \in 0 .. N
  BY <1>2
<1> QED BY <1>1, <1>10, <1>11 DEF G

Empty == [nodes |-> [i \in NodeIds |-> FreeNode], count |-> 0, ready |-> FALSE,
          mem |-> [b \in HeapBufs \cup DOMAIN Ram |-> IF b \in HeapBufs THEN Freed ELSE Ram[b]]]

LEMMA Root ==
  ASSUME NEW g, g = create_or_update_node(Empty, <<>>, "DIR", 0, NULL, 0).fs PROVE Booting(g)
<1> DEFINE e == Empty
           n == new_node(FreeNode, <<>>, "DIR", 0, NULL, 0)
<1>1. /\ e.nodes \in [NodeIds -> Node] /\ e.nodes[0] = FreeNode /\ \A i \in NodeIds : e.nodes[i] = FreeNode
  BY Sizes, FreeNodeType DEF Empty
<1>2. e.count = 0 /\ 0 .. e.count - 1 = {} /\ e.count < MAX_NODES
  BY Sizes DEF Empty
<1>3. /\ e.mem \in [Buffers -> Bytes \cup {Freed}]
      /\ \A b \in HeapBufs : e.mem[b] = Freed
      /\ \A b \in DOMAIN Ram : e.mem[b] = Ram[b]
  <2>1. Ram \in [DOMAIN Ram -> Bytes] /\ DOMAIN Ram \cap HeapBufs = {}
    BY FilesAssumption, Sizes DEF Bytes
  <2> QED BY <2>1 DEF Empty, Buffers
<1>4. fits(<<>>)
  BY Sizes DEF fits, path_len
<1>5. find_node(e, <<>>) = -1
  BY <1>2 DEF find_node, UsedNodes
<1>6. alloc_slot(e) = 0
  BY <1>2 DEF alloc_slot
<1>7. g = [e EXCEPT !.count = IF 0 = @ THEN @ + 1 ELSE @, !.nodes[0] = new_node(@, <<>>, "DIR", 0, NULL, 0)]
  <2> HIDE DEF e
  <2>1. g = create_or_update_node(e, <<>>, "DIR", 0, NULL, 0).fs
    BY DEF e
  <2>2. ~(find_node(e, <<>>) >= 0) /\ ~(alloc_slot(e) < 0)
    BY <1>5, <1>6
  <2> QED BY <1>4, <1>6, <2>1, <2>2 DEF create_or_update_node
<1>8. g = [e EXCEPT !.count = 1, !.nodes[0] = n]
  BY <1>1, <1>2, <1>7
<1>9. n \in Node /\ n.used /\ n.type = "DIR" /\ ~n.heap /\ n.size = 0 /\ n.path = <<>> /\ n.parent = 0
  <2>1. <<>> \in Names
    BY DEF Names
  <2> QED BY <2>1, Sizes DEF new_node, Node
<1> HIDE DEF n
<1>10. /\ g.nodes = [e.nodes EXCEPT ![0] = n] /\ g.count = 1 /\ g.ready = FALSE /\ g.mem = e.mem /\ g \in FsRec
  <2>1. 1 \in 0 .. MAX_NODES
    BY Sizes
  <2>2. [e.nodes EXCEPT ![0] = n] \in [NodeIds -> Node]
    BY <1>1, <1>9
  <2> QED BY <1>3, <1>8, <2>1, <2>2 DEF Empty, FsRec
<1> HIDE DEF e
<1>11. g.nodes[0] = n /\ \A i \in NodeIds : i # 0 => g.nodes[i] = FreeNode
  BY <1>1, <1>10, Sizes
<1>12. \A i \in NodeIds : g.nodes[i].used => i = 0
  BY <1>11, FreeNodeType
<1>13. Table(g)
  <2>1. Linked(g, 0) /\ fits(g.nodes[0].path)
    BY <1>4, <1>9, <1>11 DEF Linked
  <2>2. \A i \in NodeIds : ~g.nodes[i].used => g.nodes[i] = FreeNode
    BY <1>9, <1>11
  <2>3. \A i \in NodeIds : g.nodes[i].used => i < g.count /\ Linked(g, i)
    BY <1>10, <1>12, <2>1
  <2> QED BY <1>9, <1>10, <1>11, <1>12, <2>1, <2>2, <2>3 DEF Table
<1>14. \A i \in NodeIds : ~g.nodes[i].heap /\ g.nodes[i].size = 0
  BY <1>9, <1>11, FreeNodeType
<1>15. Heap(g, {})
  <2>1. \A i \in NodeIds : Content(g, i)
    BY <1>14, NothingHeld
  <2> QED BY <1>3, <1>10, <1>14, <2>1 DEF Heap
<1>16. Named(g)
  <2>1. NoDots(<<>>) /\ <<>> # <<"proc">>
    BY EmptySeq DEF NoDots
  <2>2. TidyNode(n)
    BY <1>9, <2>1 DEF TidyNode
  <2> QED BY <1>11, <2>2, FreeNodeType DEF Named, TidyNode
<1> QED BY <1>3, <1>10, <1>13, <1>15, <1>16 DEF Booting, FsOK

\* The directories the system needs are there.
Required(f) == f.ready => \A d \in RequiredDirs : \E i \in NodeIds : f.nodes[i].used /\ f.nodes[i].path = d /\ f.nodes[i].type = "DIR"

LEMMA FsInit ==
  ASSUME NEW image \in Images, NEW g, g = fs_init(image)
  PROVE  FsOK(g, {}) /\ Fits(g) /\ Required(g) /\ Named(g)
<1> DEFINE root == create_or_update_node(Empty, <<>>, "DIR", 0, NULL, 0).fs
           built == ramdisk_iterate(root, image)
           h == built.fs
           complete == \A d \in RequiredDirs : \E i \in UsedNodes(h) : h.nodes[i].path = d /\ h.nodes[i].type = "DIR"
           up == built.st # "refused" /\ complete
<1>1. g = [h EXCEPT !.ready = up]
  BY Zenon DEF fs_init, Empty
<1>2. built \in Reading
  <2>1. Booting(root)
    BY Root
  <2> HIDE DEF root
  <2> QED BY <2>1, Image
<1> HIDE DEF built
<1>3. Booting(h)
  BY <1>2 DEF Reading
<1>4. up \in BOOLEAN /\ (up => complete)
  OBVIOUS
<1> HIDE DEF up, h
<1>5. Table(h) /\ Heap(h, {}) /\ h \in FsRec
  BY <1>3 DEF Booting, FsOK, Table
<1>6. g \in FsRec /\ g.nodes = h.nodes /\ g.count = h.count /\ g.mem = h.mem /\ g.ready = up
  BY <1>1, <1>4, <1>5 DEF FsRec
<1>7. Table(g)
  BY <1>5, <1>6, SameTable
<1>8. Heap(g, {})
  BY <1>5, <1>6 DEF Heap, Content
<1>9. Fits(g)
  <2> SUFFICES ASSUME NEW i \in NodeIds, g.nodes[i].used PROVE g.nodes[i].size <= SIZE_CAP
    BY <1>7, FitsAs
  <2>1. ~g.nodes[i].heap
    BY <1>3, <1>6, NoneInHeap
  <2>2. g.nodes[i].size > 0 => g.nodes[i].data \in DOMAIN Ram /\ Len(Ram[g.nodes[i].data]) = g.nodes[i].size
    BY <1>8, <2>1 DEF Heap, Content
  <2>3. SIZE_CAP \in Nat /\ \A b \in DOMAIN Ram : Len(Ram[b]) <= SIZE_CAP
    BY DescriptorsAssumption
  <2>4. g.nodes[i].size \in Nat
    BY <1>6, NodeFields
  <2>5. CASE g.nodes[i].size > 0
    BY <2>2, <2>3, <2>5
  <2>6. CASE g.nodes[i].size = 0
    BY <2>3, <2>6
  <2> QED BY <2>4, <2>5, <2>6
<1>10. Required(g)
  <2> SUFFICES ASSUME complete PROVE \A d \in RequiredDirs : \E i \in NodeIds : g.nodes[i].used /\ g.nodes[i].path = d /\ g.nodes[i].type = "DIR"
    BY <1>4, <1>6 DEF Required
  <2>1. UsedNodes(h) = {i \in NodeIds : h.nodes[i].used}
    BY <1>5, Used
  <2> HIDE DEF complete
  <2>2. \A d \in RequiredDirs : \E i \in {i \in NodeIds : h.nodes[i].used} : h.nodes[i].path = d /\ h.nodes[i].type = "DIR"
    BY <2>1 DEF complete
  <2> QED BY <1>6, <2>2
<1>11. Named(g)
  BY <1>3, <1>6 DEF Booting, Named
<1> QED BY <1>7, <1>8, <1>9, <1>10, <1>11 DEF FsOK

-----------------------------------------------------------------------------
(* What stays: the required directories, and files that fit. *)

\* Every directory stays one, but one that is removed, which is below /temp.
LEMMA RequiredStays ==
  ASSUME NEW f, Required(f), NEW g, NEW p,
         \/ g = f
         \/ Stored(f, g, p) \/ Sprouted(f, g, p)
         \/ Removed(f, g, p)
  PROVE  Required(g)
<1>1. CASE g = f
  BY <1>1
<1>2. CASE Stored(f, g, p) \/ Sprouted(f, g, p)
  <2>1. g.ready = f.ready
    BY <1>2 DEF Stored, Sprouted
  <2>2. \A i \in NodeIds : f.nodes[i].used => g.nodes[i].used /\ g.nodes[i].path = f.nodes[i].path /\ g.nodes[i].type = f.nodes[i].type
    BY <1>2 DEF Stored, Sprouted, Unharmed, Stays
  <2> QED BY <2>1, <2>2 DEF Required
<1>3. CASE Removed(f, g, p)
  <2>1. g.ready = f.ready /\ removable(p)
    BY <1>3 DEF Removed
  <2>2. PICK k \in NodeIds : f.nodes[k].path = p /\ \A i \in NodeIds : i # k /\ f.nodes[i].used => Stays(f, g, i)
    BY <1>3 DEF Removed
  <2>3. ASSUME f.ready, NEW d \in RequiredDirs
        PROVE  \E i \in NodeIds : g.nodes[i].used /\ g.nodes[i].path = d /\ g.nodes[i].type = "DIR"
    <3>1. PICK i \in NodeIds : f.nodes[i].used /\ f.nodes[i].path = d /\ f.nodes[i].type = "DIR"
      BY <2>3 DEF Required
    <3>2. d # p
      BY <2>1, <2>3 DEF RequiredDirs, removable, in_temp_tree
    <3>3. Stays(f, g, i)
      BY <2>2, <3>1, <3>2
    <3> QED BY <3>1, <3>3 DEF Stays
  <2> QED BY <2>1, <2>3 DEF Required
<1> QED BY <1>1, <1>2, <1>3

LEMMA FitsOn ==
  ASSUME NEW f, NEW H, FsOK(f, H), Fits(f), NEW g, FsOK(g, H), NEW p, Sprouted(f, g, p) \/ Removed(f, g, p)
  PROVE  Fits(g)
<1>1. Table(g)
  BY DEF FsOK
<1>2. ASSUME NEW i \in NodeIds, g.nodes[i].used PROVE g.nodes[i].size <= SIZE_CAP
  <2>1. (f.nodes[i].used /\ Stays(f, g, i)) \/ g.nodes[i].type = "DIR"
    <3>1. CASE Sprouted(f, g, p)
      BY <1>2, <3>1 DEF Sprouted, Unharmed
    <3>2. CASE Removed(f, g, p)
      BY <1>2, <3>2 DEF Removed
    <3> QED BY <3>1, <3>2
  <2> QED BY <2>1, FitsStays
<1> QED BY <1>1, <1>2, FitsAs

-----------------------------------------------------------------------------
(* The whole: descriptor tables and loaded libraries. *)

Flags == [acc : Nat, creat : BOOLEAN, trunc : BOOLEAN, app : BOOLEAN]
Fd == {d \in [kind : {"NONE", "TTY", "NULL", "ZERO", "RANDOM", "FILE"}, flags : Flags, off : 0 .. SIZE_CAP, path : Paths \cup {<<>>}] :
         d.kind = "FILE" => d.path \in Paths}
FdTable == [Fds -> Fd]
Lib == {l \in [owner : Nat, path : Paths \cup {<<>>}, image : Int, bytes : Bytes] :
          l.image \in DOMAIN Ram => l.bytes = Ram[l.image]}

StoreInv(f) == FsOK(f, {}) /\ Fits(f) /\ Required(f)
StackInv(s) == s \in Seq(FdTable) /\ Len(s) <= DEPTH
LibsInv(l, depth) == l \in [DynSlots -> Lib] /\ \A k \in DynSlots : l[k].owner <= depth
IInv == StoreInv(fs) /\ StackInv(stack) /\ LibsInv(dyn, Len(stack))

LEMMA Bounds ==
  /\ FD_MAX \in Nat /\ FD_MAX >= 3 /\ DEPTH \in Nat \ {0} /\ DYNLIB_MAX \in Nat /\ SIZE_CAP \in Nat
  /\ Fds \in SUBSET Nat /\ 0 \in Fds /\ 1 \in Fds /\ 2 \in Fds /\ DynSlots \in SUBSET Nat /\ 0 \in 0 .. SIZE_CAP
  BY DescriptorsAssumption DEF Fds, DynSlots

LEMMA PathArgs == ASSUME NEW x \in XPaths \cup Libs \cup {o.path : o \in Opens} PROVE copy_user_string(x) \in Paths
  BY PathsAssumption DEF Paths, Names

LEMMA NoFdType == NoFd \in Fd
<1>1. NoFd \in [kind : {"NONE", "TTY", "NULL", "ZERO", "RANDOM", "FILE"}, flags : Flags, off : 0 .. SIZE_CAP, path : Paths \cup {<<>>}]
  BY Bounds DEF NoFd, Flags
<1> QED BY <1>1 DEF NoFd, Fd

LEMMA StdType == ASSUME NEW acc \in Nat PROVE std_fd(acc) \in Fd
<1>1. NoFd \in [kind : {"NONE", "TTY", "NULL", "ZERO", "RANDOM", "FILE"}, flags : Flags, off : 0 .. SIZE_CAP, path : Paths \cup {<<>>}]
  BY NoFdType DEF Fd
<1> DEFINE fl == [NoFd.flags EXCEPT !.acc = acc]
           e == std_fd(acc)
<1>2. fl \in Flags
  <2>1. NoFd.flags \in Flags
    BY <1>1
  <2> QED BY <2>1 DEF Flags
<1>3. e = [[NoFd EXCEPT !.kind = "TTY"] EXCEPT !.flags = fl]
  BY DEF std_fd, NoFd
<1> HIDE DEF fl
<1>4. /\ e \in [kind : {"NONE", "TTY", "NULL", "ZERO", "RANDOM", "FILE"}, flags : Flags, off : 0 .. SIZE_CAP, path : Paths \cup {<<>>}]
      /\ e.kind = "TTY"
  BY <1>1, <1>2, <1>3
<1> HIDE DEF e
<1>5. e \in Fd
  BY <1>4 DEF Fd
<1> QED BY <1>5 DEF e

LEMMA Defaults == fd_init_defaults \in FdTable
  BY NoFdType, StdType DEF fd_init_defaults, FdTable

LEMMA Free == ASSUME NEW fds PROVE fd_find_free(fds) = -1 \/ fd_find_free(fds) \in Fds
<1> DEFINE free == {d \in Fds : fds[d].kind = "NONE"}
<1>1. CASE free = {}
  BY <1>1 DEF fd_find_free
<1>2. CASE free # {}
  <2>1. fd_find_free(fds) = Min(free)
    BY <1>2 DEF fd_find_free
  <2>2. free \in SUBSET Nat
    BY Bounds
  <2>3. \A d \in free : d \in Fds
    OBVIOUS
  <2> HIDE DEF free
  <2>4. Min(free) \in free
    BY <1>2, <2>2, LeastOf
  <2> QED BY <2>1, <2>3, <2>4
<1> QED BY <1>1, <1>2

LEMMA SetFd == ASSUME NEW fds \in FdTable, NEW d, NEW e \in Fd PROVE [fds EXCEPT ![d] = e] \in FdTable
  BY DEF FdTable

LEMMA MovedFd == ASSUME NEW e \in Fd, NEW off \in 0 .. SIZE_CAP PROVE [e EXCEPT !.off = off] \in Fd
  BY DEF Fd

LEMMA NoLibType == NoLib \in Lib /\ NoLib.owner = 0
<1>1. NoLib \in [owner : Nat, path : Paths \cup {<<>>}, image : Int, bytes : Bytes]
  BY Sizes DEF NoLib, Bytes
<1> QED BY <1>1, Sizes DEF NoLib, Lib

LEMMA ReadAll ==
  ASSUME NEW f, FsOK(f, {}), NEW x, NEW b, b = read_all(f, x)
  PROVE  b \in Int /\ BytesIn(f, b) \in Bytes /\ (b \in DOMAIN Ram => BytesIn(f, b) = Ram[b])
<1> DEFINE i == find_external(f, x)
<1>1. Table(f) /\ f \in FsRec /\ Heap(f, {})
  BY DEF FsOK, Table
<1>2. i = -1 \/ i \in NodeIds
  <2>1. i = -1 \/ i = find_node(f, normalize_external_path(x))
    BY DEF find_external
  <2> QED BY <1>1, <2>1, Found
<1>3. b = NULL \/ b = EMPTY_DATA \/ (~(i < 0) /\ f.nodes[i].type = "FILE" /\ f.nodes[i].size # 0 /\ b = f.nodes[i].data)
  BY NodeFields DEF read_all
<1> HIDE DEF i
<1>4. CASE b = NULL \/ b = EMPTY_DATA
  <2>1. BytesIn(f, b) = <<>>
    BY <1>4 DEF BytesIn
  <2>2. <<>> \in Bytes
    BY DEF Bytes
  <2> QED BY <1>4, <2>1, <2>2, Sizes
<1>5. CASE ~(i < 0) /\ f.nodes[i].size # 0 /\ b = f.nodes[i].data /\ ~(b = NULL \/ b = EMPTY_DATA)
  <2>1. i \in NodeIds
    BY <1>2, <1>5
  <2>2. f.nodes[i].size > 0
    <3>1. f.nodes[i].size \in Nat
      BY <1>1, <2>1, NodeFields
    <3> QED BY <1>5, <3>1
  <2>3. b \in Buffers /\ FileBytes(f, i) = f.mem[b] /\ FileBytes(f, i) \in Bytes
    BY <1>1, <1>5, <2>1, <2>2, Holds
  <2>4. BytesIn(f, b) = f.mem[b]
    BY <1>5 DEF BytesIn
  <2>5. BytesIn(f, b) \in Bytes
    BY <2>3, <2>4
  <2>6. b \in Int
    BY <2>3, Sizes DEF Buffers
  <2>7. b \in DOMAIN Ram => f.mem[b] = Ram[b]
    BY <1>1 DEF Heap
  <2> QED BY <2>4, <2>5, <2>6, <2>7
<1> QED BY <1>3, <1>4, <1>5

LEMMA TopType ==
  ASSUME NEW s, StackInv(s), s # <<>>
  PROVE  Len(s) \in Nat \ {0} /\ Len(s) \in 1 .. Len(s) /\ s[Len(s)] \in FdTable /\ s \in [1 .. Len(s) -> FdTable]
<1>1. s \in Seq(FdTable)
  BY DEF StackInv
<1>2. Len(s) \in Nat \ {0}
  BY <1>1, EmptySeq
<1> QED BY <1>1, <1>2

LEMMA TopSet ==
  ASSUME NEW s, StackInv(s), s # <<>>, NEW t \in FdTable, NEW u, u = [s EXCEPT ![Len(s)] = t]
  PROVE  StackInv(u) /\ Len(u) = Len(s) /\ u[Len(s)] = t
<1> DEFINE n == Len(s)
<1>1. n \in Nat \ {0} /\ n \in 1 .. n /\ s \in [1 .. n -> FdTable] /\ n <= DEPTH
  BY TopType DEF StackInv
<1>2. u = [s EXCEPT ![n] = t]
  OBVIOUS
<1> HIDE DEF n
<1>3. u \in [1 .. n -> FdTable] /\ u[n] = t
  BY <1>1, <1>2
<1>4. u \in Seq(FdTable) /\ Len(u) = n
  BY <1>1, <1>3
<1> QED BY <1>1, <1>3, <1>4 DEF StackInv, n

SetTopFd(s, d, e) == [s EXCEPT ![Len(s)][d] = e]

LEMMA TopFd ==
  ASSUME NEW s, StackInv(s), s # <<>>, NEW d \in Fds, NEW e \in Fd, NEW u, u = SetTopFd(s, d, e)
  PROVE  StackInv(u) /\ Len(u) = Len(s) /\ u[Len(s)][d] = e
<1> DEFINE n == Len(s)
           t == [s[n] EXCEPT ![d] = e]
<1>1. s[n] \in FdTable
  BY TopType
<1>2. t \in FdTable /\ t[d] = e
  BY <1>1 DEF FdTable
<1>3. u = [s EXCEPT ![n] = t]
  BY DEF SetTopFd
<1> HIDE DEF t
<1>4. StackInv(u) /\ Len(u) = Len(s) /\ u[n] = t
  BY <1>2, <1>3, TopSet
<1> QED BY <1>2, <1>4

SetOffset(s, d, off) == [s EXCEPT ![Len(s)][d].off = off]

LEMMA TopMoved ==
  ASSUME NEW s, StackInv(s), s # <<>>, NEW d \in Fds, NEW off, NEW u, u = SetOffset(s, d, off)
  PROVE  /\ off \in 0 .. SIZE_CAP => StackInv(u) /\ Len(u) = Len(s)
         /\ u[Len(s)][d].off = off
<1> DEFINE n == Len(s)
           e == s[n][d]
           m == [e EXCEPT !.off = off]
<1>1. s[n] \in FdTable /\ n \in 1 .. n /\ s \in [1 .. n -> FdTable]
  BY TopType
<1>2. e \in Fd
  BY <1>1 DEF FdTable
<1>3. m.off = off /\ (off \in 0 .. SIZE_CAP => m \in Fd)
  BY <1>2 DEF Fd
<1>4. u = [s EXCEPT ![n][d] = m]
  BY DEF SetOffset
<1> HIDE DEF m, e
<1>5. u[n][d] = m
  BY <1>1, <1>4 DEF FdTable
<1>6. off \in 0 .. SIZE_CAP => StackInv(u) /\ Len(u) = Len(s)
  <2> SUFFICES ASSUME off \in 0 .. SIZE_CAP PROVE StackInv(u) /\ Len(u) = Len(s)
    OBVIOUS
  <2>1. m \in Fd
    BY <1>3
  <2>2. u = SetTopFd(s, d, m)
    BY <1>4 DEF SetTopFd
  <2> QED BY <2>1, <2>2, TopFd
<1> QED BY <1>3, <1>5, <1>6

\* How far a read moves the descriptor.
LEMMA ReadLength ==
  ASSUME NEW f, FsOK(f, {}), NEW e \in Fd, NEW n \in Nat, NEW r, r = fd_file_read_len(f, e, n)
  PROVE  r = -1 \/ r \in Nat
<1> DEFINE i == find_external(f, e.path)
           size == f.nodes[i].size
<1>1. r = IF read_all(f, e.path) = NULL THEN -1 ELSE IF e.off >= size THEN 0 ELSE IF size - e.off > n THEN n ELSE size - e.off
  BY DEF fd_file_read_len
<1>2. CASE read_all(f, e.path) = NULL
  BY <1>1, <1>2
<1>3. CASE read_all(f, e.path) # NULL
  <2>1. ~(i < 0)
    BY <1>3 DEF read_all
  <2>2. i = -1 \/ i = find_node(f, normalize_external_path(e.path))
    BY DEF find_external
  <2>3. Table(f) /\ f \in FsRec
    BY DEF FsOK, Table
  <2>4. i \in NodeIds
    BY <2>1, <2>2, <2>3, Found
  <2> HIDE DEF i
  <2>5. size \in Nat
    BY <2>3, <2>4, NodeFields
  <2>6. e.off \in Nat
    BY Bounds DEF Fd
  <2> DEFINE off == e.off
  <2> HIDE DEF size, off
  <2>7. r = IF off >= size THEN 0 ELSE IF size - off > n THEN n ELSE size - off
    BY <1>1, <1>3 DEF off
  <2>8. off \in Nat
    BY <2>6 DEF off
  <2> QED BY <2>5, <2>7, <2>8
<1> QED BY <1>2, <1>3

LEMMA Overrides ==
  ASSUME NEW parent \in FdTable, NEW in, NEW out, NEW err, NEW r, r = fd_apply_stdio_overrides(parent, in, out, err)
  PROVE  r \in Seq(FdTable) /\ Len(r) <= 1
<1> DEFINE ok == /\ in # INHERIT => fd_copy_from_parent(parent, in, TRUE, FALSE)
                 /\ out # INHERIT => fd_copy_from_parent(parent, out, FALSE, TRUE)
                 /\ err # INHERIT => fd_copy_from_parent(parent, err, FALSE, TRUE)
           given(d, over) == IF over = INHERIT THEN fd_init_defaults[d] ELSE parent[over]
           t == [fd_init_defaults EXCEPT ![0] = given(0, in), ![1] = given(1, out), ![2] = given(2, err)]
<1>1. r = IF ~ok THEN <<>> ELSE <<t>>
  BY DEF fd_apply_stdio_overrides
<1>2. CASE ~ok
  BY <1>1, <1>2
<1>3. CASE ok
  <2>1. ASSUME NEW d \in Fds, NEW over, over # INHERIT => fd_lookup(parent, over) PROVE given(d, over) \in Fd
    <3>1. fd_init_defaults[d] \in Fd
      BY Defaults DEF FdTable
    <3>2. over # INHERIT => parent[over] \in Fd
      BY <2>1 DEF fd_lookup, FdTable
    <3> QED BY <3>1, <3>2
  <2>2. /\ in # INHERIT => fd_lookup(parent, in)
        /\ out # INHERIT => fd_lookup(parent, out)
        /\ err # INHERIT => fd_lookup(parent, err)
    BY <1>3 DEF fd_copy_from_parent
  <2>3. given(0, in) \in Fd /\ given(1, out) \in Fd /\ given(2, err) \in Fd
    BY <2>1, <2>2, Bounds
  <2> HIDE DEF given
  <2>4. t \in FdTable
    BY <2>3, Defaults DEF FdTable
  <2> HIDE DEF t
  <2>5. r = <<t>>
    BY <1>1, <1>3
  <2> QED BY <2>4, <2>5
<1> QED BY <1>2, <1>3

-----------------------------------------------------------------------------
(* The invariant, action by action. *)

\* What a call may do to the files: nothing, make directories below /temp, write
\* a file there, or take away a file or an empty directory.
StoreStep(f, g) ==
  \/ g = f
  \/ \E p \in Tidy : f.ready /\ in_temp_tree(p) /\ Sprouted(f, g, p)
  \/ \E p \in Tidy : Writable(f, p) /\ Stored(f, g, p)
  \/ \E p \in Tidy : Removed(f, g, p)

LEMMA NoPathKept == ~is_temp_file_path(NoPath) /\ ~removable(NoPath)
<1>1. Len(NoPath) = 1 /\ Head(NoPath) = "" /\ "" # "temp"
  BY DEF NoPath
<1>2. ~in_temp_tree(NoPath)
  BY <1>1 DEF in_temp_tree
<1> QED BY <1>2 DEF is_temp_file_path, removable

\* A path from outside, unless the file system refuses it.
Refused(p) == p = NoPath
LEMMA PathIn == ASSUME NEW x \in Paths, NEW p, p = normalize_external_path(x) PROVE Refused(p) \/ p \in Tidy
BY NormalPath DEF Normal, Plain, Refused, Tidy

LEMMA NotRefused == ASSUME NEW p, Refused(p) PROVE ~is_temp_file_path(p) /\ ~removable(p)
BY NoPathKept DEF Refused

LEMMA StepKeepsRequired == ASSUME NEW f, Required(f), NEW g, StoreStep(f, g) PROVE Required(g)
<1>1. CASE g = f
  BY <1>1
<1>2. ASSUME NEW p \in Names, Sprouted(f, g, p) \/ Stored(f, g, p) \/ Removed(f, g, p) PROVE Required(g)
  BY <1>2, RequiredStays
<1> QED BY <1>1, <1>2 DEF StoreStep, Tidy

LEMMA MkdirStep ==
  ASSUME StoreInv(fs), FsMkdir PROVE StoreInv(fs') /\ StoreStep(fs, fs')
<1>1. PICK x \in XPaths : fs' = mkdir(fs, copy_user_string(x)).fs
  BY DEF FsMkdir
<1> DEFINE y == copy_user_string(x)
           p == normalize_external_path(y)
           r == mkdir(fs, y)
           f == fs
           g == r.fs
<1>2. y \in Paths
  BY PathArgs
<1>3. FsOK(f, {}) /\ Fits(f) /\ Required(f)
  BY DEF StoreInv
<1>4. fs' = g
  BY <1>1
<1> HIDE DEF y
<1>5. FsOK(g, {}) /\ (g = f \/ (Normal(p) /\ f.ready /\ in_temp_tree(p) /\ Sprouted(f, g, p)))
  <2> DEFINE q == p
             s == r
  <2>1. q = normalize_external_path(y) /\ s = mkdir(f, y)
    OBVIOUS
  <2> HIDE DEF q, s, p, r, g, f
  <2>2. FsOK(s.fs, {}) /\ (s.fs = f \/ (Normal(q) /\ f.ready /\ in_temp_tree(q) /\ Sprouted(f, s.fs, q)))
    BY <1>2, <1>3, <2>1, Mkdir
  <2> QED BY <2>2 DEF q, s, g
<1> HIDE DEF f, g, p
<1>6. StoreStep(f, g)
  BY <1>5 DEF StoreStep, Normal, Plain, Tidy
<1>7. Required(g)
  BY <1>3, <1>6, StepKeepsRequired
<1>8. Fits(g)
  <2>1. CASE g = f
    BY <1>3, <2>1
  <2>2. CASE Sprouted(f, g, p)
    BY <1>3, <1>5, <2>2, FitsOn
  <2> QED BY <1>5, <2>1, <2>2
<1>9. StoreInv(g)
  BY <1>5, <1>7, <1>8 DEF StoreInv
<1> QED BY <1>4, <1>6, <1>9 DEF f

LEMMA RemoveStep ==
  ASSUME StoreInv(fs), FsRemove PROVE StoreInv(fs') /\ StoreStep(fs, fs')
<1>1. PICK x \in XPaths : fs' = fs_remove(fs, copy_user_string(x)).fs
  BY DEF FsRemove
<1> DEFINE y == copy_user_string(x)
           p == normalize_external_path(y)
           r == fs_remove(fs, y)
           f == fs
           g == r.fs
<1>2. y \in Paths
  BY PathArgs
<1>3. FsOK(f, {}) /\ Fits(f) /\ Required(f)
  BY DEF StoreInv
<1>4. fs' = g
  BY <1>1
<1> HIDE DEF y
<1>5. Refused(p) \/ p \in Tidy
  BY <1>2, PathIn
<1>6. FsOK(g, {}) /\ (g = f \/ Removed(f, g, p))
  <2> DEFINE q == p
             s == r
  <2>1. q = normalize_external_path(y) /\ s = fs_remove(f, y)
    OBVIOUS
  <2> HIDE DEF q, s, p, r, g, f
  <2>2. FsOK(s.fs, {}) /\ (s.fs = f \/ Removed(f, s.fs, q))
    BY <1>3, <2>1, RemoveOne
  <2> QED BY <2>2 DEF q, s, g
<1> HIDE DEF f, g, p
<1>7. StoreStep(f, g)
  <2>1. Removed(f, g, p) => removable(p)
    BY DEF Removed
  <2>2. Removed(f, g, p) => p \in Tidy
    BY <1>5, <2>1, NotRefused
  <2> QED BY <1>6, <2>2 DEF StoreStep
<1>8. Required(g)
  BY <1>3, <1>7, StepKeepsRequired
<1>9. Fits(g)
  <2>1. CASE g = f
    BY <1>3, <2>1
  <2>2. CASE Removed(f, g, p)
    BY <1>3, <1>6, <2>2, FitsOn
  <2> QED BY <1>6, <2>1, <2>2
<1>10. StoreInv(g)
  BY <1>6, <1>8, <1>9 DEF StoreInv
<1> QED BY <1>4, <1>7, <1>10 DEF f

\* What the writes have in common.
LEMMA KeptStep ==
  ASSUME NEW f, StoreInv(f), NEW p, Refused(p) \/ p \in Tidy, NEW s, Kept(f, p, s), NEW g, g = s.fs, Fits(g)
  PROVE  StoreInv(g) /\ StoreStep(f, g)
<1>1. FsOK(g, {}) /\ Stored(f, g, p) /\ (g # f => Writable(f, p))
  BY DEF Kept
<1>2. StoreStep(f, g)
  <2>1. g # f => p \in Tidy
    BY <1>1, NotRefused DEF Writable
  <2> QED BY <1>1, <2>1 DEF StoreStep
<1>3. Required(g)
  BY <1>2, StepKeepsRequired DEF StoreInv
<1> QED BY <1>1, <1>2, <1>3 DEF StoreInv

LEMMA WriteStep ==
  ASSUME StoreInv(fs), FsWrite PROVE StoreInv(fs') /\ StoreStep(fs, fs')
<1>1. PICK x \in XPaths, b \in Payloads, app \in BOOLEAN : fs' = fs_write_common(fs, copy_user_string(x), b, app).fs /\ Fits(fs')
  BY DEF FsWrite
<1> DEFINE y == copy_user_string(x)
           p == normalize_external_path(y)
           r == fs_write_common(fs, y, b, app)
           f == fs
           g == r.fs
<1>2. y \in Paths /\ b \in Bytes
  BY PathArgs, DescriptorsAssumption DEF Bytes
<1>3. FsOK(f, {}) /\ StoreInv(f)
  BY DEF StoreInv
<1>4. fs' = g /\ Fits(g)
  BY <1>1
<1> HIDE DEF y
<1>5. Refused(p) \/ p \in Tidy
  BY <1>2, PathIn
<1>6. Kept(f, p, r)
  <2> DEFINE q == p
             s == r
  <2>1. q = normalize_external_path(y) /\ s = fs_write_common(f, y, b, app)
    OBVIOUS
  <2> HIDE DEF q, s, p, r, g, f
  <2>2. Kept(f, q, s)
    BY <1>2, <1>3, <2>1, WriteCommon
  <2> QED BY <2>2 DEF q, s
<1>7. g = r.fs
  OBVIOUS
<1> HIDE DEF f, g, p, r
<1>8. StoreInv(g) /\ StoreStep(f, g)
  BY <1>3, <1>4, <1>5, <1>6, <1>7, KeptStep
<1> QED BY <1>4, <1>8 DEF f

\* The descriptor table of the program on top.
LEMMA OnTop ==
  ASSUME StackInv(stack), Running PROVE Top \in FdTable /\ stack # <<>> /\ Top = stack[Len(stack)]
BY TopType DEF Running, Top

LEMMA OpenedType ==
  ASSUME NEW g, FsOK(g, {}), Fits(g), NEW fds \in FdTable, NEW x \in Paths, NEW flags \in Flags, NEW after,
         Opened(g, fds, x, flags, after)
  PROVE  after \in FdTable
<1>1. fs_stat(g, x).size \in 0 .. SIZE_CAP
  <2> DEFINE i == find_external(g, x)
  <2>1. i = -1 \/ (i \in NodeIds /\ g.nodes[i].used)
    BY Found DEF find_external, FsOK
  <2>2. CASE ~g.ready \/ i < 0
    BY <2>2, Bounds DEF fs_stat
  <2>3. CASE g.ready /\ ~(i < 0)
    <3>1. i \in NodeIds /\ g.nodes[i].used
      BY <2>1, <2>3
    <3>2. g.nodes[i].size \in Nat
      BY <3>1, NodeFields DEF FsOK, Table
    <3>3. g.nodes[i].size <= SIZE_CAP
      BY <3>1, FitsAs DEF FsOK
    <3>4. fs_stat(g, x).size = g.nodes[i].size
      BY <2>3 DEF fs_stat
    <3> QED BY <3>2, <3>3, <3>4, Bounds
  <2> QED BY <2>2, <2>3
<1> DEFINE size == fs_stat(g, x).size
<1> HIDE DEF size
<1>2. Entry("FILE", flags, x, 0) \in Fd /\ Entry("FILE", flags, x, size) \in Fd
  BY <1>1, Bounds DEF Entry, Fd, size
<1>3. \A kind \in {"TTY", "NULL", "ZERO", "RANDOM"} : Entry(kind, flags, <<>>, 0) \in Fd
  BY Bounds DEF Entry, Fd
<1>4. CASE after = fds
  BY <1>4
<1>5. CASE after = [fds EXCEPT ![fd_find_free(fds)] = Entry("FILE", flags, x, 0)]
  BY <1>2, <1>5, SetFd
<1>6. CASE after = [fds EXCEPT ![fd_find_free(fds)] = Entry("FILE", flags, x, size)]
  BY <1>2, <1>6, SetFd
<1>7. ASSUME NEW kind \in {"TTY", "NULL", "ZERO", "RANDOM"}, after = [fds EXCEPT ![fd_find_free(fds)] = Entry(kind, flags, <<>>, 0)]
      PROVE  after \in FdTable
  BY <1>3, <1>7, SetFd
<1> QED BY <1>4, <1>5, <1>6, <1>7 DEF Opened, size

LEMMA OpenStep ==
  ASSUME StoreInv(fs), StackInv(stack), FdOpen
  PROVE  StoreInv(fs') /\ StoreStep(fs, fs') /\ StackInv(stack') /\ Len(stack') = Len(stack)
<1>1. PICK o \in Opens : \E r \in {fd_open(fs, Top, copy_user_string(o.path), o.flags)} :
                            fs' = r.fs /\ stack' = [stack EXCEPT ![Len(stack)] = r.fds]
  BY DEF FdOpen
<1> DEFINE y == copy_user_string(o.path)
           p == normalize_external_path(y)
           flags == o.flags
           r == fd_open(fs, Top, y, flags)
           f == fs
           g == r.fs
           fds == Top
<1>2. y \in Paths /\ flags \in Flags
  BY PathArgs, DescriptorsAssumption DEF Flags
<1>3. FsOK(f, {}) /\ StoreInv(f) /\ Fits(f)
  BY DEF StoreInv
<1>4. fs' = g /\ stack' = [stack EXCEPT ![Len(stack)] = r.fds]
  BY <1>1
<1>5. fds \in FdTable /\ stack # <<>>
  BY OnTop DEF FdOpen
<1> HIDE DEF y, flags, fds, f
<1>6. Refused(p) \/ p \in Tidy
  BY <1>2, PathIn
<1>7. \E s : Emptied(f, p, s) /\ g = s.fs /\ Opened(s.fs, fds, y, flags, r.fds)
  <2> DEFINE q == p
             v == r
  <2>1. q = normalize_external_path(y) /\ v = fd_open(f, fds, y, flags)
    BY DEF f, fds
  <2> HIDE DEF q, v, p, r
  <2>2. \E s : Emptied(f, q, s) /\ v.fs = s.fs /\ Opened(s.fs, fds, y, flags, v.fds)
    BY <1>2, <1>3, <2>1, Open
  <2> QED BY <2>2 DEF q, v
<1> HIDE DEF g, p, r
<1>8. PICK s : Emptied(f, p, s) /\ g = s.fs /\ Opened(s.fs, fds, y, flags, r.fds)
  BY <1>7
<1>9. Kept(f, p, s) /\ Fits(g)
  BY <1>3, <1>8 DEF Emptied
<1>10. StoreInv(g) /\ StoreStep(f, g)
  BY <1>3, <1>6, <1>8, <1>9, KeptStep
<1>11. r.fds \in FdTable
  BY <1>2, <1>5, <1>8, <1>9, <1>10, OpenedType DEF StoreInv
<1>12. StackInv(stack') /\ Len(stack') = Len(stack)
  <2> DEFINE t == r.fds
  <2>1. t \in FdTable /\ stack' = [stack EXCEPT ![Len(stack)] = t]
    BY <1>4, <1>11
  <2> HIDE DEF t
  <2> QED BY <1>5, <2>1, TopSet
<1> QED BY <1>4, <1>10, <1>12 DEF f

\* The descriptor d of the program on top.
LEMMA FdOnTop ==
  ASSUME StackInv(stack), Running, NEW d, fd_lookup(Top, d)
  PROVE  /\ d \in Fds /\ Top[d] \in Fd /\ stack # <<>> /\ Top[d].off \in 0 .. SIZE_CAP /\ Top[d].off \in Nat
         /\ stack[Len(stack)][d] = Top[d]
<1>1. Top \in FdTable /\ stack # <<>> /\ Top = stack[Len(stack)]
  BY OnTop
<1>2. d \in Fds
  BY DEF fd_lookup
<1>3. Top[d] \in Fd
  BY <1>1, <1>2 DEF FdTable
<1>4. Top[d].off \in 0 .. SIZE_CAP
  BY <1>3 DEF Fd
<1> QED BY <1>1, <1>2, <1>3, <1>4, Bounds

\* The offset moves to one that fits.
LEMMA MovedTo ==
  ASSUME StackInv(stack), stack # <<>>, NEW d \in Fds, NEW off \in 0 .. SIZE_CAP, NEW u, u = SetOffset(stack, d, off)
  PROVE  StackInv(u) /\ Len(u) = Len(stack)
<1>1. off \in 0 .. SIZE_CAP => StackInv(u) /\ Len(u) = Len(stack)
  BY TopMoved
<1> QED BY <1>1

Moved(e, got, n) == CASE e.kind = "FILE" -> IF got < 0 THEN 0 ELSE got
                      [] e.kind \in {"ZERO", "RANDOM"} -> n
                      [] e.kind \in {"TTY", "NULL"} -> 0

LEMMA MovedType ==
  ASSUME NEW e \in Fd, e.kind # "NONE", NEW got, got = -1 \/ got \in Nat, NEW n \in Nat PROVE Moved(e, got, n) \in Nat
<1>1. e.kind \in {"TTY", "NULL", "ZERO", "RANDOM", "FILE"}
  BY DEF Fd
<1>2. CASE e.kind = "FILE"
  <2>1. Moved(e, got, n) = IF got < 0 THEN 0 ELSE got
    BY <1>2 DEF Moved
  <2> QED BY <2>1
<1>3. CASE e.kind \in {"ZERO", "RANDOM"}
  <2>1. Moved(e, got, n) = n
    BY <1>3 DEF Moved
  <2> QED BY <2>1
<1>4. CASE e.kind \in {"TTY", "NULL"}
  <2>1. Moved(e, got, n) = 0
    BY <1>4 DEF Moved
  <2> QED BY <2>1
<1> QED BY <1>1, <1>2, <1>3, <1>4

LEMMA ReadStep ==
  ASSUME StoreInv(fs), StackInv(stack), FdRead PROVE StackInv(stack') /\ Len(stack') = Len(stack)
<1>1. PICK d \in FdArgs, n \in ReadSizes :
         /\ Running /\ fd_lookup(Top, d)
         /\ Top[d].off + Moved(Top[d], fd_file_read_len(fs, Top[d], n), n) <= SIZE_CAP
         /\ stack' = [stack EXCEPT ![Len(stack)][d].off = @ + Moved(Top[d], fd_file_read_len(fs, Top[d], n), n)]
  BY DEF FdRead, Moved
<1> DEFINE e == Top[d]
           got == fd_file_read_len(fs, e, n)
           moved == Moved(e, got, n)
           off == e.off + moved
<1>2. n \in Nat
  BY DescriptorsAssumption
<1>3. d \in Fds /\ e \in Fd /\ stack # <<>> /\ e.off \in Nat /\ stack[Len(stack)][d] = e
  BY <1>1, FdOnTop
<1>4. e.kind # "NONE"
  BY <1>1 DEF fd_lookup
<1>5. off <= SIZE_CAP
  BY <1>1
<1>6. stack' = SetOffset(stack, d, off)
  BY <1>1, <1>3 DEF SetOffset
<1> HIDE DEF e
<1>7. got = -1 \/ got \in Nat
  BY <1>2, <1>3, ReadLength DEF StoreInv
<1> HIDE DEF got
<1>8. moved \in Nat
  BY <1>2, <1>3, <1>4, <1>7, MovedType
<1> HIDE DEF moved
<1>9. off \in 0 .. SIZE_CAP
  BY <1>3, <1>5, <1>8, Bounds
<1> HIDE DEF off
<1> QED BY <1>3, <1>6, <1>9, MovedTo

LEMMA FdWriteStep ==
  ASSUME StoreInv(fs), StackInv(stack), FdWrite
  PROVE  StoreInv(fs') /\ StoreStep(fs, fs') /\ StackInv(stack') /\ Len(stack') = Len(stack)
<1>1. PICK d \in FdArgs, b \in Payloads :
         /\ Running /\ fd_lookup(Top, d)
         /\ IF Top[d].kind = "FILE"
            THEN \E r \in {fd_file_write(fs, Top[d], b)} :
                    fs' = r.fs /\ Fits(fs') /\ stack' = [stack EXCEPT ![Len(stack)][d].off = r.off]
            ELSE /\ fs' = fs
                 /\ stack' = [stack EXCEPT ![Len(stack)][d].off = IF Top[d].kind = "TTY" THEN @ ELSE @ + Len(b)]
         /\ stack'[Len(stack)][d].off <= SIZE_CAP
  BY DEF FdWrite
<1> DEFINE e == Top[d]
<1>2. b \in Bytes /\ Len(b) \in Nat
  BY DescriptorsAssumption DEF Bytes
<1>3. d \in Fds /\ e \in Fd /\ stack # <<>> /\ e.off \in Nat /\ stack[Len(stack)][d] = e
  BY <1>1, FdOnTop
<1> HIDE DEF e
<1>4. ASSUME NEW off \in Nat, stack' = SetOffset(stack, d, off) PROVE StackInv(stack') /\ Len(stack') = Len(stack)
  <2> DEFINE u == SetOffset(stack, d, off)
  <2>1. u[Len(stack)][d].off = off
    BY <1>3, TopMoved
  <2>2. u[Len(stack)][d].off <= SIZE_CAP
    BY <1>1, <1>4
  <2> HIDE DEF u
  <2>3. off \in 0 .. SIZE_CAP
    BY <2>1, <2>2, Bounds
  <2> QED BY <1>3, <1>4, <2>3, MovedTo
<1>5. CASE e.kind # "FILE"
  <2> DEFINE off == IF e.kind = "TTY" THEN e.off ELSE e.off + Len(b)
  <2>1. off \in Nat
    BY <1>2, <1>3
  <2>2. fs' = fs /\ stack' = SetOffset(stack, d, off)
    BY <1>1, <1>3, <1>5 DEF SetOffset, e
  <2> HIDE DEF off
  <2>3. StackInv(stack') /\ Len(stack') = Len(stack)
    BY <1>4, <2>1, <2>2
  <2> QED BY <2>2, <2>3 DEF StoreStep
<1>6. CASE e.kind = "FILE"
  <2> DEFINE r == fd_file_write(fs, e, b)
             p == normalize_external_path(e.path)
             f == fs
             g == r.fs
  <2>1. fs' = g /\ Fits(g) /\ stack' = SetOffset(stack, d, r.off)
    <3>1. \E s \in {fd_file_write(fs, e, b)} :
                    fs' = s.fs /\ Fits(fs') /\ stack' = [stack EXCEPT ![Len(stack)][d].off = s.off]
      BY <1>1, <1>6 DEF e
    <3> QED BY <3>1 DEF SetOffset
  <2>2. e.path \in Paths
    BY <1>3, <1>6 DEF Fd
  <2>3. Refused(p) \/ p \in Tidy
    BY <2>2, PathIn
  <2>4. FsOK(f, {}) /\ StoreInv(f)
    BY DEF StoreInv
  <2>5. \E s : /\ Wrote(f, {}, p, NewContents(f, e, b), s) /\ g = s.fs
               /\ r.off = IF s.ok THEN e.off + Len(b) ELSE e.off
    <3> DEFINE q == p
               v == r
    <3>1. q = normalize_external_path(e.path) /\ v = fd_file_write(f, e, b)
      OBVIOUS
    <3> HIDE DEF q, v, p, r, f, g
    <3>2. \E s : /\ Wrote(f, {}, q, NewContents(f, e, b), s) /\ v.fs = s.fs /\ (v.ok <=> s.ok)
                 /\ v.off = IF s.ok THEN e.off + Len(b) ELSE e.off
      BY <1>2, <1>3, <2>2, <2>4, <3>1, FileWrite
    <3> QED BY <3>2 DEF q, v, g
  <2> DEFINE off == r.off
  <2> HIDE DEF r, p, f, g
  <2>6. PICK s : /\ Wrote(f, {}, p, NewContents(f, e, b), s) /\ g = s.fs
                 /\ r.off = IF s.ok THEN e.off + Len(b) ELSE e.off
    BY <2>5
  <2>7. off \in Nat
    BY <1>2, <1>3, <2>6
  <2>8. stack' = SetOffset(stack, d, off)
    BY <2>1
  <2> HIDE DEF off
  <2>9. StackInv(stack') /\ Len(stack') = Len(stack)
    BY <1>4, <2>7, <2>8
  <2>10. Kept(f, p, s)
    <3> DEFINE z == [fs |-> f, ok |-> TRUE]
    <3>1. Kept(f, p, z) /\ z.fs = f
      BY <2>4, KeptNot
    <3> HIDE DEF z
    <3>2. Wrote(z.fs, {}, p, NewContents(f, e, b), s)
      BY <2>6, <3>1
    <3> QED BY <3>1, <3>2, KeptOn
  <2>11. StoreInv(g) /\ StoreStep(f, g)
    BY <2>1, <2>3, <2>4, <2>6, <2>10, KeptStep
  <2> QED BY <2>1, <2>9, <2>11 DEF f
<1> QED BY <1>5, <1>6

LEMMA CloseStep == ASSUME StackInv(stack), FdClose PROVE StackInv(stack') /\ Len(stack') = Len(stack)
<1>1. PICK d \in Closable : Running /\ fd_lookup(Top, d) /\ stack' = SetTopFd(stack, d, NoFd)
  BY DEF FdClose, SetTopFd
<1>2. d \in Fds /\ stack # <<>>
  BY <1>1, FdOnTop
<1> QED BY <1>1, <1>2, NoFdType, TopFd

LEMMA DupStep == ASSUME StackInv(stack), FdDup PROVE StackInv(stack') /\ Len(stack') = Len(stack)
<1>1. PICK d \in FdArgs : /\ Running /\ fd_lookup(Top, d) /\ fd_find_free(Top) >= 0
                          /\ stack' = SetTopFd(stack, fd_find_free(Top), Top[d])
  BY DEF FdDup, SetTopFd
<1> DEFINE e == Top[d]
           c == fd_find_free(Top)
<1>2. e \in Fd /\ stack # <<>>
  BY <1>1, FdOnTop
<1>3. c \in Fds
  BY <1>1, Free
<1>4. stack' = SetTopFd(stack, c, e)
  BY <1>1
<1> HIDE DEF c, e
<1> QED BY <1>2, <1>3, <1>4, TopFd

LEMMA ExecStep == ASSUME StackInv(stack), ExecIo PROVE StackInv(stack') /\ Len(stack) <= Len(stack')
<1>1. PICK io \in Stdio :
         /\ Len(stack) < DEPTH
         /\ stack' = stack \o fd_apply_stdio_overrides(IF Running THEN Top ELSE fd_init_defaults, io[1], io[2], io[3])
  BY DEF ExecIo
<1> DEFINE parent == IF Running THEN Top ELSE fd_init_defaults
           fds == fd_apply_stdio_overrides(parent, io[1], io[2], io[3])
<1>2. parent \in FdTable
  BY OnTop, Defaults
<1>3. stack' = stack \o fds
  BY <1>1
<1> HIDE DEF parent
<1>4. fds \in Seq(FdTable) /\ Len(fds) <= 1
  BY <1>2, Overrides
<1> HIDE DEF fds
<1>5. stack \in Seq(FdTable) /\ Len(stack) \in Nat /\ Len(fds) \in Nat
  BY <1>4 DEF StackInv
<1>6. stack' \in Seq(FdTable) /\ Len(stack') = Len(stack) + Len(fds)
  BY <1>3, <1>4, <1>5
<1>7. Len(stack') <= DEPTH /\ Len(stack) <= Len(stack')
  BY <1>1, <1>4, <1>5, <1>6, Bounds
<1> QED BY <1>6, <1>7 DEF StackInv

LEMMA LibsUp ==
  ASSUME NEW l, NEW m \in Nat, NEW n \in Nat, m <= n, LibsInv(l, m) PROVE LibsInv(l, n)
<1>1. \A k \in DynSlots : l[k].owner \in Nat
  BY DEF LibsInv, Lib
<1> QED BY <1>1 DEF LibsInv

LEMMA DlOpenStep ==
  ASSUME StoreInv(fs), StackInv(stack), LibsInv(dyn, Len(stack)), DlOpen PROVE LibsInv(dyn', Len(stack))
<1>1. PICK x \in Libs :
        LET p == copy_user_string(x)
            free == {s \in DynSlots : dyn[s] = NoLib}
            image == read_all(fs, p)
            bytes == BytesIn(fs, image)
        IN  dyn' = dyn \/ (free # {} /\ dyn' = [dyn EXCEPT ![Min(free)] = [owner |-> CurrentPid, path |-> p, image |-> image, bytes |-> bytes]])
  BY DEF DlOpen
<1> DEFINE p == copy_user_string(x)
           free == {s \in DynSlots : dyn[s] = NoLib}
           slot == Min(free)
           image == read_all(fs, p)
           bytes == BytesIn(fs, image)
           lib == [owner |-> CurrentPid, path |-> p, image |-> image, bytes |-> bytes]
<1>2. dyn' = dyn \/ (free # {} /\ dyn' = [dyn EXCEPT ![slot] = lib])
  BY <1>1
<1>3. p \in Paths
  BY PathArgs
<1>4. image \in Int /\ bytes \in Bytes /\ (image \in DOMAIN Ram => bytes = Ram[image])
  BY ReadAll DEF StoreInv
<1>5. free # {} => slot \in DynSlots
  BY LeastOf, Bounds
<1>6. Len(stack) \in Nat
  BY DEF StackInv
<1> HIDE DEF image, bytes, p, slot, free
<1>7. lib \in Lib /\ lib.owner <= Len(stack)
  BY <1>3, <1>4, <1>6 DEF Lib, CurrentPid
<1> HIDE DEF lib
<1> QED BY <1>2, <1>5, <1>7 DEF LibsInv

LEMMA DlCloseStep ==
  ASSUME StackInv(stack), LibsInv(dyn, Len(stack)), DlClose PROVE LibsInv(dyn', Len(stack))
<1>1. PICK s \in DynSlots : dyn' = [dyn EXCEPT ![s] = NoLib]
  BY DEF DlClose
<1>2. Len(stack) \in Nat
  BY DEF StackInv
<1>3. NoLib \in Lib /\ NoLib.owner <= Len(stack)
  BY <1>2, NoLibType
<1> QED BY <1>1, <1>3 DEF LibsInv

LEMMA ReturnStep ==
  ASSUME StackInv(stack), LibsInv(dyn, Len(stack)), Return PROVE StackInv(stack') /\ LibsInv(dyn', Len(stack'))
<1> DEFINE n == Len(stack)
<1>1. n \in Nat \ {0} /\ stack \in Seq(FdTable) /\ n <= DEPTH
  BY TopType DEF StackInv, Running, Return
<1>2. stack' = SubSeq(stack, 1, n - 1)
  BY DEF Return
<1>3. stack' \in Seq(FdTable) /\ Len(stack') = n - 1
  <2> DEFINE k == n - 1
             u == SubSeq(stack, 1, k)
  <2>1. k \in 0 .. Len(stack) /\ stack \in Seq(FdTable) /\ stack' = u
    BY <1>1, <1>2
  <2> HIDE DEF k
  <2>2. u \in Seq(FdTable) /\ Len(u) = k
    BY <2>1, Cut
  <2> QED BY <2>1, <2>2 DEF k
<1>4. StackInv(stack')
  BY <1>1, <1>3, Bounds DEF StackInv
<1>5. dyn' = [s \in DynSlots |-> IF dyn[s].owner = n THEN NoLib ELSE dyn[s]]
  BY DEF Return, CurrentPid
<1> HIDE DEF n
<1>6. ASSUME NEW s \in DynSlots PROVE dyn'[s] \in Lib /\ dyn'[s].owner <= n - 1
  <2>1. dyn[s] \in Lib /\ dyn[s].owner \in Nat /\ dyn[s].owner <= n
    BY DEF LibsInv, Lib, n
  <2>2. CASE dyn[s].owner = n
    BY <1>1, <1>5, <2>2, NoLibType
  <2>3. CASE dyn[s].owner # n
    <3>1. dyn'[s] = dyn[s]
      BY <1>5, <2>3
    <3> QED BY <1>1, <2>1, <2>3, <3>1
  <2> QED BY <2>2, <2>3
<1>7. LibsInv(dyn', n - 1)
  BY <1>5, <1>6 DEF LibsInv
<1> QED BY <1>3, <1>4, <1>7

LEMMA InitInv == Init => IInv
<1> SUFFICES ASSUME Init PROVE IInv
  OBVIOUS
<1>1. PICK image \in Images : fs = fs_init(image)
  BY DEF Init
<1>2. StoreInv(fs)
  BY <1>1, FsInit DEF StoreInv
<1>3. StackInv(stack) /\ Len(stack) = 0
  BY Bounds DEF Init, StackInv
<1>4. LibsInv(dyn, 0)
  BY NoLibType DEF Init, LibsInv
<1> QED BY <1>2, <1>3, <1>4 DEF IInv

LEMMA StepInv ==
  ASSUME IInv, [Next]_vars PROVE IInv' /\ StoreStep(fs, fs')
<1>1. /\ StoreInv(fs) /\ StackInv(stack) /\ LibsInv(dyn, Len(stack)) /\ Len(stack) \in Nat
  BY DEF IInv, StackInv
<1>2. fs' = fs => StoreInv(fs') /\ StoreStep(fs, fs')
  BY <1>1 DEF StoreStep
<1>3. CASE UNCHANGED vars
  BY <1>1, <1>2, <1>3 DEF IInv, vars
<1>4. CASE FsMkdir
  <2>1. stack' = stack /\ dyn' = dyn
    BY <1>4 DEF FsMkdir
  <2> QED BY <1>1, <1>4, <2>1, MkdirStep DEF IInv
<1>5. CASE FsWrite
  <2>1. stack' = stack /\ dyn' = dyn
    BY <1>5 DEF FsWrite
  <2> QED BY <1>1, <1>5, <2>1, WriteStep DEF IInv
<1>6. CASE FsRemove
  <2>1. stack' = stack /\ dyn' = dyn
    BY <1>6 DEF FsRemove
  <2> QED BY <1>1, <1>6, <2>1, RemoveStep DEF IInv
<1>7. CASE FdOpen
  <2>1. dyn' = dyn
    BY <1>7 DEF FdOpen
  <2> QED BY <1>1, <1>7, <2>1, OpenStep DEF IInv
<1>8. CASE FdRead
  <2>1. dyn' = dyn /\ fs' = fs
    BY <1>8 DEF FdRead
  <2> QED BY <1>1, <1>2, <1>8, <2>1, ReadStep DEF IInv
<1>9. CASE FdWrite
  <2>1. dyn' = dyn
    BY <1>9 DEF FdWrite
  <2> QED BY <1>1, <1>9, <2>1, FdWriteStep DEF IInv
<1>10. CASE FdClose
  <2>1. dyn' = dyn /\ fs' = fs
    BY <1>10 DEF FdClose
  <2> QED BY <1>1, <1>2, <1>10, <2>1, CloseStep DEF IInv
<1>11. CASE FdDup
  <2>1. dyn' = dyn /\ fs' = fs
    BY <1>11 DEF FdDup
  <2> QED BY <1>1, <1>2, <1>11, <2>1, DupStep DEF IInv
<1>12. CASE ExecIo
  <2>1. dyn' = dyn /\ fs' = fs
    BY <1>12 DEF ExecIo
  <2>2. StackInv(stack') /\ Len(stack) <= Len(stack')
    BY <1>1, <1>12, ExecStep
  <2>3. Len(stack') \in Nat
    BY <2>2 DEF StackInv
  <2>4. LibsInv(dyn', Len(stack'))
    BY <1>1, <2>1, <2>2, <2>3, LibsUp
  <2> QED BY <1>2, <2>1, <2>2, <2>4 DEF IInv
<1>13. CASE DlOpen
  <2>1. stack' = stack /\ fs' = fs
    BY <1>13 DEF DlOpen
  <2> QED BY <1>1, <1>2, <1>13, <2>1, DlOpenStep DEF IInv
<1>14. CASE DlClose
  <2>1. stack' = stack /\ fs' = fs
    BY <1>14 DEF DlClose
  <2> QED BY <1>1, <1>2, <1>14, <2>1, DlCloseStep DEF IInv
<1>15. CASE Return
  <2>1. fs' = fs
    BY <1>15 DEF Return
  <2> QED BY <1>1, <1>2, <1>15, <2>1, ReturnStep DEF IInv
<1> QED BY <1>3, <1>4, <1>5, <1>6, <1>7, <1>8, <1>9, <1>10, <1>11, <1>12, <1>13, <1>14, <1>15 DEF Next

-----------------------------------------------------------------------------
(* What the invariant says. *)

LEMMA UsedIs == ASSUME IInv PROVE UsedNodes(fs) = {i \in NodeIds : fs.nodes[i].used} /\ Table(fs) /\ fs \in FsRec
BY Used DEF IInv, StoreInv, FsOK, Table

LEMMA TypeInv == ASSUME IInv PROVE FilesTypeOK
<1>1. Table(fs) /\ Heap(fs, {}) /\ Fits(fs) /\ fs \in FsRec
  BY DEF IInv, StoreInv, FsOK, Table
<1>2. fs.count \in 0 .. MAX_NODES /\ DOMAIN fs.mem = Buffers /\ fs.count \in Nat
  BY <1>1, FsFields
<1>3. ASSUME NEW i \in NodeIds
      PROVE  /\ fs.nodes[i].used \in BOOLEAN /\ fs.nodes[i].type \in {"FILE", "DIR"} /\ fs.nodes[i].parent \in NodeIds
             /\ fs.nodes[i].heap \in BOOLEAN
             /\ i >= fs.count => fs.nodes[i] = FreeNode
             /\ fs.nodes[i].used /\ fs.nodes[i].type = "FILE" => fs.nodes[i].size <= SIZE_CAP
             /\ fs.nodes[i].size > 0 => fs.nodes[i].data \in DOMAIN fs.mem
  <2>1. /\ fs.nodes[i].used \in BOOLEAN /\ fs.nodes[i].type \in {"FILE", "DIR"} /\ fs.nodes[i].parent \in NodeIds
        /\ fs.nodes[i].heap \in BOOLEAN /\ fs.nodes[i].size \in Nat
    BY <1>1, NodeFields
  <2>2. i >= fs.count => fs.nodes[i] = FreeNode
    <3>1. i \in Nat
      BY Sizes
    <3>2. fs.nodes[i].used => i < fs.count
      BY <1>1 DEF Table
    <3>3. ~fs.nodes[i].used => fs.nodes[i] = FreeNode
      BY <1>1 DEF Table
    <3> QED BY <1>2, <3>1, <3>2, <3>3
  <2>3. fs.nodes[i].used => fs.nodes[i].size <= SIZE_CAP
    BY <1>1, FitsAs
  <2>4. fs.nodes[i].size > 0 => fs.nodes[i].data \in Buffers
    BY <1>1, Holds
  <2> QED BY <1>2, <2>1, <2>2, <2>3, <2>4
<1>4. Len(stack) <= DEPTH /\ Len(stack) \in Nat /\ stack \in Seq(FdTable)
  BY DEF IInv, StackInv
<1>5. \A k \in DOMAIN stack, d \in Fds : stack[k][d].off \in 0 .. SIZE_CAP
  <2>1. ASSUME NEW k \in DOMAIN stack, NEW d \in Fds PROVE stack[k][d].off \in 0 .. SIZE_CAP
    <3>1. stack[k] \in FdTable
      BY <1>4
    <3>2. stack[k][d] \in Fd
      BY <3>1 DEF FdTable
    <3> QED BY <3>2 DEF Fd
  <2> QED BY <2>1
<1>6. \A s \in DynSlots : dyn[s].owner \in 0 .. Len(stack)
  <2>1. \A s \in DynSlots : dyn[s].owner \in Nat /\ dyn[s].owner <= Len(stack)
    BY DEF IInv, LibsInv, Lib
  <2> QED BY <1>4, <2>1
<1> QED BY <1>2, <1>3, <1>4, <1>5, <1>6 DEF FilesTypeOK

LEMMA LinksInv == ASSUME IInv PROVE LinksMatchPaths
<1>1. UsedNodes(fs) = {i \in NodeIds : fs.nodes[i].used} /\ Table(fs)
  BY UsedIs
<1>2. \A i, j \in UsedNodes(fs) : Path(i) = Path(j) => i = j
  BY <1>1 DEF Table, Path
<1>3. ASSUME NEW i \in UsedNodes(fs), i # 0
      PROVE  LET p == fs.nodes[fs.nodes[i].parent]
             IN  Path(i) # <<>> /\ p.used /\ p.type = "DIR" /\ p.path = split_parent(Path(i))
  <2>1. i \in NodeIds /\ fs.nodes[i].used
    BY <1>1, <1>3
  <2>2. fs.nodes[0].used /\ fs.nodes[0].path = <<>> /\ 0 \in NodeIds
    BY <1>1, Sizes DEF Table
  <2>3. fs.nodes[i].path # <<>>
    BY <1>1, <1>3, <2>1, <2>2 DEF Table
  <2>4. Linked(fs, i)
    BY <1>1, <2>1 DEF Table
  <2> QED BY <2>3, <2>4 DEF Linked, Path
<1> QED BY <1>2, <1>3 DEF LinksMatchPaths

LEMMA OwnersInv == ASSUME IInv PROVE BuffersOwned
<1> DEFINE owners(b) == {i \in UsedNodes(fs) : fs.nodes[i].heap /\ fs.nodes[i].data = b}
<1>1. UsedNodes(fs) = {i \in NodeIds : fs.nodes[i].used} /\ Heap(fs, {}) /\ fs \in FsRec
  BY UsedIs DEF IInv, StoreInv, FsOK
<1>2. ASSUME NEW b \in HeapBufs PROVE Cardinality(owners(b)) = IF fs.mem[b] = Freed THEN 0 ELSE 1
  <2>1. CASE fs.mem[b] = Freed
    <3>1. \A i \in NodeIds : fs.nodes[i].heap => fs.mem[fs.nodes[i].data] # Freed
      BY <1>1 DEF Heap, Content
    <3>2. owners(b) = {}
      BY <1>1, <2>1, <3>1
    <3> QED BY <2>1, <3>2, FS_EmptySet
  <2>2. CASE fs.mem[b] # Freed
    <3>1. PICK i \in NodeIds : fs.nodes[i].heap /\ fs.nodes[i].data = b
      BY <1>1, <2>2 DEF Heap
    <3>2. fs.nodes[i].used
      BY <1>1, <3>1 DEF Heap
    <3>3. \A j \in NodeIds : fs.nodes[j].heap /\ fs.nodes[j].data = b => j = i
      BY <1>1, <3>1 DEF Heap
    <3>4. owners(b) = {i}
      BY <1>1, <3>1, <3>2, <3>3
    <3> HIDE DEF owners
    <3>5. Cardinality(owners(b)) = 1
      BY <3>4, FS_Singleton
    <3> QED BY <2>2, <3>5
  <2> QED BY <2>1, <2>2
<1>3. ASSUME NEW i \in UsedNodes(fs), fs.nodes[i].size > 0
      PROVE  fs.mem[fs.nodes[i].data] # Freed /\ Len(fs.mem[fs.nodes[i].data]) = fs.nodes[i].size
  <2>1. i \in NodeIds
    BY <1>1
  <2>2. /\ FileBytes(fs, i) \in Bytes /\ Len(FileBytes(fs, i)) = fs.nodes[i].size
        /\ FileBytes(fs, i) = fs.mem[fs.nodes[i].data]
    BY <1>1, <1>3, <2>1, Holds
  <2> QED BY <2>2, FreedIsNoFile
<1> QED BY <1>2, <1>3 DEF BuffersOwned

LEMMA LayoutInv == ASSUME IInv PROVE LayoutStays
<1>1. Required(fs) /\ Table(fs)
  BY DEF IInv, StoreInv, FsOK
<1>2. ASSUME fs.ready, NEW d \in RequiredDirs PROVE find_node(fs, d) >= 0 /\ fs.nodes[find_node(fs, d)].type = "DIR"
  <2>1. PICK i \in NodeIds : fs.nodes[i].used /\ fs.nodes[i].path = d /\ fs.nodes[i].type = "DIR"
    BY <1>1, <1>2 DEF Required
  <2>2. find_node(fs, d) = i
    BY <1>1, <2>1, FoundAt
  <2>3. i \in Nat
    BY Sizes
  <2> QED BY <2>1, <2>2, <2>3
<1> QED BY <1>2 DEF LayoutStays

LEMMA ImageInv == ASSUME IInv PROVE LibraryImageStays
<1>1. \A b \in DOMAIN Ram : fs.mem[b] = Ram[b]
  BY DEF IInv, StoreInv, FsOK, Heap
<1>2. \A s \in DynSlots : dyn[s].image \in DOMAIN Ram => dyn[s].bytes = Ram[dyn[s].image]
  BY DEF IInv, LibsInv, Lib
<1> QED BY <1>1, <1>2 DEF LibraryImageStays

-----------------------------------------------------------------------------
(* A write changes the bytes it covers. *)

LEMMA PatchedEnd ==
  ASSUME NEW old \in Bytes, NEW bytes \in Bytes, NEW new, new = old \o bytes PROVE Patched(old, Len(old), bytes, new)
<1> DEFINE n == Len(old)
           m == Len(bytes)
<1>1. n \in Nat /\ m \in Nat /\ new \in Bytes /\ Len(new) = n + m
  BY Joined DEF Bytes
<1>2. \A k \in 1 .. n + m : new[k] = IF k <= n THEN old[k] ELSE bytes[k - n]
  BY DEF Bytes
<1> HIDE DEF n, m
<1>3. Max({n, n + m}) = n + m
  <2> DEFINE c == n + m
  <2>1. c \in Nat /\ c >= n
    BY <1>1
  <2> HIDE DEF c
  <2>2. Max({n, c}) = IF n >= c THEN n ELSE c
    BY <1>1, <2>1, MaxOfTwo
  <2>3. Max({n, c}) = c
    BY <1>1, <2>1, <2>2
  <2> QED BY <2>3 DEF c
<1>4. \A k \in 1 .. Len(new) : new[k] = IF k > n /\ k <= n + m THEN bytes[k - n] ELSE IF k <= n THEN old[k] ELSE 0
  BY <1>1, <1>2
<1>5. Len(new) >= n /\ Len(new) >= n + m
  BY <1>1
<1> QED BY <1>1, <1>3, <1>4, <1>5 DEF Patched, n, m

LEMMA Middle ==
  ASSUME NEW new \in Bytes, NEW at \in Nat, NEW bytes \in Bytes, at + Len(bytes) <= Len(new),
         \A k \in 1 .. Len(bytes) : new[at + k] = bytes[k]
  PROVE  SubSeq(new, at + 1, at + Len(bytes)) = bytes
<1> DEFINE m == Len(bytes)
           s == SubSeq(new, at + 1, at + m)
<1>1. m \in Nat /\ Len(new) \in Nat /\ bytes \in Seq(0 .. 255) /\ new \in Seq(0 .. 255)
  BY DEF Bytes
<1>2. \A k \in 1 .. m : at + k \in 1 .. Len(new) /\ new[at + k] = bytes[k]
  BY <1>1
<1>3. s = [k \in 1 .. m |-> new[at + k]]
  <2>1. at + 1 + m - 1 = at + m
    BY <1>1
  <2>2. (at + m) - (at + 1) + 1 = m
    BY <1>1
  <2>3. \A k \in 1 .. m : at + 1 + k - 1 = at + k
    BY <1>1
  <2> QED BY <1>1, <2>1, <2>2, <2>3
<1>4. bytes = [k \in 1 .. m |-> bytes[k]]
  BY <1>1
<1> HIDE DEF m
<1>5. \A k \in 1 .. m : new[at + k] = bytes[k]
  BY <1>2
<1>6. s = [k \in 1 .. m |-> bytes[k]]
  BY <1>3, <1>5
<1> QED BY <1>4, <1>6 DEF m

LEMMA Patch ==
  ASSUME NEW f, FsOK(f, {}), NEW e \in Fd, e.kind = "FILE", NEW p, p = normalize_external_path(e.path), NEW bytes \in Bytes,
         NEW old, old = Contents(f, p), NEW at, at = IF e.flags.app THEN Len(old) ELSE e.off
  PROVE  Patched(old, at, bytes, NewContents(f, e, bytes))
<1>1. old \in Bytes
  BY ContentsType
<1>2. e.off \in Nat
  BY Bounds DEF Fd
<1> DEFINE new == NewContents(f, e, bytes)
<1>3. new = IF e.flags.app THEN old \o bytes ELSE overlay(old, e.off, bytes)
  BY DEF NewContents
<1> HIDE DEF new
<1>4. CASE e.flags.app
  <2>1. new = old \o bytes /\ at = Len(old)
    BY <1>3, <1>4
  <2>2. Patched(old, Len(old), bytes, new)
    BY <1>1, <2>1, PatchedEnd
  <2> QED BY <2>1, <2>2 DEF new
<1>5. CASE ~e.flags.app
  <2>1. new = overlay(old, at, bytes) /\ at = e.off /\ at \in Nat
    BY <1>2, <1>3, <1>5
  <2>2. Patched(old, at, bytes, new)
    BY <1>1, <2>1, Overlaid
  <2> QED BY <2>2 DEF new
<1> QED BY <1>4, <1>5

\* What WritesAreLocal says of one write.
LocalWrite(f, e, b) ==
    LET i == find_external(f, e.path)
        old == IF i < 0 THEN <<>> ELSE FileBytes(f, i)
        at == IF e.flags.app THEN Len(old) ELSE e.off
    IN  \A r \in {fd_file_write(f, e, b)} :
          LET j == find_external(r.fs, e.path) IN
          /\ \A k \in UsedNodes(f) \ {i} : FileBytes(r.fs, k) = FileBytes(f, k)
          /\ IF ~r.ok THEN i >= 0 => FileBytes(r.fs, i) = old
             ELSE LET new == FileBytes(r.fs, j)
                  IN  /\ Len(new) = Max({Len(old), at + Len(b)})
                      /\ SubSeq(new, at + 1, at + Len(b)) = b
                      /\ \A k \in DOMAIN new \ (at + 1 .. at + Len(b)) :
                            new[k] = IF k \in DOMAIN old THEN old[k] ELSE 0

LEMMA OneWrite ==
  ASSUME NEW f, FsOK(f, {}), NEW e \in Fd, e.kind = "FILE", NEW b \in Bytes
  PROVE  LocalWrite(f, e, b)
<1> DEFINE p == normalize_external_path(e.path)
           i == find_external(f, e.path)
           old == IF i < 0 THEN <<>> ELSE FileBytes(f, i)
           at == IF e.flags.app THEN Len(old) ELSE e.off
           r == fd_file_write(f, e, b)
           g == r.fs
           j == find_external(g, e.path)
           new == FileBytes(g, j)
<1>1. e.path \in Paths /\ e.off \in Nat
  BY Bounds DEF Fd
<1>2. UsedNodes(f) = {k \in NodeIds : f.nodes[k].used}
  BY Used DEF FsOK
<1>3. \E s : Wrote(f, {}, p, NewContents(f, e, b), s) /\ r.fs = s.fs /\ (r.ok <=> s.ok)
  <2> DEFINE q == p
             v == r
  <2>1. q = normalize_external_path(e.path) /\ v = fd_file_write(f, e, b)
    OBVIOUS
  <2> HIDE DEF q, v, p, r
  <2>2. \E s : /\ Wrote(f, {}, q, NewContents(f, e, b), s) /\ v.fs = s.fs /\ (v.ok <=> s.ok)
               /\ v.off = IF s.ok THEN e.off + Len(b) ELSE e.off
    BY <1>1, <2>1, FileWrite
  <2> QED BY <2>2 DEF q, v
<1>4. i = IF Refused(p) THEN -1 ELSE find_node(f, p)
  BY DEF find_external, Refused
<1>5. j = IF Refused(p) THEN -1 ELSE find_node(g, p)
  BY DEF find_external, Refused
<1>6. p = normalize_external_path(e.path)
  OBVIOUS
<1> HIDE DEF p, i, r, j
<1>7. PICK s : Wrote(f, {}, p, NewContents(f, e, b), s) /\ g = s.fs /\ (r.ok <=> s.ok)
  BY <1>3
<1> HIDE DEF g
<1>8. /\ Stored(f, g, p) /\ (g # f \/ r.ok => Writable(f, p)) /\ (r.ok => Holding(g, p, NewContents(f, e, b)))
      /\ (~r.ok => Sprouted(f, g, split_parent(p)))
  <2>1. /\ Stored(f, s.fs, p) /\ (s.fs # f \/ s.ok => Writable(f, p)) /\ (s.ok => Holding(s.fs, p, NewContents(f, e, b)))
        /\ (~s.ok => Sprouted(f, s.fs, split_parent(p)))
    BY <1>7 DEF Wrote
  <2> QED BY <1>7, <2>1
<1>9. Refused(p) => ~r.ok /\ g = f
  BY <1>8, NotRefused DEF Writable
<1>10. i = -1 \/ (i \in NodeIds /\ f.nodes[i].used /\ f.nodes[i].path = p /\ i >= 0)
  BY <1>4, Found DEF FsOK
<1>11. ASSUME NEW k \in UsedNodes(f) \ {i} PROVE FileBytes(g, k) = FileBytes(f, k)
  <2>1. k \in NodeIds /\ f.nodes[k].used /\ k # i
    BY <1>2
  <2>2. CASE Refused(p)
    BY <1>9, <2>2
  <2>3. CASE ~Refused(p)
    <3>1. f.nodes[k].path # p
      BY <1>4, <2>1, <2>3, FoundAt DEF FsOK
    <3>2. Stays(f, g, k)
      BY <1>8, <2>1, <3>1 DEF Stored
    <3> QED BY <3>2 DEF Stays
  <2> QED BY <2>2, <2>3
<1>12. ASSUME ~r.ok, i >= 0 PROVE FileBytes(g, i) = old
  <2>1. i \in NodeIds /\ f.nodes[i].used /\ old = FileBytes(f, i)
    <3>1. i # -1
      BY <1>12
    <3>2. i \in NodeIds /\ f.nodes[i].used /\ i \in Nat
      BY <1>10, <3>1, Sizes
    <3>3. ~(i < 0)
      BY <3>2
    <3> QED BY <3>2, <3>3
  <2>2. Stays(f, g, i)
    BY <1>8, <1>12, <2>1 DEF Sprouted, Unharmed
  <2> QED BY <2>1, <2>2 DEF Stays
<1>13. ASSUME r.ok
       PROVE  /\ Len(new) = Max({Len(old), at + Len(b)})
              /\ SubSeq(new, at + 1, at + Len(b)) = b
              /\ \A k \in DOMAIN new \ (at + 1 .. at + Len(b)) : new[k] = IF k \in DOMAIN old THEN old[k] ELSE 0
  <2>1. ~Refused(p)
    BY <1>9, <1>13
  <2>2. old = Contents(f, p)
    BY <1>4, <1>10, <2>1 DEF Contents
  <2>3. new = NewContents(f, e, b)
    BY <1>5, <1>8, <1>13, <2>1 DEF Holding
  <2>4. old \in Bytes
    BY <2>2, ContentsType
  <2>5. at = IF e.flags.app THEN Len(old) ELSE e.off
    OBVIOUS
  <2>6. at \in Nat
    BY <1>1, <2>4 DEF Bytes
  <2> HIDE DEF old, at, new
  <2>7. Patched(old, at, b, NewContents(f, e, b))
    BY <1>6, <2>2, <2>5, Patch
  <2>8. Patched(old, at, b, new)
    BY <2>3, <2>7
  <2> DEFINE n == Len(b)
             m == Len(old)
             l == Len(new)
  <2>9. n \in Nat /\ m \in Nat /\ l \in Nat /\ DOMAIN new = 1 .. l /\ DOMAIN old = 1 .. m /\ new \in Bytes
    BY <2>4, <2>8 DEF Patched, Bytes
  <2>10. /\ l = Max({m, at + n}) /\ l >= m /\ l >= at + n
         /\ \A k \in 1 .. l : new[k] = IF k > at /\ k <= at + n THEN b[k - at] ELSE IF k <= m THEN old[k] ELSE 0
    BY <2>8 DEF Patched
  <2> HIDE DEF n, m, l
  <2>11. \A k \in 1 .. n : new[at + k] = b[k]
    <3>1. ASSUME NEW k \in 1 .. n PROVE new[at + k] = b[k]
      <4> DEFINE h == at + k
      <4>1. h \in 1 .. l /\ h > at /\ h <= at + n /\ h - at = k
        BY <2>6, <2>9, <2>10
      <4> HIDE DEF h
      <4>2. new[h] = b[h - at]
        BY <2>10, <4>1
      <4> QED BY <4>1, <4>2 DEF h
    <3> QED BY <3>1
  <2>12. SubSeq(new, at + 1, at + n) = b
    BY <2>6, <2>9, <2>10, <2>11, Middle DEF n, l
  <2>13. ASSUME NEW k \in DOMAIN new \ (at + 1 .. at + n) PROVE new[k] = IF k \in DOMAIN old THEN old[k] ELSE 0
    <3>1. k \in 1 .. l /\ ~(k > at /\ k <= at + n)
      BY <2>6, <2>9, <2>13
    <3>2. new[k] = IF k <= m THEN old[k] ELSE 0
      BY <2>10, <3>1
    <3>3. k <= m <=> k \in DOMAIN old
      BY <2>9, <3>1
    <3> QED BY <3>2, <3>3
  <2> QED BY <2>10, <2>12, <2>13 DEF n, m, l
<1> HIDE DEF old, at, new
<1>14. /\ \A k \in UsedNodes(f) \ {i} : FileBytes(g, k) = FileBytes(f, k)
       /\ IF ~r.ok THEN i >= 0 => FileBytes(g, i) = old
          ELSE /\ Len(new) = Max({Len(old), at + Len(b)})
               /\ SubSeq(new, at + 1, at + Len(b)) = b
               /\ \A k \in DOMAIN new \ (at + 1 .. at + Len(b)) : new[k] = IF k \in DOMAIN old THEN old[k] ELSE 0
  BY <1>11, <1>12, <1>13
<1> QED BY <1>14 DEF LocalWrite, g, r, i, old, at, j, new

LEMMA LocalInv == ASSUME IInv PROVE WritesAreLocal
<1> SUFFICES ASSUME Running, NEW d \in FdArgs \cap Fds,
                    NEW b \in UNION {{SubSeq(p, 1, k) : k \in 1 .. Len(p)} : p \in Payloads},
                    Top[d].kind = "FILE", fd_can_write(Top[d].flags)
             PROVE  LocalWrite(fs, Top[d], b)
  BY DEF WritesAreLocal, LocalWrite
<1>1. Top[d] \in Fd
  BY OnTop DEF IInv, FdTable
<1>2. b \in Bytes
  <2>1. PICK p \in Payloads : \E k \in 1 .. Len(p) : b = SubSeq(p, 1, k)
    OBVIOUS
  <2>2. PICK k \in 1 .. Len(p) : b = SubSeq(p, 1, k)
    BY <2>1
  <2>3. p \in Seq(0 .. 255) /\ k \in 0 .. Len(p)
    BY DescriptorsAssumption
  <2>4. SubSeq(p, 1, k) \in Seq(0 .. 255)
    BY <2>3, Cut
  <2> QED BY <2>2, <2>4 DEF Bytes
<1>3. FsOK(fs, {})
  BY DEF IInv, StoreInv
<1> DEFINE e == Top[d]
<1>4. e \in Fd /\ e.kind = "FILE"
  BY <1>1
<1> HIDE DEF e
<1>5. LocalWrite(fs, e, b)
  BY <1>2, <1>3, <1>4, OneWrite
<1> QED BY <1>5 DEF e

-----------------------------------------------------------------------------
(* The nodes as a tree of names. *)

Leaf(f, i) == IF f.nodes[i].type = "DIR" THEN FM!Directory ELSE FM!File(FileBytes(f, i))

\* T is the tree that f's nodes make.
TreeIs(f, T) ==
  /\ T = [q \in DOMAIN T |-> T[q]]
  /\ \A i \in NodeIds : f.nodes[i].used => f.nodes[i].path \in DOMAIN T /\ T[f.nodes[i].path] = Leaf(f, i)
  /\ \A q \in DOMAIN T : \E i \in NodeIds : f.nodes[i].used /\ f.nodes[i].path = q /\ T[q] = Leaf(f, i)

LEMMA TreeOfIs == ASSUME NEW f, Table(f), NEW T, T = TreeOf(f) PROVE TreeIs(f, T)
<1> DEFINE used == UsedNodes(f)
           paths == {f.nodes[i].path : i \in used}
           at == [p \in paths |-> CHOOSE i \in used : f.nodes[i].path = p]
           V == [p \in paths |-> IF f.nodes[at[p]].type = "DIR" THEN FM!Directory ELSE FM!File(FileBytes(f, at[p]))]
<1>1. DOMAIN at = paths
  OBVIOUS
<1>2. T = [p \in DOMAIN at |-> IF f.nodes[at[p]].type = "DIR" THEN [dir |-> TRUE, bytes |-> <<>>]
                                ELSE [dir |-> FALSE, bytes |-> FileBytes(f, at[p])]]
  BY DEF TreeOf
<1>3. T = V
  BY <1>1, <1>2 DEF FM!Directory, FM!File
<1>4. used = {i \in NodeIds : f.nodes[i].used}
  BY Used
<1>5. ASSUME NEW i \in used PROVE at[f.nodes[i].path] = i
  <2> DEFINE c == CHOOSE k \in used : f.nodes[k].path = f.nodes[i].path
  <2>1. c \in used /\ f.nodes[c].path = f.nodes[i].path
    OBVIOUS
  <2>2. at[f.nodes[i].path] = c
    OBVIOUS
  <2> HIDE DEF c
  <2>3. c = i
    BY <1>4, <2>1 DEF Table
  <2> QED BY <2>2, <2>3
<1> HIDE DEF at
<1>6. T = [p \in paths |-> Leaf(f, at[p])]
  BY <1>3 DEF Leaf
<1>7. ASSUME NEW i \in used PROVE f.nodes[i].path \in paths /\ T[f.nodes[i].path] = Leaf(f, i)
  BY <1>5, <1>6
<1>8. ASSUME NEW q \in paths PROVE \E i \in used : f.nodes[i].path = q /\ T[q] = Leaf(f, i)
  <2>1. PICK i \in used : f.nodes[i].path = q
    OBVIOUS
  <2> QED BY <1>7, <2>1
<1>9. DOMAIN T = paths /\ T = [q \in DOMAIN T |-> T[q]]
  BY <1>6
<1> HIDE DEF paths, used
<1> QED BY <1>4, <1>7, <1>8, <1>9 DEF TreeIs

\* Two trees with the same paths, and the same at each.
LEMMA SameTree ==
  ASSUME NEW T, NEW U, T = [q \in DOMAIN T |-> T[q]], U = [q \in DOMAIN U |-> U[q]], DOMAIN T = DOMAIN U,
         \A q \in DOMAIN T : T[q] = U[q]
  PROVE  T = U
OBVIOUS

\* There is a node q, and it is a directory.
HasDir(f, q) == \E i \in NodeIds : f.nodes[i].used /\ f.nodes[i].path = q /\ f.nodes[i].type = "DIR"
HasNode(f, q) == \E i \in NodeIds : f.nodes[i].used /\ f.nodes[i].path = q

LEMMA DirAbove ==
  ASSUME NEW f, Table(f), NEW q \in Names, q # <<>>, HasNode(f, q) PROVE HasDir(f, split_parent(q))
<1>1. PICK i \in NodeIds : f.nodes[i].used /\ f.nodes[i].path = q
  BY DEF HasNode
<1>2. Linked(f, i) /\ f.nodes[i].parent \in NodeIds
  BY <1>1, NodeFields DEF Table
<1> QED BY <1>1, <1>2 DEF Linked, HasDir

LEMMA AllAbove ==
  ASSUME NEW f, Table(f), NEW q \in Names, HasNode(f, q), NEW k \in 0 .. Len(q), k < Len(q)
  PROVE  HasDir(f, SubSeq(q, 1, k))
<1> DEFINE n == Len(q)
           G == {m \in 0 .. n : m > 0 => HasDir(f, SubSeq(q, 1, n - m))}
<1>1. n \in Nat
  BY DEF Names
<1>2. 0 \in G
  BY <1>1
<1>3. ASSUME NEW m \in 1 .. n, m - 1 \in G PROVE m \in G
  <2> DEFINE j == n - m + 1
             r == SubSeq(q, 1, j)
  <2>1. j \in 1 .. Len(q) /\ j - 1 = n - m /\ n - (m - 1) = j /\ (m - 1 > 0 \/ j = n)
    BY <1>1
  <2>2. HasNode(f, r)
    <3>1. CASE m - 1 > 0
      <4>1. HasDir(f, SubSeq(q, 1, n - (m - 1)))
        BY <1>3, <3>1
      <4>2. HasDir(f, r)
        BY <2>1, <4>1
      <4> QED BY <4>2 DEF HasDir, HasNode
    <3>2. CASE j = n
      <4>1. r = q
        BY <3>2, CutWhole DEF Names
      <4> QED BY <4>1
    <3> QED BY <2>1, <3>1, <3>2
  <2> HIDE DEF j, n
  <2>3. r \in Names /\ r # <<>> /\ split_parent(r) = SubSeq(q, 1, j - 1)
    BY <2>1, Prefix
  <2> HIDE DEF r
  <2>4. HasDir(f, SubSeq(q, 1, j - 1))
    BY <2>2, <2>3, DirAbove
  <2> QED BY <2>1, <2>4 DEF n
<1> HIDE DEF G
<1>4. 0 .. n \subseteq G
  BY <1>1, <1>2, <1>3, UpTo
<1>5. n - k \in G /\ n - k > 0 /\ n - (n - k) = k
  BY <1>1, <1>4
<1>6. n - k > 0 => HasDir(f, SubSeq(q, 1, n - (n - k)))
  BY <1>5 DEF G
<1> QED BY <1>5, <1>6

\* The tree is closed: what FM!Init asks for.
LEMMA TreeClosed == ASSUME NEW f, Table(f), NEW T, TreeIs(f, T) PROVE FM!Closed(T)
<1>1. <<>> \in DOMAIN T /\ T[<<>>] = FM!Directory
  <2>1. 0 \in NodeIds /\ f.nodes[0].used /\ f.nodes[0].type = "DIR" /\ f.nodes[0].path = <<>>
    BY Sizes DEF Table
  <2>2. f.nodes[0].path \in DOMAIN T /\ T[f.nodes[0].path] = Leaf(f, 0)
    BY <2>1 DEF TreeIs
  <2> QED BY <2>1, <2>2 DEF Leaf
<1>2. ASSUME NEW q \in DOMAIN T, q # <<>> PROVE FM!Parent(q) \in DOMAIN T /\ T[FM!Parent(q)] = FM!Directory
  <2>1. PICK i \in NodeIds : f.nodes[i].used /\ f.nodes[i].path = q
    BY DEF TreeIs
  <2>2. q \in Names
    BY <2>1, NodeFields DEF Table
  <2>3. HasDir(f, split_parent(q))
    BY <1>2, <2>1, <2>2, DirAbove DEF HasNode
  <2>4. PICK a \in NodeIds : f.nodes[a].used /\ f.nodes[a].path = split_parent(q) /\ f.nodes[a].type = "DIR"
    BY <2>3 DEF HasDir
  <2>5. f.nodes[a].path \in DOMAIN T /\ T[f.nodes[a].path] = Leaf(f, a)
    BY <2>4 DEF TreeIs
  <2>6. FM!Parent(q) = split_parent(q)
    BY <1>2, <2>2, Above DEF FM!Parent
  <2> QED BY <2>4, <2>5, <2>6 DEF Leaf
<1> QED BY <1>1, <1>2 DEF FM!Closed

\* From f to g the node j appeared or changed, with the directories above it that
\* were missing, and nothing else did.
Grew(f, g, q, j) ==
  /\ q \in Names /\ q # <<>> /\ j \in NodeIds /\ g.nodes[j].used /\ g.nodes[j].path = q
  /\ \A i \in NodeIds : f.nodes[i].used =>
       /\ g.nodes[i].used /\ g.nodes[i].path = f.nodes[i].path /\ g.nodes[i].type = f.nodes[i].type
       /\ g.nodes[i].path # q => Leaf(g, i) = Leaf(f, i)
  /\ \A i \in NodeIds : g.nodes[i].used /\ ~f.nodes[i].used /\ g.nodes[i].path # q =>
       g.nodes[i].type = "DIR" /\ g.nodes[i].path \in FM!Prefixes(q)

LEMMA PrefixesIn ==
  ASSUME NEW g, Table(g), NEW q \in Names, HasNode(g, q), NEW r \in FM!Prefixes(q)
  PROVE  r = q \/ HasDir(g, r)
<1>1. PICK k \in 0 .. Len(q) : r = SubSeq(q, 1, k)
  BY DEF FM!Prefixes
<1>2. Len(q) \in Nat
  BY DEF Names
<1>3. CASE k = Len(q)
  <2>1. SubSeq(q, 1, Len(q)) = q
    BY CutWhole DEF Names
  <2> QED BY <1>1, <1>3, <2>1
<1>4. CASE k < Len(q)
  BY <1>1, <1>4, AllAbove
<1> QED BY <1>2, <1>3, <1>4

LEMMA GrewWith ==
  ASSUME NEW f, Table(f), NEW g, Table(g), NEW old, TreeIs(f, old), NEW new, TreeIs(g, new), NEW q, NEW j, Grew(f, g, q, j)
  PROVE  /\ new = FM!With(old, q, Leaf(g, j)) /\ q \in DOMAIN new /\ new[q] = Leaf(g, j)
         /\ \A r \in FM!Prefixes(q) : r # q /\ r \in DOMAIN old => old[r] = FM!Directory
<1>1. q \in Names /\ q # <<>> /\ j \in NodeIds /\ g.nodes[j].used /\ g.nodes[j].path = q
  BY DEF Grew
<1>2. q \in DOMAIN new /\ new[q] = Leaf(g, j)
  BY <1>1 DEF TreeIs
<1>3. \A r \in FM!Prefixes(q) : r = q \/ HasDir(g, r)
  BY <1>1, PrefixesIn DEF HasNode
<1>4. ASSUME NEW r \in FM!Prefixes(q), r # q PROVE r \in DOMAIN new /\ new[r] = FM!Directory
  <2>1. PICK i \in NodeIds : g.nodes[i].used /\ g.nodes[i].path = r /\ g.nodes[i].type = "DIR"
    BY <1>3, <1>4 DEF HasDir
  <2>2. g.nodes[i].path \in DOMAIN new /\ new[g.nodes[i].path] = Leaf(g, i)
    BY <2>1 DEF TreeIs
  <2> QED BY <2>1, <2>2 DEF Leaf
<1>5. ASSUME NEW r \in DOMAIN old PROVE r \in DOMAIN new /\ (r # q => new[r] = old[r])
  <2>1. PICK i \in NodeIds : f.nodes[i].used /\ f.nodes[i].path = r /\ old[r] = Leaf(f, i)
    BY DEF TreeIs
  <2>2. g.nodes[i].used /\ g.nodes[i].path = r /\ (r # q => Leaf(g, i) = Leaf(f, i))
    BY <2>1 DEF Grew
  <2>3. g.nodes[i].path \in DOMAIN new /\ new[g.nodes[i].path] = Leaf(g, i)
    BY <2>2 DEF TreeIs
  <2> QED BY <2>1, <2>2, <2>3
<1>6. ASSUME NEW r \in DOMAIN new, r \notin DOMAIN old, r # q PROVE r \in FM!Prefixes(q) /\ new[r] = FM!Directory
  <2>1. PICK i \in NodeIds : g.nodes[i].used /\ g.nodes[i].path = r /\ new[r] = Leaf(g, i)
    BY DEF TreeIs
  <2>2. ~f.nodes[i].used
    <3>1. f.nodes[i].used => f.nodes[i].path \in DOMAIN old /\ g.nodes[i].path = f.nodes[i].path
      BY <2>1 DEF TreeIs, Grew
    <3> QED BY <1>6, <2>1, <3>1
  <2>3. g.nodes[i].type = "DIR" /\ r \in FM!Prefixes(q)
    BY <1>6, <2>1, <2>2 DEF Grew
  <2> QED BY <2>1, <2>3 DEF Leaf
<1>7. q \in FM!Prefixes(q)
  <2>1. Len(q) \in 0 .. Len(q) /\ SubSeq(q, 1, Len(q)) = q
    BY <1>1, CutWhole DEF Names
  <2> QED BY <2>1 DEF FM!Prefixes
<1>8. DOMAIN new = DOMAIN old \cup FM!Prefixes(q)
  BY <1>2, <1>4, <1>5, <1>6, <1>7
<1> DEFINE W == FM!With(old, q, Leaf(g, j))
           value(r) == IF r = q THEN Leaf(g, j) ELSE IF r \in DOMAIN old THEN old[r] ELSE FM!Directory
<1>9. W = [r \in DOMAIN old \cup FM!Prefixes(q) |-> value(r)]
  BY DEF FM!With
<1>10. \A r \in DOMAIN new : new[r] = value(r)
  BY <1>2, <1>5, <1>6
<1> HIDE DEF value
<1>11. W = [r \in DOMAIN W |-> W[r]] /\ DOMAIN W = DOMAIN new /\ \A r \in DOMAIN new : W[r] = new[r]
  BY <1>8, <1>9, <1>10
<1> HIDE DEF W
<1>12. new = W
  BY <1>11, SameTree DEF TreeIs
<1>13. ASSUME NEW r \in FM!Prefixes(q), r # q, r \in DOMAIN old PROVE old[r] = FM!Directory
  BY <1>4, <1>5, <1>13
<1> QED BY <1>2, <1>12, <1>13 DEF W

LEMMA TempBelow ==
  ASSUME NEW p \in Names, in_temp_tree(p), NEW k \in 1 .. Len(p), SubSeq(p, 1, k) # <<"temp">>
  PROVE  FM!BelowTemp(SubSeq(p, 1, k)) /\ SubSeq(p, 1, k) # <<>>
<1> DEFINE q == SubSeq(p, 1, k)
<1>1. k \in 0 .. Len(p) /\ k \in Nat /\ k >= 1 /\ p \in Seq(STRING)
  BY DEF Names
<1>2. q \in Seq(STRING) /\ Len(q) = k /\ \A m \in 1 .. k : q[m] = p[m]
  BY <1>1, Cut
<1>3. p # <<>> /\ Head(p) = "temp"
  BY DEF in_temp_tree
<1>4. p[1] = "temp"
  BY <1>1, <1>3
<1> HIDE DEF q
<1>5. q[1] = "temp" /\ q # <<>>
  BY <1>1, <1>2, <1>4
<1>6. Head(q) = "temp"
  BY <1>2, <1>5
<1>7. k # 1
  <2>1. SUFFICES ASSUME k = 1 PROVE FALSE
    OBVIOUS
  <2> DEFINE w == q[1]
  <2>2. q = <<w>>
    BY <1>2, <2>1
  <2>3. w = "temp"
    BY <1>5
  <2> HIDE DEF w
  <2>4. q = <<"temp">>
    BY <2>2, <2>3
  <2> QED BY <2>4 DEF q
<1> QED BY <1>1, <1>2, <1>5, <1>6, <1>7 DEF FM!BelowTemp, q

LEMMA LeafStays ==
  ASSUME NEW f, NEW g, NEW i, Stays(f, g, i)
  PROVE  /\ g.nodes[i].used /\ g.nodes[i].path = f.nodes[i].path /\ g.nodes[i].type = f.nodes[i].type
         /\ Leaf(g, i) = Leaf(f, i)
BY DEF Stays, Leaf

LEMMA SameNodes ==
  ASSUME NEW f, NEW g, NEW old, TreeIs(f, old), NEW new, TreeIs(g, new), Unharmed(f, g),
         \A i \in NodeIds : g.nodes[i].used => f.nodes[i].used
  PROVE  old = new
<1>1. ASSUME NEW i \in NodeIds, f.nodes[i].used
      PROVE  f.nodes[i].path \in DOMAIN old /\ f.nodes[i].path \in DOMAIN new /\ new[f.nodes[i].path] = old[f.nodes[i].path]
  <2>1. g.nodes[i].used /\ g.nodes[i].path = f.nodes[i].path /\ Leaf(g, i) = Leaf(f, i)
    BY <1>1, LeafStays DEF Unharmed
  <2>2. f.nodes[i].path \in DOMAIN old /\ old[f.nodes[i].path] = Leaf(f, i)
    BY <1>1 DEF TreeIs
  <2>3. g.nodes[i].path \in DOMAIN new /\ new[g.nodes[i].path] = Leaf(g, i)
    BY <2>1 DEF TreeIs
  <2> QED BY <2>1, <2>2, <2>3
<1>2. ASSUME NEW q \in DOMAIN old PROVE q \in DOMAIN new /\ new[q] = old[q]
  <2>1. PICK i \in NodeIds : f.nodes[i].used /\ f.nodes[i].path = q
    BY DEF TreeIs
  <2> QED BY <1>1, <2>1
<1>3. ASSUME NEW q \in DOMAIN new PROVE q \in DOMAIN old
  <2>1. PICK i \in NodeIds : g.nodes[i].used /\ g.nodes[i].path = q
    BY DEF TreeIs
  <2>2. f.nodes[i].used /\ g.nodes[i].path = f.nodes[i].path
    BY <2>1, LeafStays DEF Unharmed
  <2> QED BY <1>1, <2>1, <2>2
<1>4. DOMAIN old = DOMAIN new
  BY <1>2, <1>3
<1> QED BY <1>2, <1>4, SameTree DEF TreeIs

\* Directories were made: one, with those above it that were missing.
LEMMA SproutTree ==
  ASSUME NEW f, Table(f), Required(f), f.ready, NEW g, Table(g), NEW p \in Names, in_temp_tree(p), Sprouted(f, g, p),
         NEW old, TreeIs(f, old), NEW new, TreeIs(g, new)
  PROVE  old = new \/ FM!Change(old, new)
<1> DEFINE N == {i \in NodeIds : g.nodes[i].used /\ ~f.nodes[i].used}
           lengths == {Len(g.nodes[i].path) : i \in N}
<1>1. Unharmed(f, g) /\ \A i \in N : g.nodes[i].type = "DIR" /\ IsAbove(g.nodes[i].path, p)
  BY DEF Sprouted
<1>2. CASE N = {}
  BY <1>1, <1>2, SameNodes
<1>3. CASE N # {}
  <2>1. Len(p) \in Nat /\ p \in Seq(STRING)
    BY DEF Names
  <2>2. \A i \in N : \E k \in 1 .. Len(p) : g.nodes[i].path = SubSeq(p, 1, k) /\ Len(g.nodes[i].path) = k
    <3>1. ASSUME NEW i \in N PROVE \E k \in 1 .. Len(p) : g.nodes[i].path = SubSeq(p, 1, k) /\ Len(g.nodes[i].path) = k
      <4>1. PICK k \in 1 .. Len(p) : g.nodes[i].path = SubSeq(p, 1, k)
        BY <1>1 DEF IsAbove
      <4>2. Len(SubSeq(p, 1, k)) = k
        BY Prefix
      <4> QED BY <4>1, <4>2
    <3> QED BY <3>1
  <2>3. lengths \in SUBSET (0 .. Len(p)) /\ lengths # {}
    <3>1. \A i \in N : Len(g.nodes[i].path) \in 0 .. Len(p)
      <4> HIDE DEF N
      <4> QED BY <2>1, <2>2
    <3> HIDE DEF N
    <3> QED BY <1>3, <3>1
  <2> HIDE DEF lengths
  <2> DEFINE k == Max(lengths)
  <2>4. k \in lengths /\ \A m \in lengths : k >= m
    BY <2>1, <2>3, GreatestOf
  <2> HIDE DEF k
  <2>5. PICK i \in N : k = Len(g.nodes[i].path)
    BY <2>4 DEF lengths
  <2> DEFINE q == g.nodes[i].path
  <2>6. k \in 1 .. Len(p) /\ q = SubSeq(p, 1, k) /\ Len(q) = k
    BY <2>2, <2>5
  <2>7. i \in NodeIds /\ g.nodes[i].used /\ ~f.nodes[i].used /\ q \in Names /\ q # <<>> /\ g.nodes[i].type = "DIR"
    <3>1. q \in Names /\ q # <<>>
      BY <2>6, Prefix
    <3> QED BY <1>1, <3>1
  <2>8. ASSUME NEW a \in NodeIds, f.nodes[a].used
        PROVE  /\ g.nodes[a].used /\ g.nodes[a].path = f.nodes[a].path /\ g.nodes[a].type = f.nodes[a].type
               /\ Leaf(g, a) = Leaf(f, a) /\ f.nodes[a].path # q
    <3>1. /\ g.nodes[a].used /\ g.nodes[a].path = f.nodes[a].path /\ g.nodes[a].type = f.nodes[a].type
          /\ Leaf(g, a) = Leaf(f, a)
      BY <1>1, <2>8, LeafStays DEF Unharmed
    <3>2. a # i
      BY <2>7, <2>8
    <3>3. g.nodes[a].path # q
      BY <2>7, <3>1, <3>2 DEF Table
    <3> QED BY <3>1, <3>3
  <2>9. ASSUME NEW a \in NodeIds, g.nodes[a].used, ~f.nodes[a].used
        PROVE  g.nodes[a].type = "DIR" /\ g.nodes[a].path \in FM!Prefixes(q)
    <3>1. a \in N
      BY <2>9
    <3>2. PICK m \in 1 .. Len(p) : g.nodes[a].path = SubSeq(p, 1, m) /\ Len(g.nodes[a].path) = m
      BY <2>2, <3>1
    <3>3. m \in lengths
      BY <3>1, <3>2 DEF lengths
    <3>4. m <= k /\ m \in 0 .. k /\ k \in 0 .. Len(p)
      BY <2>4, <2>6, <3>2, <3>3
    <3>5. SubSeq(q, 1, m) = SubSeq(p, 1, m)
      BY <2>1, <2>6, <3>4, CutTwice
    <3>6. m \in 0 .. Len(q) /\ g.nodes[a].path = SubSeq(q, 1, m)
      BY <2>6, <3>2, <3>4, <3>5
    <3> HIDE DEF q
    <3>7. g.nodes[a].path \in FM!Prefixes(q)
      BY <3>6 DEF FM!Prefixes
    <3> QED BY <1>1, <3>1, <3>7
  <2> HIDE DEF q, N
  <2>10. g.nodes[i].path = q
    BY DEF q
  <2>11. Grew(f, g, q, i)
    BY <2>7, <2>8, <2>9, <2>10 DEF Grew
  <2>12. /\ new = FM!With(old, q, Leaf(g, i)) /\ q \in DOMAIN new
         /\ \A r \in FM!Prefixes(q) : r # q /\ r \in DOMAIN old => old[r] = FM!Directory
    BY <2>11, GrewWith
  <2>13. Leaf(g, i) = FM!Directory
    BY <2>7 DEF Leaf
  <2>14. q \notin DOMAIN old
    <3>1. ASSUME q \in DOMAIN old PROVE FALSE
      <4>1. PICK a \in NodeIds : f.nodes[a].used /\ f.nodes[a].path = q
        BY <3>1 DEF TreeIs
      <4> QED BY <2>8, <4>1
    <3> QED BY <3>1
  <2>15. q # <<"temp">>
    <3> DEFINE d == <<"temp">>
    <3>1. d \in RequiredDirs
      BY DEF RequiredDirs
    <3> HIDE DEF d
    <3>2. PICK a \in NodeIds : f.nodes[a].used /\ f.nodes[a].path = d
      BY <3>1 DEF Required
    <3>3. q # d
      BY <2>8, <3>2
    <3> QED BY <3>3 DEF d
  <2>16. FM!BelowTemp(q)
    <3>1. SubSeq(p, 1, k) # <<"temp">>
      BY <2>6, <2>15
    <3>2. FM!BelowTemp(SubSeq(p, 1, k))
      BY <2>6, <3>1, TempBelow
    <3> QED BY <2>6, <3>2
  <2>17. FM!MakeDir(old, new, q)
    BY <2>12, <2>13, <2>14, <2>16 DEF FM!MakeDir
  <2>18. q \in FM!Touched(old, new)
    BY <2>12, <2>14 DEF FM!Touched
  <2> QED BY <2>17, <2>18 DEF FM!Change
<1> QED BY <1>2, <1>3

LEMMA ParentInTemp ==
  ASSUME NEW p \in Names, is_temp_file_path(p)
  PROVE  /\ split_parent(p) \in Names /\ in_temp_tree(split_parent(p)) /\ p # <<>> /\ FM!BelowTemp(p)
         /\ FM!Parent(p) = split_parent(p)
         /\ \A k \in 0 .. Len(split_parent(p)) :
              SubSeq(split_parent(p), 1, k) = SubSeq(p, 1, k) /\ k \in 0 .. Len(p) /\ SubSeq(p, 1, k) # p
<1> DEFINE n == Len(p)
           d == split_parent(p)
<1>1. p # <<>> /\ Head(p) = "temp" /\ n > 1 /\ n \in Nat /\ p \in Seq(STRING)
  BY DEF is_temp_file_path, in_temp_tree, Names
<1>2. d = SubSeq(p, 1, n - 1) /\ d \in Names /\ Len(d) = n - 1
  BY <1>1, Above
<1> HIDE DEF n
<1> DEFINE m == n - 1
<1>3. m \in 0 .. Len(p) /\ m \in Nat /\ m >= 1 /\ m < n
  BY <1>1 DEF n
<1>4. d = SubSeq(p, 1, m) /\ Len(d) = m
  BY <1>2
<1> HIDE DEF m, d
<1>5. \A k \in 1 .. m : d[k] = p[k]
  <2>1. \A k \in 1 .. m : SubSeq(p, 1, m)[k] = p[k]
    BY <1>1, <1>3, Cut
  <2> QED BY <1>4, <2>1
<1>6. d # <<>> /\ Head(d) = "temp"
  <2>1. d[1] = p[1] /\ p[1] = Head(p)
    BY <1>1, <1>3, <1>5
  <2>2. d # <<>> /\ d[1] = Head(d)
    BY <1>2, <1>3, <1>4 DEF Names
  <2> QED BY <1>1, <2>1, <2>2
<1>7. ASSUME NEW k \in 0 .. m PROVE SubSeq(d, 1, k) = SubSeq(p, 1, k) /\ k \in 0 .. Len(p) /\ SubSeq(p, 1, k) # p
  <2>1. SubSeq(d, 1, k) = SubSeq(p, 1, k)
    BY <1>1, <1>3, <1>4, CutTwice
  <2>2. k \in 0 .. Len(p) /\ k < Len(p)
    BY <1>1, <1>3 DEF n
  <2>3. Len(SubSeq(p, 1, k)) = k
    BY <1>1, <2>2, Cut
  <2> QED BY <2>1, <2>2, <2>3
<1>8. FM!BelowTemp(p)
  BY <1>1 DEF FM!BelowTemp, n
<1>9. FM!Parent(p) = d
  BY <1>2 DEF FM!Parent, n
<1> QED BY <1>1, <1>2, <1>4, <1>6, <1>7, <1>8, <1>9 DEF d, in_temp_tree

\* g has the file p.
HasFile(g, p, j) == j \in NodeIds /\ g.nodes[j].used /\ g.nodes[j].path = p /\ g.nodes[j].type = "FILE"

LEMMA NoFileSprouts ==
  ASSUME NEW f, FsOK(f, {}), NEW g, FsOK(g, {}), NEW p, Stored(f, g, p), ~\E j : HasFile(g, p, j)
  PROVE  Sprouted(f, g, split_parent(p))
<1>1. g.ready = f.ready
  BY DEF Stored
<1>2. ASSUME NEW i \in NodeIds, f.nodes[i].used PROVE Stays(f, g, i)
  <2>1. CASE f.nodes[i].path # p
    BY <1>2, <2>1 DEF Stored
  <2>2. CASE f.nodes[i].path = p
    <3>1. g.nodes[i].used /\ g.nodes[i].path = f.nodes[i].path /\ g.nodes[i].type = f.nodes[i].type
      BY <1>2 DEF Stored
    <3>2. g.nodes[i].type # "FILE" /\ g.nodes[i].type \in {"FILE", "DIR"}
      BY <2>2, <3>1, NodeFields DEF HasFile, FsOK, Table
    <3>3. g.nodes[i].size = 0 /\ f.nodes[i].size = 0
      BY <3>1, <3>2 DEF FsOK, Heap, Content
    <3>4. FileBytes(g, i) = <<>> /\ FileBytes(f, i) = <<>>
      BY <3>3 DEF FileBytes
    <3> QED BY <3>1, <3>4 DEF Stays
  <2> QED BY <2>1, <2>2
<1>3. ASSUME NEW i \in NodeIds, g.nodes[i].used, ~f.nodes[i].used
      PROVE  g.nodes[i].type = "DIR" /\ IsAbove(g.nodes[i].path, split_parent(p))
  <2>1. IF g.nodes[i].path = p THEN g.nodes[i].type = "FILE"
        ELSE g.nodes[i].type = "DIR" /\ IsAbove(g.nodes[i].path, split_parent(p))
    BY <1>3 DEF Stored
  <2>2. g.nodes[i].path # p
    BY <1>3, <2>1 DEF HasFile
  <2> QED BY <2>1, <2>2
<1> QED BY <1>1, <1>2, <1>3 DEF Sprouted, Unharmed

\* A file was written, with the directories above it that were missing.
LEMMA StoreTree ==
  ASSUME NEW f, FsOK(f, {}), Required(f), NEW g, FsOK(g, {}), NEW p \in Names, Writable(f, p), Stored(f, g, p),
         NEW old, TreeIs(f, old), NEW new, TreeIs(g, new)
  PROVE  old = new \/ FM!Change(old, new)
<1>1. Table(f) /\ Table(g) /\ f.ready /\ is_temp_file_path(p)
  BY DEF FsOK, Writable
<1> DEFINE d == split_parent(p)
<1>2. d \in Names /\ in_temp_tree(d) /\ p # <<>> /\ FM!BelowTemp(p) /\ FM!Parent(p) = d
  BY <1>1, ParentInTemp
<1>3. \A k \in 0 .. Len(d) : SubSeq(d, 1, k) = SubSeq(p, 1, k) /\ k \in 0 .. Len(p) /\ SubSeq(p, 1, k) # p
  BY <1>1, ParentInTemp
<1> HIDE DEF d
<1>4. CASE ~\E j : HasFile(g, p, j)
  <2>1. Sprouted(f, g, d)
    BY <1>4, NoFileSprouts DEF d
  <2> QED BY <1>1, <1>2, <2>1, SproutTree
<1>5. ASSUME NEW j, HasFile(g, p, j) PROVE old = new \/ FM!Change(old, new)
  <2>1. j \in NodeIds /\ g.nodes[j].used /\ g.nodes[j].path = p /\ g.nodes[j].type = "FILE"
    BY <1>5 DEF HasFile
  <2>2. ASSUME NEW i \in NodeIds, f.nodes[i].used
        PROVE  /\ g.nodes[i].used /\ g.nodes[i].path = f.nodes[i].path /\ g.nodes[i].type = f.nodes[i].type
               /\ g.nodes[i].path # p => Leaf(g, i) = Leaf(f, i)
    <3>1. g.nodes[i].used /\ g.nodes[i].path = f.nodes[i].path /\ g.nodes[i].type = f.nodes[i].type
      BY <2>2 DEF Stored
    <3>2. f.nodes[i].path # p => Stays(f, g, i)
      BY <2>2 DEF Stored
    <3> QED BY <3>1, <3>2, LeafStays
  <2>3. ASSUME NEW i \in NodeIds, g.nodes[i].used, ~f.nodes[i].used, g.nodes[i].path # p
        PROVE  g.nodes[i].type = "DIR" /\ g.nodes[i].path \in FM!Prefixes(p)
    <3>1. g.nodes[i].type = "DIR" /\ IsAbove(g.nodes[i].path, d)
      BY <2>3 DEF Stored, d
    <3>2. PICK k \in 1 .. Len(d) : g.nodes[i].path = SubSeq(d, 1, k)
      BY <3>1 DEF IsAbove
    <3>3. k \in 0 .. Len(d)
      BY <1>2 DEF Names
    <3>4. k \in 0 .. Len(p) /\ g.nodes[i].path = SubSeq(p, 1, k)
      BY <1>3, <3>2, <3>3
    <3>5. g.nodes[i].path \in FM!Prefixes(p)
      BY <3>4 DEF FM!Prefixes
    <3> QED BY <3>1, <3>5
  <2>4. Grew(f, g, p, j)
    BY <1>2, <2>1, <2>2, <2>3 DEF Grew
  <2>5. /\ new = FM!With(old, p, Leaf(g, j)) /\ p \in DOMAIN new /\ new[p] = Leaf(g, j)
        /\ \A r \in FM!Prefixes(p) : r # p /\ r \in DOMAIN old => old[r] = FM!Directory
    BY <1>1, <2>4, GrewWith
  <2>6. Leaf(g, j) = FM!File(FileBytes(g, j))
    BY <2>1 DEF Leaf
  <2>7. FM!File(new[p].bytes) = Leaf(g, j)
    BY <2>5, <2>6 DEF FM!File
  <2>8. \A r \in FM!Prefixes(FM!Parent(p)) : r \in DOMAIN old => old[r] = FM!Directory
    <3>1. ASSUME NEW r \in FM!Prefixes(d) PROVE r \in FM!Prefixes(p) /\ r # p
      <4>1. PICK k \in 0 .. Len(d) : r = SubSeq(d, 1, k)
        BY DEF FM!Prefixes
      <4>2. k \in 0 .. Len(p) /\ r = SubSeq(p, 1, k) /\ r # p
        BY <1>3, <4>1
      <4> QED BY <4>2 DEF FM!Prefixes
    <3> QED BY <1>2, <2>5, <3>1
  <2>9. p \in DOMAIN old => ~old[p].dir
    <3>1. SUFFICES ASSUME p \in DOMAIN old PROVE ~old[p].dir
      OBVIOUS
    <3>2. PICK a \in NodeIds : f.nodes[a].used /\ f.nodes[a].path = p /\ old[p] = Leaf(f, a)
      BY <3>1 DEF TreeIs
    <3>3. g.nodes[a].used /\ g.nodes[a].path = p /\ g.nodes[a].type = f.nodes[a].type
      BY <2>2, <3>2
    <3>4. a = j
      BY <1>1, <2>1, <3>3 DEF Table
    <3>5. old[p] = FM!File(FileBytes(f, a))
      BY <2>1, <3>2, <3>3, <3>4 DEF Leaf
    <3> QED BY <3>5 DEF FM!File
  <2>10. FM!Store(old, new, p)
    BY <1>2, <2>5, <2>7, <2>8, <2>9 DEF FM!Store
  <2>11. CASE p \in FM!Touched(old, new)
    BY <2>10, <2>11 DEF FM!Change
  <2>12. CASE p \notin FM!Touched(old, new)
    <3>1. p \in DOMAIN old /\ old[p] = new[p]
      BY <2>5, <2>12 DEF FM!Touched
    <3>2. HasNode(f, p)
      BY <3>1 DEF TreeIs, HasNode
    <3>3. ASSUME NEW r \in FM!Prefixes(p) PROVE r \in DOMAIN old
      <4>1. r = p \/ HasDir(f, r)
        BY <1>1, <3>2, PrefixesIn
      <4> QED BY <3>1, <4>1 DEF HasDir, TreeIs
    <3> DEFINE e == Leaf(g, j)
               value(r) == IF r = p THEN e ELSE IF r \in DOMAIN old THEN old[r] ELSE FM!Directory
    <3>4. new = [r \in DOMAIN old \cup FM!Prefixes(p) |-> value(r)]
      BY <2>5 DEF FM!With
    <3>5. DOMAIN old \cup FM!Prefixes(p) = DOMAIN old
      BY <3>3
    <3>6. \A r \in DOMAIN old : value(r) = old[r]
      BY <2>5, <3>1
    <3> HIDE DEF value, e
    <3>7. DOMAIN old = DOMAIN new /\ \A r \in DOMAIN old : old[r] = new[r]
      BY <3>4, <3>5, <3>6
    <3> QED BY <3>7, SameTree DEF TreeIs
  <2> QED BY <2>11, <2>12
<1> QED BY <1>4, <1>5

\* A file or an empty directory was taken away.
LEMMA DeleteTree ==
  ASSUME NEW f, Table(f), NEW g, NEW p \in Names, Removed(f, g, p), NEW old, TreeIs(f, old), NEW new, TreeIs(g, new)
  PROVE  FM!Change(old, new)
<1>1. removable(p)
  BY DEF Removed
<1>2. PICK i \in NodeIds :
        /\ f.nodes[i].used /\ f.nodes[i].path = p /\ ~g.nodes[i].used
        /\ \A j \in NodeIds : j # i /\ f.nodes[j].used => Stays(f, g, j)
        /\ \A j \in NodeIds : g.nodes[j].used => f.nodes[j].used
        /\ \A j \in NodeIds : f.nodes[j].used /\ f.nodes[j].path # <<>> => split_parent(f.nodes[j].path) # p
  BY DEF Removed
<1>3. p \in DOMAIN old
  BY <1>2 DEF TreeIs
<1>4. FM!BelowTemp(p)
  <2>1. p # <<>> /\ Head(p) = "temp" /\ p # <<"temp">> /\ p \in Seq(STRING)
    BY <1>1 DEF removable, in_temp_tree, Names
  <2>2. Len(p) \in Nat /\ Len(p) \in 1 .. Len(p) /\ SubSeq(p, 1, Len(p)) = p
    BY <2>1, CutWhole
  <2>3. FM!BelowTemp(SubSeq(p, 1, Len(p)))
    BY <2>1, <2>2, TempBelow DEF in_temp_tree
  <2> QED BY <2>2, <2>3
<1>5. ASSUME NEW q \in DOMAIN old, q # <<>> PROVE FM!Parent(q) # p
  <2>1. PICK j \in NodeIds : f.nodes[j].used /\ f.nodes[j].path = q
    BY DEF TreeIs
  <2>2. split_parent(q) # p
    BY <1>2, <1>5, <2>1
  <2> QED BY <1>5, <2>2 DEF FM!Parent, split_parent
<1>6. ASSUME NEW q \in DOMAIN old, q # p PROVE q \in DOMAIN new /\ new[q] = old[q]
  <2>1. PICK j \in NodeIds : f.nodes[j].used /\ f.nodes[j].path = q /\ old[q] = Leaf(f, j)
    BY DEF TreeIs
  <2>2. j # i
    BY <1>2, <1>6, <2>1
  <2>3. g.nodes[j].used /\ g.nodes[j].path = q /\ Leaf(g, j) = Leaf(f, j)
    BY <1>2, <2>1, <2>2, LeafStays
  <2>4. g.nodes[j].path \in DOMAIN new /\ new[g.nodes[j].path] = Leaf(g, j)
    BY <2>3 DEF TreeIs
  <2> QED BY <2>1, <2>3, <2>4
<1>7. ASSUME NEW q \in DOMAIN new PROVE q \in DOMAIN old /\ q # p
  <2>1. PICK j \in NodeIds : g.nodes[j].used /\ g.nodes[j].path = q
    BY DEF TreeIs
  <2>2. f.nodes[j].used /\ j # i
    BY <1>2, <2>1
  <2>3. f.nodes[j].path = q
    BY <1>2, <2>1, <2>2, LeafStays
  <2>4. q # p
    BY <1>2, <2>2, <2>3 DEF Table
  <2> QED BY <2>2, <2>3, <2>4 DEF TreeIs
<1> DEFINE V == [q \in DOMAIN old \ {p} |-> old[q]]
<1>8. V = [q \in DOMAIN V |-> V[q]] /\ DOMAIN V = DOMAIN old \ {p} /\ \A q \in DOMAIN V : V[q] = old[q]
  OBVIOUS
<1> HIDE DEF V
<1>9. DOMAIN new = DOMAIN V /\ \A q \in DOMAIN new : new[q] = V[q]
  BY <1>6, <1>7, <1>8
<1>10. new = V
  BY <1>8, <1>9, SameTree DEF TreeIs
<1>11. FM!Delete(old, new, p)
  BY <1>3, <1>4, <1>5, <1>10 DEF FM!Delete, V
<1>12. p \in FM!Touched(old, new)
  BY <1>3, <1>7 DEF FM!Touched
<1> QED BY <1>11, <1>12 DEF FM!Change

\* One call changes the tree in one place, or not at all.
LEMMA TreeStep ==
  ASSUME NEW f, StoreInv(f), NEW g, StoreInv(g), StoreStep(f, g), NEW old, TreeIs(f, old), NEW new, TreeIs(g, new)
  PROVE  g = f \/ old = new \/ FM!Change(old, new)
<1>1. FsOK(f, {}) /\ FsOK(g, {}) /\ Table(f) /\ Table(g) /\ Required(f)
  BY DEF StoreInv, FsOK
<1>2. ASSUME NEW p \in Names, f.ready, in_temp_tree(p), Sprouted(f, g, p) PROVE old = new \/ FM!Change(old, new)
  BY <1>1, <1>2, SproutTree
<1>3. ASSUME NEW p \in Names, Writable(f, p), Stored(f, g, p) PROVE old = new \/ FM!Change(old, new)
  BY <1>1, <1>3, StoreTree
<1>4. ASSUME NEW p \in Names, Removed(f, g, p) PROVE FM!Change(old, new)
  BY <1>1, <1>4, DeleteTree
<1> QED BY <1>2, <1>3, <1>4 DEF StoreStep, Tidy

LEMMA MapStep ==
  ASSUME IInv, [Next]_vars
  PROVE  [\E old \in {TreeOf(fs)}, new \in {TreeOf(fs')} : old = new \/ FM!Change(old, new)]_fs
<1>1. StoreInv(fs) /\ StoreInv(fs') /\ StoreStep(fs, fs')
  BY StepInv DEF IInv
<1> DEFINE f == fs
           g == fs'
           old == TreeOf(f)
           new == TreeOf(g)
<1>2. StoreInv(f) /\ StoreInv(g) /\ StoreStep(f, g)
  BY <1>1
<1> HIDE DEF f, g
<1>3. Table(f) /\ Table(g)
  BY <1>2 DEF StoreInv, FsOK
<1>4. TreeIs(f, old) /\ TreeIs(g, new)
  BY <1>3, TreeOfIs
<1> HIDE DEF old, new
<1>5. g = f \/ old = new \/ FM!Change(old, new)
  BY <1>2, <1>4, TreeStep
<1> QED BY <1>5 DEF f, g, old, new

-----------------------------------------------------------------------------
(* Listing a directory. *)

\* A node keeps its name and its kind, and a new one is tidy.
LEMMA NamedKept ==
  ASSUME NEW f, Named(f), NEW g,
         \A i \in NodeIds : g.nodes[i].used /\ f.nodes[i].used =>
             g.nodes[i].path = f.nodes[i].path /\ g.nodes[i].type = f.nodes[i].type,
         \A i \in NodeIds : g.nodes[i].used /\ ~f.nodes[i].used => TidyNode(g.nodes[i])
  PROVE  Named(g)
<1> SUFFICES ASSUME PlainImages, NEW i \in NodeIds, g.nodes[i].used PROVE TidyNode(g.nodes[i])
  BY DEF Named, TidyNode
<1>1. CASE f.nodes[i].used
  <2>1. TidyNode(f.nodes[i])
    BY DEF Named
  <2> QED BY <1>1, <2>1 DEF TidyNode
<1>2. CASE ~f.nodes[i].used
  BY <1>2
<1> QED BY <1>1, <1>2

LEMMA DirTidy == ASSUME NEW n, n.type = "DIR", NoDots(n.path) PROVE TidyNode(n)
BY DEF TidyNode

LEMMA NamedStep ==
  ASSUME NEW f, Named(f), NEW g, StoreStep(f, g) PROVE Named(g)
<1>1. CASE g = f
  BY <1>1
<1>2. ASSUME NEW p \in Tidy, Sprouted(f, g, p) PROVE Named(g)
  <2>1. p \in Names /\ NoDots(p)
    BY DEF Tidy
  <2>2. ASSUME NEW i \in NodeIds, g.nodes[i].used, ~f.nodes[i].used PROVE TidyNode(g.nodes[i])
    <3>1. g.nodes[i].type = "DIR" /\ IsAbove(g.nodes[i].path, p)
      BY <1>2, <2>2 DEF Sprouted
    <3> QED BY <2>1, <3>1, AboveTidy, DirTidy
  <2>3. \A i \in NodeIds : f.nodes[i].used => g.nodes[i].path = f.nodes[i].path /\ g.nodes[i].type = f.nodes[i].type
    BY <1>2 DEF Sprouted, Unharmed, Stays
  <2> QED BY <2>2, <2>3, NamedKept
<1>3. ASSUME NEW p \in Tidy, Writable(f, p), Stored(f, g, p) PROVE Named(g)
  <2>1. p \in Names /\ NoDots(p) /\ p # <<>> /\ Head(p) = "temp" /\ p # <<"proc">>
    <3>1. Head(<<"proc">>) = "proc"
      OBVIOUS
    <3> QED BY <1>3, <3>1 DEF Tidy, Writable, is_temp_file_path, in_temp_tree
  <2>2. split_parent(p) \in Names /\ NoDots(split_parent(p))
    BY <2>1, Above, ParentTidy
  <2>3. ASSUME NEW i \in NodeIds, g.nodes[i].used, ~f.nodes[i].used PROVE TidyNode(g.nodes[i])
    <3>1. g.nodes[i].path = p \/ (g.nodes[i].type = "DIR" /\ IsAbove(g.nodes[i].path, split_parent(p)))
      BY <1>3, <2>3, Zenon DEF Stored
    <3>2. CASE g.nodes[i].path = p
      BY <2>1, <3>2 DEF TidyNode
    <3>3. CASE g.nodes[i].type = "DIR" /\ IsAbove(g.nodes[i].path, split_parent(p))
      BY <2>2, <3>3, AboveTidy, DirTidy
    <3> QED BY <3>1, <3>2, <3>3
  <2>4. \A i \in NodeIds : f.nodes[i].used => g.nodes[i].path = f.nodes[i].path /\ g.nodes[i].type = f.nodes[i].type
    BY <1>3, Zenon DEF Stored
  <2> QED BY <2>3, <2>4, NamedKept
<1>4. ASSUME NEW p, Removed(f, g, p) PROVE Named(g)
  <2>1. PICK i \in NodeIds :
          /\ f.nodes[i].used /\ ~g.nodes[i].used
          /\ \A j \in NodeIds : j # i /\ f.nodes[j].used => Stays(f, g, j)
          /\ \A j \in NodeIds : g.nodes[j].used => f.nodes[j].used
    BY <1>4, Zenon DEF Removed
  <2> QED BY <2>1, Zenon, NamedKept DEF Stays
<1> QED BY <1>1, <1>2, <1>3, <1>4, Zenon DEF StoreStep

\* The invariant of the listings.
ListInv == IInv /\ Named(fs)

LEMMA ListInvariance == Spec => []ListInv
<1>1. Init => ListInv
  <2> SUFFICES ASSUME Init PROVE ListInv
    OBVIOUS
  <2>1. PICK image \in Images : fs = fs_init(image)
    BY DEF Init
  <2> QED BY <2>1, FsInit, InitInv DEF ListInv
<1>2. ListInv /\ [Next]_vars => ListInv'
  <2> SUFFICES ASSUME ListInv, [Next]_vars PROVE ListInv'
    OBVIOUS
  <2>1. IInv' /\ StoreStep(fs, fs')
    BY StepInv DEF ListInv
  <2> DEFINE g == fs'
  <2>2. StoreStep(fs, g)
    BY <2>1
  <2> HIDE DEF g
  <2>3. Named(g)
    BY <2>2, NamedStep DEF ListInv
  <2>4. Named(fs)'
    BY <2>3 DEF g, Named
  <2> QED BY <2>1, <2>4 DEF ListInv
<1> QED BY <1>1, <1>2, PTL DEF Spec

\* The elements of S before i.
Before(S, i) == {j \in S : j < i}

LEMMA FewerBefore ==
  ASSUME NEW S \in SUBSET Nat, IsFiniteSet(S), NEW i \in S, NEW n, n = Cardinality(S), NEW m, m = Cardinality(Before(S, i))
  PROVE  n \in Nat /\ m \in 0 .. n - 1
<1> DEFINE B == Before(S, i)
<1>1. B \in SUBSET S /\ i \notin B
  BY DEF Before
<1> HIDE DEF B
<1>2. IsFiniteSet(B) /\ Cardinality(B) <= Cardinality(S) /\ (Cardinality(S) = Cardinality(B) => S = B)
  BY <1>1, FS_Subset
<1>3. Cardinality(B) \in Nat /\ Cardinality(S) \in Nat
  BY <1>2, FS_CardinalityType
<1>4. m = Cardinality(B)
  BY DEF B
<1> QED BY <1>1, <1>2, <1>3, <1>4

LEMMA MoreBefore ==
  ASSUME NEW S \in SUBSET Nat, IsFiniteSet(S), NEW i \in S, NEW j \in S, i < j
  PROVE  Cardinality(Before(S, i)) # Cardinality(Before(S, j))
<1> DEFINE A == Before(S, i)
           B == Before(S, j)
<1>1. A \in SUBSET B /\ B \in SUBSET S /\ i \in B /\ i \notin A
  <2>1. S \subseteq Nat /\ i \in Nat /\ j \in Nat
    OBVIOUS
  <2>2. (\A x \in S : x < i => x < j) /\ ~(i < i)
    BY <2>1
  <2> QED BY <2>2, Zenon DEF Before
<1> HIDE DEF A, B
<1>2. IsFiniteSet(B)
  BY <1>1, FS_Subset
<1>3. Cardinality(B) = Cardinality(A) => B = A
  BY <1>1, <1>2, FS_Subset
<1> QED BY <1>1, <1>3 DEF A, B

\* Every index below the number of children is that of one child, and every
\* child has one index.
\* There is one child at each index below n, and one such index for each child.
Ranked(S, n) ==
  /\ n \in Nat
  /\ \A k \in 0 .. n - 1 : \E i \in S : child_at(S, k) = {i}
  /\ \A i \in S : \E k \in 0 .. n - 1 : child_at(S, k) = {i}
  /\ \A i \in S, k, l \in 0 .. n - 1 : child_at(S, k) = {i} /\ child_at(S, l) = {i} => k = l

LEMMA Ranks ==
  ASSUME NEW S \in SUBSET Nat, IsFiniteSet(S), NEW n, n = Cardinality(S) PROVE Ranked(S, n)
<1> DEFINE r == [i \in S |-> Cardinality(Before(S, i))]
           T == 0 .. n - 1
<1>1. n \in Nat
  BY FS_CardinalityType
<1>2. IsFiniteSet(T) /\ Cardinality(T) = n
  <2>1. 0 \in Int /\ n - 1 \in Int
    BY <1>1
  <2>2. IsFiniteSet(0 .. n - 1) /\ Cardinality(0 .. n - 1) = IF 0 > n - 1 THEN 0 ELSE n - 1 - 0 + 1
    BY <2>1, FS_Interval
  <2> QED BY <1>1, <2>2
<1>3. \A i \in S : Cardinality(Before(S, i)) \in T
  BY FewerBefore
<1>4. \A i, j \in S : Cardinality(Before(S, i)) = Cardinality(Before(S, j)) => i = j
  <2> SUFFICES ASSUME NEW i \in S, NEW j \in S, i # j PROVE Cardinality(Before(S, i)) # Cardinality(Before(S, j))
    OBVIOUS
  <2>1. i < j \/ j < i
    OBVIOUS
  <2> QED BY <2>1, MoreBefore
<1> HIDE DEF T
<1>5. r \in [S -> T]
  BY <1>3
<1>6. \A i \in S : r[i] = Cardinality(Before(S, i))
  OBVIOUS
<1> HIDE DEF r
<1>7. r \in Injection(S, T)
  BY <1>4, <1>5, <1>6, Zenon DEF Injection, IsInjective
<1>8. r \in Surjection(S, T)
  BY <1>2, <1>7, FS_Injection
<1>9. \A k : child_at(S, k) = {i \in S : r[i] = k}
  BY <1>6 DEF child_at, Before
<1>10. \A i, j \in S : r[i] = r[j] => i = j
  BY <1>4, <1>6
<1>11. \A k \in T : \E i \in S : r[i] = k
  BY <1>8, Zenon DEF Surjection
<1>12. \A i \in S : r[i] \in T /\ child_at(S, r[i]) = {i}
  <2> SUFFICES ASSUME NEW i \in S PROVE r[i] \in T /\ child_at(S, r[i]) = {i}
    OBVIOUS
  <2>1. child_at(S, r[i]) = {j \in S : r[j] = r[i]}
    BY <1>9
  <2>2. {j \in S : r[j] = r[i]} = {i}
    BY <1>10
  <2> QED BY <1>5, <2>1, <2>2
<1>13. \A k \in T : \E i \in S : child_at(S, k) = {i}
  BY <1>11, <1>12, Zenon
<1>14. \A i \in S : \A k : child_at(S, k) = {i} => r[i] = k
  BY <1>9
<1> QED BY <1>1, <1>12, <1>13, <1>14, Zenon DEF T, Ranked

\* A path is its directory and its name.
LEMMA SameName ==
  ASSUME NEW p \in Names, p # <<>>, NEW q \in Names, q # <<>>, split_parent(p) = split_parent(q), basename(p) = basename(q)
  PROVE  p = q
<1>1. /\ Len(p) \in Nat \ {0} /\ split_parent(p) = SubSeq(p, 1, Len(p) - 1) /\ Len(split_parent(p)) = Len(p) - 1
      /\ basename(p) = p[Len(p)]
  BY Above
<1>2. /\ Len(q) \in Nat \ {0} /\ split_parent(q) = SubSeq(q, 1, Len(q) - 1) /\ Len(split_parent(q)) = Len(q) - 1
      /\ basename(q) = q[Len(q)]
  BY Above
<1>3. Len(p) = Len(q)
  BY <1>1, <1>2
<1> DEFINE m == Len(p) - 1
<1>4. m \in 0 .. Len(p) /\ m \in 0 .. Len(q) /\ \A k \in 1 .. Len(p) : k \in 1 .. m \/ k = Len(p)
  BY <1>1, <1>3
<1>5. split_parent(p) = SubSeq(p, 1, m) /\ split_parent(q) = SubSeq(q, 1, m)
  BY <1>1, <1>2, <1>3
<1> HIDE DEF m
<1>6. (\A k \in 1 .. m : SubSeq(p, 1, m)[k] = p[k]) /\ (\A k \in 1 .. m : SubSeq(q, 1, m)[k] = q[k])
  BY <1>4, Cut DEF Names
<1>7. SubSeq(p, 1, m) = SubSeq(q, 1, m)
  BY <1>5
<1>8. \A k \in 1 .. m : p[k] = q[k]
  BY <1>6, <1>7
<1>9. \A k \in 1 .. Len(p) : p[k] = q[k]
  BY <1>1, <1>2, <1>3, <1>4, <1>8
<1> QED BY <1>3, <1>9, SeqEqual DEF Names

\* A path goes on with a name.
LEMMA OneMore ==
  ASSUME NEW p \in Names, p # <<>> PROVE p = Append(split_parent(p), basename(p)) /\ basename(p) \in STRING
<1> DEFINE u == split_parent(p)
           c == basename(p)
           q == Append(u, c)
<1>1. Len(p) \in Nat \ {0} /\ u \in Names /\ c = p[Len(p)]
  BY Above
<1>2. c \in STRING
  BY <1>1 DEF Names
<1> HIDE DEF u, c
<1>3. q \in Names /\ q # <<>> /\ split_parent(q) = u /\ basename(q) = c
  <2>1. u \in Seq(STRING)
    BY <1>1 DEF Names
  <2>2. /\ q \in Seq(STRING) /\ q # <<>> /\ Len(q) = Len(u) + 1 /\ q[Len(u) + 1] = c
        /\ \A k \in 1 .. Len(u) : q[k] = u[k]
    <3>1. /\ Append(u, c) \in Seq(STRING)
          /\ Append(u, c) # <<>>
          /\ Len(Append(u, c)) = Len(u) + 1
          /\ \A i \in 1 .. Len(u) : Append(u, c)[i] = u[i]
          /\ Append(u, c)[Len(u) + 1] = c
      BY <1>2, <2>1, AppendProperties
    <3> QED BY <3>1
  <2> HIDE DEF q
  <2>3. Len(u) \in Nat /\ Len(q) - 1 = Len(u) /\ Len(u) \in 0 .. Len(q) /\ Len(q) = Len(u) + 1
    BY <2>1, <2>2, LenProperties
  <2>4. split_parent(q) = SubSeq(q, 1, Len(u)) /\ basename(q) = c
    BY <2>2, <2>3 DEF split_parent, basename
  <2> DEFINE v == SubSeq(q, 1, Len(u))
  <2>5. v \in Seq(STRING) /\ Len(v) = Len(u) /\ \A k \in 1 .. Len(u) : v[k] = q[k]
    BY <2>2, <2>3, Cut
  <2> HIDE DEF v
  <2>6. v = u
    BY <2>1, <2>2, <2>5, SeqEqual
  <2> QED BY <2>2, <2>4, <2>6 DEF Names, v
<1> HIDE DEF q
<1>4. p = q
  BY <1>3, SameName DEF u, c
<1> QED BY <1>2, <1>4 DEF q, u, c

\* The nodes one name below the path q.
In(f, q) == {i \in NodeIds : f.nodes[i].used /\ f.nodes[i].path # <<>> /\ split_parent(f.nodes[i].path) = q}

\* The links lead to the nodes the paths name.
LEMMA ChildrenIn ==
  ASSUME NEW f, Table(f), NEW d \in NodeIds, f.nodes[d].used
  PROVE  Children(f, d) = In(f, f.nodes[d].path)
<1> DEFINE q == f.nodes[d].path
<1>1. \A i \in NodeIds : f.nodes[i].path \in Names /\ f.nodes[i].parent \in NodeIds
  BY NodeFields DEF Table
<1>2. ASSUME NEW i \in NodeIds, f.nodes[i].used, f.nodes[i].path = <<>> PROVE ~(i # d /\ f.nodes[i].parent = d)
  <2>1. i = 0 /\ f.nodes[0].parent = 0
    BY <1>2, Sizes DEF Table
  <2> QED BY <2>1
<1>3. ASSUME NEW i \in NodeIds, f.nodes[i].used, f.nodes[i].path # <<>>
      PROVE  (i # d /\ f.nodes[i].parent = d) <=> split_parent(f.nodes[i].path) = q
  <2> DEFINE u == f.nodes[i].parent
             p == f.nodes[i].path
  <2>1. u \in NodeIds /\ f.nodes[u].used /\ f.nodes[u].path = split_parent(p)
    BY <1>1, <1>3 DEF Table, Linked
  <2>2. split_parent(p) # p
    <3>1. p \in Names
      BY <1>1
    <3> HIDE DEF p
    <3>2. Len(split_parent(p)) = Len(p) - 1 /\ Len(p) \in Nat
      BY <1>3, <3>1, Above DEF p
    <3> QED BY <3>2
  <2>3. u = d <=> f.nodes[u].path = f.nodes[d].path
    BY <2>1 DEF Table
  <2> HIDE DEF u
  <2>4. split_parent(p) = q => i # d
    BY <2>2
  <2> QED BY <2>1, <2>3, <2>4 DEF u
<1>4. UsedNodes(f) = {i \in NodeIds : f.nodes[i].used}
  BY Used
<1> QED BY <1>2, <1>3, <1>4, Zenon DEF Children, In

\* The indices below n name the entries of q, each once.
Lists(f, x, q, n) ==
  /\ n \in Nat
  /\ \A k \in 0 .. n - 1 : \E i \in In(f, q) : get_child_name(f, x, k) = basename(f.nodes[i].path)
  /\ \A i \in In(f, q) : \E k \in 0 .. n - 1 : get_child_name(f, x, k) = basename(f.nodes[i].path)
  /\ \A k, l \in 0 .. n - 1 : get_child_name(f, x, k) = get_child_name(f, x, l) => k = l

\* Reading a directory by index.
LEMMA Listed ==
  ASSUME NEW f, Table(f), f.ready, NEW x, NEW d, d = find_external(f, x), d \in NodeIds, f.nodes[d].used,
         f.nodes[d].type = "DIR", NEW n, n = count_children(f, x)
  PROVE  Lists(f, x, f.nodes[d].path, n)
<1> DEFINE S == Children(f, d)
           q == f.nodes[d].path
           name(k) == get_child_name(f, x, k)
           base(i) == basename(f.nodes[i].path)
<1>1. d \in Nat /\ ~(d < 0)
  BY Sizes
<1>2. n = Cardinality(S)
  BY <1>1 DEF count_children
<1>3. S = In(f, q)
  BY ChildrenIn
<1>4. S \in SUBSET Nat /\ IsFiniteSet(S) /\ S \in SUBSET NodeIds
  <2>1. In(f, q) \in SUBSET NodeIds
    BY DEF In
  <2>2. NodeIds \in SUBSET Nat /\ IsFiniteSet(NodeIds)
    BY Sizes, FS_Interval DEF NodeIds
  <2> HIDE DEF S
  <2>3. S \in SUBSET NodeIds
    BY <1>3, <2>1
  <2> QED BY <2>2, <2>3, FS_Subset
<1>5. \A i, j \in S : base(i) = base(j) => i = j
  <2> SUFFICES ASSUME NEW i \in In(f, q), NEW j \in In(f, q), base(i) = base(j) PROVE i = j
    BY <1>3
  <2>1. /\ i \in NodeIds /\ f.nodes[i].used /\ f.nodes[i].path # <<>> /\ split_parent(f.nodes[i].path) = q
        /\ j \in NodeIds /\ f.nodes[j].used /\ f.nodes[j].path # <<>> /\ split_parent(f.nodes[j].path) = q
    BY DEF In
  <2>2. f.nodes[i].path \in Names /\ f.nodes[j].path \in Names
    BY <2>1, NodeFields DEF Table
  <2>3. f.nodes[i].path = f.nodes[j].path
    BY <2>1, <2>2, SameName
  <2> QED BY <2>1, <2>3 DEF Table
<1>6. \A k, i : child_at(S, k) = {i} /\ i \in S => name(k) = base(i)
  <2> SUFFICES ASSUME NEW k, NEW i \in S, child_at(S, k) = {i} PROVE name(k) = base(i)
    OBVIOUS
  <2>1. i \in Nat
    BY <1>4
  <2>2. Min({i}) = i
    <3>1. {i} \in SUBSET Nat /\ {i} # {}
      BY <2>1
    <3>2. Min({i}) \in {i}
      BY <3>1, LeastOf
    <3> QED BY <3>2
  <2>3. name(k) = IF child_at(S, k) = {} THEN "" ELSE basename(f.nodes[Min(child_at(S, k))].path)
    <3>1. find_external(f, x) = d /\ f.ready /\ ~(d < 0) /\ f.nodes[d].type = "DIR"
      BY <1>1
    <3> QED BY <3>1 DEF get_child_name
  <2> HIDE DEF S, name
  <2> QED BY <2>2, <2>3
<1> HIDE DEF S, name, base
<1>7. /\ n \in Nat
      /\ \A k \in 0 .. n - 1 : \E i \in S : child_at(S, k) = {i}
      /\ \A i \in S : \E k \in 0 .. n - 1 : child_at(S, k) = {i}
      /\ \A i \in S, k, l \in 0 .. n - 1 : child_at(S, k) = {i} /\ child_at(S, l) = {i} => k = l
  <2>1. Ranked(S, n)
    BY <1>2, <1>4, Ranks
  <2> QED BY <2>1 DEF Ranked
<1> DEFINE K == 0 .. n - 1
<1> HIDE DEF K
<1>8. ASSUME NEW k \in K PROVE \E i \in S : name(k) = base(i)
  <2>1. PICK i \in S : child_at(S, k) = {i}
    BY <1>7 DEF K
  <2> QED BY <1>6, <2>1
<1>9. ASSUME NEW i \in S PROVE \E k \in K : name(k) = base(i)
  <2>1. PICK k \in K : child_at(S, k) = {i}
    BY <1>7 DEF K
  <2> QED BY <1>6, <2>1
<1>10. ASSUME NEW k \in K, NEW l \in K, name(k) = name(l) PROVE k = l
  <2>1. PICK i \in S : child_at(S, k) = {i}
    BY <1>7 DEF K
  <2>2. PICK j \in S : child_at(S, l) = {j}
    BY <1>7 DEF K
  <2>3. base(i) = base(j)
    BY <1>6, <1>10, <2>1, <2>2
  <2>4. i = j
    BY <1>5, <2>3
  <2> QED BY <1>7, <2>1, <2>2, <2>4 DEF K
<1> QED BY <1>3, <1>7, <1>8, <1>9, <1>10, Zenon DEF K, name, base, Lists

\* What a path from outside finds.
LEMMA LookedUp ==
  ASSUME NEW f, Table(f), NEW x, NEW d, d = find_external(f, x), d # -1
  PROVE  /\ x.slash /\ ".." \notin ToSet(x.names) /\ normalize_external_path(x) = components(x.names)
         /\ d \in NodeIds /\ f.nodes[d].used /\ f.nodes[d].path = components(x.names)
<1> DEFINE p == normalize_external_path(x)
           c == components(x.names)
<1>1. p # NoPath /\ d = find_node(f, p)
  BY DEF find_external
<1>2. x.slash /\ ".." \notin ToSet(x.names) /\ p = c
  <2> HIDE DEF c
  <2> QED BY <1>1, Zenon DEF normalize_external_path, if_it_fits, c
<1> HIDE DEF p, c
<1>3. d \in NodeIds /\ f.nodes[d].used /\ f.nodes[d].path = p
  BY <1>1, Found
<1> QED BY <1>2, <1>3 DEF p, c

LEMMA Reached ==
  ASSUME NEW f, Table(f), NEW i \in NodeIds, f.nodes[i].used, NEW x, x.slash, ".." \notin ToSet(x.names),
         components(x.names) = f.nodes[i].path
  PROVE  find_external(f, x) = i
<1> DEFINE p == normalize_external_path(x)
           c == components(x.names)
           q == f.nodes[i].path
<1>1. fits(q) /\ q \in Names /\ (q # <<>> => Called(q))
  BY NodeFields DEF Table, Linked
<1>2. p = q
  <2>1. c = q
    OBVIOUS
  <2> HIDE DEF c, q
  <2>2. p = if_it_fits(c)
    BY Zenon DEF normalize_external_path, c
  <2> QED BY <1>1, <2>1, <2>2 DEF if_it_fits
<1>3. q # NoPath
  <2>1. NoPath # <<>> /\ ~Called(NoPath)
    BY DEF NoPath, Called, basename
  <2> HIDE DEF q
  <2> QED BY <1>1, <2>1
<1>4. find_node(f, q) = i
  BY FoundAt
<1> HIDE DEF p, q
<1> QED BY <1>2, <1>3, <1>4, Zenon DEF find_external, p

LEMMA ComponentsNone == components(<<>>) = <<>>
<1> DEFINE S == {}
<1>1. <<>> \in Seq(S) /\ Len(<<>>) = 0
  BY EmptySeq
<1> HIDE DEF S
<1>2. PICK kept : kept[0] = <<>> /\ components(<<>>) = kept[Len(<<>>)]
  BY <1>1, KeptAny
<1> QED BY <1>1, <1>2

LEMMA Single ==
  ASSUME NEW c, NEW e, e = <<c>>
  PROVE  /\ c \in {"", "."} => components(e) = <<>>
         /\ c \notin {"", "."} => components(e) = e
<1> DEFINE u == <<>>
           S == {c}
<1>1. c \in S /\ u \in Seq(S)
  BY EmptySeq
<1>2. Append(u, c) = <<c>>
  OBVIOUS
<1>3. components(u) = u
  BY ComponentsNone
<1> HIDE DEF S, u
<1>4. \A w : w = Append(u, c) => OnePart(w, u, c)
  BY <1>1, ComponentsOn
<1>5. e = Append(u, c)
  BY <1>2
<1>6. OnePart(e, u, c)
  BY <1>4, <1>5
<1> QED BY <1>3, <1>5, <1>6 DEF u, OnePart

LEMMA RootIs == ASSUME NEW x, fs_is_root(x) PROVE components(x.names) = <<>>
<1> DEFINE e == x.names
<1>1. e = <<>> \/ e = <<"">>
  BY DEF fs_is_root
<1>3. CASE e = <<>>
  BY <1>3, ComponentsNone
<1>4. CASE e = <<"">>
  <2> DEFINE c == ""
  <2>1. e = <<c>>
    BY <1>4
  <2>2. c \in {"", "."}
    OBVIOUS
  <2> HIDE DEF e, c
  <2>3. components(e) = <<>>
    BY <2>1, <2>2, Single
  <2> QED BY <2>3 DEF e
<1> QED BY <1>1, <1>3, <1>4

\* Every name a directory holds is found below the path the directory was listed by.
LEMMA StatBelow ==
  ASSUME NEW f, Table(f), f.ready, Named(f), PlainImages, NEW x \in Paths, NEW d, d = find_external(f, x), d # -1,
         NEW i \in In(f, f.nodes[d].path), NEW y, y = below(x, basename(f.nodes[i].path))
  PROVE  fs_stat(f, y).type \in {"FILE", "DIR"}
<1> DEFINE p == f.nodes[i].path
           q == f.nodes[d].path
           c == basename(p)
           s == IF fs_is_root(x) THEN <<>> ELSE x.names
           e == Append(s, c)
<1>1. /\ i \in NodeIds /\ f.nodes[i].used /\ p # <<>> /\ split_parent(p) = q /\ p \in Names
      /\ f.nodes[i].type \in {"FILE", "DIR"} /\ NoDots(p) /\ Called(p)
  <2>1. i \in NodeIds /\ f.nodes[i].used /\ p # <<>> /\ split_parent(p) = q
    BY DEF In
  <2>2. p \in Names /\ f.nodes[i].type \in {"FILE", "DIR"}
    BY <2>1, NodeFields DEF Table
  <2>3. NoDots(p)
    BY <2>1, Zenon DEF Named, TidyNode
  <2>4. Called(p)
    BY <2>1, Zenon DEF Table, Linked
  <2> QED BY <2>1, <2>2, <2>3, <2>4
<1>2. /\ x.slash /\ ".." \notin ToSet(x.names) /\ d \in NodeIds /\ f.nodes[d].used /\ q = components(x.names)
      /\ f.nodes[d].type \in {"FILE", "DIR"}
  BY LookedUp, NodeFields DEF Table
<1>3. y = [slash |-> TRUE, names |-> e]
  BY DEF below
<1>4. c \in STRING /\ c # "" /\ c # ".." /\ p = Append(q, c)
  <2> HIDE DEF p, q
  <2>1. c = p[Len(p)] /\ Len(p) \in 1 .. Len(p)
    BY <1>1, Above
  <2>2. c \in STRING /\ p = Append(q, c)
    BY <1>1, OneMore
  <2> QED BY <1>1, <2>1, <2>2 DEF NoDots, Called
<1> HIDE DEF c, p, q
<1>5. s \in Names /\ components(s) = q /\ ".." \notin ToSet(s)
  <2>1. CASE fs_is_root(x)
    <3>1. s = <<>>
      BY <2>1
    <3>2. q = <<>>
      BY <1>2, <2>1, RootIs
    <3>3. <<>> \in Names /\ ".." \notin ToSet(<<>>)
      BY EmptySeq DEF Names, ToSet
    <3> HIDE DEF s
    <3> QED BY <3>1, <3>2, <3>3, ComponentsNone
  <2>2. CASE ~fs_is_root(x)
    <3>1. s = x.names
      BY <2>2
    <3> HIDE DEF s
    <3> QED BY <1>2, <3>1 DEF Paths
  <2> QED BY <2>1, <2>2
<1> HIDE DEF s
<1>6. (c \in {"", "."} => components(e) = q) /\ (c \notin {"", "."} => components(e) = p)
  <2>1. e = Append(s, c)
    OBVIOUS
  <2>2. s \in Seq(STRING)
    BY <1>5 DEF Names
  <2>3. c \in STRING /\ p = Append(q, c) /\ components(s) = q
    BY <1>4, <1>5
  <2> HIDE DEF e
  <2>4. OnePart(e, s, c)
    BY <2>1, <2>2, <2>3, ComponentsOn
  <2> QED BY <2>3, <2>4 DEF OnePart
<1>7. ".." \notin ToSet(e)
  <2>0. s \in Seq(STRING) /\ c \in STRING
    BY <1>4, <1>5 DEF Names
  <2>1. s \in Seq(STRING) /\ Len(s) \in Nat /\ DOMAIN s = 1 .. Len(s)
    BY <2>0, LenProperties
  <2>2. /\ Append(s, c) \in Seq(STRING)
        /\ Append(s, c) # <<>>
        /\ Len(Append(s, c)) = Len(s) + 1
        /\ \A k \in 1 .. Len(s) : Append(s, c)[k] = s[k]
        /\ Append(s, c)[Len(s) + 1] = c
    BY <2>0, AppendProperties
  <2>3. DOMAIN e = 1 .. Len(s) + 1
    BY <2>2, LenProperties
  <2>4. \A k \in 1 .. Len(s) : s[k] # ".."
    BY <1>5, <2>1 DEF ToSet
  <2> HIDE DEF e
  <2>5. \A k \in 1 .. Len(s) + 1 : k \in 1 .. Len(s) \/ k = Len(s) + 1
    BY <2>1
  <2>6. \A k \in DOMAIN e : e[k] # ".."
    BY <1>4, <2>2, <2>3, <2>4, <2>5 DEF e
  <2> QED BY <2>6 DEF ToSet
<1> HIDE DEF e
<1>8. y.slash /\ y.names = e
  BY <1>3
<1>9. PICK j \in NodeIds : f.nodes[j].used /\ f.nodes[j].path = components(e) /\ f.nodes[j].type \in {"FILE", "DIR"}
  <2>1. CASE c \in {"", "."}
    BY <1>2, <1>6, <2>1 DEF q
  <2>2. CASE c \notin {"", "."}
    BY <1>1, <1>6, <2>2 DEF p
  <2> QED BY <2>1, <2>2
<1>10. find_external(f, y) = j
  BY <1>7, <1>8, <1>9, Reached
<1>11. ~(j < 0)
  BY Sizes
<1> QED BY <1>9, <1>10, <1>11 DEF fs_stat

LEMMA TwoNames == ASSUME NEW d, NEW c PROVE Append(<<d>>, c) = <<d, c>>
<1> DEFINE S == {d, c}
           u == <<d>>
           v == <<d, c>>
           w == Append(u, c)
<1>1. c \in S /\ d \in S
  OBVIOUS
<1>2. Len(u) = 1 /\ u[1] = d /\ Len(v) = 2 /\ v[1] = d /\ v[2] = c
  OBVIOUS
<1> HIDE DEF S
<1>3. u \in Seq(S) /\ v \in Seq(S)
  BY <1>1
<1> HIDE DEF u, v
<1>4. /\ Append(u, c) \in Seq(S)
      /\ Append(u, c) # <<>>
      /\ Len(Append(u, c)) = Len(u) + 1
      /\ \A k \in 1 .. Len(u) : Append(u, c)[k] = u[k]
      /\ Append(u, c)[Len(u) + 1] = c
  BY <1>1, <1>3, AppendProperties
<1>5. w \in Seq(S) /\ Len(w) = 2 /\ w[1] = d /\ w[2] = c
  BY <1>2, <1>4
<1> HIDE DEF w
<1>6. \A i \in 1 .. Len(w) : w[i] = v[i]
  BY <1>2, <1>5
<1>7. w = v
  BY <1>2, <1>3, <1>5, <1>6, SeqEqual
<1> QED BY <1>7 DEF w, u, v

\* As many names as indices.
LEMMA Distinct ==
  ASSUME NEW n \in Nat, NEW g, \A k, l \in 0 .. n - 1 : g[k] = g[l] => k = l, NEW T, T = {g[k] : k \in 0 .. n - 1}
  PROVE  Cardinality(T) = n
<1> DEFINE K == 0 .. n - 1
           h == [k \in K |-> g[k]]
<1>1. IsFiniteSet(K) /\ Cardinality(K) = n
  <2>1. 0 \in Int /\ n - 1 \in Int
    OBVIOUS
  <2>2. IsFiniteSet(0 .. n - 1) /\ Cardinality(0 .. n - 1) = IF 0 > n - 1 THEN 0 ELSE n - 1 - 0 + 1
    BY <2>1, FS_Interval
  <2> QED BY <2>2
<1> HIDE DEF K
<1>2. \A k, l \in K : g[k] = g[l] => k = l
  BY DEF K
<1>3. T = {g[k] : k \in K}
  BY DEF K
<1>4. h \in [K -> T] /\ \A k \in K : h[k] = g[k]
  BY <1>3
<1> HIDE DEF h
<1>5. h \in Injection(K, T)
  BY <1>2, <1>4, Zenon DEF Injection, IsInjective
<1>6. \A t \in T : \E k \in K : h[k] = t
  BY <1>3, <1>4
<1>7. h \in Surjection(K, T)
  BY <1>4, <1>6, Zenon DEF Surjection
<1> QED BY <1>1, <1>5, <1>7, FS_Surjection

\* The names a listing yields, and the entries of the directory q.
Listing(x) == {fs_get_child_name(x, k) : k \in 0 .. fs_child_count(x) - 1}
Entries(q) == {basename(fs.nodes[i].path) : i \in In(fs, q)}

\* The virtual /proc.
LEMMA ProcListed ==
  ASSUME StackInv(stack), NEW x, procfs_is_root(x)
  PROVE  /\ Cardinality(Listing(x)) = fs_child_count(x)
         /\ Listing(x) = {"self", "list"} \cup PidNames
         /\ \A c \in {"self", "list"} \cup PidNames : fs_stat_type(below(x, c)) # "NONE"
<1> DEFINE D == Len(stack)
           n == fs_child_count(x)
           name(k) == fs_get_child_name(x, k)
           K == 0 .. n - 1
<1>1. D \in Nat /\ DEPTH \in Nat /\ D <= DEPTH
  BY Bounds DEF StackInv
<1>2. n = 2 + D
  BY DEF fs_child_count
<1>3. name(0) = "self" /\ name(1) = "list"
  BY DEF fs_get_child_name
<1>4. \A p \in 1 .. D : name(p + 1) = ToString(p)
  <2> SUFFICES ASSUME NEW p \in 1 .. D PROVE name(p + 1) = ToString(p)
    OBVIOUS
  <2> DEFINE k == p + 1
  <2>1. ~(k = 0) /\ ~(k = 1) /\ k > 1 /\ k - 1 = p /\ k - 1 <= Len(stack)
    BY <1>1
  <2> HIDE DEF k
  <2>2. fs_get_child_name(x, k) = ToString(k - 1)
    BY <2>1, Zenon DEF fs_get_child_name
  <2> QED BY <2>1, <2>2 DEF k
<1> HIDE DEF n, name, D
<1>5. \A k \in K : k = 0 \/ k = 1 \/ \E p \in 1 .. D : k = p + 1
  <2> SUFFICES ASSUME NEW k \in K, k # 0, k # 1 PROVE \E p \in 1 .. D : k = p + 1
    OBVIOUS
  <2>1. k - 1 \in 1 .. D /\ k = (k - 1) + 1
    BY <1>1, <1>2
  <2> QED BY <2>1
<1>6. 0 \in K /\ 1 \in K /\ \A p \in 1 .. D : p + 1 \in K
  BY <1>1, <1>2
<1> HIDE DEF K
<1>7. \A p \in 1 .. D : /\ ToString(p) # "self" /\ ToString(p) # "list"
                        /\ \A q \in 1 .. D : ToString(p) = ToString(q) => p = q
  <2>1. \A p \in 1 .. D : p \in 1 .. DEPTH
    BY <1>1
  <2> QED BY <2>1, DecimalAssumption
<1>8. ASSUME NEW k \in K, NEW l \in K, name(k) = name(l) PROVE k = l
  <2>1. "self" # "list"
    OBVIOUS
  <2>2. CASE k = 0
    BY <1>3, <1>4, <1>5, <1>7, <1>8, <2>1, <2>2
  <2>3. CASE k = 1
    BY <1>3, <1>4, <1>5, <1>7, <1>8, <2>1, <2>3
  <2>4. ASSUME NEW p \in 1 .. D, k = p + 1 PROVE k = l
    BY <1>3, <1>4, <1>5, <1>7, <1>8, <2>4
  <2> QED BY <1>5, <2>2, <2>3, <2>4
<1>9. Listing(x) = {"self", "list"} \cup PidNames
  <2>1. PidNames = {ToString(p) : p \in 1 .. D}
    BY DEF PidNames, D
  <2>2. Listing(x) = {name(k) : k \in K}
    BY DEF Listing, name, K, n
  <2>3. \A k \in K : name(k) \in {"self", "list"} \cup PidNames
    BY <1>3, <1>4, <1>5, <2>1
  <2>4. ASSUME NEW c \in {"self", "list"} \cup PidNames PROVE \E k \in K : name(k) = c
    <3>1. CASE c = "self"
      BY <1>3, <1>6, <3>1
    <3>2. CASE c = "list"
      BY <1>3, <1>6, <3>2
    <3>3. ASSUME NEW p \in 1 .. D, c = ToString(p) PROVE \E k \in K : name(k) = c
      BY <1>4, <1>6, <3>3
    <3> QED BY <2>1, <3>1, <3>2, <3>3
  <2> QED BY <2>2, <2>3, <2>4
<1>10. Cardinality(Listing(x)) = n
  <2> DEFINE g == [k \in K |-> name(k)]
  <2>1. \A k \in K : g[k] = name(k)
    OBVIOUS
  <2>2. Listing(x) = {name(k) : k \in K}
    BY DEF Listing, name, K, n
  <2> HIDE DEF g
  <2>3. Listing(x) = {g[k] : k \in K}
    BY <2>1, <2>2
  <2>4. \A k, l \in K : g[k] = g[l] => k = l
    BY <1>8, <2>1
  <2>5. n \in Nat
    BY <1>1, <1>2
  <2> QED BY <2>3, <2>4, <2>5, Distinct DEF K
<1>11. ASSUME NEW c \in {"self", "list"} \cup PidNames PROVE fs_stat_type(below(x, c)) # "NONE"
  <2> DEFINE y == below(x, c)
  <2>1. y = [slash |-> TRUE, names |-> <<"proc", c>>]
    <3>1. x = [slash |-> TRUE, names |-> <<"proc">>]
      BY DEF procfs_is_root
    <3>2. ~fs_is_root(x)
      BY <3>1 DEF fs_is_root
    <3>3. x.names = <<"proc">>
      BY <3>1
    <3> QED BY <3>2, <3>3, TwoNames DEF below
  <2>2. "FILE" # "NONE" /\ "DIR" # "NONE"
    OBVIOUS
  <2> HIDE DEF y
  <2>3. procfs_is(y, "list") \/ procfs_is(y, "self") \/ procfs_render_file(y)
    <3>1. CASE c = "self"
      BY <2>1, <3>1, Zenon DEF procfs_is
    <3>2. CASE c = "list"
      BY <2>1, <3>2, Zenon DEF procfs_is
    <3>3. ASSUME NEW p \in 1 .. D, c = ToString(p) PROVE procfs_render_file(y)
      <4>1. y.slash /\ Len(y.names) = 2 /\ y.names[1] = "proc" /\ y.names[2] = c
        BY <2>1
      <4>2. c \in {ToString(i) : i \in 1 .. DEPTH}
        BY <1>1, <3>3
      <4>3. c \in PidNames
        BY <3>3 DEF PidNames, D
      <4> QED BY <4>1, <4>2, <4>3 DEF procfs_render_file, procfs_parse_pid
    <3> QED BY <3>1, <3>2, <3>3 DEF PidNames, D
  <2>4. fs_stat_type(y) = "DIR" \/ fs_stat_type(y) = "FILE"
    BY <2>3, Zenon DEF fs_stat_type
  <2> QED BY <2>2, <2>4 DEF y
<1> QED BY <1>9, <1>10, <1>11 DEF n

\* A listing by index: n names g[0], g[1], ... which are those of T, each once.
Yields(g, n, T) == /\ n \in Nat /\ T = {g[k] : k \in 0 .. n - 1}
                   /\ \A k, l \in 0 .. n - 1 : g[k] = g[l] => k = l

LEMMA YieldsSize == ASSUME NEW g, NEW n, NEW T, Yields(g, n, T) PROVE Cardinality(T) = n
BY Distinct DEF Yields

\* The virtual /proc comes first, the directory's own entries after it.
LEMMA YieldsMore ==
  ASSUME NEW g, NEW m, NEW T, Yields(g, m, T), NEW c, c \notin T,
         NEW h, h[0] = c, \A k \in 0 .. m - 1 : h[k + 1] = g[k]
  PROVE  Yields(h, m + 1, T \cup {c})
<1> DEFINE K == 0 .. m - 1
           L == 0 .. (m + 1) - 1
<1>1. m \in Nat /\ m + 1 \in Nat
  BY DEF Yields
<1>2. /\ 0 \in L /\ \A k \in K : k + 1 \in L
      /\ \A l \in L : l = 0 \/ \E k \in K : l = k + 1
  <2>1. 0 \in L /\ \A k \in K : k + 1 \in L
    BY <1>1
  <2>2. ASSUME NEW l \in L, l # 0 PROVE \E k \in K : l = k + 1
    <3>1. l - 1 \in K /\ l = (l - 1) + 1
      BY <1>1, <2>2
    <3> QED BY <3>1
  <2> QED BY <2>1, <2>2
<1>3. T = {g[k] : k \in K} /\ \A k, l \in K : g[k] = g[l] => k = l
  BY DEF Yields
<1>4. \A k \in K : h[k + 1] = g[k]
  OBVIOUS
<1> HIDE DEF K, L
<1>5. T \cup {c} = {h[l] : l \in L}
  <2>1. \A l \in L : h[l] \in T \cup {c}
    BY <1>2, <1>3, <1>4
  <2>2. \A t \in T \cup {c} : \E l \in L : h[l] = t
    BY <1>2, <1>3, <1>4
  <2> QED BY <2>1, <2>2
<1>6. ASSUME NEW k \in L, NEW l \in L, h[k] = h[l] PROVE k = l
  <2>1. CASE k = 0
    BY <1>2, <1>3, <1>4, <1>6, <2>1
  <2>2. CASE l = 0
    BY <1>2, <1>3, <1>4, <1>6, <2>2
  <2>3. ASSUME NEW a \in K, k = a + 1, NEW b \in K, l = b + 1 PROVE k = l
    <3>1. g[a] = g[b]
      BY <1>4, <1>6, <2>3
    <3> QED BY <1>3, <2>3, <3>1
  <2> QED BY <1>2, <2>1, <2>2, <2>3
<1> QED BY <1>1, <1>5, <1>6, Zenon DEF Yields, L

\* Whether /proc is a directory of the file system.
LEMMA RealProc ==
  ASSUME Table(fs), Named(fs), PlainImages, fs.ready PROVE fs_has_real_proc_dir <=> "proc" \in Entries(<<>>)
<1> DEFINE c == "proc"
           e == <<c>>
           y == [slash |-> TRUE, names |-> e]
           j == find_external(fs, y)
<1>1. components(e) = e
  <2>1. c \notin {"", "."}
    OBVIOUS
  <2> HIDE DEF c
  <2> QED BY <2>1, Single
<1>2. y.slash /\ y.names = e /\ ".." \notin ToSet(y.names)
  BY DEF ToSet
<1>3. e # <<>> /\ basename(e) = c /\ Len(e) = 1
  BY DEF basename
<1>4. fs_has_real_proc_dir <=> fs_stat(fs, y).type = "DIR"
  BY DEF fs_has_real_proc_dir
<1> HIDE DEF y, e
<1>5. ASSUME fs_has_real_proc_dir PROVE c \in Entries(<<>>)
  <2>1. ~(j < 0) /\ fs.nodes[j].type = "DIR"
    BY <1>4, <1>5 DEF fs_stat
  <2>2. j # -1
    BY <2>1
  <2>3. j \in NodeIds /\ fs.nodes[j].used /\ fs.nodes[j].path = e
    BY <1>1, <1>2, <2>2, LookedUp
  <2> DEFINE p == fs.nodes[j].path
  <2>4. p \in Names
    BY <2>3, NodeFields DEF Table
  <2>5. split_parent(p) = <<>>
    <3>1. p # <<>> /\ Len(p) = 1
      BY <1>3, <2>3
    <3> HIDE DEF p
    <3>2. split_parent(p) \in Names /\ Len(split_parent(p)) = 0
      BY <2>4, <3>1, Above
    <3> QED BY <3>2, EmptySeq DEF Names
  <2>6. j \in In(fs, <<>>) /\ c = basename(fs.nodes[j].path)
    <3> HIDE DEF j
    <3> QED BY <1>3, <2>3, <2>5 DEF In
  <2> QED BY <2>6 DEF Entries
<1>6. ASSUME c \in Entries(<<>>) PROVE fs_has_real_proc_dir
  <2>1. PICK i \in In(fs, <<>>) : basename(fs.nodes[i].path) = c
    BY <1>6 DEF Entries
  <2> DEFINE p == fs.nodes[i].path
  <2>2. i \in NodeIds /\ fs.nodes[i].used /\ p # <<>> /\ split_parent(p) = <<>>
    BY DEF In
  <2>3. p \in Names
    BY <2>2, NodeFields DEF Table
  <2>4. p = Append(<<>>, c)
    <3>1. p = Append(split_parent(p), basename(p))
      BY <2>2, <2>3, OneMore
    <3> QED BY <2>1, <2>2, <3>1
  <2>5. p = e
    <3>1. Append(<<>>, c) = <<c>>
      OBVIOUS
    <3> QED BY <2>4, <3>1 DEF e
  <2>6. find_external(fs, y) = i
    BY <1>1, <1>2, <2>2, <2>5, Reached
  <2>7. fs.nodes[i].type = "DIR"
    <3>1. TidyNode(fs.nodes[i])
      BY <2>2 DEF Named
    <3> QED BY <2>2, <2>5, <3>1 DEF TidyNode, e
  <2>8. ~(i < 0)
    BY <2>2, Sizes
  <2> QED BY <1>4, <2>6, <2>7, <2>8 DEF fs_stat
<1> QED BY <1>5, <1>6

\* A directory of the file system, and the root with what is virtual in it.
LEMMA DirListed ==
  ASSUME Table(fs), Named(fs), PlainImages, fs.ready, NEW x \in Paths, ~procfs_is_root(x),
         NEW d, d = find_external(fs, x), d # -1, fs.nodes[d].type = "DIR", NEW q, q = fs.nodes[d].path
  PROVE  /\ Cardinality(Listing(x)) = fs_child_count(x)
         /\ Listing(x) = IF fs_is_root(x) THEN Entries(q) \cup {"proc"} ELSE Entries(q)
         /\ \A c \in Listing(x) : fs_stat_type(below(x, c)) # "NONE"
<1> DEFINE g == [k \in Nat |-> get_child_name(fs, x, k)]
           h == [k \in Nat |-> fs_get_child_name(x, k)]
           m == count_children(fs, x)
           n == fs_child_count(x)
           T == IF fs_is_root(x) THEN Entries(q) \cup {"proc"} ELSE Entries(q)
           virtual == fs_is_root(x) /\ ~fs_has_real_proc_dir
<1>1. d \in NodeIds /\ fs.nodes[d].used /\ q = components(x.names) /\ x.slash
  BY LookedUp
<1>2. /\ m \in Nat
      /\ \A k \in 0 .. m - 1 : \E i \in In(fs, q) : get_child_name(fs, x, k) = basename(fs.nodes[i].path)
      /\ \A i \in In(fs, q) : \E k \in 0 .. m - 1 : get_child_name(fs, x, k) = basename(fs.nodes[i].path)
      /\ \A k, l \in 0 .. m - 1 : get_child_name(fs, x, k) = get_child_name(fs, x, l) => k = l
  <2> HIDE DEF m
  <2>1. m = count_children(fs, x)
    BY DEF m
  <2>2. Lists(fs, x, q, m)
    BY <1>1, <2>1, Listed
  <2> QED BY <2>2 DEF Lists
<1> HIDE DEF m
<1>3. \A k \in 0 .. m - 1 : k \in Nat /\ g[k] = get_child_name(fs, x, k)
  BY <1>2
<1> HIDE DEF g
<1>4. Yields(g, m, Entries(q))
  <2> DEFINE K == 0 .. m - 1
  <2>1. \A k \in K : g[k] \in Entries(q)
    BY <1>2, <1>3 DEF Entries
  <2>2. \A c \in Entries(q) : \E k \in K : g[k] = c
    BY <1>2, <1>3 DEF Entries
  <2>3. \A k, l \in K : g[k] = g[l] => k = l
    BY <1>2, <1>3
  <2> HIDE DEF K
  <2>4. Entries(q) = {g[k] : k \in K}
    BY <2>1, <2>2
  <2> QED BY <1>2, <2>3, <2>4 DEF Yields, K
<1>5. fs_is_root(x) => q = <<>>
  BY <1>1, RootIs
<1>6. Yields(h, n, T)
  <2>1. CASE virtual
    <3>1. T = Entries(q) \cup {"proc"} /\ "proc" \notin Entries(q)
      BY <1>5, <2>1, RealProc
    <3>2. n = m + 1
      BY <1>2, <2>1 DEF fs_child_count, m
    <3>3. h[0] = "proc"
      BY <2>1 DEF fs_get_child_name
    <3>4. ASSUME NEW k \in 0 .. m - 1 PROVE h[k + 1] = g[k]
      <4> DEFINE l == k + 1
      <4>1. l \in Nat /\ ~(l = 0) /\ l - 1 = k
        BY <1>2
      <4> HIDE DEF l
      <4>2. h[l] = fs_get_child_name(x, l)
        BY <4>1
      <4>3. fs_get_child_name(x, l) = get_child_name(fs, x, l - 1)
        BY <2>1, <4>1, Zenon DEF fs_get_child_name
      <4>4. h[l] = g[k]
        BY <1>3, <4>1, <4>2, <4>3
      <4> QED BY <4>4 DEF l
    <3> HIDE DEF h, n, T
    <3>5. Yields(h, m + 1, Entries(q) \cup {"proc"})
      BY <1>4, <3>1, <3>3, <3>4, YieldsMore
    <3> QED BY <3>1, <3>2, <3>5
  <2>2. CASE ~virtual
    <3>1. T = Entries(q)
      <4>1. fs_is_root(x) => "proc" \in Entries(q)
        BY <1>5, <2>2, RealProc
      <4> QED BY <4>1
    <3>2. n = m
      BY <1>2, <2>2 DEF fs_child_count, m
    <3>3. \A k \in 0 .. m - 1 : h[k] = g[k]
      <4> SUFFICES ASSUME NEW k \in 0 .. m - 1 PROVE h[k] = g[k]
        OBVIOUS
      <4>1. fs_get_child_name(x, k) = get_child_name(fs, x, k)
        BY <2>2, Zenon DEF fs_get_child_name
      <4> QED BY <1>3, <4>1
    <3> HIDE DEF h, n, T
    <3>4. Yields(h, m, Entries(q))
      <4> DEFINE K == 0 .. m - 1
      <4>1. \A k \in K : h[k] = g[k]
        BY <3>3
      <4>2. Entries(q) = {g[k] : k \in K} /\ \A k, l \in K : g[k] = g[l] => k = l
        BY <1>4 DEF Yields
      <4> HIDE DEF K
      <4>3. Entries(q) = {h[k] : k \in K} /\ \A k, l \in K : h[k] = h[l] => k = l
        BY <4>1, <4>2
      <4> QED BY <1>2, <4>3 DEF Yields, K
    <3> QED BY <3>1, <3>2, <3>4
  <2> QED BY <2>1, <2>2
<1>7. Listing(x) = T
  <2> DEFINE K == 0 .. n - 1
  <2>1. n \in Nat
    BY <1>6 DEF Yields
  <2>2. \A k \in K : k \in Nat
    BY <2>1
  <2>3. \A k \in K : h[k] = fs_get_child_name(x, k)
    BY <2>2
  <2>4. T = {h[k] : k \in K}
    BY <1>6 DEF Yields
  <2>5. Listing(x) = {fs_get_child_name(x, k) : k \in K}
    BY DEF Listing
  <2> HIDE DEF K, h, T
  <2> QED BY <2>3, <2>4, <2>5
<1> HIDE DEF h, n, T
<1>8. Cardinality(T) = n
  BY <1>6, YieldsSize
<1>9. ASSUME NEW c \in T PROVE fs_stat_type(below(x, c)) # "NONE"
  <2> DEFINE y == below(x, c)
  <2>0. "FILE" # "NONE" /\ "DIR" # "NONE"
    OBVIOUS
  <2>1. CASE c \in Entries(q)
    <3>1. PICK i \in In(fs, q) : c = basename(fs.nodes[i].path)
      BY <2>1 DEF Entries
    <3>2. y = below(x, basename(fs.nodes[i].path))
      BY <3>1
    <3> HIDE DEF y
    <3>3. fs_stat(fs, y).type \in {"FILE", "DIR"}
      BY <3>2, StatBelow
    <3>4. fs_stat_type(y) = "DIR" \/ fs_stat_type(y) = "FILE" \/ fs_stat_type(y) = fs_stat(fs, y).type
      BY Zenon DEF fs_stat_type
    <3>5. fs_stat_type(y) # "NONE"
      BY <2>0, <3>3, <3>4
    <3> QED BY <3>5 DEF y
  <2>2. CASE c \notin Entries(q)
    <3>1. fs_is_root(x) /\ c = "proc"
      BY <2>2 DEF T
    <3>2. y = [slash |-> TRUE, names |-> <<"proc">>]
      <4>1. Append(<<>>, c) = <<c>>
        OBVIOUS
      <4>2. y = [slash |-> TRUE, names |-> Append(<<>>, c)]
        BY <3>1 DEF below
      <4> QED BY <3>1, <4>1, <4>2
    <3> HIDE DEF y
    <3>3. fs_stat_type(y) = "DIR"
      BY <3>2, Zenon DEF fs_stat_type, procfs_is_root
    <3> QED BY <2>0, <3>3 DEF y
  <2> QED BY <2>1, <2>2
<1> QED BY <1>7, <1>8, <1>9 DEF T, n

\* What is no directory lists nothing.
LEMMA NoneListed ==
  ASSUME Table(fs), NEW x, ~procfs_is_root(x), NEW d, d = find_external(fs, x), d = -1 \/ fs.nodes[d].type # "DIR"
  PROVE  /\ Cardinality(Listing(x)) = fs_child_count(x)
         /\ Listing(x) = {}
         /\ fs_stat_type(x) # "DIR"
<1>1. ~fs_is_root(x)
  <2> SUFFICES ASSUME fs_is_root(x) PROVE FALSE
    OBVIOUS
  <2>1. x.slash /\ x.names \in {<<>>, <<"">>}
    BY DEF fs_is_root
  <2>2. ".." \notin ToSet(x.names)
    <3>1. ".." \notin ToSet(<<>>)
      BY DEF ToSet
    <3>2. ".." \notin ToSet(<<"">>)
      <4> DEFINE e == <<"">>
      <4>1. DOMAIN e = {1} /\ e[1] = ""
        OBVIOUS
      <4> HIDE DEF e
      <4>2. \A i \in DOMAIN e : e[i] # ".."
        BY <4>1
      <4>3. ".." \notin ToSet(e)
        BY <4>2 DEF ToSet
      <4> QED BY <4>3 DEF e
    <3> QED BY <2>1, <3>1, <3>2
  <2>3. /\ 0 \in NodeIds /\ fs.nodes[0].used /\ fs.nodes[0].type = "DIR" /\ fs.nodes[0].path = <<>>
    BY Sizes DEF Table
  <2>4. components(x.names) = fs.nodes[0].path
    BY <2>3, RootIs
  <2>5. d = 0
    BY <2>1, <2>2, <2>3, <2>4, Reached
  <2> QED BY <2>3, <2>5
<1>2. count_children(fs, x) = 0
  BY DEF count_children
<1>3. fs_child_count(x) = 0
  BY <1>1, <1>2 DEF fs_child_count
<1>4. Listing(x) = {}
  BY <1>3 DEF Listing
<1>5. fs_stat(fs, x).type # "DIR"
  BY DEF fs_stat
<1>6. fs_stat_type(x) = "FILE" \/ fs_stat_type(x) = fs_stat(fs, x).type
  BY Zenon DEF fs_stat_type
<1>7. "FILE" # "DIR"
  OBVIOUS
<1>8. Cardinality({}) = 0
  BY FS_EmptySet
<1> QED BY <1>3, <1>4, <1>5, <1>6, <1>7, <1>8

LEMMA ListExact == ASSUME ListInv PROVE ListingExact
<1> SUFFICES ASSUME PlainImages, fs.ready, NEW x \in Dirs
             PROVE  LET n == fs_child_count(x)
                        names == {fs_get_child_name(x, k) : k \in 0 .. n - 1}
                        here == {basename(Path(i)) : i \in {j \in UsedNodes(fs) :
                                    Path(j) # <<>> /\ split_parent(Path(j)) = normalize_external_path(x)}}
                        there == IF procfs_is_root(x) THEN {"self", "list"} \cup PidNames
                                 ELSE IF normalize_external_path(x) = <<>> THEN here \cup {"proc"} ELSE here
                    IN  /\ Cardinality(names) = n
                        /\ fs_stat_type(x) = "DIR" /\ (x.names = normalize_external_path(x) \/ fs_is_root(x)) => names = there
                        /\ \A c \in names : fs_stat_type(below(x, c)) # "NONE"
  BY DEF ListingExact
<1> DEFINE p == normalize_external_path(x)
           here == {basename(Path(i)) : i \in {j \in UsedNodes(fs) : Path(j) # <<>> /\ split_parent(Path(j)) = p}}
           d == find_external(fs, x)
<1>1. Table(fs) /\ Named(fs) /\ StackInv(stack) /\ UsedNodes(fs) = {i \in NodeIds : fs.nodes[i].used}
  BY UsedIs DEF ListInv, IInv
<1>2. x \in Paths
  BY DirsAssumption DEF Paths, Names
<1>3. here = Entries(p)
  BY <1>1 DEF Entries, In, Path
<1>4. {fs_get_child_name(x, k) : k \in 0 .. fs_child_count(x) - 1} = Listing(x)
  BY DEF Listing
<1> HIDE DEF here, p, d
<1> DEFINE there == IF procfs_is_root(x) THEN {"self", "list"} \cup PidNames
                    ELSE IF p = <<>> THEN here \cup {"proc"} ELSE here
<1>5. /\ Cardinality(Listing(x)) = fs_child_count(x)
      /\ fs_stat_type(x) = "DIR" /\ (x.names = p \/ fs_is_root(x)) => Listing(x) = there
      /\ \A c \in Listing(x) : fs_stat_type(below(x, c)) # "NONE"
  <2>1. CASE procfs_is_root(x)
    <3>1. there = {"self", "list"} \cup PidNames
      BY <2>1
    <3> HIDE DEF there
    <3> QED BY <1>1, <2>1, <3>1, ProcListed
  <2>2. CASE ~procfs_is_root(x) /\ d # -1 /\ fs.nodes[d].type = "DIR"
    <3> DEFINE q == fs.nodes[d].path
    <3>1. q = components(x.names) /\ p = q /\ x.slash
      BY <1>1, <2>2, LookedUp DEF d, p
    <3>2. fs_is_root(x) => q = <<>>
      BY <3>1, RootIs
    <3>3. x.names = p /\ p = <<>> => fs_is_root(x)
      BY <3>1 DEF fs_is_root
    <3>4. there = IF p = <<>> THEN Entries(p) \cup {"proc"} ELSE Entries(p)
      BY <1>3, <2>2
    <3> HIDE DEF there, q
    <3>5. /\ Cardinality(Listing(x)) = fs_child_count(x)
          /\ Listing(x) = IF fs_is_root(x) THEN Entries(q) \cup {"proc"} ELSE Entries(q)
          /\ \A c \in Listing(x) : fs_stat_type(below(x, c)) # "NONE"
      BY <1>1, <1>2, <2>2, DirListed DEF d, q
    <3> QED BY <3>1, <3>2, <3>3, <3>4, <3>5
  <2>3. CASE ~procfs_is_root(x) /\ (d = -1 \/ fs.nodes[d].type # "DIR")
    <3> HIDE DEF there
    <3>1. Cardinality(Listing(x)) = fs_child_count(x) /\ Listing(x) = {} /\ fs_stat_type(x) # "DIR"
      BY <1>1, <2>3, NoneListed DEF d
    <3> QED BY <3>1
  <2> QED BY <2>1, <2>2, <2>3
<1> QED BY <1>4, <1>5 DEF here, p

-----------------------------------------------------------------------------
(* The theorems. *)

LEMMA Invariance == Spec => []IInv
<1>1. Init => IInv
  BY InitInv
<1>2. IInv /\ [Next]_vars => IInv'
  BY StepInv
<1> QED BY <1>1, <1>2, PTL DEF Spec

\* Whatever programs do with files and descriptors, in any order and with the heap or
\* the node table full: every node but the root lies in the directory its path
\* names, no path is there twice, every buffer the file system took belongs to one file
\* and has its size, the five directories stay, and a library loaded from
\* the ramdisk keeps the image it was loaded from.
THEOREM NodesAndBuffers == Spec => []StoreSound
<1>1. IInv => StoreSound
  BY TypeInv, LinksInv, LayoutInv, OwnersInv, ImageInv DEF StoreSound, NodeTable, BuffersSound
<1> QED BY <1>1, Invariance, PTL

\* Whatever the state, what a descriptor would write changes only the bytes it covers:
\* the rest of that file and every other file stay, a gap reads as zeros, O_APPEND adds
\* at the end, and a write that fails (no node, no buffer, a directory, a path that is
\* not below /temp) leaves every file as it was.
THEOREM WritesStayLocal == Spec => []WritesAreLocal
<1>1. IInv => WritesAreLocal
  BY LocalInv
<1> QED BY <1>1, Invariance, PTL

\* In every state, reading a directory by index (the root with its virtual /proc, and /proc
\* itself, included) yields each of its names once and nothing else, and all it
\* yields can be asked for -- if no entry of the ramdisk is called ".." and none is a
\* file /proc.
THEOREM ListingIsExact == Spec => []ListingExact
<1>1. ListInv => ListingExact
  BY ListExact
<1> QED BY <1>1, ListInvariance, PTL

\* The node table with its slots, parent indices and buffers implements a plain tree of
\* names: every system call changes it in one place below /temp (a directory made with
\* those above it, a file written, one entry taken away) or not at all.
THEOREM FilesAreATree == Spec => ImplementsFileMap
<1>1. Init => FM!Init
  <2>1. SUFFICES ASSUME Init PROVE FM!Init
    OBVIOUS
  <2>2. Table(fs)
    BY <2>1, InitInv DEF IInv, StoreInv, FsOK
  <2> DEFINE T == TreeOf(fs)
  <2>3. TreeIs(fs, T)
    BY <2>2, TreeOfIs
  <2> HIDE DEF T
  <2>4. FM!Closed(T)
    BY <2>2, <2>3, TreeClosed
  <2> QED BY <2>4 DEF FM!Init, T
<1>2. IInv /\ [Next]_vars => [\E old \in {TreeOf(fs)}, new \in {TreeOf(fs')} : old = new \/ FM!Change(old, new)]_fs
  BY MapStep
<1> QED BY <1>1, <1>2, Invariance, PTL DEF Spec, ImplementsFileMap
=============================================================================
