---------------------------- MODULE Elf64Proofs ----------------------------
(***************************************************************************)
(* Proofs about Elf64, for every modulus, limit and set of files.          *)
(***************************************************************************)
EXTENDS Elf64, FiniteSetTheorems, TLAPS

Labels == {"start", "headers", "measure", "copy", "loaded", "sections", "symbols", "failed", "overrun"}
LoadedType == [entry : U64, base : BOOLEAN, size : U64, vaddr : U64, segments : Seq(Nat)]
N == Len(img.ph)

\* The types.
Types ==
    /\ img \in Images
    /\ pc \in Labels
    /\ i \in 0 .. N + 1
    /\ pc \in {"headers", "measure", "copy"} => i >= 1
    /\ min_vaddr \in U64 /\ max_vaddr_end \in U64 /\ load_count \in 0 .. N
    /\ loaded \in LoadedType
    /\ Len(loaded.segments) <= MAX_SEGMENTS
    /\ loaded.base <=> (pc = "copy" \/ Built)
    /\ ~loaded.base => loaded = NotLoaded
    /\ block = IF loaded.base THEN [a \in 0 .. loaded.size - 1 |-> block[a]] ELSE NoBlock
    /\ held \in Nat /\ loaded.size <= held /\ (~loaded.base /\ pc # "overrun" => held = 0)

\* What the first two loops have found out about the file.
Valid(k) == HeaderOK(img) /\ \A j \in 1 .. k : segment_ok(img.ph[j], img.size)
FileValid ==
    /\ pc = "headers" => Valid(i - 1)
    /\ pc \in {"measure", "copy"} \/ Built => Valid(N)

\* The measures hold every segment seen so far.
Inside(h, from, upto) == from <= h.vaddr /\ h.vaddr + h.memsz <= upto
Measures ==
    pc = "measure" =>
        /\ load_count = Cardinality(Segments(img, i - 1))
        /\ load_count # 0 => min_vaddr < max_vaddr_end
        /\ \A j \in Segments(img, i - 1) : Inside(img.ph[j], min_vaddr, max_vaddr_end)

\* The block holds every segment, and there is a place for each in the record.
Placement ==
    pc = "copy" \/ Built =>
        /\ \A j \in Segments(img, N) : Inside(img.ph[j], loaded.vaddr, loaded.vaddr + loaded.size)
        /\ Cardinality(Segments(img, N)) <= MAX_SEGMENTS
        /\ pc = "copy" => Len(loaded.segments) = Cardinality(Segments(img, i - 1))

\* The segments copied so far are laid out, and the rest of the block is zero.
Done == IF pc = "copy" THEN i - 1 ELSE N
FromFile(h, a) == a >= h.vaddr - loaded.vaddr /\ a < h.vaddr - loaded.vaddr + h.filesz
Disjoint == \A j, k \in Segments(img, N) : j # k => ~Overlap(img.ph[j], img.ph[k])
LaidOut(h) == \A n \in 0 .. h.memsz - 1 :
                block[h.vaddr - loaded.vaddr + n] = IF n < h.filesz THEN h.offset + n ELSE ZERO
Layout ==
    pc = "copy" \/ Built =>
        /\ Disjoint => \A j \in Segments(img, Done) : LaidOut(img.ph[j])
        /\ \A a \in 0 .. loaded.size - 1 :
              (\A j \in Segments(img, Done) : ~FromFile(img.ph[j], a)) => block[a] = ZERO

\* A search is in tables of the file.
SearchInv ==
    /\ pc \in {"sections", "symbols"} => Searchable(img) /\ look.sec \in Nat \ {0} /\ look.sym \in Nat
    /\ pc = "symbols" => /\ look.sec <= Len(img.sh)
                         /\ usable(img, img.sh[look.sec]) /\ strtab_ok(img, img.sh[look.sec])

LoaderInv == Types /\ FileValid /\ Measures /\ Placement /\ Layout /\ SearchInv /\ AccessInBounds

-----------------------------------------------------------------------------
(***************************************************************************)
(* The file and its segments.                                              *)
(***************************************************************************)
LEMMA Limits == WORD \in Nat /\ WORD > 1 /\ MAX_SEGMENTS \in Nat
  BY ElfAssumption

LEMMA HeaderFacts ==
    ASSUME NEW m \in Images
    PROVE  /\ ImageOK(m) /\ Len(m.ph) \in Nat /\ Len(m.sh) \in Nat
           /\ \A j \in 1 .. Len(m.ph) : m.ph[j] \in ProgramHeader
           /\ \A j \in 1 .. Len(m.sh) : m.sh[j] \in SectionHeader
  BY ElfAssumption DEF ImageOK

LEMMA SegmentsAreFinite ==
    ASSUME NEW m, NEW k \in Nat
    PROVE  /\ IsFiniteSet(Segments(m, k))
           /\ Cardinality(Segments(m, k)) \in 0 .. k
<1>1. IsFiniteSet(1 .. k) /\ Cardinality(1 .. k) = k
  BY FS_Interval
<1>2. Segments(m, k) \subseteq 1 .. k
  BY DEF Segments
<1> QED
  BY <1>1, <1>2, FS_Subset, FS_CardinalityType

\* The segments up to a header are those before it, and that header if it is one.
LEMMA NextSegment ==
    ASSUME NEW m, NEW k \in Nat \ {0}
    PROVE  /\ ~loads(m.ph[k]) => Segments(m, k) = Segments(m, k - 1)
           /\ loads(m.ph[k]) =>
                /\ Segments(m, k) = Segments(m, k - 1) \cup {k}
                /\ Cardinality(Segments(m, k)) = Cardinality(Segments(m, k - 1)) + 1
<1>1. /\ ~loads(m.ph[k]) => Segments(m, k) = Segments(m, k - 1)
      /\ loads(m.ph[k]) => Segments(m, k) = Segments(m, k - 1) \cup {k}
  BY DEF Segments
<1>2. k \notin Segments(m, k - 1)
  BY DEF Segments
<1>a. IsFiniteSet(Segments(m, k - 1))
  <2>1. k - 1 \in Nat
    OBVIOUS
  <2> QED
    BY <2>1, SegmentsAreFinite
<1>3. Cardinality(Segments(m, k - 1) \cup {k}) = Cardinality(Segments(m, k - 1)) + 1
  BY <1>2, <1>a, FS_AddElement
<1> QED
  BY <1>1, <1>3

LEMMA MoreSegments ==
    ASSUME NEW m, NEW k \in Nat, NEW n \in Nat, k <= n
    PROVE  /\ Segments(m, k) \subseteq Segments(m, n)
           /\ Cardinality(Segments(m, k)) <= Cardinality(Segments(m, n))
<1>1. Segments(m, k) \subseteq Segments(m, n)
  BY DEF Segments
<1> QED
  BY <1>1, SegmentsAreFinite, FS_Subset

LEMMA InitInv == Init => LoaderInv
<1> SUFFICES ASSUME Init PROVE LoaderInv
  OBVIOUS
<1>1. N \in Nat /\ ImageOK(img)
  BY HeaderFacts DEF Init, N
<1>2. Types
  BY <1>1, ElfAssumption DEF Init, Types, Labels, N, U64, LoadedType, NotLoaded, Built, NoBlock
<1>3. FileValid /\ Measures /\ Placement /\ Layout /\ SearchInv
  BY DEF Init, FileValid, Measures, Placement, Layout, SearchInv, Built
<1>4. AccessInBounds
  BY DEF Init, AccessInBounds
<1> QED
  BY <1>2, <1>3, <1>4 DEF LoaderInv

-----------------------------------------------------------------------------
(***************************************************************************)
(* The two loops over the headers.                                         *)
(***************************************************************************)
\* A header that a loop reads lies in the file.
LEMMA HeaderRead ==
    ASSUME Types, HeaderOK(img), i \in 1 .. N
    PROVE  \A r \in ReadsHeader : 0 <= r[1] /\ r[2] <= img.size
<1>1. ImageOK(img) /\ N \in Nat
  BY HeaderFacts DEF Types, N
<1>2. /\ img.phoff \in Nat /\ img.size \in Nat
      /\ img.phoff <= img.size /\ PHDR * N <= img.size - img.phoff
  BY <1>1, ElfAssumption DEF HeaderOK, range_ok, ImageOK, U64, N
<1>3. i \in Nat /\ 1 <= i /\ PHDR * (i - 1) \in Nat /\ PHDR * (i - 1) + PHDR <= PHDR * N
  BY <1>1 DEF PHDR
<1>4. \A r \in ReadsHeader : r = <<ph_at(img, i), ph_at(img, i) + PHDR>>
  BY DEF ReadsHeader
<1>5. 0 <= ph_at(img, i) /\ ph_at(img, i) + PHDR <= img.size
  BY <1>1, <1>2, <1>3 DEF ph_at, PHDR
<1> QED
  BY <1>4, <1>5

LEMMA FailInv ==
    ASSUME LoaderInv, Fail, UNCHANGED img, loaded' = NotLoaded, block' = NoBlock, held' = 0,
           min_vaddr' \in U64, max_vaddr_end' \in U64, load_count' \in 0 .. N, AccessInBounds'
    PROVE  LoaderInv'
<1>1. Types'
  <2>1. Types /\ pc' = "failed" /\ i' = 0 /\ N' = N /\ N \in Nat
    BY HeaderFacts DEF LoaderInv, Types, Fail, N
  <2>2. NotLoaded \in LoadedType /\ NotLoaded.base = FALSE /\ NotLoaded.segments = <<>>
    BY ElfAssumption DEF LoadedType, NotLoaded, U64
  <2>3. Len(NotLoaded.segments) <= MAX_SEGMENTS /\ NotLoaded.size = 0
    BY <2>2, ElfAssumption DEF NotLoaded
  <2>4. img' \in Images /\ pc' \in Labels /\ i' \in 0 .. N' + 1 /\ load_count' \in 0 .. N'
    BY <2>1 DEF Types, Labels
  <2>5. pc' \notin {"headers", "measure", "copy"} /\ ~(pc = "copy" \/ Built)'
    BY <2>1 DEF Built
  <2> QED
    BY <2>2, <2>3, <2>4, <2>5 DEF Types
<1>2. FileValid' /\ Measures' /\ Placement' /\ Layout' /\ SearchInv'
  BY DEF Fail, FileValid, Measures, Placement, Layout, SearchInv, Built
<1> QED
  BY <1>1, <1>2 DEF LoaderInv

\* Before the block is allocated, and after a failure, there is none.
LEMMA NotLoadedYet ==
    ASSUME LoaderInv, pc \in {"start", "headers", "measure", "failed"}
    PROVE  loaded = NotLoaded /\ block = NoBlock /\ held = 0
  BY DEF LoaderInv, Types, Built, NoBlock

LEMMA ValidateFileInv ==
    ASSUME LoaderInv, ValidateFile
    PROVE  LoaderInv'
<1>1. loaded = NotLoaded /\ block = NoBlock /\ held = 0
  BY NotLoadedYet DEF ValidateFile
<1>2. AccessInBounds'
  BY HeaderFacts DEF LoaderInv, Types, ValidateFile, Touches, Goto, Fail, AccessInBounds, EHDR, ImageOK, U64
<1>3. CASE HeaderOK(img)
  <2>1. Types'
    BY <1>1, <1>3, HeaderFacts DEF LoaderInv, Types, ValidateFile, Goto, Labels, Built, N, NotLoaded, measured
  <2>2. FileValid' /\ Measures' /\ Placement' /\ Layout' /\ SearchInv'
    BY <1>3 DEF ValidateFile, Goto, FileValid, Valid, Measures, Placement, Layout, SearchInv, Built
  <2> QED
    BY <1>2, <2>1, <2>2 DEF LoaderInv
<1>4. CASE ~HeaderOK(img)
  BY <1>1, <1>2, <1>4, FailInv DEF ValidateFile, LoaderInv, Types, measured, N
<1> QED
  BY <1>3, <1>4

LEMMA ValidateHeaderInv ==
    ASSUME LoaderInv, ValidateHeader
    PROVE  LoaderInv'
<1>1. loaded = NotLoaded /\ block = NoBlock /\ held = 0
  BY NotLoadedYet DEF ValidateHeader, AtHeader
<1>2. HeaderOK(img) /\ i \in 1 .. N
  BY HeaderFacts DEF LoaderInv, Types, FileValid, Valid, ValidateHeader, AtHeader, N
<1>3. AccessInBounds'
  <2>1. access' = [file |-> ReadsHeader, mem |-> {}] /\ img' = img /\ pc' # "overrun"
    BY DEF ValidateHeader, AtHeader, Fail, Touches
  <2> QED
    BY <1>2, <2>1, HeaderRead DEF LoaderInv, AccessInBounds
<1>4. CASE segment_ok(img.ph[i], img.size)
  <2>1. Types'
    BY <1>1, <1>2, <1>4, HeaderFacts
    DEF LoaderInv, Types, ValidateHeader, AtHeader, Labels, Built, N, NotLoaded, measured
  <2>2. FileValid'
    BY <1>2, <1>4, HeaderFacts DEF LoaderInv, Types, FileValid, Valid, ValidateHeader, AtHeader, Built, N
  <2>3. Measures' /\ Placement' /\ Layout' /\ SearchInv'
    BY <1>4 DEF ValidateHeader, AtHeader, Measures, Placement, Layout, SearchInv, Built
  <2> QED
    BY <1>3, <2>1, <2>2, <2>3 DEF LoaderInv
<1>5. CASE ~segment_ok(img.ph[i], img.size)
  BY <1>1, <1>3, <1>5, FailInv DEF ValidateHeader, LoaderInv, Types, measured, N
<1> QED
  BY <1>4, <1>5

LEMMA ValidateDoneInv ==
    ASSUME LoaderInv, ValidateDone
    PROVE  LoaderInv'
<1>1. loaded = NotLoaded /\ block = NoBlock /\ held = 0
  BY NotLoadedYet DEF ValidateDone, PastHeaders
<1>2. Types' /\ AccessInBounds'
  BY <1>1, HeaderFacts, ElfAssumption
  DEF LoaderInv, Types, ValidateDone, PastHeaders, Goto, Labels, Built, N, NotLoaded, U64, Touches, AccessInBounds
<1>3. FileValid'
  BY HeaderFacts DEF LoaderInv, Types, FileValid, Valid, ValidateDone, PastHeaders, Goto, Built, N
<1>4. Segments(img, 0) = {} /\ Cardinality(Segments(img, 0)) = 0
  BY FS_EmptySet DEF Segments
<1>5. Measures'
  BY <1>4 DEF ValidateDone, Goto, Measures, Segments
<1>6. Placement' /\ Layout' /\ SearchInv'
  BY DEF ValidateDone, Goto, Placement, Layout, SearchInv, Built
<1> QED
  BY <1>2, <1>3, <1>5, <1>6 DEF LoaderInv

\* A segment that does not wrap ends where it should.
LEMMA NoWrap ==
    ASSUME NEW h \in ProgramHeader, ~wraps(h)
    PROVE  add(h.vaddr, h.memsz) = h.vaddr + h.memsz /\ h.vaddr + h.memsz < WORD
  BY ElfAssumption DEF wraps, add, ProgramHeader, U64

LEMMA MeasureInv ==
    ASSUME LoaderInv, Measure
    PROVE  LoaderInv'
<1> DEFINE h == img.ph[i]
<1>1. loaded = NotLoaded /\ block = NoBlock /\ held = 0
  BY NotLoadedYet DEF Measure, AtHeader
<1>2. /\ HeaderOK(img) /\ i \in 1 .. N /\ N \in Nat /\ h \in ProgramHeader
      /\ i - 1 \in Nat /\ Segments(img, i - 1) \subseteq 1 .. N
      /\ \A j \in 1 .. N : img.ph[j] \in ProgramHeader
  BY HeaderFacts DEF LoaderInv, Types, FileValid, Valid, Measure, AtHeader, N, Segments
<1>3. AccessInBounds'
  <2>1. access' = [file |-> ReadsHeader, mem |-> {}] /\ img' = img /\ pc' # "overrun"
    BY DEF Measure, AtHeader, Fail, Touches
  <2> QED
    BY <1>2, <2>1, HeaderRead DEF LoaderInv, AccessInBounds
<1>4. /\ load_count = Cardinality(Segments(img, i - 1))
      /\ load_count # 0 => min_vaddr < max_vaddr_end
      /\ \A j \in Segments(img, i - 1) : Inside(img.ph[j], min_vaddr, max_vaddr_end)
      /\ min_vaddr \in U64 /\ max_vaddr_end \in U64 /\ load_count \in 0 .. i - 1
  BY <1>2, SegmentsAreFinite DEF LoaderInv, Types, Measures, Measure, AtHeader
<1>5. CASE ~loads(h)
  <2>1. Types'
    BY <1>1, <1>2, <1>5 DEF LoaderInv, Types, Measure, AtHeader, Labels, Built, N, NotLoaded, measured
  <2>2. FileValid'
    BY <1>2, <1>5 DEF LoaderInv, FileValid, Valid, Measure, AtHeader, Built, N
  <2>3. Segments(img, i) = Segments(img, i - 1)
    BY <1>2, <1>5, NextSegment
  <2>4. Measures'
    BY <1>2, <1>4, <1>5, <2>3 DEF Measures, Measure, AtHeader, measured
  <2>5. Placement' /\ Layout' /\ SearchInv'
    BY <1>5 DEF Measure, AtHeader, Placement, Layout, SearchInv, Built
  <2> QED
    BY <1>3, <2>1, <2>2, <2>4, <2>5 DEF LoaderInv
<1>6. CASE loads(h) /\ wraps(h)
  BY <1>1, <1>3, <1>6, FailInv DEF Measure, LoaderInv, Types, measured, N
<1>7. CASE loads(h) /\ ~wraps(h)
  <2>0. /\ pc' = pc /\ i' = i + 1 /\ pc = "measure"
        /\ min_vaddr' = IF lower(h) THEN h.vaddr ELSE min_vaddr
        /\ max_vaddr_end' = IF higher(h) THEN add(h.vaddr, h.memsz) ELSE max_vaddr_end
        /\ load_count' = load_count + 1
        /\ img' = img /\ loaded' = loaded /\ block' = block /\ held' = held /\ look' = look
    BY <1>7 DEF Measure, AtHeader
  <2>1. /\ add(h.vaddr, h.memsz) = h.vaddr + h.memsz /\ h.vaddr + h.memsz < WORD
        /\ h.vaddr \in Nat /\ h.memsz \in Nat \ {0} /\ h.vaddr \in U64
    BY <1>2, <1>7, NoWrap, ElfAssumption DEF ProgramHeader, U64, loads
  <2>2. /\ Segments(img, i) = Segments(img, i - 1) \cup {i}
        /\ Cardinality(Segments(img, i)) = load_count + 1
    BY <1>2, <1>4, <1>7, NextSegment
  <2>3. /\ min_vaddr' \in U64 /\ max_vaddr_end' \in U64 /\ load_count' \in 1 .. i
        /\ min_vaddr' < max_vaddr_end' /\ min_vaddr' <= h.vaddr /\ h.vaddr + h.memsz <= max_vaddr_end'
        /\ load_count # 0 => min_vaddr' <= min_vaddr /\ max_vaddr_end <= max_vaddr_end'
    BY <2>0, <2>1, <1>2, <1>4, ElfAssumption DEF lower, higher, U64
  <2>4. Types'
    BY <1>1, <1>2, <2>0, <2>3 DEF LoaderInv, Types, Labels, Built, N, NotLoaded
  <2>5. FileValid'
    BY <2>0, <1>2 DEF LoaderInv, FileValid, Valid, Built, N
  <2>6. ASSUME NEW j \in Segments(img, i)
        PROVE  Inside(img.ph[j], min_vaddr', max_vaddr_end')
    <3>1. CASE j = i
      BY <3>1, <2>3 DEF Inside
    <3>2. CASE j \in Segments(img, i - 1)
      <4>1. load_count # 0
        BY <3>2, <1>2, <1>4, SegmentsAreFinite, FS_EmptySet
      <4>2. img.ph[j].vaddr \in Nat /\ img.ph[j].memsz \in Nat
        BY <3>2, <1>2, ElfAssumption DEF ProgramHeader, U64
      <4> QED
        BY <3>2, <4>1, <4>2, <1>4, <2>3, ElfAssumption DEF Inside, U64
    <3> QED
      BY <2>2, <3>1, <3>2
  <2>7. Measures'
    <3>1. i' - 1 = i
      BY <2>0, <1>2
    <3>2. load_count' = Cardinality(Segments(img', i' - 1)) /\ Segments(img', i' - 1) = Segments(img, i)
      BY <3>1, <2>0, <2>2
    <3> QED
      BY <3>2, <2>0, <2>3, <2>6 DEF Measures
  <2>8. Placement' /\ Layout' /\ SearchInv'
    BY <2>0 DEF Placement, Layout, SearchInv, Built
  <2> QED
    BY <1>3, <2>4, <2>5, <2>7, <2>8 DEF LoaderInv
<1> QED
  BY <1>5, <1>6, <1>7

-----------------------------------------------------------------------------
(***************************************************************************)
(* The image.                                                              *)
(***************************************************************************)
\* A size is rounded up to no less than itself, unless that wraps.
LEMMA AlignUp ==
    ASSUME NEW size \in U64
    PROVE  align_up(size) \in Nat /\ (~oversized(size) => size <= align_up(size))
<1>1. size \in Nat /\ size < WORD /\ WORD \in Nat /\ ALIGN \in Nat \ {0} /\ ALIGN <= WORD
  BY ElfAssumption DEF U64
<1> DEFINE sum == add(size, ALIGN - 1)
<1>2. sum \in Nat /\ (~oversized(size) => sum = size + (ALIGN - 1))
  BY <1>1 DEF add, oversized
<1>3. align_up(size) = sum - (sum % ALIGN)
  BY DEF align_up
<1> HIDE DEF sum
<1>4. sum % ALIGN \in 0 .. ALIGN - 1 /\ sum % ALIGN <= sum
  BY <1>1, <1>2
<1> QED
  BY <1>1, <1>2, <1>3, <1>4

LEMMA AllocateFailsInv ==
    ASSUME LoaderInv, AllocateFails
    PROVE  LoaderInv'
<1>1. loaded = NotLoaded /\ block = NoBlock /\ held = 0
  BY NotLoadedYet DEF AllocateFails, PastHeaders
<1>2. AccessInBounds'
  BY DEF AllocateFails, Fail, AccessInBounds, Touches
<1> QED
  BY <1>1, <1>2, FailInv DEF AllocateFails, LoaderInv, Types, measured, N

LEMMA AllocateInv ==
    ASSUME LoaderInv, NEW rest \in 0 .. SPARE - 1, Allocate(rest)
    PROVE  LoaderInv'
<1>1. loaded = NotLoaded /\ block = NoBlock /\ held = 0
  BY NotLoadedYet DEF Allocate, PastHeaders
<1>2. /\ N \in Nat /\ i - 1 = N /\ ImageOK(img) /\ Valid(N)
      /\ \A j \in 1 .. N : img.ph[j] \in ProgramHeader
  BY HeaderFacts DEF LoaderInv, Types, FileValid, Allocate, PastHeaders, N
<1>3. /\ load_count = Cardinality(Segments(img, N)) /\ load_count <= MAX_SEGMENTS
      /\ min_vaddr < max_vaddr_end /\ min_vaddr \in U64 /\ max_vaddr_end \in U64
      /\ \A j \in Segments(img, N) : Inside(img.ph[j], min_vaddr, max_vaddr_end)
  BY <1>2 DEF LoaderInv, Types, Measures, Allocate, PastHeaders, measure_ok
<1>4. span = max_vaddr_end - min_vaddr /\ span \in U64 /\ span \in Nat
  BY <1>3, ElfAssumption DEF span, sub, U64
<1>5. held' \in Nat /\ held' = align_up(span) + rest /\ (span <= held' \/ oversized(span))
  <2>1. align_up(span) \in Nat /\ (~oversized(span) => span <= align_up(span))
    BY <1>4, AlignUp
  <2>2. held' = align_up(span) + rest /\ rest \in Nat
    BY ElfAssumption DEF Allocate
  <2> QED
    BY <1>4, <2>1, <2>2
<1>6. CASE span <= held'
  <2>0. /\ pc' = "copy" /\ i' = 1 /\ img' = img /\ look' = look
        /\ UNCHANGED measured
        /\ block' = cleared(span)
        /\ loaded' = [entry |-> img.entry, base |-> TRUE, size |-> span, vaddr |-> min_vaddr, segments |-> <<>>]
        /\ access' = [file |-> {}, mem |-> {<<0, span>>}]
    BY <1>6 DEF Allocate, Goto, Touches
  <2>3. Types'
    <3>1. loaded' \in LoadedType /\ Len(loaded'.segments) <= MAX_SEGMENTS /\ loaded'.size = span
      BY <2>0, <1>3, <1>4, <1>2, ElfAssumption DEF LoadedType, ImageOK
    <3>2. block' = [a \in 0 .. loaded'.size - 1 |-> block'[a]]
      BY <2>0 DEF cleared
    <3> QED
      BY <3>1, <3>2, <2>0, <1>2, <1>5, <1>6 DEF LoaderInv, Types, Labels, Built, N, measured
  <2>4. FileValid'
    BY <2>0, <1>2 DEF FileValid, Valid, N
  <2>5. Segments(img, 0) = {} /\ Cardinality(Segments(img, 0)) = 0
    BY FS_EmptySet DEF Segments
  <2>6. Placement'
    <3>1. min_vaddr + span = max_vaddr_end
      BY <1>3, <1>4, ElfAssumption DEF U64
    <3> QED
      BY <3>1, <2>0, <1>3, <2>5 DEF Placement, N
  <2>7. Layout'
    BY <2>0, <2>5 DEF Layout, Done, cleared
  <2>8. Measures' /\ SearchInv' /\ AccessInBounds'
    BY <2>0, <1>4, <1>6 DEF Measures, SearchInv, AccessInBounds
  <2> QED
    BY <2>3, <2>4, <2>6, <2>7, <2>8 DEF LoaderInv
<1>7. CASE ~(span <= held')
  <2>0. /\ pc' = "overrun" /\ i' = 0 /\ UNCHANGED <<img, measured, loaded, block, look>>
        /\ access' = [file |-> {}, mem |-> {<<0, span>>}] /\ oversized(span)
    BY <1>5, <1>7 DEF Allocate, Touches
  <2>1. Types'
    BY <2>0, <1>1, <1>2, <1>5 DEF LoaderInv, Types, Labels, Built, N, NotLoaded, measured
  <2>2. FileValid' /\ Measures' /\ Placement' /\ Layout' /\ SearchInv'
    BY <2>0 DEF FileValid, Measures, Placement, Layout, SearchInv, Built
  <2>3. AccessInBounds'
    <3>1. span' = span
      BY <2>0 DEF span, measured
    <3> QED
      BY <2>0, <3>1, <1>4 DEF AccessInBounds, oversized
  <2> QED
    BY <2>1, <2>2, <2>3 DEF LoaderInv
<1> QED
  BY <1>6, <1>7

LEMMA CopySegmentInv ==
    ASSUME LoaderInv, CopySegment
    PROVE  LoaderInv' /\ pc' # "failed"
<1> DEFINE h == img.ph[i]
<1>1. /\ HeaderOK(img) /\ Valid(N) /\ i \in 1 .. N /\ N \in Nat /\ h \in ProgramHeader
      /\ i - 1 \in Nat /\ Segments(img, N) \subseteq 1 .. N /\ Segments(img, i - 1) \subseteq Segments(img, N)
      /\ \A j \in 1 .. N : img.ph[j] \in ProgramHeader
      /\ pc = "copy" /\ Done = i - 1
  BY HeaderFacts DEF LoaderInv, Types, FileValid, Valid, CopySegment, AtHeader, N, Segments, Done
<1>2. /\ loaded \in LoadedType /\ loaded.base /\ loaded.size \in Nat /\ loaded.vaddr \in Nat
      /\ loaded.segments \in Seq(Nat)
      /\ block = [a \in 0 .. loaded.size - 1 |-> block[a]]
      /\ held \in Nat /\ loaded.size <= held
  BY <1>1, ElfAssumption DEF LoaderInv, Types, LoadedType, U64
<1>b. loaded.size \in Nat /\ loaded.vaddr \in Nat
  BY <1>2
<1>3. /\ \A j \in Segments(img, N) : Inside(img.ph[j], loaded.vaddr, loaded.vaddr + loaded.size)
      /\ Cardinality(Segments(img, N)) <= MAX_SEGMENTS
      /\ Len(loaded.segments) = Cardinality(Segments(img, i - 1))
  BY <1>1 DEF LoaderInv, Placement
<1>4. /\ Disjoint => \A j \in Segments(img, i - 1) : LaidOut(img.ph[j])
      /\ \A a \in 0 .. loaded.size - 1 :
            (\A j \in Segments(img, i - 1) : ~FromFile(img.ph[j], a)) => block[a] = ZERO
  BY <1>1 DEF LoaderInv, Layout
<1>5. \A r \in ReadsHeader : 0 <= r[1] /\ r[2] <= img.size
  BY <1>1, HeaderRead DEF LoaderInv
<1>6. CASE ~loads(h)
  <2>0. /\ pc' = pc /\ i' = i + 1 /\ UNCHANGED <<img, loaded, block, held, look, measured>>
        /\ access' = [file |-> ReadsHeader, mem |-> {}]
    BY <1>6 DEF CopySegment, Touches
  <2>1. Types' /\ FileValid'
    <3>1. N' = N /\ Built' = Built /\ i' \in 0 .. N + 1 /\ i' >= 1
      BY <1>1, <2>0 DEF N, Built
    <3>2. Types'
      BY <3>1, <1>1, <1>2, <2>0 DEF LoaderInv, Types, measured
    <3>3. FileValid'
      BY <3>1, <1>1, <2>0 DEF FileValid, Valid
    <3> QED
      BY <3>2, <3>3
  <2>2. Segments(img', i' - 1) = Segments(img, i - 1)
    <3>1. i' - 1 = i
      BY <1>1, <2>0
    <3> QED
      BY <1>1, <1>6, <2>0, <3>1, NextSegment
  <2>3. Placement'
    BY <1>1, <1>3, <2>0, <2>2 DEF Placement, N
  <2>4. Layout'
    <3>1. Done' = i' - 1 /\ (Disjoint' <=> Disjoint) /\ img' = img /\ loaded' = loaded /\ block' = block
      BY <1>1, <2>0 DEF Done, Disjoint, N
    <3> QED
      BY <1>4, <2>2, <3>1 DEF Layout, LaidOut, FromFile
  <2>5. Measures' /\ SearchInv' /\ AccessInBounds'
    BY <1>1, <1>5, <2>0 DEF Measures, SearchInv, AccessInBounds
  <2> QED
    BY <1>1, <2>0, <2>1, <2>3, <2>4, <2>5 DEF LoaderInv
<1>7. CASE loads(h)
  <2>1. /\ Segments(img, i) = Segments(img, i - 1) \cup {i}
        /\ Cardinality(Segments(img, i)) = Len(loaded.segments) + 1
        /\ i \in Segments(img, N)
    BY <1>1, <1>3, <1>7, NextSegment DEF Segments
  <2>2. Len(loaded.segments) < MAX_SEGMENTS
    <3>1. Cardinality(Segments(img, i)) <= Cardinality(Segments(img, N))
      BY <1>1, MoreSegments
    <3>2. Cardinality(Segments(img, N)) \in Nat /\ Len(loaded.segments) \in Nat
      BY <1>1, <1>2, SegmentsAreFinite
    <3> QED
      BY <2>1, <3>1, <3>2, <1>3, ElfAssumption
  <2>3. /\ h.vaddr \in Nat /\ h.memsz \in Nat \ {0} /\ h.offset \in Nat /\ h.filesz \in Nat
        /\ h.filesz <= h.memsz /\ h.offset + h.filesz <= img.size
    <3>1. segment_ok(h, img.size) /\ h.load /\ h.memsz # 0
      BY <1>1, <1>7 DEF Valid, loads
    <3>2. h.vaddr \in Nat /\ h.memsz \in Nat /\ h.offset \in Nat /\ h.filesz \in Nat /\ img.size \in Nat
      <4>1. img.size \in U64
        BY HeaderFacts DEF LoaderInv, Types, ImageOK
      <4>2. h.vaddr \in U64 /\ h.memsz \in U64 /\ h.offset \in U64 /\ h.filesz \in U64
        BY <1>1 DEF ProgramHeader
      <4> HIDE DEF h
      <4> QED
        BY <4>1, <4>2, ElfAssumption DEF U64
    <3> QED
      BY <3>1, <3>2 DEF segment_ok, range_ok
  <2>4. /\ seg_off(h) = h.vaddr - loaded.vaddr /\ seg_off(h) \in Nat
        /\ seg_off(h) + h.memsz <= loaded.size /\ seg_fits(h)
    <3>1. loaded.vaddr <= h.vaddr /\ h.vaddr + h.memsz <= loaded.vaddr + loaded.size
      BY <2>1, <1>3 DEF Inside
    <3>2. seg_off(h) = h.vaddr - loaded.vaddr
      BY <3>1 DEF seg_off, sub
    <3>3. h.vaddr \in Nat /\ h.memsz \in Nat /\ loaded.vaddr \in Nat /\ loaded.size \in Nat
      BY <2>3, <1>2
    <3> HIDE DEF h
    <3>4. seg_off(h) \in Nat /\ seg_off(h) + h.memsz <= loaded.size
      BY <3>1, <3>2, <3>3
    <3> QED
      BY <3>2, <3>3, <3>4 DEF seg_fits
  <2>a. ~(Len(loaded.segments) >= MAX_SEGMENTS \/ ~seg_fits(h))
    BY <2>2, <2>4, <1>1, <1>2, <1>3, SegmentsAreFinite, ElfAssumption
  <2>5. /\ pc' = pc /\ i' = i + 1 /\ UNCHANGED <<img, look, measured, held>>
        /\ block' = placed(block, h)
        /\ loaded' = [loaded EXCEPT !.segments = Append(@, i)]
        /\ access' = [file |-> ReadsHeader \cup {<<h.offset, h.offset + h.filesz>>},
                      mem |-> {<<seg_off(h), seg_off(h) + h.filesz>>}]
    BY <1>7, <2>a DEF CopySegment, Touches
  <2>6. /\ loaded' \in LoadedType /\ Len(loaded'.segments) = Len(loaded.segments) + 1
        /\ loaded'.base /\ loaded'.size = loaded.size /\ loaded'.vaddr = loaded.vaddr
    <3>1. Append(loaded.segments, i) \in Seq(Nat) /\ Len(Append(loaded.segments, i)) = Len(loaded.segments) + 1
      BY <1>1, <1>2
    <3>2. /\ loaded' = [loaded EXCEPT !.segments = Append(loaded.segments, i)]
          /\ loaded \in LoadedType /\ loaded.base
      BY <2>5, <1>2
    <3> QED
      BY <3>1, <3>2 DEF LoadedType
  <2>7. /\ block' = [a \in 0 .. loaded.size - 1 |-> block'[a]]
        /\ \A a \in 0 .. loaded.size - 1 : block'[a] =
              IF FromFile(h, a) THEN h.offset + (a - (h.vaddr - loaded.vaddr)) ELSE block[a]
    <3>1. DOMAIN block = 0 .. loaded.size - 1
      BY <1>2
    <3> QED
      BY <3>1, <2>4, <2>5 DEF placed, FromFile
  <2>8. Types'
    <3>1. /\ img' \in Images /\ pc' \in Labels /\ pc' = "copy" /\ N' = N /\ held' = held
          /\ min_vaddr' \in U64 /\ max_vaddr_end' \in U64 /\ load_count' \in 0 .. N'
      BY <1>1, <2>5 DEF LoaderInv, Types, N, measured
    <3>2. i' \in 0 .. N' + 1 /\ i' >= 1
      BY <3>1, <1>1, <2>5
    <3>a. Len(loaded.segments) \in Nat
      BY <1>2
    <3>3. Len(loaded'.segments) <= MAX_SEGMENTS /\ held' \in Nat /\ loaded'.size <= held'
      BY <3>1, <3>a, <1>2, <2>2, <2>6, Limits
    <3>4. block' = [a \in 0 .. loaded'.size - 1 |-> block'[a]]
      BY <2>6, <2>7
    <3> QED
      BY <3>1, <3>2, <3>3, <3>4, <2>6 DEF Types
  <2>9. FileValid' /\ Measures' /\ SearchInv'
    BY <1>1, <2>5 DEF LoaderInv, FileValid, Valid, Measures, SearchInv, Built, N
  <2>10. i' - 1 = i /\ Done' = i
    BY <1>1, <2>5 DEF Done
  <2>11. Placement'
    BY <1>1, <1>3, <2>1, <2>5, <2>6, <2>10 DEF Placement, N
  <2>12. AccessInBounds'
    <3>1. \A r \in ReadsHeader \cup {<<h.offset, h.offset + h.filesz>>} : 0 <= r[1] /\ r[2] <= img.size
      BY <1>5, <2>3
    <3> HIDE DEF h
    <3>2. seg_off(h) + h.filesz <= held /\ seg_off(h) >= 0
      BY <2>3, <2>4, <1>2
    <3> QED
      BY <3>1, <3>2, <2>5, <1>1 DEF AccessInBounds
  <2>13. Layout'
    <3> DEFINE off(g) == g.vaddr - loaded.vaddr
    <3>1. /\ (Disjoint' <=> Disjoint) /\ Done' = i /\ img' = img
          /\ loaded'.size = loaded.size /\ loaded'.vaddr = loaded.vaddr
      BY <2>5, <2>6, <2>10 DEF Disjoint, N
    <3>2. ASSUME NEW j \in Segments(img, N)
          PROVE  /\ img.ph[j].vaddr \in Nat /\ img.ph[j].memsz \in Nat /\ img.ph[j].filesz \in Nat
                 /\ img.ph[j].filesz <= img.ph[j].memsz /\ off(img.ph[j]) \in Nat
                 /\ off(img.ph[j]) + img.ph[j].memsz <= loaded.size
      <4>1. j \in 1 .. N /\ img.ph[j].load /\ img.ph[j] \in ProgramHeader
        BY <1>1 DEF Segments, loads
      <4>2. img.ph[j].filesz <= img.ph[j].memsz
        BY <1>1, <4>1 DEF Valid, segment_ok
      <4>3. img.ph[j].vaddr \in Nat /\ img.ph[j].memsz \in Nat /\ img.ph[j].filesz \in Nat
        BY <4>1, ElfAssumption DEF ProgramHeader, U64
      <4>4. loaded.vaddr \in Nat /\ loaded.size \in Nat /\ Inside(img.ph[j], loaded.vaddr, loaded.vaddr + loaded.size)
        BY <1>2, <1>3
      <4> QED
        BY <4>2, <4>3, <4>4 DEF Inside
    <3>3. ASSUME NEW a \in 0 .. loaded.size - 1, \A j \in Segments(img, i) : ~FromFile(img.ph[j], a)
          PROVE  block'[a] = ZERO
      BY <3>3, <2>1, <2>7, <1>4
    <3>4. ASSUME Disjoint, NEW j \in Segments(img, i), NEW n \in 0 .. img.ph[j].memsz - 1
          PROVE  block'[off(img.ph[j]) + n] = IF n < img.ph[j].filesz THEN img.ph[j].offset + n ELSE ZERO
      <4> DEFINE a == off(img.ph[j]) + n
      <4>0. j \in Segments(img, N)
        BY <2>1, <1>1
      <4>1. a \in 0 .. loaded.size - 1
        BY <4>0, <3>2, <1>b
      <4>2. ASSUME NEW k \in Segments(img, N), k # j
            PROVE  ~FromFile(img.ph[k], a)
        <5>1. ~Overlap(img.ph[j], img.ph[k])
          BY <3>4, <4>0, <4>2 DEF Disjoint
        <5>2. /\ img.ph[k].vaddr \in Nat /\ img.ph[k].memsz \in Nat /\ img.ph[k].filesz \in Nat
              /\ img.ph[k].filesz <= img.ph[k].memsz
          BY <3>2
        <5>3. img.ph[j].vaddr \in Nat /\ img.ph[j].memsz \in Nat
          BY <4>0, <3>2
        <5>4. n \in Nat /\ n < img.ph[j].memsz
          BY <5>3
        <5> DEFINE jv == img.ph[j].vaddr  jm == img.ph[j].memsz
                   kv == img.ph[k].vaddr  km == img.ph[k].memsz  kf == img.ph[k].filesz
        <5>5. ~(jv < kv + km /\ kv < jv + jm)
          BY <5>1 DEF Overlap
        <5>6. ~(jv - loaded.vaddr + n >= kv - loaded.vaddr /\ jv - loaded.vaddr + n < kv - loaded.vaddr + kf)
          <6> HIDE DEF jv, jm, kv, km, kf
          <6>1. jv \in Nat /\ jm \in Nat /\ kv \in Nat /\ km \in Nat /\ kf \in Nat /\ kf <= km /\ n < jm
            BY <5>2, <5>3, <5>4 DEF jv, jm, kv, km, kf
          <6> QED
            BY <6>1, <5>4, <5>5, <1>b
        <5> QED
          BY <5>6 DEF FromFile
      <4>3. CASE j = i
        <5>1. FromFile(h, a) <=> n < h.filesz
          BY <4>3, <4>0, <3>2, <1>b DEF FromFile
        <5>2. a - (h.vaddr - loaded.vaddr) = n
          BY <4>3, <2>3, <1>2
        <5>3. CASE n < h.filesz
          BY <4>3, <5>1, <5>2, <5>3, <4>1, <2>7
        <5>4. CASE ~(n < h.filesz)
          <6>1. \A k \in Segments(img, i) : ~FromFile(img.ph[k], a)
            BY <5>1, <5>4, <4>2, <4>3, <2>1, <1>1
          <6> QED
            BY <6>1, <4>1, <3>3, <4>3, <5>4
        <5> QED
          BY <5>3, <5>4
      <4>4. CASE j # i
        <5>1. ~FromFile(h, a)
          BY <4>2, <4>4, <2>1
        <5>2. block'[a] = block[a]
          BY <5>1, <4>1, <2>7
        <5>3. LaidOut(img.ph[j])
          BY <3>4, <4>4, <2>1, <1>4
        <5> QED
          BY <5>2, <5>3 DEF LaidOut
      <4> QED
        BY <4>3, <4>4
    <3> QED
      BY <3>1, <3>3, <3>4 DEF Layout, LaidOut, FromFile
  <2> QED
    BY <1>1, <2>5, <2>8, <2>9, <2>11, <2>12, <2>13 DEF LoaderInv
<1> QED
  BY <1>6, <1>7

LEMMA CopyDoneInv ==
    ASSUME LoaderInv, CopyDone
    PROVE  LoaderInv'
<1>1. /\ N \in Nat /\ i - 1 = N /\ pc = "copy" /\ pc' = "loaded" /\ i' = 0
      /\ UNCHANGED <<img, measured, loaded, block, held, look>>
      /\ access' = [file |-> {}, mem |-> {}]
  BY HeaderFacts DEF LoaderInv, Types, CopyDone, PastHeaders, N, Touches
<1>2. Types'
  <2>1. N' = N /\ Built' /\ i' \in 0 .. N + 1 /\ pc' \in Labels
    BY <1>1 DEF N, Built, Labels
  <2> QED
    BY <1>1, <2>1 DEF LoaderInv, Types, measured
<1>3. FileValid' /\ Measures' /\ SearchInv' /\ AccessInBounds'
  BY <1>1 DEF LoaderInv, FileValid, Valid, Measures, SearchInv, AccessInBounds, N, Built
<1>4. Placement'
  BY <1>1 DEF LoaderInv, Placement, N
<1>5. Done = N /\ Done' = N /\ (Disjoint' <=> Disjoint)
  BY <1>1 DEF Done, Disjoint, N
<1>6. Layout'
  BY <1>1, <1>5 DEF LoaderInv, Layout, LaidOut, FromFile
<1> QED
  BY <1>2, <1>3, <1>4, <1>6 DEF LoaderInv

-----------------------------------------------------------------------------
(***************************************************************************)
(* The use of the image.                                                   *)
(***************************************************************************)
\* A step that leaves the image alone has only its own bytes to account for.
LEMMA ImageKept ==
    ASSUME LoaderInv, Built, pc' \in {"loaded", "sections", "symbols"},
           UNCHANGED <<img, i, measured, loaded, block, held>>, SearchInv', AccessInBounds'
    PROVE  LoaderInv'
<1>1. Built' /\ N' = N /\ pc # "copy" /\ pc' # "copy" /\ pc' \in Labels
  BY DEF Built, N, Labels
<1>2. Types'
  BY <1>1 DEF LoaderInv, Types, measured
<1>3. FileValid' /\ Measures'
  BY <1>1 DEF LoaderInv, FileValid, Valid, Measures, Built
<1>4. Placement'
  BY <1>1 DEF LoaderInv, Placement
<1>5. Done = N /\ Done' = N /\ (Disjoint' <=> Disjoint)
  BY <1>1 DEF Done, Disjoint
<1>6. Layout'
  BY <1>1, <1>5 DEF LoaderInv, Layout, LaidOut, FromFile
<1> QED
  BY <1>2, <1>3, <1>4, <1>6 DEF LoaderInv

LEMMA EnterInv ==
    ASSUME LoaderInv, Enter
    PROVE  LoaderInv'
<1>1. pc = "loaded" /\ Built /\ loaded \in LoadedType /\ UNCHANGED <<img, measured, look>>
  BY DEF LoaderInv, Types, Enter, Built
<1>2. CASE entry_ok
  <2>1. AccessInBounds'
    <3>1. /\ loaded.entry \in Nat /\ loaded.vaddr \in Nat /\ loaded.size \in Nat
          /\ held \in Nat /\ loaded.size <= held
      BY <1>1, ElfAssumption DEF LoaderInv, Types, LoadedType, U64
    <3> DEFINE at == loaded.entry - loaded.vaddr
    <3>2. at \in Nat /\ at + 1 <= held
      BY <1>2, <3>1 DEF entry_ok
    <3>3. access' = [file |-> {}, mem |-> {<<at, at + 1>>}] /\ held' = held /\ pc' = "loaded"
      BY <1>1, <1>2 DEF Enter, Touches
    <3> HIDE DEF at
    <3> QED
      BY <3>2, <3>3 DEF AccessInBounds
  <2>2. SearchInv' /\ pc' = "loaded" /\ UNCHANGED <<i, loaded, block, held>>
    BY <1>1, <1>2 DEF Enter, SearchInv
  <2> QED
    BY <1>1, <2>1, <2>2, ImageKept
<1>3. CASE ~entry_ok
  <2>1. AccessInBounds'
    BY <1>3 DEF Enter, Fail, Touches, AccessInBounds
  <2> QED
    BY <2>1, <1>3, FailInv DEF Enter, unload, LoaderInv, Types, measured, N
<1> QED
  BY <1>2, <1>3

LEMMA UnloadInv ==
    ASSUME LoaderInv, Unload
    PROVE  LoaderInv'
<1>1. AccessInBounds'
  BY DEF Unload, Touches, AccessInBounds
<1>a. Types'
  <2>1. NotLoaded \in LoadedType /\ Len(NotLoaded.segments) <= MAX_SEGMENTS /\ NotLoaded.size = 0 /\ ~NotLoaded.base
    BY ElfAssumption DEF NotLoaded, LoadedType, U64
  <2>2. /\ img' = img /\ i' = 0 /\ pc' = "start" /\ loaded' = NotLoaded /\ block' = NoBlock /\ held' = 0
        /\ UNCHANGED measured /\ Types
    BY DEF Unload, unload, LoaderInv
  <2>3. N' = N /\ N \in Nat
    BY <2>2, HeaderFacts DEF N, Types
  <2> QED
    BY <2>1, <2>2, <2>3 DEF Types, Labels, Built, measured
<1>2. FileValid' /\ Measures' /\ Placement' /\ Layout' /\ SearchInv'
  BY DEF Unload, FileValid, Measures, Placement, Layout, SearchInv, Built
<1> QED
  BY <1>1, <1>a, <1>2 DEF LoaderInv

LEMMA LookUpInv ==
    ASSUME LoaderInv, NEW name \in Symbols, LookUp(name)
    PROVE  LoaderInv'
<1>1. Built /\ pc' \in {"loaded", "sections", "symbols"} /\ UNCHANGED <<img, i, measured, loaded, block, held>>
  BY DEF LookUp, Built
<1>2. SearchInv'
  BY DEF LookUp, SearchInv, NoLook
<1>3. AccessInBounds'
  BY HeaderFacts DEF LoaderInv, Types, LookUp, Touches, AccessInBounds, EHDR, ImageOK, U64
<1> QED
  BY <1>1, <1>2, <1>3, ImageKept

\* A section header that a search reads lies in the file.
LEMMA SectionRead ==
    ASSUME Types, Searchable(img), NEW k \in 1 .. Len(img.sh)
    PROVE  0 <= sh_at(img, k) /\ sh_at(img, k) + SHDR <= img.size
<1>1. /\ img.shoff \in Nat /\ img.size \in Nat /\ Len(img.sh) \in Nat
      /\ range_ok(img.shoff, SHDR * Len(img.sh), img.size)
  BY HeaderFacts, ElfAssumption DEF Types, ImageOK, U64, Searchable
<1> QED
  BY <1>1 DEF range_ok, sh_at, SHDR

LEMMA SearchSectionInv ==
    ASSUME LoaderInv, SearchSection
    PROVE  LoaderInv'
<1> DEFINE s == img.sh[look.sec]
<1>1. /\ Built /\ UNCHANGED <<img, i, measured, loaded, block, held>> /\ Types /\ Searchable(img)
      /\ look.sec \in 1 .. Len(img.sh) /\ look.sym \in Nat /\ Len(img.sh) \in Nat
      /\ s \in SectionHeader
  <2>1. Built /\ UNCHANGED <<img, i, measured, loaded, block, held>> /\ Types /\ img \in Images
    BY DEF LoaderInv, Types, SearchSection, Built
  <2>2. /\ Searchable(img) /\ look.sec \in Nat \ {0} /\ look.sym \in Nat
        /\ look.sec <= Len(img.sh)
    BY DEF LoaderInv, SearchInv, SearchSection
  <2>3. Len(img.sh) \in Nat /\ \A k \in 1 .. Len(img.sh) : img.sh[k] \in SectionHeader
    BY <2>1, HeaderFacts
  <2> QED
    BY <2>1, <2>2, <2>3
<1>2. pc' \in {"sections", "symbols"} /\ SearchInv'
  <2>1. CASE usable(img, s) /\ strtab_ok(img, s)
    <3>1. pc' = "symbols" /\ look' = [look EXCEPT !.sym = 0]
      BY <2>1 DEF SearchSection
    <3> QED
      BY <1>1, <2>1, <3>1 DEF SearchInv
  <2>2. CASE ~(usable(img, s) /\ strtab_ok(img, s))
    <3>1. pc' = "sections" /\ look' = [look EXCEPT !.sec = @ + 1]
      BY <2>2 DEF SearchSection
    <3> QED
      BY <1>1, <3>1 DEF SearchInv
  <2> QED
    BY <2>1, <2>2
<1>3. AccessInBounds'
  <2>1. usable(img, s) => s.link + 1 \in 1 .. Len(img.sh)
    BY <1>1, Limits DEF usable, SectionHeader, U64
  <2>2. \A r \in access'.file : 0 <= r[1] /\ r[2] <= img.size
    BY <1>1, <2>1, SectionRead DEF SearchSection, Touches
  <2>3. access'.mem = {} /\ pc' # "overrun" /\ img' = img
    BY DEF SearchSection, Touches
  <2> QED
    BY <2>2, <2>3 DEF AccessInBounds
<1> QED
  BY <1>1, <1>2, <1>3, ImageKept

LEMMA SearchFailsInv ==
    ASSUME LoaderInv, SearchFails
    PROVE  LoaderInv'
<1>1. Built /\ pc' = "loaded" /\ UNCHANGED <<img, i, measured, loaded, block, held>>
  BY DEF SearchFails, Built
<1>2. SearchInv' /\ AccessInBounds'
  BY DEF SearchFails, SearchInv, Touches, AccessInBounds
<1> QED
  BY <1>1, <1>2, ImageKept

\* What the search of a table reads lies in the file.
LEMMA SymbolRead ==
    ASSUME Types, NEW s \in SectionHeader, NEW t \in SectionHeader, NEW n \in Nat,
           s.entsize = SYM, range_ok(s.offset, s.size, img.size), range_ok(t.offset, t.size, img.size),
           n < symbols_in(s)
    PROVE  LET at == s.offset + SYM * n
               sym == symbol_at(img, at)
           IN  \A r \in ReadsSymbol(img, s, t, sym, at) : 0 <= r[1] /\ r[2] <= img.size
<1> DEFINE at == s.offset + SYM * n
           sym == symbol_at(img, at)
           from == name_at(t, sym)
           nul == string_at(img, from).end
<1>1. ImageOK(img) /\ img.size \in Nat
  BY HeaderFacts, ElfAssumption DEF Types, ImageOK, U64
<1>2. /\ s.offset \in Nat /\ s.size \in Nat /\ t.offset \in Nat /\ t.size \in Nat
      /\ s.offset + s.size <= img.size /\ t.offset + t.size <= img.size
  BY <1>1, ElfAssumption DEF SectionHeader, U64, range_ok
<1>3. at \in Nat /\ at + SYM <= img.size
  BY <1>1, <1>2 DEF symbols_in, SYM
<1>4. sym.name \in Nat
  BY <1>1, ElfAssumption DEF ImageOK, symbol_at, Symbol, NoSymbol, U64
<1>5. from \in Nat
  BY <1>2, <1>4 DEF name_at
<1>6. nul \in Nat /\ nul >= from
  BY <1>1, <1>5 DEF ImageOK, string_at
<1> HIDE DEF at, sym, from, nul
<1>7. ReadsSymbol(img, s, t, sym, at) \subseteq
          {<<at, at + SYM>>}
          \cup (IF sym.name < t.size THEN {<<from, Smaller(nul + 1, t.offset + t.size)>>} ELSE {})
          \cup (IF nul < t.offset + t.size THEN {<<from, nul + 1>>} ELSE {})
  BY DEF ReadsSymbol, name_ok, from, nul
<1>8. Smaller(nul + 1, t.offset + t.size) <= img.size
  BY <1>1, <1>2, <1>6 DEF Smaller
<1>9. \A r \in ReadsSymbol(img, s, t, sym, at) : 0 <= r[1] /\ r[2] <= img.size
  BY <1>1, <1>2, <1>3, <1>5, <1>6, <1>7, <1>8
<1> QED
  BY <1>9 DEF at, sym

LEMMA SearchSymbolInv ==
    ASSUME LoaderInv, SearchSymbol
    PROVE  LoaderInv'
<1> DEFINE s == img.sh[look.sec]
           t == strtab_of(img, s)
           at == s.offset + SYM * look.sym
           sym == symbol_at(img, at)
<1>1. /\ Built /\ UNCHANGED <<img, i, measured, loaded, block, held>> /\ Types /\ img \in Images /\ pc = "symbols"
      /\ Searchable(img) /\ look.sec \in Nat \ {0} /\ look.sym \in Nat /\ look.sec <= Len(img.sh)
      /\ usable(img, s) /\ strtab_ok(img, s)
  BY DEF LoaderInv, Types, SearchInv, SearchSymbol, Built
<1>2. s \in SectionHeader /\ t \in SectionHeader
  <2>1. Len(img.sh) \in Nat /\ \A k \in 1 .. Len(img.sh) : img.sh[k] \in SectionHeader
    BY <1>1, HeaderFacts
  <2>2. s \in SectionHeader
    BY <1>1, <2>1
  <2>3. s.link + 1 \in 1 .. Len(img.sh)
    BY <1>1, <2>1, <2>2, ElfAssumption DEF usable, SectionHeader, U64
  <2> QED
    BY <2>1, <2>2, <2>3 DEF strtab_of
<1>3. pc' \in {"loaded", "sections", "symbols"} /\ SearchInv'
  <2>1. CASE look.sym >= symbols_in(s)
    <3>1. pc' = "sections" /\ look' = [look EXCEPT !.sec = @ + 1]
      BY <2>1 DEF SearchSymbol
    <3> QED
      BY <1>1, <3>1 DEF SearchInv
  <2>2. CASE ~(look.sym >= symbols_in(s)) /\ matches(img, t, sym, look.name)
    <3>1. pc' = "loaded"
      BY <2>2 DEF SearchSymbol
    <3> QED
      BY <3>1 DEF SearchInv
  <2>3. CASE ~(look.sym >= symbols_in(s)) /\ ~matches(img, t, sym, look.name)
    <3>1. pc' = "symbols" /\ look' = [look EXCEPT !.sym = @ + 1]
      BY <1>1, <2>3 DEF SearchSymbol
    <3>2. look'.sec = look.sec /\ look'.sym \in Nat
      BY <1>1, <3>1
    <3> QED
      BY <1>1, <3>1, <3>2 DEF SearchInv
  <2> QED
    BY <2>1, <2>2, <2>3
<1>4. AccessInBounds'
  <2>1. CASE look.sym >= symbols_in(s)
    BY <2>1 DEF SearchSymbol, Touches, AccessInBounds
  <2>2. CASE ~(look.sym >= symbols_in(s))
    <3>1. access' = [file |-> ReadsSymbol(img, s, t, sym, at), mem |-> {}] /\ img' = img /\ pc' # "overrun"
      BY <1>1, <2>2 DEF SearchSymbol, Touches
    <3>2. symbols_in(s) \in Nat
      <4>1. s.entsize = SYM
        BY <1>1 DEF usable
      <4>2. s.size \in Nat
        BY <1>2, ElfAssumption DEF SectionHeader, U64
      <4> HIDE DEF s
      <4>3. s.size \div SYM \in Nat
        BY <4>2 DEF SYM
      <4> QED
        BY <4>1, <4>3 DEF symbols_in
    <3>3. /\ look.sym < symbols_in(s) /\ s.entsize = SYM
          /\ range_ok(s.offset, s.size, img.size) /\ range_ok(t.offset, t.size, img.size)
      BY <1>1, <2>2, <3>2 DEF usable, strtab_ok
    <3>4. \A r \in ReadsSymbol(img, s, t, sym, at) : 0 <= r[1] /\ r[2] <= img.size
      BY <1>1, <1>2, <3>3, SymbolRead
    <3> QED
      BY <3>1, <3>4 DEF AccessInBounds
  <2> QED
    BY <2>1, <2>2
<1> QED
  BY <1>1, <1>3, <1>4, ImageKept

-----------------------------------------------------------------------------
LEMMA StutterInv ==
    ASSUME LoaderInv, UNCHANGED vars
    PROVE  LoaderInv'
  BY DEF vars, measured, LoaderInv, Types, FileValid, Valid, Measures, Placement, Layout, LaidOut, Done,
     FromFile, Disjoint, SearchInv, AccessInBounds, Built, N, span, oversized

LEMMA NextInv == LoaderInv /\ [Next]_vars => LoaderInv'
<1> SUFFICES ASSUME LoaderInv, [Next]_vars PROVE LoaderInv'
  OBVIOUS
<1>1. CASE Next
  BY <1>1, ValidateFileInv, ValidateHeaderInv, ValidateDoneInv, MeasureInv, AllocateInv, CopySegmentInv,
     CopyDoneInv, EnterInv, UnloadInv, LookUpInv, SearchSectionInv, SearchFailsInv, SearchSymbolInv,
     AllocateFailsInv, StutterInv
  DEF Next, Validate, Load, Search, Overrun
<1>2. CASE UNCHANGED vars
  BY <1>2, StutterInv
<1> QED
  BY <1>1, <1>2

\* The loader and the search keep the invariant above: what the first two loops
\* have found out about the headers is what the third relies on.
THEOREM LoaderInvariance == Spec => []LoaderInv
<1>1. Init => LoaderInv
  BY InitInv
<1>2. LoaderInv /\ [Next]_vars => LoaderInv'
  BY NextInv
<1> QED
  BY <1>1, <1>2, PTL DEF Spec

\* A block is held exactly while an image is loaded or being copied, whichever
\* step of clks_elf64_load fails.
THEOREM ElfTypes == Spec => []ElfTypeOK
<1>1. LoaderInv => ElfTypeOK
  BY DEF LoaderInv, Types, ElfTypeOK, LoadedType, Labels, N
<1> QED
  BY <1>1, LoaderInvariance, PTL

\* No header, section header or symbol, in any arithmetic modulo WORD, makes
\* the loader read outside the file; and none but a span that the heap rounds up
\* to 0 makes it write outside the block.
THEOREM LoaderStaysInBounds == Spec => []AccessInBounds
<1>1. LoaderInv => AccessInBounds
  BY DEF LoaderInv
<1> QED
  BY <1>1, LoaderInvariance, PTL

\* However many headers a file has, its image holds each segment where its
\* header says, with zeros after the bytes of the file.
THEOREM SegmentsLaidOut == Spec => []ImageLaidOut
<1>1. LoaderInv => ImageLaidOut
  BY DEF LoaderInv, Layout, LaidOut, Disjoint, Done, Built, ImageLaidOut, N
<1> QED
  BY <1>1, LoaderInvariance, PTL

\* LoadSound: for every file, a load touches nothing outside the file and the
\* block, but for the clearing of an oversized span, and lays the segments out.
THEOREM LoadIsSound == Spec => []LoadSound
<1>1. AccessInBounds /\ ImageLaidOut => LoadSound
  BY DEF LoadSound
<1> QED
  BY <1>1, LoaderStaysInBounds, SegmentsLaidOut, PTL

\* The tests of the loop that copies never fail: the measures passed to the
\* heap hold every segment, and there are no more segments than places.
THEOREM LoadingSucceeds == Spec => CopyNeverFails
<1>1. LoaderInv /\ [Next]_vars => [pc = "copy" => pc' # "failed"]_vars
  <2> SUFFICES ASSUME LoaderInv, Next, pc = "copy" PROVE pc' # "failed"
    OBVIOUS
  <2>1. CASE CopySegment
    BY <2>1, CopySegmentInv
  <2> QED
    BY <2>1 DEF Next, Validate, ValidateFile, ValidateHeader, ValidateDone, Load, Measure, AllocateFails, Allocate, Overrun, CopyDone,
       Enter, Search, LookUp, SearchSection, SearchFails, SearchSymbol, Unload, AtHeader, PastHeaders
<1> QED
  BY <1>1, LoaderInvariance, PTL DEF Spec, CopyNeverFails

-----------------------------------------------------------------------------
(***************************************************************************)
(* The search finds the first symbol: nothing it has passed is one.        *)
(***************************************************************************)
LookOK ==
    /\ look = [name |-> look.name, sec |-> look.sec, sym |-> look.sym, out |-> look.out]
    /\ look.sec \in Nat /\ look.sym \in Nat
Useful(k) == usable(img, img.sh[k]) /\ strtab_ok(img, img.sh[k])
Passed ==
    /\ LookOK
    /\ pc \in {"sections", "symbols"} =>
          look.out = -1 /\ \A k \in 1 .. look.sec - 1 : Useful(k) => Named(k) = {}
    /\ pc = "symbols" => \A n \in 0 .. look.sym - 1 : n \notin Named(look.sec)

\* The tests of the loop are those the definition of Named makes.
LEMMA NamedMatches ==
    ASSUME LoaderInv, pc = "symbols"
    PROVE  LET s == img.sh[look.sec]
               sym(n) == symbol_at(img, s.offset + SYM * n)
           IN  /\ Named(look.sec) =
                     {n \in 0 .. symbols_in(s) - 1 : matches(img, strtab_of(img, s), sym(n), look.name)}
               /\ symbols_in(s) \in Nat
<1> DEFINE s == img.sh[look.sec]
           t == strtab_of(img, s)
           sym(n) == symbol_at(img, s.offset + SYM * n)
<1>1. /\ Types /\ usable(img, s) /\ look.sec \in 1 .. Len(img.sh)
      /\ Len(img.sh) \in Nat /\ s \in SectionHeader
      /\ \A o \in DOMAIN img.sym : img.sym[o] \in Symbol
  <2>1. Types /\ img \in Images /\ usable(img, s) /\ look.sec \in Nat \ {0} /\ look.sec <= Len(img.sh)
    BY DEF LoaderInv, Types, SearchInv
  <2>2. /\ Len(img.sh) \in Nat /\ \A k \in 1 .. Len(img.sh) : img.sh[k] \in SectionHeader
        /\ \A o \in DOMAIN img.sym : img.sym[o] \in Symbol
    BY <2>1, HeaderFacts DEF ImageOK
  <2> QED
    BY <2>1, <2>2
<1>2. loaded.vaddr \in Nat /\ loaded.size \in Nat
  <2>1. loaded \in LoadedType
    BY <1>1 DEF Types
  <2> QED
    BY <2>1, Limits DEF LoadedType, U64
<1>3. symbols_in(s) = s.size \div SYM /\ symbols_in(s) \in Nat
  BY <1>1, Limits DEF usable, symbols_in, SectionHeader, U64, SYM
<1>4. ASSUME NEW n \in Nat
      PROVE  sym(n).value \in loaded.vaddr .. loaded.vaddr + loaded.size - 1 <=> in_image(sym(n))
  <2>1. sym(n).value \in Nat
    BY <1>1, ElfAssumption DEF symbol_at, Symbol, NoSymbol, U64
  <2> HIDE DEF sym
  <2> QED
    BY <1>2, <2>1 DEF in_image
<1>5. ASSUME NEW n \in 0 .. symbols_in(s) - 1
      PROVE  n \in Named(look.sec) <=> matches(img, t, sym(n), look.name)
  <2>1. n \in Named(look.sec) <=>
            /\ candidate(sym(n)) /\ string_at(img, name_at(t, sym(n))).text = look.name
            /\ sym(n).name < t.size /\ string_at(img, name_at(t, sym(n))).end < t.offset + t.size
            /\ sym(n).value \in loaded.vaddr .. loaded.vaddr + loaded.size - 1
    BY <1>3 DEF Named, strtab_of, name_at
  <2> HIDE DEF sym, t
  <2> QED
    BY <2>1, <1>3, <1>4 DEF matches, name_ok
<1>6. \A n : n \in Named(look.sec) => n \in 0 .. symbols_in(s) - 1
  BY <1>3 DEF Named
<1>7. Named(look.sec) = {n \in 0 .. symbols_in(s) - 1 : matches(img, t, sym(n), look.name)}
  BY <1>5, <1>6
<1> QED
  BY <1>3, <1>7

LEMMA NamedKept ==
    ASSUME img' = img, loaded' = loaded, look'.name = look.name
    PROVE  \A k : Named(k)' = Named(k) /\ Useful(k)' = Useful(k)
  BY DEF Named, Useful, in_image

LEMMA PassedInit == Init => Passed
<1> SUFFICES ASSUME Init PROVE Passed
  OBVIOUS
<1>1. look = [name |-> "", sec |-> 0, sym |-> 0, out |-> -1] /\ pc = "start"
  BY DEF Init, NoLook
<1>2. LookOK
  BY <1>1 DEF LookOK
<1> QED
  BY <1>1, <1>2 DEF Passed

LEMMA PassedNext ==
    ASSUME LoaderInv, Passed, [Next]_vars
    PROVE  Passed'
<1>1. CASE UNCHANGED <<img, loaded, look>> /\ (pc' = pc \/ pc' \notin {"sections", "symbols"})
  <2>1. LookOK'
    BY <1>1 DEF Passed, LookOK
  <2>2. \A k : Named(k)' = Named(k) /\ Useful(k)' = Useful(k)
    BY <1>1, NamedKept
  <2> QED
    BY <1>1, <2>1, <2>2 DEF Passed
<1>2. CASE Unload
  BY <1>2 DEF Unload, Passed, LookOK, NoLook
<1>3. ASSUME NEW name \in Symbols, LookUp(name)
      PROVE  Passed'
  <2>1. look' = [name |-> name, sec |-> 1, sym |-> 0, out |-> -1] /\ pc' # "symbols"
    BY <1>3 DEF LookUp, NoLook
  <2> QED
    BY <2>1 DEF Passed, LookOK
<1>4. CASE SearchSection
  <2>1. /\ pc = "sections" /\ img' = img /\ loaded' = loaded /\ look.sec \in Nat /\ LookOK
        /\ look.out = -1 /\ \A k \in 1 .. look.sec - 1 : Useful(k) => Named(k) = {}
    BY <1>4 DEF SearchSection, Passed, LookOK
  <2>2. CASE Useful(look.sec)
    <3>1. pc' = "symbols" /\ look' = [look EXCEPT !.sym = 0]
      BY <1>4, <2>2 DEF SearchSection, Useful
    <3>2. LookOK' /\ look'.sec = look.sec /\ look'.name = look.name /\ look'.out = -1 /\ look'.sym = 0
      BY <2>1, <3>1 DEF LookOK
    <3> QED
      BY <2>1, <3>1, <3>2, NamedKept DEF Passed
  <2>3. CASE ~Useful(look.sec)
    <3>1. pc' = "sections" /\ look' = [look EXCEPT !.sec = @ + 1]
      BY <1>4, <2>1, <2>3 DEF SearchSection, Useful
    <3>2. LookOK' /\ look'.sec = look.sec + 1 /\ look'.name = look.name /\ look'.out = -1
      BY <2>1, <3>1 DEF LookOK
    <3>3. \A k \in 1 .. look.sec : Useful(k) => Named(k) = {}
      BY <2>1, <2>3
    <3> QED
      BY <2>1, <3>1, <3>2, <3>3, NamedKept DEF Passed
  <2> QED
    BY <2>2, <2>3
<1>5. CASE SearchSymbol
  <2> DEFINE s == img.sh[look.sec]
             sym(n) == symbol_at(img, s.offset + SYM * n)
             found(n) == matches(img, strtab_of(img, s), sym(n), look.name)
  <2>1. /\ pc = "symbols" /\ img' = img /\ loaded' = loaded /\ LookOK
        /\ look.sec \in Nat /\ look.sym \in Nat
        /\ look.out = -1 /\ \A k \in 1 .. look.sec - 1 : Useful(k) => Named(k) = {}
        /\ \A n \in 0 .. look.sym - 1 : n \notin Named(look.sec)
    BY <1>5 DEF SearchSymbol, Passed, LookOK
  <2>2. symbols_in(s) \in Nat /\ Named(look.sec) = {n \in 0 .. symbols_in(s) - 1 : found(n)}
    BY <2>1, NamedMatches
  <2>3. CASE look.sym >= symbols_in(s)
    <3>1. pc' = "sections" /\ look' = [look EXCEPT !.sec = @ + 1]
      BY <1>5, <2>3 DEF SearchSymbol
    <3>2. LookOK' /\ look'.sec = look.sec + 1 /\ look'.name = look.name /\ look'.out = -1
      BY <2>1, <3>1 DEF LookOK
    <3>3. Named(look.sec) = {}
      <4> HIDE DEF found
      <4> QED
        BY <2>1, <2>2, <2>3
    <3>4. \A k \in 1 .. look.sec : Useful(k) => Named(k) = {}
      BY <2>1, <3>3
    <3> QED
      BY <2>1, <3>1, <3>2, <3>4, NamedKept DEF Passed
  <2>4. CASE ~(look.sym >= symbols_in(s)) /\ found(look.sym)
    <3>1. pc' = "loaded" /\ look' = [look EXCEPT !.out = sym(look.sym).value - loaded.vaddr]
      BY <1>5, <2>4 DEF SearchSymbol
    <3> QED
      BY <2>1, <3>1 DEF Passed, LookOK
  <2>5. CASE ~(look.sym >= symbols_in(s)) /\ ~found(look.sym)
    <3>1. pc' = "symbols" /\ look' = [look EXCEPT !.sym = @ + 1]
      BY <1>5, <2>1, <2>5 DEF SearchSymbol
    <3>2. /\ LookOK' /\ look'.sec = look.sec /\ look'.name = look.name /\ look'.out = -1
          /\ look'.sym = look.sym + 1
      BY <2>1, <3>1 DEF LookOK
    <3>3. look.sym \notin Named(look.sec)
      BY <2>2, <2>5
    <3>4. \A n \in 0 .. look.sym : n \notin Named(look.sec)
      BY <2>1, <3>3
    <3>5. \A n \in 0 .. look'.sym - 1 : n \notin Named(look.sec)
      BY <2>1, <3>2, <3>4
    <3> QED
      BY <2>1, <3>1, <3>2, <3>5, NamedKept DEF Passed
  <2> QED
    BY <2>3, <2>4, <2>5
<1>6. CASE Next /\ ~Unload /\ ~SearchSection /\ ~SearchSymbol /\ ~\E name \in Symbols : LookUp(name)
  <2>1. Validate \/ Load \/ Enter \/ SearchFails
    BY <1>6 DEF Next, Search
  <2>2. look' = look /\ pc' \notin {"sections", "symbols"} /\ Passed
    BY <2>1 DEF Validate, ValidateFile, ValidateHeader, ValidateDone, Load, Measure, AllocateFails, Allocate,
       Overrun, CopySegment, CopyDone, Enter, SearchFails, AtHeader, PastHeaders, Goto, Fail, vars
  <2> QED
    BY <2>2 DEF Passed, LookOK
<1> QED
  BY <1>1, <1>2, <1>3, <1>4, <1>5, <1>6 DEF vars

\* A search finds the first symbol of its name that is defined in the image,
\* or none if there is none, whatever tables the file has.
THEOREM LookupFindsFirst == Spec => LookupExact
<1> DEFINE Exact ==
        LET tables == {k \in DOMAIN img.sh : usable(img, img.sh[k]) /\ strtab_ok(img, img.sh[k]) /\ Named(k) # {}}
        IN  IF tables = {} THEN look'.out = -1
            ELSE LET k == CHOOSE k \in tables : \A l \in tables : k <= l
                     n == CHOOSE n \in Named(k) : \A l \in Named(k) : n <= l
                 IN  look'.out = symbol_at(img, img.sh[k].offset + SYM * n).value - loaded.vaddr
<1>1. ASSUME LoaderInv, Passed, Next, pc = "sections" \/ pc = "symbols", pc' = "loaded"
      PROVE  Exact
  <2> DEFINE tables == {k \in DOMAIN img.sh : Useful(k) /\ Named(k) # {}}
  <2>1. DOMAIN img.sh = 1 .. Len(img.sh) /\ Len(img.sh) \in Nat
    BY <1>1, HeaderFacts DEF LoaderInv, Types, ImageOK
  <2>2. SearchFails \/ SearchSymbol
    BY <1>1 DEF Next, Validate, ValidateFile, ValidateHeader, ValidateDone, Load, Measure, AllocateFails, Allocate, Overrun, CopySegment,
       CopyDone, Enter, Search, LookUp, SearchSection, Unload, AtHeader, PastHeaders
  <2>3. CASE SearchFails
    <3>1. pc = "sections" /\ look.sec > Len(img.sh) /\ look' = look /\ look.sec \in Nat
      BY <2>3, <1>1 DEF SearchFails, Passed, LookOK
    <3>2. look.out = -1 /\ tables = {}
      BY <1>1, <2>1, <3>1 DEF Passed
    <3> QED
      BY <3>1, <3>2 DEF Useful
  <2>4. CASE SearchSymbol
    <3> DEFINE s == img.sh[look.sec]
               sym(n) == symbol_at(img, s.offset + SYM * n)
               found(n) == matches(img, strtab_of(img, s), sym(n), look.name)
    <3>1. /\ pc = "symbols" /\ look.sec \in 1 .. Len(img.sh) /\ look.sym \in Nat /\ Useful(look.sec)
          /\ \A k \in 1 .. look.sec - 1 : Useful(k) => Named(k) = {}
          /\ \A n \in 0 .. look.sym - 1 : n \notin Named(look.sec)
          /\ LookOK
      BY <2>4, <2>1, <1>1 DEF SearchSymbol, Passed, LookOK, LoaderInv, SearchInv, Useful
    <3>2. symbols_in(s) \in Nat /\ Named(look.sec) = {n \in 0 .. symbols_in(s) - 1 : found(n)}
      BY <1>1, <3>1, NamedMatches
    <3>3. look.sym < symbols_in(s) /\ found(look.sym)
      BY <1>1, <2>4, <3>1, <3>2 DEF SearchSymbol
    <3>4. look'.out = sym(look.sym).value - loaded.vaddr
      <4>1. look' = [look EXCEPT !.out = sym(look.sym).value - loaded.vaddr]
        BY <2>4, <3>1, <3>2, <3>3 DEF SearchSymbol
      <4> QED
        BY <4>1, <3>1 DEF LookOK
    <3>5. look.sym \in Named(look.sec) /\ \A l \in Named(look.sec) : look.sym <= l
      <4> HIDE DEF found
      <4> QED
        BY <3>1, <3>2, <3>3
    <3>6. look.sec \in tables /\ \A l \in tables : look.sec <= l
      BY <2>1, <3>1, <3>5
    <3>7. (CHOOSE k \in tables : \A l \in tables : k <= l) = look.sec
      <4>1. \A k \in tables : (\A l \in tables : k <= l) => k = look.sec
        BY <2>1, <3>1, <3>6
      <4> HIDE DEF tables
      <4> QED
        BY <3>6, <4>1
    <3>8. (CHOOSE n \in Named(look.sec) : \A l \in Named(look.sec) : n <= l) = look.sym
      <4>1. \A n \in Named(look.sec) : n \in Nat
        BY <3>2
      <4>2. \A n \in Named(look.sec) : (\A l \in Named(look.sec) : n <= l) => n = look.sym
        BY <3>1, <3>5, <4>1
      <4> QED
        BY <3>5, <4>2
    <3> QED
      BY <3>4, <3>6, <3>7, <3>8 DEF Useful
  <2> QED
    BY <2>2, <2>3, <2>4
<1>2. LoaderInv /\ Passed /\ [Next]_vars =>
        [(pc = "sections" \/ pc = "symbols") /\ pc' = "loaded" => Exact]_vars
  <2> HIDE DEF Exact
  <2> QED
    BY <1>1
<1>3. Init => Passed
  BY PassedInit
<1>4. LoaderInv /\ Passed /\ [Next]_vars => Passed'
  BY PassedNext
<1> QED
  BY <1>2, <1>3, <1>4, LoaderInvariance, PTL DEF Spec, LookupExact

\* OutcomeExact: loading succeeds once there is memory, and a search returns the
\* first symbol of its name.
THEOREM OutcomesExact == Spec => OutcomeExact
  BY LoadingSucceeds, LookupFindsFirst DEF OutcomeExact
=============================================================================
