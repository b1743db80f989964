------------------------------- MODULE Elf64 -------------------------------
(***************************************************************************)
(* The ELF loader (clks/kernel/elf64.c), and the search for a symbol in a  *)
(* loaded library (clks/kernel/exec.c).  A file may hold anything: what    *)
(* its headers say is checked here, in 64-bit arithmetic that wraps.       *)
(*                                                                         *)
(* A byte of the file is known by its offset, so the memory image is a     *)
(* function to offsets, or ZERO.  Every step notes which bytes of the file *)
(* and of the memory image it touches.                                     *)
(***************************************************************************)
EXTENDS Integers, Sequences, FiniteSets

CONSTANTS
    WORD,            \* 2^64, or a smaller modulus for u64 arithmetic
    ALIGN,           \* CLKS_HEAP_ALIGN
    SPARE,           \* a block has fewer bytes to spare than a header and ALIGN bytes (Heap.tla)
    MAX_SEGMENTS,    \* CLKS_ELF64_MAX_SEGMENTS
    Images,          \* the files, see ImageOK
    Symbols          \* the names looked up

EHDR == 64           \* sizeof(struct clks_elf64_ehdr)
PHDR == 56           \* sizeof(struct clks_elf64_phdr)
SHDR == 64           \* sizeof(struct clks_exec_elf64_shdr)
SYM == 24            \* sizeof(struct clks_exec_elf64_sym)

U64 == 0 .. WORD - 1
ProgramHeader == [load : BOOLEAN, offset : U64, vaddr : U64, filesz : U64, memsz : U64]
SectionHeader == [symtab : BOOLEAN, entsize : U64, link : U64, offset : U64, size : U64]
Symbol == [name : U64, defined : BOOLEAN, code : BOOLEAN, value : U64]
NoSymbol == [name |-> 0, defined |-> FALSE, code |-> FALSE, value |-> 0]

\* A file: whether its fixed fields are what header_ok wants of a program (ok)
\* and of a file with sections (sections_ok), where its tables are and what
\* they hold, and what stands at the offsets where a symbol or a string begins
\* (end is the offset of the string's NUL).  The sizes of the tables, a 16-bit
\* count times a constant, do not wrap.
ImageOK(m) ==
    /\ m.size \in U64 /\ m.entry \in U64 /\ m.phoff \in U64 /\ m.shoff \in U64
    /\ m.ok \in BOOLEAN /\ m.sections_ok \in BOOLEAN
    /\ m.ph \in Seq(ProgramHeader) /\ PHDR * Len(m.ph) < WORD
    /\ m.sh \in Seq(SectionHeader) /\ SHDR * Len(m.sh) < WORD
    /\ \A o \in DOMAIN m.sym : m.sym[o] \in Symbol
    /\ \A o \in DOMAIN m.str : m.str[o].end \in Nat /\ m.str[o].end >= o

ASSUME ElfAssumption ==
    /\ WORD \in Nat /\ WORD > 1 /\ MAX_SEGMENTS \in Nat /\ \A m \in Images : ImageOK(m)
    /\ ALIGN \in Nat \ {0} /\ SPARE \in Nat /\ SPARE + ALIGN <= WORD

VARIABLES
    img,                        \* the file being loaded
    pc, i,                      \* where the loader is, and the header it looks at
    min_vaddr, max_vaddr_end, load_count,
    loaded,                     \* struct clks_elf64_loaded_image
    block,                      \* the image in its heap block: address |-> byte, or NoBlock
    held,                       \* the size of that heap block, 0 if there is none
    look,                       \* the search for a symbol
    access                      \* the bytes the last step touched: pairs <<first, after the last>>

vars == <<img, pc, i, min_vaddr, max_vaddr_end, load_count, loaded, block, held, look, access>>
measured == <<min_vaddr, max_vaddr_end, load_count>>

ZERO == -1
NoBlock == <<>>
NotLoaded == [entry |-> 0, base |-> FALSE, size |-> 0, vaddr |-> 0, segments |-> <<>>]
NoLook == [name |-> "", sec |-> 0, sym |-> 0, out |-> -1]
Touches(file, mem) == access' = [file |-> file, mem |-> mem]

(***************************************************************************)
(* u64 arithmetic and ranges.                                              *)
(***************************************************************************)
add(a, b) == IF a + b < WORD THEN a + b ELSE a + b - WORD
sub(a, b) == IF a >= b THEN a - b ELSE a - b + WORD

\* Mutant: the sum is compared, which wraps.
range_ok_wraps(off, len, total) == add(off, len) <= total
range_ok(off, len, total) == off <= total /\ len <= total - off

ph_at(m, k) == m.phoff + PHDR * (k - 1)

loads(h) == h.load /\ h.memsz # 0

-----------------------------------------------------------------------------
Init ==
    /\ img \in Images
    /\ pc = "start" /\ i = 0
    /\ min_vaddr = 0 /\ max_vaddr_end = 0 /\ load_count = 0
    /\ loaded = NotLoaded /\ block = NoBlock /\ held = 0 /\ look = NoLook
    /\ access = [file |-> {}, mem |-> {}]

Goto(label) == pc' = label /\ i' = 1
Fail == pc' = "failed" /\ i' = 0

(***************************************************************************)
(* clks_elf64_validate.                                                    *)
(***************************************************************************)
HeaderOK(m) == m.size >= EHDR /\ m.ok /\ range_ok(m.phoff, PHDR * Len(m.ph), m.size)

ValidateFile ==
    /\ pc = "start"
    /\ IF HeaderOK(img) THEN Goto("headers") ELSE Fail
    /\ Touches(IF img.size >= EHDR THEN {<<0, EHDR>>} ELSE {}, {})
    /\ UNCHANGED <<img, measured, loaded, block, held, look>>

segment_ok(h, size) == h.load => h.filesz <= h.memsz /\ range_ok(h.offset, h.filesz, size)

\* One step of a loop over the program headers; the step reads one.
AtHeader(label) == pc = label /\ i <= Len(img.ph)
PastHeaders(label) == pc = label /\ i > Len(img.ph)
ReadsHeader == {<<ph_at(img, i), ph_at(img, i) + PHDR>>}

ValidateHeader ==
    /\ AtHeader("headers")
    /\ IF segment_ok(img.ph[i], img.size) THEN i' = i + 1 /\ UNCHANGED pc ELSE Fail
    /\ Touches(ReadsHeader, {})
    /\ UNCHANGED <<img, measured, loaded, block, held, look>>

ValidateDone ==
    /\ PastHeaders("headers") /\ Goto("measure")
    /\ min_vaddr' = 0 /\ max_vaddr_end' = 0 /\ load_count' = 0
    /\ Touches({}, {})
    /\ UNCHANGED <<img, loaded, block, held, look>>

(***************************************************************************)
(* clks_elf64_load.                                                        *)
(***************************************************************************)
wraps(h) == add(h.vaddr, h.memsz) < h.vaddr

lower(h) == load_count = 0 \/ h.vaddr < min_vaddr
higher(h) == load_count = 0 \/ add(h.vaddr, h.memsz) > max_vaddr_end

Measure ==
    /\ AtHeader("measure")
    /\ LET h == img.ph[i] IN
       IF ~loads(h) THEN i' = i + 1 /\ UNCHANGED <<pc, measured>>
       ELSE IF wraps(h) THEN Fail /\ UNCHANGED measured
       ELSE /\ i' = i + 1 /\ UNCHANGED pc
            /\ min_vaddr' = IF lower(h) THEN h.vaddr ELSE min_vaddr
            /\ max_vaddr_end' = IF higher(h) THEN add(h.vaddr, h.memsz) ELSE max_vaddr_end
            /\ load_count' = load_count + 1
    /\ Touches(ReadsHeader, {})
    /\ UNCHANGED <<img, loaded, block, held, look>>

span == sub(max_vaddr_end, min_vaddr)

measure_ok == load_count # 0 /\ load_count <= MAX_SEGMENTS /\ span # 0

cleared(size) == [a \in 0 .. size - 1 |-> ZERO]

\* clks_kmalloc, as Heap.tla has it: a block with a few bytes more than the size
\* rounded up, or none.  The largest sizes are rounded up to 0.
align_up(size) == LET sum == add(size, ALIGN - 1) IN sum - (sum % ALIGN)
oversized(size) == size + ALIGN > WORD

AllocateFails ==
    /\ PastHeaders("measure") /\ Fail
    /\ Touches({}, {})
    /\ UNCHANGED <<img, measured, loaded, block, held, look>>

\* The whole span is cleared.  If the block is smaller, the kernel overwrites
\* what is behind it, all its own memory, and nothing can follow.
Allocate(rest) ==
    /\ PastHeaders("measure") /\ measure_ok
    /\ held' = align_up(span) + rest
    /\ IF span <= held'
       THEN /\ Goto("copy")
            /\ block' = cleared(span)
            /\ loaded' = [entry |-> img.entry, base |-> TRUE, size |-> span, vaddr |-> min_vaddr,
                          segments |-> <<>>]
       ELSE pc' = "overrun" /\ i' = 0 /\ UNCHANGED <<block, loaded>>
    /\ Touches({}, {<<0, span>>})
    /\ UNCHANGED <<img, measured, look>>

Overrun == pc = "overrun" /\ UNCHANGED vars

\* Mutant: the record is cleared before the block it points to is freed.
unload_cleared == loaded' = NotLoaded /\ UNCHANGED <<block, held>>
unload == loaded' = NotLoaded /\ block' = NoBlock /\ held' = 0

seg_off(h) == sub(h.vaddr, loaded.vaddr)
seg_fits(h) == seg_off(h) <= loaded.size /\ h.memsz <= loaded.size - seg_off(h)

placed(b, h) == [a \in DOMAIN b |-> IF a >= seg_off(h) /\ a < seg_off(h) + h.filesz
                                    THEN h.offset + (a - seg_off(h)) ELSE b[a]]

CopySegment ==
    /\ AtHeader("copy")
    /\ LET h == img.ph[i] IN
       IF ~loads(h) THEN i' = i + 1 /\ Touches(ReadsHeader, {}) /\ UNCHANGED <<pc, loaded, block, held>>
       ELSE IF Len(loaded.segments) >= MAX_SEGMENTS \/ ~seg_fits(h)
       THEN unload /\ Fail /\ Touches(ReadsHeader, {})
       ELSE /\ block' = placed(block, h)
            /\ loaded' = [loaded EXCEPT !.segments = Append(@, i)]
            /\ i' = i + 1 /\ UNCHANGED <<pc, held>>
            /\ Touches(ReadsHeader \cup {<<h.offset, h.offset + h.filesz>>},
                       {<<seg_off(h), seg_off(h) + h.filesz>>})
    /\ UNCHANGED <<img, measured, look>>

CopyDone ==
    /\ PastHeaders("copy")
    /\ pc' = "loaded" /\ i' = 0
    /\ Touches({}, {})
    /\ UNCHANGED <<img, measured, loaded, block, held, look>>

(***************************************************************************)
(* What becomes of an image: it is entered (a program), searched for       *)
(* symbols (a library), and unloaded.                                      *)
(***************************************************************************)
entry_ok == loaded.entry >= loaded.vaddr /\ loaded.entry - loaded.vaddr < loaded.size

\* clks_exec_run_proc_slot: a program without an entry point is not run.
Enter ==
    /\ pc = "loaded"
    /\ IF entry_ok
       THEN /\ Touches({}, {<<loaded.entry - loaded.vaddr, loaded.entry - loaded.vaddr + 1>>})
            /\ UNCHANGED <<pc, i, loaded, block, held>>
       ELSE unload /\ Fail /\ Touches({}, {})
    /\ UNCHANGED <<img, measured, look>>

Unload ==
    /\ pc \in {"loaded", "failed"}
    /\ unload
    /\ pc' = "start" /\ i' = 0 /\ look' = NoLook
    /\ Touches({}, {})
    /\ UNCHANGED <<img, measured>>

(***************************************************************************)
(* clks_exec_dynlib_resolve_symbol: the tables of symbols one by one, and  *)
(* the symbols of each.  look.out is the address found in the image.       *)
(***************************************************************************)
sh_at(m, k) == m.shoff + SHDR * (k - 1)
symbol_at(m, o) == IF o \in DOMAIN m.sym THEN m.sym[o] ELSE NoSymbol
\* Where no string begins there is a NUL.
string_at(m, o) == IF o \in DOMAIN m.str THEN m.str[o] ELSE [text |-> "", end |-> o]

Searchable(m) == /\ m.size >= EHDR /\ m.sections_ok /\ m.sh # <<>> /\ m.shoff # 0
                 /\ range_ok(m.shoff, SHDR * Len(m.sh), m.size)

LookUp(name) ==
    /\ pc = "loaded"
    /\ look' = [NoLook EXCEPT !.name = name, !.sec = 1]
    /\ pc' = IF Searchable(img) THEN "sections" ELSE "loaded"
    /\ Touches(IF img.size >= EHDR THEN {<<0, EHDR>>} ELSE {}, {})
    /\ UNCHANGED <<img, i, measured, loaded, block, held>>

usable(m, s) ==
    /\ s.symtab /\ s.entsize = SYM /\ s.link < Len(m.sh) /\ s.size >= s.entsize
    /\ range_ok(s.offset, s.size, m.size)
strtab_of(m, s) == m.sh[s.link + 1]
strtab_ok(m, s) == range_ok(strtab_of(m, s).offset, strtab_of(m, s).size, m.size)
symbols_in(s) == s.size \div s.entsize

SearchSection ==
    /\ pc = "sections" /\ look.sec <= Len(img.sh)
    /\ LET s == img.sh[look.sec]
           section(k) == {<<sh_at(img, k), sh_at(img, k) + SHDR>>}
       IN
       /\ IF usable(img, s) /\ strtab_ok(img, s)
          THEN pc' = "symbols" /\ look' = [look EXCEPT !.sym = 0]
          ELSE look' = [look EXCEPT !.sec = @ + 1] /\ UNCHANGED pc
       /\ Touches(section(look.sec) \cup (IF usable(img, s) THEN section(s.link + 1) ELSE {}), {})
    /\ UNCHANGED <<img, i, measured, loaded, block, held>>

SearchFails ==
    /\ pc = "sections" /\ look.sec > Len(img.sh)
    /\ pc' = "loaded"
    /\ Touches({}, {})
    /\ UNCHANGED <<img, i, measured, loaded, block, held, look>>

\* clks_exec_dynlib_symbol_name_ptr: the name ends inside its table.
name_at(t, sym) == t.offset + sym.name
name_ok(m, t, sym) == sym.name < t.size /\ string_at(m, name_at(t, sym)).end < t.offset + t.size
candidate(sym) == sym.name # 0 /\ sym.defined /\ sym.value # 0 /\ sym.code
\* Mutant: an address just past the image is taken.
in_image_past(sym) == sym.value >= loaded.vaddr /\ sym.value - loaded.vaddr <= loaded.size
in_image(sym) == sym.value >= loaded.vaddr /\ sym.value - loaded.vaddr < loaded.size
matches(m, t, sym, name) == /\ candidate(sym) /\ name_ok(m, t, sym)
                            /\ string_at(m, name_at(t, sym)).text = name /\ in_image(sym)

Smaller(a, b) == IF a < b THEN a ELSE b
\* The symbol; the characters up to the NUL or the end of the table; and, if
\* the name is good, those strcmp may look at.
ReadsSymbol(m, s, t, sym, at) ==
    LET from == name_at(t, sym)
        nul == string_at(m, from).end
    IN  {<<at, at + SYM>>}
        \cup (IF candidate(sym) /\ sym.name < t.size THEN {<<from, Smaller(nul + 1, t.offset + t.size)>>} ELSE {})
        \cup (IF candidate(sym) /\ name_ok(m, t, sym) THEN {<<from, nul + 1>>} ELSE {})

SearchSymbol ==
    /\ pc = "symbols"
    /\ LET s == img.sh[look.sec]
           t == strtab_of(img, s)
           at == s.offset + SYM * look.sym
           sym == symbol_at(img, at)
       IN  IF look.sym >= symbols_in(s)
           THEN /\ pc' = "sections" /\ look' = [look EXCEPT !.sec = @ + 1]
                /\ Touches({}, {})
           ELSE /\ IF matches(img, t, sym, look.name)
                   THEN pc' = "loaded" /\ look' = [look EXCEPT !.out = sym.value - loaded.vaddr]
                   ELSE look' = [look EXCEPT !.sym = @ + 1] /\ UNCHANGED pc
                /\ Touches(ReadsSymbol(img, s, t, sym, at), {})
    /\ UNCHANGED <<img, i, measured, loaded, block, held>>

Validate == ValidateFile \/ ValidateHeader \/ ValidateDone
Load == \/ Measure \/ AllocateFails \/ (\E rest \in 0 .. SPARE - 1 : Allocate(rest))
        \/ CopySegment \/ CopyDone \/ Overrun
Search == (\E name \in Symbols : LookUp(name)) \/ SearchSection \/ SearchFails \/ SearchSymbol
Next == Validate \/ Load \/ Enter \/ Search \/ Unload

Spec == Init /\ [][Next]_vars

-----------------------------------------------------------------------------
Segments(m, k) == {j \in 1 .. k : loads(m.ph[j])}
Built == pc \in {"loaded", "sections", "symbols"}

\* The type of the state.  A block is held exactly while an image is loaded or
\* being copied: no failure leaves one behind, and none is given up twice.  The
\* image fits in its block.
ElfTypeOK ==
    /\ pc \in {"start", "headers", "measure", "copy", "loaded", "sections", "symbols", "failed", "overrun"}
    /\ i \in 0 .. Len(img.ph) + 1
    /\ min_vaddr \in U64 /\ max_vaddr_end \in U64 /\ load_count \in 0 .. Len(img.ph)
    /\ loaded.base \in BOOLEAN /\ loaded.size \in U64 /\ loaded.vaddr \in U64
    /\ Len(loaded.segments) <= MAX_SEGMENTS
    /\ loaded.base <=> (pc = "copy" \/ Built)
    /\ block = IF loaded.base THEN [a \in 0 .. loaded.size - 1 |-> block[a]] ELSE NoBlock
    /\ held \in Nat /\ loaded.size <= held /\ (~loaded.base /\ pc # "overrun" => held = 0)

\* Whatever the headers, section headers and symbols of a file say, the loader
\* reads no byte outside the file (clks_elf64_range_ok and the tests around it).
\* It writes none outside the block it was given, and starts a program nowhere
\* else, with one exception: segments that lie nearly WORD apart.  Their span is
\* not refused, the heap rounds it up to 0, and clearing it overruns the block.
AccessInBounds ==
    /\ \A r \in access.file : 0 <= r[1] /\ r[2] <= img.size
    /\ \A r \in access.mem : 0 <= r[1] /\ (r[2] <= held \/ oversized(span))
    /\ pc = "overrun" => oversized(span)

\* Once the block is allocated the loading succeeds: what was measured holds
\* every segment, and the tests in the second loop never fail.
CopyNeverFails == [][pc = "copy" => pc' # "failed"]_vars

Overlap(g, h) == g.vaddr < h.vaddr + h.memsz /\ h.vaddr < g.vaddr + g.memsz

\* An image whose segments do not overlap is laid out as its headers say: each
\* segment at its address, the bytes of the file first and zeros after them.
ImageLaidOut ==
    Built /\ (\A j, k \in Segments(img, Len(img.ph)) : j # k => ~Overlap(img.ph[j], img.ph[k])) =>
        \A j \in Segments(img, Len(img.ph)) : LET h == img.ph[j] IN
            \A n \in 0 .. h.memsz - 1 :
                block[h.vaddr - loaded.vaddr + n] = IF n < h.filesz THEN h.offset + n ELSE ZERO

\* A search ends with the first symbol of that name that is defined in the
\* image, tables in the order of the sections, or with none if there is none.
Named(k) ==
    LET s == img.sh[k]
        t == img.sh[s.link + 1]
        sym(n) == symbol_at(img, s.offset + SYM * n)
        string(n) == string_at(img, t.offset + sym(n).name)
    IN  {n \in 0 .. (s.size \div SYM) - 1 :
            /\ candidate(sym(n)) /\ string(n).text = look.name
            /\ sym(n).name < t.size /\ string(n).end < t.offset + t.size
            /\ sym(n).value \in loaded.vaddr .. loaded.vaddr + loaded.size - 1}
LookupExact ==
    [][(pc = "sections" \/ pc = "symbols") /\ pc' = "loaded" =>
         LET tables == {k \in DOMAIN img.sh : usable(img, img.sh[k]) /\ strtab_ok(img, img.sh[k]) /\ Named(k) # {}}
         IN  IF tables = {} THEN look'.out = -1
             ELSE LET k == CHOOSE k \in tables : \A l \in tables : k <= l
                      n == CHOOSE n \in Named(k) : \A l \in Named(k) : n <= l
                  IN  look'.out = symbol_at(img, img.sh[k].offset + SYM * n).value - loaded.vaddr]_vars

\* A file that is loaded is loaded right: nothing outside it or the block is
\* touched, and its segments are where programs expect them.  Only a file whose
\* span the heap cannot round up overruns its block, before it is loaded.
LoadSound == AccessInBounds /\ ImageLaidOut

\* What a load and a search come to is what the file calls for.
OutcomeExact == CopyNeverFails /\ LookupExact

=============================================================================
