------------------------------ MODULE MCElf64 ------------------------------
(***************************************************************************)
(* Files for Elf64: programs of up to three headers, of every kind the     *)
(* loader tells apart, at four places in the file; and a library with      *)
(* tables of symbols, good and bad.                                        *)
(***************************************************************************)
EXTENDS Elf64, TLC

\* The table of program headers stands behind the file header, and the data
\* of the segments in the last eight bytes.
SIZE == EHDR + 3 * PHDR + 8
Segment(offset, filesz, vaddr, memsz) ==
    [load |-> TRUE, offset |-> offset, filesz |-> filesz, vaddr |-> vaddr, memsz |-> memsz]
Headers == {
    [Segment(0, 0, 0, 1) EXCEPT !.load = FALSE],
    Segment(SIZE - 8, 2, 16, 2),             \* text
    Segment(SIZE - 6, 1, 18, 3),             \* data behind it, with zeros
    Segment(SIZE - 4, 4, 20, 4),             \* overlaps the data; the last bytes of the file
    Segment(SIZE - 3, 4, 20, 4),             \* one byte too long
    Segment(SIZE + 1, 0, 24, 1),             \* begins past the end
    Segment(SIZE, 0, 24, 1),                 \* only zeros
    Segment(WORD - 2, 4, 16, 4),             \* offset and size wrap
    Segment(SIZE - 8, 2, 16, 1),             \* more in the file than in memory
    Segment(SIZE - 8, 1, WORD - 2, 1),       \* ends just below the top
    Segment(SIZE - 8, 1, 4, 1),              \* with the one before: a span that is rounded up to 0
    Segment(SIZE - 8, 1, WORD - 2, 2),       \* ends at the top: wraps to zero
    Segment(SIZE - 8, 0, 4, 0) }             \* nothing at all

Program(ph) == [size |-> SIZE, ok |-> TRUE, entry |-> 17, phoff |-> EHDR, ph |-> ph,
                sections_ok |-> FALSE, shoff |-> 0, sh |-> <<>>, sym |-> <<>>, str |-> <<>>]
Programs == {Program(ph) : ph \in UNION {[1 .. n -> Headers] : n \in 0 .. 3}}
Two == <<Segment(SIZE - 8, 2, 16, 2), Segment(SIZE - 6, 1, 18, 3)>>
OddPrograms ==
    {[Program(Two) EXCEPT !.phoff = p] : p \in {0, SIZE - 2 * PHDR, SIZE - 2 * PHDR + 1, SIZE + 1, WORD - 1}}
    \cup {[Program(Two) EXCEPT !.entry = e] : e \in {0, 15, 16, 20, 21, WORD - 1}}
    \cup {[Program(Two) EXCEPT !.ok = FALSE], [Program(Two) EXCEPT !.size = EHDR - 1]}

\* Behind the program: a table of two symbols, one of one, their names, and
\* four section headers.
A == SIZE
B == A + 2 * SYM
STR == B + SYM
SECTIONS == STR + 6
LIBSIZE == SECTIONS + 4 * SHDR
Sym(name, value) == [name |-> name, defined |-> TRUE, code |-> TRUE, value |-> value]
Table(offset, size, link) == [symtab |-> TRUE, entsize |-> SYM, link |-> link, offset |-> offset, size |-> size]
Strings(offset, size) == [symtab |-> FALSE, entsize |-> 0, link |-> 0, offset |-> offset, size |-> size]
SymbolChoices == {Sym(1, 16), Sym(3, 20), Sym(3, 21), Sym(1, 15), Sym(0, 16), Sym(5, 17), Sym(6, 17),
                  [Sym(1, 17) EXCEPT !.defined = FALSE], [Sym(1, 17) EXCEPT !.code = FALSE]}
\* "f" at 1, "g" at 3, and at 5 a name whose NUL is behind the table.
Names == (STR + 1 :> [text |-> "f", end |-> STR + 2]) @@ (STR + 3 :> [text |-> "g", end |-> STR + 4])
         @@ (STR + 5 :> [text |-> "h", end |-> LIBSIZE])
Library(sh, a, b, c) ==
    [Program(Two) EXCEPT !.size = LIBSIZE, !.sections_ok = TRUE, !.shoff = SECTIONS, !.sh = sh,
                         !.sym = (A :> a) @@ (A + SYM :> b) @@ (B :> c), !.str = Names]
GoodSections == <<Strings(0, 0), Table(A, 2 * SYM, 3), Table(B, SYM, 3), Strings(STR, 6)>>
Libraries ==
    {Library(GoodSections, a, b, c) : a, b, c \in SymbolChoices}
    \cup {Library([GoodSections EXCEPT ![2] = t], Sym(3, 21), Sym(3, 18), Sym(3, 19)) :
            t \in {Table(A, 2 * SYM, l) : l \in {0, 4, 5, WORD - 1}}
                  \cup {Table(A, s, 3) : s \in {0, SYM - 1, SYM, 3 * SYM - 1, LIBSIZE - A, LIBSIZE - A + 1}}
                  \cup {Table(LIBSIZE - SYM + 1, SYM, 3), [Table(A, 2 * SYM, 3) EXCEPT !.entsize = SYM - 1],
                        [Table(A, 2 * SYM, 3) EXCEPT !.symtab = FALSE]}}
    \cup {Library([GoodSections EXCEPT ![4] = t], Sym(1, 17), Sym(5, 18), Sym(3, 19)) :
            t \in {Strings(STR, 2), Strings(STR, 4), Strings(STR, WORD - STR), Strings(LIBSIZE, 1)}}
    \cup {[Library(GoodSections, Sym(1, 16), Sym(3, 17), Sym(3, 18)) EXCEPT !.shoff = o] :
            o \in {0, SECTIONS + 1, WORD - SHDR}}
    \cup {Library(<<>>, Sym(1, 16), Sym(3, 17), Sym(3, 18))}

MCImages == Programs \cup OddPrograms \cup Libraries
MCSymbols == {"f", "g", "h"}
=============================================================================
