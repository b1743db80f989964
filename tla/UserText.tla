----------------------------- MODULE UserText -----------------------------
(***************************************************************************)
(* What the user programs do to text (cleonos/c/apps): how an argument is  *)
(* split into words and parsed, and the line tools grep, head, tail, wc,   *)
(* cut, uniq and sort.  A text, a word and an argument are sequences of    *)
(* keys; a key is one character, or a run of characters (a name, a message *)
(* of a program) that nothing here looks into.                             *)
(***************************************************************************)
EXTENDS Integers, Sequences, SequencesExt, FiniteSets

CONSTANTS
    COPY_MAX,         \* USH_COPY_MAX: size of a program's input buffer
    SORT_MAX_LINES,   \* USH_SORT_MAX_LINES
    U64_MAX,          \* the largest number ush_parse_u64_dec can hold
    DEFAULT_LINES,    \* how many lines head and tail show without -n
    Code              \* key |-> the byte it is, 0 .. 255

ASSUME UserTextAssumption ==
    /\ {COPY_MAX, SORT_MAX_LINES, U64_MAX, DEFAULT_LINES} \subseteq Nat \ {0}
    /\ \A k \in DOMAIN Code : Code[k] \in 0 .. 255

(***************************************************************************)
(* Words and numbers (cmd_runtime.c).                                      *)
(***************************************************************************)
is_space(k) == k \in {" ", "TAB", "CR", "NL", "VT", "FF"}
no_space(k) == ~is_space(k)
after(s, n) == SubSeq(s, n + 1, Len(s))
run_of(s, P(_)) == Max({n \in 0 .. Len(s) : \A j \in 1 .. n : P(s[j])})
skip_spaces(s) == after(s, run_of(s, is_space))
trim_line(s) == Reverse(skip_spaces(Reverse(skip_spaces(s))))

split_at(t, n) == [ok |-> t # <<>>, first |-> SubSeq(t, 1, n), rest |-> skip_spaces(after(t, n))]
split_word(t) == split_at(t, run_of(t, no_space))
split_first_and_rest(s) == split_word(skip_spaces(s))

\* The words a program gets from an argument by splitting again and again.
take_word(done, t) == [done |-> IF t.ok THEN Append(done, t.first) ELSE done, rest |-> t.rest]
words(s) == FoldLeft(LAMBDA w, k : take_word(w.done, split_first_and_rest(w.rest)),
                     [done |-> <<>>, rest |-> s], s).done

Digit == [k \in {"0", "1", "2", "3", "4", "5", "6", "7", "8", "9"} |-> Code[k] - 48]
DigitKey(v) == CHOOSE k \in DOMAIN Digit : Digit[k] = v

parse_digit(v, k) ==
    IF v < 0 \/ k \notin DOMAIN Digit THEN -1
    ELSE IF v > ((U64_MAX - Digit[k]) \div 10) THEN -1 ELSE 10 * v + Digit[k]

\* -1 for what is not a number, or is too large for 64 bits.
parse_u64_dec(w) == IF w = <<>> THEN -1 ELSE FoldLeft(parse_digit, 0, w)

write_u64_dec(v) == LET d[n \in Nat] == IF n < 10 THEN <<DigitKey(n)>> ELSE Append(d[n \div 10], DigitKey(n % 10))
                    IN  d[v]

(***************************************************************************)
(* Lines.                                                                  *)
(***************************************************************************)
\* The lines that end in a newline, and what follows the last newline.
scan_lines(t) ==
    LET feed(s, k) == IF k = "NL" THEN [done |-> Append(s.done, s.rest), rest |-> <<>>]
                      ELSE [s EXCEPT !.rest = Append(@, k)]
    IN  FoldLeft(feed, [done |-> <<>>, rest |-> <<>>], t)

\* A last line without newline counts, an empty one does not.
lines_of(s) == IF s.rest = <<>> THEN s.done ELSE Append(s.done, s.rest)
text_lines(t) == lines_of(scan_lines(t))

emit_line(line) == Append(line, "NL")
emit_lines(ls) == FlattenSeq([n \in DOMAIN ls |-> emit_line(ls[n])])

line_has_pattern(line, p) == \E n \in 0 .. Len(line) - Len(p) : SubSeq(line, n + 1, n + Len(p)) = p

\* Every line is numbered, also the empty one after a last newline.
all_lines(s) == Append(s.done, s.rest)
emit_matches(ls, p, with_line_number) ==
    LET label(n) == IF with_line_number THEN Append(write_u64_dec(n), ":") ELSE <<>>
    IN  FlattenSeq([n \in DOMAIN ls |->
                      IF line_has_pattern(ls[n], p) THEN label(n) \o emit_line(ls[n]) ELSE <<>>])
grep_emit_matches(t, p, with_line_number) == emit_matches(all_lines(scan_lines(t)), p, with_line_number)

(***************************************************************************)
(* head and tail                                                           *)
(***************************************************************************)
head_emit(t, count) ==
    LET put(s, k) == IF s.emitted >= count THEN s
                     ELSE [out |-> Append(s.out, k), emitted |-> s.emitted + (IF k = "NL" THEN 1 ELSE 0)]
    IN  FoldLeft(put, [out |-> <<>>, emitted |-> 0], t).out

\* The newlines that have something after them.
inner_newlines(t) == {n \in 1 .. Len(t) - 1 : t[n] = "NL"}

tail_count_lines(t) == IF t = <<>> THEN 0 ELSE 1 + Cardinality(inner_newlines(t))

tail_find_start_offset(t, skip) ==
    IF skip = 0 THEN 0
    ELSE Min({Len(t)} \cup {n \in inner_newlines(t) : Cardinality({m \in inner_newlines(t) : m <= n}) = skip})

tail_emit(t, count) == IF count = 0 THEN <<>>
                       ELSE after(t, tail_find_start_offset(t, Max({0, tail_count_lines(t) - count})))

(***************************************************************************)
(* wc                                                                      *)
(***************************************************************************)
wc_count(t) ==
    LET see(s, k) == [lines |-> s.lines + (IF k = "NL" THEN 1 ELSE 0),
                      words |-> s.words + (IF ~is_space(k) /\ ~s.in_word THEN 1 ELSE 0),
                      bytes |-> s.bytes + 1, in_word |-> ~is_space(k)]
    IN  FoldLeft(see, [lines |-> 0, words |-> 0, bytes |-> 0, in_word |-> FALSE], t)

wc_write(c) == write_u64_dec(c.lines) \o <<" ">> \o write_u64_dec(c.words) \o <<" ">>
               \o write_u64_dec(c.bytes) \o <<"NL">>
wc_emit(t) == wc_write(wc_count(t))

(***************************************************************************)
(* cut                                                                     *)
(***************************************************************************)
\* The fields between the delimiters; a field that is not there is empty.
fields(line, delim) ==
    LET feed(s, k) == IF k = delim THEN Append(s, <<>>) ELSE [s EXCEPT ![Len(s)] = Append(@, k)]
    IN  FoldLeft(feed, <<<<>>>>, line)

\* Mutant: fields are counted from 0.
pick_from_zero(fs, field) == IF field + 1 \in DOMAIN fs THEN fs[field + 1] ELSE <<>>
pick(fs, field) == IF field \in DOMAIN fs THEN fs[field] ELSE <<>>
cut_field(line, delim, field) == pick(fields(line, delim), field)

cut_lines(ls, delim, field) == emit_lines([n \in DOMAIN ls |-> cut_field(ls[n], delim, field)])
cut_emit(t, delim, field) == cut_lines(text_lines(t), delim, field)

(***************************************************************************)
(* uniq                                                                    *)
(***************************************************************************)
uniq_keep(kept, line) == IF kept # <<>> /\ Last(kept) = line THEN kept ELSE Append(kept, line)

uniq_emit(t) == emit_lines(FoldLeft(uniq_keep, <<>>, text_lines(t)))

(***************************************************************************)
(* sort                                                                    *)
(***************************************************************************)
\* Lines become C strings: a zero byte ends one.  Characters are signed.
c_string(line) == SubSeq(line, 1, run_of(line, LAMBDA k : k # "NUL"))
signed(k) == IF Code[k] > 127 THEN Code[k] - 256 ELSE Code[k]

\* Is left > right?  A proper prefix is the smaller one.
greater_after(left, right, n) == IF n < Len(left) /\ n < Len(right) THEN signed(left[n + 1]) > signed(right[n + 1])
                                 ELSE n < Len(left)
agree(left, right) == Max({m \in 0 .. Min({Len(left), Len(right)}) : SubSeq(left, 1, m) = SubSeq(right, 1, m)})
sort_greater(left, right) == greater_after(left, right, agree(left, right))

\* The first SORT_MAX_LINES lines, and whether there were more.
sort_collect_lines(ls) == [lines |-> [n \in 1 .. Min({Len(ls), SORT_MAX_LINES}) |-> c_string(ls[n])],
                           truncated |-> Len(ls) > SORT_MAX_LINES]

\* Mutant: the key is put in front of the lines that are smaller.
sort_insert_front(sorted, key) == IF sorted # <<>> /\ sort_greater(key, sorted[1])
                                  THEN <<key>> \o sorted ELSE Append(sorted, key)
\* One round of insertion sort: larger lines move up by one.
insert_after(sorted, n, key) == SubSeq(sorted, 1, n) \o <<key>> \o after(sorted, n)
sort_insert(sorted, key) ==
    insert_after(sorted, Len(sorted) - run_of(Reverse(sorted), LAMBDA line : sort_greater(line, key)), key)

sort_lines(c) == emit_lines(FoldLeft(sort_insert, <<>>, c.lines))
                 \o (IF c.truncated THEN <<"[sort] line count truncated", "NL">> ELSE <<>>)
sort_emit(t) == sort_lines(sort_collect_lines(text_lines(t)))

(***************************************************************************)
(* The arguments of the tools: [ok, ..., file], file being empty when the  *)
(* input is that of the pipeline.                                          *)
(***************************************************************************)
one_file(ws) == [ok |-> Len(ws) <= 1, file |-> IF ws = <<>> THEN <<>> ELSE ws[1]]

\* head and tail: [-n N] [file].
counted_args(ws, n) == [ok |-> n >= 0 /\ Len(ws) <= 3, count |-> n, file |-> IF Len(ws) >= 3 THEN ws[3] ELSE <<>>]
parse_count_args(ws) ==
    IF ws = <<>> \/ ws[1] # <<"-n">>
    THEN [ok |-> Len(ws) <= 1, count |-> DEFAULT_LINES, file |-> one_file(ws).file]
    ELSE counted_args(ws, IF Len(ws) < 2 THEN -1 ELSE parse_u64_dec(ws[2]))

\* grep: [-n] pattern [file].
parse_grep_args(ws) ==
    LET n == ws # <<>> /\ ws[1] = <<"-n">>
        rest == IF n THEN Tail(ws) ELSE ws
    IN  [ok |-> Len(rest) \in {1, 2}, number |-> n, pattern |-> IF rest = <<>> THEN <<>> ELSE rest[1],
         file |-> IF Len(rest) = 2 THEN rest[2] ELSE <<>>]

cut_parse_delim(w) == IF w = <<"\\t">> THEN "TAB" ELSE IF Len(w) = 1 THEN w[1] ELSE ""

cut_delim(s, d) == [s EXCEPT !.want = "", !.delim = d, !.ok = d # ""]
cut_number(s, n) == [s EXCEPT !.want = "", !.field = n, !.ok = n > 0]
cut_complete(s) == [s EXCEPT !.ok = @ /\ s.want = "" /\ s.delim # "" /\ s.field > 0]

\* cut: -d and -f take the next word as their value; both are required.
parse_cut_args(ws) ==
    LET none == [ok |-> TRUE, want |-> "", delim |-> "", field |-> 0, file |-> <<>>]
        see(s, w) ==
            CASE ~s.ok -> s
              [] s.want = "-d" -> cut_delim(s, cut_parse_delim(w))
              [] s.want = "-f" -> cut_number(s, parse_u64_dec(w))
              [] w \in {<<"-d">>, <<"-f">>} -> [s EXCEPT !.want = w[1]]
              [] OTHER -> [s EXCEPT !.file = w, !.ok = w[1] \notin {"-", "-n"} /\ s.file = <<>>]
    IN  cut_complete(FoldLeft(see, none, ws))

Tools == {"grep", "head", "tail", "wc", "cut", "uniq", "sort"}

parse_words(cmd, ws) == CASE cmd = "grep" -> parse_grep_args(ws)
                          [] cmd \in {"head", "tail"} -> parse_count_args(ws)
                          [] cmd = "cut" -> parse_cut_args(ws)
                          [] OTHER -> one_file(ws)
parse_args(cmd, arg) == parse_words(cmd, words(arg))

emit(cmd, a, t) == CASE cmd = "grep" -> grep_emit_matches(t, a.pattern, a.number)
                     [] cmd = "head" -> head_emit(t, a.count)
                     [] cmd = "tail" -> tail_emit(t, a.count)
                     [] cmd = "wc" -> wc_emit(t)
                     [] cmd = "cut" -> cut_emit(t, a.delim, a.field)
                     [] cmd = "uniq" -> uniq_emit(t)
                     [] cmd = "sort" -> sort_emit(t)
=============================================================================
