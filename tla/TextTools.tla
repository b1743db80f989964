----------------------------- MODULE TextTools -----------------------------
(***************************************************************************)
(* A line tool run by the user shell: before its main function the input   *)
(* of the pipeline is read into a buffer of COPY_MAX bytes (cmd_runtime.c),*)
(* or the tool loads the file it is given; then it parses its argument and *)
(* writes its result (UserText).  What each tool writes is compared with   *)
(* what it should write, said another way.                                 *)
(***************************************************************************)
EXTENDS UserText

CONSTANTS
    DRAIN,       \* size of the buffer that swallows what does not fit
    Inputs,      \* the texts a tool may find
    Calls        \* the commands with their arguments, file left out

VARIABLES
    text,        \* what is in the input stream or in the file
    piped,       \* the input comes from the pipeline
    off,         \* offset of descriptor 0
    buf,         \* ush_pipeline_stdin_buf, or the file buffer
    truncated,   \* more than fits was met
    call,        \* the command that runs, <<>> before
    out,         \* what it wrote
    pc           \* "capture", "load", "main", "done"

vars == <<text, piped, off, buf, truncated, call, out, pc>>

Init == /\ text \in Inputs /\ piped \in BOOLEAN
        /\ off = 0 /\ buf = <<>> /\ truncated = FALSE /\ call = <<>> /\ out = <<>>
        /\ pc = IF piped THEN "capture" ELSE "load"

\* What a read of n bytes from descriptor 0 returns.
fd_read(n) == SubSeq(text, off + 1, Min({Len(text), off + n}))

\* There is room: read into the buffer.
CaptureRead ==
    /\ pc = "capture" /\ Len(buf) < COPY_MAX
    /\ LET got == fd_read(COPY_MAX - Len(buf))
       IN  /\ buf' = buf \o got /\ off' = off + Len(got)
           /\ pc' = IF got = <<>> THEN "main" ELSE "capture"
    /\ UNCHANGED <<text, piped, truncated, call, out>>

\* The buffer is full: the rest is read and dropped, and said to be, also
\* when there is no rest.
CaptureDrain ==
    /\ pc = "capture" /\ Len(buf) >= COPY_MAX
    /\ off' = off + Len(fd_read(DRAIN)) /\ truncated' = TRUE
    /\ pc' = IF fd_read(DRAIN) = <<>> THEN "main" ELSE "capture"
    /\ UNCHANGED <<text, piped, buf, call, out>>

\* A file is read whole or not at all.
LoadInput ==
    /\ pc = "load"
    /\ pc' = IF Len(text) > COPY_MAX THEN "done" ELSE "main"
    /\ out' = IF Len(text) > COPY_MAX THEN <<"file too large", "NL">> ELSE <<>>
    /\ buf' = IF Len(text) > COPY_MAX THEN <<>> ELSE text
    /\ UNCHANGED <<text, piped, off, truncated, call>>

Notice == IF truncated THEN <<"[pipe] input truncated", "NL">> ELSE <<>>

Main(c) ==
    /\ pc = "main" /\ pc' = "done" /\ call' = c
    /\ LET a == parse_args(c[1], c[2])
       IN  out' = IF a.ok THEN Notice \o emit(c[1], a, buf) ELSE Notice \o <<"usage", "NL">>
    /\ UNCHANGED <<text, piped, off, buf, truncated>>

Next == CaptureRead \/ CaptureDrain \/ LoadInput \/ \E c \in Calls : Main(c)
Spec == Init /\ [][Next]_vars

(***************************************************************************)
(* The same things said another way.                                       *)
(***************************************************************************)
IsPrefixOf(s, t) == Len(s) <= Len(t) /\ SubSeq(t, 1, Len(s)) = s
Ended(t) == IF t = <<>> \/ t[Len(t)] = "NL" THEN t ELSE Append(t, "NL")
\* The lines of a text, from where its newlines are.
Lines(t) == LET e == Ended(t)
                ends == {n \in DOMAIN e : e[n] = "NL"}
                end(k) == CHOOSE n \in ends : Cardinality({m \in ends : m <= n}) = k
                start(k) == IF k = 1 THEN 1 ELSE end(k - 1) + 1
            IN  [k \in 1 .. Cardinality(ends) |-> SubSeq(e, start(k), end(k) - 1)]
Result == after(out, Len(Notice))
Ran(cmds) == pc = "done" /\ call # <<>> /\ call[1] \in cmds
Parsed == parse_args(call[1], call[2])
Accepted(cmds) == Ran(cmds) /\ Parsed.ok

\* What a tool sees of the pipeline is the beginning of what the stage before
\* it wrote, all of it unless the tool says that it was cut
\* (ush_cmd_runtime_capture_stdin_pipe).
CaptureIsPrefix ==
    pc \in {"main", "done"} /\ piped =>
        /\ IsPrefixOf(buf, text) /\ Len(buf) <= COPY_MAX
        /\ buf # text => truncated /\ Len(buf) = COPY_MAX /\ off = Len(text)

\* A count is accepted exactly when it is a number of 64 bits, and then it is
\* that number (ush_parse_u64_dec): it neither wraps nor refuses the last ones.
NumbersExact ==
    Ran({"head", "tail"}) /\ Len(words(call[2])) = 2 =>
        LET w == words(call[2])[2]
            value[n \in 0 .. Len(w)] == IF n = 0 THEN 0 ELSE 10 * value[n - 1] + Digit[w[n]]
            good == (\A n \in DOMAIN w : w[n] \in DOMAIN Digit) /\ value[Len(w)] <= U64_MAX
        IN  Parsed.ok = good /\ (good => Parsed.count = value[Len(w)])

\* grep prints the lines that hold the pattern somewhere, in their order, and
\* with -n each one's number, which is its place in the whole input.
GrepSelects ==
    Accepted({"grep"}) =>
        LET p == Parsed.pattern
            holds(line) == \E n \in DOMAIN line : IsPrefixOf(p, after(line, n - 1))
            ls == Lines(buf)
            hits == {n \in DOMAIN ls : holds(ls[n])}
            got == Lines(Result)
        IN  /\ Len(got) = Cardinality(hits)
            /\ \A n \in hits : LET k == Cardinality({m \in hits : m <= n})
                               IN  got[k] = IF Parsed.number THEN write_u64_dec(n) \o <<":">> \o ls[n] ELSE ls[n]

\* head and tail agree on what a line is: the first L - n lines and the last
\* n lines together are the whole text, byte for byte, and neither repeats nor
\* drops the line that no newline ends.
HeadTailSplit ==
    /\ Accepted({"tail"}) =>
          LET all == Len(Lines(buf))
              n == Min({Parsed.count, all})
          IN  head_emit(buf, all - n) \o Result = buf /\ Len(Lines(Result)) = n
    /\ Accepted({"head"}) =>
          IsPrefixOf(Result, buf) /\ Len(Lines(Result)) = Min({Parsed.count, Len(Lines(buf))})

\* wc prints the newlines, the maximal runs without a space and the bytes.
WcCounts ==
    Accepted({"wc"}) =>
        LET starts == {n \in DOMAIN buf : ~is_space(buf[n]) /\ (n = 1 \/ is_space(buf[n - 1]))}
            ends == {n \in DOMAIN buf : buf[n] = "NL"}
            w == words(Result)
        IN  Len(w) = 3 /\ [n \in 1 .. 3 |-> parse_u64_dec(w[n])]
                            = <<Cardinality(ends), Cardinality(starts), Len(buf)>>

\* cut prints one line per line, and the fields of a line put back together
\* with the delimiter between them are the line.
CutRejoins ==
    Accepted({"cut"}) =>
        LET d == Parsed.delim
            ls == Lines(buf)
            size(line) == 1 + Cardinality({n \in DOMAIN line : line[n] = d})
            joined(line) == FlattenSeq([f \in 1 .. size(line) |->
                                (IF f = 1 THEN <<>> ELSE <<d>>) \o cut_field(line, d, f)])
        IN  /\ Len(Lines(Result)) = Len(ls)
            /\ \A n \in DOMAIN ls : joined(ls[n]) = ls[n]
                                    /\ (Parsed.field > size(ls[n]) => Lines(Result)[n] = <<>>)

\* uniq drops exactly the lines that repeat the line before them.
UniqSqueezes ==
    Accepted({"uniq"}) =>
        LET ls == Lines(buf)
            firsts == {n \in DOMAIN ls : n = 1 \/ ls[n] # ls[n - 1]}
            got == Lines(Result)
        IN  /\ Len(got) = Cardinality(firsts)
            /\ \A n \in firsts : got[Cardinality({m \in firsts : m <= n})] = ls[n]

\* sort prints the lines it took (the first SORT_MAX_LINES, each up to a zero
\* byte) as often as they occur and in ascending order, so that uniq after
\* sort leaves each line once.
SortUniqIsASet ==
    Accepted({"sort"}) =>
        LET ls == Lines(buf)
            taken == [n \in 1 .. Min({Len(ls), SORT_MAX_LINES}) |-> c_string(ls[n])]
            got == SubSeq(Lines(Result), 1, Len(taken))
            left == Lines(uniq_emit(emit_lines(got)))
            times(line, s) == Cardinality({n \in DOMAIN s : s[n] = line})
        IN  /\ Len(Lines(Result)) = Len(taken) + (IF Len(ls) > SORT_MAX_LINES THEN 1 ELSE 0)
            /\ \A n \in DOMAIN taken : times(taken[n], got) = times(taken[n], taken)
            /\ \A m, n \in DOMAIN left : m < n => sort_greater(left[n], left[m]) /\ left[m] # left[n]

\* The line tools see what was written to them and do what their names say, by a
\* second definition of each: they agree on what a line, a field, a word and a
\* number is, and on the order of lines.
LineToolsExact ==
    /\ CaptureIsPrefix /\ NumbersExact /\ GrepSelects /\ HeadTailSplit /\ WcCounts /\ CutRejoins
    /\ UniqSqueezes /\ SortUniqIsASet

=============================================================================
