----------------------------- MODULE ReadSlice ------------------------------
(***************************************************************************)
(* readNewlineLines (src/parser/read-slice.ts): a file read from an offset *)
(* in windows of bounded size, as the parts it yields.  A file is the set  *)
(* of its newlines' offsets and its size, a part the bytes it stands for.  *)
(***************************************************************************)
EXTENDS Integers, Sequences, FiniteSetsExt, SequencesExt

\* Mutant: a window holds no more than the longest record kept.
readTightLines(file, byteOffset, maxBytes) ==
    LET tail == {n \in file.newlines : n >= byteOffset}
        at == SetToSortSeq(tail, <)
        from(i) == IF i = 1 THEN byteOffset ELSE at[i - 1] + 1
    IN  [i \in DOMAIN at |-> [kind |-> IF at[i] - from(i) >= maxBytes THEN "oversize" ELSE "line",
                              from |-> from(i), newOffset |-> at[i] + 1]]

\* What the windows yield, in order.  A window is a byte longer than the
\* longest record kept; `discard` is where a longer one began, or -1.
readNewlineLines(file, byteOffset, maxBytes) ==
    LET end(o) == Min({file.size, o + maxBytes + 1})
        newlines(o) == {n \in file.newlines : o <= n /\ n < end(o)}
        part(from, n, kind) == [kind |-> kind, from |-> from, newOffset |-> n + 1]
        windowParts(o, discard) ==
            LET at == SetToSortSeq(newlines(o), <)
                start(i) == IF i = 1 THEN o ELSE at[i - 1] + 1
                parts == [i \in DOMAIN at |->
                            IF i = 1 /\ discard # -1 THEN part(discard, at[i], "oversize")
                            ELSE part(start(i), at[i], IF start(i) = at[i] THEN "blank" ELSE "line")]
                yielded == SelectSeq(parts, LAMBDA p : p.kind # "blank")
            IN  Append(yielded, part(o, Max(newlines(o)), "advance"))
        window[o \in 0 .. file.size, discard \in -1 .. file.size] ==
            IF o >= file.size THEN << >>
            ELSE IF newlines(o) # {} THEN windowParts(o, discard) \o window[Max(newlines(o)) + 1, -1]
            ELSE IF end(o) >= file.size THEN << >>
            ELSE window[end(o), IF discard = -1 THEN o ELSE discard]
    IN  window[byteOffset, -1]

\* Reference: every terminated record from the offset on that is not blank,
\* whole, once, in order, dropped only for its length.
TerminatedRecords(file, byteOffset, maxBytes) ==
    LET at == SetToSortSeq({n \in file.newlines : n >= byteOffset}, <)
        from(i) == IF i = 1 THEN byteOffset ELSE at[i - 1] + 1
        records == [i \in DOMAIN at |->
                      [kind |-> IF at[i] - from(i) > maxBytes THEN "oversize" ELSE "line",
                       from |-> from(i), newOffset |-> at[i] + 1]]
    IN  SelectSeq(records, LAMBDA r : r.newOffset > r.from + 1)

\* The last offset the reader hands its caller.
CommittedOffset(parts, byteOffset) == IF parts = << >> THEN byteOffset ELSE Last(parts).newOffset
=============================================================================
