------------------------------- MODULE Codex --------------------------------
(***************************************************************************)
(* The Codex log parser (src/parser/codex.ts) over a rollout that is still *)
(* being written, with the state tick.ts carries from one read to the next *)
(* and the server's insert-or-ignore by message id.                        *)
(*                                                                         *)
(* A rollout is a sequence of lines.  A line has what the parser reads of  *)
(* it and, for the properties, what is true of it: the usage the API       *)
(* really billed (`real`), the counters Codex held after it (`total`) and  *)
(* whether they had started over and no counter shows it (`reset`).        *)
(* Output stands for the reasoning tokens too; times are in units of       *)
(* SEED_GAP_MS.                                                            *)
(***************************************************************************)
EXTENDS ReadSlice, FiniteSets, TLC

CONSTANTS
    Models,
    LEGACY_FALLBACK_MODEL,
    Usages,             \* what one call may bill
    MAX_READ_BYTES,
    PeekMax,            \* LOOKAHEAD_MAX_BYTES
    PeekWindow,         \* LOOKAHEAD_WINDOW_BYTES
    OtherLengths,       \* bytes of the lines the parser has no use for
    TornKinds,          \* bound: the lines a read may find without their end
    MaxLines,           \* bound: lines of the rollout besides a seed
    MaxMishaps          \* bound: unsaved ticks and rescans

NoModel == "none"
Buckets == {"input", "cached", "write", "output"}
Usage == [Buckets -> Nat]
Nothing == [b \in Buckets |-> 0]

\* input_tokens counts the cached and the written ones in.
ASSUME CodexAssumption ==
    /\ NoModel \notin Models /\ LEGACY_FALLBACK_MODEL \notin Models \cup {NoModel}
    /\ Models # {} /\ Usages # {} /\ Usages \subseteq Usage \ {Nothing}
    /\ \A u \in Usages : u["cached"] + u["write"] <= u["input"] /\ u["input"] > 0
    /\ {MAX_READ_BYTES, PeekMax, PeekWindow} \subseteq Nat \ {0}
    /\ OtherLengths \subseteq Nat /\ {MaxLines, MaxMishaps} \subseteq Nat

VARIABLES
    log,        \* the rollout's terminated lines
    writing,    \* the line being written: none or one
    file,       \* the FileState in state.json: none or one
    ledger,     \* the server's rows of this session
    mishaps     \* bound counter

vars == <<log, writing, file, ledger, mishaps>>

Plus(u, v) == [b \in Buckets |-> u[b] + v[b]]
Less(u, v) == [b \in Buckets |-> u[b] - v[b]]

LineType == [kind: {"session_meta", "turn_context", "prompt", "token_count", "other"},
             ts: Nat, bytes: Nat, model: Models \cup {NoModel}, forked: BOOLEAN,
             last: Seq(Usage), cum: Seq(Usage), real: Usage, total: Usage,
             reset: {"no", "seen", "unseen"}]

BlankLine == [kind |-> "other", ts |-> 0, bytes |-> 1, model |-> NoModel, forked |-> FALSE,
              last |-> << >>, cum |-> << >>, real |-> Nothing, total |-> Nothing, reset |-> "no"]

(***************************************************************************)
(* The file                                                                *)
(***************************************************************************)
\* Where the first n lines end.
Ends(lines) ==
    LET end[n \in 0 .. Len(lines)] == IF n = 0 THEN 0 ELSE end[n - 1] + lines[n].bytes + 1
    IN  end

File ==
    LET ends == Ends(log)
    IN  [newlines |-> {ends[n] - 1 : n \in DOMAIN log},
         size |-> ends[Len(log)] + (IF writing = << >> THEN 0 ELSE writing[1].bytes)]

LineEnding(offset) ==
    LET ends == Ends(log)
    IN  log[CHOOSE n \in DOMAIN log : ends[n] = offset]

\* mtime: every write moves it.
Written == 2 * Len(log) + Len(writing)

(***************************************************************************)
(* One read: parseCodexFile                                                *)
(***************************************************************************)
\* The model of the file's first turn, if it is found near enough to the start.
lookAheadFirstTurnModel ==
    LET cap == Min({PeekMax, File.size})
        head == [newlines |-> {n \in File.newlines : n < cap}, size |-> cap]
        isTurn(p) == p.kind = "line" /\ LineEnding(p.newOffset).kind = "turn_context"
        turns == SelectSeq(readNewlineLines(head, 0, PeekWindow), isTurn)
    IN  IF turns = << >> THEN NoModel ELSE LineEnding(Head(turns).newOffset).model

\* Mutant: the model is not carried from one read to the next.
StartOfReadBlind(carried) ==
    [offset |-> IF carried = << >> THEN 0 ELSE carried[1].offset,
     totals |-> IF carried = << >> THEN Nothing ELSE carried[1].totals,
     seenCumulative |-> carried # << >>, model |-> NoModel, peeked |-> carried # << >>,
     seedActive |-> FALSE, prevLineTs |-> -1, lastTs |-> -1, ixForTs |-> 0, events |-> << >>]

\* The state a read starts with: only one that does not start at byte 0
\* trusts the model of the one before.
StartOfRead(carried) ==
    LET offset == IF carried = << >> THEN 0 ELSE carried[1].offset
    IN  [offset |-> offset,
         totals |-> IF carried = << >> THEN Nothing ELSE carried[1].totals,
         seenCumulative |-> carried # << >>,
         model |-> IF offset > 0 THEN carried[1].model ELSE NoModel,
         peeked |-> offset > 0,
         seedActive |-> FALSE, prevLineTs |-> -1, lastTs |-> -1, ixForTs |-> 0,
         events |-> << >>]

\* Two events of one timestamp are told apart by their rank in this read.
Stamped(st, line) ==
    [st EXCEPT !.lastTs = line.ts, !.ixForTs = IF line.ts = st.lastTs THEN @ + 1 ELSE 0]

resolveModel(st) ==
    IF st.model # NoModel \/ st.peeked THEN st
    ELSE [st EXCEPT !.peeked = TRUE, !.model = lookAheadFirstTurnModel]

EmitStamped(st, line, type, usage) ==
    LET event == [id |-> <<type, line.ts, st.ixForTs>>, usage |-> usage,
                  model |-> IF st.model = NoModel THEN LEGACY_FALLBACK_MODEL ELSE st.model]
    IN  [st EXCEPT !.events = Append(@, event)]

Emit(st, line, type, usage) ==
    EmitStamped(resolveModel(Stamped(st, line)), line, type, usage)

\* Mutant: a record is compared with this read's own records only.
IsReplayHere(st, line) ==
    /\ line.cum # << >> /\ st.events # << >>
    /\ \A b \in Buckets \ {"write"} : line.cum[1][b] = st.totals[b]

\* Counters that stand where they stood: the same request, logged again.
\* The written tokens are not compared.
IsReplay(st, line) ==
    /\ line.cum # << >> /\ st.seenCumulative
    /\ \A b \in Buckets \ {"write"} : line.cum[1][b] = st.totals[b]

\* What the call used: `last` where there is one, else what the counters
\* moved by, or all they hold where one of them went down.
Delta(st, line) ==
    LET cum == line.cum[1]
        d == Less(cum, st.totals)
    IN  IF line.last # << >> THEN line.last[1]
        ELSE IF \E b \in Buckets \ {"write"} : d[b] < 0 THEN cum
        ELSE IF d["write"] < 0 THEN [d EXCEPT !["write"] = cum["write"]]
        ELSE d

\* Plain, cached and written input apart, each clamped.
Normalised(d) ==
    LET cached == Min({d["cached"], d["input"]})
        write == Min({d["write"], Max({0, d["input"] - cached})})
    IN  [input |-> Max({0, d["input"] - cached - write}), cached |-> cached,
         write |-> write, output |-> d["output"]]

\* The counters a record leaves, and the model it may name.
Counted(st, line, d) ==
    [st EXCEPT !.seenCumulative = @ \/ line.cum # << >>,
               !.totals = IF line.cum # << >> THEN line.cum[1] ELSE Plus(@, d)]

Named(st, line) == IF line.model = NoModel THEN st ELSE [st EXCEPT !.model = line.model]

Billed(st, line, d) ==
    IF st.seedActive \/ d = Nothing THEN st
    ELSE Emit(Named(st, line), line, "assistant", Normalised(d))

TokenCount(st, line) ==
    IF (line.last = << >> /\ line.cum = << >>) \/ IsReplay(st, line) THEN st
    ELSE LET d == Delta(st, line) IN Billed(Counted(st, line, d), line, d)

\* A pause longer than the gap ends the seed a fork starts with.
SeedTracked(st, line) ==
    [st EXCEPT !.seedActive = @ /\ ~(st.prevLineTs >= 0 /\ line.ts - st.prevLineTs > 1),
               !.prevLineTs = line.ts]

ParseLine(st, line, byteOffset) ==
    LET s == SeedTracked(st, line)
    IN  CASE line.kind = "session_meta" ->
                [s EXCEPT !.seedActive = @ \/ (byteOffset = 0 /\ line.forked)]
          [] line.kind = "turn_context" ->
                IF line.model = NoModel THEN s ELSE [s EXCEPT !.model = line.model]
          [] line.kind = "prompt" -> IF s.seedActive THEN s ELSE Emit(s, line, "user", Nothing)
          [] line.kind = "token_count" -> TokenCount(s, line)
          [] OTHER -> s

parseCodexFile(carried) ==
    LET start == StartOfRead(carried)
        part(p, st) ==
            LET s == [st EXCEPT !.offset = p.newOffset]
            IN  IF p.kind = "line" THEN ParseLine(s, LineEnding(p.newOffset), start.offset) ELSE s
    IN  FoldLeft(LAMBDA st, p : part(p, st), start,
                 readNewlineLines(File, start.offset, MAX_READ_BYTES))

(***************************************************************************)
(* The daemon and the server                                               *)
(***************************************************************************)
Inserted(rows, events) ==
    FoldLeft(LAMBDA rs, e : IF \E r \in rs : r.id = e.id THEN rs ELSE rs \cup {e}, rows, events)

\* Of a read that found no model the one before it is kept.
Carried(st) ==
    [offset |-> st.offset, totals |-> st.totals, mtime |-> Written,
     model |-> IF st.model = NoModel /\ file # << >> THEN file[1].model ELSE st.model]

Unread == Written > (IF file = << >> THEN 0 ELSE file[1].mtime)

\* A tick: the rollout read on, its events posted, the state saved.
Finish(st) == ledger' = Inserted(ledger, st.events) /\ file' = <<Carried(st)>>

Tick ==
    /\ Unread
    /\ Finish(parseCodexFile(file))
    /\ UNCHANGED <<log, writing, mishaps>>

\* A tick that fails or dies after some of its events were posted.
PostSome(events) == \E n \in DOMAIN events : ledger' = Inserted(ledger, SubSeq(events, 1, n))

TickLost ==
    /\ Unread /\ mishaps < MaxMishaps
    /\ PostSome(parseCodexFile(file).events)
    /\ mishaps' = mishaps + 1
    /\ UNCHANGED <<log, writing, file>>

\* A new parser generation, or a lost state.json: everything is read again.
Rescan ==
    /\ file # << >> /\ mishaps < MaxMishaps
    /\ file' = << >> /\ mishaps' = mishaps + 1
    /\ UNCHANGED <<log, writing, ledger>>

(***************************************************************************)
(* Codex, as codex.ts describes it                                         *)
(***************************************************************************)
Before == IF log = << >> THEN BlankLine ELSE Last(log)

\* The next line comes a model round trip later and holds what Codex holds.
NextLine(kind) ==
    [BlankLine EXCEPT !.kind = kind, !.ts = Before.ts + 2, !.total = Before.total]

\* A line reaches the file whole or, at first, without its end.
Write(line) ==
    /\ writing = << >> /\ Cardinality({n \in DOMAIN log : log[n].ts > 0}) < MaxLines
    /\ \/ log' = Append(log, line) /\ writing' = << >>
       \/ line.kind \in TornKinds /\ log' = log /\ writing' = <<line>>
    /\ UNCHANGED <<file, ledger, mishaps>>

FinishLine ==
    /\ writing # << >>
    /\ log' = Append(log, writing[1]) /\ writing' = << >>
    /\ UNCHANGED <<file, ledger, mishaps>>

OpenTurn == \E m \in Models \cup {NoModel} : Write([NextLine("turn_context") EXCEPT !.model = m])

\* Codex may log two prompts in one millisecond.
LogPrompt ==
    \/ Write(NextLine("prompt"))
    \/ Before.kind = "prompt" /\ Write([NextLine("prompt") EXCEPT !.ts = Before.ts])

LogOther == \E n \in OtherLengths : Write([NextLine("other") EXCEPT !.bytes = n])

\* A call is logged with its own usage, with the counters, or with both.
\* The counters may start over, all or the written tokens alone: it shows
\* where one of them is lower than before, or, of a call that says its own
\* usage, where one has moved at all.
CallLine(u, fields, fresh) ==
    LET total == [b \in Buckets |-> IF b \in fresh THEN u[b] ELSE Before.total[b] + u[b]]
        lower == {b \in Buckets : total[b] < Before.total[b]}
        moved == {b \in Buckets \ {"write"} : total[b] # Before.total[b]}
        shows == IF "last" \in fields THEN moved # {}
                 ELSE lower # {} /\ (fresh = {"write"} \/ lower # {"write"})
    IN  [NextLine("token_count") EXCEPT
            !.last = IF "last" \in fields THEN <<u>> ELSE << >>,
            !.cum = IF "cum" \in fields THEN <<total>> ELSE << >>,
            !.real = u, !.total = total,
            !.reset = IF fresh = {} THEN "no" ELSE IF shows THEN "seen" ELSE "unseen"]

\* One version of Codex writes a rollout, in one format.
Fields(line) == {f \in {"last", "cum"} : line[f] # << >>}

LogCall ==
    \E u \in Usages, fields \in SUBSET {"last", "cum"} :
        /\ fields # {}
        /\ \A n \in DOMAIN log : log[n].kind = "token_count" => Fields(log[n]) = fields
        /\ \/ Write(CallLine(u, fields, {}))
           \/ \E fresh \in {{"write"}, Buckets} :
                 /\ "cum" \in fields /\ Before.total # Nothing
                 /\ \A n \in DOMAIN log : log[n].reset = "no"  \* bound: one reset
                 /\ Write(CallLine(u, fields, fresh))

\* The last call logged again, its counters unmoved.
LogReplay ==
    /\ \E n \in DOMAIN log :
          /\ log[n].kind = "token_count" /\ log[n].last # << >> /\ log[n].cum # << >>
          /\ \A k \in n + 1 .. Len(log) : log[k].kind # "token_count"
          /\ Write([log[n] EXCEPT !.ts = Before.ts + 2, !.real = Nothing])

\* A fork is seeded, in one burst, with the log of its parent.
Seed ==
    LET u == CHOOSE v \in Usages : TRUE
        first == [BlankLine EXCEPT !.kind = "session_meta", !.forked = TRUE]
        count == [BlankLine EXCEPT !.kind = "token_count", !.last = <<u>>, !.cum = <<u>>,
                                   !.total = u]
    IN  {<<first, [BlankLine EXCEPT !.kind = "prompt"], count>>,
         <<first, [BlankLine EXCEPT !.kind = "turn_context", !.model = CHOOSE m \in Models : TRUE], count>>}

Init ==
    /\ log \in {<< >>} \cup Seed
    /\ writing = << >> /\ file = << >> /\ ledger = {} /\ mishaps = 0

Next ==
    \/ OpenTurn \/ LogPrompt \/ LogOther \/ LogCall \/ LogReplay \/ FinishLine
    \/ Tick \/ TickLost \/ Rescan

Spec == Init /\ [][Next]_vars

(***************************************************************************)
(* Properties                                                              *)
(***************************************************************************)
TypeOK ==
    /\ \A n \in DOMAIN log : log[n] \in LineType
    /\ Len(writing) <= 1 /\ (writing # << >> => writing[1] \in LineType)
    /\ Len(file) <= 1
    /\ file # << >> => /\ file[1].offset \in 0 .. File.size
                       /\ file[1].totals \in Usage
                       /\ file[1].model \in Models \cup {NoModel}
    /\ \A r \in ledger : r.usage \in Usage /\ r.model \in Models \cup {LEGACY_FALLBACK_MODEL}
    /\ mishaps \in 0 .. MaxMishaps

\* Reading in windows, from whatever record the last read stopped at, gives
\* every terminated record whole and once, drops one only for its length and
\* leaves the offset at the end of the last (readNewlineLines).
WindowsExact ==
    LET from == IF file = << >> THEN 0 ELSE file[1].offset
        parts == readNewlineLines(File, from, MAX_READ_BYTES)
    IN  /\ SelectSeq(parts, LAMBDA p : p.kind # "advance")
              = TerminatedRecords(File, from, MAX_READ_BYTES)
        /\ CommittedOffset(parts, from) = Ends(log)[Len(log)]

\* A line the reader got past.
Passed(n) == file # << >> /\ Ends(log)[n] <= file[1].offset
Split(u) == [u EXCEPT !["input"] = @ - u["cached"] - u["write"]]

\* The input whatever it cost.
Whole(u) == [u EXCEPT !["input"] = @ + u["write"], !["write"] = 0]

\* The call after a reset no counter shows.
AfterUnseen(n) ==
    \E k \in 1 .. n - 1 :
        log[k].reset = "unseen" /\ \A j \in k + 1 .. n - 1 : log[j].kind # "token_count"

\* Every call is billed once, for exactly what the API billed: not again in
\* a replay, in a fork's copy, after a reset, in a later read of the same
\* lines or with its cached and written tokens counted as input too.  The
\* one exception is a reset no counter shows (parseCodexFile); if only the
\* written tokens moved with it, it is taken for a replay, their counter is
\* not noted, and the next call's input is split wrong between plain and written.
BilledOnce ==
    /\ \A r \in ledger : r.id[1] = "assistant" =>
          \E n \in DOMAIN log :
             /\ r.id = <<"assistant", log[n].ts, 0>>
             /\ log[n].real # Nothing
             /\ \/ r.usage = Split(log[n].real)
                \/ AfterUnseen(n) /\ Whole(r.usage) = Whole(Split(log[n].real))
                \/ log[n].reset = "unseen"
    /\ \A n \in DOMAIN log :
          Passed(n) /\ log[n].real # Nothing /\ log[n].reset # "unseen" =>
             \E r \in ledger : r.id = <<"assistant", log[n].ts, 0>>

\* A call made after the log named a model is never stored under another
\* one, the fallback included, wherever the reads begin (prevModel).
NeverMislabelled ==
    \A r \in ledger, n \in DOMAIN log :
        r.id = <<"assistant", log[n].ts, 0>> =>
            LET turns == {k \in 1 .. n : log[k].kind = "turn_context" /\ log[k].model # NoModel}
            IN  turns # {} => r.model = log[Max(turns)].model
=============================================================================
