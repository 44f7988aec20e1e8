---------------------------- MODULE FileSplitter ----------------------------
(***************************************************************************)
(* workers/file_splitter: cuts the chunks of a client's files into lines,  *)
(* drops the header and sends batches of lines to the ingestors            *)
(* (transactions) or to the bank name joiner (accounts).  Chunks carry     *)
(* their offset; what a chunk leaves of a line waits for the next.         *)
(* Bytes are letters, Newline among them; CSV and CRLF are left out, and   *)
(* so is the EOF of a whole client, which no part of the system sends.     *)
(***************************************************************************)
EXTENDS StageState

Newline == "\n"
MaxBatchBytes == 6        \* config.max_batch_bytes less the fixed part of a packet
OutputShards == 2         \* config.output_shard_count

(* The edges are named as the files: LINE_BATCH_EDGE, ACCOUNTS_EDGE. *)
Edges == {"transactions", "accounts"}

(* FileState; the path of a file stands for its type. *)
FreshFile == [offset |-> 0, pending |-> <<>>, chunks |-> 0, header |-> FALSE, seen |-> 0,
              batch |-> <<>>, first |-> 0, lines |-> 0, batches |-> 0]
FreshFiles == <<>>                        \* _files: path -> FileState
StateFor(files, path) == IF path \in DOMAIN files THEN files[path] ELSE FreshFile

(* bytes.split: the parts between newlines, the last one perhaps empty. *)
Split(bytes) ==
    FoldLeft(LAMBDA parts, b : IF b = Newline THEN Append(parts, <<>>)
                               ELSE [parts EXCEPT ![Len(parts)] = Append(@, b)],
             <<(<<>>)>>, bytes)

LineBatch(path, f) == Send("down", path, Between("DATA", f.batch, 0) @@ [first |-> f.first])
Weight(lines) == FoldLeft(LAMBDA sum, line : sum + 1 + Len(line), 0, lines)

(* The _run_ helpers map [f, outs], a file and what it emitted, to the next. *)
RunFlush(path, x) ==
    IF x.f.batch = <<>> THEN x
    ELSE [f |-> [x.f EXCEPT !.lines = @ + Len(x.f.batch), !.batches = @ + 1, !.batch = <<>>],
          outs |-> Append(x.outs, LineBatch(path, x.f))]

Full(f, line) == f.batch # <<>> /\ Weight(Append(f.batch, line)) > MaxBatchBytes
Added(f, line) ==
    [f EXCEPT !.batch = Append(@, line), !.first = IF f.batch = <<>> THEN f.seen ELSE @]

(* Mutant of RunLine: the line that makes a batch full is lost with it. *)
RunLineLost(path, x, line) ==
    LET y == [x EXCEPT !.f.seen = @ + 1]
    IN  IF ~y.f.header THEN [y EXCEPT !.f.header = TRUE]
        ELSE IF Full(y.f, line) THEN RunFlush(path, y)
        ELSE [y EXCEPT !.f = Added(@, line)]

(* _run_line and _run_accumulate. *)
RunLine(path, x, line) ==
    LET y == [x EXCEPT !.f.seen = @ + 1]
    IN  IF ~y.f.header THEN [y EXCEPT !.f.header = TRUE]
        ELSE [(IF Full(y.f, line) THEN RunFlush(path, y) ELSE y) EXCEPT !.f = Added(@, line)]

RunLines(path, x, lines) == FoldLeft(LAMBDA y, line : RunLine(path, y, line), x, lines)

(* _run_chunk, with LineSplitter.push. *)
RunChunk(path, f, bytes) ==
    LET parts == Split(f.pending \o bytes)
    IN  RunLines(path,
                 [f |-> [f EXCEPT !.pending = parts[Len(parts)], !.offset = @ + Len(bytes), !.chunks = @ + 1],
                  outs |-> <<>>],
                 SubSeq(parts, 1, Len(parts) - 1))

(* Mutant of RunFinish: the transactions, too, are announced in batches. *)
RunFinishBatches(path, f) ==
    LET x == [f |-> f, outs |-> <<>>]
        y == RunFlush(path, IF f.pending = <<>> THEN x ELSE RunLine(path, x, f.pending))
    IN  Append(y.outs, Send("down", path, Between("EOF", <<>>, y.f.batches)))

(* _run_finish, with LineSplitter.finish.  The EOF announces lines of      *)
(* transactions and batches of accounts.                                   *)
RunFinish(path, f) ==
    LET x == [f |-> f, outs |-> <<>>]
        y == RunFlush(path, IF f.pending = <<>> THEN x ELSE RunLine(path, x, f.pending))
    IN  Append(y.outs, Send("down", path, Between("EOF", <<>>, IF path = "accounts" THEN y.f.batches ELSE y.f.lines)))

-----------------------------------------------------------------------------
Without(files, path) == [p \in DOMAIN files \ {path} |-> files[p]]

(* simulate: what a change emits, computed on a copy of the file.  A file  *)
(* nobody saw a chunk of ends silently.                                    *)
Simulate(files, m) ==
    CASE m.type = "CHUNK" -> RunChunk(m.path, StateFor(files, m.path), m.bytes).outs
      [] m.type = "FILE_EOF" /\ m.path \in DOMAIN files -> RunFinish(m.path, files[m.path])
      [] OTHER -> <<>>

(* apply_change: what the same change leaves of the files. *)
ApplyChange(files, m) ==
    CASE m.type = "CHUNK" ->
             (m.path :> RunChunk(m.path, StateFor(files, m.path), m.bytes).f) @@ files
      [] m.type = "FILE_EOF" -> Without(files, m.path)
      [] m.type = "ABORT" -> FreshFiles

(* _business_fn: an ABORT goes to each shard of each edge (the accounts    *)
(* edge has one queue for all of them).                                    *)
BusinessFn(files, m) ==
    IF m.type # "ABORT" THEN Simulate(files, m)
    ELSE FlattenSeq([i \in 1 .. OutputShards |->
             <<Send("down", "transactions", Between("ABORT", <<>>, i)),
               Send("down", "accounts", Between("ABORT", <<>>, i))>>])

RunInput(id, me, st, m) ==
    Emit(id, me, [st EXCEPT !.data = ApplyChange(@, m)], BusinessFn(st.data, m))

(* _dispatch_chunk: the next chunk, the last one again, or one to drop.    *)
(* The ordinal of the chunk in its file is its number in the inbox, which  *)
(* has the last one already.                                               *)
DispatchChunk(me, st, m) ==
    LET f == StateFor(st.data, m.path)
    IN  CASE m.offset = f.offset -> RunInput(<<"CHUNK", m.path, f.chunks>>, me, st, m)
          [] m.offset # f.offset /\ m.offset + Len(m.bytes) = f.offset ->
                 Input(<<"CHUNK", m.path, f.chunks - 1>>, st, <<>>)
          [] OTHER -> AckOnly

DispatchFileEof(me, st, m) == RunInput(<<"FILE_EOF", m.path>>, me, st, m)
DispatchAbort(me, st, m) == RunInput(<<"ABORT">>, me, st, m)

SplitterHandle(me, st, m) ==
    CASE m.type = "CHUNK" -> DispatchChunk(me, st, m)
      [] m.type = "FILE_EOF" -> DispatchFileEof(me, st, m)
      [] m.type = "ABORT" -> DispatchAbort(me, st, m)

=============================================================================
