------------------------------- MODULE Executor -------------------------------
\* NnExecutor.forward (executor.py) on all nodes of a cluster: the operators of
\* build_llm_net run one after the other, each by all threads of its node, with
\* an all-gather after each segment; the C extension is installed.
\*
\* What is computed is abstract: a cell of memory holds a value that says how
\* it came about (the operators since the residual stream, its layer, column,
\* position and the forward that fed this position), so a wrong buffer, slice,
\* row or order shows, while floating-point arithmetic does not appear.
\*
\* A header is one of module Graph with two more fields: threads, the number of
\* each node, and top, the experts the gate prefers at each position.
EXTENDS Cluster, Splits, FiniteSets, SequencesExt

CONSTANT MaxForwards   \* bound: how many forwards of each model

VARIABLES sizes,   \* sizes[n]: of all pipes and buffers of node n
          mem,     \* mem[n]: those pipes and buffers, by row and column
          raw,     \* raw[n]: places of the operators that still have ctx.weight
          pc,      \* pc[n]: which of its steps node n is in
          now,     \* now[n]: that step
          at,      \* at[n][ti]: a thread's next row and how it will multiply
          failed,  \* the nodes whose forward has raised
          fwd,     \* the forward under way: position, rows and number
          fed      \* fed[p]: the last forward that fed position p, 0 if none

execVars == <<hdr, sizes, mem, raw, pc, now, at, failed, fwd, fed>>

-----------------------------------------------------------------------------
\* NnExecutor._build_steps: each segment's operators, then its synchronisation
\* if there is more than one node.
End == [do |-> "end"]

StepsOf(h, segments) ==
    FlattenSeq([i \in 1..Len(segments) |->
           [k \in 1..Len(segments[i].ops) |-> [do |-> "op", op |-> segments[i].ops[k]]]
        \o If(h.nodes > 1, <<[do |-> "sync", sync |-> segments[i].syncs[1]]>>)])
    \o <<End>>

Steps == [h \in Headers |-> [n \in NodesOf(h) |-> StepsOf(h, Segments(h, n))]]

\* The sizes of all pipes and buffers of a node.
Allocate(places) ==
    LET number == [id \in {places[i].place.id : i \in 1..Len(places)} |->
                     CHOOSE i \in 1..Len(places) : places[i].place.id = id]
    IN  [id \in DOMAIN number |-> places[number[id]].size]

SizeOf(n, ptr) == sizes[n][ptr.place.id]

\* _resolve_pointer: the columns of a row that a pointer stands for.
Width(n, ptr) == IF ptr.type = "BATCHED_SLICE" THEN SizeOf(n, ptr).x \div hdr.nodes
                                               ELSE SizeOf(n, ptr).x
Offset(n, ptr) == IF ptr.type = "BATCHED_SLICE" THEN n * Width(n, ptr) ELSE 0

RowOf(n, ptr, z, y) ==
    [j \in 0..(Width(n, ptr) - 1) |->
        mem[n][ptr.place.id][z * SizeOf(n, ptr).y + y][Offset(n, ptr) + j]]
Cell(n, place, row, col) == mem[n][place.id][row][col]

-----------------------------------------------------------------------------
\* Values.
Value(path, layer, col, pos, ver) ==
    [path |-> path, at |-> layer, col |-> col, pos |-> pos, ver |-> ver]

Zero == Value(<<>>, 0, 0, 0, 0)
Junk == Value(<<<<"junk", 0>>>>, 0, 0, 0, 0)

Then(v, name, index) ==
    IF v \in {Zero, Junk} THEN Junk ELSE [v EXCEPT !.path = Append(@, <<name, index>>)]
Check(ok, v) == IF ok THEN v ELSE Junk

\* All cells of a row belong together, its columns counted from "first".
Together(row, first) ==
    \A j \in DOMAIN row : row[j] = [row[0] EXCEPT !.col = first + j]

\* What a transformer computes, as paths: the residual stream x, its norms, the
\* projections, and what each half of a layer adds to x.  Half k of all halves
\* is the attention of layer k \div 2 if k is even, its feed-forward if not.
X == <<<<"x", 0>>>>
Normed(name, l) == X \o <<<<name, l>>>>

Query(h, l) == Normed("block_norm_0", l) \o <<<<"block_matmul_q", l>>>>
               \o If(Qwen(h), <<<<"block_norm_q", l>>>>) \o <<<<"rope", 0>>>>
Key(h, l) == Normed("block_norm_0", l) \o <<<<"block_matmul_k", l>>>>
             \o If(Qwen(h), <<<<"block_norm_k", l>>>>) \o <<<<"rope", 0>>>>
Val(l) == Normed("block_norm_0", l) \o <<<<"block_matmul_v", l>>>>
Gate(l) == Normed("block_norm_1", l) \o <<<<"block_moe_gate", l>>, <<"softmax", 0>>>>

OfExpert(h, e) == If(h.experts > 0, <<<<"expert", e>>>>)
Up(h, name, l, e) == Normed("block_norm_1", l) \o <<<<name, l>>>> \o OfExpert(h, e)
Down(h, l, node, e) ==
    Up(h, "block_matmul_w1", l, e) \o <<<<"silu", 0>>, <<"mul", 0>>, <<"block_matmul_w2", l>>>>
    \o OfExpert(h, e) \o <<<<"node", node>>>>

Half(h, k, node) ==
    LET l == k \div 2
    IN  IF k % 2 = 0 THEN <<<<"att", l>>, <<"block_matmul_wo", l>>, <<"node", node>>>>
        ELSE IF h.experts > 0 THEN <<<<"experts", l>>, <<"node", node>>>>
        ELSE Down(h, l, node, 0)

Logits(h) == Normed("final_norm", 0) \o <<<<"final_matmul_logits", 0>>>>

-----------------------------------------------------------------------------
\* What each operator makes of the cells it reads: cell j of row (z, y) of its
\* output on node n.
Position(n, y) == Cell(n, Pipe("POS"), y, 0).pos

MergeAddCell(n, op, y, j) ==
    LET x == RowOf(n, op.out, 0, y)[j]
        in == RowOf(n, op.in, 0, y)
        width == Width(n, op.out)
        slices == Width(n, op.in) \div width
    IN  Check(/\ x.path = X
              /\ \A s \in 0..(slices - 1) :
                    in[s * width + j] = [x EXCEPT !.path = Half(hdr, x.at, s)],
              [x EXCEPT !.at = @ + 1])

EmbeddingCell(n, op, y, j) ==
    LET token == RowOf(n, op.in, 0, y)[0]
    IN  Check(token.path = <<<<"token", 0>>>>, [token EXCEPT !.path = X, !.col = j])

InvRmsCell(n, op, y, j) ==
    LET in == RowOf(n, op.in, 0, y)
        size == Width(n, op.in) \div op.aux.columns
        column == [i \in 0..(size - 1) |-> in[j * size + i]]
    IN  IF j >= op.aux.columns THEN RowOf(n, op.out, 0, y)[j]
        ELSE Check(Together(column, column[0].col), Then(column[0], "inv", 0))

RmsNormCell(n, op, y, j) ==
    LET size == op.weight.x
        v == RowOf(n, op.in, 0, y)[j]
        inv == Cell(n, op.aux.inv, y, j \div size)
    IN  Check(inv = [Then(v, "inv", 0) EXCEPT !.col = v.col - (j % size)],
              Then(v, op.name, op.index))

\* The weights of wo and w2 are slices by columns, those of the gate whole, all
\* others slices by rows.
ByColumns(op) == op.name \in {"block_matmul_wo", "block_matmul_w2"}

Expert(n, op, z, y) == Cell(n, op.aux.indexes, y, z).at

MatmulCell(n, op, z, y, j) ==
    LET in == RowOf(n, op.in, z, y)
        first == IF ByColumns(op) THEN n * op.weight.y ELSE 0
        product == Then(in[0], op.name, op.index)
        expert == IF op.aux.experts > 0 THEN Then(product, "expert", Expert(n, op, z, y)) ELSE product
        col == IF ByColumns(op) \/ op.name = "block_moe_gate" THEN j ELSE n * op.weight.x + j
    IN  Check(/\ Width(n, op.in) = op.weight.y
              /\ Together(in, first),
              IF ByColumns(op) THEN [Then(expert, "node", n) EXCEPT !.col = col]
                               ELSE [expert EXCEPT !.col = col])

\* The rope cache as it is filled when a segment is built: the position whose
\* angles are at place k (all heads have the same), -1 for none.  A row of
\* Llama's has those for k at its begin and those for q where this node's q is.
NoAngle == -1
Angle(slice, k) ==
    LET column == k % slice.cacheSize.x
        filled == IF hdr.rope = "LLAMA"
                  THEN 0..(slice.kvDim0 - 1) \cup slice.qDimStart..(slice.qDimEnd - 1)
                  ELSE {0}
    IN  IF column \in filled THEN k \div slice.cacheSize.x ELSE NoAngle

RopeCell(n, op, y, j) ==
    LET v == RowOf(n, op.in, 0, y)[j]
        slice == op.aux.slice
        row == Position(n, y) * slice.cacheSize.x
        place == CASE hdr.rope = "FALCON" -> row
                   [] op.aux.isQ -> row + slice.qShift + j
                   [] OTHER -> row + j
    IN  Check(v.pos = Angle(slice, place), Then(v, "rope", 0))

AttCell(n, op, y, j) ==
    LET a == op.aux
        head == n * a.heads0 + j
        kv == head \div (a.heads \div a.kvHeads)
        col == kv - n * (a.kvHeads \div hdr.nodes)
        q == Cell(n, a.query, y, j)
        pos == Position(n, y)
        Was(path, t) == [q EXCEPT !.path = path, !.col = kv, !.pos = t, !.ver = fed[t]]
    IN  Check(/\ q.path = Query(hdr, op.index) /\ q.col = head /\ q.pos = pos
              /\ \A t \in 0..pos : /\ Cell(n, a.key, t, col) = Was(Key(hdr, op.index), t)
                                   /\ Cell(n, a.value, t, col) = Was(Val(op.index), t),
              [q EXCEPT !.path = <<<<"att", op.index>>>>])

RepeatCell(n, op, z, y, j) == IF z = 0 THEN RowOf(n, op.in, 0, y)[j] ELSE RowOf(n, op.out, 0, y)[j]

SoftmaxCell(n, op, y, j) ==
    LET row == RowOf(n, op.in, 0, y)
    IN  Check(Together(row, 0), Then(row[j], "softmax", 0))

\* The experts of a row, best first; argpartition(.., k) needs more than k.
Top(n, y) == hdr.top[Position(n, y)]

MulCell(n, op, z, y, j) ==
    LET v == RowOf(n, op.in, z, y)[j]
        other == Cell(n, op.aux.multiplier, z * SizeOf(n, op.in).y + y, j)
    IN  Check(\E e \in 0..hdr.experts :
                 /\ v.path = Append(Up(hdr, "block_matmul_w1", op.index, e), <<"silu", 0>>)
                 /\ other = [v EXCEPT !.path = Up(hdr, "block_matmul_w3", op.index, e)],
              Then(v, "mul", 0))

ScaleCell(n, op, z, y, j) ==
    LET v == RowOf(n, op.in, z, y)[j]
        s == Cell(n, op.aux.scale, z * SizeOf(n, op.in).y + y, 0)
    IN  Check(\E e \in 0..hdr.experts :
                 /\ v.path = Down(hdr, op.index, n, e)
                 /\ s = [v EXCEPT !.path = Append(Gate(op.index), <<"expert", e>>), !.col = e],
              Then(v, "scale", 0))

MergeSumCell(n, op, y, j) ==
    LET part(z) == RowOf(n, op.in, z, y)[j]
        top == Top(n, y)
        scaled(e) == [part(0) EXCEPT !.path = Append(Down(hdr, op.index, n, e), <<"scale", 0>>)]
    IN  Check(/\ SizeOf(n, op.in).z = Len(top)
              /\ {part(z) : z \in 0..(Len(top) - 1)} = {scaled(top[i]) : i \in 1..Len(top)},
              [part(0) EXCEPT !.path = <<<<"experts", op.index>>, <<"node", n>>>>])

Result(n, op, z, y, j) ==
    CASE op.code = "MERGE_ADD" -> MergeAddCell(n, op, y, j)
      [] op.code = "EMBEDDING" -> EmbeddingCell(n, op, y, j)
      [] op.code = "INV_RMS" -> InvRmsCell(n, op, y, j)
      [] op.code = "RMS_NORM" -> RmsNormCell(n, op, y, j)
      [] op.code = "MATMUL" -> MatmulCell(n, op, z, y, j)
      [] op.code = "ROPE" -> RopeCell(n, op, y, j)
      [] op.code = "MULTIHEAD_ATT" -> AttCell(n, op, y, j)
      [] op.code = "REPEAT_Z" -> RepeatCell(n, op, z, y, j)
      [] op.code = "SOFTMAX" -> SoftmaxCell(n, op, y, j)
      [] op.code = "SILU" -> Then(RowOf(n, op.in, z, y)[j], "silu", 0)
      [] op.code = "MUL" -> MulCell(n, op, z, y, j)
      [] op.code = "SCALE" -> ScaleCell(n, op, z, y, j)
      [] op.code = "MERGE_SUM" -> MergeSumCell(n, op, y, j)
      [] op.code \in {"CAST", "SHIFT"} -> RowOf(n, op.in, z, y)[j]

-----------------------------------------------------------------------------
\* Variant with a bug: a cast is only known between different types.
SupportedNoCopy(n, op) ==
    op.code = "CAST" => {SizeOf(n, op.in).ft, SizeOf(n, op.out).ft} = {F32, Q80}

\* Types an operator has no code for: the thread that meets them raises, as
\* does a gate that is to choose all experts.
Supported(n, op) ==
    LET in == SizeOf(n, op.in).ft
        out == SizeOf(n, op.out).ft
    IN  CASE op.code = "MERGE_ADD" -> in \in {F32, Q80} /\ out = F32
          [] op.code = "EMBEDDING" -> in = F32 /\ out \in {F32, Q80}
          [] op.code = "RMS_NORM" -> in \in {F32, Q80}
          [] op.code = "MATMUL" -> <<in, op.weight.ft>> \in {<<F32, F32>>, <<F32, "Q40">>, <<Q80, "Q40">>}
          [] op.code = "CAST" -> in = out \/ {in, out} = {F32, Q80}
          [] op.code = "MOE_GATE" -> op.aux.k < SizeOf(n, op.in).x
          [] OTHER -> TRUE

\* Quantisation fills only the thread's part of a new array and copies all of it.
Converts(n, op, z) ==
    /\ op.code = "CAST" \/ (op.code = "REPEAT_Z" /\ z = 0)
    /\ SizeOf(n, op.in).ft # SizeOf(n, op.out).ft

\* The columns of a row that one thread computes.
Share(n, op, nt, ti, y) ==
    LET width == Width(n, op.out)
        all == 0..(width - 1)
    IN  CASE op.code \in {"INV_RMS", "MOE_GATE"} -> IF y % nt = ti THEN all ELSE {}
          [] op.code = "SOFTMAX" -> IF ti = 0 \/ y % nt = ti THEN all ELSE {}
          [] op.code = "SCALE" -> {j \in all : j % nt = ti}
          [] op.code = "RMS_NORM" ->
                 {j \in all : (j % op.weight.x) \in Split(op.weight.x, nt, ti)}
          [] OTHER -> Split(width, nt, ti)

\* The rows an operator goes through: batch rows, and for each active expert.
Depth(n, op) ==
    CASE op.code = "MATMUL" -> IF op.aux.active > 0 THEN op.aux.active ELSE 1
      [] op.code = "REPEAT_Z" -> SizeOf(n, op.out).z
      [] op.code \in {"CAST", "SILU", "MUL", "SCALE"} -> SizeOf(n, op.in).z
      [] OTHER -> 1

\* Variant with a bug: SHIFT writes at the row of the batch.
OutRowOfBatch(n, op, z, y) == z * SizeOf(n, op.out).y + y

\* The row of memory that row (z, y) of the output is: SHIFT writes at the
\* position, MERGE_SUM and all others at their own.
OutRow(n, op, z, y) ==
    IF op.code = "SHIFT" THEN Position(n, y) ELSE z * SizeOf(n, op.out).y + y

\* Memory after a thread is done with its share of row (z, y).
Written(n, op, ti, z, y, share) ==
    LET first == Offset(n, op.out)
        mine(c) == c - first \in 0..(Width(n, op.out) - 1)
    IN  [mem EXCEPT ![n][op.out.place.id][OutRow(n, op, z, y)] =
            [c \in DOMAIN @ |-> IF mine(c) /\ c - first \in share THEN Result(n, op, z, y, c - first)
                                ELSE IF mine(c) /\ Converts(n, op, z) THEN Junk
                                ELSE @[c]]]

-----------------------------------------------------------------------------
Blank(size) == [r \in 0..(size.z * size.y - 1) |-> [c \in 0..(size.x - 1) |-> Zero]]
Fresh(h, n) == [ti \in 0..(h.threads[n] - 1) |-> [row |-> 0, mode |-> "new"]]

\* Places of the operators with 4-bit weights.
Quartered(h, n) == {i \in 1..Len(Steps[h][n]) :
                        /\ Steps[h][n][i].do = "op"
                        /\ Steps[h][n][i].op.weight.ft = "Q40"}

ExecInit ==
    /\ hdr \in Headers
    /\ sizes = [n \in Nodes |-> Allocate(Pipes(hdr) \o Buffers(hdr, n))]
    /\ mem = [n \in Nodes |-> [id \in DOMAIN sizes[n] |-> Blank(sizes[n][id])]]
    /\ raw = [n \in Nodes |-> Quartered(hdr, n)]
    /\ pc = [n \in Nodes |-> Len(Steps[hdr][n])]
    /\ now = [n \in Nodes |-> End]
    /\ at = [n \in Nodes |-> Fresh(hdr, n)]
    /\ failed = {}
    /\ fwd = [pos |-> 0, rows |-> 1, number |-> 0]
    /\ fed = [p \in 0..(hdr.seqLen - 1) |-> 0]

Idle == \A n \in Nodes : now[n] = End
Does(n, what) == n \notin failed /\ now[n].do = what

\* The caller sets the batch size, writes positions and tokens, and every node
\* goes through its steps; positions follow what has been fed, or go back.
Forward(pos, rows) ==
    /\ Idle /\ failed = {}
    /\ fwd.number < MaxForwards[hdr]
    /\ rows <= hdr.batches
    /\ pos + rows <= hdr.seqLen
    /\ \A p \in 0..(pos - 1) : fed[p] > 0
    /\ LET number == fwd.number + 1
           column(n, name, path) ==
               [r \in 0..(hdr.batches - 1) |->
                   IF r < rows THEN [c \in {0} |-> Value(path, 0, 0, pos + r, number)]
                   ELSE mem[n][<<name, 0>>][r]]
       IN  /\ fwd' = [pos |-> pos, rows |-> rows, number |-> number]
           /\ fed' = [p \in DOMAIN fed |-> IF p \in pos..(pos + rows - 1) THEN number ELSE fed[p]]
           /\ mem' = [n \in DOMAIN mem |->
                        [mem[n] EXCEPT
                            ![<<"POS", 0>>] = column(n, "POS", <<<<"position", 0>>>>),
                            ![<<"TOK", 0>>] = IF n = 0 THEN column(n, "TOK", <<<<"token", 0>>>>)
                                                       ELSE @]]
    /\ pc' = [n \in DOMAIN pc |-> 1]
    /\ at' = [n \in DOMAIN at |-> Fresh(hdr, n)]
    /\ UNCHANGED <<raw, failed>>

-----------------------------------------------------------------------------
Threads(n) == 0..(hdr.threads[n] - 1)
Rows(n, op) == Depth(n, op) * fwd.rows
Works(n, ti, op) == Does(n, "op") /\ now[n].op = op /\ at[n][ti].row < Rows(n, op)

\* A thread goes on to a row; when all threads are through, the node goes on to
\* its next step.
GoTo(n, ti, row) ==
    LET moved == [at[n] EXCEPT ![ti] = [row |-> row, mode |-> "new"]]
        joined == \A t \in Threads(n) : moved[t].row = Rows(n, now[n].op)
    IN  /\ at' = [at EXCEPT ![n] = IF joined THEN Fresh(hdr, n) ELSE moved]
        /\ pc' = [pc EXCEPT ![n] = IF joined THEN @ + 1 ELSE @]

\* Variant with a bug: threads take turns with rows instead of sharing each.
NextRowInTurns(n, ti) == GoTo(n, ti, at[n][ti].row + hdr.threads[n])

NextRow(n, ti) == GoTo(n, ti, at[n][ti].row + 1)

\* A thread goes on to its next row of any operator but the two below.
Compute(n, ti) ==
    LET op == now[n].op
        z == at[n][ti].row \div fwd.rows
        y == at[n][ti].row % fwd.rows
    IN  /\ Works(n, ti, op)
        /\ op.code \notin {"MATMUL", "MOE_GATE"} /\ Supported(n, op)
        /\ mem' = Written(n, op, ti, z, y, Share(n, op, hdr.threads[n], ti, y))
        /\ NextRow(n, ti)
        /\ UNCHANGED <<raw, failed, fwd, fed>>

\* The gate of a row writes the indexes of its experts and their weights.
ChooseExperts(n, ti) ==
    LET op == now[n].op
        y == at[n][ti].row
        gate == RowOf(n, op.in, 0, y)
        top == Top(n, y)
        chosen(k, path) ==
            Check(/\ Together(gate, 0) /\ gate[0].path = Gate(op.index),
                  [gate[0] EXCEPT !.path = path, !.col = top[k + 1]])
        index(k) == [chosen(k, <<<<"index", 0>>>>) EXCEPT !.at = top[k + 1]]
        weight(k) == chosen(k, Append(Gate(op.index), <<"expert", top[k + 1]>>))
        indexes == op.aux.indexes.id
        scales == op.out.place.id
        row(id, r) == IF id = indexes /\ r = y THEN [k \in DOMAIN mem[n][id][r] |-> index(k)]
                      ELSE IF id = scales /\ r % hdr.batches = y
                           THEN [c \in {0} |-> weight(r \div hdr.batches)]
                      ELSE mem[n][id][r]
    IN  /\ Works(n, ti, op) /\ op.code = "MOE_GATE" /\ Supported(n, op)
        /\ mem' = IF ti = y % hdr.threads[n]
                  THEN [mem EXCEPT ![n] = [id \in DOMAIN @ |-> [r \in DOMAIN @[id] |-> row(id, r)]]]
                  ELSE mem
        /\ NextRow(n, ti)
        /\ UNCHANGED <<raw, failed, fwd, fed>>

-----------------------------------------------------------------------------
\* MATMUL.  A thread first looks at ctx.weight and ctx.weight_deq; between this
\* and a use of ctx.weight another thread may set the one and clear the other.
HasWeight(n) == pc[n] \in raw[n]

Mode(n, ti, op) ==
    LET kernel == SizeOf(n, op.in).ft = Q80 /\ ti = 0
        single == op.aux.active = 0 /\ hdr.nodes = 1
    IN  IF op.weight.ft = F32 THEN "plain"
        ELSE IF ~HasWeight(n) THEN "ready"
        ELSE IF ~kernel THEN "convert"
        ELSE IF single THEN "batch" ELSE "kernel"

NeedsWeight(mode) == mode \in {"batch", "kernel", "convert"}

TestWeight(n, ti) ==
    LET op == now[n].op
    IN  /\ Works(n, ti, op) /\ op.code = "MATMUL" /\ Supported(n, op)
        /\ at[n][ti].mode = "new" /\ NeedsWeight(Mode(n, ti, op))
        /\ at' = [at EXCEPT ![n][ti].mode = Mode(n, ti, op)]
        /\ UNCHANGED <<mem, raw, pc, failed, fwd, fed>>

\* The C kernel computes a whole row by its own threads, Python the share of
\* one thread; what converts the only matrix keeps it and drops ctx.weight.
Multiply(n, ti) ==
    LET op == now[n].op
        mode == IF at[n][ti].mode = "new" THEN Mode(n, ti, op) ELSE at[n][ti].mode
        z == at[n][ti].row % Depth(n, op)
        y == at[n][ti].row \div Depth(n, op)
        width == Width(n, op.out)
        share == IF mode = "kernel" THEN 0..(width - 1) ELSE Split(width, hdr.threads[n], ti)
    IN  /\ Works(n, ti, op) /\ op.code = "MATMUL" /\ Supported(n, op)
        /\ mode # "batch"
        /\ NeedsWeight(mode) => at[n][ti].mode = mode /\ HasWeight(n)
        /\ mem' = Written(n, op, ti, z, y, share)
        /\ raw' = IF mode = "convert" /\ op.aux.active <= 1
                  THEN [raw EXCEPT ![n] = @ \ {pc[n]}] ELSE raw
        /\ NextRow(n, ti)
        /\ UNCHANGED <<failed, fwd, fed>>

\* On a single node one call of the C kernel does all rows.  From two rows on
\* it is sgemm with this thread's share only, and the rest of the new array is
\* copied out with it.
MultiplyBatch(n, ti) ==
    LET op == now[n].op
        id == op.out.place.id
        width == Width(n, op.out)
        done == IF fwd.rows = 1 THEN 0..(width - 1) ELSE Split(width, hdr.threads[n], ti)
    IN  /\ Works(n, ti, op) /\ at[n][ti].mode = "batch" /\ HasWeight(n)
        /\ mem' = [mem EXCEPT ![n][id] = [r \in DOMAIN @ |->
                     IF r >= fwd.rows THEN @[r]
                     ELSE [c \in DOMAIN @[r] |-> IF c \in done THEN Result(n, op, 0, r, c) ELSE Junk]]]
        /\ GoTo(n, ti, Rows(n, op))
        /\ UNCHANGED <<raw, failed, fwd, fed>>

\* A thread raises: no code for these types, or ctx.weight is None by now.
Raise(n, ti) ==
    LET op == now[n].op
    IN  /\ Works(n, ti, op)
        /\ ~Supported(n, op) \/ (NeedsWeight(at[n][ti].mode) /\ ~HasWeight(n))
        /\ failed' = failed \cup {n}
        /\ UNCHANGED <<mem, raw, pc, at, fwd, fed>>

-----------------------------------------------------------------------------
\* One synchronisation as module Collective promises it: the workers get the
\* root's row, or everybody (the root alone, for the logits) all slices.
Gather(type, id, n, r) ==
    LET slices == [c \in DOMAIN mem[n][id][r] |->
                     mem[(c * hdr.nodes) \div sizes[n][id].x][id][r][c]]
    IN  CASE type = "WITH_ROOT" -> mem[0][id][r]
          [] type = "NODE_SLICES" -> slices
          [] type = "NODE_SLICES_EXCEPT_ROOT" -> IF n = 0 THEN slices ELSE mem[n][id][r]

Synchronise ==
    /\ \A n \in Nodes : Does(n, "sync")
    /\ LET sync == now[0].sync
           id == sync.pipe.id
       IN  mem' = [n \in DOMAIN mem |-> [mem[n] EXCEPT ![id] =
                     [r \in DOMAIN @ |-> IF r < fwd.rows THEN Gather(sync.type, id, n, r) ELSE @[r]]]]
    /\ pc' = [n \in DOMAIN pc |-> pc[n] + 1]
    /\ UNCHANGED <<raw, at, failed, fwd, fed>>

ThreadStep(n, ti) ==
    \/ Compute(n, ti) \/ ChooseExperts(n, ti)
    \/ TestWeight(n, ti) \/ Multiply(n, ti) \/ MultiplyBatch(n, ti)
    \/ Raise(n, ti)

\* What changes is said by one of the actions; the models stay, and the steps go
\* with their numbers.
ExecNext ==
    /\ \/ \E pos \in 0..(hdr.seqLen - 1), rows \in 1..hdr.batches : Forward(pos, rows)
       \/ \E n \in Nodes : \E ti \in Threads(n) : ThreadStep(n, ti)
       \/ Synchronise
    /\ now' = [n \in DOMAIN now |-> Steps[hdr][n][pc'[n]]]
    /\ UNCHANGED <<hdr, sizes>>

ExecSpec == ExecInit /\ [][ExecNext]_execVars

-----------------------------------------------------------------------------
\* Type invariant: no operator walks past its rows or its columns.
ExecTypeOK ==
    /\ hdr \in Headers /\ failed \subseteq Nodes
    /\ \A n \in Nodes :
        /\ pc[n] \in 1..Len(Steps[hdr][n])
        /\ \A id \in DOMAIN sizes[n] :
              /\ DOMAIN mem[n][id] = 0..(sizes[n][id].z * sizes[n][id].y - 1)
              /\ \A r \in DOMAIN mem[n][id] : DOMAIN mem[n][id][r] = 0..(sizes[n][id].x - 1)
        /\ \A ti \in Threads(n) :
              at[n][ti].row \in 0..(IF now[n].do = "op" THEN Rows(n, now[n].op) ELSE 0)

\* With one thread, or without anything that several threads get wrong: rows
\* quantised in parts, 4-bit weights and a gate over several rows.
Threadsafe(h) ==
    \A n \in NodesOf(h) : h.threads[n] = 1 \/ (h.sync = F32 /\ h.weight = F32
                                                /\ (h.batches = 1 \/ h.experts = 0))

\* When a forward is over, the root has for every row the whole logits that a
\* transformer computes from the tokens at this and all earlier positions: no
\* operator has read a buffer, slice, row, expert or cache entry that was not
\* meant for it or not written yet, and no thread has got in another's way.
LogitsRight ==
    (Idle /\ fwd.number > 0 /\ Threadsafe(hdr)) =>
        \A y \in 0..(fwd.rows - 1), c \in 0..(hdr.vocab - 1) :
            mem[0][<<"LG", 0>>][y][c] = Value(Logits(hdr), 2 * hdr.layers, c, fwd.pos + y, fwd.number)

\* A forward raises only for a model whose types no operator takes (such as
\* 32-bit weights with a quantised network), with a gate that is to choose all
\* experts, or with threads that race for ctx.weight.
RaisesOnlyAsKnown ==
    failed # {} => \/ <<hdr.sync, hdr.weight>> \notin {<<F32, F32>>, <<F32, "Q40">>, <<Q80, "Q40">>}
                   \/ hdr.arch = "QWEN3_MOE" /\ hdr.active >= Experts1(hdr)
                   \/ ~Threadsafe(hdr)

\* After a forward, what was fed last at each position is what every layer's
\* cache of every node holds there, also after going back to an earlier
\* position: the next forward attends to the conversation as it is now.
CacheIsHistory ==
    (Idle /\ Threadsafe(hdr)) =>
        \A n \in Nodes, l \in 0..(hdr.layers - 1), p \in DOMAIN fed, c \in 0..(KvDim0(hdr) - 1) :
            fed[p] > 0 =>
                /\ mem[n][<<"k", l>>][p][c] = Value(Key(hdr, l), 2 * l, n * KvDim0(hdr) + c, p, fed[p])
                /\ mem[n][<<"v", l>>][p][c] = Value(Val(l), 2 * l, n * KvDim0(hdr) + c, p, fed[p])
===============================================================================
