------------------------------- MODULE Loading -------------------------------
\* Bring-up after the handshake (network.py, inference.py): the root sends each
\* worker the net and the node configuration, field by field, and then every
\* node its part of each weight; a worker reads the fields without any framing
\* and serves when it has read the end mark.
\*
\* A field stands for one write of the root: an int, a size, a string, a
\* pointer or a block of bytes.  "as" is what the writer means by it; a reader
\* does not see it.
EXTENDS Cluster, FiniteSets, SequencesExt

CONSTANTS Capacity,    \* how many fields a connection holds
          MaxInt32,    \* the largest int of a field, in units
          MaxCrashes   \* bound: how many processes may crash

VARIABLES step,     \* the root's place in what it has to do
          down,     \* down[w]: fields on their way to worker w
          up,       \* up[w]: acks on their way to the root
          expect,   \* expect[w]: the fields worker w has still to read
          got,      \* got[w]: the fields of its configuration, as w read them
          blob,     \* blob[w]: the fields of the weight that w is reading
          weights,  \* weights[n]: the weight buffers of node n's operators
          status,   \* status[n]: "loading", "serving" or "ended"
          crashes

loadVars == <<hdr, step, down, up, expect, got, blob, weights, status, crashes>>

Workers == 1..(hdr.nodes - 1)

Repeat(n, seq) == FlattenSeq([i \in 1..n |-> seq])
Concat(F(_), seq) == FlattenSeq([i \in 1..Len(seq) |-> F(seq[i])])

-----------------------------------------------------------------------------
\* The configuration of an operator as bytes, and back.
RopeFields == <<"qDim0", "qDimStart", "qDimEnd", "qShift", "kvDim0", "kvDimStart", "cacheSize">>

Pack(op) ==
    LET a == op.aux
    IN  CASE op.code = "INV_RMS" -> <<a.columns>>
          [] op.code = "RMS_NORM" -> <<a.inv, a.columns>>
          [] op.code = "MATMUL" -> <<a.experts, a.active, a.indexes>>
          [] op.code = "ROPE" -> <<a.isQ, a.cache>>
                 \o [i \in 1..Len(RopeFields) |-> a.slice[RopeFields[i]]]
          [] op.code = "MULTIHEAD_ATT" ->
                 <<a.heads, a.heads0, a.kvHeads, a.kvDim0, a.query, a.key, a.value>>
          [] op.code = "MUL" -> <<a.multiplier>>
          [] op.code = "SCALE" -> <<a.scale>>
          [] op.code = "MOE_GATE" -> <<a.k, a.indexes>>
          [] OTHER -> <<0>>

\* Variant with a bug: both numbers of a MATMUL in the wrong order.
UnpackSwapped(code, b) ==
    IF code = "MATMUL" THEN [experts |-> b[2], active |-> b[1], indexes |-> b[3]]
    ELSE IF code = "RMS_NORM" THEN [inv |-> b[2], columns |-> b[1]]
    ELSE NoAux

Unpack(code, b) ==
    CASE code = "INV_RMS" -> [columns |-> b[1]]
      [] code = "RMS_NORM" -> [inv |-> b[1], columns |-> b[2]]
      [] code = "MATMUL" -> [experts |-> b[1], active |-> b[2], indexes |-> b[3]]
      [] code = "ROPE" ->
             [isQ |-> b[1], cache |-> b[2],
              slice |-> [qDim0 |-> b[3], qDimStart |-> b[4], qDimEnd |-> b[5], qShift |-> b[6],
                         kvDim0 |-> b[7], kvDimStart |-> b[8], cacheSize |-> b[9]]]
      [] code = "MULTIHEAD_ATT" ->
             [heads |-> b[1], heads0 |-> b[2], kvHeads |-> b[3], kvDim0 |-> b[4],
              query |-> b[5], key |-> b[6], value |-> b[7]]
      [] code = "MUL" -> [multiplier |-> b[1]]
      [] code = "SCALE" -> [scale |-> b[1]]
      [] code = "MOE_GATE" -> [k |-> b[1], indexes |-> b[2]]
      [] OTHER -> NoAux

\* What the root writes: write_net and write_node.
Field(as, val) == [as |-> as, val |-> val]

NetFields(c) ==
       <<Field("ack", 0), Field("nBatches", c.batches), Field("nNodes", c.nodes),
         Field("nPipes", Len(c.pipes))>>
    \o Concat(LAMBDA p : <<Field("pipeSize", p.size), Field("pipeName", p.place)>>, c.pipes)
    \o <<Field("nPreSyncs", Len(c.preSyncs))>>
    \o Concat(LAMBDA p : <<Field("preSync", p)>>, c.preSyncs)

OpFields(op) ==
    <<Field("opCode", op.code), Field("opIndex", op.index), Field("opWeight", op.weight),
      Field("configSize", Len(Pack(op))), Field("opName", op.name),
      Field("opInput", op.in), Field("opOutput", op.out), Field("opConfig", Pack(op))>>

\* Variant with a bug: the operators before the synchronisations.
SegmentFieldsOpsFirst(s) ==
       <<Field("nSyncs", Len(s.syncs)), Field("nOps", Len(s.ops))>>
    \o Concat(OpFields, s.ops)
    \o Concat(LAMBDA y : <<Field("syncPipe", y.pipe), Field("syncType", y.type)>>, s.syncs)

SegmentFields(s) ==
       <<Field("nSyncs", Len(s.syncs)), Field("nOps", Len(s.ops))>>
    \o Concat(LAMBDA y : <<Field("syncPipe", y.pipe), Field("syncType", y.type)>>, s.syncs)
    \o Concat(OpFields, s.ops)

NodeFields(c) ==
       <<Field("ack", 0), Field("nodeIndex", c.index), Field("nBuffers", Len(c.buffers)),
         Field("nSegments", Len(c.segments))>>
    \o Concat(LAMBDA b : <<Field("bufferSize", b.size), Field("bufferName", b.place)>>, c.buffers)
    \o Concat(SegmentFields, c.segments)

-----------------------------------------------------------------------------
\* The weights in the order of the file, and how each is shared out: "all" to
\* every node, "row" or "col" in slices.  "rows" and "cols" are those of the
\* whole matrix; a mixture of experts has one matrix per expert.
Weight(name, index, how, rows, cols, expert) ==
    <<[name |-> name, index |-> index, how |-> how, rows |-> rows, cols |-> cols,
       expert |-> expert]>>

LayerWeights(h, l) ==
    LET ff(e) ==    Weight("block_matmul_w1", l, "row", h.ffDim, h.dim, e)
                 \o Weight("block_matmul_w2", l, "col", h.dim, h.ffDim, e)
                 \o Weight("block_matmul_w3", l, "row", h.ffDim, h.dim, e)
    IN     Weight("block_matmul_q", l, "row", h.qDim, h.dim, 0)
        \o Weight("block_matmul_k", l, "row", h.kvDim, h.dim, 0)
        \o Weight("block_matmul_v", l, "row", h.kvDim, h.dim, 0)
        \o Weight("block_matmul_wo", l, "col", h.dim, h.qDim, 0)
        \o (IF h.experts > 0
            THEN Weight("block_moe_gate", l, "all", h.experts, h.dim, 0)
                 \o FlattenSeq([e \in 1..h.experts |-> ff(e - 1)])
            ELSE ff(0))
        \o If(Qwen(h), Weight("block_norm_q", l, "all", 1, 1, 0)
                       \o Weight("block_norm_k", l, "all", 1, 1, 0))
        \o Weight("block_norm_0", l, "all", 1, h.dim, 0)
        \o Weight("block_norm_1", l, "all", 1, h.dim, 0)

Weights(h) ==
       Weight("embedding", 0, "all", h.vocab, h.dim, 0)
    \o FlattenSeq([l \in 1..h.layers |-> LayerWeights(h, l - 1)])
    \o Weight("final_norm", 0, "all", 1, h.dim, 0)
    \o Weight("final_matmul_logits", 0, "row", h.vocab, h.dim, 0)

\* split_row_matmul_weight and split_col_matmul_weight: where the part of a
\* node takes its units from, by their places in the file.
SplitRow(h, w, node) ==
    LET d0 == w.rows \div h.nodes
    IN  [i \in 0..(d0 * w.cols - 1) |-> (node * d0 + (i \div w.cols)) * w.cols + (i % w.cols)]

\* Variant with a bug: the stride between rows is that of the part.
SplitColPartStride(h, w, node) ==
    LET n0 == w.cols \div h.nodes
    IN  [i \in 0..(w.rows * n0 - 1) |-> node * n0 + i]

SplitCol(h, w, node) ==
    LET n0 == w.cols \div h.nodes
    IN  [i \in 0..(w.rows * n0 - 1) |-> (i \div n0) * w.cols + node * n0 + (i % n0)]

Part(h, w, node) ==
    LET from == CASE w.how = "all" -> [i \in 0..(w.rows * w.cols - 1) |-> i]
                  [] w.how = "row" -> SplitRow(h, w, node)
                  [] w.how = "col" -> SplitCol(h, w, node)
    IN  [i \in DOMAIN from |-> <<w.expert, from[i]>>]

\* The expert index that _load_row and _load_col pass on.
ExpertIndex(w) == 0

\* load_all, load_row_matmul_slices and load_col_matmul_slices: the root loads
\* its own part and writes that of every other node.
Send(w, field) == [do |-> "send", node |-> w, field |-> field]
Await(w) == [do |-> "await", node |-> w]

ShareWeight(h, w) ==
    LET size(node) == Cardinality(DOMAIN Part(h, w, node))
        offset(node) == ExpertIndex(w) * size(node)
        write(node) == <<Send(node, Field("name", w.name)), Send(node, Field("index", w.index)),
                         Send(node, Field("offset", offset(node))),
                         Send(node, Field("nBytes", size(node))),
                         Send(node, Field("bytes", Part(h, w, node)))>>
    IN     <<[do |-> "load", node |-> 0, key |-> <<w.name, w.index>>,
              offset |-> offset(0), part |-> Part(h, w, 0)]>>
        \o FlattenSeq([node \in 1..(h.nodes - 1) |-> write(node)])

\* Variant with a bug: the root does not wait for the worker's last ack.
FinishNoAck(w) == <<Send(w, Field("name", ""))>>

\* NnRootWeightLoader.finish: an empty name is the end mark.
Finish(w) == <<Send(w, Field("name", "")), Await(w)>>

\* All the root does, in order: write_to_workers, _load_weights, finish.
Todo(h) ==
    LET sends(w, fields) == [i \in 1..Len(fields) |-> Send(w, fields[i])] \o <<Await(w)>>
        config(w) == sends(w, NetFields(NetConfig(h))) \o sends(w, NodeFields(NodeConfig(h, w)))
    IN     FlattenSeq([w \in 1..(h.nodes - 1) |-> config(w)])
        \o Concat(LAMBDA w : ShareWeight(h, w), Weights(h))
        \o <<[do |-> "check", node |-> 0]>>
        \o FlattenSeq([w \in 1..(h.nodes - 1) |-> Finish(w)])

Todos == [h \in Headers |-> Todo(h)]
File == [h \in Headers |-> ToSet(Weights(h))]

-----------------------------------------------------------------------------
\* NnCpuDeviceSegment._build allocates a buffer of zeros for each operator.
\* A key stands for the first operator with that name and index.
Unset == <<>>

Ops(h, n) == Concat(LAMBDA s : s.ops, Segments(h, n))
Allocated == [h \in Headers |-> [n \in NodesOf(h) |->
    LET ops == Ops(h, n)
        size(key) == Length((CHOOSE op \in ToSet(ops) : <<op.name, op.index>> = key).weight)
    IN  [key \in {<<op.name, op.index>> : op \in ToSet(ops)} |->
            [i \in 0..(size(key) - 1) |-> Unset]]]]

\* NnExecutor.load_weight: an operator the node does not have is skipped.
LoadWeight(n, key, offset, part) ==
    weights' = IF key \in DOMAIN weights[n]
               THEN [weights EXCEPT ![n][key] =
                       [i \in DOMAIN @ |-> IF (i - offset) \in DOMAIN part
                                           THEN part[i - offset] ELSE @[i]]]
               ELSE weights

ConfigExpected ==
    <<"ack", "nBatches", "nNodes", "nPipes", "nPreSyncs", "writeAck",
      "ack", "nodeIndex", "nBuffers", "nSegments", "writeAck", "name">>

LoadInit ==
    /\ hdr \in Headers
    /\ step = 1
    /\ down = [w \in Workers |-> <<>>]
    /\ up = [w \in Workers |-> 0]
    /\ expect = [w \in Workers |-> ConfigExpected]
    /\ got = [w \in Workers |-> <<>>]
    /\ blob = [w \in Workers |-> <<>>]
    /\ weights = Allocated[hdr]
    /\ status = [n \in Nodes |-> "loading"]
    /\ crashes = 0

-----------------------------------------------------------------------------
\* The root: what it has to do next, if anything is left.
Tasks == IF status[0] = "loading" /\ step <= Len(Todos[hdr]) THEN {Todos[hdr][step]} ELSE {}

TooLarge(field) == field.as \in {"offset", "nBytes"} /\ field.val > MaxInt32

\* The root writes a field, waiting while the connection is full.  What it
\* writes to a worker that has ended is lost.
RootSend(task) ==
    /\ task.do = "send"
    /\ ~TooLarge(task.field)
    /\ IF status[task.node] = "ended"
       THEN UNCHANGED down
       ELSE /\ Len(down[task.node]) < Capacity
            /\ down' = [down EXCEPT ![task.node] = Append(@, task.field)]
    /\ step' = step + 1
    /\ UNCHANGED <<hdr, up, expect, got, blob, weights, status, crashes>>

RootReadAck(task) ==
    /\ task.do = "await"
    /\ up[task.node] > 0
    /\ up' = [up EXCEPT ![task.node] = @ - 1]
    /\ step' = step + 1
    /\ UNCHANGED <<hdr, down, expect, got, blob, weights, status, crashes>>

RootLoad(task) ==
    /\ task.do = "load"
    /\ LoadWeight(0, task.key, task.offset, task.part)
    /\ step' = step + 1
    /\ UNCHANGED <<hdr, down, up, expect, got, blob, status, crashes>>

\* The bytes read are compared with the size of the file, which may differ
\* (RootRaise).
RootCheck(task) ==
    /\ task.do = "check"
    /\ step' = step + 1
    /\ UNCHANGED <<hdr, down, up, expect, got, blob, weights, status, crashes>>

RootServe ==
    /\ status[0] = "loading"
    /\ Tasks = {}
    /\ status' = [status EXCEPT ![0] = "serving"]
    /\ UNCHANGED <<hdr, step, down, up, expect, got, blob, weights, crashes>>

\* Variant with a bug: the root does not notice that a worker has ended.
RootRaiseIgnored(task) ==
    /\ task.do = "check"
    /\ status' = [status EXCEPT ![0] = "ended"]
    /\ UNCHANGED <<hdr, step, down, up, expect, got, blob, weights, crashes>>

\* An exception: struct.error for an int of more than 32 bits, ValueError for a
\* file of another size, ConnectionError when the worker has ended.
RootRaise(task) ==
    /\ \/ task.do = "send" /\ (TooLarge(task.field) \/ status[task.node] = "ended")
       \/ task.do = "await" /\ status[task.node] = "ended" /\ up[task.node] = 0
       \/ task.do = "check"
    /\ status' = [status EXCEPT ![0] = "ended"]
    /\ UNCHANGED <<hdr, step, down, up, expect, got, blob, weights, crashes>>

-----------------------------------------------------------------------------
\* A worker.
Latest(w, as) == got[w][CHOOSE i \in DOMAIN got[w] :
                            /\ got[w][i].as = as
                            /\ \A j \in DOMAIN got[w] : got[w][j].as = as => j <= i].val

OpExpected == <<"opCode", "opIndex", "opWeight", "configSize", "opName", "opInput", "opOutput">>

\* read_net and read_node: a count is followed by as many entries.
FollowedBy(w, as, val) ==
    CASE as = "nPipes" -> Repeat(val, <<"pipeSize", "pipeName">>)
      [] as = "nPreSyncs" -> Repeat(val, <<"preSync">>)
      [] as = "nSegments" -> Repeat(Latest(w, "nBuffers"), <<"bufferSize", "bufferName">>)
                             \o Repeat(val, <<"nSyncs", "nOps">>)
      [] as = "nOps" -> Repeat(Latest(w, "nSyncs"), <<"syncPipe", "syncType">>)
                        \o Repeat(val, OpExpected)
      [] as = "opOutput" -> If(Latest(w, "configSize") > 0, <<"opConfig">>)
      [] OTHER -> <<>>

Reading(w) == status[w] = "loading" /\ Head(expect[w]) # "writeAck"
WeightFields == {"name", "index", "offset", "nBytes", "bytes"}

\* The worker takes the next field for the one it expects.
ReadConfig(w) ==
    /\ Reading(w)
    /\ Head(expect[w]) \notin WeightFields
    /\ down[w] # <<>>
    /\ LET as == Head(expect[w])
           val == IF as = "opConfig" THEN Unpack(Latest(w, "opCode"), Head(down[w]).val)
                                     ELSE Head(down[w]).val
       IN  /\ got' = [got EXCEPT ![w] = Append(@, Field(as, val))]
           /\ expect' = [expect EXCEPT ![w] = FollowedBy(w, as, val) \o Tail(@)]
    /\ down' = [down EXCEPT ![w] = Tail(@)]
    /\ UNCHANGED <<hdr, step, up, blob, weights, status, crashes>>

\* NnWorkerWeightReader.read: the name, empty at the end, or four more fields
\* and then load_weight.
ReadName(w) ==
    /\ Reading(w)
    /\ Head(expect[w]) = "name"
    /\ down[w] # <<>>
    /\ down' = [down EXCEPT ![w] = Tail(@)]
    /\ IF Head(down[w]).val = ""
       THEN /\ expect' = [expect EXCEPT ![w] = <<"writeAck">>]
            /\ UNCHANGED blob
       ELSE /\ expect' = [expect EXCEPT ![w] = <<"index", "offset", "nBytes", "bytes", "name">>]
            /\ blob' = [blob EXCEPT ![w] = <<Head(down[w]).val>>]
    /\ UNCHANGED <<hdr, step, up, got, weights, status, crashes>>

ReadWeight(w) ==
    /\ Reading(w)
    /\ Head(expect[w]) \in WeightFields \ {"name"}
    /\ down[w] # <<>>
    /\ down' = [down EXCEPT ![w] = Tail(@)]
    /\ expect' = [expect EXCEPT ![w] = Tail(@)]
    /\ IF Head(expect[w]) = "bytes"
       THEN /\ LoadWeight(w, <<blob[w][1], blob[w][2]>>, blob[w][3], Head(down[w]).val)
            /\ blob' = [blob EXCEPT ![w] = <<>>]
       ELSE /\ blob' = [blob EXCEPT ![w] = Append(@, Head(down[w]).val)]
            /\ UNCHANGED weights
    /\ UNCHANGED <<hdr, step, up, got, status, crashes>>

WriteAck(w) ==
    /\ status[w] = "loading"
    /\ Head(expect[w]) = "writeAck"
    /\ up' = [up EXCEPT ![w] = @ + 1]
    /\ expect' = [expect EXCEPT ![w] = Tail(@)]
    /\ status' = IF Len(expect[w]) = 1 THEN [status EXCEPT ![w] = "serving"] ELSE status
    /\ UNCHANGED <<hdr, step, down, got, blob, weights, crashes>>

\* The end of a worker: its memory and what it has not read are gone.
WorkerEnd(w) ==
    /\ status' = [status EXCEPT ![w] = "ended"]
    /\ down' = [down EXCEPT ![w] = <<>>]
    /\ expect' = [expect EXCEPT ![w] = <<>>]
    /\ got' = [got EXCEPT ![w] = <<>>]
    /\ blob' = [blob EXCEPT ![w] = <<>>]
    /\ weights' = [weights EXCEPT ![w] = <<>>]
    /\ UNCHANGED <<hdr, step, up>>

\* recv finds the connection closed: the exception ends the worker.
WorkerRaise(w) ==
    /\ Reading(w)
    /\ down[w] = <<>>
    /\ status[0] = "ended"
    /\ WorkerEnd(w)
    /\ UNCHANGED crashes

Crash(w) ==
    /\ crashes < MaxCrashes
    /\ status[w] = "loading"
    /\ WorkerEnd(w)
    /\ crashes' = crashes + 1

\* The root ends at once, as after an exception.
RootCrash ==
    /\ crashes < MaxCrashes
    /\ status[0] = "loading"
    /\ status' = [status EXCEPT ![0] = "ended"]
    /\ crashes' = crashes + 1
    /\ UNCHANGED <<hdr, step, down, up, expect, got, blob, weights>>

RootStep ==
    \/ \E task \in Tasks :
          RootSend(task) \/ RootReadAck(task) \/ RootLoad(task) \/ RootCheck(task) \/ RootRaise(task)
    \/ RootServe
WorkerStep(w) == ReadConfig(w) \/ ReadName(w) \/ ReadWeight(w) \/ WriteAck(w) \/ WorkerRaise(w)

LoadNext ==
    \/ RootStep
    \/ \E w \in Workers : WorkerStep(w)
    \/ \E w \in Workers : Crash(w)
    \/ RootCrash

\* Every process goes on as long as it can.
LoadFairness == WF_<<step, status>>(RootStep)
                /\ WF_<<expect, status>>(\E w \in Workers : WorkerStep(w))

LoadSpec == LoadInit /\ [][LoadNext]_loadVars /\ LoadFairness
-----------------------------------------------------------------------------
\* The next field a worker reads is the one the root wrote at that place: with
\* no framing, one count, optional part or skipped weight read differently from
\* how it was written would shift all that follows.
StreamInStep ==
    \A w \in Workers :
        status[w] = "loading" /\ down[w] # <<>> /\ Head(expect[w]) # "writeAck"
            => Head(down[w]).as = Head(expect[w])

\* A worker that waits for a weight has the pipes, buffers, segments, syncs and
\* operators build_llm_net made for it, with the configuration of each operator.
Read(w, as) == Concat(LAMBDA f : If(f.as = as, <<f.val>>), got[w])
Each(F(_), seq) == [i \in 1..Len(seq) |-> F(seq[i])]

ConfigAsBuilt ==
    \A w \in Workers : Head(expect[w] \o <<"">>) = "name" =>
        LET segments == Segments(hdr, w)
            ops == Ops(hdr, w)
        IN  /\ Read(w, "nNodes") = <<hdr.nodes>> /\ Read(w, "nBatches") = <<hdr.batches>>
            /\ Read(w, "pipeName") = Each(LAMBDA p : p.place, Pipes(hdr))
            /\ Read(w, "pipeSize") = Each(LAMBDA p : p.size, Pipes(hdr))
            /\ Read(w, "nodeIndex") = <<w>>
            /\ Read(w, "bufferName") = Each(LAMBDA b : b.place, Buffers(hdr, w))
            /\ Read(w, "bufferSize") = Each(LAMBDA b : b.size, Buffers(hdr, w))
            /\ Read(w, "nOps") = Each(LAMBDA s : Len(s.ops), segments)
            /\ Read(w, "syncType") = Each(LAMBDA s : s.syncs[1].type, segments)
            /\ Read(w, "opName") = Each(LAMBDA o : o.name, ops)
            /\ Read(w, "opInput") = Each(LAMBDA o : o.in, ops)
            /\ Read(w, "opOutput") = Each(LAMBDA o : o.out, ops)
            /\ Read(w, "opWeight") = Each(LAMBDA o : o.weight, ops)
            /\ Len(Read(w, "opConfig")) = Len(ops)
            /\ \A i \in 1..Len(ops) : Read(w, "opConfig")[i] = ops[i].aux

\* What node n has to hold of a weight: row r and column c of its own matrix
\* are row and column of the whole matrix shifted by the slices before it.
Shifted(w, n, r, c) ==
    CASE w.how = "all" -> r * w.cols + c
      [] w.how = "row" -> (n * (w.rows \div hdr.nodes) + r) * w.cols + c
      [] w.how = "col" -> r * w.cols + n * (w.cols \div hdr.nodes) + c

Holds(n, w) ==
    LET rows == IF w.how = "row" THEN w.rows \div hdr.nodes ELSE w.rows
        cols == IF w.how = "col" THEN w.cols \div hdr.nodes ELSE w.cols
    IN  \A r \in 0..(rows - 1), c \in 0..(cols - 1) :
            weights[n][<<w.name, w.index>>][w.expert * rows * cols + r * cols + c]
                = <<w.expert, Shifted(w, n, r, c)>>

OfExperts(w) == hdr.experts > 0
                /\ w.name \in {"block_matmul_w1", "block_matmul_w2", "block_matmul_w3"}

Needed(n) == {w \in File[hdr] : <<w.name, w.index>> \in DOMAIN weights[n]}

\* A node that serves holds all of its part of every weight, and at the right
\* places, except for those of experts.
WeightsLoaded ==
    \A n \in Nodes : status[n] = "serving" =>
        \A w \in Needed(n) : ~OfExperts(w) => Holds(n, w)

\* The same of the weights of every expert: README.md:97 lists Qwen3 MoE among
\* the supported architectures.
ExpertsLoaded ==
    \A n \in Nodes : status[n] = "serving" =>
        \A w \in Needed(n) : OfExperts(w) => Holds(n, w)

\* The root serves last: when it does, every worker serves or has crashed, and
\* nothing is left in a connection that a forward would take for its own.
RootServesLast ==
    status[0] = "serving" =>
        \A w \in Workers : /\ status[w] # "loading"
                           /\ status[w] = "serving" => down[w] = <<>> /\ up[w] = 0

\* Whatever fails, every process ends or serves: no worker waits for ever.
LoadingEnds == <>[](\A n \in Nodes : status[n] # "loading")
=============================================================================
