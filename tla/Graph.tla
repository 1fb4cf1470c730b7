-------------------------------- MODULE Graph --------------------------------
\* What build_llm_net (graph_builder.py) makes of a model header: the pipes all
\* nodes share, and for each node its buffers and its segments of operators.
\*
\* A header is a record [arch, rope, sync, weight, nodes, batches, layers,
\* seqLen, dim, qDim, kvDim, ffDim, vocab, kvHeads, experts, active].  All
\* dimensions count in units: a unit stands for the elements that are never
\* divided, a quantisation block or an attention head (so head_dim is 1).  A
\* pipe or a buffer goes by its name and layer instead of its index.
EXTENDS Integers, Sequences

F32 == "F32"
Q80 == "Q80"

\* NnSize3D: a float type and three dimensions.
Size3(ft, z, y, x) == [ft |-> ft, z |-> z, y |-> y, x |-> x]
Size2(ft, y, x) == Size3(ft, 1, y, x)
Size0 == Size3(F32, 1, 1, 1)

Pipe(name) == [src |-> "pipe", id |-> <<name, 0>>]
Buffer(name) == [src |-> "buffer", id |-> <<name, 0>>]
LayerBuffer(name, layer) == [src |-> "buffer", id |-> <<name, layer>>]

\* NnPointerConfig: all rows, this node's part of all rows, or raw memory.
Batch(place) == [place |-> place, type |-> "BATCH"]
BatchedSlice(place) == [place |-> place, type |-> "BATCHED_SLICE"]
Raw(place) == [place |-> place, type |-> "RAW"]

-----------------------------------------------------------------------------
\* slice_kv_cache, slice_row_matmul, slice_col_matmul, slice_rope and
\* slice_multi_head_att: what one node owns of a matrix, a cache or the heads.
KvDim0(h) == h.kvDim \div h.nodes

RowSlice(h, n, d) == [n |-> n, d0 |-> d \div h.nodes,
                      size |-> Size2(h.weight, n, d \div h.nodes)]

ColSlice(h, n, d) == [n0 |-> n \div h.nodes, d |-> d,
                      size |-> Size2(h.weight, n \div h.nodes, d)]

QSlice(h) == RowSlice(h, h.dim, h.qDim)
KSlice(h) == RowSlice(h, h.dim, h.kvDim)
WoSlice(h) == ColSlice(h, h.qDim, h.dim)
W1Slice(h) == RowSlice(h, h.dim, h.ffDim)
W2Slice(h) == ColSlice(h, h.ffDim, h.dim)
WclsSlice(h) == RowSlice(h, h.dim, h.vocab)

RopeSlice(h, node) ==
    LET qDim0 == h.qDim \div h.nodes
        llama == h.rope = "LLAMA"
    IN  [qDim0 |-> qDim0,
         kvDim0 |-> KvDim0(h),
         qDimStart |-> node * qDim0,
         qDimEnd |-> node * qDim0 + qDim0,
         qShift |-> IF llama THEN node * qDim0 ELSE 0,
         kvDimStart |-> node * KvDim0(h),
         cacheSize |-> Size2(F32, h.seqLen, IF llama THEN node * qDim0 + qDim0 ELSE 1)]

AttSlice(h) == [heads |-> h.qDim,
                heads0 |-> h.qDim \div h.nodes,
                size |-> Size2(F32, h.batches, (h.qDim \div h.nodes) * h.seqLen)]

-----------------------------------------------------------------------------
\* The expert dimension of the MoE buffers, 1 for models without experts, and
\* the buffers that coincide when nothing is quantised for the network.
Active1(h) == IF h.active > 1 THEN h.active ELSE 1
Experts1(h) == IF h.experts > 1 THEN h.experts ELSE 1

Qwen(h) == h.arch \in {"QWEN3", "QWEN3_MOE"}
Quantised(h) == h.sync # F32

YQ(h) == IF Quantised(h) THEN Buffer("q_y") ELSE Buffer("y")
DQ(h) == IF Quantised(h) THEN Buffer("q_d") ELSE Buffer("d")
MoeYQ(h) == IF Quantised(h) THEN Buffer("q_moe_y") ELSE Buffer("moe_y")
MoeDQ(h) == IF Quantised(h) THEN Buffer("q_moe_d") ELSE Buffer("moe_d")

If(condition, seq) == IF condition THEN seq ELSE <<>>

\* NnNetConfigBuilder.add_pipe, in the order of the calls.
Pipes(h) ==
    LET Add(name, size) == <<[place |-> Pipe(name), size |-> size]>>
    IN     Add("POS", Size2(F32, h.batches, 1))
        \o Add("TOK", Size2(F32, h.batches, 1))
        \o Add("X",   Size2(F32, h.batches, h.dim))
        \o Add("LG",  Size2(F32, h.batches, h.vocab))
        \o Add("ZQ",  Size2(h.sync, h.batches, h.dim * h.nodes))

NetConfig(h) == [batches |-> h.batches, nodes |-> h.nodes,
                 pipes |-> Pipes(h), preSyncs |-> <<Pipe("POS")>>]

\* The columns of the inverse root mean squares: Qwen3 normalises each head of
\* q and k for itself.
QNormCols(h) == IF Qwen(h) THEN QSlice(h).d0 ELSE 1
KNormCols(h) == IF Qwen(h) THEN KSlice(h).d0 ELSE 1
InvCols(h) == IF QNormCols(h) > KNormCols(h) THEN QNormCols(h) ELSE KNormCols(h)

\* NnNodeConfigBuilder.add_buffer, in the order of the calls: those of every
\* node, then a key and a value cache for each layer.
Caches(h) ==
    [i \in 1..(2 * h.layers) |->
       [place |-> LayerBuffer(IF i % 2 = 1 THEN "k" ELSE "v", (i - 1) \div 2),
        size |-> Size2(F32, h.seqLen, KvDim0(h))]]

Buffers(h, node) ==
    LET b == h.batches
        Add(name, size) == <<[place |-> Buffer(name), size |-> size]>>
    IN     Add("x", Size2(F32, b, h.dim))
        \o Add("y", Size2(F32, b, h.dim))
        \o If(Quantised(h), Add("q_y", Size2(h.sync, b, h.dim)))
        \o Add("z", Size2(F32, b, h.qDim))
        \o Add("q_z_slice", Size2(h.sync, b, h.qDim \div h.nodes))
        \o Add("q", Size2(F32, b, QSlice(h).d0))
        \o Add("k_temp", Size2(F32, b, KSlice(h).d0))
        \o Add("v_temp", Size2(F32, b, KSlice(h).d0))
        \o Add("inv_rms", Size2(F32, b, InvCols(h)))
        \o Add("rope_cache", RopeSlice(h, node).cacheSize)
        \o Add("att", AttSlice(h).size)
        \o Add("lg", Size2(F32, b, h.vocab \div h.nodes))
        \o Add("d", Size2(F32, b, W1Slice(h).d0))
        \o If(Quantised(h), Add("q_d", Size2(h.sync, b, W1Slice(h).d0)))
        \o Add("l", Size2(F32, b, W1Slice(h).d0))
        \o Add("gt", Size2(F32, b, Experts1(h)))
        \o Add("act_exp_ix", Size2(F32, b, Active1(h)))
        \o Add("moe_y", Size3(F32, Active1(h), b, h.dim))
        \o If(Quantised(h), Add("q_moe_y", Size3(h.sync, Active1(h), b, h.dim)))
        \o Add("moe_d", Size3(F32, Active1(h), b, W1Slice(h).d0))
        \o If(Quantised(h), Add("q_moe_d", Size3(h.sync, Active1(h), b, W1Slice(h).d0)))
        \o Add("moe_l", Size3(F32, Active1(h), b, W1Slice(h).d0))
        \o Add("moe_s", Size3(F32, Active1(h), b, 1))
        \o Caches(h)

-----------------------------------------------------------------------------
\* NnSegmentConfigBuilder.add_op.  "aux" is the configuration of the operator:
\* the other buffers it uses and its numbers.
Op(code, name, index, in, out, weight, aux) ==
    <<[code |-> code, name |-> name, index |-> index, in |-> in, out |-> out,
       weight |-> weight, aux |-> aux]>>

NoAux == [none |-> TRUE]

Cast(name, l, in, out) == Op("CAST", name, l, in, out, Size0, NoAux)

MergeAdd(name, l) ==
    Op("MERGE_ADD", name, l, Batch(Pipe("ZQ")), Batch(Buffer("x")), Size0, NoAux)

Matmul(name, l, in, out, weight, experts, active) ==
    Op("MATMUL", name, l, Batch(in), Batch(out), weight,
       [experts |-> experts, active |-> active, indexes |-> Buffer("act_exp_ix")])

\* INV_RMS into inv_rms, then RMS_NORM with it.
Norm(pre, name, l, in, out, weight, columns) ==
       Op("INV_RMS", pre, l, Batch(in), Batch(Buffer("inv_rms")), Size0, [columns |-> columns])
    \o Op("RMS_NORM", name, l, Batch(in), Batch(out), weight,
          [inv |-> Buffer("inv_rms"), columns |-> columns])

InPlace(code, name, l, place, aux) ==
    Op(code, name, l, Batch(place), Batch(place), Size0, aux)

NormSize(h) == Size2(F32, 1, h.dim)
HeadNormSize == Size2(F32, 1, 1)

-----------------------------------------------------------------------------
\* The attention segment of a layer.
AttOps(h, node, l) ==
    LET Rope(name, place, isQ) ==
            InPlace("ROPE", name, l, place,
                    [isQ |-> isQ, cache |-> Buffer("rope_cache"), slice |-> RopeSlice(h, node)])
        Shift(name, from, to) ==
            Op("SHIFT", name, l, Batch(Buffer(from)), Raw(LayerBuffer(to, l)), Size0, NoAux)
        Project(name, to, slice) ==
            Matmul(name, l, YQ(h), Buffer(to), slice.size, 0, 0)
    IN     (IF l = 0 THEN Cast("block_cast_x", l, Batch(Pipe("X")), Batch(Buffer("x")))
                     ELSE MergeAdd("block_merge_add", l))
        \o Norm("block_norm_pre_0", "block_norm_0", l, Buffer("x"), Buffer("y"), NormSize(h), 1)
        \o If(Quantised(h), Cast("block_cast_y", l, Batch(Buffer("y")), Batch(YQ(h))))
        \o Project("block_matmul_q", "q", QSlice(h))
        \o Project("block_matmul_k", "k_temp", KSlice(h))
        \o Project("block_matmul_v", "v_temp", KSlice(h))
        \o If(Qwen(h),
                Norm("block_norm_pre_q", "block_norm_q", l,
                     Buffer("q"), Buffer("q"), HeadNormSize, QNormCols(h))
             \o Norm("block_norm_pre_k", "block_norm_k", l,
                     Buffer("k_temp"), Buffer("k_temp"), HeadNormSize, KNormCols(h)))
        \o Rope("block_rope_q", Buffer("q"), TRUE)
        \o Rope("block_rope_k", Buffer("k_temp"), FALSE)
        \o Shift("block_shift_k", "k_temp", "k")
        \o Shift("block_shift_v", "v_temp", "v")
        \o Op("MULTIHEAD_ATT", "block_multihead_att", l,
              BatchedSlice(Buffer("z")), BatchedSlice(Buffer("z")), Size0,
              [heads |-> AttSlice(h).heads, heads0 |-> AttSlice(h).heads0,
               kvHeads |-> h.kvHeads, kvDim0 |-> KvDim0(h), query |-> Buffer("q"),
               key |-> LayerBuffer("k", l), value |-> LayerBuffer("v", l)])
        \o Cast("block_cast_y2", l, BatchedSlice(Buffer("z")), Batch(Buffer("q_z_slice")))
        \o Matmul("block_matmul_wo", l, Buffer("q_z_slice"), Buffer("y"), WoSlice(h).size, 0, 0)
        \o Cast("block_cast_d", l, Batch(Buffer("y")), BatchedSlice(Pipe("ZQ")))

\* The feed-forward part of a dense layer.
DenseOps(h, l) ==
       If(Quantised(h), Cast("block_cast_y3", l, Batch(Buffer("y")), Batch(YQ(h))))
    \o Matmul("block_matmul_w1", l, YQ(h), Buffer("d"), W1Slice(h).size, 0, 0)
    \o Matmul("block_matmul_w3", l, YQ(h), Buffer("l"), W1Slice(h).size, 0, 0)
    \o InPlace("SILU", "block_act", l, Buffer("d"), NoAux)
    \o InPlace("MUL", "block_mul", l, Buffer("d"), [multiplier |-> Buffer("l")])
    \o If(Quantised(h), Cast("block_cast_d2", l, Batch(Buffer("d")), Batch(DQ(h))))
    \o Matmul("block_matmul_w2", l, DQ(h), Buffer("y"), W2Slice(h).size, 0, 0)

\* The same of a mixture of experts: each row is computed by its active experts.
MoeOps(h, l) ==
    LET Experts(name, in, out, size) ==
            Matmul(name, l, in, out, [size EXCEPT !.z = h.experts], h.experts, h.active)
    IN     Op("REPEAT_Z", "block_moe_y_repeat", l,
              Batch(Buffer("y")), Batch(MoeYQ(h)), Size0, NoAux)
        \o Matmul("block_moe_gate", l, Buffer("y"), Buffer("gt"), Size2(F32, h.dim, h.experts), 0, 0)
        \o InPlace("SOFTMAX", "block_moe_softmax", l, Buffer("gt"), NoAux)
        \o Op("MOE_GATE", "block_moe_gate2", l, Batch(Buffer("gt")), Batch(Buffer("moe_s")),
              Size0, [k |-> h.active, indexes |-> Buffer("act_exp_ix")])
        \o Experts("block_matmul_w1", MoeYQ(h), Buffer("moe_d"), W1Slice(h).size)
        \o Experts("block_matmul_w3", MoeYQ(h), Buffer("moe_l"), W1Slice(h).size)
        \o InPlace("SILU", "block_act", l, Buffer("moe_d"), NoAux)
        \o InPlace("MUL", "block_mul", l, Buffer("moe_d"), [multiplier |-> Buffer("moe_l")])
        \o If(Quantised(h), Cast("block_cast_d2", l, Batch(Buffer("moe_d")), Batch(MoeDQ(h))))
        \o Experts("block_matmul_w2", MoeDQ(h), Buffer("moe_y"), W2Slice(h).size)
        \o InPlace("SCALE", "block_moe_scale", l, Buffer("moe_y"), [scale |-> Buffer("moe_s")])
        \o Op("MERGE_SUM", "block_moe_merge_sum", l,
              Batch(Buffer("moe_y")), Batch(Buffer("y")), Size0, NoAux)

FfOps(h, l) ==
       MergeAdd("block_merge_add2", l)
    \o Norm("block_norm_pre_1", "block_norm_1", l, Buffer("x"), Buffer("y"), NormSize(h), 1)
    \o (IF h.arch = "QWEN3_MOE" THEN MoeOps(h, l) ELSE DenseOps(h, l))
    \o Cast("block_cast_d3", l, Batch(Buffer("y")), BatchedSlice(Pipe("ZQ")))

StartOps(h, node) ==
    If(node = 0, Op("EMBEDDING", "embedding", 0, Batch(Pipe("TOK")), Batch(Pipe("X")),
                    Size2(F32, h.vocab, h.dim), NoAux))

EndOps(h) ==
       MergeAdd("final_merge_add", 0)
    \o Norm("final_norm_pre", "final_norm", 0, Buffer("x"), Buffer("y"), NormSize(h), 1)
    \o If(Quantised(h), Cast("final_cast_y", 0, Batch(Buffer("y")), Batch(YQ(h))))
    \o Matmul("final_matmul_logits", 0, YQ(h), Buffer("lg"), WclsSlice(h).size, 0, 0)
    \o Cast("final_cast_logits", 0, Batch(Buffer("lg")), BatchedSlice(Pipe("LG")))

\* The segments of a node: start, attention and feed-forward of each layer, end.
Segments(h, node) ==
    LET Segment(ops, place, type) ==
            [ops |-> ops, syncs |-> <<[pipe |-> place, type |-> type]>>]
        Layer(i) == IF i % 2 = 1
                    THEN Segment(AttOps(h, node, i \div 2), Pipe("ZQ"), "NODE_SLICES")
                    ELSE Segment(FfOps(h, i \div 2 - 1), Pipe("ZQ"), "NODE_SLICES")
    IN     <<Segment(StartOps(h, node), Pipe("X"), "WITH_ROOT")>>
        \o [i \in 1..(2 * h.layers) |-> Layer(i)]
        \o <<Segment(EndOps(h), Pipe("LG"), "NODE_SLICES_EXCEPT_ROOT")>>

NodeConfig(h, node) == [index |-> node, buffers |-> Buffers(h, node),
                        segments |-> Segments(h, node)]

\* NnSize3D's length, and n_bytes with a unit of any type as one byte.
Length(size) == size.z * size.y * size.x
=============================================================================
