---------------------------- MODULE WeightProofs ----------------------------
\* Proofs about the weights of Loading, on top of NodeProofs, for all models,
\* clusters and sizes: the parts of the file that the root loads and a worker
\* reads have the sizes of the buffers they are put in, and each node that serves
\* has its slice of every weight.
EXTENDS NodeProofs, FiniteSetTheorems

-----------------------------------------------------------------------------
\* The weights of the file: name says how each is shared out and of what size it
\* is, and only the experts' have a number of their own.
ExpertNames == {"block_matmul_w1", "block_matmul_w2", "block_matmul_w3"}
RowNames == {"block_matmul_q", "block_matmul_k", "block_matmul_v", "block_matmul_w1",
             "block_matmul_w3", "final_matmul_logits"}
ColNames == {"block_matmul_wo", "block_matmul_w2"}
WholeNames == {"embedding", "block_moe_gate", "block_norm_q", "block_norm_k", "block_norm_0",
               "block_norm_1", "final_norm"}
FileNames == RowNames \cup ColNames \cup WholeNames

HowOf(name) == IF name \in RowNames THEN "row" ELSE IF name \in ColNames THEN "col" ELSE "all"
RowsOf(h, name) ==
    CASE name \in {"embedding", "final_matmul_logits"} -> h.vocab
      [] name = "block_matmul_q" -> h.qDim
      [] name \in {"block_matmul_k", "block_matmul_v"} -> h.kvDim
      [] name \in {"block_matmul_wo", "block_matmul_w2"} -> h.dim
      [] name \in {"block_matmul_w1", "block_matmul_w3"} -> h.ffDim
      [] name = "block_moe_gate" -> h.experts
      [] OTHER -> 1
ColsOf(h, name) ==
    CASE name = "block_matmul_wo" -> h.qDim
      [] name = "block_matmul_w2" -> h.ffDim
      [] name \in {"block_norm_q", "block_norm_k"} -> 1
      [] OTHER -> h.dim

Filed(h, x) ==
    /\ x.name \in FileNames
    /\ x.how = HowOf(x.name) /\ x.rows = RowsOf(h, x.name) /\ x.cols = ColsOf(h, x.name)
    /\ (h.experts = 0 \/ x.name \notin ExpertNames) => x.expert = 0
AllFiled(h, s) == IsList(s) /\ \A i \in 1..Len(s) : Filed(h, s[i])

LEMMA FiledConcat ==
    ASSUME NEW h, NEW s, NEW t, AllFiled(h, s), AllFiled(h, t)
    PROVE  AllFiled(h, s \o t)
<1>1. IsList(s) /\ IsList(t)
    BY DEF AllFiled
<1> DEFINE u == s \o t
<1>2. IsList(u)
    BY <1>1, ConcatList
<1> HIDE DEF u
<1>3. \A i \in 1..Len(u) : Filed(h, u[i])
    <2> TAKE i \in 1..Len(u)
    <2>1. (\E j \in 1..Len(s) : u[i] = s[j]) \/ (\E j \in 1..Len(t) : u[i] = t[j])
        BY <1>1, ConcatElements DEF u
    <2>. QED
        BY <2>1 DEF AllFiled
<1>. QED
    BY <1>2, <1>3 DEF AllFiled, u

LEMMA FiledFlatten ==
    ASSUME NEW h, NEW n \in Nat, NEW ss, ss = [i \in 1..n |-> ss[i]], \A i \in 1..n : AllFiled(h, ss[i])
    PROVE  AllFiled(h, FlattenSeq(ss))
<1>1. IsList(ss) /\ Len(ss) = n
    BY Listed
<1>2. AreLists(ss)
    BY <1>1 DEF AreLists, AllFiled
<1>3. IsList(FlattenSeq(ss))
    BY <1>2, FlattenList
<1>4. ASSUME NEW i \in 1..Len(FlattenSeq(ss)) PROVE Filed(h, FlattenSeq(ss)[i])
    <2>1. PICK k \in 1..Len(ss) : \E j \in 1..Len(ss[k]) : FlattenSeq(ss)[i] = ss[k][j]
        BY <1>2, FlattenElements
    <2>. QED
        BY <1>1, <2>1 DEF AllFiled
<1>. QED
    BY <1>3, <1>4 DEF AllFiled

LEMMA FiledIf == ASSUME NEW h, NEW c, NEW s, AllFiled(h, s) PROVE AllFiled(h, If(c, s))
<1>1. AllFiled(h, <<>>)
    <2>1. IsList(<<>>) /\ Len(<<>>) = 0
        BY EmptyList
    <2>2. \A i \in 1..Len(<<>>) : FALSE
        BY <2>1
    <2>. QED
        BY <2>1, <2>2 DEF AllFiled
<1>. QED
    BY <1>1 DEF If

LEMMA FiledWeight ==
    ASSUME NEW h, NEW name \in FileNames, NEW index, NEW expert,
           (h.experts = 0 \/ name \notin ExpertNames) => expert = 0
    PROVE  AllFiled(h, Weight(name, index, HowOf(name), RowsOf(h, name), ColsOf(h, name), expert))
<1> DEFINE x == [name |-> name, index |-> index, how |-> HowOf(name), rows |-> RowsOf(h, name),
                 cols |-> ColsOf(h, name), expert |-> expert]
           s == <<x>>
<1>1. Filed(h, x)
    BY DEF Filed
<1>2. Weight(name, index, HowOf(name), RowsOf(h, name), ColsOf(h, name), expert) = s
    BY DEF Weight
<1> HIDE DEF x
<1>3. IsList(s) /\ Len(s) = 1 /\ s[1] = x
    BY OneAndRest, EmptyList
<1>. QED
    BY <1>1, <1>2, <1>3 DEF AllFiled

LEMMA FiledMade ==
    ASSUME NEW h
    PROVE  /\ \A l : AllFiled(h, Weight("embedding", l, "all", h.vocab, h.dim, 0))
           /\ \A l : AllFiled(h, Weight("block_matmul_q", l, "row", h.qDim, h.dim, 0))
           /\ \A l : AllFiled(h, Weight("block_matmul_k", l, "row", h.kvDim, h.dim, 0))
           /\ \A l : AllFiled(h, Weight("block_matmul_v", l, "row", h.kvDim, h.dim, 0))
           /\ \A l : AllFiled(h, Weight("block_matmul_wo", l, "col", h.dim, h.qDim, 0))
           /\ \A l : AllFiled(h, Weight("block_moe_gate", l, "all", h.experts, h.dim, 0))
           /\ \A l : AllFiled(h, Weight("block_norm_q", l, "all", 1, 1, 0))
           /\ \A l : AllFiled(h, Weight("block_norm_k", l, "all", 1, 1, 0))
           /\ \A l : AllFiled(h, Weight("block_norm_0", l, "all", 1, h.dim, 0))
           /\ \A l : AllFiled(h, Weight("block_norm_1", l, "all", 1, h.dim, 0))
           /\ \A l : AllFiled(h, Weight("final_norm", l, "all", 1, h.dim, 0))
           /\ \A l : AllFiled(h, Weight("final_matmul_logits", l, "row", h.vocab, h.dim, 0))
           /\ \A l, e : (h.experts = 0 => e = 0) =>
                  /\ AllFiled(h, Weight("block_matmul_w1", l, "row", h.ffDim, h.dim, e))
                  /\ AllFiled(h, Weight("block_matmul_w2", l, "col", h.dim, h.ffDim, e))
                  /\ AllFiled(h, Weight("block_matmul_w3", l, "row", h.ffDim, h.dim, e))
<1> DEFINE InList(name, how, rows, cols) ==
               name \in FileNames /\ HowOf(name) = how /\ RowsOf(h, name) = rows /\ ColsOf(h, name) = cols
<1>1. ASSUME NEW name, NEW how, NEW rows, NEW cols, InList(name, how, rows, cols), NEW l, NEW e,
             (h.experts = 0 \/ name \notin ExpertNames) => e = 0
      PROVE  AllFiled(h, Weight(name, l, how, rows, cols, e))
    BY <1>1, FiledWeight
<1>2. /\ InList("embedding", "all", h.vocab, h.dim)
      /\ InList("block_moe_gate", "all", h.experts, h.dim)
      /\ InList("block_norm_q", "all", 1, 1) /\ InList("block_norm_k", "all", 1, 1)
      /\ InList("block_norm_0", "all", 1, h.dim) /\ InList("block_norm_1", "all", 1, h.dim)
      /\ InList("final_norm", "all", 1, h.dim)
    BY DEF FileNames, RowNames, ColNames, WholeNames, HowOf, RowsOf, ColsOf
<1>3. /\ InList("block_matmul_q", "row", h.qDim, h.dim)
      /\ InList("block_matmul_k", "row", h.kvDim, h.dim) /\ InList("block_matmul_v", "row", h.kvDim, h.dim)
      /\ InList("block_matmul_w1", "row", h.ffDim, h.dim) /\ InList("block_matmul_w3", "row", h.ffDim, h.dim)
      /\ InList("final_matmul_logits", "row", h.vocab, h.dim)
      /\ InList("block_matmul_wo", "col", h.dim, h.qDim) /\ InList("block_matmul_w2", "col", h.dim, h.ffDim)
    BY DEF FileNames, RowNames, ColNames, WholeNames, HowOf, RowsOf, ColsOf
<1> HIDE DEF InList
<1>5. ASSUME NEW name, NEW how, NEW rows, NEW cols, InList(name, how, rows, cols), NEW l
      PROVE  AllFiled(h, Weight(name, l, how, rows, cols, 0))
    BY <1>1, <1>5
<1>6. ASSUME NEW name, NEW how, NEW rows, NEW cols, InList(name, how, rows, cols), NEW l, NEW e,
             h.experts = 0 => e = 0, name \in ExpertNames
      PROVE  AllFiled(h, Weight(name, l, how, rows, cols, e))
    BY <1>1, <1>6
<1>7. {"block_matmul_w1", "block_matmul_w2", "block_matmul_w3"} \subseteq ExpertNames
    BY DEF ExpertNames
<1>8. \A l, e : (h.experts = 0 => e = 0) =>
          /\ AllFiled(h, Weight("block_matmul_w1", l, "row", h.ffDim, h.dim, e))
          /\ AllFiled(h, Weight("block_matmul_w2", l, "col", h.dim, h.ffDim, e))
          /\ AllFiled(h, Weight("block_matmul_w3", l, "row", h.ffDim, h.dim, e))
    BY <1>3, <1>6, <1>7
<1>. QED
    BY <1>2, <1>3, <1>5, <1>8

LEMMA LayerWeightsFiled == ASSUME NEW h, h.experts \in Nat, NEW l PROVE AllFiled(h, LayerWeights(h, l))
<1> DEFINE ff(e) ==    Weight("block_matmul_w1", l, "row", h.ffDim, h.dim, e)
                    \o Weight("block_matmul_w2", l, "col", h.dim, h.ffDim, e)
                    \o Weight("block_matmul_w3", l, "row", h.ffDim, h.dim, e)
           experts == [e \in 1..h.experts |-> ff(e - 1)]
<1>1. \A e : (h.experts = 0 => e = 0) => AllFiled(h, ff(e))
    BY FiledMade, FiledConcat
<1>2. AllFiled(h, FlattenSeq(experts))
    <2>1. \A e \in 1..h.experts : AllFiled(h, experts[e])
        BY <1>1
    <2> HIDE DEF ff
    <2>2. experts = [e \in 1..h.experts |-> experts[e]]
        OBVIOUS
    <2> HIDE DEF experts
    <2>. QED
        BY <2>1, <2>2, FiledFlatten
<1>3. AllFiled(h, ff(0))
    BY <1>1
<1> DEFINE ffn == IF h.experts > 0
                  THEN Weight("block_moe_gate", l, "all", h.experts, h.dim, 0) \o FlattenSeq(experts)
                  ELSE ff(0)
<1>4. AllFiled(h, ffn)
    <2> HIDE DEF experts, ff
    <2>. QED
        BY <1>2, <1>3, FiledMade, FiledConcat
<1>5. LayerWeights(h, l) =
              Weight("block_matmul_q", l, "row", h.qDim, h.dim, 0)
           \o Weight("block_matmul_k", l, "row", h.kvDim, h.dim, 0)
           \o Weight("block_matmul_v", l, "row", h.kvDim, h.dim, 0)
           \o Weight("block_matmul_wo", l, "col", h.dim, h.qDim, 0)
           \o ffn
           \o If(Qwen(h), Weight("block_norm_q", l, "all", 1, 1, 0)
                          \o Weight("block_norm_k", l, "all", 1, 1, 0))
           \o Weight("block_norm_0", l, "all", 1, h.dim, 0)
           \o Weight("block_norm_1", l, "all", 1, h.dim, 0)
    BY DEF LayerWeights
<1> HIDE DEF ffn
<1>. QED
    BY <1>4, <1>5, FiledMade, FiledConcat, FiledIf

LEMMA WeightsFiled ==
    ASSUME NEW h, h.experts \in Nat, h.layers \in Nat PROVE AllFiled(h, Weights(h))
<1> DEFINE layers == [l \in 1..h.layers |-> LayerWeights(h, l - 1)]
<1>1. AllFiled(h, FlattenSeq(layers))
    <2>1. \A l \in 1..h.layers : AllFiled(h, layers[l])
        BY LayerWeightsFiled
    <2>2. layers = [l \in 1..h.layers |-> layers[l]]
        OBVIOUS
    <2> HIDE DEF layers
    <2>. QED
        BY <2>1, <2>2, FiledFlatten
<1>. QED
    BY <1>1, FiledMade, FiledConcat DEF Weights

-----------------------------------------------------------------------------
\* How long the part of a weight is, by its name; and what operators allocate
\* for it.
PartRows(h, name) == IF HowOf(name) = "row" THEN RowsOf(h, name) \div h.nodes ELSE RowsOf(h, name)
PartCols(h, name) == IF HowOf(name) = "col" THEN ColsOf(h, name) \div h.nodes ELSE ColsOf(h, name)
PartLength(h, name) == PartRows(h, name) * PartCols(h, name)

Roomy(h, op) ==
    (op.name \in FileNames /\ (op.name \in ExpertNames => h.experts = 0))
        => Length(op.weight) = PartLength(h, op.name)
AllRoomy(h, ops) == IsList(ops) /\ \A i \in 1..Len(ops) : Roomy(h, ops[i])

LEMMA PartNumbers ==
    ASSUME NEW h \in Headers, NEW name
    PROVE  /\ RowsOf(h, name) \in Nat /\ ColsOf(h, name) \in Nat
           /\ PartRows(h, name) \in Nat /\ PartCols(h, name) \in Nat
<1>1. RowsOf(h, name) \in Nat /\ ColsOf(h, name) \in Nat
    BY HeaderAssumption DEF RowsOf, ColsOf
<1>2. h.nodes \in Nat /\ h.nodes > 0
    BY HeaderAssumption
<1>. QED
    BY <1>1, <1>2, Division DEF PartRows, PartCols

LEMMA RoomyConcat ==
    ASSUME NEW h, NEW s, NEW t, AllRoomy(h, s), AllRoomy(h, t)
    PROVE  AllRoomy(h, s \o t)
<1>1. IsList(s) /\ IsList(t)
    BY DEF AllRoomy
<1> DEFINE u == s \o t
<1>2. IsList(u)
    BY <1>1, ConcatList
<1> HIDE DEF u
<1>3. \A i \in 1..Len(u) : Roomy(h, u[i])
    <2> TAKE i \in 1..Len(u)
    <2>1. (\E j \in 1..Len(s) : u[i] = s[j]) \/ (\E j \in 1..Len(t) : u[i] = t[j])
        BY <1>1, ConcatElements DEF u
    <2>. QED
        BY <2>1 DEF AllRoomy
<1>. QED
    BY <1>2, <1>3 DEF AllRoomy, u

LEMMA RoomyIf == ASSUME NEW h, NEW c, NEW s, AllRoomy(h, s) PROVE AllRoomy(h, If(c, s))
<1>1. AllRoomy(h, <<>>)
    <2>1. IsList(<<>>) /\ Len(<<>>) = 0
        BY EmptyList
    <2>2. \A i \in 1..Len(<<>>) : FALSE
        BY <2>1
    <2>. QED
        BY <2>1, <2>2 DEF AllRoomy
<1>. QED
    BY <1>1 DEF If

\* What has room for the weight of that name, if it is one of the file's.
Room(h, name, size) ==
    (name \in FileNames /\ (name \in ExpertNames => h.experts = 0)) => Length(size) = PartLength(h, name)

LEMMA RoomyOp ==
    ASSUME NEW h, NEW code, NEW name, NEW l, NEW in, NEW out, NEW weight, NEW aux, Room(h, name, weight)
    PROVE  AllRoomy(h, Op(code, name, l, in, out, weight, aux))
<1> DEFINE op == [code |-> code, name |-> name, index |-> l, in |-> in, out |-> out,
                  weight |-> weight, aux |-> aux]
           s == <<op>>
<1>1. Roomy(h, op)
    BY DEF Roomy, Room
<1>2. Op(code, name, l, in, out, weight, aux) = s
    BY DEF Op
<1> HIDE DEF op
<1>3. IsList(s) /\ Len(s) = 1 /\ s[1] = op
    BY OneAndRest, EmptyList
<1>. QED
    BY <1>1, <1>2, <1>3 DEF AllRoomy

LEMMA RoomyMade ==
    ASSUME NEW h
    PROVE  /\ \A name, size : name \notin FileNames => Room(h, name, size)
           /\ \A name, l, in, out : name \notin FileNames => AllRoomy(h, Cast(name, l, in, out))
           /\ \A name, l : name \notin FileNames => AllRoomy(h, MergeAdd(name, l))
           /\ \A code, name, l, place, aux : name \notin FileNames => AllRoomy(h, InPlace(code, name, l, place, aux))
           /\ \A name, l, in, out, weight, experts, active :
                  Room(h, name, weight) => AllRoomy(h, Matmul(name, l, in, out, weight, experts, active))
           /\ \A pre, name, l, in, out, weight, columns :
                  (pre \notin FileNames /\ Room(h, name, weight))
                      => AllRoomy(h, Norm(pre, name, l, in, out, weight, columns))
<1>1. \A name, size : name \notin FileNames => Room(h, name, size)
    BY DEF Room
<1>2. \A name, l, in, out : name \notin FileNames => AllRoomy(h, Cast(name, l, in, out))
    BY <1>1, RoomyOp DEF Cast
<1>3. \A name, l : name \notin FileNames => AllRoomy(h, MergeAdd(name, l))
    BY <1>1, RoomyOp DEF MergeAdd
<1>4. \A code, name, l, place, aux : name \notin FileNames => AllRoomy(h, InPlace(code, name, l, place, aux))
    BY <1>1, RoomyOp DEF InPlace
<1>5. \A name, l, in, out, weight, experts, active :
          Room(h, name, weight) => AllRoomy(h, Matmul(name, l, in, out, weight, experts, active))
    BY RoomyOp DEF Matmul
<1>6. ASSUME NEW pre, NEW name, NEW l, NEW in, NEW out, NEW weight, NEW columns,
             pre \notin FileNames, Room(h, name, weight)
      PROVE  AllRoomy(h, Norm(pre, name, l, in, out, weight, columns))
    <2> DEFINE s == Op("INV_RMS", pre, l, Batch(in), Batch(Buffer("inv_rms")), Size0, [columns |-> columns])
               t == Op("RMS_NORM", name, l, Batch(in), Batch(out), weight,
                       [inv |-> Buffer("inv_rms"), columns |-> columns])
    <2>1. AllRoomy(h, s) /\ AllRoomy(h, t)
        BY <1>1, <1>6, RoomyOp
    <2>2. Norm(pre, name, l, in, out, weight, columns) = s \o t
        BY DEF Norm
    <2> HIDE DEF s, t
    <2>. QED
        BY <2>1, <2>2, RoomyConcat
<1>. QED
    BY <1>1, <1>2, <1>3, <1>4, <1>5, <1>6

\* The operators that have a weight have room for it.
LEMMA RoomForWeights ==
    ASSUME NEW h \in Headers
    PROVE  /\ Room(h, "embedding", Size2(F32, h.vocab, h.dim))
           /\ Room(h, "block_matmul_q", QSlice(h).size)
           /\ Room(h, "block_matmul_k", KSlice(h).size) /\ Room(h, "block_matmul_v", KSlice(h).size)
           /\ Room(h, "block_matmul_wo", WoSlice(h).size)
           /\ Room(h, "block_matmul_w1", W1Slice(h).size) /\ Room(h, "block_matmul_w3", W1Slice(h).size)
           /\ Room(h, "block_matmul_w2", W2Slice(h).size)
           /\ Room(h, "block_moe_gate", Size2(F32, h.dim, h.experts))
           /\ Room(h, "block_norm_q", HeadNormSize) /\ Room(h, "block_norm_k", HeadNormSize)
           /\ Room(h, "block_norm_0", NormSize(h)) /\ Room(h, "block_norm_1", NormSize(h))
           /\ Room(h, "final_norm", NormSize(h))
           /\ Room(h, "final_matmul_logits", WclsSlice(h).size)
           /\ h.experts > 0 => \A name \in ExpertNames : \A size : Room(h, name, size)
<1>1. /\ h.dim \in Nat /\ h.qDim \in Nat /\ h.kvDim \in Nat /\ h.ffDim \in Nat /\ h.vocab \in Nat
      /\ h.experts \in Nat /\ h.nodes \in Nat /\ h.nodes > 0
    BY HeaderAssumption
<1> DEFINE q == h.qDim \div h.nodes
           k == h.kvDim \div h.nodes
           f == h.ffDim \div h.nodes
           v == h.vocab \div h.nodes
<1>2. q \in Nat /\ k \in Nat /\ f \in Nat /\ v \in Nat
    BY <1>1, Division
<1>3. \A ft, y, x : y \in Nat /\ x \in Nat => Length(Size2(ft, y, x)) = x * y /\ Length(Size2(ft, y, x)) = y * x
    BY DEF Length, Size2, Size3
<1>4. /\ QSlice(h).size = Size2(h.weight, h.dim, q) /\ KSlice(h).size = Size2(h.weight, h.dim, k)
      /\ WoSlice(h).size = Size2(h.weight, q, h.dim) /\ W1Slice(h).size = Size2(h.weight, h.dim, f)
      /\ W2Slice(h).size = Size2(h.weight, f, h.dim) /\ WclsSlice(h).size = Size2(h.weight, h.dim, v)
    BY DEF QSlice, KSlice, WoSlice, W1Slice, W2Slice, WclsSlice, RowSlice, ColSlice
<1>5. /\ PartLength(h, "embedding") = h.vocab * h.dim
      /\ PartLength(h, "block_matmul_q") = q * h.dim
      /\ PartLength(h, "block_matmul_k") = k * h.dim /\ PartLength(h, "block_matmul_v") = k * h.dim
      /\ PartLength(h, "block_matmul_w1") = f * h.dim /\ PartLength(h, "block_matmul_w3") = f * h.dim
      /\ PartLength(h, "final_matmul_logits") = v * h.dim
    BY DEF PartLength, PartRows, PartCols, HowOf, RowsOf, ColsOf, RowNames, ColNames
<1>6. /\ PartLength(h, "block_matmul_wo") = h.dim * q
      /\ PartLength(h, "block_matmul_w2") = h.dim * f
      /\ PartLength(h, "block_moe_gate") = h.experts * h.dim
      /\ PartLength(h, "block_norm_q") = 1 * 1 /\ PartLength(h, "block_norm_k") = 1 * 1
      /\ PartLength(h, "block_norm_0") = 1 * h.dim /\ PartLength(h, "block_norm_1") = 1 * h.dim
      /\ PartLength(h, "final_norm") = 1 * h.dim
    BY DEF PartLength, PartRows, PartCols, HowOf, RowsOf, ColsOf, RowNames, ColNames
<1> HIDE DEF q, k, f, v
<1>7. h.experts > 0 => \A name \in ExpertNames : \A size : Room(h, name, size)
    BY DEF Room
<1>8. HeadNormSize = Size2(F32, 1, 1) /\ NormSize(h) = Size2(F32, 1, h.dim)
    BY DEF HeadNormSize, NormSize
<1>. QED
    BY <1>1, <1>2, <1>3, <1>4, <1>5, <1>6, <1>7, <1>8 DEF Room

\* Operators with names that are in no file.
LEMMA OtherNames ==
    {"block_cast_x", "block_merge_add", "block_norm_pre_0", "block_cast_y", "block_norm_pre_q",
     "block_norm_pre_k", "block_rope_q", "block_rope_k", "block_shift_k", "block_shift_v",
     "block_multihead_att", "block_cast_y2", "block_cast_d", "block_cast_y3", "block_act", "block_mul",
     "block_cast_d2", "block_moe_y_repeat", "block_moe_softmax", "block_moe_gate2", "block_moe_scale",
     "block_moe_merge_sum", "block_merge_add2", "block_norm_pre_1", "block_cast_d3",
     "final_merge_add", "final_norm_pre", "final_cast_y", "final_cast_logits"} \cap FileNames = {}
  BY DEF FileNames, RowNames, ColNames, WholeNames

LEMMA AttOpsRoomy ==
    ASSUME NEW h \in Headers, NEW node, NEW l PROVE AllRoomy(h, AttOps(h, node, l))
<1>1. \A name \in {"block_cast_x", "block_merge_add", "block_norm_pre_0", "block_cast_y", "block_norm_pre_q",
                   "block_norm_pre_k", "block_rope_q", "block_rope_k", "block_shift_k", "block_shift_v",
                   "block_multihead_att", "block_cast_y2", "block_cast_d"} : name \notin FileNames
    BY OtherNames
<1>2. \A name, code, in, out, weight, aux : name \notin FileNames => AllRoomy(h, Op(code, name, l, in, out, weight, aux))
    BY RoomyOp, RoomyMade
<1> DEFINE start == IF l = 0 THEN Cast("block_cast_x", l, Batch(Pipe("X")), Batch(Buffer("x")))
                             ELSE MergeAdd("block_merge_add", l)
           heads == Norm("block_norm_pre_q", "block_norm_q", l, Buffer("q"), Buffer("q"),
                         HeadNormSize, QNormCols(h))
                    \o Norm("block_norm_pre_k", "block_norm_k", l, Buffer("k_temp"), Buffer("k_temp"),
                            HeadNormSize, KNormCols(h))
           Rope(name, place, isQ) ==
               InPlace("ROPE", name, l, place,
                       [isQ |-> isQ, cache |-> Buffer("rope_cache"), slice |-> RopeSlice(h, node)])
           Shift(name, from, to) ==
               Op("SHIFT", name, l, Batch(Buffer(from)), Raw(LayerBuffer(to, l)), Size0, NoAux)
           Project(name, to, slice) == Matmul(name, l, YQ(h), Buffer(to), slice.size, 0, 0)
           att == Op("MULTIHEAD_ATT", "block_multihead_att", l,
                     BatchedSlice(Buffer("z")), BatchedSlice(Buffer("z")), Size0,
                     [heads |-> AttSlice(h).heads, heads0 |-> AttSlice(h).heads0,
                      kvHeads |-> h.kvHeads, kvDim0 |-> KvDim0(h), query |-> Buffer("q"),
                      key |-> LayerBuffer("k", l), value |-> LayerBuffer("v", l)])
           norm == Norm("block_norm_pre_0", "block_norm_0", l, Buffer("x"), Buffer("y"), NormSize(h), 1)
           castY == If(Quantised(h), Cast("block_cast_y", l, Batch(Buffer("y")), Batch(YQ(h))))
           castZ == Cast("block_cast_y2", l, BatchedSlice(Buffer("z")), Batch(Buffer("q_z_slice")))
           wo == Matmul("block_matmul_wo", l, Buffer("q_z_slice"), Buffer("y"), WoSlice(h).size, 0, 0)
           castD == Cast("block_cast_d", l, Batch(Buffer("y")), BatchedSlice(Pipe("ZQ")))
<1>3. AllRoomy(h, start) /\ AllRoomy(h, heads)
    BY <1>1, RoomForWeights, RoomyMade, RoomyConcat
<1>4. /\ AllRoomy(h, Project("block_matmul_q", "q", QSlice(h)))
      /\ AllRoomy(h, Project("block_matmul_k", "k_temp", KSlice(h)))
      /\ AllRoomy(h, Project("block_matmul_v", "v_temp", KSlice(h)))
    BY RoomForWeights, RoomyMade
<1>5. /\ AllRoomy(h, Rope("block_rope_q", Buffer("q"), TRUE))
      /\ AllRoomy(h, Rope("block_rope_k", Buffer("k_temp"), FALSE))
      /\ AllRoomy(h, Shift("block_shift_k", "k_temp", "k"))
      /\ AllRoomy(h, Shift("block_shift_v", "v_temp", "v"))
      /\ AllRoomy(h, att)
    BY <1>1, <1>2, RoomyMade
<1>6. /\ AllRoomy(h, norm) /\ AllRoomy(h, castY) /\ AllRoomy(h, castZ)
      /\ AllRoomy(h, wo) /\ AllRoomy(h, castD)
    BY <1>1, RoomForWeights, RoomyMade, RoomyIf
<1>7. AttOps(h, node, l) =
             start \o norm \o castY
          \o Project("block_matmul_q", "q", QSlice(h))
          \o Project("block_matmul_k", "k_temp", KSlice(h))
          \o Project("block_matmul_v", "v_temp", KSlice(h))
          \o If(Qwen(h), heads)
          \o Rope("block_rope_q", Buffer("q"), TRUE)
          \o Rope("block_rope_k", Buffer("k_temp"), FALSE)
          \o Shift("block_shift_k", "k_temp", "k")
          \o Shift("block_shift_v", "v_temp", "v")
          \o att \o castZ \o wo \o castD
    BY DEF AttOps
<1>8. AllRoomy(h, If(Qwen(h), heads))
    BY <1>3, RoomyIf
<1> HIDE DEF start, heads, Rope, Shift, Project, att, norm, castY, castZ, wo, castD
<1>. QED
    BY <1>3, <1>4, <1>5, <1>6, <1>7, <1>8, RoomyConcat

LEMMA DenseOpsRoomy ==
    ASSUME NEW h \in Headers, NEW l PROVE AllRoomy(h, DenseOps(h, l))
<1>1. \A name \in {"block_cast_y3", "block_act", "block_mul", "block_cast_d2"} : name \notin FileNames
    BY OtherNames
<1>. QED
    BY <1>1, RoomForWeights, RoomyMade, RoomyConcat, RoomyIf DEF DenseOps

LEMMA MoeOpsRoomy ==
    ASSUME NEW h \in Headers, h.experts > 0, NEW l PROVE AllRoomy(h, MoeOps(h, l))
<1>1. \A name \in {"block_act", "block_mul", "block_cast_d2", "block_moe_y_repeat", "block_moe_softmax",
                   "block_moe_gate2", "block_moe_scale", "block_moe_merge_sum"} : name \notin FileNames
    BY OtherNames
<1>2. \A name, code, in, out, weight, aux : name \notin FileNames => AllRoomy(h, Op(code, name, l, in, out, weight, aux))
    BY RoomyOp, RoomyMade
<1>3. \A size : /\ Room(h, "block_matmul_w1", size) /\ Room(h, "block_matmul_w2", size)
                /\ Room(h, "block_matmul_w3", size)
    BY RoomForWeights DEF ExpertNames
<1> DEFINE Experts(name, in, out, size) ==
               Matmul(name, l, in, out, [size EXCEPT !.z = h.experts], h.experts, h.active)
           repeat == Op("REPEAT_Z", "block_moe_y_repeat", l, Batch(Buffer("y")), Batch(MoeYQ(h)), Size0, NoAux)
           gate == Matmul("block_moe_gate", l, Buffer("y"), Buffer("gt"), Size2(F32, h.dim, h.experts), 0, 0)
           softmax == InPlace("SOFTMAX", "block_moe_softmax", l, Buffer("gt"), NoAux)
           choose == Op("MOE_GATE", "block_moe_gate2", l, Batch(Buffer("gt")), Batch(Buffer("moe_s")),
                        Size0, [k |-> h.active, indexes |-> Buffer("act_exp_ix")])
           w1 == Experts("block_matmul_w1", MoeYQ(h), Buffer("moe_d"), W1Slice(h).size)
           w3 == Experts("block_matmul_w3", MoeYQ(h), Buffer("moe_l"), W1Slice(h).size)
           w2 == Experts("block_matmul_w2", MoeDQ(h), Buffer("moe_y"), W2Slice(h).size)
           act == InPlace("SILU", "block_act", l, Buffer("moe_d"), NoAux)
           mul == InPlace("MUL", "block_mul", l, Buffer("moe_d"), [multiplier |-> Buffer("moe_l")])
           cast == If(Quantised(h), Cast("block_cast_d2", l, Batch(Buffer("moe_d")), Batch(MoeDQ(h))))
           scale == InPlace("SCALE", "block_moe_scale", l, Buffer("moe_y"), [scale |-> Buffer("moe_s")])
           sum == Op("MERGE_SUM", "block_moe_merge_sum", l, Batch(Buffer("moe_y")), Batch(Buffer("y")),
                     Size0, NoAux)
<1>4. AllRoomy(h, repeat) /\ AllRoomy(h, choose) /\ AllRoomy(h, sum)
    BY <1>1, <1>2
<1>5. AllRoomy(h, gate)
    BY RoomForWeights, RoomyMade
<1>6. AllRoomy(h, softmax) /\ AllRoomy(h, act) /\ AllRoomy(h, mul) /\ AllRoomy(h, scale)
    BY <1>1, RoomyMade
<1>7. AllRoomy(h, w1) /\ AllRoomy(h, w3) /\ AllRoomy(h, w2)
    BY <1>3, RoomyMade
<1>8. AllRoomy(h, cast)
    BY <1>1, RoomyMade, RoomyIf
<1>9. MoeOps(h, l) = repeat \o gate \o softmax \o choose \o w1 \o w3 \o act \o mul \o cast
                     \o w2 \o scale \o sum
    BY DEF MoeOps
<1> HIDE DEF repeat, gate, softmax, choose, w1, w3, w2, act, mul, cast, scale, sum
<1>. QED
    BY <1>4, <1>5, <1>6, <1>7, <1>8, <1>9, RoomyConcat

\* A mixture of experts has experts.
ExpertsInMixtures == \A h \in Headers : h.arch = "QWEN3_MOE" => h.experts > 0

LEMMA FfOpsRoomy ==
    ASSUME ExpertsInMixtures, NEW h \in Headers, NEW l PROVE AllRoomy(h, FfOps(h, l))
<1>1. \A name \in {"block_merge_add2", "block_norm_pre_1", "block_cast_d3"} : name \notin FileNames
    BY OtherNames
<1> DEFINE ops == IF h.arch = "QWEN3_MOE" THEN MoeOps(h, l) ELSE DenseOps(h, l)
<1>2. AllRoomy(h, ops)
    BY MoeOpsRoomy, DenseOpsRoomy DEF ExpertsInMixtures
<1>3. FfOps(h, l) = MergeAdd("block_merge_add2", l)
          \o Norm("block_norm_pre_1", "block_norm_1", l, Buffer("x"), Buffer("y"), NormSize(h), 1)
          \o ops
          \o Cast("block_cast_d3", l, Batch(Buffer("y")), BatchedSlice(Pipe("ZQ")))
    BY DEF FfOps
<1> HIDE DEF ops
<1>. QED
    BY <1>1, <1>2, <1>3, RoomForWeights, RoomyMade, RoomyConcat

LEMMA StartOpsRoomy ==
    ASSUME NEW h \in Headers, NEW node PROVE AllRoomy(h, StartOps(h, node))
  BY RoomForWeights, RoomyOp, RoomyIf DEF StartOps

LEMMA EndOpsRoomy ==
    ASSUME NEW h \in Headers PROVE AllRoomy(h, EndOps(h))
<1>1. \A name \in {"final_merge_add", "final_norm_pre", "final_cast_y", "final_cast_logits"} : name \notin FileNames
    BY OtherNames
<1>. QED
    BY <1>1, RoomForWeights, RoomyMade, RoomyConcat, RoomyIf DEF EndOps

\* Whose operators the segments are.
LEMMA OpsOfSegments ==
    ASSUME NEW h, h.layers \in Nat, NEW node, NEW k \in 1..Len(Segments(h, node))
    PROVE  LET ops == Segments(h, node)[k].ops
           IN  \/ ops = StartOps(h, node)
               \/ ops = EndOps(h)
               \/ \E l : ops = AttOps(h, node, l) \/ ops = FfOps(h, l)
<1> DEFINE Segment(ops, place, type) == [ops |-> ops, syncs |-> <<[pipe |-> place, type |-> type]>>]
           Layer(i) == IF i % 2 = 1
                       THEN Segment(AttOps(h, node, i \div 2), Pipe("ZQ"), "NODE_SLICES")
                       ELSE Segment(FfOps(h, i \div 2 - 1), Pipe("ZQ"), "NODE_SLICES")
           first == <<Segment(StartOps(h, node), Pipe("X"), "WITH_ROOT")>>
           n == 2 * h.layers
           layers == [i \in 1..n |-> Layer(i)]
           last == <<Segment(EndOps(h), Pipe("LG"), "NODE_SLICES_EXCEPT_ROOT")>>
           Whose(s) == \/ s.ops = StartOps(h, node)
                       \/ s.ops = EndOps(h)
                       \/ \E l : s.ops = AttOps(h, node, l) \/ s.ops = FfOps(h, l)
           All(s) == \A i \in 1..Len(s) : Whose(s[i])
<1>1. Segments(h, node) = (first \o layers) \o last
    BY DEF Segments
<1>2. \A ops, place, type : Segment(ops, place, type).ops = ops
    OBVIOUS
<1> HIDE DEF Segment
<1>3. \A i \in 1..n : Whose(Layer(i))
    BY <1>2
<1>4. Whose(first[1]) /\ Whose(last[1])
    BY <1>2
<1>5. IsList(first) /\ Len(first) = 1 /\ IsList(last) /\ Len(last) = 1
    BY OneAndRest, EmptyList
<1>6. n \in Nat
    OBVIOUS
<1> HIDE DEF Layer, n, Whose
<1>7. IsList(layers) /\ Len(layers) = n
    BY <1>6, Listed
<1>8. All(first) /\ All(layers) /\ All(last)
    <2>1. All(layers)
        BY <1>3, <1>7
    <2>2. All(first) /\ All(last)
        <3> HIDE DEF first, last
        <3>. QED
            BY <1>4, <1>5
    <2>. QED
        BY <2>1, <2>2
<1> HIDE DEF first, layers, last
<1>9. ASSUME NEW s, NEW t, IsList(s), IsList(t), All(s), All(t) PROVE All(s \o t)
    BY <1>9, ConcatElements
<1>10. IsList(first \o layers)
    BY <1>5, <1>7, ConcatList
<1>11. All((first \o layers) \o last)
    BY <1>5, <1>7, <1>8, <1>9, <1>10
<1>12. Whose(Segments(h, node)[k])
    BY <1>1, <1>11
<1>. QED
    BY <1>12 DEF Whose

LEMMA OpsRoomy ==
    ASSUME ExpertsInMixtures, NEW h \in Headers, NEW w, NEW i \in 1..Len(Ops(h, w))
    PROVE  Roomy(h, Ops(h, w)[i])
<1> DEFINE lists == [k \in 1..Len(Segments(h, w)) |-> Segments(h, w)[k].ops]
<1>0. h.layers \in Nat
    BY HeaderAssumption
<1>1. AreLists(lists) /\ Ops(h, w) = FlattenSeq(lists)
    BY <1>0, OpsLists
<1>2. Len(lists) = Len(Segments(h, w))
    <2>1. Len(Segments(h, w)) \in Nat
        BY <1>0, SegmentsLists, ListFacts
    <2>2. lists = [k \in 1..Len(Segments(h, w)) |-> lists[k]]
        OBVIOUS
    <2> HIDE DEF lists
    <2>. QED
        BY <2>1, <2>2, Listed
<1>3. \A k \in 1..Len(Segments(h, w)) : AllRoomy(h, Segments(h, w)[k].ops)
    BY <1>0, OpsOfSegments, AttOpsRoomy, FfOpsRoomy, StartOpsRoomy, EndOpsRoomy
<1>4. PICK k \in 1..Len(lists) : \E j \in 1..Len(lists[k]) : Ops(h, w)[i] = lists[k][j]
    <2> HIDE DEF lists
    <2>. QED
        BY <1>1, FlattenElements
<1>. QED
    BY <1>2, <1>3, <1>4 DEF AllRoomy

-----------------------------------------------------------------------------
\* Putting a part in its place.

\* The part of a weight of the file, as far as it is not of an expert.
LEMMA FiledPart ==
    ASSUME hdr \in Headers, NEW x, Filed(hdr, x)
    PROVE  /\ Sized(x) /\ OwnRows(x) = PartRows(hdr, x.name) /\ OwnCols(x) = PartCols(hdr, x.name)
           /\ \A n \in Nodes : DOMAIN Part(hdr, x, n) = 0..(PartLength(hdr, x.name) - 1)
<1>1. x.how = HowOf(x.name) /\ x.rows = RowsOf(hdr, x.name) /\ x.cols = ColsOf(hdr, x.name)
    BY DEF Filed
<1>2. HowOf(x.name) \in {"all", "row", "col"}
    BY DEF HowOf
<1>3. RowsOf(hdr, x.name) \in Nat /\ ColsOf(hdr, x.name) \in Nat
    BY PartNumbers
<1>4. Sized(x)
    BY <1>1, <1>2, <1>3, HeaderAssumption DEF Sized
<1>5. OwnRows(x) = PartRows(hdr, x.name) /\ OwnCols(x) = PartCols(hdr, x.name)
    BY <1>1 DEF OwnRows, OwnCols, PartRows, PartCols
<1>. QED
    BY <1>4, <1>5, PartUnits DEF PartLength

LEMMA OfFile ==
    ASSUME hdr \in Headers, NEW x \in File[hdr] PROVE Filed(hdr, x)
<1>1. AllFiled(hdr, Weights(hdr))
    BY WeightsFiled, HeaderAssumption
<1>2. PICK i \in DOMAIN Weights(hdr) : x = Weights(hdr)[i]
    BY DEF File, ToSet
<1>3. DOMAIN Weights(hdr) = 1..Len(Weights(hdr))
    BY <1>1, ListFacts DEF AllFiled
<1>. QED
    BY <1>1, <1>2, <1>3 DEF AllFiled

\* Weights of one name that are not of experts have the same part.
LEMMA PlainWeight ==
    ASSUME hdr \in Headers, NEW x, Filed(hdr, x), ~ OfExperts(x)
    PROVE  x.expert = 0 /\ (x.name \in ExpertNames => hdr.experts = 0)
<1>1. hdr.experts = 0 \/ x.name \notin ExpertNames
    BY HeaderAssumption DEF OfExperts, ExpertNames
<1>. QED
    BY <1>1 DEF Filed

LEMMA SamePart ==
    ASSUME hdr \in Headers, NEW x \in File[hdr], NEW y \in File[hdr], x.name = y.name, ~ OfExperts(x), NEW n
    PROVE  ~ OfExperts(y) /\ Part(hdr, x, n) = Part(hdr, y, n)
<1>1. ~ OfExperts(y)
    BY DEF OfExperts
<1>2. x.how = y.how /\ x.rows = y.rows /\ x.cols = y.cols /\ x.expert = y.expert
    BY <1>1, OfFile, PlainWeight DEF Filed
<1>. QED
    BY <1>1, <1>2 DEF Part, SplitRow, SplitCol

\* A node allocates as much for a weight as its part has.
LEMMA AllocatedIs ==
    ASSUME NEW h \in Headers, NEW n \in NodesOf(h), NEW key \in DOMAIN Allocated[h][n]
    PROVE  \E i \in 1..Len(Ops(h, n)) :
               /\ key = <<Ops(h, n)[i].name, Ops(h, n)[i].index>>
               /\ DOMAIN Allocated[h][n][key] = 0..(Length(Ops(h, n)[i].weight) - 1)
<1> DEFINE ops == Ops(h, n)
           S == ToSet(ops)
           Size(k) == Length((CHOOSE op \in S : <<op.name, op.index>> = k).weight)
           keys == {<<op.name, op.index>> : op \in S}
           A == [k \in keys |-> [i \in 0..(Size(k) - 1) |-> Unset]]
           c == CHOOSE op \in S : <<op.name, op.index>> = key
<1>1. Allocated[h][n] = A
    BY DEF Allocated
<1>2. IsList(ops) /\ DOMAIN ops = 1..Len(ops)
    BY OpsLists, HeaderAssumption, ListFacts
<1>3. key \in keys
    <2> HIDE DEF keys, Size
    <2>. QED
        BY <1>1
<1>4. c \in S /\ <<c.name, c.index>> = key
    BY <1>3
<1>5. DOMAIN A[key] = 0..(Size(key) - 1)
    <2> HIDE DEF keys, Size
    <2>. QED
        BY <1>3
<1>6. Size(key) = Length(c.weight)
    OBVIOUS
<1> HIDE DEF A, Size, c, ops
<1>7. PICK i \in DOMAIN ops : ops[i] = c
    BY <1>4 DEF ToSet
<1>. QED
    BY <1>1, <1>2, <1>4, <1>5, <1>6, <1>7 DEF ops

LEMMA AllocatedEnough ==
    ASSUME ExpertsInMixtures, hdr \in Headers, NEW n \in Nodes, NEW x \in File[hdr], ~ OfExperts(x),
           <<x.name, x.index>> \in DOMAIN Allocated[hdr][n]
    PROVE  DOMAIN Allocated[hdr][n][<<x.name, x.index>>] = DOMAIN Part(hdr, x, n)
<1> DEFINE key == <<x.name, x.index>>
<1>1. PICK i \in 1..Len(Ops(hdr, n)) :
               /\ key = <<Ops(hdr, n)[i].name, Ops(hdr, n)[i].index>>
               /\ DOMAIN Allocated[hdr][n][key] = 0..(Length(Ops(hdr, n)[i].weight) - 1)
    BY AllocatedIs DEF Nodes
<1>2. Ops(hdr, n)[i].name = x.name
    BY <1>1
<1>3. Roomy(hdr, Ops(hdr, n)[i])
    BY OpsRoomy
<1>4. Filed(hdr, x)
    BY OfFile
<1>5. x.name \in FileNames /\ (x.name \in ExpertNames => hdr.experts = 0)
    BY <1>4, PlainWeight DEF Filed
<1>6. Length(Ops(hdr, n)[i].weight) = PartLength(hdr, x.name)
    BY <1>2, <1>3, <1>5 DEF Roomy
<1>. QED
    BY <1>1, <1>4, <1>6, FiledPart

\* W has the buffers that A has, of the same sizes.
Like(A, W) ==
    /\ W = [key \in DOMAIN A |-> W[key]]
    /\ \A key \in DOMAIN A : W[key] = [i \in DOMAIN A[key] |-> W[key][i]]

\* The weights W of node n have all of its part of weight x, if it has room for it.
Has(h, n, W, x) ==
    <<x.name, x.index>> \in DOMAIN W =>
        \A i \in DOMAIN Part(h, x, n) : W[<<x.name, x.index>>][i] = Part(h, x, n)[i]

Put(W, key, part) ==
    IF key \in DOMAIN W
    THEN [W EXCEPT ![key] = [i \in DOMAIN W[key] |-> IF i \in DOMAIN part THEN part[i] ELSE W[key][i]]]
    ELSE W

LEMMA PutLike ==
    ASSUME NEW A, NEW W, Like(A, W), NEW key, NEW part
    PROVE  /\ Like(A, Put(W, key, part))
           /\ \A k \in DOMAIN A : k # key => Put(W, key, part)[k] = W[k]
           /\ key \in DOMAIN A => \A i \in DOMAIN A[key] :
                  Put(W, key, part)[key][i] = IF i \in DOMAIN part THEN part[i] ELSE W[key][i]
<1>1. CASE key \in DOMAIN A
    <2> DEFINE v == [i \in DOMAIN A[key] |-> IF i \in DOMAIN part THEN part[i] ELSE W[key][i]]
               V == [W EXCEPT ![key] = v]
    <2>1. W = [k \in DOMAIN A |-> W[k]] /\ DOMAIN W = DOMAIN A /\ DOMAIN W[key] = DOMAIN A[key]
        BY <1>1 DEF Like
    <2>2. Put(W, key, part) = V
        BY <1>1, <2>1 DEF Put
    <2> HIDE DEF v
    <2>3. /\ V = [k \in DOMAIN A |-> V[k]]
          /\ V[key] = v
          /\ \A k \in DOMAIN A : k # key => V[k] = W[k]
        BY <1>1, <2>1, Updated
    <2> HIDE DEF V
    <2>4. /\ v = [i \in DOMAIN A[key] |-> v[i]]
          /\ \A i \in DOMAIN A[key] : v[i] = IF i \in DOMAIN part THEN part[i] ELSE W[key][i]
        BY DEF v
    <2>5. \A k \in DOMAIN A : V[k] = [i \in DOMAIN A[k] |-> V[k][i]]
        BY <2>3, <2>4 DEF Like
    <2>. QED
        BY <2>2, <2>3, <2>4, <2>5 DEF Like
<1>2. CASE key \notin DOMAIN A
    BY <1>2 DEF Like, Put
<1>. QED
    BY <1>1, <1>2

LEMMA PutHas ==
    ASSUME ExpertsInMixtures, hdr \in Headers, NEW n \in Nodes, NEW W, Like(Allocated[hdr][n], W),
           NEW y \in File[hdr], NEW x \in File[hdr], ~ OfExperts(x), Has(hdr, n, W, x) \/ x = y
    PROVE  Has(hdr, n, Put(W, <<y.name, y.index>>, Part(hdr, y, n)), x)
<1> DEFINE A == Allocated[hdr][n]
           a == <<x.name, x.index>>
           b == <<y.name, y.index>>
           p == Part(hdr, x, n)
           q == Part(hdr, y, n)
           V == Put(W, b, q)
<1>0. ASSUME NEW U, Like(A, U) PROVE DOMAIN U = DOMAIN A
    <2> HIDE DEF A
    <2>1. U = [key \in DOMAIN A |-> U[key]]
        BY <1>0 DEF Like
    <2>. QED
        BY <2>1
<1>1. Like(A, W) /\ Like(A, V) /\ DOMAIN V = DOMAIN A /\ DOMAIN W = DOMAIN A
    <2>1. Like(A, W) /\ Like(A, V)
        BY PutLike
    <2> HIDE DEF A, V
    <2>. QED
        BY <1>0, <2>1
<1>2. (\A k \in DOMAIN A : k # b => V[k] = W[k])
      /\ (b \in DOMAIN A => \A i \in DOMAIN A[b] : V[b][i] = IF i \in DOMAIN q THEN q[i] ELSE W[b][i])
    BY PutLike
<1>3. SUFFICES ASSUME a \in DOMAIN A, NEW i \in DOMAIN p PROVE V[a][i] = p[i]
    BY <1>1 DEF Has
<1>4. DOMAIN A[a] = DOMAIN p
    BY <1>3, AllocatedEnough
<1>5. CASE a = b
    <2>1. x.name = y.name
        BY <1>5
    <2>2. p = q
        BY <2>1, SamePart
    <2> HIDE DEF A, a, b, p, q, V
    <2>. QED
        BY <1>2, <1>3, <1>4, <1>5, <2>2
<1>6. CASE a # b
    <2>1. V[a] = W[a]
        BY <1>2, <1>3, <1>6
    <2>2. x # y
        BY <1>6
    <2>. QED
        BY <1>1, <1>3, <2>1, <2>2 DEF Has
<1>. QED
    BY <1>5, <1>6

\* load_weight at offset 0.
LEMMA LoadIsPut ==
    ASSUME hdr \in Headers, NEW n \in Nodes, weights = [m \in Nodes |-> weights[m]],
           Like(Allocated[hdr][n], weights[n]), NEW key, NEW part, LoadWeight(n, key, 0, part)
    PROVE  /\ weights' = [m \in Nodes |-> weights'[m]]
           /\ weights'[n] = Put(weights[n], key, part)
           /\ \A m \in Nodes : m # n => weights'[m] = weights[m]
<1> DEFINE W == weights[n]
           A == Allocated[hdr][n]
           v == [i \in DOMAIN W[key] |-> IF (i - 0) \in DOMAIN part THEN part[i - 0] ELSE W[key][i]]
           u == [i \in DOMAIN W[key] |-> IF i \in DOMAIN part THEN part[i] ELSE W[key][i]]
<1>1. CASE key \in DOMAIN W
    <2>1. weights' = [weights EXCEPT ![n][key] = v]
        BY <1>1 DEF LoadWeight
    <2>2. key \in DOMAIN A /\ DOMAIN W[key] = DOMAIN A[key]
        BY <1>1 DEF Like
    <2>3. \A i \in DOMAIN A[key] : i \in Int
        <3>1. PICK i \in 1..Len(Ops(hdr, n)) : DOMAIN A[key] = 0..(Length(Ops(hdr, n)[i].weight) - 1)
            BY <2>2, AllocatedIs DEF Nodes
        <3>. QED
            BY <3>1
    <2>4. \A i \in DOMAIN W[key] : i - 0 = i
        BY <2>2, <2>3
    <2>5. v = u
        BY <2>4
    <2> DEFINE V == [W EXCEPT ![key] = u]
    <2>6. Put(W, key, part) = V
        BY <1>1 DEF Put
    <2>7. weights' = [weights EXCEPT ![n] = V]
        <3> HIDE DEF v, u
        <3>. QED
            BY <2>1, <2>5
    <2> HIDE DEF V, u, v
    <2>. QED
        BY <2>6, <2>7, Updated
<1>2. CASE key \notin DOMAIN W
    BY <1>2 DEF LoadWeight, Put
<1>. QED
    BY <1>1, <1>2

-----------------------------------------------------------------------------
\* What a worker is sent of the weights behind the k-th: the fields of each,
\* then the end mark.
From(h, ws, v, k) ==
    FlattenSeq([i \in 1..(Len(ws) - k) |-> FieldsOf(h, ws[k + i], v)]) \o <<Field("name", EndMark)>>

LEMMA FieldsFive ==
    ASSUME NEW h, NEW x, NEW v
    PROVE  /\ IsList(FieldsOf(h, x, v)) /\ Len(FieldsOf(h, x, v)) = 5
           /\ FieldsOf(h, x, v)[1] = Field("name", x.name)
           /\ FieldsOf(h, x, v)[2] = Field("index", x.index)
           /\ FieldsOf(h, x, v)[3] = Field("offset", ExpertIndex(x) * Cardinality(DOMAIN Part(h, x, v)))
           /\ FieldsOf(h, x, v)[4] = Field("nBytes", Cardinality(DOMAIN Part(h, x, v)))
           /\ FieldsOf(h, x, v)[5] = Field("bytes", Part(h, x, v))
  BY Tuple5a DEF FieldsOf

LEMMA FromLists ==
    ASSUME NEW h, NEW ws, IsList(ws), NEW v, NEW k \in 0..Len(ws)
    PROVE  /\ AreLists([i \in 1..(Len(ws) - k) |-> FieldsOf(h, ws[k + i], v)])
           /\ IsList(From(h, ws, v, k)) /\ From(h, ws, v, k) # <<>>
           /\ k = Len(ws) => From(h, ws, v, k) = <<Field("name", EndMark)>>
<1> DEFINE n == Len(ws) - k
           F(x) == FieldsOf(h, x, v)
           ss == [i \in 1..n |-> F(ws[k + i])]
           end == <<Field("name", EndMark)>>
           f == FlattenSeq(ss)
<1>1. n \in Nat
    BY ListFacts
<1>2. \A x : IsList(F(x))
    BY FieldsFive
<1> HIDE DEF n, F
<1>3. IsList(ss) /\ Len(ss) = n
    BY <1>1, Listed
<1>4. AreLists(ss)
    BY <1>2, <1>3 DEF AreLists
<1>5. IsList(f)
    BY <1>4, FlattenList
<1>6. IsList(end) /\ end # <<>>
    BY OneAndRest, EmptyList
<1>7. From(h, ws, v, k) = f \o end
    BY DEF From, F, n
<1>8. n = 0 => f = <<>>
    <2>1. n = 0 => ss = <<>>
        BY <1>3, ListFacts
    <2>. QED
        BY <2>1, FlattenNone
<1>9. IsList(f \o end) /\ f \o end # <<>>
    <2> HIDE DEF f, end
    <2>. QED
        BY <1>5, <1>6, ConcatList, ConcatIsEmpty
<1>10. <<>> \o end = end
    BY <1>6, ConcatEmpty
<1>11. AreLists([i \in 1..(Len(ws) - k) |-> FieldsOf(h, ws[k + i], v)])
    BY <1>4 DEF F, n
<1>12. k = Len(ws) => n = 0
    <2>1. Len(ws) \in Nat
        BY ListFacts
    <2>. QED
        BY <2>1 DEF n
<1> HIDE DEF f, end
<1>13. k = Len(ws) => f \o end = end
    BY <1>8, <1>10, <1>12
<1>. QED
    BY <1>7, <1>9, <1>11, <1>13 DEF end

LEMMA FromNext ==
    ASSUME NEW h, NEW ws, IsList(ws), NEW v, NEW k \in 0..(Len(ws) - 1)
    PROVE  From(h, ws, v, k) = FieldsOf(h, ws[k + 1], v) \o From(h, ws, v, k + 1)
<1> DEFINE n == Len(ws) - k
           m == Len(ws) - (k + 1)
           F(x) == FieldsOf(h, x, v)
           ss == [i \in 1..n |-> F(ws[k + i])]
           tt == [i \in 1..m |-> F(ws[k + 1 + i])]
           end == <<Field("name", EndMark)>>
           f == FlattenSeq(tt)
           first == F(ws[k + 1])
<1>1. n \in Nat /\ m \in Nat /\ n = m + 1 /\ k \in 0..Len(ws) /\ k + 1 \in 0..Len(ws)
    <2>1. Len(ws) \in Nat
        BY ListFacts
    <2>. QED
        BY <2>1
<1>2. AreLists(ss) /\ AreLists(tt)
    BY <1>1, FromLists
<1>3. From(h, ws, v, k) = FlattenSeq(ss) \o end /\ From(h, ws, v, k + 1) = f \o end
    BY DEF From
<1>4. IsList(first)
    BY FieldsFive
<1> HIDE DEF n, m, F
<1>5. IsList(ss) /\ Len(ss) = n /\ IsList(tt) /\ Len(tt) = m
    BY <1>1, Listed
<1>6. ss = <<first>> \o tt
    <2> DEFINE u == <<first>>
    <2>1. IsList(u) /\ Len(u) = 1 /\ u[1] = first
        BY OneAndRest, EmptyList
    <2>2. ss[1] = first
        BY <1>1
    <2>3. ASSUME NEW i \in 1..m PROVE ss[1 + i] = tt[i]
        <3>1. 1 + i \in 1..n /\ k + (1 + i) = k + 1 + i
            BY <1>1
        <3>. QED
            BY <3>1
    <2> HIDE DEF u, ss, tt
    <2>4. \A i \in 1..Len(u) : ss[i] = u[i]
        BY <2>1, <2>2
    <2>5. \A i \in 1..Len(tt) : ss[Len(u) + i] = tt[i]
        BY <1>5, <2>1, <2>3
    <2>6. Len(ss) = Len(u) + Len(tt)
        BY <1>1, <1>5, <2>1
    <2>7. ss = u \o tt
        BY <1>5, <2>1, <2>4, <2>5, <2>6, ConcatIs
    <2>. QED
        BY <2>7 DEF u
<1> HIDE DEF ss, first
<1>7. FlattenSeq(ss) = first \o f
    <2> HIDE DEF tt
    <2>. QED
        BY <1>2, <1>4, <1>6, FlattenHead
<1>8. IsList(f) /\ IsList(end)
    BY <1>2, FlattenList, OneAndRest, EmptyList
<1> HIDE DEF f, end
<1>9. (first \o f) \o end = first \o (f \o end)
    BY ONLY <1>4, <1>8, ConcatRegroup
<1>. QED
    BY <1>3, <1>7, <1>9 DEF first, F

\* The offset of every weight is 0.
LEMMA OffsetZero ==
    ASSUME hdr \in Headers, NEW x, Filed(hdr, x), NEW n \in Nodes
    PROVE  ExpertIndex(x) * Cardinality(DOMAIN Part(hdr, x, n)) = 0
<1>1. DOMAIN Part(hdr, x, n) = 0..(PartLength(hdr, x.name) - 1)
    BY FiledPart
<1>2. PartLength(hdr, x.name) \in Nat
    BY PartNumbers DEF PartLength
<1> DEFINE c == Cardinality(DOMAIN Part(hdr, x, n))
<1>3. c \in Nat
    BY <1>1, <1>2, FS_Interval, FS_CardinalityType
<1> HIDE DEF c
<1>. QED
    BY <1>3 DEF ExpertIndex, c

\* A list from place j on, and the values of its first j fields.
Past(s, j) == [i \in 1..(Len(s) - j) |-> s[j + i]]
Values(s, j) == [i \in 1..j |-> s[i].val]

LEMMA PastList ==
    ASSUME NEW s, IsList(s), NEW j \in 0..Len(s)
    PROVE  /\ IsList(Past(s, j)) /\ Len(Past(s, j)) = Len(s) - j
           /\ \A i \in 1..(Len(s) - j) : Past(s, j)[i] = s[j + i]
<1> DEFINE n == Len(s) - j
           b == Past(s, j)
<1>1. n \in Nat
    BY ListFacts
<1>2. b = [i \in 1..n |-> b[i]] /\ \A i \in 1..n : b[i] = s[j + i]
    BY DEF Past
<1> HIDE DEF n, b
<1>3. IsList(b) /\ Len(b) = n
    BY <1>1, <1>2, Listed
<1>. QED
    BY <1>2, <1>3 DEF n, b

LEMMA PastNext ==
    ASSUME NEW s, IsList(s), NEW j \in 0..(Len(s) - 1)
    PROVE  /\ Past(s, j) # <<>> /\ Head(Past(s, j)) = s[j + 1]
           /\ Tail(Past(s, j)) = Past(s, j + 1)
<1> DEFINE m == Len(s)
           b == Past(s, j)
           c == Past(s, j + 1)
<1>1. m \in Nat /\ j \in Nat /\ j \in 0..m /\ j + 1 \in 0..m /\ j < m
    BY ListFacts
<1>2. IsList(b) /\ Len(b) = m - j /\ \A i \in 1..(m - j) : b[i] = s[j + i]
    BY <1>1, PastList
<1>3. IsList(c) /\ Len(c) = m - (j + 1) /\ \A i \in 1..(m - (j + 1)) : c[i] = s[j + 1 + i]
    BY <1>1, PastList
<1> HIDE DEF m, b, c
<1>4. b # <<>>
    BY <1>1, <1>2, ListFacts
<1> DEFINE t == Tail(b)
<1>5. IsList(t) /\ Len(t) = Len(b) - 1 /\ Head(b) = b[1] /\ \A i \in 1..Len(t) : t[i] = b[i + 1]
    BY <1>2, <1>4, HeadAndTail
<1> HIDE DEF t
<1>6. Len(t) = Len(c) /\ Head(b) = s[j + 1]
    <2>1. 1 \in 1..(m - j)
        BY <1>1
    <2>. QED
        BY <1>1, <1>2, <1>3, <1>5, <2>1
<1>7. ASSUME NEW i \in 1..Len(t) PROVE t[i] = c[i]
    <2>1. i + 1 \in 1..(m - j) /\ i \in 1..(m - (j + 1)) /\ j + (i + 1) = j + 1 + i
        BY <1>1, <1>2, <1>5
    <2>2. b[i + 1] = s[j + (i + 1)] /\ c[i] = s[j + 1 + i]
        BY <1>2, <1>3, <2>1
    <2>. QED
        BY <1>5, <2>1, <2>2
<1>8. t = c
    BY <1>3, <1>5, <1>6, <1>7, EqualLists
<1>. QED
    BY <1>4, <1>6, <1>8 DEF b, c, t

LEMMA PastAll == ASSUME NEW s, IsList(s) PROVE Past(s, Len(s)) = <<>>
<1> DEFINE b == Past(s, Len(s))
<1>1. Len(s) \in Nat /\ Len(s) \in 0..Len(s) /\ Len(s) - Len(s) = 0
    BY ListFacts
<1>2. IsList(b) /\ Len(b) = 0
    BY <1>1, PastList
<1> HIDE DEF b
<1>. QED
    BY <1>2, ListFacts DEF b

LEMMA ValuesNext ==
    ASSUME NEW s, NEW j \in Nat
    PROVE  Append(Values(s, j), s[j + 1].val) = Values(s, j + 1)
<1> DEFINE a == Values(s, j)
           b == Values(s, j + 1)
           n == j + 1
           e == s[j + 1].val
           o == <<e>>
<1>1. a = [i \in 1..j |-> a[i]] /\ \A i \in 1..j : a[i] = s[i].val
    BY DEF Values
<1>2. b = [i \in 1..n |-> b[i]] /\ (\A i \in 1..j : b[i] = s[i].val) /\ b[j + 1] = e /\ n \in Nat
    BY DEF Values
<1>3. IsList(o) /\ Len(o) = 1 /\ o[1] = e
    BY OneAndRest, EmptyList
<1> HIDE DEF a, b, o
<1>4. IsList(a) /\ Len(a) = j
    BY <1>1, Listed
<1> HIDE DEF n
<1>5. IsList(b) /\ Len(b) = n
    BY <1>2, Listed
<1>6. \A i \in 1..Len(a) : b[i] = a[i]
    BY <1>1, <1>2, <1>4
<1>7. \A i \in 1..Len(o) : b[Len(a) + i] = o[i]
    BY <1>2, <1>3, <1>4
<1>8. Len(b) = Len(a) + Len(o)
    BY <1>3, <1>4, <1>5 DEF n
<1>9. b = a \o o
    BY <1>3, <1>4, <1>5, <1>6, <1>7, <1>8, ConcatIs
<1>10. Append(a, e) = a \o o
    BY <1>4, AppendList DEF o
<1>. QED
    BY <1>9, <1>10 DEF a, b

\* In the middle of a weight: b has the values of the first fields, F follows
\* behind the others.
Amid(h, x, v, b, R, F) ==
    \E j \in 1..4 : /\ b = Values(FieldsOf(h, x, v), j)
                    /\ R = Past(FieldsOf(h, x, v), j) \o F

\* The worker has taken k weights: R is what it will still be sent, b what it
\* has read of a weight that is not complete, W its weights.
Taking(v, k, R, b, W) ==
    LET ws == Weights(hdr)
    IN  /\ k \in 0..Len(ws)
        /\ \A i \in 1..k : ~ OfExperts(ws[i]) => Has(hdr, v, W, ws[i])
        /\ \/ \E c : Within(c, ConfigKinds) /\ R = c \o From(hdr, ws, v, k)
           \/ k < Len(ws) /\ Amid(hdr, ws[k + 1], v, b, R, From(hdr, ws, v, k + 1))
           \/ k = Len(ws) /\ R = <<>>

LEMMA AmidStep ==
    ASSUME NEW h, NEW x, NEW v, NEW b, NEW R, NEW F, IsList(F), Amid(h, x, v, b, R, F)
    PROVE  /\ R # <<>>
           /\ Head(R).as \in {"index", "offset", "nBytes", "bytes"}
           /\ Head(R).as # "bytes" => Amid(h, x, v, Append(b, Head(R).val), Tail(R), F)
           /\ Head(R).as = "bytes" =>
                  /\ b[1] = x.name /\ b[2] = x.index
                  /\ b[3] = ExpertIndex(x) * Cardinality(DOMAIN Part(h, x, v))
                  /\ Head(R).val = Part(h, x, v) /\ Tail(R) = F
<1> DEFINE fs == FieldsOf(h, x, v)
<1>1. PICK j \in 1..4 : b = Values(fs, j) /\ R = Past(fs, j) \o F
    BY DEF Amid
<1>2. IsList(fs) /\ Len(fs) = 5
    BY FieldsFive
<1>3. /\ fs[2].as = "index" /\ fs[3].as = "offset" /\ fs[4].as = "nBytes" /\ fs[5].as = "bytes"
      /\ fs[1].val = x.name /\ fs[2].val = x.index
      /\ fs[3].val = ExpertIndex(x) * Cardinality(DOMAIN Part(h, x, v))
      /\ fs[5].val = Part(h, x, v)
    <2>1. /\ fs[1] = Field("name", x.name) /\ fs[2] = Field("index", x.index)
          /\ fs[3] = Field("offset", ExpertIndex(x) * Cardinality(DOMAIN Part(h, x, v)))
          /\ fs[4] = Field("nBytes", Cardinality(DOMAIN Part(h, x, v)))
          /\ fs[5] = Field("bytes", Part(h, x, v))
        BY FieldsFive
    <2> HIDE DEF fs
    <2>. QED
        BY <2>1 DEF Field
<1> HIDE DEF fs
<1> DEFINE z == Past(fs, j)
<1>4. IsList(z) /\ z # <<>> /\ Head(z) = fs[j + 1] /\ Tail(z) = Past(fs, j + 1)
    <2>1. j \in 0..Len(fs) /\ j \in 0..(Len(fs) - 1)
        BY <1>2
    <2>. QED
        BY <1>2, <2>1, PastList, PastNext
<1> HIDE DEF z
<1>5. R # <<>> /\ Head(R) = fs[j + 1] /\ Tail(R) = Past(fs, j + 1) \o F
    <2>1. z \o F # <<>> /\ Head(z \o F) = Head(z) /\ Tail(z \o F) = Tail(z) \o F
        BY <1>4, ConcatHead
    <2>. QED
        BY <1>1, <1>4, <2>1 DEF z
<1>6. j = 1 \/ j = 2 \/ j = 3 \/ j = 4
    OBVIOUS
<1>7. Head(R).as \in {"index", "offset", "nBytes", "bytes"} /\ (Head(R).as = "bytes" <=> j = 4)
    BY <1>3, <1>5, <1>6
<1>8. ASSUME j # 4 PROVE Amid(h, x, v, Append(b, Head(R).val), Tail(R), F)
    <2>1. j + 1 \in 1..4 /\ j \in Nat
        BY <1>6, <1>8
    <2>2. Append(b, Head(R).val) = Values(fs, j + 1)
        BY <1>1, <1>5, <2>1, ValuesNext
    <2>. QED
        BY <1>5, <2>1, <2>2 DEF Amid, fs
<1>9. ASSUME j = 4
      PROVE  Tail(R) = F /\ b[1] = fs[1].val /\ b[2] = fs[2].val /\ b[3] = fs[3].val /\ Head(R) = fs[5]
    <2>1. Past(fs, 5) = <<>> /\ <<>> \o F = F
        BY <1>2, PastAll, ConcatEmpty
    <2>2. j + 1 = 5
        BY <1>9
    <2>3. b[1] = fs[1].val /\ b[2] = fs[2].val /\ b[3] = fs[3].val
        BY <1>1, <1>9 DEF Values
    <2>. QED
        BY <1>5, <2>1, <2>2, <2>3
<1>. QED
    BY <1>3, <1>5, <1>7, <1>8, <1>9

LEMMA FileFacts ==
    ASSUME hdr \in Headers
    PROVE  /\ IsList(Weights(hdr)) /\ Len(Weights(hdr)) \in Nat
           /\ \A i \in 1..Len(Weights(hdr)) :
                  /\ Weights(hdr)[i] \in File[hdr] /\ Filed(hdr, Weights(hdr)[i])
                  /\ Weights(hdr)[i].name # EndMark
           /\ \A x \in File[hdr] : \E i \in 1..Len(Weights(hdr)) : x = Weights(hdr)[i]
<1> DEFINE ws == Weights(hdr)
<1>1. Named(ws)
    BY WeightsNamed, HeaderAssumption
<1>2. IsList(ws) /\ Len(ws) \in Nat /\ DOMAIN ws = 1..Len(ws)
    BY <1>1, ListFacts DEF Named
<1>3. File[hdr] = {ws[i] : i \in 1..Len(ws)}
    BY <1>2 DEF File, ToSet
<1>4. \A i \in 1..Len(ws) : ws[i] \in File[hdr] /\ ws[i].name # EndMark
    BY <1>1, <1>3 DEF Named
<1>. QED
    BY <1>2, <1>3, <1>4, OfFile

LEMMA FromHead ==
    ASSUME NEW h, NEW ws, IsList(ws), NEW v, NEW k \in 0..Len(ws)
    PROVE  LET F == From(h, ws, v, k)
           IN  /\ IsList(F) /\ F # <<>> /\ Head(F).as = "name"
               /\ k = Len(ws) => Head(F).val = EndMark /\ Tail(F) = <<>>
               /\ k < Len(ws) => /\ Head(F).val = ws[k + 1].name
                                 /\ Tail(F) = Past(FieldsOf(h, ws[k + 1], v), 1)
                                                  \o From(h, ws, v, k + 1)
<1> DEFINE F == From(h, ws, v, k)
           G == From(h, ws, v, k + 1)
           fs == FieldsOf(h, ws[k + 1], v)
<1>0. Len(ws) \in Nat
    BY ListFacts
<1>1. IsList(F) /\ F # <<>>
    BY FromLists
<1>2. CASE k = Len(ws)
    <2> DEFINE e == Field("name", EndMark)
               s == <<e>>
    <2>1. F = s
        BY <1>2, FromLists
    <2>2. IsList(s) /\ s \o <<>> = s /\ s = <<e>> \o <<>>
        BY OneAndRest, EmptyList, ConcatEmpty
    <2>3. Head(s) = e /\ Tail(s) = <<>>
        BY <2>2, OneAndRest, EmptyList
    <2>4. e.as = "name" /\ e.val = EndMark
        BY DEF Field
    <2> HIDE DEF e, s, F
    <2>. QED
        BY <1>1, <1>2, <2>1, <2>3, <2>4 DEF F
<1>3. CASE k < Len(ws)
    <2>1. F = fs \o G /\ IsList(G)
        <3>1. k \in 0..(Len(ws) - 1) /\ k + 1 \in 0..Len(ws)
            BY <1>0, <1>3
        <3>. QED
            BY <3>1, FromNext, FromLists
    <2>2. IsList(fs) /\ Len(fs) = 5 /\ fs[1] = Field("name", ws[k + 1].name)
        BY FieldsFive
    <2>3. fs[1].as = "name" /\ fs[1].val = ws[k + 1].name
        <3> HIDE DEF fs
        <3>. QED
            BY <2>2 DEF Field
    <2> HIDE DEF fs, F, G
    <2>4. fs # <<>>
        BY <2>2, EmptyList
    <2>5. Head(fs) = fs[1] /\ Tail(fs) = Past(fs, 1)
        <3>1. fs = Past(fs, 0)
            <4> DEFINE z == Past(fs, 0)
            <4>1. 0 \in 0..Len(fs) /\ Len(fs) - 0 = 5
                BY <2>2
            <4>2. IsList(z) /\ Len(z) = Len(fs) - 0 /\ \A i \in 1..(Len(fs) - 0) : z[i] = fs[0 + i]
                BY <2>2, <4>1, PastList
            <4>3. \A i \in 1..Len(z) : z[i] = fs[i]
                BY <4>1, <4>2
            <4> HIDE DEF z
            <4>4. Len(z) = Len(fs)
                BY <2>2, <4>1, <4>2
            <4>5. z = fs
                BY <2>2, <4>2, <4>3, <4>4, EqualLists
            <4>. QED
                BY <4>5 DEF z
        <3>2. 0 \in 0..(Len(fs) - 1) /\ 0 + 1 = 1
            BY <2>2
        <3>. QED
            BY <2>2, <3>1, <3>2, PastNext
    <2>6. Head(fs \o G) = Head(fs) /\ Tail(fs \o G) = Tail(fs) \o G
        BY <2>1, <2>2, <2>4, ConcatHead
    <2>7. Head(F).as = "name" /\ Head(F).val = ws[k + 1].name /\ Tail(F) = Past(fs, 1) \o G
        BY <2>1, <2>3, <2>5, <2>6
    <2>. QED
        BY <1>0, <1>1, <1>3, <2>7 DEF F, G, fs
<1>. QED
    BY <1>0, <1>2, <1>3

LEMMA FirstValue == ASSUME NEW s PROVE Values(s, 1) = <<s[1].val>>
<1> DEFINE e == s[1].val
           o == <<e>>
           a == Values(s, 1)
           n == 1
<1>1. IsList(o) /\ Len(o) = 1 /\ o[1] = e
    BY OneAndRest, EmptyList
<1>2. a = [i \in 1..n |-> a[i]] /\ a[1] = e
    BY DEF Values
<1> HIDE DEF o, a
<1>3. IsList(a) /\ Len(a) = 1
    <2>1. n \in Nat
        OBVIOUS
    <2> HIDE DEF n
    <2>2. IsList(a) /\ Len(a) = n
        BY <1>2, <2>1, Listed
    <2>. QED
        BY <2>2 DEF n
<1>4. \A i \in 1..1 : a[i] = o[i]
    BY <1>1, <1>2
<1>5. a = o
    BY <1>1, <1>3, <1>4, EqualLists
<1>. QED
    BY <1>5 DEF a, o

\* What can be next in a stream of which c is left of the configuration.
LEMMA ConfigFirst ==
    ASSUME NEW c, Within(c, ConfigKinds), NEW F, IsList(F), NEW R, R = c \o F
    PROVE  IF c = <<>> THEN R = F
           ELSE R # <<>> /\ Head(R).as \notin WeightFields /\ Tail(R) = Tail(c) \o F
                /\ Within(Tail(c), ConfigKinds)
<1>1. CASE c = <<>>
    BY <1>1, ConcatEmpty
<1>2. CASE c # <<>>
    <2>1. Head(c).as \in ConfigKinds /\ Within(Tail(c), ConfigKinds)
        BY <1>2, HeadWithin
    <2>2. IsList(c)
        BY DEF Within
    <2>3. c \o F # <<>> /\ Head(c \o F) = Head(c) /\ Tail(c \o F) = Tail(c) \o F
        BY <1>2, <2>2, ConcatHead
    <2>. QED
        BY <1>2, <2>1, <2>3, KindsApart
<1>. QED
    BY <1>1, <1>2

LEMMA TakeConfig ==
    ASSUME hdr \in Headers, NEW v, NEW k, NEW R, NEW b, NEW W, Taking(v, k, R, b, W), R # <<>>,
           Head(R).as \notin WeightFields
    PROVE  Taking(v, k, Tail(R), b, W)
<1> DEFINE ws == Weights(hdr)
<1>0. IsList(ws) /\ Len(ws) \in Nat /\ k \in 0..Len(ws)
    BY FileFacts DEF Taking
<1>1. IsList(From(hdr, ws, v, k)) /\ Head(From(hdr, ws, v, k)).as = "name"
    BY <1>0, FromHead
<1>2. CASE \E c : Within(c, ConfigKinds) /\ R = c \o From(hdr, ws, v, k)
    <2>1. PICK c : Within(c, ConfigKinds) /\ R = c \o From(hdr, ws, v, k)
        BY <1>2
    <2>2. c # <<>>
        BY <1>1, <2>1, ConfigFirst DEF WeightFields
    <2>3. Tail(R) = Tail(c) \o From(hdr, ws, v, k) /\ Within(Tail(c), ConfigKinds)
        BY <1>1, <2>1, <2>2, ConfigFirst
    <2>. QED
        BY <2>3 DEF Taking
<1>3. CASE k < Len(ws) /\ Amid(hdr, ws[k + 1], v, b, R, From(hdr, ws, v, k + 1))
    <2>1. k + 1 \in 0..Len(ws)
        BY <1>0, <1>3
    <2>2. IsList(From(hdr, ws, v, k + 1))
        BY <1>0, <2>1, FromHead
    <2>3. Head(R).as \in {"index", "offset", "nBytes", "bytes"}
        BY <1>3, <2>2, AmidStep
    <2>. QED
        BY <2>3 DEF WeightFields
<1>. QED
    BY <1>2, <1>3 DEF Taking

LEMMA TakeName ==
    ASSUME hdr \in Headers, NEW v, NEW k, NEW R, NEW b, NEW W, Taking(v, k, R, b, W), R # <<>>,
           Head(R).as = "name"
    PROVE  IF Head(R).val = EndMark THEN Taking(v, k, Tail(R), b, W)
           ELSE Taking(v, k, Tail(R), <<Head(R).val>>, W)
<1> DEFINE ws == Weights(hdr)
           F == From(hdr, ws, v, k)
<1>0. IsList(ws) /\ Len(ws) \in Nat /\ k \in 0..Len(ws)
    BY FileFacts DEF Taking
<1>1. IsList(F)
    BY <1>0, FromHead
<1>2. R = F
    <2>1. CASE \E c : Within(c, ConfigKinds) /\ R = c \o F
        BY <1>1, <2>1, ConfigFirst DEF WeightFields
    <2>2. CASE k < Len(ws) /\ Amid(hdr, ws[k + 1], v, b, R, From(hdr, ws, v, k + 1))
        <3>1. k + 1 \in 0..Len(ws)
            BY <1>0, <2>2
        <3>2. IsList(From(hdr, ws, v, k + 1))
            BY <1>0, <3>1, FromHead
        <3>3. Head(R).as \in {"index", "offset", "nBytes", "bytes"}
            BY <2>2, <3>2, AmidStep
        <3>. QED
            BY <3>3
    <2>. QED
        BY <2>1, <2>2 DEF Taking
<1>3. CASE k = Len(ws)
    <2>1. Head(R).val = EndMark /\ Tail(R) = <<>>
        BY <1>0, <1>2, <1>3, FromHead
    <2>. QED
        BY <1>3, <2>1 DEF Taking
<1>4. CASE k < Len(ws)
    <2> DEFINE x == ws[k + 1]
               G == From(hdr, ws, v, k + 1)
    <2>1. Head(R).val = x.name /\ Tail(R) = Past(FieldsOf(hdr, x, v), 1) \o G
        BY <1>0, <1>2, <1>4, FromHead
    <2>2. x.name # EndMark
        <3>1. k + 1 \in 1..Len(ws)
            BY <1>0, <1>4
        <3>. QED
            BY <3>1, FileFacts
    <2>3. <<x.name>> = Values(FieldsOf(hdr, x, v), 1)
        <3>1. FieldsOf(hdr, x, v)[1] = Field("name", x.name)
            BY FieldsFive
        <3>2. Field("name", x.name).val = x.name
            BY DEF Field
        <3>. QED
            BY <3>1, <3>2, FirstValue
    <2> HIDE DEF x, G
    <2>4. Amid(hdr, x, v, <<Head(R).val>>, Tail(R), G)
        <3>1. 1 \in 1..4
            OBVIOUS
        <3>2. <<Head(R).val>> = Values(FieldsOf(hdr, x, v), 1)
            BY <2>1, <2>3
        <3>. QED
            BY ONLY <2>1, <3>1, <3>2, Zenon DEF Amid
    <2>5. Taking(v, k, Tail(R), <<Head(R).val>>, W)
        BY <1>4, <2>4 DEF Taking, x, G
    <2>. QED
        BY <2>1, <2>2, <2>5
<1>. QED
    BY <1>0, <1>3, <1>4

LEMMA TakeField ==
    ASSUME ExpertsInMixtures, hdr \in Headers, NEW v \in Nodes, NEW k, NEW R, NEW b, NEW W,
           Taking(v, k, R, b, W), R # <<>>, Head(R).as \in WeightFields \ {"name"},
           Like(Allocated[hdr][v], W)
    PROVE  IF Head(R).as # "bytes" THEN Taking(v, k, Tail(R), Append(b, Head(R).val), W)
           ELSE /\ b[3] = 0
                /\ Taking(v, k + 1, Tail(R), <<>>, Put(W, <<b[1], b[2]>>, Head(R).val))
<1> DEFINE ws == Weights(hdr)
           F == From(hdr, ws, v, k)
           G == From(hdr, ws, v, k + 1)
           y == ws[k + 1]
<1>0. IsList(ws) /\ Len(ws) \in Nat /\ k \in 0..Len(ws)
    BY FileFacts DEF Taking
<1>1. k < Len(ws) /\ Amid(hdr, y, v, b, R, G)
    <2>1. CASE \E c : Within(c, ConfigKinds) /\ R = c \o F
        <3>1. IsList(F) /\ Head(F).as = "name"
            BY <1>0, FromHead
        <3> HIDE DEF F
        <3>. QED
            BY <2>1, <3>1, ConfigFirst
    <2>. QED
        BY <2>1 DEF Taking
<1>2. k + 1 \in 1..Len(ws) /\ k + 1 \in 0..Len(ws) /\ k \in Nat
    BY <1>0, <1>1
<1>3. IsList(G)
    BY <1>0, <1>2, FromHead
<1>4. y \in File[hdr] /\ Filed(hdr, y)
    BY <1>2, FileFacts
<1>5. CASE Head(R).as # "bytes"
    <2>1. Amid(hdr, y, v, Append(b, Head(R).val), Tail(R), G)
        BY <1>1, <1>3, <1>5, AmidStep
    <2>2. Taking(v, k, Tail(R), Append(b, Head(R).val), W)
        <3> HIDE DEF F
        <3>. QED
            BY <1>1, <2>1 DEF Taking
    <2>. QED
        BY <1>5, <2>2
<1>6. CASE Head(R).as = "bytes"
    <2>1. /\ b[1] = y.name /\ b[2] = y.index
          /\ b[3] = ExpertIndex(y) * Cardinality(DOMAIN Part(hdr, y, v))
          /\ Head(R).val = Part(hdr, y, v) /\ Tail(R) = G
        BY <1>1, <1>3, <1>6, AmidStep
    <2>2. b[3] = 0
        BY <1>4, <2>1, OffsetZero
    <2> DEFINE U == Put(W, <<y.name, y.index>>, Part(hdr, y, v))
    <2>3. ASSUME NEW i \in 1..(k + 1), ~ OfExperts(ws[i]) PROVE Has(hdr, v, U, ws[i])
        <3>1. i \in 1..Len(ws) /\ (i \in 1..k \/ i = k + 1)
            BY <1>2
        <3>2. ws[i] \in File[hdr]
            BY <3>1, FileFacts
        <3>3. Has(hdr, v, W, ws[i]) \/ ws[i] = y
            BY <2>3, <3>1 DEF Taking
        <3>. QED
            BY <1>4, <2>3, <3>2, <3>3, PutHas
    <2>4. \E c : Within(c, ConfigKinds) /\ Tail(R) = c \o G
        <3>1. Within(<<>>, ConfigKinds)
            BY EmptyList DEF Within
        <3>2. <<>> \o G = G
            BY <1>3, ConcatEmpty
        <3>. QED
            BY <2>1, <3>1, <3>2
    <2>5. Taking(v, k + 1, Tail(R), <<>>, U)
        <3> HIDE DEF U
        <3>. QED
            BY <1>2, <2>3, <2>4 DEF Taking
    <2>. QED
        BY <1>6, <2>1, <2>2, <2>5
<1>. QED
    BY <1>5, <1>6

\* A worker that has read all has its part of every weight.
LEMMA TakenAll ==
    ASSUME hdr \in Headers, NEW v, NEW k, NEW b, NEW W, Taking(v, k, <<>>, b, W),
           NEW x \in File[hdr], ~ OfExperts(x)
    PROVE  Has(hdr, v, W, x)
<1> DEFINE ws == Weights(hdr)
           F == From(hdr, ws, v, k)
<1>0. IsList(ws) /\ Len(ws) \in Nat /\ k \in 0..Len(ws)
    BY FileFacts DEF Taking
<1>1. IsList(F) /\ F # <<>>
    BY <1>0, FromHead
<1>2. k = Len(ws)
    <2>1. ~ \E c : Within(c, ConfigKinds) /\ <<>> = c \o F
        <3> SUFFICES ASSUME NEW c, Within(c, ConfigKinds), <<>> = c \o F PROVE FALSE
            OBVIOUS
        <3>1. IsList(c)
            BY DEF Within
        <3> HIDE DEF F
        <3>. QED
            BY <1>1, <3>1, ConcatIsEmpty
    <2>2. ASSUME k < Len(ws), Amid(hdr, ws[k + 1], v, b, <<>>, From(hdr, ws, v, k + 1)) PROVE FALSE
        <3>1. k + 1 \in 0..Len(ws)
            BY <1>0, <2>2
        <3>2. IsList(From(hdr, ws, v, k + 1))
            BY <1>0, <3>1, FromHead
        <3> DEFINE R == <<>>
        <3>3. Amid(hdr, ws[k + 1], v, b, R, From(hdr, ws, v, k + 1))
            BY <2>2
        <3>4. R # <<>>
            <4> HIDE DEF R
            <4>. QED
                BY <3>2, <3>3, AmidStep
        <3>. QED
            BY <3>4
    <2>. QED
        BY <2>1, <2>2 DEF Taking
<1>3. PICK i \in 1..Len(ws) : x = ws[i]
    BY FileFacts
<1>. QED
    BY <1>2, <1>3 DEF Taking

-----------------------------------------------------------------------------
\* What the root loads: all it does with its own memory is to load the parts
\* of the weights of the file, and it does that for each of them.
Occurs(e, s) == \E i \in 1..Len(s) : s[i] = e
LoadsFile(h, s) ==
    IsList(s) /\ \A i \in 1..Len(s) : s[i].do = "load" => \E x \in File[h] : s[i] = LoadTask(h, x)

LEMMA OccursConcat ==
    ASSUME NEW e, NEW s, NEW t, IsList(s), IsList(t), Occurs(e, s) \/ Occurs(e, t)
    PROVE  Occurs(e, s \o t)
<1>1. /\ Len(s \o t) = Len(s) + Len(t)
      /\ \A i \in 1..Len(s) : (s \o t)[i] = s[i]
      /\ \A i \in 1..Len(t) : (s \o t)[Len(s) + i] = t[i]
    BY ConcatList
<1>2. Len(s) \in Nat /\ Len(t) \in Nat
    BY ListFacts
<1> DEFINE u == s \o t
<1> HIDE DEF u
<1>3. CASE Occurs(e, s)
    <2>1. PICK i \in 1..Len(s) : s[i] = e
        BY <1>3 DEF Occurs
    <2>2. i \in 1..Len(u) /\ u[i] = e
        BY <1>1, <1>2, <2>1 DEF u
    <2>. QED
        BY <2>2 DEF Occurs, u
<1>4. CASE Occurs(e, t)
    <2>1. PICK i \in 1..Len(t) : t[i] = e
        BY <1>4 DEF Occurs
    <2>2. Len(s) + i \in 1..Len(u) /\ u[Len(s) + i] = e
        BY <1>1, <1>2, <2>1 DEF u
    <2>. QED
        BY <2>2 DEF Occurs, u
<1>. QED
    BY <1>3, <1>4

LEMMA OccursFlatten ==
    ASSUME NEW e, NEW ss, AreLists(ss), NEW k \in 1..Len(ss), Occurs(e, ss[k])
    PROVE  Occurs(e, FlattenSeq(ss))
<1> DEFINE T == {m \in Nat : \A tt : AreLists(tt) /\ Len(tt) = m =>
                                \A j \in 1..m : Occurs(e, tt[j]) => Occurs(e, FlattenSeq(tt))}
<1>1. 0 \in T
    OBVIOUS
<1>2. ASSUME NEW m \in Nat, m \in T PROVE m + 1 \in T
    <2> SUFFICES ASSUME NEW tt, AreLists(tt), Len(tt) = m + 1, NEW j \in 1..(m + 1), Occurs(e, tt[j])
                 PROVE  Occurs(e, FlattenSeq(tt))
        OBVIOUS
    <2> DEFINE s == tt[1]
               uu == Tail(tt)
    <2>1. IsList(tt) /\ tt # <<>> /\ \A i \in 1..(m + 1) : IsList(tt[i])
        BY EmptyList DEF AreLists
    <2>2. /\ IsList(uu) /\ Len(uu) = m /\ Head(tt) = s /\ tt = <<Head(tt)>> \o uu
          /\ \A i \in 1..m : uu[i] = tt[i + 1]
        BY <2>1, HeadAndTail
    <2>3. AreLists(uu)
        <3>1. \A i \in 1..m : i + 1 \in 1..(m + 1)
            OBVIOUS
        <3> HIDE DEF uu
        <3>. QED
            BY <2>1, <2>2, <3>1 DEF AreLists
    <2>4. IsList(s)
        BY <2>1
    <2> HIDE DEF s, uu, T
    <2>5. tt = <<s>> \o uu
        BY <2>2
    <2>6. FlattenSeq(tt) = s \o FlattenSeq(uu) /\ IsList(FlattenSeq(uu))
        BY <2>3, <2>4, <2>5, FlattenHead, FlattenList
    <2> DEFINE f == FlattenSeq(uu)
    <2>7. Occurs(e, s) \/ Occurs(e, f)
        <3>1. CASE j = 1
            BY <3>1 DEF s
        <3>2. CASE j # 1
            <4> DEFINE i == j - 1
            <4>1. i \in 1..m /\ i + 1 = j
                BY <3>2
            <4>2. uu[i] = tt[j]
                BY <2>2, <4>1
            <4>3. Occurs(e, uu[i])
                BY <4>2
            <4>4. \A vv : AreLists(vv) /\ Len(vv) = m =>
                              \A n \in 1..m : Occurs(e, vv[n]) => Occurs(e, FlattenSeq(vv))
                BY <1>2 DEF T
            <4> HIDE DEF i
            <4>. QED
                BY <2>2, <2>3, <4>1, <4>3, <4>4
        <3>. QED
            BY <3>1, <3>2
    <2> HIDE DEF f
    <2>. QED
        BY <2>4, <2>6, <2>7, OccursConcat DEF f
<1>3. Nat \subseteq T
    <2> HIDE DEF T
    <2>. QED
        BY <1>1, <1>2, AllNumbers
<1>4. Len(ss) \in T
    BY <1>3, ListFacts DEF AreLists
<1>. QED
    BY <1>4

LEMMA LoadsConcat ==
    ASSUME NEW h, NEW s, NEW t, LoadsFile(h, s), LoadsFile(h, t)
    PROVE  LoadsFile(h, s \o t)
<1>1. IsList(s) /\ IsList(t)
    BY DEF LoadsFile
<1> DEFINE u == s \o t
<1>2. IsList(u)
    BY <1>1, ConcatList
<1>3. \A i \in 1..Len(u) : (\E j \in 1..Len(s) : u[i] = s[j]) \/ (\E j \in 1..Len(t) : u[i] = t[j])
    BY <1>1, ConcatElements
<1> HIDE DEF u
<1>. QED
    BY <1>2, <1>3 DEF LoadsFile, u

LEMMA LoadsFlatten ==
    ASSUME NEW h, NEW ss, IsList(ss), \A k \in 1..Len(ss) : LoadsFile(h, ss[k])
    PROVE  AreLists(ss) /\ LoadsFile(h, FlattenSeq(ss))
<1>1. AreLists(ss)
    BY DEF AreLists, LoadsFile
<1> DEFINE u == FlattenSeq(ss)
<1>2. IsList(u)
    BY <1>1, FlattenList
<1>3. \A i \in 1..Len(u) : \E k \in 1..Len(ss) : \E j \in 1..Len(ss[k]) : u[i] = ss[k][j]
    BY <1>1, FlattenElements
<1> HIDE DEF u
<1>. QED
    BY <1>1, <1>2, <1>3 DEF LoadsFile, u

LEMMA LoadsSends ==
    ASSUME NEW h, NEW v
    PROVE  /\ \A f : IsList(f) => LoadsFile(h, Sends(v, f))
           /\ LoadsFile(h, <<Await(v)>>) /\ LoadsFile(h, <<CheckTask>>) /\ LoadsFile(h, Finish(v))
           /\ \A x \in File[h] : LoadsFile(h, <<LoadTask(h, x)>>) /\ Occurs(LoadTask(h, x), <<LoadTask(h, x)>>)
<1>1. ASSUME NEW f, IsList(f) PROVE LoadsFile(h, Sends(v, f))
    <2> DEFINE s == Sends(v, f)
    <2>1. IsList(s) /\ Len(s) = Len(f)
        BY <1>1, SendsLists
    <2>2. \A i \in 1..Len(f) : s[i].do = "send"
        BY DEF Sends, Send
    <2> HIDE DEF s
    <2>. QED
        BY <2>1, <2>2 DEF LoadsFile, s
<1>2. ASSUME NEW e, e.do = "load" => \E x \in File[h] : e = LoadTask(h, x)
      PROVE  LoadsFile(h, <<e>>) /\ Occurs(e, <<e>>)
    <2> DEFINE o == <<e>>
    <2>1. IsList(o) /\ Len(o) = 1 /\ o[1] = e
        BY OneAndRest, EmptyList
    <2> HIDE DEF o
    <2>. QED
        BY <1>2, <2>1 DEF LoadsFile, Occurs, o
<1>3. Await(v).do = "await" /\ CheckTask.do = "check"
    BY DEF Await, CheckTask
<1>4. LoadsFile(h, <<Await(v)>>) /\ LoadsFile(h, <<CheckTask>>)
    BY <1>2, <1>3
<1>5. LoadsFile(h, Finish(v))
    <2> DEFINE f == <<Field("name", EndMark)>>
               s == Sends(v, f)
               a == <<Await(v)>>
    <2>1. IsList(f) /\ Len(f) = 1
        BY OneAndRest, EmptyList
    <2>2. s = <<Send(v, Field("name", EndMark))>>
        BY <2>1 DEF Sends
    <2>3. Finish(v) = s \o a
        <3>1. Finish(v) = <<Send(v, Field("name", EndMark)), Await(v)>>
            BY Zenon DEF Finish, EndMark
        <3>. QED
            BY <2>2, <3>1, Tuple2
    <2>4. LoadsFile(h, s)
        BY <1>1, <2>1
    <2> HIDE DEF s, a
    <2>. QED
        BY <1>4, <2>3, <2>4, LoadsConcat DEF a
<1>6. ASSUME NEW x \in File[h]
      PROVE  LoadsFile(h, <<LoadTask(h, x)>>) /\ Occurs(LoadTask(h, x), <<LoadTask(h, x)>>)
    BY <1>2
<1>. QED
    BY <1>1, <1>4, <1>5, <1>6

LEMMA LoadsShare ==
    ASSUME NEW h \in Headers, NEW x \in File[h]
    PROVE  LoadsFile(h, ShareWeight(h, x)) /\ Occurs(LoadTask(h, x), ShareWeight(h, x))
<1> DEFINE l == <<LoadTask(h, x)>>
           N == h.nodes - 1
           ss == [v \in 1..N |-> Sends(v, FieldsOf(h, x, v))]
<1>0. N \in Nat
    BY HeaderAssumption
<1>1. \A v : IsList(FieldsOf(h, x, v)) /\ Len(FieldsOf(h, x, v)) = 5
    BY FieldsFive
<1>2. ASSUME NEW v
      PROVE  Sends(v, FieldsOf(h, x, v)) =
                <<Send(v, Field("name", x.name)), Send(v, Field("index", x.index)),
                  Send(v, Field("offset", ExpertIndex(x) * Cardinality(DOMAIN Part(h, x, v)))),
                  Send(v, Field("nBytes", Cardinality(DOMAIN Part(h, x, v)))),
                  Send(v, Field("bytes", Part(h, x, v)))>>
    BY <1>1 DEF Sends, FieldsOf
<1>3. ShareWeight(h, x) = l \o FlattenSeq(ss)
    BY <1>2 DEF ShareWeight, LoadTask
<1>4. LoadsFile(h, l) /\ Occurs(LoadTask(h, x), l)
    BY LoadsSends
<1>5. \A v \in 1..N : LoadsFile(h, ss[v])
    BY <1>1, LoadsSends
<1>6. ss = [v \in 1..N |-> ss[v]]
    OBVIOUS
<1> HIDE DEF l, N, ss
<1>7. IsList(ss) /\ Len(ss) = N
    BY <1>0, <1>6, Listed
<1> DEFINE f == FlattenSeq(ss)
<1>8. LoadsFile(h, f)
    BY <1>5, <1>7, LoadsFlatten
<1> HIDE DEF f
<1>9. LoadsFile(h, l \o f)
    BY <1>4, <1>8, LoadsConcat
<1>10. Occurs(LoadTask(h, x), l \o f)
    BY <1>4, <1>8, OccursConcat DEF LoadsFile
<1>. QED
    BY <1>3, <1>9, <1>10 DEF f

LEMMA LoadsConfig ==
    ASSUME NEW h \in Headers, NEW v PROVE LoadsFile(h, ConfigTasks(h, v))
<1> DEFINE f == NetFields(NetConfig(h))
           g == NodeFields(NodeConfig(h, v))
           a == <<Await(v)>>
           F == Sends(v, f)
           G == Sends(v, g)
<1>1. IsList(f) /\ IsList(g)
    BY ConfigPlaced, HeaderAssumption
<1> HIDE DEF f, g
<1>2. LoadsFile(h, F) /\ LoadsFile(h, G) /\ LoadsFile(h, a)
    BY <1>1, LoadsSends
<1>3. ConfigTasks(h, v) = (F \o a) \o (G \o a)
    BY DEF ConfigTasks, f, g
<1> HIDE DEF F, G, a
<1>4. LoadsFile(h, F \o a) /\ LoadsFile(h, G \o a)
    BY <1>2, LoadsConcat
<1> DEFINE x == F \o a
           y == G \o a
<1> HIDE DEF x, y
<1>5. LoadsFile(h, x \o y)
    BY <1>4, LoadsConcat DEF x, y
<1>. QED
    BY <1>3, <1>5 DEF x, y

LEMMA TodoLoads ==
    ASSUME NEW h \in Headers
    PROVE  LoadsFile(h, Todos[h]) /\ \A x \in File[h] : Occurs(LoadTask(h, x), Todos[h])
<1> DEFINE n == h.nodes - 1
           ws == Weights(h)
           m == Len(ws)
           configs == [v \in 1..n |-> ConfigTasks(h, v)]
           shares == [i \in 1..m |-> ShareWeight(h, ws[i])]
           ends == [v \in 1..n |-> Finish(v)]
           C == FlattenSeq(configs)
           S == FlattenSeq(shares)
           K == <<CheckTask>>
           E == FlattenSeq(ends)
<1>0. n \in Nat
    BY HeaderAssumption
<1>1. Todos[h] = ((C \o S) \o K) \o E
    BY TodoParts DEF Todos
<1>2. /\ m \in Nat /\ File[h] = {ws[i] : i \in 1..m}
    <2>1. Named(ws)
        BY WeightsNamed, HeaderAssumption
    <2>2. m \in Nat /\ DOMAIN ws = 1..m
        BY <2>1, ListFacts DEF Named
    <2>. QED
        BY <2>2 DEF File, ToSet
<1>3. LoadsFile(h, C)
    <2>1. configs = [v \in 1..n |-> configs[v]] /\ \A v \in 1..n : LoadsFile(h, configs[v])
        BY LoadsConfig
    <2> HIDE DEF n, configs
    <2>2. IsList(configs) /\ Len(configs) = n
        BY <1>0, <2>1, Listed
    <2>. QED
        BY <2>1, <2>2, LoadsFlatten
<1>4. LoadsFile(h, E)
    <2>1. ends = [v \in 1..n |-> ends[v]] /\ \A v \in 1..n : LoadsFile(h, ends[v])
        BY LoadsSends
    <2> HIDE DEF n, ends
    <2>2. IsList(ends) /\ Len(ends) = n
        BY <1>0, <2>1, Listed
    <2>. QED
        BY <2>1, <2>2, LoadsFlatten
<1>5. LoadsFile(h, S) /\ \A x \in File[h] : Occurs(LoadTask(h, x), S)
    <2>0. \A i \in 1..m : ws[i] \in File[h]
        BY <1>2
    <2>1. /\ shares = [i \in 1..m |-> shares[i]]
          /\ \A i \in 1..m : LoadsFile(h, shares[i]) /\ Occurs(LoadTask(h, ws[i]), shares[i])
        BY <2>0, LoadsShare
    <2>2. m \in Nat
        BY <1>2
    <2> HIDE DEF m, shares
    <2>3. IsList(shares) /\ Len(shares) = m
        BY <2>1, <2>2, Listed
    <2>4. AreLists(shares) /\ LoadsFile(h, S)
        BY <2>1, <2>3, LoadsFlatten
    <2>5. ASSUME NEW x \in File[h] PROVE Occurs(LoadTask(h, x), S)
        <3>1. PICK i \in 1..m : x = ws[i]
            BY <1>2
        <3>2. Occurs(LoadTask(h, x), shares[i]) /\ i \in 1..Len(shares)
            BY <2>1, <2>3, <3>1
        <3>. QED
            BY <2>4, <3>2, OccursFlatten
    <2>. QED
        BY <2>4, <2>5
<1>6. LoadsFile(h, K)
    BY LoadsSends
<1> HIDE DEF C, S, K, E
<1> DEFINE A == C \o S
           B == A \o K
<1>7. LoadsFile(h, A)
    BY <1>3, <1>5, LoadsConcat
<1>8. \A x \in File[h] : Occurs(LoadTask(h, x), A)
    BY <1>3, <1>5, OccursConcat DEF LoadsFile
<1> HIDE DEF A
<1>9. LoadsFile(h, B)
    BY <1>6, <1>7, LoadsConcat
<1>10. \A x \in File[h] : Occurs(LoadTask(h, x), B)
    BY <1>6, <1>7, <1>8, OccursConcat DEF LoadsFile
<1> HIDE DEF B
<1>11. LoadsFile(h, B \o E)
    BY <1>4, <1>9, LoadsConcat
<1>12. \A x \in File[h] : Occurs(LoadTask(h, x), B \o E)
    BY <1>4, <1>9, <1>10, OccursConcat DEF LoadsFile
<1>. QED
    BY <1>1, <1>11, <1>12 DEF A, B

-----------------------------------------------------------------------------
\* The weights of every node: a worker has taken some of them from what it is
\* sent, the root has what it has loaded.
FedOK(w) ==
    status[w] # "ended" =>
        /\ Like(Allocated[hdr][w], weights[w])
        /\ \E k : Taking(w, k, Stream(w), blob[w], weights[w])
RootFed ==
    /\ Like(Allocated[hdr][0], weights[0])
    /\ \A x \in File[hdr] :
           ~ OfExperts(x) /\ (\E i \in 1..(step - 1) : Todos[hdr][i] = LoadTask(hdr, x))
               => Has(hdr, 0, weights[0], x)
FeedOK ==
    /\ weights = [n \in Nodes |-> weights[n]] /\ OnWorkers(blob)
    /\ RootFed /\ \A w \in Workers : FedOK(w)

LEMMA FedNext ==
    ASSUME NEW w, NEW k, hdr' = hdr, Like(Allocated[hdr][w], weights'[w]),
           Taking(w, k, Stream(w)', blob'[w], weights'[w])
    PROVE  FedOK(w)'
<1>1. Taking(w, k, Stream(w), blob[w], weights[w])'
    BY DEF Taking, OfExperts
<1>. QED
    BY <1>1 DEF FedOK

LEMMA FedKept ==
    ASSUME NEW w, FedOK(w), hdr' = hdr, status[w] # "ended", Stream(w)' = Stream(w), blob'[w] = blob[w],
           weights'[w] = weights[w]
    PROVE  FedOK(w)'
<1>1. PICK k : Taking(w, k, Stream(w), blob[w], weights[w])
    BY DEF FedOK
<1>2. Taking(w, k, Stream(w)', blob'[w], weights'[w])
    BY <1>1
<1>3. Like(Allocated[hdr][w], weights'[w])
    BY DEF FedOK
<1>. QED
    BY <1>2, <1>3, FedNext

LEMMA FedGone == ASSUME NEW w, status'[w] = "ended" PROVE FedOK(w)'
  BY DEF FedOK

\* The weights of a node that a step does not concern.
LEMMA RootFedKept ==
    ASSUME RootFed, hdr' = hdr, step' = step, weights'[0] = weights[0]
    PROVE  RootFed'
  BY DEF RootFed, OfExperts

LEMMA RootFedNext ==
    ASSUME hdr' = hdr, step' = step + 1, step \in Nat, Like(Allocated[hdr][0], weights'[0]),
           \A x \in File[hdr] : ~ OfExperts(x) =>
               \A i \in 1..step : Todos[hdr][i] = LoadTask(hdr, x) => Has(hdr, 0, weights'[0], x)
    PROVE  RootFed'
<1>1. step' - 1 = step
    OBVIOUS
<1>2. ASSUME NEW x \in File[hdr], ~ OfExperts(x)', NEW i \in 1..(step' - 1), Todos[hdr][i] = LoadTask(hdr, x)
      PROVE  Has(hdr, 0, weights'[0], x)
    <2>1. ~ OfExperts(x)
        BY <1>2 DEF OfExperts
    <2>. QED
        BY <1>1, <1>2, <2>1
<1>. QED
    BY <1>2 DEF RootFed

LEMMA RootStepIn ==
    ASSUME LoadOK, NEW task \in Tasks
    PROVE  /\ 0 \in Nodes /\ hdr \in Headers /\ step \in Nat
           /\ step \in 1..Len(Todos[hdr]) /\ task = Todos[hdr][step]
           /\ \A i \in 1..step : i = step \/ i \in 1..(step - 1)
           /\ task.do = "load" => \E y \in File[hdr] : task = LoadTask(hdr, y)
<1>1. step <= Len(Todos[hdr]) /\ task = Todos[hdr][step]
    BY DEF Tasks
<1>2. hdr \in Headers /\ step \in Nat \ {0}
    BY DEF LoadOK
<1>3. LoadsFile(hdr, Todos[hdr])
    BY <1>2, TodoLoads
<1>4. Len(Todos[hdr]) \in Nat
    BY <1>3, ListFacts DEF LoadsFile
<1>5. step \in 1..Len(Todos[hdr])
    BY <1>1, <1>2, <1>4
<1>6. task.do = "load" => \E y \in File[hdr] : task = LoadTask(hdr, y)
    BY <1>1, <1>3, <1>5 DEF LoadsFile
<1>7. 0 \in Nodes
    BY <1>2, HeaderAssumption DEF Nodes, NodesOf
<1>. QED
    BY <1>1, <1>2, <1>5, <1>6, <1>7

\* The root sends, waits or checks.
LEMMA FeedTask ==
    ASSUME LoadOK, FeedOK, NEW task \in Tasks, RootSend(task) \/ RootReadAck(task) \/ RootCheck(task)
    PROVE  FeedOK'
<1>1. task.do # "load" /\ step' = step + 1 /\ UNCHANGED <<hdr, blob, weights, status>>
    BY DEF RootSend, RootReadAck, RootCheck
<1>2. /\ hdr \in Headers /\ step \in Nat /\ task = Todos[hdr][step]
      /\ \A i \in 1..step : i = step \/ i \in 1..(step - 1)
    BY RootStepIn
<1>3. RootFed'
    <2>1. Like(Allocated[hdr][0], weights[0])
        BY DEF FeedOK, RootFed
    <2>2. ASSUME NEW x \in File[hdr], ~ OfExperts(x), NEW i \in 1..step, Todos[hdr][i] = LoadTask(hdr, x)
          PROVE  Has(hdr, 0, weights[0], x)
        <3>1. LoadTask(hdr, x).do = "load"
            BY DEF LoadTask
        <3>2. i \in 1..(step - 1)
            BY <1>1, <1>2, <2>2, <3>1
        <3>. QED
            BY <2>2, <3>2 DEF FeedOK, RootFed
    <2>. QED
        BY <1>1, <1>2, <2>1, <2>2, RootFedNext
<1>4. ASSUME NEW w \in Workers PROVE FedOK(w)'
    <2>1. CASE status[w] = "ended"
        BY <1>1, <2>1, FedGone
    <2>2. CASE status[w] # "ended"
        BY <1>1, <2>2, StreamTask, FedKept DEF FeedOK
    <2>. QED
        BY <2>1, <2>2
<1>. QED
    BY <1>1, <1>3, <1>4 DEF FeedOK, OnWorkers, Nodes, Workers

\* The root loads its own part of a weight.
LEMMA FeedLoad ==
    ASSUME ExpertsInMixtures, LoadOK, FeedOK, NEW task \in Tasks, RootLoad(task)
    PROVE  FeedOK'
<1>1. /\ task.do = "load" /\ step' = step + 1 /\ UNCHANGED <<hdr, blob, status>>
      /\ LoadWeight(0, task.key, task.offset, task.part)
    BY DEF RootLoad
<1>2. /\ 0 \in Nodes /\ hdr \in Headers /\ step \in Nat /\ task = Todos[hdr][step]
      /\ \A i \in 1..step : i = step \/ i \in 1..(step - 1)
    BY RootStepIn
<1>3. PICK y \in File[hdr] : task = LoadTask(hdr, y)
    BY <1>1, RootStepIn
<1>4. task.key = <<y.name, y.index>> /\ task.part = Part(hdr, y, 0) /\ task.offset = 0
    <2>1. Filed(hdr, y)
        BY <1>2, OfFile
    <2>2. ExpertIndex(y) * Cardinality(DOMAIN Part(hdr, y, 0)) = 0
        BY <1>2, <2>1, OffsetZero
    <2>. QED
        BY <1>3, <2>2 DEF LoadTask
<1>5. Like(Allocated[hdr][0], weights[0]) /\ weights = [n \in Nodes |-> weights[n]]
    BY DEF FeedOK, RootFed
<1> DEFINE U == Put(weights[0], <<y.name, y.index>>, Part(hdr, y, 0))
<1>6. /\ weights' = [m \in Nodes |-> weights'[m]] /\ weights'[0] = U
      /\ \A m \in Nodes : m # 0 => weights'[m] = weights[m]
    <2>1. LoadWeight(0, <<y.name, y.index>>, 0, Part(hdr, y, 0))
        BY <1>1, <1>4
    <2>. QED
        BY <1>2, <1>5, <2>1, LoadIsPut
<1>7. Like(Allocated[hdr][0], U)
    BY <1>5, PutLike
<1>8. ASSUME NEW x \in File[hdr], ~ OfExperts(x), NEW i \in 1..step, Todos[hdr][i] = LoadTask(hdr, x)
      PROVE  Has(hdr, 0, U, x)
    <2>1. CASE i \in 1..(step - 1)
        <3>1. Has(hdr, 0, weights[0], x)
            BY <1>8, <2>1 DEF FeedOK, RootFed
        <3>. QED
            BY <1>2, <1>5, <1>8, <3>1, PutHas
    <2>2. CASE i = step
        <3>1. LoadTask(hdr, x) = LoadTask(hdr, y)
            BY <1>2, <1>3, <1>8, <2>2
        <3>2. <<x.name, x.index>> = <<y.name, y.index>> /\ Part(hdr, x, 0) = Part(hdr, y, 0)
            BY <3>1 DEF LoadTask
        <3>3. Has(hdr, 0, Put(weights[0], <<x.name, x.index>>, Part(hdr, x, 0)), x)
            BY <1>2, <1>5, <1>8, PutHas
        <3>. QED
            BY <3>2, <3>3
    <2>. QED
        BY <1>2, <2>1, <2>2
<1> HIDE DEF U
<1>9. RootFed'
    BY <1>1, <1>2, <1>6, <1>7, <1>8, RootFedNext
<1>10. ASSUME NEW w \in Workers PROVE FedOK(w)'
    <2>1. CASE status[w] = "ended"
        BY <1>1, <2>1, FedGone
    <2>2. CASE status[w] # "ended"
        <3>1. w \in Nodes /\ w # 0
            BY HeaderAssumption DEF LoadOK, Nodes, NodesOf, Workers
        <3>. QED
            BY <1>1, <1>6, <2>2, <3>1, StreamTask, FedKept DEF FeedOK
    <2>. QED
        BY <2>1, <2>2
<1>. QED
    BY <1>1, <1>6, <1>9, <1>10 DEF FeedOK, OnWorkers, Nodes, Workers

\* The root serves or ends.
LEMMA FeedStatus ==
    ASSUME LoadOK, FeedOK, NEW s, status' = [status EXCEPT ![0] = s],
           UNCHANGED <<hdr, step, down, blob, weights>>
    PROVE  FeedOK'
<1>1. ASSUME NEW w \in Workers PROVE FedOK(w)'
    <2>1. w \in Nodes /\ w # 0
        BY HeaderAssumption DEF LoadOK, Nodes, NodesOf, Workers
    <2>2. status'[w] = status[w]
        BY <2>1, Updated DEF LoadOK
    <2>3. Stream(w)' = Stream(w)
        BY DEF Stream, AheadAt
    <2>. QED
        BY <2>2, <2>3, FedKept, FedGone DEF FeedOK
<1>2. RootFed'
    BY RootFedKept DEF FeedOK
<1>. QED
    BY <1>1, <1>2 DEF FeedOK, OnWorkers, Nodes, Workers

\* What a step of one worker leaves alone.
LEMMA LoadsOne ==
    ASSUME NEW n, NEW key, NEW offset, NEW part, LoadWeight(n, key, offset, part)
    PROVE  weights' = weights \/ \E x : weights' = [weights EXCEPT ![n] = x]
  BY DEF LoadWeight

LEMMA FeedsOne ==
    ASSUME NEW v, WorkerStep(v) \/ Crash(v)
    PROVE  /\ weights' = weights \/ \E x : weights' = [weights EXCEPT ![v] = x]
           /\ blob' = blob \/ \E x : blob' = [blob EXCEPT ![v] = x]
<1>1. CASE ReadConfig(v)
    BY <1>1, Zenon DEF ReadConfig
<1>2. CASE ReadName(v)
    BY <1>2, Zenon DEF ReadName
<1>3. CASE ReadWeight(v)
    <2>1. CASE Head(expect[v]) = "bytes"
        <3>1. /\ LoadWeight(v, <<blob[v][1], blob[v][2]>>, blob[v][3], Head(down[v]).val)
              /\ blob' = [blob EXCEPT ![v] = <<>>]
            BY <1>3, <2>1 DEF ReadWeight
        <3>. QED
            BY <3>1, LoadsOne
    <2>2. CASE Head(expect[v]) # "bytes"
        BY <1>3, <2>2 DEF ReadWeight
    <2>. QED
        BY <2>1, <2>2
<1>4. CASE WriteAck(v)
    BY <1>4 DEF WriteAck
<1>5. CASE WorkerEnd(v)
    BY <1>5 DEF WorkerEnd
<1>. QED
    BY <1>1, <1>2, <1>3, <1>4, <1>5 DEF WorkerStep, WorkerRaise, Crash

LEMMA FedReadConfig ==
    ASSUME LoadOK, FeedOK, NEW w \in Workers, ReadConfig(w)
    PROVE  FedOK(w)'
<1>1. /\ status[w] = "loading" /\ Head(expect[w]) # "writeAck" /\ Head(expect[w]) \notin WeightFields
      /\ down[w] # <<>> /\ down' = [down EXCEPT ![w] = Tail(down[w])]
      /\ UNCHANGED <<hdr, step, blob, weights>>
    BY DEF ReadConfig, Reading
<1>2. PICK k : Taking(w, k, Stream(w), blob[w], weights[w])
    BY <1>1 DEF FeedOK, FedOK
<1>3. /\ Stream(w) # <<>> /\ Head(Stream(w)).as = Head(expect[w])
      /\ Tail(Stream(w)) = Tail(down[w]) \o Pick(w, "send", AheadAt(hdr, step))
    BY <1>1, StreamRead
<1>4. Stream(w)' = Tail(Stream(w))
    <2>1. down'[w] = Tail(down[w])
        BY <1>1, Updated DEF LoadOK, OnWorkers
    <2>. QED
        BY <1>1, <1>3, <2>1 DEF Stream, AheadAt
<1>5. Taking(w, k, Tail(Stream(w)), blob[w], weights[w])
    BY <1>1, <1>2, <1>3, TakeConfig DEF LoadOK
<1>6. Taking(w, k, Stream(w)', blob'[w], weights'[w])
    BY <1>1, <1>4, <1>5
<1>7. Like(Allocated[hdr][w], weights'[w])
    BY <1>1 DEF FeedOK, FedOK
<1>. QED
    BY <1>1, <1>6, <1>7, FedNext

LEMMA FedReadName ==
    ASSUME LoadOK, FeedOK, NEW w \in Workers, ReadName(w)
    PROVE  FedOK(w)'
<1> DEFINE v == Head(down[w]).val
<1>1. /\ status[w] = "loading" /\ Head(expect[w]) # "writeAck" /\ Head(expect[w]) = "name"
      /\ down[w] # <<>> /\ down' = [down EXCEPT ![w] = Tail(down[w])]
      /\ UNCHANGED <<hdr, step, weights>>
    BY Zenon DEF ReadName, Reading
<1>2. IF v = EndMark THEN blob' = blob ELSE blob' = [blob EXCEPT ![w] = <<v>>]
    BY Zenon DEF ReadName, EndMark
<1>3. PICK k : Taking(w, k, Stream(w), blob[w], weights[w])
    BY <1>1 DEF FeedOK, FedOK
<1>4. /\ Stream(w) # <<>> /\ Head(Stream(w)) = Head(down[w]) /\ Head(Stream(w)).as = Head(expect[w])
      /\ Tail(Stream(w)) = Tail(down[w]) \o Pick(w, "send", AheadAt(hdr, step))
    BY <1>1, StreamRead
<1>5. Stream(w)' = Tail(Stream(w))
    <2>1. down'[w] = Tail(down[w])
        BY <1>1, Updated DEF LoadOK, OnWorkers
    <2>. QED
        BY <1>1, <1>4, <2>1 DEF Stream, AheadAt
<1> HIDE DEF v
<1>6. IF v = EndMark THEN Taking(w, k, Tail(Stream(w)), blob[w], weights[w])
      ELSE Taking(w, k, Tail(Stream(w)), <<v>>, weights[w])
    <2>1. Head(Stream(w)).as = "name" /\ v = Head(Stream(w)).val
        BY <1>1, <1>4 DEF v
    <2>. QED
        BY <1>3, <1>4, <2>1, TakeName DEF LoadOK
<1>7. blob'[w] = IF v = EndMark THEN blob[w] ELSE <<v>>
    BY <1>2, Updated DEF FeedOK, OnWorkers
<1>8. Taking(w, k, Stream(w)', blob'[w], weights'[w])
    <2>1. CASE v = EndMark
        <3>1. blob'[w] = blob[w] /\ Taking(w, k, Tail(Stream(w)), blob[w], weights[w])
            BY <1>6, <1>7, <2>1
        <3>. QED
            BY <1>1, <1>5, <3>1
    <2>2. CASE v # EndMark
        <3>1. blob'[w] = <<v>> /\ Taking(w, k, Tail(Stream(w)), <<v>>, weights[w])
            BY <1>6, <1>7, <2>2
        <3>. QED
            BY <1>1, <1>5, <3>1
    <2>. QED
        BY <2>1, <2>2
<1>9. Like(Allocated[hdr][w], weights'[w])
    BY <1>1 DEF FeedOK, FedOK
<1>. QED
    BY <1>1, <1>8, <1>9, FedNext

LEMMA FedReadWeight ==
    ASSUME ExpertsInMixtures, LoadOK, FeedOK, NEW w \in Workers, ReadWeight(w)
    PROVE  FedOK(w)'
<1> DEFINE v == Head(down[w]).val
           b == blob[w]
           R == Stream(w)
<1>1. /\ status[w] = "loading" /\ Head(expect[w]) # "writeAck"
      /\ Head(expect[w]) \in WeightFields \ {"name"}
      /\ down[w] # <<>> /\ down' = [down EXCEPT ![w] = Tail(down[w])]
      /\ UNCHANGED <<hdr, step>>
    BY DEF ReadWeight, Reading
<1>2. IF Head(expect[w]) = "bytes"
      THEN LoadWeight(w, <<b[1], b[2]>>, b[3], v) /\ blob' = [blob EXCEPT ![w] = <<>>]
      ELSE blob' = [blob EXCEPT ![w] = Append(b, v)] /\ weights' = weights
    BY DEF ReadWeight
<1>3. PICK k : Taking(w, k, R, b, weights[w])
    BY <1>1 DEF FeedOK, FedOK
<1>4. /\ R # <<>> /\ Head(R) = Head(down[w]) /\ Head(R).as = Head(expect[w])
      /\ Tail(R) = Tail(down[w]) \o Pick(w, "send", AheadAt(hdr, step))
    BY <1>1, StreamRead
<1>5. Stream(w)' = Tail(R)
    <2>1. down'[w] = Tail(down[w])
        BY <1>1, Updated DEF LoadOK, OnWorkers
    <2>. QED
        BY <1>1, <1>4, <2>1 DEF Stream, AheadAt
<1>6. w \in Nodes /\ hdr \in Headers
    BY DEF LoadOK, Nodes, NodesOf, Workers
<1>7. /\ Like(Allocated[hdr][w], weights[w]) /\ weights = [n \in Nodes |-> weights[n]] /\ OnWorkers(blob)
    BY <1>1 DEF FeedOK, FedOK
<1>8. v = Head(R).val
    BY <1>4
<1> HIDE DEF v, b, R
<1>9. IF Head(R).as # "bytes" THEN Taking(w, k, Tail(R), Append(b, v), weights[w])
      ELSE b[3] = 0 /\ Taking(w, k + 1, Tail(R), <<>>, Put(weights[w], <<b[1], b[2]>>, v))
    BY <1>1, <1>3, <1>4, <1>6, <1>7, <1>8, TakeField
<1>10. CASE Head(expect[w]) # "bytes"
    <2>1. blob'[w] = Append(b, v) /\ weights'[w] = weights[w]
        BY <1>2, <1>7, <1>10, Updated DEF OnWorkers
    <2>2. Taking(w, k, Tail(R), Append(b, v), weights[w])
        BY <1>4, <1>9, <1>10
    <2>3. Taking(w, k, Stream(w)', blob'[w], weights'[w])
        BY <1>5, <2>1, <2>2
    <2>. QED
        BY <1>1, <1>7, <2>1, <2>3, FedNext
<1>11. CASE Head(expect[w]) = "bytes"
    <2> DEFINE U == Put(weights[w], <<b[1], b[2]>>, v)
               key == <<b[1], b[2]>>
    <2>1. b[3] = 0 /\ Taking(w, k + 1, Tail(R), <<>>, U)
        BY <1>4, <1>9, <1>11
    <2>2. blob'[w] = <<>> /\ LoadWeight(w, key, 0, v)
        BY <1>2, <1>7, <1>11, <2>1, Updated DEF OnWorkers
    <2>3. weights'[w] = U
        <3> HIDE DEF key
        <3>1. weights'[w] = Put(weights[w], key, v)
            BY <1>6, <1>7, <2>2, LoadIsPut
        <3>. QED
            BY <3>1 DEF key
    <2>4. Like(Allocated[hdr][w], U)
        BY <1>7, PutLike
    <2> HIDE DEF U
    <2>5. Taking(w, k + 1, Stream(w)', blob'[w], weights'[w])
        BY <1>5, <2>1, <2>2, <2>3
    <2>. QED
        BY <1>1, <2>3, <2>4, <2>5, FedNext
<1>. QED
    BY <1>10, <1>11

LEMMA FedWriteAck ==
    ASSUME LoadOK, FeedOK, NEW w \in Workers, WriteAck(w)
    PROVE  FedOK(w)'
<1>1. status[w] = "loading" /\ UNCHANGED <<hdr, step, down, blob, weights>>
    BY DEF WriteAck
<1>2. Stream(w)' = Stream(w)
    BY <1>1 DEF Stream, AheadAt
<1>. QED
    BY <1>1, <1>2, FedKept DEF FeedOK

LEMMA FedEnd ==
    ASSUME LoadOK, NEW w \in Workers, WorkerEnd(w)
    PROVE  FedOK(w)'
<1>1. status' = [status EXCEPT ![w] = "ended"]
    BY DEF WorkerEnd
<1>2. w \in Nodes /\ status = [n \in Nodes |-> status[n]]
    BY DEF LoadOK, Nodes, NodesOf, Workers
<1>3. status'[w] = "ended"
    BY <1>1, <1>2, Updated
<1>. QED
    BY <1>3, FedGone

LEMMA FeedWorker ==
    ASSUME ExpertsInMixtures, LoadOK, FeedOK, NEW v \in Workers, WorkerStep(v) \/ Crash(v)
    PROVE  FeedOK'
<1>1. /\ UNCHANGED <<hdr, step>>
      /\ status' = status \/ \E x : status' = [status EXCEPT ![v] = x]
      /\ down' = down \/ \E x : down' = [down EXCEPT ![v] = x]
    BY StepOfOne
<1>2. /\ weights' = weights \/ \E x : weights' = [weights EXCEPT ![v] = x]
      /\ blob' = blob \/ \E x : blob' = [blob EXCEPT ![v] = x]
    BY FeedsOne
<1>3. /\ weights' = [n \in Nodes |-> weights'[n]]
      /\ \A n \in Nodes : n # v => weights'[n] = weights[n]
    BY <1>2, Updated DEF FeedOK
<1>4. /\ blob' = [w \in Workers |-> blob'[w]]
      /\ \A w \in Workers : w # v => blob'[w] = blob[w]
    BY <1>2, Updated DEF FeedOK, OnWorkers
<1>5. 0 \in Nodes /\ v # 0 /\ Workers \subseteq Nodes
    BY HeaderAssumption DEF LoadOK, Nodes, NodesOf, Workers
<1>6. RootFed'
    BY <1>1, <1>3, <1>5, RootFedKept DEF FeedOK
<1>7. ASSUME NEW w \in Workers PROVE FedOK(w)'
    <2>1. CASE v = w
        <3>1. CASE WorkerEnd(v)
            BY <2>1, <3>1, FedEnd
        <3>2. CASE ~ WorkerEnd(v)
            BY <2>1, <3>2, FedReadConfig, FedReadName, FedReadWeight, FedWriteAck
               DEF WorkerStep, WorkerRaise, Crash
        <3>. QED
            BY <3>1, <3>2
    <2>2. CASE v # w
        <3>1. status'[w] = status[w]
            BY <1>1, <1>5, <2>2, Updated DEF LoadOK
        <3>2. down'[w] = down[w]
            BY <1>1, <2>2, Updated DEF LoadOK, OnWorkers
        <3>3. weights'[w] = weights[w] /\ blob'[w] = blob[w]
            BY <1>3, <1>4, <1>5, <2>2
        <3>4. Stream(w)' = Stream(w)
            BY <1>1, <3>2 DEF Stream, AheadAt
        <3>. QED
            BY <1>1, <3>1, <3>3, <3>4, FedKept, FedGone DEF FeedOK
    <2>. QED
        BY <2>1, <2>2
<1>. QED
    BY <1>1, <1>3, <1>4, <1>6, <1>7 DEF FeedOK, OnWorkers, Nodes, Workers

LEMMA FeedNextOK ==
    ASSUME ExpertsInMixtures, LoadOK, FeedOK, LoadNext
    PROVE  FeedOK'
<1>1. CASE RootStep
    <2>1. ASSUME NEW task \in Tasks,
                 RootSend(task) \/ RootReadAck(task) \/ RootLoad(task) \/ RootCheck(task) \/ RootRaise(task)
          PROVE  FeedOK'
        <3>1. CASE RootRaise(task)
            BY <3>1, FeedStatus DEF RootRaise
        <3>2. CASE RootLoad(task)
            BY <3>2, FeedLoad
        <3>3. CASE RootSend(task) \/ RootReadAck(task) \/ RootCheck(task)
            BY <3>3, FeedTask
        <3>. QED
            BY <2>1, <3>1, <3>2, <3>3
    <2>2. CASE RootServe
        BY <2>2, FeedStatus DEF RootServe
    <2>. QED
        BY <1>1, <2>1, <2>2 DEF RootStep
<1>2. CASE \E v \in Workers : WorkerStep(v) \/ Crash(v)
    BY <1>2, FeedWorker
<1>3. CASE RootCrash
    BY <1>3, FeedStatus DEF RootCrash
<1>. QED
    BY <1>1, <1>2, <1>3 DEF LoadNext

\* At the start every buffer is as it was allocated.
LEMMA AllocatedLike ==
    ASSUME NEW h \in Headers
    PROVE  /\ Allocated[h] = [n \in NodesOf(h) |-> Allocated[h][n]]
           /\ \A n \in NodesOf(h) : Like(Allocated[h][n], Allocated[h][n])
<1> DEFINE Size(n, key) ==
               Length((CHOOSE op \in ToSet(Ops(h, n)) : <<op.name, op.index>> = key).weight)
           Keys(n) == {<<op.name, op.index>> : op \in ToSet(Ops(h, n))}
<1>1. Allocated[h] = [n \in NodesOf(h) |-> [key \in Keys(n) |-> [i \in 0..(Size(n, key) - 1) |-> Unset]]]
    BY DEF Allocated
<1> HIDE DEF Size, Keys
<1>2. ASSUME NEW n \in NodesOf(h)
      PROVE  Allocated[h][n] = [key \in Keys(n) |-> [i \in 0..(Size(n, key) - 1) |-> Unset]]
    BY <1>1
<1>3. ASSUME NEW n \in NodesOf(h) PROVE Like(Allocated[h][n], Allocated[h][n])
    <2> DEFINE A == Allocated[h][n]
    <2>1. A = [key \in Keys(n) |-> [i \in 0..(Size(n, key) - 1) |-> Unset]]
        BY <1>2
    <2> HIDE DEF A
    <2>2. DOMAIN A = Keys(n) /\ A = [key \in DOMAIN A |-> A[key]]
        BY <2>1
    <2>3. ASSUME NEW key \in DOMAIN A PROVE A[key] = [i \in DOMAIN A[key] |-> A[key][i]]
        <3>1. A[key] = [i \in 0..(Size(n, key) - 1) |-> Unset]
            BY <2>1, <2>2
        <3>. QED
            BY <3>1
    <2>. QED
        BY <2>2, <2>3 DEF Like, A
<1>. QED
    BY <1>1, <1>3

LEMMA TakingStart ==
    ASSUME hdr \in Headers, NEW w \in Workers, NEW b, NEW W
    PROVE  Taking(w, 0, Pick(w, "send", Todo(hdr)), b, W)
<1> DEFINE N == NetFields(NetConfig(hdr))
           G(v) == NodeFields(NodeConfig(hdr, v))
           C == ConfigOf(hdr, w)
           ws == Weights(hdr)
           m == Len(ws)
           each == [i \in 1..m |-> FieldsOf(hdr, ws[i], w)]
           F == FlattenSeq(each)
           end == <<Field("name", EndMark)>>
<1>0. hdr.nodes \in Nat \ {0} /\ hdr.layers \in Nat /\ hdr.experts \in Nat /\ w \in 1..(hdr.nodes - 1)
    BY HeaderAssumption DEF Workers
<1>1. IsList(N) /\ \A v : IsList(G(v))
    BY <1>0, ConfigPlaced
<1>2. Within(C, ConfigKinds) /\ IsList(C) /\ C = N \o G(w)
    BY ConfigFacts DEF Within, ConfigOf
<1>3. Pick(w, "send", Todo(hdr)) = ((N \o G(w)) \o F) \o end
    BY <1>0, <1>1, TodoFor
<1>4. IsList(ws) /\ m \in Nat
    BY FileFacts
<1>5. From(hdr, ws, w, 0) = F \o end
    <2>1. [i \in 1..(m - 0) |-> FieldsOf(hdr, ws[0 + i], w)] = each
        <3>1. m - 0 = m /\ \A i \in 1..m : 0 + i = i
            BY <1>4
        <3> HIDE DEF m, ws
        <3>. QED
            BY <3>1
    <2>. QED
        BY <2>1 DEF From
<1>6. IsList(F)
    <2>1. each = [i \in 1..m |-> each[i]] /\ \A i \in 1..m : IsList(each[i])
        BY FieldsFive
    <2>2. m \in Nat
        BY <1>4
    <2> HIDE DEF m, each
    <2>3. AreLists(each)
        BY <2>1, <2>2, Listed DEF AreLists
    <2>. QED
        BY <2>3, FlattenList
<1>7. IsList(end)
    BY OneAndRest, EmptyList
<1>8. 0 \in 0..m
    BY <1>4
<1> HIDE DEF N, G, C, F, end
<1>9. (C \o F) \o end = C \o (F \o end)
    BY <1>2, <1>6, <1>7, ConcatRegroup
<1>10. Pick(w, "send", Todo(hdr)) = C \o From(hdr, ws, w, 0)
    BY <1>2, <1>3, <1>5, <1>9
<1>11. \A i \in 1..0 : FALSE
    OBVIOUS
<1> HIDE DEF m
<1>. QED
    BY <1>2, <1>8, <1>10, <1>11 DEF Taking, m

LEMMA FeedInitOK == ASSUME LoadInit PROVE FeedOK
<1>1. /\ hdr \in Headers /\ step = 1 /\ weights = Allocated[hdr]
      /\ down = [w \in Workers |-> <<>>] /\ blob = [w \in Workers |-> <<>>]
    BY DEF LoadInit
<1>2. /\ weights = [n \in Nodes |-> weights[n]]
      /\ \A n \in Nodes : Like(Allocated[hdr][n], weights[n])
    BY <1>1, AllocatedLike DEF Nodes
<1>3. 0 \in Nodes /\ Workers \subseteq Nodes
    BY <1>1, HeaderAssumption DEF Nodes, NodesOf, Workers
<1>4. RootFed
    <2>1. \A i \in 1..(step - 1) : FALSE
        BY <1>1
    <2>. QED
        BY <1>2, <1>3, <2>1 DEF RootFed
<1>5. ASSUME NEW w \in Workers PROVE FedOK(w)
    <2>1. IsList(Todos[hdr]) /\ Todos[hdr] = Todo(hdr)
        BY <1>1, TodosListed DEF Todos, Workers
    <2>2. AheadAt(hdr, step) = Todo(hdr)
        BY <1>1, <2>1, AheadAtStart
    <2> DEFINE p == Pick(w, "send", Todo(hdr))
    <2>3. IsList(p)
        BY <2>1, PickLists
    <2>4. Taking(w, 0, p, blob[w], weights[w])
        BY <1>1, TakingStart
    <2> HIDE DEF p
    <2>5. <<>> \o p = p
        BY <2>3, ConcatEmpty
    <2>6. Stream(w) = p
        BY <1>1, <2>2, <2>5 DEF Stream, p
    <2>. QED
        BY <1>2, <1>3, <2>4, <2>6 DEF FedOK
<1>6. OnWorkers(blob)
    BY <1>1 DEF OnWorkers
<1>. QED
    BY <1>2, <1>4, <1>5, <1>6 DEF FeedOK

\* Every node has the weights it was sent or has loaded.
LEMMA AllFed == ASSUME ExpertsInMixtures PROVE NodeSpec => []FeedOK
<1>1. NodeInit => FeedOK
    BY FeedInitOK DEF NodeInit
<1>2. LoadOK /\ FeedOK /\ [NodeNext]_nodeVars => FeedOK'
    <2> SUFFICES ASSUME LoadOK, FeedOK, [NodeNext]_nodeVars PROVE FeedOK'
        OBVIOUS
    <2>1. CASE BringUp
        BY <2>1, FeedNextOK DEF BringUp
    <2>2. ASSUME UNCHANGED <<hdr, step, down, blob, weights, status>> PROVE FeedOK'
        <3>1. ASSUME NEW w \in Workers PROVE FedOK(w)'
            <4>1. Stream(w)' = Stream(w)
                BY <2>2 DEF Stream, AheadAt
            <4>. QED
                BY <2>2, <4>1, FedKept, FedGone DEF FeedOK
        <3>2. RootFed'
            BY <2>2, RootFedKept DEF FeedOK
        <3>. QED
            BY <2>2, <3>1, <3>2 DEF FeedOK, OnWorkers, Nodes, Workers
    <2>3. CASE Infer
        <3>1. UNCHANGED <<hdr, step, down, blob, weights, status>>
            BY <2>3 DEF Infer, ExecNext
        <3>. QED
            BY <2>2, <3>1
    <2>4. CASE UNCHANGED nodeVars
        BY <2>2, <2>4 DEF nodeVars, loadVars
    <2>. QED
        BY <2>1, <2>3, <2>4 DEF NodeNext
<1>3. NodeSpec => []LoadOK
    BY BroughtUp
<1>. QED
    BY <1>1, <1>2, <1>3, PTL DEF NodeSpec

\* A node that serves has its part of every weight of the file, and the parts
\* are the slices.
LEMMA ServingHas ==
    ASSUME LoadOK, FeedOK, NEW n \in Nodes, status[n] = "serving", NEW x \in File[hdr], ~ OfExperts(x)
    PROVE  Has(hdr, n, weights[n], x)
<1>1. CASE n = 0
    <2>1. ~ (step <= Len(Todos[hdr])) /\ step \in Nat /\ hdr \in Headers
        BY <1>1 DEF LoadOK
    <2>2. LoadsFile(hdr, Todos[hdr]) /\ Occurs(LoadTask(hdr, x), Todos[hdr])
        BY <2>1, TodoLoads
    <2>3. PICK i \in 1..Len(Todos[hdr]) : Todos[hdr][i] = LoadTask(hdr, x)
        BY <2>2 DEF Occurs
    <2>4. i \in 1..(step - 1)
        <3>1. Len(Todos[hdr]) \in Nat
            BY <2>2, ListFacts DEF LoadsFile
        <3>. QED
            BY <2>1, <2>3, <3>1
    <2>. QED
        BY <1>1, <2>3, <2>4 DEF FeedOK, RootFed
<1>2. CASE n # 0
    <2>1. n \in Workers /\ hdr \in Headers
        BY <1>2 DEF LoadOK, Nodes, NodesOf, Workers
    <2>2. PICK k : Taking(n, k, Stream(n), blob[n], weights[n])
        BY <2>1 DEF FeedOK, FedOK
    <2>3. Stream(n) = <<>>
        <3> DEFINE nb == Len(Buffers(hdr, n))
                   R == Stream(n)
        <3>1. Fits(nb, expect[n], R) /\ expect[n] = <<>>
            BY <2>1 DEF LoadOK, WorkerOK, Tracks, Stream
        <3> HIDE DEF nb, R
        <3>2. Fits(nb, <<>>, R)
            BY <3>1
        <3>3. R = <<>>
            BY <3>2, FitsEnd
        <3>. QED
            BY <3>3 DEF R
    <2>4. Taking(n, k, <<>>, blob[n], weights[n])
        BY <2>2, <2>3
    <2>. QED
        BY <2>1, <2>4, TakenAll
<1>. QED
    BY <1>1, <1>2

LEMMA HasHolds ==
    ASSUME hdr \in Headers, NEW n \in Nodes, NEW x \in Needed(n), ~ OfExperts(x),
           Has(hdr, n, weights[n], x)
    PROVE  Holds(n, x)
<1> DEFINE key == <<x.name, x.index>>
           R == OwnRows(x)
           C == OwnCols(x)
           P == Part(hdr, x, n)
           W == weights[n][key]
<1>1. x \in File[hdr] /\ key \in DOMAIN weights[n]
    BY DEF Needed
<1>2. Filed(hdr, x)
    BY <1>1, OfFile
<1>3. x.expert = 0 /\ Sized(x)
    BY <1>2, PlainWeight, FiledPart
<1>4. \A i \in DOMAIN P : W[i] = P[i]
    BY <1>1 DEF Has
<1>5. /\ R \in Nat /\ C \in Nat
      /\ \A r \in 0..(R - 1) : \A c \in 0..(C - 1) :
             r * C + c \in DOMAIN P /\ P[r * C + c] = <<x.expert, Shifted(x, n, r, c)>>
    BY <1>3, PartUnits
<1> HIDE DEF R, C, P, W
<1>6. ASSUME NEW r \in 0..(R - 1), NEW c \in 0..(C - 1)
      PROVE  W[x.expert * R * C + r * C + c] = <<x.expert, Shifted(x, n, r, c)>>
    <2>1. x.expert * R * C = 0
        <3>1. 0 * R = 0 /\ 0 * C = 0
            BY <1>5
        <3>. QED
            BY <1>3, <3>1
    <2> DEFINE z == r * C
    <2>2. z \in Nat
        BY <1>5
    <2>3. z + c \in DOMAIN P /\ P[z + c] = <<x.expert, Shifted(x, n, r, c)>>
        BY <1>5
    <2> HIDE DEF z
    <2>4. 0 + z + c = z + c
        BY <2>2
    <2>5. W[0 + z + c] = <<x.expert, Shifted(x, n, r, c)>>
        BY <1>4, <2>3, <2>4
    <2>. QED
        BY <2>1, <2>5 DEF z
<1>. QED
    BY <1>6 DEF Holds, OwnRows, OwnCols, R, C, W

\* For every model in which a mixture has experts, and every cluster and
\* connection size: when a node serves, each of its operators that has a weight
\* of the file - other than those of experts - holds the slice of it that the
\* node's shape asks for, every unit of it at its place.  The root has loaded
\* its own part with one call; a worker has read it from five unframed fields,
\* behind its whole configuration, and neither one field too many nor too few.
THEOREM PlainWeightsLoaded == ASSUME ExpertsInMixtures PROVE NodeSpec => []WeightsLoaded
<1>1. LoadOK /\ FeedOK => WeightsLoaded
    <2> SUFFICES ASSUME LoadOK, FeedOK, NEW n \in Nodes, status[n] = "serving", NEW x \in Needed(n),
                        ~ OfExperts(x)
                 PROVE  Holds(n, x)
        BY DEF WeightsLoaded
    <2>1. hdr \in Headers /\ x \in File[hdr]
        BY DEF LoadOK, Needed
    <2>. QED
        BY <2>1, ServingHas, HasHolds
<1>. QED
    BY <1>1, AllFed, BroughtUp, PTL
===============================================================================
