-------------------------------- MODULE MCNode --------------------------------
EXTENDS Node

Seq0(s) == [n \in 0..(Len(s) - 1) |-> s[n + 1]]

\* Two nodes, 4-bit weights and a quantised network, as by default.
Pair == [arch |-> "LLAMA", rope |-> "LLAMA", sync |-> Q80, weight |-> "Q40",
         nodes |-> 2, threads |-> Seq0(<<1, 1>>), batches |-> 2, layers |-> 1, seqLen |-> 3,
         dim |-> 2, qDim |-> 4, kvDim |-> 2, ffDim |-> 2, vocab |-> 2, kvHeads |-> 2,
         experts |-> 0, active |-> 0, top |-> [p \in 0..2 |-> <<>>]]

\* A single node with two threads and rows of three units.
Alone == [Pair EXCEPT !.nodes = 1, !.threads = Seq0(<<2>>), !.sync = F32, !.weight = F32,
                      !.dim = 3, !.qDim = 3, !.kvDim = 3, !.ffDim = 3, !.vocab = 3, !.kvHeads = 3]

\* Two of three experts, other ones at each position.
Moe(h) == [h EXCEPT !.arch = "QWEN3_MOE", !.rope = "FALCON", !.experts = 3, !.active = 2,
                    !.top = [p \in 0..2 |-> <<p, (p + 1) % 3>>]]

MCHeaders ==
    {Pair,
     Moe(Pair),
     [Pair EXCEPT !.arch = "QWEN3", !.sync = F32, !.weight = F32, !.threads = Seq0(<<1, 2>>)],
     [Pair EXCEPT !.nodes = 3, !.threads = Seq0(<<1, 1, 1>>), !.batches = 1,
                  !.dim = 3, !.qDim = 3, !.kvDim = 3, !.ffDim = 3, !.vocab = 3, !.kvHeads = 3],
     [Pair EXCEPT !.vocab = 8],
     [Alone EXCEPT !.layers = 2],
     [Moe(Alone) EXCEPT !.batches = 1],
     [Alone EXCEPT !.sync = Q80],
     [Alone EXCEPT !.sync = Q80, !.weight = "Q40"]}

MCExperts == {Moe(Pair)}

MCMaxForwards == [h \in MCHeaders \cup MCExperts |-> IF h.nodes = 3 THEN 1 ELSE 2]
===============================================================================
