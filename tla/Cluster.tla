------------------------------- MODULE Cluster -------------------------------
\* The model and the cluster that a program was started for: one header, which
\* root and workers share from the bring-up to the last forward.
EXTENDS Graph

CONSTANT Headers   \* the models and clusters to start
VARIABLE hdr       \* the header of the model file, with the number of nodes

ASSUME HeaderAssumption ==
    \A h \in Headers :
        /\ h.nodes \in Nat \ {0} /\ h.layers \in Nat /\ h.batches \in Nat
        /\ h.experts \in Nat /\ h.active \in Nat
        /\ {h.dim, h.qDim, h.kvDim, h.ffDim, h.vocab} \subseteq Nat
        /\ \A n \in 0..(h.nodes - 1) : h.threads[n] \in Nat \ {0}

NodesOf(h) == 0..(h.nodes - 1)
Nodes == NodesOf(hdr)
=============================================================================
