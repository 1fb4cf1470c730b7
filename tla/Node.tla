--------------------------------- MODULE Node ---------------------------------
\* The life of root and workers in one cluster: they are brought up as module
\* Loading describes, and when all of them serve, they run the forwards of
\* module Executor.  Before that a node has no more than the memory that
\* NnNetExecution and NnCpuDevice allocate, of zeros.
EXTENDS Loading, Executor

nodeVars == <<loadVars, execVars>>

NodeInit == LoadInit /\ ExecInit

BringUp ==
    /\ LoadNext
    /\ UNCHANGED <<sizes, mem, raw, pc, now, at, failed, fwd, fed>>

\* The root's inference starts when finish() of the weight loader returns; the
\* workers' loops by then are waiting for a control packet, or start to later.
Serving == \A n \in Nodes : status[n] = "serving"

Infer ==
    /\ Serving
    /\ ExecNext
    /\ UNCHANGED <<step, down, up, expect, got, blob, weights, status, crashes>>

NodeNext == BringUp \/ Infer

NodeSpec == NodeInit /\ [][NodeNext]_nodeVars /\ LoadFairness
===============================================================================
