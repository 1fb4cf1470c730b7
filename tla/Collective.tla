------------------------------ MODULE Collective ------------------------------
(***************************************************************************)
(* What the tensor synchronisation promises, without threads, sockets or   *)
(* bytes.  A forward pass is a list of collective operations, one per step *)
(* and batch row (a round): the root's X row goes to everybody, then every *)
(* node's slice goes to every node, twice per layer, and at the end every  *)
(* worker's slice of the logits goes to the root.  A node leaves a round   *)
(* only when those it needs something from have produced it.               *)
(*                                                                         *)
(* Code: the sync types of network.py and graph_builder.py, the control    *)
(* packets of inference.py.  TensorSync implements this module.            *)
(***************************************************************************)
EXTENDS Naturals, Sequences

CONSTANTS
  NNodes,       \* the root and the workers
  NLayers,      \* two rounds of all-gather per layer and row
  NBatches,     \* the largest batch
  MaxForwards   \* bound: forward passes

Node == 0 .. NNodes - 1
Root == 0
Worker == Node \ {Root}

ASSUME CollectiveAssumption ==
  /\ NNodes \in Nat /\ NNodes >= 2
  /\ NLayers \in Nat \ {0}
  /\ NBatches \in Nat \ {0}
  /\ MaxForwards \in Nat

NSteps == 2 * NLayers + 2
Idle == NSteps + 1

VARIABLES
  calls,     \* what the root announced, one [pos, batch] per forward
  at,        \* at[n]: the round n is in; step Idle between two forwards
  computed   \* computed[n]: n has run the ops of this round's step

vars == <<calls, at, computed>>

Round(f, s, r) == [fwd |-> f, step |-> s, row |-> r]

\* The rounds of a run, in the order every node goes through them.
Before(a, b) ==
  \/ a.fwd < b.fwd
  \/ a.fwd = b.fwd /\ a.step < b.step
  \/ a.fwd = b.fwd /\ a.step = b.step /\ a.row < b.row

\* Variants with a bug: the root does not wait for the logits ...
NeedsNoLogits(n, s) ==
  IF s = 1 THEN {Root} ELSE IF s < NSteps THEN Node ELSE {}

\* ... or an all-gather is a gather on the root.
NeedsRootOnly(n, s) ==
  IF n = Root THEN Node ELSE IF s < NSteps THEN {Root} ELSE {}

\* The nodes whose part n cannot leave a round of step s without.
Needs(n, s) ==
  IF s = 1 THEN {Root}
  ELSE IF s < NSteps \/ n = Root THEN Node
  ELSE {}

\* Node p has produced its part of round a.
Reached(p, a) == Before(a, at[p]) \/ (at[p] = a /\ computed[p])

Init ==
  /\ calls = <<>>
  /\ at = [n \in Node |-> Round(0, Idle, 0)]
  /\ computed = [n \in Node |-> FALSE]

\* The row after the last row of the forward before.
NextPos ==
  IF Len(calls) = 0 THEN 0
  ELSE calls[Len(calls)].pos + calls[Len(calls)].batch

\* The root starts a forward of b rows.
Announce(b) ==
  /\ at[Root].step = Idle
  /\ Len(calls) < MaxForwards
  /\ calls' = Append(calls, [pos |-> NextPos, batch |-> b])
  /\ at' = [at EXCEPT ![Root] = Round(at[Root].fwd + 1, 1, 0)]
  /\ UNCHANGED computed

\* A worker learns of it; it has no op to run before the first round.
Join(w) ==
  /\ at[w].step = Idle
  /\ at[w].fwd < Len(calls)
  /\ at' = [at EXCEPT ![w] = Round(at[w].fwd + 1, 1, 0)]
  /\ computed' = [computed EXCEPT ![w] = TRUE]
  /\ UNCHANGED calls

Compute(n) ==
  /\ at[n].step # Idle
  /\ ~computed[n]
  /\ computed' = [computed EXCEPT ![n] = TRUE]
  /\ UNCHANGED <<calls, at>>

\* Variant with a bug: whoever is needed has only got to the step, not the row.
ReadyAtStep(n) ==
  \A p \in Needs(n, at[n].step) :
    \/ at[p].fwd > at[n].fwd
    \/ at[p].fwd = at[n].fwd /\ at[p].step >= at[n].step

\* Everybody n needs something from has produced it.
Ready(n) == \A p \in Needs(n, at[n].step) : Reached(p, at[n])

\* Variant with a bug: one row too many.
NextRowTooFar(n) ==
  /\ at[n].row < calls[at[n].fwd].batch
  /\ at' = [at EXCEPT ![n] = Round(@.fwd, @.step, @.row + 1)]
  /\ UNCHANGED computed

NextRow(n) ==
  /\ at[n].row + 1 < calls[at[n].fwd].batch
  /\ at' = [at EXCEPT ![n] = Round(@.fwd, @.step, @.row + 1)]
  /\ UNCHANGED computed

NextStep(n) ==
  /\ at[n].row + 1 = calls[at[n].fwd].batch
  /\ at' = [at EXCEPT ![n] = Round(@.fwd, @.step + 1, 0)]
  /\ computed' = [computed EXCEPT ![n] = FALSE]

\* n is through with a round: the next row, or the next step, to be computed.
Complete(n) ==
  /\ at[n].step # Idle
  /\ computed[n]
  /\ Ready(n)
  /\ NextRow(n) \/ NextStep(n)
  /\ UNCHANGED calls

\* Between two forwards the application may leave the cluster at rest for good.
Rest ==
  /\ \A n \in Node : at[n].step = Idle
  /\ UNCHANGED vars

Next ==
  \/ \E b \in 1 .. NBatches : Announce(b)
  \/ \E w \in Worker : Join(w)
  \/ \E n \in Node : Compute(n) \/ Complete(n)
  \/ Rest

Spec == Init /\ [][Next]_vars

-----------------------------------------------------------------------------
(* Properties.                                                             *)

\* Type invariant: every node is between forwards or in a row that exists.
TypeOK ==
  /\ calls \in Seq([pos : Nat, batch : 1 .. NBatches])
  /\ at \in [Node -> [fwd : Nat, step : 1 .. Idle, row : Nat]]
  /\ computed \in [Node -> BOOLEAN]
  /\ \A n \in Node :
       /\ at[n].fwd <= Len(calls)
       /\ at[n].step # Idle =>
            at[n].fwd > 0 /\ at[n].row < calls[at[n].fwd].batch

LastRow(f) == calls[f].batch - 1

\* A node that is past a round left nobody behind: whoever it needed has
\* produced its part of that very round.
Gathered ==
  \A n \in Node : \A f \in 1 .. Len(calls) : \A s \in 1 .. NSteps :
    \A r \in 0 .. LastRow(f) :
      Before(Round(f, s, r), at[n]) =>
        \A p \in Needs(n, s) : Reached(p, Round(f, s, r))

\* Between the all-gathers nobody is more than one step ahead: a node at step s
\* of a forward finds every node at the last row of step s - 1, or later.
Lockstep ==
  \A m, n \in Node :
    at[m].step \in 3 .. NSteps =>
      ~ Before(at[n], Round(at[m].fwd, at[m].step - 1, LastRow(at[m].fwd)))

\* The root announces a forward only after every worker has run all the ops of
\* the one before, and no worker starts one the root has not announced.
RootLeads ==
  \A w \in Worker :
    /\ at[w].fwd <= at[Root].fwd
    /\ \A f \in 1 .. Len(calls) :
         f < at[Root].fwd \/ at[Root].step = Idle =>
           Reached(w, Round(f, NSteps, LastRow(f)))

=============================================================================
