---------------------------- MODULE CollectiveProofs ----------------------------
(***************************************************************************)
(* Proofs about Collective, for any number of nodes, layers, rows and      *)
(* forwards.  Gathered is inductive together with TypeOK and the fact that *)
(* the root is in the forward announced last; Lockstep and RootLeads       *)
(* follow from these three.                                                *)
(***************************************************************************)
EXTENDS Collective, TLAPS

RoundSet == [fwd : Nat, step : 1 .. Idle, row : Nat]

\* The forward announced last is the root's.
RootIsLast == at[Root].fwd = Len(calls)

IInv == TypeOK /\ RootIsLast /\ Gathered

\* Type correctness of the constants: there is a root, and there are at least
\* the steps of one layer.
LEMMA Constants ==
  /\ Root \in Node
  /\ NSteps \in Nat /\ NSteps >= 4
  /\ Idle \in Nat /\ Idle = NSteps + 1
  BY CollectiveAssumption DEF Node, Root, NSteps, Idle

\* Rounds are ordered: what lies before one round does not lie after it.
LEMMA BeforeIsOrder ==
  ASSUME NEW a \in RoundSet, NEW b \in RoundSet
  PROVE  /\ ~ Before(a, a)
         /\ Before(a, b) => ~ Before(b, a) /\ a # b
  BY Constants DEF RoundSet, Before

\* Every announced forward has a position and at least one row.
LEMMA CallType ==
  ASSUME TypeOK, NEW f \in 1 .. Len(calls)
  PROVE  /\ calls[f].pos \in Nat
         /\ calls[f].batch \in Nat /\ calls[f].batch > 0
<1> DEFINE S == [pos : Nat, batch : 1 .. NBatches]
<1>1. calls \in Seq(S)
  BY DEF TypeOK
<1>2. calls[f] \in S
  <2> HIDE DEF S
  <2>. QED
    BY <1>1
<1>. QED
  BY <1>2, CollectiveAssumption

\* Init puts every node between forwards, where nothing has been gathered.
LEMMA InitIInv == Init => IInv
<1> SUFFICES ASSUME Init PROVE IInv
  OBVIOUS
<1>1. TypeOK
  <2>1. calls \in Seq([pos : Nat, batch : 1 .. NBatches]) /\ Len(calls) = 0
    BY DEF Init
  <2>2. Round(0, Idle, 0) \in RoundSet
    BY Constants DEF Round, RoundSet
  <2>. QED
    BY <2>1, <2>2, Constants DEF Init, TypeOK, Round, RoundSet
<1>2. RootIsLast
  BY Constants DEF Init, RootIsLast, Round
<1>3. Gathered
  BY DEF Init, Gathered
<1>. QED
  BY <1>1, <1>2, <1>3 DEF IInv

\* A step of the type invariant: each action leaves every node in a round that
\* exists, or between forwards.
LEMMA NextTypeOK == TypeOK /\ RootIsLast /\ [Next]_vars => TypeOK' /\ RootIsLast'
<1> SUFFICES ASSUME TypeOK, RootIsLast, [Next]_vars PROVE TypeOK' /\ RootIsLast'
  OBVIOUS
<1> USE CollectiveAssumption, Constants
<1>1. ASSUME NEW b \in 1 .. NBatches, Announce(b)
      PROVE  TypeOK' /\ RootIsLast'
  <2> DEFINE c == [pos |-> NextPos, batch |-> b]
  <2>1. NextPos \in Nat
    <3>1. CASE Len(calls) = 0
      BY <3>1 DEF NextPos
    <3>2. CASE Len(calls) # 0
      <4>1. Len(calls) \in 1 .. Len(calls)
        BY <3>2 DEF TypeOK
      <4>. QED
        BY <3>2, <4>1, CallType DEF NextPos
    <3>. QED
      BY <3>1, <3>2
  <2>2. c \in [pos : Nat, batch : 1 .. NBatches]
    BY <2>1
  <2>0. Len(calls) \in Nat /\ b \in Nat /\ b > 0
    BY DEF TypeOK
  <2>3. /\ calls' \in Seq([pos : Nat, batch : 1 .. NBatches])
        /\ Len(calls') = Len(calls) + 1
        /\ calls'[Len(calls) + 1] = c
        /\ \A i \in 1 .. Len(calls) : calls'[i] = calls[i]
    BY <1>1, <2>2 DEF Announce, TypeOK
  <2>4. at'[Root] = Round(Len(calls) + 1, 1, 0)
    BY <1>1 DEF Announce, TypeOK, RootIsLast
  <2>5. \A n \in Node : n # Root => at'[n] = at[n]
    BY <1>1 DEF Announce, TypeOK
  <2>6. at' \in [Node -> RoundSet]
    BY <1>1, <2>4 DEF Announce, TypeOK, RoundSet, Round
  <2>7. computed' \in [Node -> BOOLEAN]
    BY <1>1 DEF Announce, TypeOK
  <2>8. \A n \in Node :
          /\ at'[n].fwd <= Len(calls')
          /\ at'[n].step # Idle =>
               at'[n].fwd > 0 /\ at'[n].row < calls'[at'[n].fwd].batch
    <3> SUFFICES ASSUME NEW n \in Node
                 PROVE  /\ at'[n].fwd <= Len(calls')
                        /\ at'[n].step # Idle =>
                             at'[n].fwd > 0 /\ at'[n].row < calls'[at'[n].fwd].batch
      OBVIOUS
    <3>1. CASE n = Root
      BY <3>1, <2>0, <2>3, <2>4 DEF Round
    <3>2. CASE n # Root
      <4>1. /\ at[n].fwd \in Nat /\ at[n].fwd <= Len(calls)
            /\ at[n].step # Idle =>
                 at[n].fwd > 0 /\ at[n].row < calls[at[n].fwd].batch
        BY DEF TypeOK
      <4>2. at[n].step # Idle => calls'[at[n].fwd] = calls[at[n].fwd]
        BY <4>1, <2>3
      <4>3. at'[n] = at[n]
        BY <3>2, <2>5
      <4>. QED
        BY <2>0, <2>3, <4>1, <4>2, <4>3
    <3>. QED
      BY <3>1, <3>2
  <2>9. RootIsLast'
    BY <2>3, <2>4 DEF RootIsLast, Round
  <2>. QED
    BY <2>3, <2>6, <2>7, <2>8, <2>9 DEF TypeOK, RoundSet
<1>2. ASSUME NEW w \in Worker, Join(w)
      PROVE  TypeOK' /\ RootIsLast'
  <2>1. w \in Node /\ w # Root
    BY DEF Worker
  <2>2. at[w].fwd + 1 \in 1 .. Len(calls)
    BY <1>2, <2>1 DEF Join, TypeOK
  <2>3. calls[at[w].fwd + 1].batch > 0
    BY <2>2, CallType
  <2>4. at' = [at EXCEPT ![w] = Round(at[w].fwd + 1, 1, 0)] /\ calls' = calls
    BY <1>2 DEF Join
  <2>5. Round(at[w].fwd + 1, 1, 0) \in RoundSet
    BY <2>2 DEF Round, RoundSet
  <2>6. at' \in [Node -> RoundSet] /\ computed' \in [Node -> BOOLEAN]
    BY <1>2, <2>4, <2>5 DEF Join, TypeOK, RoundSet
  <2>7. /\ at'[w].fwd = at[w].fwd + 1 /\ at'[w].row = 0
        /\ \A n \in Node : n # w => at'[n] = at[n]
    BY <2>1, <2>4 DEF TypeOK, Round
  <2>8. \A n \in Node :
          /\ at'[n].fwd <= Len(calls')
          /\ at'[n].step # Idle => at'[n].fwd > 0 /\ at'[n].row < calls'[at'[n].fwd].batch
    <3> SUFFICES ASSUME NEW n \in Node
                 PROVE  /\ at'[n].fwd <= Len(calls)
                        /\ at'[n].step # Idle =>
                             at'[n].fwd > 0 /\ at'[n].row < calls[at'[n].fwd].batch
      BY <2>4
    <3>1. CASE n = w
      BY <3>1, <2>2, <2>3, <2>7
    <3>2. CASE n # w
      BY <3>2, <2>7 DEF TypeOK
    <3>. QED
      BY <3>1, <3>2
  <2>9. RootIsLast'
    BY <2>1, <2>4, <2>7 DEF RootIsLast
  <2>. QED
    BY <2>4, <2>6, <2>8, <2>9 DEF TypeOK, RoundSet
<1>3. ASSUME NEW n \in Node, Compute(n)
      PROVE  TypeOK' /\ RootIsLast'
  BY <1>3 DEF Compute, TypeOK, RootIsLast
<1>4. ASSUME NEW n \in Node, Complete(n)
      PROVE  TypeOK' /\ RootIsLast'
  <2>0. at[n].fwd \in Nat /\ at[n].step \in 1 .. Idle /\ at[n].row \in Nat
    BY DEF TypeOK
  <2>1. at[n].fwd \in 1 .. Len(calls) /\ at[n].row < calls[at[n].fwd].batch
    BY <1>4, <2>0 DEF Complete, NextRow, NextStep, Ready, TypeOK
  <2>2. calls[at[n].fwd].batch \in Nat /\ calls[at[n].fwd].batch > 0
    BY <2>1, CallType
  <2>3. PICK r \in RoundSet :
          /\ at' = [at EXCEPT ![n] = r]
          /\ r.fwd = at[n].fwd
          /\ r.step # Idle => r.row < calls[at[n].fwd].batch
    <3>1. CASE /\ at[n].row + 1 < calls[at[n].fwd].batch
               /\ at' = [at EXCEPT ![n] = Round(@.fwd, @.step, @.row + 1)]
      <4>1. Round(at[n].fwd, at[n].step, at[n].row + 1) \in RoundSet
        BY <2>0 DEF Round, RoundSet
      <4>. QED
        BY <3>1, <4>1 DEF Round
    <3>2. CASE at' = [at EXCEPT ![n] = Round(@.fwd, @.step + 1, 0)]
      <4>1. Round(at[n].fwd, at[n].step + 1, 0) \in RoundSet
        BY <1>4, <2>0 DEF Complete, NextRow, NextStep, Ready, Round, RoundSet
      <4>. QED
        BY <2>2, <3>2, <4>1 DEF Round
    <3>. QED
      BY <1>4, <3>1, <3>2 DEF Complete, NextRow, NextStep, Ready
  <2>4. calls' = calls /\ computed' \in [Node -> BOOLEAN]
    BY <1>4 DEF Complete, NextRow, NextStep, Ready, TypeOK
  <2>5. at' \in [Node -> RoundSet]
    BY <2>3 DEF TypeOK, RoundSet
  <2>6. \A m \in Node : IF m = n THEN at'[m] = r ELSE at'[m] = at[m]
    BY <2>3 DEF TypeOK
  <2>. QED
    BY <2>1, <2>3, <2>4, <2>5, <2>6 DEF TypeOK, RootIsLast, RoundSet
<1>5. CASE UNCHANGED vars
  BY <1>5 DEF vars, TypeOK, RootIsLast
<1>. QED
  BY <1>1, <1>2, <1>3, <1>4, <1>5 DEF Next, Rest

\* The fields of a node's round.
LEMMA AtType ==
  ASSUME TypeOK, NEW n \in Node
  PROVE  at[n].fwd \in Nat /\ at[n].step \in 1 .. Idle /\ at[n].row \in Nat
  BY DEF TypeOK

\* A node that moves, moves forwards; one that stays does not undo its ops.
LEMMA Moves ==
  ASSUME TypeOK, [Next]_vars, NEW n \in Node
  PROVE  \/ at'[n] = at[n] /\ (computed[n] => computed'[n])
         \/ Before(at[n], at'[n])
<1> USE Constants, AtType
<1>1. ASSUME NEW b \in 1 .. NBatches, Announce(b)
      PROVE  (at'[n] = at[n] /\ computed' = computed) \/ Before(at[n], at'[n])
  <2>1. CASE n = Root
    <3>1. at'[n] = Round(at[n].fwd + 1, 1, 0)
      BY <1>1, <2>1 DEF Announce, TypeOK
    <3>. QED
      BY <3>1 DEF Before, Round
  <2>2. CASE n # Root
    BY <1>1, <2>2 DEF Announce, TypeOK
  <2>. QED
    BY <2>1, <2>2
<1>2. ASSUME NEW w \in Worker, Join(w)
      PROVE  (at'[n] = at[n] /\ computed'[n] = computed[n]) \/ Before(at[n], at'[n])
  <2>1. CASE n = w
    <3>1. at'[n] = Round(at[n].fwd + 1, 1, 0)
      BY <1>2, <2>1 DEF Join, TypeOK
    <3>. QED
      BY <3>1 DEF Before, Round
  <2>2. CASE n # w
    BY <1>2, <2>2 DEF Join, TypeOK
  <2>. QED
    BY <2>1, <2>2
<1>3. ASSUME NEW m \in Node, Compute(m)
      PROVE  at'[n] = at[n] /\ (computed[n] => computed'[n])
  BY <1>3 DEF Compute, TypeOK
<1>4. ASSUME NEW m \in Node, Complete(m)
      PROVE  (at'[n] = at[n] /\ computed'[n] = computed[n]) \/ Before(at[n], at'[n])
  <2>1. CASE n = m
    <3>1. \/ at'[n] = Round(at[n].fwd, at[n].step, at[n].row + 1)
          \/ at'[n] = Round(at[n].fwd, at[n].step + 1, 0)
      BY <1>4, <2>1 DEF Complete, NextRow, NextStep, Ready, TypeOK
    <3>. QED
      BY <3>1 DEF Before, Round
  <2>2. CASE n # m
    BY <1>4, <2>2 DEF Complete, NextRow, NextStep, Ready, TypeOK
  <2>. QED
    BY <2>1, <2>2
<1>5. CASE UNCHANGED vars
  BY <1>5 DEF vars
<1>. QED
  BY <1>1, <1>2, <1>3, <1>4, <1>5 DEF Next, Rest

\* What has been produced stays produced.
LEMMA ReachedStable ==
  ASSUME TypeOK, TypeOK', [Next]_vars, NEW p \in Node, NEW a \in RoundSet, Reached(p, a)
  PROVE  Reached(p, a)'
<1>1. at[p] \in RoundSet /\ at'[p] \in RoundSet
  BY DEF TypeOK, RoundSet
<1>2. CASE at'[p] = at[p] /\ (computed[p] => computed'[p])
  BY <1>2 DEF Reached
<1>3. CASE Before(at[p], at'[p])
  BY <1>1, <1>3, Constants DEF Reached, Before, RoundSet
<1>. QED
  BY <1>2, <1>3, Moves

\* The only round of the step list a node leaves is one it has gathered.
LEMMA LeavesGathered ==
  ASSUME TypeOK, RootIsLast, [Next]_vars, NEW n \in Node,
         NEW f \in 1 .. Len(calls'), NEW s \in 1 .. NSteps,
         NEW r \in 0 .. LastRow(f)', Before(Round(f, s, r), at'[n])
  PROVE  /\ f \in 1 .. Len(calls) /\ r \in 0 .. LastRow(f)
         /\ \/ Before(Round(f, s, r), at[n])
            \/ \A p \in Needs(n, s) : Reached(p, Round(f, s, r))
<1> USE Constants
<1> DEFINE R == Round(f, s, r)
<1>0. at[n].fwd <= Len(calls) /\ Len(calls) \in Nat
  BY DEF TypeOK
<1>1. ASSUME NEW b \in 1 .. NBatches, Announce(b)
      PROVE  f \in 1 .. Len(calls) /\ r \in 0 .. LastRow(f) /\ Before(R, at[n])
  <2>1. \A i \in 1 .. Len(calls) : calls'[i] = calls[i]
    BY <1>1 DEF Announce, TypeOK
  <2>2. Len(calls') = Len(calls) + 1
    BY <1>1 DEF Announce, TypeOK
  <2>3. CASE n = Root
    <3>1. at'[n] = Round(Len(calls) + 1, 1, 0) /\ at[n].step = Idle
      BY <1>1, <2>3 DEF Announce, TypeOK, RootIsLast
    <3>2. f \in 1 .. Len(calls) /\ Before(R, at[n])
      BY <1>0, <2>2, <2>3, <3>1 DEF Before, Round, RootIsLast
    <3>. QED
      BY <2>1, <3>2 DEF LastRow
  <2>4. CASE n # Root
    <3>1. at'[n] = at[n]
      BY <1>1, <2>4 DEF Announce, TypeOK
    <3>2. f \in 1 .. Len(calls)
      BY <1>0, <3>1, <2>2, AtType DEF Before, Round
    <3>. QED
      BY <2>1, <3>1, <3>2 DEF LastRow
  <2>. QED
    BY <2>3, <2>4
<1>2. ASSUME NEW w \in Worker, Join(w)
      PROVE  calls' = calls /\ Before(R, at[n])
  <2>1. CASE n = w
    BY <1>2, <2>1, AtType DEF Join, TypeOK, Before, Round
  <2>2. CASE n # w
    BY <1>2, <2>2 DEF Join, TypeOK
  <2>. QED
    BY <1>2, <2>1, <2>2 DEF Join
<1>3. ASSUME NEW m \in Node, Compute(m)
      PROVE  calls' = calls /\ Before(R, at[n])
  BY <1>3 DEF Compute
<1>4. ASSUME NEW m \in Node, Complete(m)
      PROVE  /\ calls' = calls
             /\ \/ Before(R, at[n])
                \/ \A p \in Needs(n, s) : Reached(p, R)
  <2>0. calls' = calls
    BY <1>4 DEF Complete, NextRow, NextStep, Ready
  <2>1. CASE n # m
    BY <1>4, <2>0, <2>1 DEF Complete, NextRow, NextStep, Ready, TypeOK
  <2>2. CASE n = m
    <3>0. r < calls[f].batch /\ r \in Nat
      <4>1. calls[f].batch \in Nat
        BY <2>0, CallType
      <4>. QED
        BY <2>0, <4>1 DEF LastRow
    <3>1. at[n] \in RoundSet
      BY DEF TypeOK, RoundSet
    <3>2. Before(R, at[n]) \/ R = at[n]
      <4>1. CASE at'[n] = Round(at[n].fwd, at[n].step, at[n].row + 1)
        BY <3>0, <3>1, <4>1, AtType DEF Before, Round, RoundSet
      <4>2. CASE /\ at'[n] = Round(at[n].fwd, at[n].step + 1, 0)
                 /\ at[n].row + 1 = calls[at[n].fwd].batch
        BY <3>0, <3>1, <4>2, AtType DEF Before, Round, RoundSet
      <4>. QED
        BY <1>4, <2>2, <4>1, <4>2 DEF Complete, NextRow, NextStep, Ready, TypeOK
    <3>3. R.step = s
      BY DEF Round
    <3>. QED
      BY <1>4, <2>0, <2>2, <3>2, <3>3 DEF Complete, NextRow, NextStep, Ready
  <2>. QED
    BY <2>1, <2>2
<1>5. CASE UNCHANGED vars
  BY <1>5 DEF vars, LastRow
<1>. QED
  BY <1>1, <1>2, <1>3, <1>4, <1>5 DEF Next, Rest, LastRow

\* A step of the invariant: a round just left has been gathered, the rounds left
\* before were, and what was produced stays produced.
LEMMA NextIInv == IInv /\ [Next]_vars => IInv'
<1> SUFFICES ASSUME IInv, [Next]_vars PROVE IInv'
  OBVIOUS
<1>1. TypeOK' /\ RootIsLast'
  BY NextTypeOK DEF IInv
<1>2. Gathered'
  <2> SUFFICES ASSUME NEW n \in Node, NEW f \in 1 .. Len(calls'), NEW s \in 1 .. NSteps,
                      NEW r \in 0 .. LastRow(f)', Before(Round(f, s, r), at'[n]),
                      NEW p \in Needs(n, s)
               PROVE  Reached(p, Round(f, s, r))'
    BY DEF Gathered, Before
  <2>1. Reached(p, Round(f, s, r))
    <3>1. /\ f \in 1 .. Len(calls) /\ r \in 0 .. LastRow(f)
          /\ \/ Before(Round(f, s, r), at[n])
             \/ \A q \in Needs(n, s) : Reached(q, Round(f, s, r))
      BY LeavesGathered DEF IInv
    <3>. QED
      BY <3>1 DEF IInv, Gathered
  <2>2. p \in Node
    BY Constants DEF Needs
  <2>3. Round(f, s, r) \in RoundSet
    <3>1. r \in Nat
      OBVIOUS
    <3>. QED
      BY <3>1, Constants DEF Round, RoundSet
  <2>. QED
    BY <1>1, <2>1, <2>2, <2>3, ReachedStable DEF IInv
<1>. QED
  BY <1>1, <1>2 DEF IInv

\* Who is past an all-gather has met everybody there.
LEMMA IInvLockstep == IInv => Lockstep
<1> SUFFICES ASSUME IInv, NEW m \in Node, NEW n \in Node, at[m].step \in 3 .. NSteps
             PROVE  ~ Before(at[n], Round(at[m].fwd, at[m].step - 1, LastRow(at[m].fwd)))
  BY DEF Lockstep
<1> DEFINE f == at[m].fwd
<1> DEFINE R == Round(f, at[m].step - 1, LastRow(f))
<1>1. TypeOK
  BY DEF IInv
<1>2. f \in 1 .. Len(calls)
  BY <1>1, Constants DEF TypeOK
<1>3. LastRow(f) \in Nat
  BY <1>1, <1>2, CallType DEF LastRow
<1>4. R \in RoundSet /\ Before(R, at[m])
  BY <1>1, <1>2, <1>3, AtType, Constants DEF Round, RoundSet, Before
<1>5. Needs(m, at[m].step - 1) = Node
  BY Constants DEF Needs
<1>6. Reached(n, R)
  <2>1. at[m].step - 1 \in 1 .. NSteps /\ LastRow(f) \in 0 .. LastRow(f)
    BY <1>3, Constants
  <2>. QED
    BY <1>2, <1>4, <1>5, <2>1 DEF IInv, Gathered
<1>7. at[n] \in RoundSet
  BY <1>1 DEF TypeOK, RoundSet
<1>. QED
  BY <1>4, <1>6, <1>7, BeforeIsOrder DEF Reached

\* The root is past the last round of every forward but the one it is in.
LEMMA IInvRootLeads == IInv => RootLeads
<1> SUFFICES ASSUME IInv, NEW w \in Worker
             PROVE  /\ at[w].fwd <= at[Root].fwd
                    /\ \A f \in 1 .. Len(calls) :
                         f < at[Root].fwd \/ at[Root].step = Idle =>
                           Reached(w, Round(f, NSteps, LastRow(f)))
  BY DEF RootLeads
<1>1. TypeOK /\ w \in Node
  BY DEF IInv, Worker
<1>2. at[w].fwd <= at[Root].fwd
  BY <1>1 DEF IInv, RootIsLast, TypeOK
<1>3. ASSUME NEW f \in 1 .. Len(calls), f < at[Root].fwd \/ at[Root].step = Idle
      PROVE  Reached(w, Round(f, NSteps, LastRow(f)))
  <2>1. LastRow(f) \in Nat
    BY <1>1, CallType DEF LastRow
  <2>2. Before(Round(f, NSteps, LastRow(f)), at[Root])
    BY <1>1, <1>3, AtType, Constants DEF Round, Before, IInv, RootIsLast
  <2>3. Needs(Root, NSteps) = Node
    BY Constants DEF Needs
  <2>4. NSteps \in 1 .. NSteps /\ LastRow(f) \in 0 .. LastRow(f)
    BY <2>1, Constants
  <2>. QED
    BY <1>1, <2>2, <2>3, <2>4, Constants DEF IInv, Gathered
<1>. QED
  BY <1>2, <1>3

-----------------------------------------------------------------------------
\* The inductive invariant of the collective operations.
LEMMA Invariance == Spec => []IInv
  BY InitIInv, NextIInv, PTL DEF Spec

\* Every node is between forwards or in a row of the batch that was announced.
THEOREM TypeCorrect == Spec => []TypeOK
<1>1. IInv => TypeOK
  BY DEF IInv
<1>. QED
  BY <1>1, Invariance, PTL

\* The promise of the synchronisation: who is past a round has gathered it.
THEOREM GatheredHolds == Spec => []Gathered
<1>1. IInv => Gathered
  BY DEF IInv
<1>. QED
  BY <1>1, Invariance, PTL

\* No node is ever more than one all-gather ahead of another.
THEOREM LockstepHolds == Spec => []Lockstep
  BY IInvLockstep, Invariance, PTL

\* The root never announces a forward while a worker still computes the last.
THEOREM RootLeadsHolds == Spec => []RootLeads
  BY IInvRootLeads, Invariance, PTL

=============================================================================
