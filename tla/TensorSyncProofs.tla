--------------------------- MODULE TensorSyncProofs ---------------------------
(***************************************************************************)
(* Proofs about TensorSync, for any number of nodes, layers, rows, threads *)
(* and chunks.                                                             *)
(*                                                                         *)
(* In spite of failures: the types of its state, and that the streams      *)
(* between the nodes stay aligned, if thread 0 of every node serves all    *)
(* its sockets.                                                            *)
(*                                                                         *)
(* As long as there is no fault: a cluster ends in order; all that the     *)
(* threads, sockets and streams do is a step of the collective operations  *)
(* (Collective), or none, so that the theorems of that module hold of the  *)
(* nodes; and therefore a bounded amount of data is all that a connection  *)
(* ever has to buffer.                                                     *)
(***************************************************************************)
EXTENDS TensorSync, TLAPS

\* What the assumption on the constants gives: the root is a node, there is a
\* first step, a row and a chunk.
LEMMA Constants ==
  /\ Root \in Node
  /\ NSteps \in Nat /\ NSteps >= 4
  /\ NBatches \in Nat /\ NBatches > 0
  /\ Chunks \in Nat /\ Chunks > 0
  /\ 0 \in Rows
  /\ 1 \in Steps /\ NSteps \in Steps
  /\ Worker \subseteq Node
  BY ClusterAssumption DEF Node, Root, NSteps, Rows, Steps, Worker

\* What one update of a table of links changes.
LEMMA LinkUpdate ==
  ASSUME NEW S, NEW c, c \in [Node -> [Node -> S]], NEW k \in Node, NEW l \in Node, NEW q
  PROVE  /\ [c EXCEPT ![k][l] = q][k][l] = q
         /\ \A a, b \in Node : a # k \/ b # l => [c EXCEPT ![k][l] = q][a][b] = c[a][b]
<1> DEFINE d == [c EXCEPT ![k][l] = q]
<1>1. d[k] = [c[k] EXCEPT ![l] = q] /\ \A a \in Node \ {k} : d[a] = c[a]
  OBVIOUS
<1>2. c[k] \in [Node -> S]
  OBVIOUS
<1> HIDE DEF d
<1>3. d[k][l] = q /\ \A b \in Node \ {l} : d[k][b] = c[k][b]
  BY <1>1, <1>2
<1>. QED
  BY <1>1, <1>3 DEF d

\* The peers of a node are nodes, and so are those it writes to and reads from.
LEMMA PeersAreNodes ==
  ASSUME NEW n \in Node, NEW s \in Steps
  PROVE  /\ Peers(n) \subseteq Node /\ Worker \subseteq Node
         /\ Targets(n, s) \subseteq Node
         /\ Sources(n, s) \subseteq Node
<1>1. Served(n) \subseteq Node
  BY DEF Served, Peers
<1>. QED
  BY <1>1, Constants DEF Peers, Worker, Targets, Sources

\* Versions, control packets and chunks of data are what the channels carry.
LEMMA MessageTypes ==
  /\ \A f \in Nat, s \in 0 .. NSteps : Version(f, s) \in Versions
  /\ Blank \in Versions
  /\ \A f \in Nat, c \in Calls : Control(f, c) \in Messages
  /\ Stop \in Calls
  /\ \A v \in Versions, r \in Rows, c \in 0 .. Chunks - 1 : Data(v, r, c) \in Messages
<1> USE Constants
<1>1. \A f \in Nat, s \in 0 .. NSteps : Version(f, s) \in Versions
  BY DEF Version, Versions
<1>2. Blank \in Versions
  BY <1>1 DEF Blank
<1>3. Stop \in Calls
  BY DEF Stop, Call, Calls
<1>4. \A f \in Nat, c \in Calls : Control(f, c) \in Messages
  BY <1>1 DEF Control, Messages
<1>5. \A v \in Versions, r \in Rows, c \in 0 .. Chunks - 1 : Data(v, r, c) \in Messages
  BY <1>3 DEF Data, Messages
<1>. QED
  BY <1>1, <1>2, <1>3, <1>4, <1>5

\* Appending a message to a connection, and taking one off, keep its type.
LEMMA ChanType ==
  ASSUME chan \in [Node -> [Node -> Seq(Messages)]], NEW m \in Node, NEW n \in Node
  PROVE  /\ \A d \in Messages :
              [chan EXCEPT ![m][n] = Append(@, d)] \in [Node -> [Node -> Seq(Messages)]]
         /\ chan[m][n] # <<>> =>
              /\ Head(chan[m][n]) \in Messages
              /\ [chan EXCEPT ![m][n] = Tail(@)] \in [Node -> [Node -> Seq(Messages)]]
<1>1. chan[m][n] \in Seq(Messages)
  OBVIOUS
<1>2. \A d \in Messages : Append(chan[m][n], d) \in Seq(Messages)
  BY <1>1
<1>3. chan[m][n] # <<>> =>
        Head(chan[m][n]) \in Messages /\ Tail(chan[m][n]) \in Seq(Messages)
  BY <1>1
<1>. QED
  BY <1>2, <1>3

\* Progress of an I/O call: a chunk more is still within the slice.
LEMMA TurnType ==
  ASSUME TypeOK, NEW n \in Node, NEW p \in Node, NEW S, Turn(n, p, S, Chunks)
  PROVE  /\ io[n][p] \in 0 .. Chunks - 1
         /\ [io EXCEPT ![n][p] = @ + 1] \in [Node -> [Node -> 0 .. Chunks]]
<1>1. io \in [Node -> [Node -> 0 .. Chunks]]
  BY DEF TypeOK
<1>2. io[n][p] \in 0 .. Chunks /\ io[n][p] < Chunks
  BY <1>1 DEF Turn
<1>3. io[n][p] \in 0 .. Chunks - 1 /\ io[n][p] + 1 \in 0 .. Chunks
  BY <1>2, Constants
<1>. QED
  BY <1>1, <1>3

\* Goto keeps the types of pc and io.
LEMMA GotoType ==
  ASSUME TypeOK, NEW n \in Node, NEW l \in Labels, Goto(n, l)
  PROVE  /\ pc' \in [Node -> Labels]
         /\ io' \in [Node -> [Node -> 0 .. Chunks]]
  BY Constants DEF TypeOK, Goto, NoIO

\* The state the processes start in is of the right type.
LEMMA InitTypeOK == Init => TypeOK
<1> SUFFICES ASSUME Init PROVE TypeOK
  OBVIOUS
<1>1. calls \in Seq([pos : Nat, batch : 1 .. NBatches])
  BY DEF Init
<1>2. pc \in [Node -> Labels] /\ io \in [Node -> [Node -> 0 .. Chunks]]
  BY Constants DEF Init, Labels, NoIO
<1>3. chan \in [Node -> [Node -> Seq(Messages)]]
  BY DEF Init
<1>4. /\ x \in [Node -> [Rows -> Versions]]
      /\ zq \in [Node -> [Rows -> [Node -> Versions]]]
      /\ lg \in [Node -> [Rows -> [Node -> Versions]]]
  BY MessageTypes DEF Init
<1>5. /\ fwd \in [Node -> Nat] /\ pos \in [Node -> Nat]
      /\ batch \in [Node -> 0 .. NBatches]
      /\ step \in [Node -> Steps] /\ row \in [Node -> Rows] /\ faults \in Nat
  BY Constants DEF Init, Steps
<1>. QED
  BY <1>1, <1>2, <1>3, <1>4, <1>5 DEF TypeOK

\* Every action keeps positions, pipes and connections in their types.
LEMMA NextTypeOK == TypeOK /\ [Next]_vars => TypeOK'
<1> SUFFICES ASSUME TypeOK, [Next]_vars PROVE TypeOK'
  OBVIOUS
<1> USE Constants
<1>1. ASSUME NEW b \in 1 .. NBatches, RootForward(b)
      PROVE  TypeOK'
  <2>1. FirstRow(b) \in Nat
    BY DEF TypeOK, FirstRow
  <2>2. calls' \in Seq([pos : Nat, batch : 1 .. NBatches])
    <3>1. Call(FirstRow(b), b) \in [pos : Nat, batch : 1 .. NBatches]
      BY <2>1 DEF Call
    <3>. QED
      BY <1>1, <3>1 DEF RootForward, TypeOK
  <2>3. /\ pc' \in [Node -> Labels]
        /\ io' \in [Node -> [Node -> 0 .. Chunks]]
    BY <1>1, GotoType DEF RootForward, Labels, InForward
  <2>4. /\ pos' \in [Node -> Nat] /\ fwd' \in [Node -> Nat]
        /\ batch' \in [Node -> 0 .. NBatches]
    BY <1>1, <2>1 DEF RootForward, TypeOK
  <2>. QED
    BY <1>1, <2>2, <2>3, <2>4 DEF RootForward, TypeOK, pipes
<1>2. ASSUME RootFinish PROVE TypeOK'
  <2>1. /\ pc' \in [Node -> Labels]
        /\ io' \in [Node -> [Node -> 0 .. Chunks]]
    BY <1>2, GotoType DEF RootFinish, Labels
  <2>. QED
    BY <1>2, <2>1 DEF RootFinish, TypeOK, place, pipes
<1>3. ASSUME NEW p \in Worker, RootBroadcast(p)
      PROVE  TypeOK'
  <2>1. p \in Node
    BY DEF Worker
  <2>2. PICK m \in Messages : chan' = [chan EXCEPT ![Root][p] = Append(@, m)]
    <3>1. Control(fwd[Root] + 1, Stop) \in Messages
      BY MessageTypes DEF TypeOK
    <3>2. Control(fwd[Root], Call(pos[Root], batch[Root])) \in Messages
      <4>1. Call(pos[Root], batch[Root]) \in Calls
        BY DEF TypeOK, Call, Calls
      <4>. QED
        BY <4>1, MessageTypes DEF TypeOK
    <3>. QED
      BY <1>3, <3>1, <3>2 DEF RootBroadcast
  <2>3. chan' \in [Node -> [Node -> Seq(Messages)]]
    BY <2>1, <2>2, ChanType DEF TypeOK
  <2>4. io' \in [Node -> [Node -> 0 .. Chunks]]
    <3>1. io[Root][p] + 1 \in 0 .. Chunks
      <4>1. io[Root][p] < 1
        BY <1>3 DEF RootBroadcast, Turn
      <4>2. io[Root][p] \in 0 .. Chunks
        BY <2>1 DEF TypeOK
      <4>. QED
        BY <4>1, <4>2
    <3>. QED
      BY <1>3, <2>1, <3>1 DEF RootBroadcast, TypeOK
  <2>. QED
    BY <1>3, <2>3, <2>4 DEF RootBroadcast, TypeOK, place, pipes
<1>4. ASSUME RootBroadcastDone PROVE TypeOK'
  <2>1. /\ pc' \in [Node -> Labels]
        /\ io' \in [Node -> [Node -> 0 .. Chunks]]
    BY <1>4, GotoType DEF RootBroadcastDone, Labels, InForward, Stopped
  <2>2. step' \in [Node -> Steps]
    BY <1>4 DEF RootBroadcastDone, TypeOK
  <2>. QED
    BY <1>4, <2>1, <2>2 DEF RootBroadcastDone, TypeOK, pipes
<1>5. ASSUME NEW w \in Worker, ReadControl(w)
      PROVE  TypeOK'
  <2>1. w \in Node
    BY DEF Worker
  <2>2. chan' \in [Node -> [Node -> Seq(Messages)]] /\ Head(chan[Root][w]) \in Messages
    BY <1>5, <2>1, ChanType DEF TypeOK, ReadControl
  <2>3. /\ pc' \in [Node -> Labels]
        /\ io' \in [Node -> [Node -> 0 .. Chunks]]
    BY <1>5, <2>1, GotoType DEF ReadControl, StartForward, Labels, InForward, Stopped
  <2>4. /\ fwd' \in [Node -> Nat] /\ pos' \in [Node -> Nat]
        /\ batch' \in [Node -> 0 .. NBatches]
        /\ step' \in [Node -> Steps] /\ row' \in [Node -> Rows]
    <3>1. /\ Head(chan[Root][w]).call.pos \in Nat
          /\ Head(chan[Root][w]).call.batch \in 0 .. NBatches
      BY <2>2 DEF Messages, Calls
    <3> DEFINE c == Head(chan[Root][w]).call
    <3> HIDE DEF c
    <3>2. CASE StartForward(w, c)
      <4>1. c.pos \in Nat /\ c.batch \in 0 .. NBatches
        BY <3>1 DEF c
      <4>2. pos' \in [Node -> Nat] /\ batch' \in [Node -> 0 .. NBatches]
        <5>1. pos' = [pos EXCEPT ![w] = c.pos] /\ batch' = [batch EXCEPT ![w] = c.batch]
          BY <3>2 DEF StartForward
        <5>2. pos \in [Node -> Nat] /\ batch \in [Node -> 0 .. NBatches]
          BY DEF TypeOK
        <5>. QED
          BY ONLY <4>1, <5>1, <5>2
      <4>3. fwd' \in [Node -> Nat]
        BY <2>1, <3>2 DEF StartForward, TypeOK
      <4>4. step' \in [Node -> Steps] /\ row' \in [Node -> Rows]
        BY <2>1, <3>2 DEF StartForward, TypeOK
      <4>. QED
        BY <4>2, <4>3, <4>4
    <3>3. CASE UNCHANGED place
      BY <3>3 DEF TypeOK, place
    <3>4. StartForward(w, c) \/ UNCHANGED place
      BY <1>5 DEF ReadControl, c
    <3>. QED
      BY <3>2, <3>3, <3>4
  <2>. QED
    BY <1>5, <2>2, <2>3, <2>4 DEF ReadControl, TypeOK, pipes
<1>6. ASSUME NEW n \in Node, Compute(n)
      PROVE  TypeOK'
  <2>1. /\ pc' \in [Node -> Labels]
        /\ io' \in [Node -> [Node -> 0 .. Chunks]]
    BY <1>6, GotoType DEF Compute, Labels, InForward
  <2>2. Version(fwd[n], step[n]) \in Versions
    <3>1. fwd[n] \in Nat /\ step[n] \in Steps
      BY DEF TypeOK
    <3>2. step[n] \in 0 .. NSteps
      BY <3>1, Constants DEF Steps
    <3>. QED
      BY <3>1, <3>2, MessageTypes
  <2>3. /\ OwnSlice(n, zq[n]) \in [Rows -> [Node -> Versions]]
        /\ OwnSlice(n, lg[n]) \in [Rows -> [Node -> Versions]]
        /\ [r \in Rows |-> IF r < batch[n] THEN Version(fwd[n], step[n]) ELSE x[n][r]]
             \in [Rows -> Versions]
    BY <2>2 DEF OwnSlice, TypeOK
  <2>4. /\ x' \in [Node -> [Rows -> Versions]]
        /\ zq' \in [Node -> [Rows -> [Node -> Versions]]]
        /\ lg' \in [Node -> [Rows -> [Node -> Versions]]]
    <3>1. CASE /\ x' = [x EXCEPT ![n] =
                    [r \in Rows |->
                       IF r < batch[n] THEN Version(fwd[n], step[n]) ELSE x[n][r]]]
               /\ UNCHANGED <<zq, lg>>
      BY <2>3, <3>1 DEF TypeOK
    <3>2. CASE zq' = [zq EXCEPT ![n] = OwnSlice(n, zq[n])] /\ UNCHANGED <<x, lg>>
      BY <2>3, <3>2 DEF TypeOK
    <3>3. CASE lg' = [lg EXCEPT ![n] = OwnSlice(n, lg[n])] /\ UNCHANGED <<x, zq>>
      BY <2>3, <3>3 DEF TypeOK
    <3>. QED
      BY <1>6, <3>1, <3>2, <3>3 DEF Compute
  <2>5. row' \in [Node -> Rows]
    BY <1>6 DEF Compute, TypeOK
  <2>. QED
    BY <1>6, <2>1, <2>4, <2>5 DEF Compute, TypeOK
<1>7. ASSUME NEW n \in Node, NEW p \in Peers(n), WriteChunk(n, p)
      PROVE  TypeOK'
  <2>1. p \in Node
    BY DEF Peers
  <2>2. io[n][p] \in 0 .. Chunks - 1
    BY <1>7, <2>1, TurnType DEF WriteChunk
  <2>3. Outgoing(n) \in Versions
    BY DEF Outgoing, TypeOK
  <2>4. Data(Outgoing(n), row[n], io[n][p]) \in Messages
    BY <2>2, <2>3, MessageTypes DEF TypeOK
  <2>5. chan' \in [Node -> [Node -> Seq(Messages)]]
    BY <1>7, <2>1, <2>4, ChanType DEF WriteChunk, NextChunk, TypeOK
  <2>6. io' \in [Node -> [Node -> 0 .. Chunks]]
    BY <1>7, <2>1, TurnType DEF WriteChunk
  <2>. QED
    BY <1>7, <2>5, <2>6 DEF WriteChunk, TypeOK, place, pipes
<1>8. ASSUME NEW n \in Node, WriteDone(n)
      PROVE  TypeOK'
  <2>1. /\ pc' \in [Node -> Labels]
        /\ io' \in [Node -> [Node -> 0 .. Chunks]]
    BY <1>8, GotoType DEF WriteDone, Labels, InForward
  <2>. QED
    BY <1>8, <2>1 DEF WriteDone, TypeOK, place, pipes
<1>9. ASSUME NEW n \in Node, NEW p \in Peers(n), ReadChunk(n, p)
      PROVE  TypeOK'
  <2>1. p \in Node
    BY DEF Peers
  <2>2. chan' \in [Node -> [Node -> Seq(Messages)]] /\ Head(chan[p][n]) \in Messages
    BY <1>9, <2>1, ChanType DEF ReadChunk, TypeOK
  <2>4. io' \in [Node -> [Node -> 0 .. Chunks]]
    <3>1. [io EXCEPT ![n][p] = @ + 1] \in [Node -> [Node -> 0 .. Chunks]]
      BY <1>9, <2>1, TurnType DEF ReadChunk
    <3>2. io' = io \/ io' = [io EXCEPT ![n][p] = @ + 1]
      BY <1>9 DEF ReadChunk
    <3>. QED
      BY <3>1, <3>2 DEF TypeOK
  <2>5. Head(chan[p][n]).ver \in Versions
    BY <2>2 DEF Messages
  <2>6. /\ x' \in [Node -> [Rows -> Versions]]
        /\ zq' \in [Node -> [Rows -> [Node -> Versions]]]
        /\ lg' \in [Node -> [Rows -> [Node -> Versions]]]
    <3>1. CASE Store(n, p, Head(chan[p][n]).ver)
      <4> DEFINE v == Head(chan[p][n]).ver
      <4> HIDE DEF v
      <4>1. v \in Versions /\ Store(n, p, v)
        BY <2>5, <3>1 DEF v
      <4>2. /\ row[n] \in Rows
            /\ x[n] \in [Rows -> Versions]
            /\ zq[n][row[n]] \in [Node -> Versions]
            /\ lg[n][row[n]] \in [Node -> Versions]
        BY DEF TypeOK
      <4>3. v \in Versions
        BY <4>1
      <4>4. /\ [x[n] EXCEPT ![row[n]] = v] \in [Rows -> Versions]
            /\ [zq[n][row[n]] EXCEPT ![p] = v] \in [Node -> Versions]
            /\ [lg[n][row[n]] EXCEPT ![p] = v] \in [Node -> Versions]
        BY <2>1, <4>2, <4>3
      <4>5. /\ [zq[n] EXCEPT ![row[n]][p] = v] \in [Rows -> [Node -> Versions]]
            /\ [lg[n] EXCEPT ![row[n]][p] = v] \in [Rows -> [Node -> Versions]]
        BY <4>4 DEF TypeOK
      <4>6. CASE x' = [x EXCEPT ![n][row[n]] = v] /\ UNCHANGED <<zq, lg>>
        BY <4>4, <4>6 DEF TypeOK
      <4>7. CASE zq' = [zq EXCEPT ![n][row[n]][p] = v] /\ UNCHANGED <<x, lg>>
        BY <4>5, <4>7 DEF TypeOK
      <4>8. CASE lg' = [lg EXCEPT ![n][row[n]][p] = v] /\ UNCHANGED <<x, zq>>
        BY <4>5, <4>8 DEF TypeOK
      <4>. QED
        BY <4>1, <4>6, <4>7, <4>8 DEF Store
    <3>2. CASE UNCHANGED pipes
      BY <3>2 DEF TypeOK, pipes
    <3>. QED
      BY <1>9, <3>1, <3>2 DEF ReadChunk
  <2>. QED
    BY <1>9, <2>2, <2>4, <2>6 DEF ReadChunk, TypeOK, place
<1>10. ASSUME NEW n \in Node, RowDone(n)
       PROVE  TypeOK'
  <2>1. /\ pc' \in [Node -> Labels]
        /\ io' \in [Node -> [Node -> 0 .. Chunks]]
    <3>1. {"send", "op", "ctl"} \subseteq Labels
      BY DEF Labels, InForward
    <3>2. PICK l \in {"send", "op", "ctl"} : Goto(n, l)
      BY <1>10 DEF RowDone, NextRow, NextSegment, ForwardReturn
    <3>. QED
      BY <3>1, <3>2, GotoType
  <2>2. step' \in [Node -> Steps]
    <3>1. step[n] < NSteps => step[n] + 1 \in Steps
      <4>1. step[n] \in Nat /\ step[n] >= 1 /\ NSteps \in Nat
        BY DEF TypeOK, Steps
      <4>. QED
        BY <4>1 DEF Steps
    <3>. QED
      BY <1>10, <3>1 DEF RowDone, NextRow, NextSegment, ForwardReturn, TypeOK
  <2>3. row' \in [Node -> Rows]
    <3>1. row[n] + 1 < batch[n] => row[n] + 1 \in Rows
      <4>1. row[n] \in Nat /\ batch[n] \in 0 .. NBatches /\ NBatches \in Nat
        BY DEF TypeOK, Rows
      <4>. QED
        BY <4>1 DEF Rows
    <3>. QED
      BY <1>10, <3>1 DEF RowDone, NextRow, NextSegment, ForwardReturn, TypeOK
  <2>. QED
    BY <1>10, <2>1, <2>2, <2>3 DEF RowDone, NextRow, NextSegment, ForwardReturn, TypeOK, pipes
<1>11. ASSUME NEW n \in Node, NEW l \in Labels, Goto(n, l),
              UNCHANGED <<calls, place, chan, pipes>>, faults' \in Nat
       PROVE  TypeOK'
  <2>1. /\ pc' \in [Node -> Labels]
        /\ io' \in [Node -> [Node -> 0 .. Chunks]]
    BY <1>11, GotoType
  <2>. QED
    BY <1>11, <2>1 DEF TypeOK, place, pipes
<1>12. ASSUME NEW n \in Node, Crash(n) PROVE TypeOK'
  <2>1. "dead" \in Labels /\ faults' \in Nat
    BY <1>12 DEF Crash, Labels, Stopped, TypeOK
  <2>. QED
    BY <1>11, <1>12, <2>1 DEF Crash
<1>13. ASSUME RootRaise PROVE TypeOK'
  <2>1. "finish" \in Labels /\ faults' \in Nat
    BY <1>13 DEF RootRaise, Labels, TypeOK
  <2>. QED
    BY <1>11, <1>13, <2>1 DEF RootRaise
<1>14. ASSUME NEW n \in Node, OnError(n) PROVE TypeOK'
  BY <1>11, <1>14 DEF OnError, Labels, Stopped, TypeOK
<1>15. CASE UNCHANGED vars
  BY <1>15 DEF vars, place, pipes, TypeOK
<1>16. ASSUME RootStep PROVE TypeOK'
  BY <1>3, <1>4, <1>16 DEF RootStep
<1>17. ASSUME NEW n \in Node, NodeStep(n) PROVE TypeOK'
  BY <1>6, <1>7, <1>8, <1>9, <1>10, <1>14, <1>17 DEF NodeStep, WriteError, ReadError
<1>. QED
  BY <1>1, <1>2, <1>5, <1>12, <1>13, <1>15, <1>16, <1>17 DEF Next, Terminated

\* No execution, with any thread counts and any failures, walks past the step
\* list, the rows of a pipe, the size of a slice or the largest batch.
THEOREM TypeCorrect == Spec => []TypeOK
  BY InitTypeOK, NextTypeOK, PTL DEF Spec


-----------------------------------------------------------------------------
(* The inductive invariant.                                                *)

\* Thread 0 of every node serves all its sockets: what --nthreads 1, or a
\* single worker, comes to.
AllServed == \A n \in Node : Served(n) = Peers(n)

\* The steps in which m sends to n, step 0 being the control packet.
FirstStep(m) == IF m = Root THEN 0 ELSE 2
LastStep(n) == IF n = Root THEN NSteps ELSE NSteps - 1

At(f, s, r, c) == [fwd |-> f, step |-> s, row |-> r, chunk |-> c]

\* A control packet is one chunk, sent once.
SizeOf(s) == IF s = 0 THEN 1 ELSE Chunks
RowsOf(cs, f, s) == IF s = 0 THEN 1 ELSE cs[f].batch

\* What m has to send to n next when c chunks of row r of step s of forward f
\* are through; cs are the calls.
Due(cs, m, n, f, s, r, c) ==
  IF s < FirstStep(m) THEN At(f, FirstStep(m), 0, 0)
  ELSE IF s > LastStep(n) THEN At(f + 1, FirstStep(m), 0, 0)
  ELSE IF c < SizeOf(s) THEN At(f, s, r, c)
  ELSE IF r + 1 < RowsOf(cs, f, s) THEN At(f, s, r + 1, 0)
  ELSE IF s < LastStep(n) THEN At(f, s + 1, 0, 0)
  ELSE At(f + 1, FirstStep(m), 0, 0)

\* The chunk a message is, and the one that is due after it.
Place(d) == At(d.ver.fwd, d.ver.step, d.row, d.chunk)
After(cs, m, n, d) == Due(cs, m, n, d.ver.fwd, d.ver.step, d.row, d.chunk + 1)

\* The step a node is at, the control packet and the end of forward included.
StepOf(n) ==
  IF pc[n] = "announce" THEN 0 ELSE IF pc[n] = "ctl" THEN NSteps + 1 ELSE step[n]
RowOf(n) == IF pc[n] \in {"send", "recv"} THEN row[n] ELSE 0

\* What n is to write to p next, and what it is to read from p next.
DueOut(n, p) ==
  Due(calls, n, p, fwd[n], StepOf(n), RowOf(n),
      IF pc[n] \in {"announce", "send"} THEN io[n][p]
      ELSE IF pc[n] = "recv" THEN Chunks ELSE 0)
DueIn(n, p) ==
  Due(calls, p, n, fwd[n], StepOf(n), RowOf(n), IF pc[n] = "recv" THEN io[n][p] ELSE 0)

\* A node that has not given up.
Alive(n) == pc[n] \in InForward \cup {"ctl"}

\* q is what is on its way from m to n, when n is to read the chunk at start:
\* chunk after chunk as they are due, then nothing but stop packets.
Aligned(cs, m, n, q, start) ==
  \A i \in 1 .. Len(q) :
    \/ IsStop(q[i])
    \/ /\ Place(q[i]) = IF i = 1 THEN start ELSE After(cs, m, n, q[i - 1])
       /\ \A j \in 1 .. i - 1 : ~ IsStop(q[j])

NoStops(q) == \A i \in 1 .. Len(q) : ~ IsStop(q[i])

\* What is due behind q.
EndOf(cs, m, n, q, start) == IF q = <<>> THEN start ELSE After(cs, m, n, q[Len(q)])

LinkInv(m, n) ==
  Alive(n) =>
    /\ Aligned(calls, m, n, chan[m][n], DueIn(n, m))
    /\ Alive(m) =>
         /\ NoStops(chan[m][n])
         /\ EndOf(calls, m, n, chan[m][n], DueIn(n, m)) = DueOut(m, n)

\* A message is of a forward that was announced; a control packet says what the
\* root announced.
Genuine(cs, d) ==
  \/ IsStop(d)
  \/ /\ d.ver.fwd \in 1 .. Len(cs)
     /\ d.call = IF IsControl(d) THEN cs[d.ver.fwd] ELSE Stop

GenuineAll(cs, q) == \A i \in 1 .. Len(q) : Genuine(cs, q[i])

\* Who is in which forward.
CallInv ==
  /\ fwd[Root] = Len(calls)
  /\ \A n \in Node : pc[n] \in InForward =>
       /\ fwd[n] \in 1 .. Len(calls)
       /\ calls[fwd[n]] = Call(pos[n], batch[n])
  /\ \A n \in Node : pc[n] \in {"send", "recv"} => row[n] < batch[n]
  /\ \A w \in Worker : pc[w] \notin {"announce", "finish"}

\* The pipe that step s brings together: the part of node p in row r.
Part(n, s, r, p) ==
  IF s = 1 THEN x[n][r] ELSE IF s = NSteps THEN lg[n][r][p] ELSE zq[n][r][p]

\* Whose parts n has of step s, besides those it receives.
Own(n, s) == IF s = 1 /\ n # Root THEN {} ELSE {n}

\* All that n needs of step s is there, in all rows.
Gathered(n, s) ==
  \A r \in 0 .. batch[n] - 1 : \A p \in Own(n, s) \cup Sources(n, s) :
    Part(n, s, r, p) = Version(fwd[n], s)

\* Where a node is in its rows, and what it has got so far.
PipeInv(n) ==
  /\ pc[n] \in {"send", "recv"} =>
       /\ \A r \in 0 .. batch[n] - 1 : \A p \in Own(n, step[n]) :
            Part(n, step[n], r, p) = Version(fwd[n], step[n])
       /\ \A r \in 0 .. row[n] : \A p \in Sources(n, step[n]) :
            r < row[n] \/ (pc[n] = "recv" /\ io[n][p] > 0) =>
              Part(n, step[n], r, p) = Version(fwd[n], step[n])
  /\ pc[n] = "op" /\ step[n] > 1 => Gathered(n, step[n] - 1)
  /\ pc[n] = "ctl" /\ n = Root /\ fwd[n] > 0 => Gathered(n, NSteps)

StreamInv ==
  /\ CallInv
  /\ \A m, n \in Node : GenuineAll(calls, chan[m][n])
  /\ \A m \in Node : \A n \in Peers(m) : LinkInv(m, n)
  /\ \A n \in Node : PipeInv(n)

IInv == AllServed /\ TypeOK /\ StreamInv

-----------------------------------------------------------------------------
(* Streams: facts about the operators above.                               *)

\* What is due, case by case.
LEMMA DueFacts ==
  ASSUME NEW cs, NEW m \in Node, NEW n \in Node, NEW f \in Nat, NEW s \in 0 .. NSteps + 1,
         NEW r \in Nat, NEW c \in Nat
  PROVE  /\ s < FirstStep(m) => Due(cs, m, n, f, s, r, c) = At(f, FirstStep(m), 0, 0)
         /\ s > LastStep(n) => Due(cs, m, n, f, s, r, c) = At(f + 1, FirstStep(m), 0, 0)
         /\ FirstStep(m) <= s /\ s <= LastStep(n) /\ c < SizeOf(s) =>
              Due(cs, m, n, f, s, r, c) = At(f, s, r, c)
         /\ FirstStep(m) <= s /\ s <= LastStep(n) /\ c = SizeOf(s) =>
              Due(cs, m, n, f, s, r, c) =
                IF r + 1 < RowsOf(cs, f, s) THEN At(f, s, r + 1, 0)
                ELSE IF s < LastStep(n) THEN At(f, s + 1, 0, 0)
                ELSE At(f + 1, FirstStep(m), 0, 0)
<1>1. FirstStep(m) \in Nat /\ LastStep(n) \in Nat /\ FirstStep(m) <= LastStep(n)
  BY Constants DEF FirstStep, LastStep
<1>2. SizeOf(s) \in Nat
  BY Constants DEF SizeOf
<1>. QED
  BY <1>1, <1>2 DEF Due

\* The end of a row is the beginning of the next, and the end of the last row
\* of a step that of the next step.
LEMMA DueNextRow ==
  ASSUME NEW cs, NEW m \in Node, NEW n \in Node, NEW f \in Nat, NEW s \in Steps, NEW r \in Nat,
         r + 1 < cs[f].batch
  PROVE  Due(cs, m, n, f, s, r, Chunks) = Due(cs, m, n, f, s, r + 1, 0)
<1> USE Constants
<1>1. SizeOf(s) = Chunks /\ RowsOf(cs, f, s) = cs[f].batch
  BY DEF Steps, SizeOf, RowsOf
<1>. QED
  BY <1>1 DEF Due

\* ... as above for the step.
LEMMA DueNextStep ==
  ASSUME NEW cs, NEW m \in Node, NEW n \in Node, NEW f \in Nat, NEW s \in Steps, NEW r \in Nat,
         ~ (r + 1 < cs[f].batch)
  PROVE  Due(cs, m, n, f, s, r, Chunks) = Due(cs, m, n, f, s + 1, 0, 0)
<1> USE Constants
<1>1. /\ s \in 1 .. NSteps
      /\ FirstStep(m) = IF m = Root THEN 0 ELSE 2
      /\ LastStep(n) = IF n = Root THEN NSteps ELSE NSteps - 1
      /\ SizeOf(s) = Chunks /\ SizeOf(s + 1) = Chunks
      /\ RowsOf(cs, f, s) = cs[f].batch
  BY DEF Steps, FirstStep, LastStep, SizeOf, RowsOf
<1>. QED
  BY <1>1 DEF Due

\* Both at once, where only the end of the row is known.
LEMMA DueRowEnd ==
  ASSUME NEW cs, NEW m \in Node, NEW n \in Node, NEW f \in Nat, NEW s \in Steps, NEW r \in Nat
  PROVE  Due(cs, m, n, f, s, r, Chunks) =
           IF r + 1 < cs[f].batch THEN Due(cs, m, n, f, s, r + 1, 0) ELSE Due(cs, m, n, f, s + 1, 0, 0)
  BY DueNextRow, DueNextStep

\* Behind the control packet comes the first step, and behind a forward the
\* control packet of the next, on the links that carry it.
LEMMA DueEnds ==
  ASSUME NEW cs, NEW m \in Node, NEW n \in Node, NEW f \in Nat
  PROVE  /\ Due(cs, m, n, f, 0, 0, 1) = Due(cs, m, n, f, 1, 0, 0)
         /\ Due(cs, m, n, f, NSteps + 1, 0, 0) = At(f + 1, FirstStep(m), 0, 0)
         /\ Due(cs, m, n, f, 0, 0, 0) = At(f, FirstStep(m), 0, 0)
         /\ m # Root => Due(cs, m, n, f, 0, 0, 0) = Due(cs, m, n, f, 1, 0, 0)
<1> USE Constants
<1>1. /\ FirstStep(m) = IF m = Root THEN 0 ELSE 2
      /\ LastStep(n) = IF n = Root THEN NSteps ELSE NSteps - 1
      /\ SizeOf(0) = 1 /\ SizeOf(1) = Chunks /\ RowsOf(cs, f, 0) = 1
  BY DEF FirstStep, LastStep, SizeOf, RowsOf
<1>. QED
  BY <1>1 DEF Due

\* The steps in which a node writes to, and reads from, a peer.
LEMMA LinkSteps ==
  ASSUME AllServed, NEW m \in Node, NEW n \in Peers(m), NEW s \in Steps
  PROVE  /\ n \in Node /\ m \in Peers(n)
         /\ n \in Targets(m, s) <=> FirstStep(m) <= s /\ s <= LastStep(n)
         /\ m \in Sources(n, s) <=> FirstStep(m) <= s /\ s <= LastStep(n)
<1> USE Constants
<1>1. n \in Node /\ n # m /\ m \in Peers(n) /\ n \in Served(m) /\ m \in Served(n)
  BY DEF Peers, AllServed
<1>2. /\ s \in 1 .. NSteps
      /\ FirstStep(m) = IF m = Root THEN 0 ELSE 2
      /\ LastStep(n) = IF n = Root THEN NSteps ELSE NSteps - 1
  BY DEF Steps, FirstStep, LastStep
<1>3. n \in Targets(m, s) <=> FirstStep(m) <= s /\ s <= LastStep(n)
  BY <1>1, <1>2 DEF Targets, SyncType
<1>4. m \in Sources(n, s) <=> FirstStep(m) <= s /\ s <= LastStep(n)
  BY <1>1, <1>2 DEF Sources, SyncType
<1>. QED
  BY <1>1, <1>3, <1>4

\* A chunk written where one is due keeps the stream aligned.
LEMMA Push ==
  ASSUME NEW cs, NEW m, NEW n, NEW q \in Seq(Messages), NEW start, NEW d \in Messages,
         Aligned(cs, m, n, q, start), NoStops(q), Place(d) = EndOf(cs, m, n, q, start)
  PROVE  /\ Aligned(cs, m, n, Append(q, d), start)
         /\ EndOf(cs, m, n, Append(q, d), start) = After(cs, m, n, d)
         /\ ~ IsStop(d) => NoStops(Append(q, d))
<1> DEFINE u == Append(q, d)
<1>1. /\ Len(u) = Len(q) + 1 /\ Len(q) \in Nat /\ u[Len(q) + 1] = d /\ u # <<>>
      /\ \A i \in 1 .. Len(q) : u[i] = q[i]
      /\ q = <<>> <=> Len(q) = 0
  OBVIOUS
<1> HIDE DEF u
<1>2. \A i \in 1 .. Len(u) : i \in 1 .. Len(q) \/ i = Len(q) + 1
  BY <1>1
<1>3. ASSUME NEW i \in 1 .. Len(q)
      PROVE  \/ IsStop(u[i])
             \/ /\ Place(u[i]) = IF i = 1 THEN start ELSE After(cs, m, n, u[i - 1])
                /\ \A j \in 1 .. i - 1 : ~ IsStop(u[j])
  <2>1. u[i] = q[i] /\ \A j \in 1 .. i - 1 : j \in 1 .. Len(q) /\ u[j] = q[j]
    BY <1>1
  <2>2. i # 1 => u[i - 1] = q[i - 1]
    BY <1>1
  <2>. QED
    BY <2>1, <2>2 DEF Aligned
<1>4. /\ Place(u[Len(q) + 1]) = IF Len(q) + 1 = 1 THEN start ELSE After(cs, m, n, u[Len(q)])
      /\ \A j \in 1 .. Len(q) : ~ IsStop(u[j])
  BY <1>1 DEF EndOf, NoStops
<1>5. Aligned(cs, m, n, u, start)
  BY <1>1, <1>2, <1>3, <1>4 DEF Aligned
<1>6. EndOf(cs, m, n, u, start) = After(cs, m, n, d)
  BY <1>1 DEF EndOf
<1>7. ~ IsStop(d) => NoStops(u)
  BY <1>1, <1>2 DEF NoStops
<1>. QED
  BY <1>5, <1>6, <1>7 DEF u

\* So does a stop packet, anywhere.
LEMMA PushStop ==
  ASSUME NEW cs, NEW m, NEW n, NEW q \in Seq(Messages), NEW start, NEW d \in Messages,
         Aligned(cs, m, n, q, start), IsStop(d)
  PROVE  Aligned(cs, m, n, Append(q, d), start)
<1> DEFINE u == Append(q, d)
<1>1. /\ Len(u) = Len(q) + 1 /\ Len(q) \in Nat /\ u[Len(q) + 1] = d
      /\ \A i \in 1 .. Len(q) : u[i] = q[i]
  OBVIOUS
<1> HIDE DEF u
<1>2. \A i \in 1 .. Len(u) : i \in 1 .. Len(q) \/ i = Len(q) + 1
  BY <1>1
<1>3. ASSUME NEW i \in 1 .. Len(q)
      PROVE  \/ IsStop(u[i])
             \/ /\ Place(u[i]) = IF i = 1 THEN start ELSE After(cs, m, n, u[i - 1])
                /\ \A j \in 1 .. i - 1 : ~ IsStop(u[j])
  <2>1. u[i] = q[i] /\ \A j \in 1 .. i - 1 : j \in 1 .. Len(q) /\ u[j] = q[j]
    BY <1>1
  <2>2. i # 1 => u[i - 1] = q[i - 1]
    BY <1>1
  <2>. QED
    BY <2>1, <2>2 DEF Aligned
<1>. QED
  BY <1>1, <1>2, <1>3 DEF Aligned, u

\* The chunk at the head is the one that is to be read, and behind it the
\* stream goes on with what is due after it.
LEMMA Pop ==
  ASSUME NEW cs, NEW m, NEW n, NEW q \in Seq(Messages), NEW start,
         Aligned(cs, m, n, q, start), q # <<>>, ~ IsStop(Head(q))
  PROVE  /\ Place(Head(q)) = start
         /\ Aligned(cs, m, n, Tail(q), After(cs, m, n, Head(q)))
         /\ EndOf(cs, m, n, Tail(q), After(cs, m, n, Head(q))) = EndOf(cs, m, n, q, start)
         /\ NoStops(q) => NoStops(Tail(q))
<1> DEFINE u == Tail(q)
<1>0. u \in Seq(Messages) /\ Len(q) \in Nat /\ Len(q) >= 1 /\ Len(u) = Len(q) - 1 /\ Head(q) = q[1]
  OBVIOUS
<1>1. /\ Len(q) \in Nat /\ Len(q) >= 1 /\ Len(u) = Len(q) - 1 /\ Head(q) = q[1]
      /\ u = <<>> <=> Len(u) = 0
  <2> HIDE DEF u
  <2>. QED
    BY <1>0
<1>2. \A i \in 1 .. Len(u) : i + 1 \in 1 .. Len(q) /\ u[i] = q[i + 1]
  BY <1>1
<1> HIDE DEF u
<1>3. Place(q[1]) = start
  BY <1>1 DEF Aligned
<1>4. ASSUME NEW i \in 1 .. Len(u)
      PROVE  \/ IsStop(u[i])
             \/ /\ Place(u[i]) = IF i = 1 THEN After(cs, m, n, q[1]) ELSE After(cs, m, n, u[i - 1])
                /\ \A j \in 1 .. i - 1 : ~ IsStop(u[j])
  <2>1. u[i] = q[i + 1] /\ i + 1 \in 1 .. Len(q) /\ i + 1 # 1 /\ (i + 1) - 1 = i
    BY <1>2
  <2>2. \/ IsStop(q[i + 1])
        \/ /\ Place(q[i + 1]) = After(cs, m, n, q[i])
           /\ \A j \in 1 .. i : ~ IsStop(q[j])
    BY <2>1 DEF Aligned
  <2>3. \A j \in 1 .. i - 1 : u[j] = q[j + 1] /\ j + 1 \in 1 .. i
    BY <1>1, <1>2
  <2>4. i # 1 => u[i - 1] = q[i]
    BY <1>1, <1>2
  <2>. QED
    BY <2>1, <2>2, <2>3, <2>4
<1>5. Aligned(cs, m, n, u, After(cs, m, n, q[1]))
  BY <1>4 DEF Aligned
<1>6. EndOf(cs, m, n, u, After(cs, m, n, q[1])) = EndOf(cs, m, n, q, start)
  <2>1. CASE Len(q) = 1
    BY <1>1, <2>1 DEF EndOf
  <2>2. CASE Len(q) > 1
    <3>1. u[Len(u)] = q[Len(q)] /\ u # <<>>
      BY <1>1, <1>2, <2>2
    <3>. QED
      BY <3>1 DEF EndOf
  <2>. QED
    BY <1>1, <2>1, <2>2
<1>7. NoStops(q) => NoStops(u)
  BY <1>2 DEF NoStops
<1>. QED
  BY <1>1, <1>3, <1>5, <1>6, <1>7 DEF u

\* Behind a stop packet there are only stop packets.
LEMMA PopStop ==
  ASSUME NEW cs, NEW m, NEW n, NEW q \in Seq(Messages), NEW start, NEW begin,
         Aligned(cs, m, n, q, start), q # <<>>, IsStop(Head(q))
  PROVE  Aligned(cs, m, n, Tail(q), begin) /\ ~ NoStops(q)
<1> DEFINE u == Tail(q)
<1>1. Len(q) \in Nat /\ Len(q) >= 1 /\ Len(u) = Len(q) - 1 /\ Head(q) = q[1]
  OBVIOUS
<1>2. \A i \in 1 .. Len(u) : i + 1 \in 1 .. Len(q) /\ u[i] = q[i + 1] /\ 1 \in 1 .. (i + 1) - 1
  BY <1>1
<1> HIDE DEF u
<1>3. \A i \in 1 .. Len(u) : IsStop(u[i])
  BY <1>1, <1>2 DEF Aligned
<1>4. ~ NoStops(q)
  BY <1>1 DEF NoStops
<1>. QED
  BY <1>3, <1>4 DEF Aligned, u

\* A forward more that is announced changes nothing of what is on its way.
LEMMA Announced ==
  ASSUME NEW S, NEW cs \in Seq(S), NEW c, NEW m, NEW n,
         NEW q \in Seq(Messages), NEW start, GenuineAll(cs, q)
  PROVE  /\ Aligned(cs, m, n, q, start) => Aligned(Append(cs, c), m, n, q, start)
         /\ NoStops(q) => EndOf(Append(cs, c), m, n, q, start) = EndOf(cs, m, n, q, start)
         /\ GenuineAll(Append(cs, c), q)
<1>1. ASSUME NEW i \in 1 .. Len(q), ~ IsStop(q[i])
      PROVE  /\ After(Append(cs, c), m, n, q[i]) = After(cs, m, n, q[i])
             /\ Genuine(Append(cs, c), q[i])
  <2>1. /\ q[i].ver.fwd \in 1 .. Len(cs)
        /\ q[i].call = IF IsControl(q[i]) THEN cs[q[i].ver.fwd] ELSE Stop
    BY <1>1 DEF GenuineAll, Genuine
  <2> DEFINE f == q[i].ver.fwd
  <2>2. f \in 1 .. Len(Append(cs, c)) /\ Append(cs, c)[f] = cs[f]
    BY <2>1
  <2> HIDE DEF f
  <2>3. RowsOf(Append(cs, c), f, q[i].ver.step) = RowsOf(cs, f, q[i].ver.step)
    BY <2>2 DEF RowsOf
  <2>. QED
    BY <2>1, <2>2, <2>3 DEF After, Due, Genuine, f
<1>2. Len(q) \in Nat /\ (q # <<>> => Len(q) \in 1 .. Len(q))
  OBVIOUS
<1>3. \A i \in 1 .. Len(q) : i # 1 => i - 1 \in 1 .. i - 1 /\ i - 1 \in 1 .. Len(q)
  BY <1>2
<1>4. Aligned(cs, m, n, q, start) => Aligned(Append(cs, c), m, n, q, start)
  BY <1>1, <1>3 DEF Aligned
<1>5. NoStops(q) => EndOf(Append(cs, c), m, n, q, start) = EndOf(cs, m, n, q, start)
  BY <1>1, <1>2 DEF EndOf, NoStops
<1>6. GenuineAll(Append(cs, c), q)
  BY <1>1 DEF GenuineAll, Genuine
<1>. QED
  BY <1>4, <1>5, <1>6

-----------------------------------------------------------------------------
(* What the invariant says of the next message to be read.                 *)

\* A link joins two different nodes, both ways, and carries messages.
LEMMA LinkTypes ==
  ASSUME TypeOK, NEW m \in Node, NEW n \in Peers(m)
  PROVE  n \in Node /\ n # m /\ m \in Peers(n) /\ chan[m][n] \in Seq(Messages)
<1>1. n \in Node /\ n # m /\ m \in Peers(n)
  BY DEF Peers
<1>. QED
  BY <1>1 DEF TypeOK

\* What a node is going to read is the chunk that it takes it for.
LEMMA HeadDue ==
  ASSUME IInv, NEW n \in Node, NEW p \in Peers(n), Alive(n),
         chan[p][n] # <<>>, ~ IsStop(Head(chan[p][n]))
  PROVE  /\ Head(chan[p][n]) \in Messages
         /\ Place(Head(chan[p][n])) = DueIn(n, p)
         /\ Genuine(calls, Head(chan[p][n]))
<1>1. p \in Node /\ n \in Peers(p)
  BY DEF Peers
<1>2. chan[p][n] \in Seq(Messages)
  BY <1>1, LinkTypes DEF IInv
<1>3. Aligned(calls, p, n, chan[p][n], DueIn(n, p)) /\ GenuineAll(calls, chan[p][n])
  BY <1>1 DEF IInv, StreamInv, LinkInv
<1>4. Place(Head(chan[p][n])) = DueIn(n, p)
  BY <1>2, <1>3, Pop
<1>5. Head(chan[p][n]) \in Messages /\ Head(chan[p][n]) = chan[p][n][1] /\ 1 \in 1 .. Len(chan[p][n])
  BY <1>2
<1>. QED
  BY <1>3, <1>4, <1>5 DEF GenuineAll

\* Between two forwards a worker finds the packet of the next.
LEMMA ControlDue ==
  ASSUME IInv, NEW w \in Worker, pc[w] = "ctl", chan[Root][w] # <<>>, ~ IsStop(Head(chan[Root][w]))
  PROVE  LET d == Head(chan[Root][w])
         IN  /\ IsControl(d) /\ d.ver.fwd = fwd[w] + 1
             /\ fwd[w] + 1 \in 1 .. Len(calls) /\ d.call = calls[fwd[w] + 1]
             /\ After(calls, Root, w, d) = Due(calls, Root, w, fwd[w] + 1, 1, 0, 0)
<1> DEFINE d == Head(chan[Root][w])
<1>1. w \in Node /\ Root \in Peers(w) /\ Root \in Node /\ fwd[w] \in Nat /\ NSteps \in Steps
  BY Constants DEF Worker, Peers, IInv, TypeOK
<1>2. Place(d) = DueIn(w, Root) /\ Genuine(calls, d)
  BY <1>1, HeadDue DEF Alive
<1>3. DueIn(w, Root) = At(fwd[w] + 1, 0, 0, 0)
  <2>1. DueIn(w, Root) = Due(calls, Root, w, fwd[w], NSteps + 1, 0, 0)
    BY DEF DueIn, StepOf, RowOf
  <2>2. Due(calls, Root, w, fwd[w], NSteps + 1, 0, 0) = At(fwd[w] + 1, FirstStep(Root), 0, 0)
    BY <1>1, DueEnds
  <2>. QED
    BY <2>1, <2>2 DEF FirstStep
<1>4. d.ver.fwd = fwd[w] + 1 /\ d.ver.step = 0 /\ d.row = 0 /\ d.chunk = 0
  BY <1>2, <1>3 DEF Place, At
<1>5. After(calls, Root, w, d) = Due(calls, Root, w, fwd[w] + 1, 0, 0, 1)
  BY <1>4 DEF After
<1>6. Due(calls, Root, w, fwd[w] + 1, 0, 0, 1) = Due(calls, Root, w, fwd[w] + 1, 1, 0, 0)
  <2>1. fwd[w] + 1 \in Nat /\ 0 \in Nat
    BY <1>1
  <2>. QED
    BY <1>1, <2>1, DueEnds
<1>. QED
  BY <1>2, <1>4, <1>5, <1>6 DEF Genuine, IsControl

\* In a sync it finds the very chunk it takes the message for.
LEMMA DataDue ==
  ASSUME IInv, NEW n \in Node, NEW p \in Peers(n), pc[n] = "recv", p \in Sources(n, step[n]),
         io[n][p] < Chunks, chan[p][n] # <<>>, ~ IsStop(Head(chan[p][n]))
  PROVE  LET d == Head(chan[p][n])
         IN  /\ d = Data(Version(fwd[n], step[n]), row[n], io[n][p])
             /\ ~ IsControl(d)
             /\ After(calls, p, n, d) = Due(calls, p, n, fwd[n], step[n], row[n], io[n][p] + 1)
<1> DEFINE d == Head(chan[p][n])
<1> USE Constants
<1>1. /\ p \in Node /\ n \in Peers(p) /\ fwd[n] \in Nat /\ step[n] \in Steps /\ row[n] \in Nat
      /\ io[n][p] \in Nat /\ AllServed
  BY DEF Peers, IInv, TypeOK, Rows
<1>2. d \in Messages /\ Place(d) = DueIn(n, p) /\ Genuine(calls, d)
  BY HeadDue DEF Alive, InForward
<1>3. DueIn(n, p) = Due(calls, p, n, fwd[n], step[n], row[n], io[n][p])
  BY DEF DueIn, StepOf, RowOf
<1>4. FirstStep(p) <= step[n] /\ step[n] <= LastStep(n)
  BY <1>1, LinkSteps
<1>5. step[n] \in 0 .. NSteps + 1 /\ SizeOf(step[n]) = Chunks /\ step[n] # 0
  BY <1>1 DEF Steps, SizeOf
<1>6. Place(d) = At(fwd[n], step[n], row[n], io[n][p])
  BY <1>1, <1>2, <1>3, <1>4, <1>5, DueFacts
<1>7. d.ver.fwd = fwd[n] /\ d.ver.step = step[n] /\ d.row = row[n] /\ d.chunk = io[n][p]
  BY <1>6 DEF Place, At
<1>8. ~ IsControl(d) /\ d.call = Stop
  BY <1>2, <1>5, <1>7 DEF Genuine, IsControl
<1>9. d = [ver |-> d.ver, row |-> d.row, chunk |-> d.chunk, call |-> d.call]
  BY <1>2 DEF Messages
<1>10. d.ver = [fwd |-> d.ver.fwd, step |-> d.ver.step]
  BY <1>2 DEF Messages, Versions
<1>11. d = Data(Version(fwd[n], step[n]), row[n], io[n][p])
  BY <1>7, <1>8, <1>9, <1>10 DEF Data, Version
<1>12. After(calls, p, n, d) = Due(calls, p, n, fwd[n], step[n], row[n], io[n][p] + 1)
  BY <1>7 DEF After
<1>. QED
  BY <1>8, <1>11, <1>12

-----------------------------------------------------------------------------
(* Frames: what a step of one node leaves alone.                           *)

\* The step leaves b, and what only b changes, as it is.
Untouched(b) ==
  /\ pc'[b] = pc[b] /\ fwd'[b] = fwd[b] /\ pos'[b] = pos[b] /\ batch'[b] = batch[b]
  /\ step'[b] = step[b] /\ row'[b] = row[b] /\ io'[b] = io[b]
  /\ x'[b] = x[b] /\ zq'[b] = zq[b] /\ lg'[b] = lg[b]

\* The packets of the root ask for at least a row.
LEMMA CallTypes ==
  ASSUME TypeOK, NEW f \in 1 .. Len(calls)
  PROVE  calls[f].pos \in Nat /\ calls[f].batch \in 1 .. NBatches /\ calls[f] \in Calls /\ calls[f] # Stop
<1>1. \A S : \A q \in Seq(S) : \A i \in 1 .. Len(q) : q[i] \in S
  OBVIOUS
<1>2. calls \in Seq([pos : Nat, batch : 1 .. NBatches])
  BY DEF TypeOK
<1>3. calls[f] \in [pos : Nat, batch : 1 .. NBatches]
  BY <1>1, <1>2
<1>. QED
  BY <1>3, Constants DEF Calls, Stop, Call

\* The forward a node is in is one the root has announced.
LEMMA CurrentCall ==
  ASSUME IInv, NEW n \in Node, pc[n] \in InForward
  PROVE  /\ fwd[n] \in 1 .. Len(calls) /\ batch[n] \in 1 .. NBatches
         /\ calls[fwd[n]].batch = batch[n] /\ calls[fwd[n]].pos = pos[n]
<1>1. fwd[n] \in 1 .. Len(calls) /\ calls[fwd[n]] = Call(pos[n], batch[n])
  BY DEF IInv, StreamInv, CallInv
<1>2. calls[fwd[n]].batch \in 1 .. NBatches
  BY <1>1, CallTypes DEF IInv
<1>. QED
  BY <1>1, <1>2 DEF Call

\* A node that an action leaves alone is owed, and owes, what it did before.
LEMMA UntouchedDue ==
  ASSUME NEW b \in Node, NEW p \in Node, Untouched(b), calls' = calls
  PROVE  /\ Alive(b)' <=> Alive(b)
         /\ DueIn(b, p)' = DueIn(b, p)
         /\ DueOut(b, p)' = DueOut(b, p)
  BY DEF Untouched, Alive, DueIn, DueOut, StepOf, RowOf

\* ... and its pipes hold what they held.
LEMMA UntouchedPipe ==
  ASSUME NEW b \in Node, Untouched(b), PipeInv(b)
  PROVE  PipeInv(b)'
  BY DEF Untouched, PipeInv, Gathered, Part

\* A link neither end of which has moved, or whose end has given up.
LEMMA LinkFrame ==
  ASSUME IInv, NEW m \in Node, NEW n \in Peers(m), chan'[m][n] = chan[m][n], calls' = calls,
         Alive(n)' => Alive(n) /\ DueIn(n, m)' = DueIn(n, m),
         Alive(m)' => Alive(m) /\ DueOut(m, n)' = DueOut(m, n)
  PROVE  LinkInv(m, n)'
<1>1. LinkInv(m, n)
  BY DEF IInv, StreamInv
<1>. QED
  BY <1>1 DEF LinkInv

\* A step of node a that sends and receives nothing.
LEMMA Move ==
  ASSUME IInv, NEW a \in Node, \A b \in Node \ {a} : Untouched(b),
         calls' = calls, chan' = chan, fwd'[a] = fwd[a],
         pc'[a] \in InForward =>
           pc[a] \in InForward /\ pos'[a] = pos[a] /\ batch'[a] = batch[a],
         pc'[a] \in {"send", "recv"} => row'[a] < batch'[a],
         a # Root => pc'[a] \notin {"announce", "finish"},
         Alive(a)' => Alive(a) /\ \A p \in Peers(a) :
           DueIn(a, p)' = DueIn(a, p) /\ DueOut(a, p)' = DueOut(a, p),
         PipeInv(a)'
  PROVE  StreamInv'
<1>1. CallInv'
  <2>1. CallInv
    BY DEF IInv, StreamInv
  <2>2. fwd'[Root] = Len(calls')
    BY <2>1, Constants DEF CallInv, Untouched
  <2>3. ASSUME NEW n \in Node
        PROVE  /\ pc'[n] \in InForward => fwd'[n] \in 1 .. Len(calls') /\ calls'[fwd'[n]] = Call(pos'[n], batch'[n])
               /\ pc'[n] \in {"send", "recv"} => row'[n] < batch'[n]
               /\ n \in Worker => pc'[n] \notin {"announce", "finish"}
    <3>1. CASE n = a
      BY <2>1, <3>1 DEF CallInv, Worker
    <3>2. CASE n # a
      BY <2>1, <3>2 DEF CallInv, Untouched
    <3>. QED
      BY <3>1, <3>2
  <2>. QED
    BY <2>2, <2>3, Constants DEF CallInv
<1>2. \A m, n \in Node : GenuineAll(calls', chan'[m][n])
  BY DEF IInv, StreamInv
<1>3. ASSUME NEW m \in Node, NEW n \in Peers(m) PROVE LinkInv(m, n)'
  <2>1. n \in Node /\ n # m /\ m \in Peers(n)
    BY DEF Peers
  <2>2. Alive(n)' => Alive(n) /\ DueIn(n, m)' = DueIn(n, m)
    <3>1. CASE n = a
      BY <2>1, <3>1
    <3>2. CASE n # a
      BY <2>1, <3>2, UntouchedDue
    <3>. QED
      BY <3>1, <3>2
  <2>3. Alive(m)' => Alive(m) /\ DueOut(m, n)' = DueOut(m, n)
    <3>1. CASE m = a
      BY <2>1, <3>1
    <3>2. CASE m # a
      BY <2>1, <3>2, UntouchedDue
    <3>. QED
      BY <3>1, <3>2
  <2>. QED
    BY <2>2, <2>3, LinkFrame
<1>4. ASSUME NEW n \in Node PROVE PipeInv(n)'
  BY UntouchedPipe DEF IInv, StreamInv
<1>. QED
  BY <1>1, <1>2, <1>3, <1>4 DEF StreamInv

\* Goto moves one node and clears what its threads have done.
LEMMA GotoEffect ==
  ASSUME TypeOK, NEW a \in Node, NEW l, Goto(a, l)
  PROVE  /\ pc'[a] = l /\ io'[a] = NoIO
         /\ \A b \in Node \ {a} : pc'[b] = pc[b] /\ io'[b] = io[b]
  BY DEF TypeOK, Goto

\* A node gives up.
LEMMA GiveUp ==
  ASSUME IInv, NEW a \in Node, NEW l \in {"finish", "finished", "dead"}, Goto(a, l),
         l = "finish" => a = Root, UNCHANGED <<calls, place, chan, pipes>>
  PROVE  StreamInv'
<1>1. pc'[a] = l /\ \A b \in Node \ {a} : pc'[b] = pc[b] /\ io'[b] = io[b]
  BY GotoEffect DEF IInv
<1>2. \A b \in Node \ {a} : Untouched(b)
  BY <1>1 DEF Untouched, place, pipes
<1>3. ~ Alive(a)' /\ pc'[a] \notin InForward /\ PipeInv(a)'
  BY <1>1 DEF Alive, InForward, PipeInv
<1>4. fwd'[a] = fwd[a] /\ calls' = calls /\ chan' = chan
  BY DEF place
<1>5. pc'[a] \notin {"send", "recv"} /\ (a # Root => pc'[a] \notin {"announce", "finish"})
  BY <1>1
<1>. QED
  BY <1>2, <1>3, <1>4, <1>5, Move

-----------------------------------------------------------------------------
(* Every action keeps the invariant.                                       *)

\* What is due in or out does not depend on what is no step of the link, and
\* when all of a row has been moved on every link that takes part, it is the
\* end of the row on every link.
LEMMA RowMoved ==
  ASSUME IInv, NEW n \in Node, NEW p \in Peers(n), NEW s \in Steps, NEW c \in Nat
  PROVE  /\ (p \in Targets(n, s) => c = Chunks) =>
              Due(calls, n, p, fwd[n], s, row[n], c) = Due(calls, n, p, fwd[n], s, row[n], Chunks)
         /\ (p \in Sources(n, s) => c = Chunks) =>
              Due(calls, p, n, fwd[n], s, row[n], c) = Due(calls, p, n, fwd[n], s, row[n], Chunks)
<1> USE Constants
<1>1. p \in Node /\ n \in Peers(p) /\ fwd[n] \in Nat /\ row[n] \in Nat /\ AllServed /\ Chunks \in Nat
  BY DEF Peers, IInv, TypeOK, Rows
<1>2. s \in 0 .. NSteps + 1
  BY DEF Steps
<1>3. /\ p \in Targets(n, s) \/ s < FirstStep(n) \/ s > LastStep(p)
      /\ p \in Sources(n, s) \/ s < FirstStep(p) \/ s > LastStep(n)
  <2>1. /\ p \in Targets(n, s) <=> FirstStep(n) <= s /\ s <= LastStep(p)
        /\ p \in Sources(n, s) <=> FirstStep(p) <= s /\ s <= LastStep(n)
    BY <1>1, LinkSteps
  <2>2. /\ FirstStep(n) \in Nat /\ LastStep(p) \in Nat /\ FirstStep(p) \in Nat /\ LastStep(n) \in Nat
        /\ s \in Nat
    BY <1>2 DEF FirstStep, LastStep
  <2>. QED
    BY <2>1, <2>2
<1>4. ASSUME s < FirstStep(n) \/ s > LastStep(p)
      PROVE  Due(calls, n, p, fwd[n], s, row[n], c) = Due(calls, n, p, fwd[n], s, row[n], Chunks)
  BY <1>4 DEF Due
<1>5. ASSUME s < FirstStep(p) \/ s > LastStep(n)
      PROVE  Due(calls, p, n, fwd[n], s, row[n], c) = Due(calls, p, n, fwd[n], s, row[n], Chunks)
  BY <1>5 DEF Due
<1>. QED
  BY <1>3, <1>4, <1>5

\* All control packets are out: the root is at its first step, or has ended.
LEMMA StepBroadcastDone == IInv /\ RootBroadcastDone => StreamInv'
<1> SUFFICES ASSUME IInv, RootBroadcastDone PROVE StreamInv'
  OBVIOUS
<1> USE Constants
<1>1. CASE pc[Root] = "finish" /\ Goto(Root, "finished") /\ UNCHANGED step
  <2>1. UNCHANGED <<calls, place, chan, pipes>>
    BY <1>1 DEF RootBroadcastDone, place
  <2>. QED
    BY <1>1, <2>1, GiveUp
<1>2. CASE pc[Root] = "announce" /\ Goto(Root, "op") /\ step' = [step EXCEPT ![Root] = 1]
  <2>1. /\ pc'[Root] = "op" /\ io'[Root] = NoIO
        /\ \A b \in Node \ {Root} : pc'[b] = pc[b] /\ io'[b] = io[b]
    BY <1>2, GotoEffect DEF IInv
  <2>2. step'[Root] = 1 /\ \A b \in Node \ {Root} : step'[b] = step[b]
    BY <1>2 DEF IInv, TypeOK
  <2>3. UNCHANGED <<calls, fwd, pos, batch, row, chan, pipes>>
    BY DEF RootBroadcastDone
  <2>4. \A b \in Node \ {Root} : Untouched(b)
    BY <2>1, <2>2, <2>3 DEF Untouched, pipes
  <2>5. PipeInv(Root)'
    BY <2>1, <2>2 DEF PipeInv
  <2>6. ASSUME NEW p \in Peers(Root)
        PROVE  DueIn(Root, p)' = DueIn(Root, p) /\ DueOut(Root, p)' = DueOut(Root, p)
    <3>1. p \in Node /\ p # Root /\ fwd[Root] \in Nat /\ 0 \in Nat /\ 1 \in Steps
      BY DEF Peers, IInv, TypeOK
    <3>2. io[Root][p] = 1
      BY <3>1 DEF RootBroadcastDone, AllMoved, Worker
    <3>3. /\ DueIn(Root, p) = Due(calls, p, Root, fwd[Root], 0, 0, 0)
          /\ DueIn(Root, p)' = Due(calls, p, Root, fwd[Root], 1, 0, 0)
          /\ DueOut(Root, p) = Due(calls, Root, p, fwd[Root], 0, 0, 1)
          /\ DueOut(Root, p)' = Due(calls, Root, p, fwd[Root], 1, 0, 0)
      BY <1>2, <2>1, <2>2, <2>3, <3>2 DEF DueIn, DueOut, StepOf, RowOf
    <3>4. Due(calls, p, Root, fwd[Root], 0, 0, 0) = Due(calls, p, Root, fwd[Root], 1, 0, 0)
      BY <3>1, DueEnds
    <3>5. Due(calls, Root, p, fwd[Root], 0, 0, 1) = Due(calls, Root, p, fwd[Root], 1, 0, 0)
      BY <3>1, DueEnds
    <3>. QED
      BY <3>3, <3>4, <3>5
  <2>7. Alive(Root) /\ pc[Root] \in InForward
    BY <1>2 DEF Alive, InForward
  <2>. QED
    BY <2>1, <2>3, <2>4, <2>5, <2>6, <2>7, Move
<1>. QED
  BY <1>1, <1>2 DEF RootBroadcastDone

\* The ops of a step leave what the node sends of it in all rows.
LEMMA StepCompute ==
  ASSUME IInv, NEW n \in Node, Compute(n)
  PROVE  StreamInv'
<1> USE Constants
<1>1. /\ pc[n] = "op" /\ pc'[n] = "send" /\ io'[n] = NoIO
      /\ \A b \in Node \ {n} : pc'[b] = pc[b] /\ io'[b] = io[b]
  BY GotoEffect DEF IInv, Compute
<1>2. row'[n] = 0 /\ \A b \in Node \ {n} : row'[b] = row[b]
  BY DEF Compute, IInv, TypeOK
<1>3. UNCHANGED <<calls, fwd, pos, batch, step, chan>>
  BY DEF Compute
<1>4. batch[n] \in 1 .. NBatches /\ step[n] \in Steps
  BY <1>1, CurrentCall DEF InForward, IInv, TypeOK
<1>5. \A b \in Node \ {n} : x'[b] = x[b] /\ zq'[b] = zq[b] /\ lg'[b] = lg[b]
  BY DEF Compute, IInv, TypeOK
<1>6. \A b \in Node \ {n} : Untouched(b)
  BY <1>1, <1>2, <1>3, <1>5 DEF Untouched
<1>7. ASSUME NEW r \in 0 .. batch[n] - 1
      PROVE  CASE step[n] = 1 -> x'[n][r] = Version(fwd[n], step[n])
               [] step[n] = NSteps -> lg'[n][r][n] = Version(fwd[n], step[n])
               [] OTHER -> zq'[n][r][n] = Version(fwd[n], step[n])
  <2>1. r \in Rows /\ r < batch[n]
    BY <1>4 DEF Rows
  <2>2. /\ x \in [Node -> [Rows -> Versions]]
        /\ zq \in [Node -> [Rows -> [Node -> Versions]]] /\ lg \in [Node -> [Rows -> [Node -> Versions]]]
    BY DEF IInv, TypeOK
  <2>3. CASE step[n] = 1
    <3>1. x' = [x EXCEPT ![n] =
             [q \in Rows |-> IF q < batch[n] THEN Version(fwd[n], step[n]) ELSE x[n][q]]]
      BY <2>3 DEF Compute, SyncType
    <3>. QED
      BY <2>1, <2>2, <2>3, <3>1
  <2>4. CASE step[n] = NSteps
    <3>1. lg' = [lg EXCEPT ![n] = OwnSlice(n, lg[n])]
      BY <2>4 DEF Compute, SyncType
    <3>. QED
      BY <2>1, <2>2, <2>4, <3>1 DEF OwnSlice
  <2>5. CASE step[n] # 1 /\ step[n] # NSteps
    <3>1. zq' = [zq EXCEPT ![n] = OwnSlice(n, zq[n])]
      BY <2>5 DEF Compute, SyncType
    <3>. QED
      BY <2>1, <2>2, <2>5, <3>1 DEF OwnSlice
  <2>. QED
    BY <2>3, <2>4, <2>5
<1>8. PipeInv(n)'
  <2>1. \A r \in 0 .. batch'[n] - 1 : \A p \in Own(n, step'[n]) :
          Part(n, step[n], r, p)' = Version(fwd'[n], step'[n])
    BY <1>3, <1>7 DEF Part, Own
  <2>. QED
    BY <1>1, <1>2, <1>3, <2>1 DEF PipeInv, Part
<1>9. ASSUME NEW p \in Peers(n)
      PROVE  DueIn(n, p)' = DueIn(n, p) /\ DueOut(n, p)' = DueOut(n, p)
  BY <1>1, <1>2, <1>3 DEF DueIn, DueOut, StepOf, RowOf, NoIO, Peers
<1>10. Alive(n) /\ pc[n] \in InForward /\ pc'[n] \notin {"announce", "finish"} /\ row'[n] < batch'[n]
  BY <1>1, <1>2, <1>3, <1>4 DEF Alive, InForward
<1>. QED
  BY <1>1, <1>3, <1>6, <1>8, <1>9, <1>10, Move

\* A node has sent its part of a row, and begins to read.
LEMMA StepWriteDone ==
  ASSUME IInv, NEW n \in Node, WriteDone(n)
  PROVE  StreamInv'
<1> USE Constants
<1>1. /\ pc[n] = "send" /\ pc'[n] = "recv" /\ io'[n] = NoIO
      /\ \A b \in Node \ {n} : pc'[b] = pc[b] /\ io'[b] = io[b]
  BY GotoEffect DEF IInv, WriteDone
<1>2. UNCHANGED <<calls, fwd, pos, batch, step, row, chan, x, zq, lg>>
  BY DEF WriteDone, place, pipes
<1>3. \A b \in Node \ {n} : Untouched(b)
  BY <1>1, <1>2 DEF Untouched
<1>4. PipeInv(n)'
  <2>1. PipeInv(n)
    BY DEF IInv, StreamInv
  <2>2. Sources(n, step[n]) \subseteq Node
    BY PeersAreNodes DEF IInv, TypeOK
  <2>3. \A p \in Sources(n, step[n]) : ~ (io'[n][p] > 0)
    BY <1>1, <2>2 DEF NoIO
  <2>. QED
    BY <1>1, <1>2, <2>1, <2>3 DEF PipeInv, Part
<1>5. ASSUME NEW p \in Peers(n)
      PROVE  DueIn(n, p)' = DueIn(n, p) /\ DueOut(n, p)' = DueOut(n, p)
  <2>1. p \in Node /\ step[n] \in Steps /\ io[n][p] \in Nat
    BY DEF Peers, IInv, TypeOK
  <2>2. /\ DueIn(n, p)' = DueIn(n, p)
        /\ DueOut(n, p) = Due(calls, n, p, fwd[n], step[n], row[n], io[n][p])
        /\ DueOut(n, p)' = Due(calls, n, p, fwd[n], step[n], row[n], Chunks)
    BY <1>1, <1>2, <2>1 DEF DueIn, DueOut, StepOf, RowOf, NoIO
  <2>3. p \in Targets(n, step[n]) => io[n][p] = Chunks
    BY DEF WriteDone, AllMoved
  <2>. QED
    BY <2>1, <2>2, <2>3, RowMoved
<1>6. Alive(n) /\ pc[n] \in InForward /\ pc'[n] \notin {"announce", "finish"} /\ row'[n] < batch'[n]
  BY <1>1, <1>2 DEF Alive, InForward, IInv, StreamInv, CallInv
<1>. QED
  BY <1>1, <1>2, <1>3, <1>4, <1>5, <1>6, Move

\* A node has read all of a row: the next row, the next step or the end of the forward.
LEMMA StepRowDone ==
  ASSUME IInv, NEW n \in Node, RowDone(n)
  PROVE  StreamInv'
<1> USE Constants
<1>1. pc[n] = "recv" /\ pc[n] \in InForward
  BY DEF RowDone, InForward
<1>2. UNCHANGED <<calls, fwd, pos, batch, chan, x, zq, lg>>
  BY DEF RowDone, pipes
<1>3. /\ fwd[n] \in Nat /\ step[n] \in Steps /\ row[n] \in Nat /\ row[n] < batch[n]
      /\ batch[n] \in 1 .. NBatches /\ calls[fwd[n]].batch = batch[n]
  <2>1. fwd[n] \in Nat /\ step[n] \in Steps /\ row[n] \in Nat
    BY DEF IInv, TypeOK, Rows
  <2>2. row[n] < batch[n]
    BY <1>1 DEF IInv, StreamInv, CallInv
  <2>3. batch[n] \in 1 .. NBatches /\ calls[fwd[n]].batch = batch[n]
    BY <1>1, CurrentCall
  <2>. QED
    BY <2>1, <2>2, <2>3
<1>4. \E l \in {"send", "op", "ctl"} : Goto(n, l)
  BY DEF RowDone, NextRow, NextSegment, ForwardReturn
<1>5. io'[n] = NoIO /\ \A b \in Node \ {n} : pc'[b] = pc[b] /\ io'[b] = io[b]
  BY <1>4, GotoEffect DEF IInv
<1>6. \A b \in Node \ {n} : step'[b] = step[b] /\ row'[b] = row[b]
  BY DEF RowDone, NextRow, NextSegment, ForwardReturn, IInv, TypeOK
<1>7. \A b \in Node \ {n} : Untouched(b)
  BY <1>2, <1>5, <1>6 DEF Untouched
\* What the node has when the row is through.
<1>8. \A p \in Sources(n, step[n]) : io[n][p] = Chunks /\ p \in Node
  BY <1>3, PeersAreNodes DEF RowDone, AllMoved
<1>9. /\ \A r \in 0 .. batch[n] - 1 : \A p \in Own(n, step[n]) :
           Part(n, step[n], r, p) = Version(fwd[n], step[n])
      /\ \A r \in 0 .. row[n] : \A p \in Sources(n, step[n]) :
           Part(n, step[n], r, p) = Version(fwd[n], step[n])
  <2>1. PipeInv(n)
    BY DEF IInv, StreamInv
  <2>. QED
    BY <1>1, <1>8, <2>1 DEF PipeInv
<1>10. ~ (row[n] + 1 < batch[n]) => Gathered(n, step[n])
  <2>1. ~ (row[n] + 1 < batch[n]) => \A r \in 0 .. batch[n] - 1 : r \in 0 .. row[n]
    BY <1>3
  <2>. QED
    BY <1>9, <2>1 DEF Gathered
\* The streams go on where the row ends.
<1>11. ASSUME NEW p \in Peers(n)
       PROVE  /\ p \in Node
              /\ DueIn(n, p) = Due(calls, p, n, fwd[n], step[n], row[n], Chunks)
              /\ DueOut(n, p) = Due(calls, n, p, fwd[n], step[n], row[n], Chunks)
  <2>1. p \in Node /\ io[n][p] \in Nat
    BY DEF Peers, IInv, TypeOK
  <2>2. /\ DueIn(n, p) = Due(calls, p, n, fwd[n], step[n], row[n], io[n][p])
        /\ DueOut(n, p) = Due(calls, n, p, fwd[n], step[n], row[n], Chunks)
    BY <1>1 DEF DueIn, DueOut, StepOf, RowOf
  <2>. QED
    BY <1>3, <1>8, <2>1, <2>2, RowMoved
<1>16. ASSUME NEW l \in Node, NEW m \in Node
       PROVE  Due(calls, l, m, fwd[n], step[n], row[n], Chunks) =
                IF row[n] + 1 < batch[n] THEN Due(calls, l, m, fwd[n], step[n], row[n] + 1, 0)
                ELSE Due(calls, l, m, fwd[n], step[n] + 1, 0, 0)
  <2>1. \A f \in Nat, s \in Steps, r \in Nat :
          Due(calls, l, m, f, s, r, Chunks) =
            IF r + 1 < calls[f].batch THEN Due(calls, l, m, f, s, r + 1, 0)
                                      ELSE Due(calls, l, m, f, s + 1, 0, 0)
    BY DueRowEnd
  <2>2. fwd[n] \in Nat /\ step[n] \in Steps /\ row[n] \in Nat /\ calls[fwd[n]].batch = batch[n]
    BY <1>3
  <2>. QED
    BY ONLY <2>1, <2>2
<1>12. CASE NextRow(n)
  <2>1. row[n] + 1 < batch[n] /\ row'[n] = row[n] + 1 /\ step' = step /\ pc'[n] = "send"
    BY <1>12, GotoEffect DEF NextRow, IInv, TypeOK
  <2>2. PipeInv(n)'
    <3>1. \A r \in 0 .. row'[n] : r < row'[n] => r \in 0 .. row[n]
      BY <1>3, <2>1
    <3>. QED
      BY <1>2, <1>9, <2>1, <3>1 DEF PipeInv, Part
  <2>3. ASSUME NEW p \in Peers(n)
        PROVE  DueIn(n, p)' = DueIn(n, p) /\ DueOut(n, p)' = DueOut(n, p)
    <3>1. /\ DueIn(n, p)' = Due(calls, p, n, fwd[n], step[n], row[n] + 1, 0)
          /\ DueOut(n, p)' = Due(calls, n, p, fwd[n], step[n], row[n] + 1, 0)
      BY <1>2, <1>5, <1>11, <2>1 DEF DueIn, DueOut, StepOf, RowOf, NoIO
    <3>2. p \in Node
      BY <1>11
    <3>3. /\ Due(calls, p, n, fwd[n], step[n], row[n], Chunks) = Due(calls, p, n, fwd[n], step[n], row[n] + 1, 0)
          /\ Due(calls, n, p, fwd[n], step[n], row[n], Chunks) = Due(calls, n, p, fwd[n], step[n], row[n] + 1, 0)
      BY <2>1, <1>16, <3>2
    <3>. QED
      BY <1>11, <3>1, <3>2, <3>3
  <2>4. Alive(n) /\ row'[n] < batch'[n]
    BY <1>1, <1>2, <2>1 DEF Alive
  <2>. QED
    BY <1>1, <1>2, <1>7, <2>1, <2>2, <2>3, <2>4, Move
<1>13. ASSUME ~ (row[n] + 1 < batch[n]), NEW p \in Peers(n)
       PROVE  /\ DueIn(n, p) = Due(calls, p, n, fwd[n], step[n] + 1, 0, 0)
              /\ DueOut(n, p) = Due(calls, n, p, fwd[n], step[n] + 1, 0, 0)
  <2>1. p \in Node
    BY <1>11
  <2>2. /\ Due(calls, p, n, fwd[n], step[n], row[n], Chunks) = Due(calls, p, n, fwd[n], step[n] + 1, 0, 0)
        /\ Due(calls, n, p, fwd[n], step[n], row[n], Chunks) = Due(calls, n, p, fwd[n], step[n] + 1, 0, 0)
    BY <1>13, <1>16, <2>1
  <2>. QED
    BY <1>11, <2>1, <2>2
<1>14. CASE NextSegment(n)
  <2>1. row[n] + 1 >= batch[n] /\ step'[n] = step[n] + 1 /\ pc'[n] = "op"
    BY <1>14, GotoEffect DEF NextSegment, IInv, TypeOK
  <2>2. ~ (row[n] + 1 < batch[n]) /\ step'[n] - 1 = step[n]
    BY <1>3, <2>1 DEF Steps
  <2>3. PipeInv(n)'
    BY <1>2, <1>10, <2>1, <2>2 DEF PipeInv, Gathered, Part
  <2>4. ASSUME NEW p \in Peers(n)
        PROVE  DueIn(n, p)' = DueIn(n, p) /\ DueOut(n, p)' = DueOut(n, p)
    <3>1. /\ DueIn(n, p)' = Due(calls, p, n, fwd[n], step[n] + 1, 0, 0)
          /\ DueOut(n, p)' = Due(calls, n, p, fwd[n], step[n] + 1, 0, 0)
      BY <1>2, <2>1 DEF DueIn, DueOut, StepOf, RowOf
    <3>. QED
      BY <1>13, <2>2, <3>1
  <2>5. Alive(n)
    BY <1>1 DEF Alive
  <2>. QED
    BY <1>1, <1>2, <1>7, <2>1, <2>3, <2>4, <2>5, Move
<1>15. CASE ForwardReturn(n)
  <2>1. row[n] + 1 >= batch[n] /\ step[n] = NSteps /\ pc'[n] = "ctl"
    BY <1>15, GotoEffect DEF ForwardReturn, IInv
  <2>2. ~ (row[n] + 1 < batch[n])
    BY <1>3, <2>1
  <2>3. PipeInv(n)'
    BY <1>2, <1>10, <2>1, <2>2 DEF PipeInv, Gathered, Part
  <2>4. ASSUME NEW p \in Peers(n)
        PROVE  DueIn(n, p)' = DueIn(n, p) /\ DueOut(n, p)' = DueOut(n, p)
    <3>1. /\ DueIn(n, p)' = Due(calls, p, n, fwd[n], NSteps + 1, 0, 0)
          /\ DueOut(n, p)' = Due(calls, n, p, fwd[n], NSteps + 1, 0, 0)
      BY <1>2, <2>1 DEF DueIn, DueOut, StepOf, RowOf
    <3>. QED
      BY <1>13, <2>1, <2>2, <3>1
  <2>5. Alive(n) /\ pc'[n] \notin InForward
    BY <1>1, <2>1 DEF Alive, InForward
  <2>. QED
    BY <1>1, <1>2, <1>7, <2>1, <2>3, <2>4, <2>5, Move
<1>. QED
  BY <1>12, <1>14, <1>15 DEF RowDone

\* What is due to and from a node does not depend on forwards to come.
LEMMA DueAnnounced ==
  ASSUME IInv, NEW b \in Node, NEW p \in Node, NEW c, Alive(b), Untouched(b), calls' = Append(calls, c)
  PROVE  /\ Alive(b)'
         /\ DueIn(b, p)' = DueIn(b, p)
         /\ DueOut(b, p)' = DueOut(b, p)
<1>1. Alive(b)' /\ fwd[b] \in Nat
  BY DEF Alive, Untouched, IInv, TypeOK
<1>2. CASE pc[b] = "ctl"
  <2>1. /\ DueIn(b, p) = Due(calls, p, b, fwd[b], NSteps + 1, 0, 0)
        /\ DueOut(b, p) = Due(calls, b, p, fwd[b], NSteps + 1, 0, 0)
        /\ DueIn(b, p)' = Due(calls', p, b, fwd[b], NSteps + 1, 0, 0)
        /\ DueOut(b, p)' = Due(calls', b, p, fwd[b], NSteps + 1, 0, 0)
    BY <1>2 DEF Untouched, DueIn, DueOut, StepOf, RowOf
  <2>2. \A cs : /\ Due(cs, p, b, fwd[b], NSteps + 1, 0, 0) = At(fwd[b] + 1, FirstStep(p), 0, 0)
               /\ Due(cs, b, p, fwd[b], NSteps + 1, 0, 0) = At(fwd[b] + 1, FirstStep(b), 0, 0)
    BY <1>1, DueEnds
  <2>. QED
    BY <1>1, <2>1, <2>2
<1>3. CASE pc[b] \in InForward
  <2>1. fwd[b] \in 1 .. Len(calls)
    BY <1>3, CurrentCall
  <2>2. calls'[fwd[b]] = calls[fwd[b]]
    BY <2>1 DEF IInv, TypeOK
  <2>3. ASSUME NEW m, NEW n, NEW s, NEW r, NEW k
        PROVE  Due(calls', m, n, fwd[b], s, r, k) = Due(calls, m, n, fwd[b], s, r, k)
    <3>1. RowsOf(calls', fwd[b], s) = RowsOf(calls, fwd[b], s)
      BY <2>2 DEF RowsOf
    <3>. QED
      BY <3>1 DEF Due
  <2>. QED
    BY <1>1, <2>3 DEF Untouched, DueIn, DueOut, StepOf, RowOf
<1>. QED
  BY <1>2, <1>3 DEF Alive

\* The root decides to run a forward, which moves no message yet.
LEMMA StepForward ==
  ASSUME IInv, NEW b \in 1 .. NBatches, RootForward(b)
  PROVE  StreamInv'
<1> USE Constants
<1> DEFINE c == Call(FirstRow(b), b)
<1>1. calls' = Append(calls, c) /\ calls \in Seq([pos : Nat, batch : 1 .. NBatches])
  BY DEF RootForward, IInv, TypeOK
<1>2. /\ pc[Root] = "ctl" /\ pc'[Root] = "announce" /\ io'[Root] = NoIO
      /\ \A n \in Node \ {Root} : pc'[n] = pc[n] /\ io'[n] = io[n]
  BY GotoEffect DEF IInv, RootForward
<1>3. /\ fwd'[Root] = fwd[Root] + 1 /\ pos'[Root] = FirstRow(b) /\ batch'[Root] = b
      /\ \A n \in Node \ {Root} : fwd'[n] = fwd[n] /\ pos'[n] = pos[n] /\ batch'[n] = batch[n]
  BY DEF RootForward, IInv, TypeOK
<1>4. UNCHANGED <<step, row, chan, x, zq, lg>>
  BY DEF RootForward, pipes
<1>5. \A n \in Node \ {Root} : Untouched(n)
  BY <1>2, <1>3, <1>4 DEF Untouched
<1> HIDE DEF c
<1>6. CallInv /\ (\A m, n \in Node : GenuineAll(calls, chan[m][n])) /\ fwd[Root] \in Nat
  BY DEF IInv, StreamInv, TypeOK
<1>7. CallInv'
  <2>1. /\ Len(calls') = Len(calls) + 1 /\ Len(calls) \in Nat /\ calls'[Len(calls) + 1] = c
        /\ \A f \in 1 .. Len(calls) : calls'[f] = calls[f]
    BY <1>1
  <2>2. fwd'[Root] = Len(calls') /\ fwd'[Root] \in 1 .. Len(calls')
    BY <1>3, <1>6, <2>1 DEF CallInv
  <2>3. calls'[fwd'[Root]] = Call(pos'[Root], batch'[Root])
    BY <1>3, <1>6, <2>1 DEF CallInv, c
  <2>4. ASSUME NEW n \in Node \ {Root}
        PROVE  /\ pc'[n] \in InForward => fwd'[n] \in 1 .. Len(calls') /\ calls'[fwd'[n]] = Call(pos'[n], batch'[n])
               /\ pc'[n] \in {"send", "recv"} => row'[n] < batch'[n]
               /\ pc'[n] \notin {"announce", "finish"}
    <3>1. pc[n] \in InForward => fwd[n] \in 1 .. Len(calls) /\ calls[fwd[n]] = Call(pos[n], batch[n])
      BY <1>6 DEF CallInv
    <3>2. fwd[n] \in 1 .. Len(calls) => fwd[n] \in 1 .. Len(calls')
      BY <2>1
    <3>. QED
      BY <1>5, <1>6, <2>1, <3>1, <3>2 DEF CallInv, Untouched, Worker
  <2>. QED
    BY <1>2, <2>2, <2>3, <2>4 DEF CallInv, Worker
<1>8. ASSUME NEW m \in Node, NEW n \in Node PROVE GenuineAll(calls', chan'[m][n])
  <2>1. chan[m][n] \in Seq(Messages) /\ GenuineAll(calls, chan[m][n])
    BY <1>6 DEF IInv, TypeOK
  <2>2. GenuineAll(Append(calls, c), chan[m][n])
    BY <1>1, <2>1, Announced
  <2>. QED
    BY <1>1, <1>4, <2>2
<1>9. ASSUME NEW p \in Peers(Root)
      PROVE  DueIn(Root, p)' = DueIn(Root, p) /\ DueOut(Root, p)' = DueOut(Root, p)
  <2>1. p \in Node /\ p # Root /\ fwd[Root] + 1 \in Nat
    BY <1>6 DEF Peers
  <2>2. /\ DueIn(Root, p) = Due(calls, p, Root, fwd[Root], NSteps + 1, 0, 0)
        /\ DueOut(Root, p) = Due(calls, Root, p, fwd[Root], NSteps + 1, 0, 0)
    BY <1>2 DEF DueIn, DueOut, StepOf, RowOf
  <2>3. /\ DueIn(Root, p)' = Due(calls', p, Root, fwd[Root] + 1, 0, 0, 0)
        /\ DueOut(Root, p)' = Due(calls', Root, p, fwd[Root] + 1, 0, 0, 0)
    BY <1>2, <1>3, <2>1 DEF DueIn, DueOut, StepOf, RowOf, NoIO
  <2>4. /\ Due(calls, p, Root, fwd[Root], NSteps + 1, 0, 0) = At(fwd[Root] + 1, FirstStep(p), 0, 0)
        /\ Due(calls, Root, p, fwd[Root], NSteps + 1, 0, 0) = At(fwd[Root] + 1, FirstStep(Root), 0, 0)
    BY <1>6, <2>1, DueEnds
  <2>5. /\ Due(calls', p, Root, fwd[Root] + 1, 0, 0, 0) = At(fwd[Root] + 1, FirstStep(p), 0, 0)
        /\ Due(calls', Root, p, fwd[Root] + 1, 0, 0, 0) = At(fwd[Root] + 1, FirstStep(Root), 0, 0)
    BY <2>1, DueEnds
  <2>. QED
    BY <2>2, <2>3, <2>4, <2>5
<1>10. ASSUME NEW n \in Node, Alive(n)', NEW p \in Peers(n)
       PROVE  Alive(n) /\ DueIn(n, p)' = DueIn(n, p) /\ DueOut(n, p)' = DueOut(n, p)
  <2>1. CASE n = Root
    BY <1>2, <1>9, <2>1 DEF Alive
  <2>2. CASE n # Root
    <3>1. Alive(n) /\ p \in Node
      BY <1>5, <1>10, <2>2 DEF Untouched, Alive, Peers
    <3>. QED
      BY <1>1, <1>5, <2>2, <3>1, DueAnnounced
  <2>. QED
    BY <2>1, <2>2
<1>11. ASSUME NEW m \in Node, NEW n \in Peers(m) PROVE LinkInv(m, n)'
  <2>1. n \in Node /\ m \in Peers(n) /\ chan[m][n] \in Seq(Messages)
    BY LinkTypes DEF IInv
  <2>2. GenuineAll(calls, chan[m][n]) /\ LinkInv(m, n)
    BY <2>1 DEF IInv, StreamInv
  <2>3. ASSUME NEW start
        PROVE  /\ Aligned(calls, m, n, chan[m][n], start) => Aligned(calls', m, n, chan[m][n], start)
               /\ NoStops(chan[m][n]) => EndOf(calls', m, n, chan[m][n], start) = EndOf(calls, m, n, chan[m][n], start)
    <3>1. /\ Aligned(calls, m, n, chan[m][n], start) => Aligned(Append(calls, c), m, n, chan[m][n], start)
          /\ NoStops(chan[m][n]) => EndOf(Append(calls, c), m, n, chan[m][n], start) = EndOf(calls, m, n, chan[m][n], start)
      BY <1>1, <2>1, <2>2, Announced
    <3>. QED
      BY <1>1, <3>1
  <2>4. ASSUME Alive(n)'
        PROVE  Alive(n) /\ DueIn(n, m)' = DueIn(n, m)
    BY <1>10, <2>1, <2>4
  <2>5. ASSUME Alive(m)'
        PROVE  Alive(m) /\ DueOut(m, n)' = DueOut(m, n)
    BY <1>10, <2>1, <2>5
  <2>. QED
    BY <1>4, <2>2, <2>3, <2>4, <2>5 DEF LinkInv
<1>12. ASSUME NEW n \in Node PROVE PipeInv(n)'
  <2>1. CASE n = Root
    BY <1>2, <2>1 DEF PipeInv
  <2>2. CASE n # Root
    BY <1>5, <2>2, UntouchedPipe DEF IInv, StreamInv
  <2>. QED
    BY <2>1, <2>2
<1>. QED
  BY <1>7, <1>8, <1>11, <1>12 DEF StreamInv

\* What is on its way stays genuine when something genuine is added, or the
\* oldest is taken off.
LEMMA GenuineQueue ==
  ASSUME NEW cs, NEW q \in Seq(Messages), GenuineAll(cs, q)
  PROVE  /\ \A d \in Messages : Genuine(cs, d) => GenuineAll(cs, Append(q, d))
         /\ q # <<>> => GenuineAll(cs, Tail(q))
<1>1. ASSUME NEW d \in Messages, Genuine(cs, d), NEW i \in 1 .. Len(Append(q, d))
      PROVE  Genuine(cs, Append(q, d)[i])
  <2>1. Append(q, d)[i] = d \/ (i \in 1 .. Len(q) /\ Append(q, d)[i] = q[i])
    OBVIOUS
  <2>. QED
    BY <1>1, <2>1 DEF GenuineAll
<1>2. ASSUME q # <<>>, NEW i \in 1 .. Len(Tail(q)) PROVE Genuine(cs, Tail(q)[i])
  <2>1. i + 1 \in 1 .. Len(q) /\ Tail(q)[i] = q[i + 1]
    BY <1>2
  <2>. QED
    BY <2>1 DEF GenuineAll
<1>. QED
  BY <1>1, <1>2 DEF GenuineAll

\* A step that writes to, or reads from, the link from k to l only.
LEMMA OneLink ==
  ASSUME IInv, NEW k \in Node, NEW l \in Peers(k), NEW q,
         chan' = [chan EXCEPT ![k][l] = q], calls' = calls,
         GenuineAll(calls, q), LinkInv(k, l)',
         \A b \in Node : Alive(b)' => Alive(b),
         \A b \in Node : \A p \in Peers(b) : Alive(b)' =>
           /\ b # l \/ p # k => DueIn(b, p)' = DueIn(b, p)
           /\ b # k \/ p # l => DueOut(b, p)' = DueOut(b, p)
  PROVE  /\ \A m, n \in Node : GenuineAll(calls', chan'[m][n])
         /\ \A m \in Node : \A n \in Peers(m) : LinkInv(m, n)'
<1>1. l \in Node /\ chan \in [Node -> [Node -> Seq(Messages)]]
  BY DEF Peers, IInv, TypeOK
<1>2. \A m, n \in Node : chan'[m][n] = IF m = k /\ n = l THEN q ELSE chan[m][n]
  BY <1>1
<1>3. ASSUME NEW m \in Node, NEW n \in Node PROVE GenuineAll(calls', chan'[m][n])
  BY <1>2 DEF IInv, StreamInv
<1>4. ASSUME NEW m \in Node, NEW n \in Peers(m) PROVE LinkInv(m, n)'
  <2>1. n \in Node /\ m \in Peers(n)
    BY DEF Peers
  <2>2. CASE m = k /\ n = l
    BY <2>2
  <2>3. CASE ~ (m = k /\ n = l)
    <3>1. chan'[m][n] = chan[m][n]
      BY <1>2, <2>1, <2>3
    <3>2. Alive(n)' => Alive(n) /\ DueIn(n, m)' = DueIn(n, m)
      BY <2>1, <2>3
    <3>3. Alive(m)' => Alive(m) /\ DueOut(m, n)' = DueOut(m, n)
      BY <2>1, <2>3
    <3>. QED
      BY <3>1, <3>2, <3>3, LinkFrame
  <2>. QED
    BY <2>2, <2>3
<1>. QED
  BY <1>3, <1>4

\* A chunk that is due, written to the link from k to l.
LEMMA Written ==
  ASSUME IInv, NEW k \in Node, NEW l \in Peers(k), NEW d \in Messages,
         chan' = [chan EXCEPT ![k][l] = Append(@, d)], calls' = calls,
         Genuine(calls, d), ~ IsStop(d), Alive(k), Alive(k)', Place(d) = DueOut(k, l),
         DueOut(k, l)' = After(calls, k, l, d), Alive(l)' <=> Alive(l), DueIn(l, k)' = DueIn(l, k)
  PROVE  LinkInv(k, l)' /\ GenuineAll(calls, Append(chan[k][l], d))
<1>1. l \in Node /\ chan[k][l] \in Seq(Messages) /\ LinkInv(k, l) /\ GenuineAll(calls, chan[k][l])
  BY LinkTypes DEF IInv, StreamInv
<1>2. chan'[k][l] = Append(chan[k][l], d)
  BY <1>1 DEF IInv, TypeOK
<1>3. CASE Alive(l)
  <2>1. /\ Aligned(calls, k, l, chan[k][l], DueIn(l, k)) /\ NoStops(chan[k][l])
        /\ EndOf(calls, k, l, chan[k][l], DueIn(l, k)) = DueOut(k, l)
    BY <1>1, <1>3 DEF LinkInv
  <2>2. /\ Aligned(calls, k, l, Append(chan[k][l], d), DueIn(l, k))
        /\ EndOf(calls, k, l, Append(chan[k][l], d), DueIn(l, k)) = After(calls, k, l, d)
        /\ NoStops(Append(chan[k][l], d))
    BY <1>1, <2>1, Push
  <2>. QED
    BY <1>1, <1>2, <2>2, GenuineQueue DEF LinkInv
<1>4. CASE ~ Alive(l)
  BY <1>1, <1>4, GenuineQueue DEF LinkInv
<1>. QED
  BY <1>3, <1>4

\* A control or stop packet goes to a worker.
LEMMA StepBroadcast ==
  ASSUME IInv, NEW p \in Worker, RootBroadcast(p)
  PROVE  StreamInv'
<1> USE Constants
<1>1. p \in Peers(Root) /\ p \in Node /\ p # Root
  BY DEF Worker, Peers
<1>2. UNCHANGED <<calls, pc, fwd, pos, batch, step, row, x, zq, lg>>
  BY DEF RootBroadcast, place, pipes
<1>3. /\ io[Root][p] < 1 /\ io[Root][p] \in 0 .. Chunks
      /\ io'[Root][p] = io[Root][p] + 1 /\ \A q \in Node \ {p} : io'[Root][q] = io[Root][q]
      /\ \A n \in Node \ {Root} : io'[n] = io[n]
  BY <1>1 DEF RootBroadcast, Turn, IInv, TypeOK
<1>4. \A n \in Node \ {Root} : Untouched(n)
  BY <1>2, <1>3 DEF Untouched
<1>5. \A n \in Node : Alive(n)' <=> Alive(n)
  BY <1>2 DEF Alive
<1>6. CallInv'
  BY <1>2 DEF IInv, StreamInv, CallInv
<1>7. ASSUME NEW n \in Node PROVE PipeInv(n)'
  <2>1. CASE n = Root
    <3>1. pc'[Root] \in {"announce", "finish"}
      BY <1>2 DEF RootBroadcast
    <3>. QED
      BY <2>1, <3>1 DEF PipeInv
  <2>2. CASE n # Root
    BY <1>4, <2>2, UntouchedPipe DEF IInv, StreamInv
  <2>. QED
    BY <2>1, <2>2
<1>8. ASSUME NEW b \in Node, NEW q \in Peers(b), Alive(b)'
      PROVE  DueIn(b, q)' = DueIn(b, q) /\ (b # Root \/ q # p => DueOut(b, q)' = DueOut(b, q))
  <2>1. CASE b = Root
    <3>1. pc[Root] = "announce" /\ pc'[Root] = "announce"
      BY <1>2, <1>8, <2>1 DEF RootBroadcast, Alive, InForward
    <3>. QED
      BY <1>2, <1>3, <1>8, <2>1, <3>1 DEF DueIn, DueOut, StepOf, RowOf, Peers
  <2>2. CASE b # Root
    BY <1>2, <1>4, <1>8, <2>2, UntouchedDue DEF Peers
  <2>. QED
    BY <2>1, <2>2
<1>9. CASE pc[Root] = "announce"
  <2> DEFINE d == Control(fwd[Root], Call(pos[Root], batch[Root]))
  <2>1. chan' = [chan EXCEPT ![Root][p] = Append(@, d)]
    BY <1>9 DEF RootBroadcast
  <2>2. /\ fwd[Root] \in 1 .. Len(calls) /\ calls[fwd[Root]] = Call(pos[Root], batch[Root])
        /\ fwd[Root] \in Nat /\ calls[fwd[Root]] \in Calls /\ calls[fwd[Root]] # Stop
    <3>1. fwd[Root] \in 1 .. Len(calls) /\ calls[fwd[Root]] = Call(pos[Root], batch[Root])
      BY <1>9 DEF IInv, StreamInv, CallInv, InForward
    <3>. QED
      BY <3>1, CallTypes DEF IInv, TypeOK
  <2>3. d \in Messages
    BY <2>2, MessageTypes
  <2>4. /\ d.ver.fwd = fwd[Root] /\ d.ver.step = 0 /\ d.row = 0 /\ d.chunk = 0
        /\ d.call = calls[fwd[Root]]
    BY <2>2 DEF Control, Version
  <2> HIDE DEF d
  <2>5. Genuine(calls, d) /\ ~ IsStop(d)
    BY <2>2, <2>4 DEF Genuine, IsStop, IsControl
  <2>6. io[Root][p] = 0 /\ io'[Root][p] = 1
    BY <1>3
  <2>7. Place(d) = DueOut(Root, p)
    <3>1. DueOut(Root, p) = Due(calls, Root, p, fwd[Root], 0, 0, 0)
      BY <1>9, <2>6 DEF DueOut, StepOf, RowOf
    <3>2. Due(calls, Root, p, fwd[Root], 0, 0, 0) = At(fwd[Root], 0, 0, 0)
      BY <1>1, <2>2, DueEnds DEF FirstStep
    <3>. QED
      BY <2>4, <3>1, <3>2 DEF Place
  <2>8. DueOut(Root, p)' = After(calls, Root, p, d)
    BY <1>2, <1>9, <2>4, <2>6 DEF DueOut, StepOf, RowOf, After
  <2>9. Alive(Root) /\ Alive(Root)'
    BY <1>2, <1>9 DEF Alive, InForward
  <2>10. DueIn(p, Root)' = DueIn(p, Root)
    BY <1>1, <1>2, <1>4, UntouchedDue
  <2>11. LinkInv(Root, p)' /\ GenuineAll(calls, Append(chan[Root][p], d))
    BY <1>1, <1>2, <1>5, <2>1, <2>3, <2>5, <2>7, <2>8, <2>9, <2>10, Written
  <2>12. chan' = [chan EXCEPT ![Root][p] = Append(chan[Root][p], d)]
    BY <1>1, <2>1 DEF IInv, TypeOK
  <2>13. /\ \A m, n \in Node : GenuineAll(calls', chan'[m][n])
         /\ \A m \in Node : \A n \in Peers(m) : LinkInv(m, n)'
    BY <1>1, <1>2, <1>5, <1>8, <2>11, <2>12, OneLink
  <2>. QED
    BY <1>6, <1>7, <2>13 DEF StreamInv
<1>10. CASE pc[Root] = "finish"
  <2> DEFINE d == Control(fwd[Root] + 1, Stop)
  <2>1. chan' = [chan EXCEPT ![Root][p] = Append(@, d)]
    BY <1>10 DEF RootBroadcast
  <2>2. d \in Messages /\ IsStop(d)
    <3>1. fwd[Root] + 1 \in Nat
      BY DEF IInv, TypeOK
    <3>2. d \in Messages
      BY <3>1, MessageTypes
    <3>3. IsStop(d)
      BY DEF IsStop, IsControl, Control, Version
    <3>. QED
      BY <3>2, <3>3
  <2> HIDE DEF d
  <2>3. ~ Alive(Root) /\ ~ Alive(Root)'
    BY <1>2, <1>10 DEF Alive, InForward
  <2>4. chan[Root][p] \in Seq(Messages) /\ LinkInv(Root, p) /\ GenuineAll(calls, chan[Root][p])
    BY <1>1, LinkTypes DEF IInv, StreamInv
  <2>5. chan' = [chan EXCEPT ![Root][p] = Append(chan[Root][p], d)] /\ chan'[Root][p] = Append(chan[Root][p], d)
    BY <1>1, <2>1 DEF IInv, TypeOK
  <2>6. DueIn(p, Root)' = DueIn(p, Root)
    BY <1>1, <1>2, <1>4, UntouchedDue
  <2>7. Aligned(calls, Root, p, chan[Root][p], DueIn(p, Root)) =>
          Aligned(calls, Root, p, chan'[Root][p], DueIn(p, Root))
    BY <2>2, <2>4, <2>5, PushStop
  <2>8. LinkInv(Root, p)'
    BY <1>1, <1>2, <1>5, <2>3, <2>4, <2>6, <2>7 DEF LinkInv
  <2>9. GenuineAll(calls, Append(chan[Root][p], d))
    <3>1. Genuine(calls, d)
      BY <2>2 DEF Genuine
    <3>. QED
      BY <2>2, <2>4, <3>1, GenuineQueue
  <2>10. /\ \A m, n \in Node : GenuineAll(calls', chan'[m][n])
         /\ \A m \in Node : \A n \in Peers(m) : LinkInv(m, n)'
    BY <1>1, <1>2, <1>5, <1>8, <2>5, <2>8, <2>9, OneLink
  <2>. QED
    BY <1>6, <1>7, <2>10 DEF StreamInv
<1>. QED
  BY <1>9, <1>10 DEF RootBroadcast

\* What a node sends is its own part, of the step and the forward it is in.
LEMMA OutgoingIsOwn ==
  ASSUME IInv, NEW n \in Node, NEW p \in Peers(n), pc[n] = "send", p \in Targets(n, step[n])
  PROVE  Outgoing(n) = Version(fwd[n], step[n])
<1>1. step[n] \in Steps /\ row[n] \in Nat /\ row[n] < batch[n] /\ batch[n] \in Nat
  BY DEF IInv, TypeOK, StreamInv, CallInv, Rows
<1>2. row[n] \in 0 .. batch[n] - 1
  BY <1>1
<1>3. n \in Own(n, step[n])
  BY DEF Targets, SyncType, Own
<1>4. Part(n, step[n], row[n], n) = Version(fwd[n], step[n])
  BY <1>2, <1>3 DEF IInv, StreamInv, PipeInv
<1>5. NSteps # 1
  BY Constants
<1>. QED
  BY <1>4, <1>5 DEF Outgoing, SyncType, Part

\* A chunk goes out, the one that is due.
LEMMA StepWriteChunk ==
  ASSUME IInv, NEW n \in Node, NEW p \in Peers(n), WriteChunk(n, p)
  PROVE  StreamInv'
<1> USE Constants
<1> DEFINE d == NextChunk(n, p)
<1>1. p \in Node /\ p # n /\ n \in Peers(p)
  BY DEF Peers
<1>2. UNCHANGED <<calls, pc, fwd, pos, batch, step, row, x, zq, lg>> /\ pc[n] = "send"
  BY DEF WriteChunk, place, pipes
<1>3. /\ p \in Targets(n, step[n]) /\ io[n][p] \in 0 .. Chunks - 1
      /\ io'[n][p] = io[n][p] + 1 /\ \A q \in Node \ {p} : io'[n][q] = io[n][q]
      /\ \A b \in Node \ {n} : io'[b] = io[b]
  BY <1>1, TurnType DEF WriteChunk, Turn, IInv, TypeOK
<1>4. chan' = [chan EXCEPT ![n][p] = Append(@, d)]
  BY DEF WriteChunk
<1>5. \A b \in Node \ {n} : Untouched(b)
  BY <1>2, <1>3 DEF Untouched
<1>6. (\A b \in Node : Alive(b)' <=> Alive(b)) /\ Alive(n)
  BY <1>2 DEF Alive, InForward
<1>7. CallInv'
  BY <1>2 DEF IInv, StreamInv, CallInv
<1>8. ASSUME NEW b \in Node PROVE PipeInv(b)'
  <2>1. CASE b = n
    <3>1. PipeInv(n)
      BY DEF IInv, StreamInv
    <3>. QED
      BY <1>2, <2>1, <3>1 DEF PipeInv, Part
  <2>2. CASE b # n
    BY <1>5, <2>2, UntouchedPipe DEF IInv, StreamInv
  <2>. QED
    BY <2>1, <2>2
<1>9. ASSUME NEW b \in Node, NEW q \in Peers(b)
      PROVE  DueIn(b, q)' = DueIn(b, q) /\ (b # n \/ q # p => DueOut(b, q)' = DueOut(b, q))
  <2>1. CASE b = n
    BY <1>2, <1>3, <2>1 DEF DueIn, DueOut, StepOf, RowOf, Peers
  <2>2. CASE b # n
    BY <1>2, <1>5, <2>2, UntouchedDue DEF Peers
  <2>. QED
    BY <2>1, <2>2
<1>10. /\ step[n] \in Steps /\ fwd[n] \in 1 .. Len(calls) /\ fwd[n] \in Nat /\ row[n] \in Rows
       /\ row[n] \in Nat /\ io[n][p] \in Nat
  <2>1. fwd[n] \in 1 .. Len(calls)
    BY <1>2, CurrentCall DEF InForward
  <2>2. step[n] \in Steps /\ fwd[n] \in Nat /\ row[n] \in Rows /\ row[n] \in Nat
    BY DEF IInv, TypeOK, Rows
  <2>. QED
    BY <1>3, <2>1, <2>2
<1>11. d = Data(Version(fwd[n], step[n]), row[n], io[n][p])
  BY <1>2, <1>3, OutgoingIsOwn DEF NextChunk
<1>12. step[n] \in 0 .. NSteps /\ step[n] # 0 /\ step[n] \in 0 .. NSteps + 1
  BY <1>10 DEF Steps
<1>13. d \in Messages
  <2>1. Version(fwd[n], step[n]) \in Versions
    BY <1>10, <1>12, MessageTypes
  <2>. QED
    BY <1>3, <1>10, <1>11, <2>1, MessageTypes
<1>14. d.ver.fwd = fwd[n] /\ d.ver.step = step[n] /\ d.row = row[n] /\ d.chunk = io[n][p] /\ d.call = Stop
  BY <1>11 DEF Data, Version
<1> HIDE DEF d
<1>15. Genuine(calls, d) /\ ~ IsStop(d)
  BY <1>10, <1>12, <1>14 DEF Genuine, IsStop, IsControl
<1>16. Place(d) = DueOut(n, p)
  <2>1. DueOut(n, p) = Due(calls, n, p, fwd[n], step[n], row[n], io[n][p])
    BY <1>2 DEF DueOut, StepOf, RowOf
  <2>2. FirstStep(n) <= step[n] /\ step[n] <= LastStep(p)
    BY <1>3, <1>10, LinkSteps DEF IInv
  <2>3. io[n][p] < SizeOf(step[n])
    BY <1>3, <1>12 DEF SizeOf
  <2>4. Due(calls, n, p, fwd[n], step[n], row[n], io[n][p]) = At(fwd[n], step[n], row[n], io[n][p])
    BY <1>1, <1>10, <1>12, <2>2, <2>3, DueFacts
  <2>. QED
    BY <1>14, <2>1, <2>4 DEF Place
<1>17. DueOut(n, p)' = After(calls, n, p, d)
  BY <1>2, <1>3, <1>14 DEF DueOut, StepOf, RowOf, After
<1>18. DueIn(p, n)' = DueIn(p, n)
  BY <1>1, <1>9
<1>19. LinkInv(n, p)' /\ GenuineAll(calls, Append(chan[n][p], d))
  BY <1>1, <1>2, <1>4, <1>6, <1>13, <1>15, <1>16, <1>17, <1>18, Written
<1>20. chan' = [chan EXCEPT ![n][p] = Append(chan[n][p], d)]
  BY <1>1, <1>4 DEF IInv, TypeOK
<1>21. /\ \A l, m \in Node : GenuineAll(calls', chan'[l][m])
       /\ \A l \in Node : \A m \in Peers(l) : LinkInv(l, m)'
  BY <1>1, <1>2, <1>6, <1>9, <1>19, <1>20, OneLink
<1>. QED
  BY <1>7, <1>8, <1>21 DEF StreamInv

\* The oldest chunk on the link from k to l, read; or a stop packet, dropped.
LEMMA Read ==
  ASSUME IInv, NEW k \in Node, NEW l \in Peers(k), chan[k][l] # <<>>,
         chan' = [chan EXCEPT ![k][l] = Tail(@)], calls' = calls,
         Alive(k)' <=> Alive(k), DueOut(k, l)' = DueOut(k, l), Alive(l)' => Alive(l),
         Alive(l)' /\ ~ IsStop(Head(chan[k][l])) => DueIn(l, k)' = After(calls, k, l, Head(chan[k][l]))
  PROVE  LinkInv(k, l)' /\ GenuineAll(calls, Tail(chan[k][l]))
<1>1. l \in Node /\ chan[k][l] \in Seq(Messages) /\ LinkInv(k, l) /\ GenuineAll(calls, chan[k][l])
  BY LinkTypes DEF IInv, StreamInv
<1>2. chan'[k][l] = Tail(chan[k][l])
  BY <1>1 DEF IInv, TypeOK
<1>3. GenuineAll(calls, Tail(chan[k][l]))
  BY <1>1, GenuineQueue
<1>4. CASE Alive(l)'
  <2>1. /\ Aligned(calls, k, l, chan[k][l], DueIn(l, k))
        /\ Alive(k) => NoStops(chan[k][l]) /\ EndOf(calls, k, l, chan[k][l], DueIn(l, k)) = DueOut(k, l)
    BY <1>1, <1>4 DEF LinkInv
  <2>2. CASE IsStop(Head(chan[k][l]))
    <3>1. Aligned(calls, k, l, Tail(chan[k][l]), DueIn(l, k)') /\ ~ NoStops(chan[k][l])
      BY <1>1, <2>1, <2>2, PopStop
    <3>. QED
      BY <1>2, <1>3, <2>1, <3>1 DEF LinkInv
  <2>3. CASE ~ IsStop(Head(chan[k][l]))
    <3> DEFINE begin == After(calls, k, l, Head(chan[k][l]))
    <3>1. /\ Aligned(calls, k, l, Tail(chan[k][l]), begin)
          /\ EndOf(calls, k, l, Tail(chan[k][l]), begin) = EndOf(calls, k, l, chan[k][l], DueIn(l, k))
          /\ NoStops(chan[k][l]) => NoStops(Tail(chan[k][l]))
      BY <1>1, <2>1, <2>3, Pop
    <3>2. DueIn(l, k)' = begin
      BY <1>4, <2>3
    <3> HIDE DEF begin
    <3>. QED
      BY <1>2, <1>3, <2>1, <3>1, <3>2 DEF LinkInv
  <2>. QED
    BY <2>2, <2>3
<1>5. CASE ~ Alive(l)'
  BY <1>3, <1>5 DEF LinkInv
<1>. QED
  BY <1>4, <1>5

\* A worker reads a control packet and enters the forward it announces, or a stop
\* packet, and ends.
LEMMA StepReadControl ==
  ASSUME IInv, NEW w \in Worker, ReadControl(w)
  PROVE  StreamInv'
<1> USE Constants
<1> DEFINE d == Head(chan[Root][w])
<1>1. w \in Node /\ w # Root /\ w \in Peers(Root) /\ Root \in Peers(w)
  BY DEF Worker, Peers
<1>2. /\ pc[w] = "ctl" /\ chan[Root][w] # <<>> /\ chan' = [chan EXCEPT ![Root][w] = Tail(@)]
      /\ UNCHANGED <<calls, x, zq, lg>>
  BY DEF ReadControl, pipes
<1>3. \/ IsControl(d) /\ ~IsStop(d) /\ StartForward(w, d.call)
      \/ IsStop(d) /\ Goto(w, "finished") /\ UNCHANGED place
      \/ ~IsControl(d) /\ Goto(w, "dead") /\ UNCHANGED place
  BY DEF ReadControl
<1>4. \A b \in Node \ {w} : Untouched(b)
  <2>1. CASE StartForward(w, d.call)
    <3>1. \A b \in Node \ {w} : pc'[b] = pc[b] /\ io'[b] = io[b]
      BY <1>1, <2>1, GotoEffect DEF StartForward, IInv
    <3>2. \A b \in Node \ {w} : /\ fwd'[b] = fwd[b] /\ pos'[b] = pos[b] /\ batch'[b] = batch[b]
                                /\ step'[b] = step[b] /\ row'[b] = row[b]
      BY <1>1, <2>1 DEF StartForward, IInv, TypeOK
    <3>. QED
      BY <1>2, <3>1, <3>2 DEF Untouched
  <2>2. CASE UNCHANGED place /\ \E l \in {"finished", "dead"} : Goto(w, l)
    <3>1. \A b \in Node \ {w} : pc'[b] = pc[b] /\ io'[b] = io[b]
      BY <1>1, <2>2, GotoEffect DEF IInv
    <3>. QED
      BY <1>2, <2>2, <3>1 DEF Untouched, place
  <2>. QED
    BY <1>3, <2>1, <2>2
<1>5. CallInv
  BY DEF IInv, StreamInv
\* Whether the packet starts a forward or ends the process.
<1>6. /\ pc'[w] \in InForward =>
           /\ fwd'[w] \in 1 .. Len(calls) /\ calls[fwd'[w]] = Call(pos'[w], batch'[w])
           /\ pc'[w] = "send" /\ row'[w] < batch'[w]
      /\ pc'[w] \in {"send", "finished", "dead"}
      /\ PipeInv(w)'
      /\ Alive(w)' =>
           /\ ~ IsStop(d) => DueIn(w, Root)' = After(calls, Root, w, d)
           /\ DueOut(w, Root)' = DueOut(w, Root)
           /\ \A q \in Peers(w) \ {Root} : DueIn(w, q)' = DueIn(w, q) /\ DueOut(w, q)' = DueOut(w, q)
  <2>1. CASE \E l \in {"finished", "dead"} : Goto(w, l)
    <3>1. pc'[w] \in {"finished", "dead"}
      BY <1>1, <2>1, GotoEffect DEF IInv
    <3>. QED
      BY <3>1 DEF PipeInv, Alive, InForward
  <2>2. CASE IsControl(d) /\ ~IsStop(d) /\ StartForward(w, d.call)
    <3>1. /\ fwd[w] + 1 \in 1 .. Len(calls) /\ d.call = calls[fwd[w] + 1] /\ fwd[w] \in Nat
          /\ After(calls, Root, w, d) = Due(calls, Root, w, fwd[w] + 1, 1, 0, 0)
      BY <1>2, <2>2, ControlDue, <1>1 DEF IInv, TypeOK
    <3>2. d.call.pos \in Nat /\ d.call.batch \in 1 .. NBatches
      BY <3>1, CallTypes DEF IInv
    <3> DEFINE c == d.call
    <3>3. c.pos \in Nat /\ c.batch \in 1 .. NBatches /\ c \in [pos : Nat, batch : 1 .. NBatches] /\ StartForward(w, c)
      <4>1. \A S : \A q \in Seq(S) : \A i \in 1 .. Len(q) : q[i] \in S
        OBVIOUS
      <4>2. calls[fwd[w] + 1] \in [pos : Nat, batch : 1 .. NBatches]
        BY <3>1, <4>1 DEF IInv, TypeOK
      <4>. QED
        BY <2>2, <3>1, <3>2, <4>2
    <3> HIDE DEF c
    <3>4. /\ fwd'[w] = fwd[w] + 1 /\ pos'[w] = c.pos /\ batch'[w] = c.batch
          /\ step'[w] = 1 /\ row'[w] = 0
      BY <1>1, <3>3 DEF StartForward, IInv, TypeOK
    <3>5. pc'[w] = "send" /\ io'[w] = NoIO
      BY <1>1, <3>3, GotoEffect DEF StartForward, IInv
    <3>6. c = Call(c.pos, c.batch)
      BY <3>3 DEF Call
    <3>7. calls[fwd'[w]] = Call(pos'[w], batch'[w])
      BY <3>1, <3>4, <3>6 DEF c
    <3>8. PipeInv(w)'
      BY <1>1, <3>4, <3>5 DEF PipeInv, Own
    <3>9. ASSUME NEW q \in Peers(w)
          PROVE  /\ q \in Node
                 /\ DueIn(w, q)' = Due(calls, q, w, fwd[w] + 1, 1, 0, 0)
                 /\ DueOut(w, q)' = Due(calls, w, q, fwd[w] + 1, 1, 0, 0)
                 /\ DueIn(w, q) = Due(calls, q, w, fwd[w], NSteps + 1, 0, 0)
                 /\ DueOut(w, q) = Due(calls, w, q, fwd[w], NSteps + 1, 0, 0)
      BY <1>2, <3>4, <3>5 DEF DueIn, DueOut, StepOf, RowOf, NoIO, Peers
    <3>10. ASSUME NEW q \in Node, NEW m \in Node, m # Root
           PROVE  Due(calls, m, q, fwd[w] + 1, 1, 0, 0) = Due(calls, m, q, fwd[w], NSteps + 1, 0, 0)
      <4>1. fwd[w] + 1 \in Nat
        BY <3>1
      <4>2. /\ Due(calls, m, q, fwd[w] + 1, 0, 0, 0) = At(fwd[w] + 1, FirstStep(m), 0, 0)
            /\ Due(calls, m, q, fwd[w] + 1, 0, 0, 0) = Due(calls, m, q, fwd[w] + 1, 1, 0, 0)
        BY <3>10, <4>1, DueEnds
      <4>3. Due(calls, m, q, fwd[w], NSteps + 1, 0, 0) = At(fwd[w] + 1, FirstStep(m), 0, 0)
        BY <3>1, DueEnds
      <4>. QED
        BY <4>2, <4>3
    <3>11. DueIn(w, Root)' = After(calls, Root, w, d)
      BY <1>1, <3>1, <3>9
    <3>12. \A q \in Peers(w) : DueOut(w, q)' = DueOut(w, q) /\ (q # Root => DueIn(w, q)' = DueIn(w, q))
      BY <1>1, <3>9, <3>10
    <3>13. fwd'[w] \in 1 .. Len(calls) /\ row'[w] < batch'[w]
      BY <3>1, <3>3, <3>4
    <3>. QED
      BY <1>1, <3>5, <3>7, <3>8, <3>11, <3>12, <3>13
  <2>. QED
    BY <1>3, <2>1, <2>2
<1> HIDE DEF d
<1>7. CallInv'
  <2>1. fwd'[Root] = Len(calls')
    BY <1>1, <1>2, <1>4, <1>5 DEF CallInv, Untouched
  <2>2. ASSUME NEW n \in Node
        PROVE  /\ pc'[n] \in InForward => fwd'[n] \in 1 .. Len(calls') /\ calls'[fwd'[n]] = Call(pos'[n], batch'[n])
               /\ pc'[n] \in {"send", "recv"} => row'[n] < batch'[n]
               /\ n \in Worker => pc'[n] \notin {"announce", "finish"}
    <3>1. CASE n = w
      BY <1>2, <1>6, <3>1 DEF InForward
    <3>2. CASE n # w
      BY <1>2, <1>4, <1>5, <3>2 DEF CallInv, Untouched
    <3>. QED
      BY <3>1, <3>2
  <2>. QED
    BY <2>1, <2>2 DEF CallInv, Worker
<1>8. ASSUME NEW n \in Node PROVE PipeInv(n)'
  <2>1. CASE n = w
    BY <1>6, <2>1
  <2>2. CASE n # w
    BY <1>4, <2>2, UntouchedPipe DEF IInv, StreamInv
  <2>. QED
    BY <2>1, <2>2
<1>9. ASSUME NEW b \in Node PROVE Alive(b)' => Alive(b)
  <2>1. CASE b = w
    BY <1>2, <2>1 DEF Alive
  <2>2. CASE b # w
    BY <1>2, <1>4, <2>2, UntouchedDue
  <2>. QED
    BY <2>1, <2>2
<1>10. ASSUME NEW b \in Node, NEW q \in Peers(b), Alive(b)'
       PROVE  /\ b # w \/ q # Root => DueIn(b, q)' = DueIn(b, q)
              /\ b # Root \/ q # w => DueOut(b, q)' = DueOut(b, q)
  <2>1. CASE b = w
    BY <1>1, <1>6, <1>10, <2>1
  <2>2. CASE b # w
    BY <1>2, <1>4, <2>2, UntouchedDue DEF Peers
  <2>. QED
    BY <2>1, <2>2
<1>11. (Alive(Root)' <=> Alive(Root)) /\ DueOut(Root, w)' = DueOut(Root, w)
  BY <1>1, <1>2, <1>4, UntouchedDue
<1>12. LinkInv(Root, w)' /\ GenuineAll(calls, Tail(chan[Root][w]))
  BY <1>1, <1>2, <1>6, <1>9, <1>11, Read DEF d
<1>13. chan' = [chan EXCEPT ![Root][w] = Tail(chan[Root][w])]
  BY <1>1, <1>2 DEF IInv, TypeOK
<1>14. /\ \A l, m \in Node : GenuineAll(calls', chan'[l][m])
       /\ \A l \in Node : \A m \in Peers(l) : LinkInv(l, m)'
  BY <1>1, <1>2, <1>9, <1>10, <1>12, <1>13, OneLink
<1>. QED
  BY <1>7, <1>8, <1>14 DEF StreamInv

\* A version stored where the current step puts it is the part, in the current
\* row, of the peer it came from; in the first step it is the whole row.
LEMMA StoreParts ==
  ASSUME TypeOK, NEW n \in Node, NEW p \in Node, NEW v, Store(n, p, v), NEW s, s = step[n]
  PROVE  /\ \A r \in Rows, q \in Node :
              Part(n, s, r, q)' =
                IF r = row[n] /\ (s = 1 \/ q = p) THEN v ELSE Part(n, s, r, q)
         /\ \A b \in Node \ {n} : x'[b] = x[b] /\ zq'[b] = zq[b] /\ lg'[b] = lg[b]
<1> USE Constants
<1>1. /\ x \in [Node -> [Rows -> Versions]] /\ row[n] \in Rows
      /\ zq \in [Node -> [Rows -> [Node -> Versions]]] /\ lg \in [Node -> [Rows -> [Node -> Versions]]]
  BY DEF TypeOK
<1>2. CASE s = 1
  <2>1. x' = [x EXCEPT ![n][row[n]] = v] /\ zq' = zq /\ lg' = lg
    BY <1>2 DEF Store, SyncType
  <2>. QED
    BY <1>1, <1>2, <2>1 DEF Part
<1>3. CASE s = NSteps
  <2>1. lg' = [lg EXCEPT ![n][row[n]][p] = v] /\ zq' = zq /\ x' = x
    BY <1>3 DEF Store, SyncType
  <2>. QED
    BY <1>1, <1>3, <2>1 DEF Part
<1>4. CASE s # 1 /\ s # NSteps
  <2>1. zq' = [zq EXCEPT ![n][row[n]][p] = v] /\ lg' = lg /\ x' = x
    BY <1>4 DEF Store, SyncType
  <2>. QED
    BY <1>1, <1>4, <2>1 DEF Part
<1>. QED
  BY <1>2, <1>3, <1>4

\* A chunk is read, for the one it is.
LEMMA StepReadChunk ==
  ASSUME IInv, NEW n \in Node, NEW p \in Peers(n), ReadChunk(n, p)
  PROVE  StreamInv'
<1> USE Constants
<1> DEFINE d == Head(chan[p][n])
<1>1. p \in Node /\ p # n /\ n \in Peers(p)
  BY DEF Peers
<1>2. /\ pc[n] = "recv" /\ chan[p][n] # <<>> /\ chan' = [chan EXCEPT ![p][n] = Tail(@)]
      /\ UNCHANGED <<calls, pc, fwd, pos, batch, step, row>>
  BY DEF ReadChunk, place
<1>3. p \in Sources(n, step[n]) /\ io[n][p] < Chunks /\ io[n][p] \in Nat
  BY <1>1 DEF ReadChunk, Turn, IInv, TypeOK
<1>4. \/ IsControl(d) /\ UNCHANGED <<io, pipes>>
      \/ ~ IsControl(d) /\ io' = [io EXCEPT ![n][p] = @ + 1] /\ Store(n, p, d.ver)
  BY DEF ReadChunk
<1>5. /\ step[n] \in Steps /\ row[n] \in Rows /\ row[n] \in Nat /\ fwd[n] \in Nat
      /\ batch[n] \in 1 .. NBatches /\ io \in [Node -> [Node -> 0 .. Chunks]]
  <2>1. batch[n] \in 1 .. NBatches
    BY <1>2, CurrentCall DEF InForward
  <2>. QED
    BY <2>1 DEF IInv, TypeOK, Rows
\* What is read is the part awaited, or a stop packet.
<1>6. ~ IsStop(d) =>
        /\ ~ IsControl(d) /\ d.ver = Version(fwd[n], step[n])
        /\ After(calls, p, n, d) = Due(calls, p, n, fwd[n], step[n], row[n], io[n][p] + 1)
  <2>1. ASSUME ~ IsStop(d)
        PROVE  /\ ~ IsControl(d) /\ d = Data(Version(fwd[n], step[n]), row[n], io[n][p])
               /\ After(calls, p, n, d) = Due(calls, p, n, fwd[n], step[n], row[n], io[n][p] + 1)
    BY <1>2, <1>3, <2>1, DataDue
  <2>. QED
    BY <2>1 DEF Data
<1>7. IsStop(d) => UNCHANGED <<io, x, zq, lg>>
  BY <1>4 DEF IsStop, pipes
<1> HIDE DEF d
<1>8. ~ IsStop(d) =>
        /\ io'[n][p] = io[n][p] + 1 /\ \A q \in Node \ {p} : io'[n][q] = io[n][q]
        /\ \A b \in Node \ {n} : io'[b] = io[b]
        /\ Store(n, p, Version(fwd[n], step[n]))
  BY <1>1, <1>4, <1>5, <1>6
<1>9. \A b \in Node \ {n} : Untouched(b)
  <2>1. CASE IsStop(d)
    BY <1>2, <1>7, <2>1 DEF Untouched
  <2>2. CASE ~ IsStop(d)
    <3>1. \A b \in Node \ {n} : x'[b] = x[b] /\ zq'[b] = zq[b] /\ lg'[b] = lg[b]
      BY <1>1, <1>8, <2>2, StoreParts DEF IInv
    <3>. QED
      BY <1>2, <1>8, <2>2, <3>1 DEF Untouched
  <2>. QED
    BY <2>1, <2>2
<1>10. CallInv'
  BY <1>2 DEF IInv, StreamInv, CallInv
<1>11. PipeInv(n)'
  <2>1. PipeInv(n)
    BY DEF IInv, StreamInv
  <2>2. CASE IsStop(d)
    BY <1>2, <1>7, <2>1, <2>2 DEF PipeInv, Part
  <2>3. CASE ~ IsStop(d)
    <3> DEFINE v == Version(fwd[n], step[n])
    <3>1. \A r \in Rows, q \in Node :
            Part(n, step[n], r, q)' =
              IF r = row[n] /\ (step[n] = 1 \/ q = p) THEN v ELSE Part(n, step[n], r, q)
      <4>1. \A r \in Rows, q \in Node : \A s : s = step[n] =>
              Part(n, s, r, q)' = IF r = row[n] /\ (s = 1 \/ q = p) THEN v ELSE Part(n, s, r, q)
        BY <1>1, <1>8, <2>3, StoreParts DEF IInv
      <4>. QED
        BY <1>2, <4>1 DEF Part
    <3> HIDE DEF v
    <3>2. /\ \A r \in 0 .. batch[n] - 1 : \A q \in Own(n, step[n]) : Part(n, step[n], r, q) = v
          /\ \A r \in 0 .. row[n] : \A q \in Sources(n, step[n]) :
               r < row[n] \/ io[n][q] > 0 => Part(n, step[n], r, q) = v
      BY <1>2, <2>1 DEF PipeInv, v
    <3>3. Sources(n, step[n]) \subseteq Node /\ Own(n, step[n]) \subseteq Node
      BY <1>5, PeersAreNodes DEF Own
    <3>4. 0 .. batch[n] - 1 \subseteq Rows /\ 0 .. row[n] \subseteq Rows
      BY <1>5 DEF Rows
    <3>5. ASSUME NEW r \in 0 .. batch[n] - 1, NEW q \in Own(n, step[n])
          PROVE  Part(n, step[n], r, q)' = v
      BY <3>1, <3>2, <3>3, <3>4
    <3>6. ASSUME NEW r \in 0 .. row[n], NEW q \in Sources(n, step[n]), r < row[n] \/ io'[n][q] > 0
          PROVE  Part(n, step[n], r, q)' = v
      <4>1. q = p \/ io'[n][q] = io[n][q]
        BY <1>8, <2>3, <3>3
      <4>2. r = row[n] \/ r < row[n]
        <5>1. row[n] \in Nat
          BY <1>5
        <5>. QED
          BY <5>1
      <4>3. q # p => Part(n, step[n], r, q) = v
        BY <3>2, <3>6, <4>1
      <4>4. r < row[n] => Part(n, step[n], r, q) = v
        BY <3>2
      <4>. QED
        BY <3>1, <3>3, <3>4, <4>2, <4>3, <4>4
    <3>7. pc'[n] = "recv" /\ fwd' = fwd /\ step' = step /\ row' = row /\ batch' = batch
      BY <1>2
    <3>. QED
      BY <3>5, <3>6, <3>7 DEF PipeInv, v, Part
  <2>. QED
    BY <2>2, <2>3
<1>12. ASSUME NEW b \in Node PROVE PipeInv(b)'
  <2>1. CASE b = n
    BY <1>11, <2>1
  <2>2. CASE b # n
    BY <1>9, <2>2, UntouchedPipe DEF IInv, StreamInv
  <2>. QED
    BY <2>1, <2>2
<1>13. (\A b \in Node : Alive(b)' <=> Alive(b)) /\ Alive(n)
  BY <1>2 DEF Alive, InForward
<1>14. ASSUME NEW b \in Node, NEW q \in Peers(b)
       PROVE  /\ b # n \/ q # p => DueIn(b, q)' = DueIn(b, q)
              /\ DueOut(b, q)' = DueOut(b, q)
  <2>1. CASE b = n
    <3>1. q # p => io'[n][q] = io[n][q]
      BY <1>7, <1>8, <2>1 DEF Peers
    <3>. QED
      BY <1>2, <2>1, <3>1 DEF DueIn, DueOut, StepOf, RowOf
  <2>2. CASE b # n
    BY <1>2, <1>9, <2>2, UntouchedDue DEF Peers
  <2>. QED
    BY <2>1, <2>2
<1>15. ~ IsStop(d) => DueIn(n, p)' = After(calls, p, n, d)
  BY <1>2, <1>6, <1>8 DEF DueIn, StepOf, RowOf
<1>16. DueOut(p, n)' = DueOut(p, n)
  BY <1>1, <1>14
<1>17. LinkInv(p, n)' /\ GenuineAll(calls, Tail(chan[p][n]))
  BY <1>1, <1>2, <1>13, <1>15, <1>16, Read DEF d
<1>18. chan' = [chan EXCEPT ![p][n] = Tail(chan[p][n])]
  BY <1>1, <1>2 DEF IInv, TypeOK
<1>19. /\ \A l, m \in Node : GenuineAll(calls', chan'[l][m])
       /\ \A l \in Node : \A m \in Peers(l) : LinkInv(l, m)'
  <2>1. \A b \in Node : \A q \in Peers(b) : Alive(b)' =>
          /\ b # n \/ q # p => DueIn(b, q)' = DueIn(b, q)
          /\ b # p \/ q # n => DueOut(b, q)' = DueOut(b, q)
    BY <1>14
  <2>2. (\A b \in Node : Alive(b)' => Alive(b)) /\ calls' = calls
    BY <1>2, <1>13
  <2>. QED
    BY <1>1, <1>17, <1>18, <2>1, <2>2, OneLink
<1>. QED
  BY <1>10, <1>12, <1>19 DEF StreamInv

\* An error sends a node to its end; only the root still says goodbye.
LEMMA StepOnError ==
  ASSUME IInv, NEW n \in Node, OnError(n)
  PROVE  StreamInv'
<1>1. UNCHANGED <<calls, place, chan, pipes>>
  BY DEF OnError
<1>2. CASE n = Root /\ Goto(n, "finish")
  BY <1>1, <1>2, GiveUp
<1>3. CASE \E l \in {"finished", "dead"} : Goto(n, l)
  BY <1>1, <1>3, GiveUp
<1>. QED
  BY <1>2, <1>3 DEF OnError

\* An error or a crash: one node gives up and the streams stay as they are.
LEMMA StepFails ==
  ASSUME IInv
  PROVE  /\ RootFinish => StreamInv'
         /\ RootRaise => StreamInv'
         /\ \A n \in Node : Crash(n) => StreamInv'
<1>1. Root \in Node
  BY Constants
<1>2. RootFinish => StreamInv'
  BY <1>1, GiveUp DEF RootFinish
<1>3. RootRaise => StreamInv'
  BY <1>1, GiveUp DEF RootRaise
<1>4. ASSUME NEW n \in Node, Crash(n) PROVE StreamInv'
  BY <1>4, GiveUp DEF Crash
<1>. QED
  BY <1>2, <1>3, <1>4

\* A step that changes nothing.
LEMMA StutterInv == IInv /\ UNCHANGED vars => StreamInv'
  BY DEF vars, place, pipes, IInv, StreamInv, CallInv, LinkInv, PipeInv, Gathered, Part, Alive,
         DueIn, DueOut, StepOf, RowOf

-----------------------------------------------------------------------------
(* The invariant.                                                          *)

\* Init has nothing on its way and nobody in a forward.
LEMMA InitIInv == AllServed /\ Init => IInv
<1> SUFFICES ASSUME AllServed, Init PROVE StreamInv
  BY InitTypeOK DEF IInv
<1> USE Constants
<1>1. CallInv
  BY DEF Init, CallInv, InForward
<1>2. \A n \in Node : PipeInv(n)
  BY DEF Init, PipeInv
<1>3. \A m, n \in Node : chan[m][n] = <<>>
  BY DEF Init
<1>4. \A m, n \in Node : GenuineAll(calls, chan[m][n])
  BY <1>3 DEF GenuineAll
<1>5. ASSUME NEW m \in Node, NEW n \in Peers(m) PROVE LinkInv(m, n)
  <2>1. n \in Node /\ chan[m][n] = <<>>
    BY <1>3 DEF Peers
  <2>2. /\ DueIn(n, m) = Due(calls, m, n, 0, NSteps + 1, 0, 0)
        /\ DueOut(m, n) = Due(calls, m, n, 0, NSteps + 1, 0, 0)
    BY <2>1 DEF Init, DueIn, DueOut, StepOf, RowOf
  <2>. QED
    BY <2>1, <2>2 DEF LinkInv, Aligned, NoStops, EndOf
<1>. QED
  BY <1>1, <1>2, <1>4, <1>5 DEF StreamInv

\* A step of the invariant: one lemma for each action.
LEMMA NextIInv == IInv /\ [Next]_vars => IInv'
<1> SUFFICES ASSUME IInv, [Next]_vars PROVE IInv'
  OBVIOUS
<1>1. TypeOK'
  BY NextTypeOK DEF IInv
<1>2. AllServed'
  BY DEF IInv, AllServed, Served, Peers, SocketOf
<1>3. ASSUME NEW n \in Node, NodeStep(n) PROVE StreamInv'
  <2>1. CASE Compute(n)
    BY <2>1, StepCompute
  <2>2. CASE WriteDone(n)
    BY <2>2, StepWriteDone
  <2>3. CASE RowDone(n)
    BY <2>3, StepRowDone
  <2>4. ASSUME NEW p \in Peers(n), WriteChunk(n, p) PROVE StreamInv'
    BY <2>4, StepWriteChunk
  <2>5. ASSUME NEW p \in Peers(n), ReadChunk(n, p) PROVE StreamInv'
    BY <2>5, StepReadChunk
  <2>6. ASSUME NEW p \in Peers(n), WriteError(n, p) \/ ReadError(n, p) PROVE StreamInv'
    BY <2>6, StepOnError DEF WriteError, ReadError
  <2>. QED
    BY <1>3, <2>1, <2>2, <2>3, <2>4, <2>5, <2>6 DEF NodeStep
<1>4. ASSUME NEW b \in 1 .. NBatches, RootForward(b) PROVE StreamInv'
  BY <1>4, StepForward
<1>5. RootStep => StreamInv'
  BY StepBroadcast, StepBroadcastDone DEF RootStep
<1>6. ASSUME NEW w \in Worker, ReadControl(w) PROVE StreamInv'
  BY <1>6, StepReadControl
<1>7. UNCHANGED vars \/ Terminated => StreamInv'
  BY StutterInv DEF Terminated
<1>8. StreamInv'
  BY <1>3, <1>4, <1>5, <1>6, <1>7, StepFails DEF Next
<1>. QED
  BY <1>1, <1>2, <1>8 DEF IInv

\* With one thread each, or with a single worker, thread 0 serves all sockets.
OneThreadOrOneWorker == NNodes = 2 \/ \A n \in Node : NThreads[n] = 1

\* sync() gives thread t the sockets t, t + nThreads, ...: all of them to thread 0 if
\* there is one thread or one socket.
LEMMA ThreadZeroServesAll == OneThreadOrOneWorker => AllServed
<1> SUFFICES ASSUME OneThreadOrOneWorker, NEW n \in Node, NEW p \in Peers(n)
             PROVE  SocketOf(n, p) % NThreads[n] = 0
  BY DEF AllServed, Served
<1> USE Constants
<1>1. p \in Node /\ p # n /\ NThreads[n] \in Nat \ {0}
  BY ClusterAssumption DEF Peers
<1>2. SocketOf(n, p) \in Nat
  BY <1>1 DEF SocketOf, Node
<1>3. CASE NNodes = 2
  <2>1. SocketOf(n, p) = 0
    BY <1>1, <1>3 DEF SocketOf, Node
  <2>2. \A k \in Nat \ {0} : 0 % k = 0
    OBVIOUS
  <2>. QED
    BY <1>1, <2>1, <2>2
<1>4. CASE NThreads[n] = 1
  BY <1>2, <1>4
<1>. QED
  BY <1>3, <1>4 DEF OneThreadOrOneWorker

\* The inductive invariant of the streams.
LEMMA Inductive == OneThreadOrOneWorker /\ Spec => []IInv
<1>1. OneThreadOrOneWorker /\ Init => IInv
  BY ThreadZeroServesAll, InitIInv
<1>. QED
  BY <1>1, NextIInv, PTL DEF Spec

\* The chunk due on a link is the one that StreamAligned asks for.
LEMMA IInvAligned == IInv => StreamAligned
<1> SUFFICES ASSUME IInv, NEW n \in Node, NEW p \in Peers(n), pc[n] \notin Stopped,
                    chan[p][n] # <<>>, ~ IsStop(Head(chan[p][n]))
             PROVE  Awaited(n, p, Head(chan[p][n]))
  BY DEF StreamAligned
<1>1. ASSUME pc[n] = "recv", p \in Sources(n, step[n]), io[n][p] < Chunks
      PROVE  Head(chan[p][n]) = Data(Version(fwd[n], step[n]), row[n], io[n][p])
  BY <1>1, DataDue
<1>2. ASSUME pc[n] = "ctl", n # Root, p = Root
      PROVE  IsControl(Head(chan[p][n])) /\ Head(chan[p][n]).ver.fwd = fwd[n] + 1
  BY <1>2, ControlDue DEF Worker
<1>. QED
  BY <1>1, <1>2 DEF Awaited

\* Whoever starts to compute has gathered the step before.
LEMMA IInvInputs == IInv => InputsComplete
<1> SUFFICES ASSUME IInv, NEW n \in Node, pc[n] = "op", step[n] > 1, NEW r \in 0 .. batch[n] - 1
             PROVE  IF step[n] = 2 THEN x[n][r] = Version(fwd[n], 1)
                    ELSE \A p \in Node : zq[n][r][p] = Version(fwd[n], step[n] - 1)
  BY DEF InputsComplete
<1> USE Constants
<1>1. Gathered(n, step[n] - 1) /\ step[n] \in 2 .. NSteps
  BY DEF IInv, StreamInv, PipeInv, TypeOK, Steps
<1>2. \A p \in Own(n, step[n] - 1) \cup Sources(n, step[n] - 1) :
        Part(n, step[n] - 1, r, p) = Version(fwd[n], step[n] - 1)
  BY <1>1 DEF Gathered
<1>3. CASE step[n] = 2
  <2>1. Root \in Own(n, 1) \cup Sources(n, 1)
    BY DEF Own, Sources, SyncType
  <2>. QED
    BY <1>2, <1>3, <2>1 DEF Part
<1>4. CASE step[n] # 2
  <2>1. step[n] - 1 # 1 /\ step[n] - 1 # NSteps
    BY <1>1, <1>4
  <2>2. Own(n, step[n] - 1) = {n} /\ Sources(n, step[n] - 1) = Peers(n)
    BY <2>1 DEF Own, Sources, SyncType, IInv, AllServed
  <2>3. \A p \in Node : p \in {n} \cup Peers(n)
    BY DEF Peers
  <2>. QED
    BY <1>2, <1>4, <2>1, <2>2, <2>3 DEF Part
<1>. QED
  BY <1>3, <1>4

\* Whoever is back from a forward has gathered its last step.
LEMMA IInvLogits == IInv => LogitsComplete
<1> SUFFICES ASSUME IInv, pc[Root] = "ctl", fwd[Root] > 0, NEW r \in 0 .. batch[Root] - 1, NEW p \in Node
             PROVE  lg[Root][r][p] = Version(fwd[Root], NSteps)
  BY DEF LogitsComplete
<1> USE Constants
<1>1. Gathered(Root, NSteps)
  BY DEF IInv, StreamInv, PipeInv
<1>2. NSteps # 1 /\ NSteps # 0
  OBVIOUS
<1>3. Own(Root, NSteps) = {Root} /\ Sources(Root, NSteps) = Peers(Root)
  BY <1>2 DEF Own, Sources, SyncType, IInv, AllServed
<1>4. p \in {Root} \cup Peers(Root)
  BY DEF Peers
<1>. QED
  BY <1>1, <1>2, <1>3, <1>4 DEF Gathered, Part

\* A node never takes bytes for what they are not: in every cluster, with any
\* number of layers, rows, chunks and forwards, under any buffering, and when
\* processes crash or raise at any point, the next message a node reads is the
\* chunk of the forward, step, row and slice it reads it as (write_many,
\* read_many, try_read_control_packet), or the packet that ends it.
THEOREM AlignedStreams == OneThreadOrOneWorker /\ Spec => []StreamAligned
BY Inductive, IInvAligned, PTL

\* No segment runs on a pipe that is not whole: the X row, or the slices of all
\* nodes, that NnExecutor.forward reads are those of this forward's last sync.
THEOREM CompleteInputs == OneThreadOrOneWorker /\ Spec => []InputsComplete
BY Inductive, IInvInputs, PTL

\* The logits the root samples from are whole, and of the forward it asked for.
THEOREM CompleteLogits == OneThreadOrOneWorker /\ Spec => []LogitsComplete
BY Inductive, IInvLogits, PTL

\* Every node runs a forward at the position and with the rows that the root
\* announced for it, so that all write their KV caches at the same places.
THEOREM AgreedCalls == OneThreadOrOneWorker /\ Spec => []SameCall
<1>1. IInv => SameCall
  BY DEF IInv, StreamInv, CallInv, SameCall, InForward
<1>. QED
  BY <1>1, Inductive, PTL

-----------------------------------------------------------------------------
(* How a run ends.                                                         *)

\* The root has left its last forward for good.
Ended == pc[Root] \in {"finish", "finished"}

\* Its stop packet for w is out.
StopSent(w) == pc[Root] = "finished" \/ io[Root][w] = 1

\* w has nothing to send or to receive any more, but the stop packet.
Through(w) ==
  \/ pc[w] \in {"ctl", "finished"}
  \/ /\ pc[w] \in {"send", "recv"}
     /\ step[w] = NSteps /\ row[w] + 1 = batch[w]
     /\ pc[w] = "send" => io[w][Root] = Chunks

\* What is left to do for w when the root has ended.
Closing(w) ==
  /\ Through(w)
  /\ fwd[w] = Len(calls)
  /\ \A n \in Node : chan[w][n] = <<>>
  /\ pc[w] = "finished" => StopSent(w)
  /\ IF StopSent(w) /\ pc[w] # "finished"
       THEN Len(chan[Root][w]) = 1 /\ IsStop(Head(chan[Root][w]))
       ELSE chan[Root][w] = <<>>

EndInv ==
  /\ faults = 0
  /\ \A n \in Node : pc[n] # "dead" /\ chan[n][n] = <<>>
  /\ \A w \in Worker : fwd[w] <= Len(calls) /\ (pc[w] = "finished" => Ended)
  /\ Ended => \A w \in Worker : Closing(w)


-----------------------------------------------------------------------------
(* The end: the invariant holds step by step.                              *)

\* Before the end everybody lives, and no stop packet is about.
LEMMA BeforeEnd ==
  ASSUME IInv, EndInv, ~ Ended, NEW n \in Node
  PROVE  /\ Alive(n)
         /\ \A p \in Peers(n) : NoStops(chan[p][n])
<1>1. ASSUME NEW m \in Node PROVE Alive(m)
  <2>1. pc[m] \in Labels /\ pc[m] # "dead"
    BY DEF IInv, TypeOK, EndInv
  <2>2. m = Root \/ m \in Worker
    BY DEF Worker
  <2>3. m \in Worker => pc[m] # "finished" /\ pc[m] # "finish"
    BY DEF EndInv, IInv, StreamInv, CallInv
  <2>. QED
    BY <2>1, <2>2, <2>3 DEF Ended, Alive, Labels, InForward, Stopped
<1>2. ASSUME NEW p \in Peers(n) PROVE NoStops(chan[p][n])
  <2>1. p \in Node /\ n \in Peers(p)
    BY DEF Peers
  <2>. QED
    BY <1>1, <2>1 DEF IInv, StreamInv, LinkInv
<1>. QED
  BY <1>1, <1>2

\* A link from which a chunk of a forward yet to be announced is awaited, and
\* that holds no stop packet, is empty.
LEMMA NothingDue ==
  ASSUME IInv, NEW n \in Node, NEW p \in Peers(n), Alive(n), NoStops(chan[p][n]),
         NEW s, NEW f \in Nat, f > Len(calls), DueIn(n, p) = At(f, s, 0, 0)
  PROVE  chan[p][n] = <<>>
<1> SUFFICES ASSUME chan[p][n] # <<>> PROVE FALSE
  OBVIOUS
<1>1. p \in Node /\ n \in Peers(p)
  BY DEF Peers
<1>2. chan[p][n] \in Seq(Messages)
  BY <1>1, LinkTypes DEF IInv
<1>3. 1 \in 1 .. Len(chan[p][n]) /\ Head(chan[p][n]) = chan[p][n][1]
  BY <1>2
<1>4. ~ IsStop(Head(chan[p][n]))
  BY <1>3 DEF NoStops
<1>5. Place(Head(chan[p][n])) = At(f, s, 0, 0) /\ Genuine(calls, Head(chan[p][n]))
  BY <1>4, HeadDue
<1>6. Head(chan[p][n]).ver.fwd = f
  BY <1>5 DEF Place, At
<1>7. Len(calls) \in Nat
  BY DEF IInv, TypeOK
<1>. QED
  BY <1>4, <1>5, <1>6, <1>7 DEF Genuine

\* When forward() has returned on the root, the workers are through with theirs.
LEMMA WorkersThrough ==
  ASSUME IInv, EndInv, pc[Root] = "ctl", NEW w \in Worker
  PROVE  Through(w) /\ fwd[w] = Len(calls) /\ chan[w][Root] = <<>> /\ Alive(w)
<1> USE Constants
<1>1. w \in Node /\ w # Root /\ w \in Peers(Root) /\ Root \in Peers(w) /\ ~ Ended
  BY DEF Worker, Peers, Ended
<1>2. \A n \in Node : Alive(n) /\ \A p \in Peers(n) : NoStops(chan[p][n])
  BY <1>1, BeforeEnd
<1>3. Len(calls) \in Nat /\ fwd[Root] = Len(calls) /\ fwd[w] \in Nat /\ fwd[w] <= Len(calls)
  BY <1>1 DEF IInv, TypeOK, StreamInv, CallInv, EndInv
<1>4. DueIn(Root, w) = At(Len(calls) + 1, 2, 0, 0)
  <2>1. DueIn(Root, w) = Due(calls, w, Root, fwd[Root], NSteps + 1, 0, 0)
    BY DEF DueIn, StepOf, RowOf
  <2>2. Due(calls, w, Root, fwd[Root], NSteps + 1, 0, 0) = At(fwd[Root] + 1, FirstStep(w), 0, 0)
    BY <1>1, <1>3, DueEnds
  <2>. QED
    BY <1>1, <1>3, <2>1, <2>2 DEF FirstStep
<1>5. chan[w][Root] = <<>>
  <2>1. Len(calls) + 1 \in Nat /\ Len(calls) + 1 > Len(calls)
    BY <1>3
  <2>. QED
    BY <1>1, <1>2, <1>4, <2>1, NothingDue
<1>6. DueOut(w, Root) = At(Len(calls) + 1, 2, 0, 0)
  <2>1. LinkInv(w, Root)
    BY <1>1 DEF IInv, StreamInv
  <2>. QED
    BY <1>1, <1>2, <1>4, <1>5, <2>1 DEF LinkInv, EndOf
\* So the worker is past its last chunk of logits.
<1> DEFINE c == IF pc[w] \in {"announce", "send"} THEN io[w][Root]
                ELSE IF pc[w] = "recv" THEN Chunks ELSE 0
<1>7. Due(calls, w, Root, fwd[w], StepOf(w), RowOf(w), c) = At(Len(calls) + 1, 2, 0, 0)
  BY <1>6 DEF DueOut
<1>8. pc[w] \in {"op", "send", "recv", "ctl"}
  BY <1>1, <1>2 DEF Alive, InForward, IInv, StreamInv, CallInv
<1>9. /\ step[w] \in 1 .. NSteps /\ row[w] \in Nat /\ io[w][Root] \in 0 .. Chunks
      /\ StepOf(w) \in 1 .. NSteps + 1 /\ RowOf(w) \in Nat /\ c \in 0 .. Chunks
  <2>1. step[w] \in 1 .. NSteps /\ row[w] \in Nat /\ io[w][Root] \in 0 .. Chunks
    BY <1>1 DEF IInv, TypeOK, Steps, Rows
  <2>. QED
    BY <1>8, <2>1 DEF StepOf, RowOf
<1> HIDE DEF c
<1>10. /\ FirstStep(w) = 2 /\ LastStep(Root) = NSteps
       /\ SizeOf(StepOf(w)) = Chunks /\ RowsOf(calls, fwd[w], StepOf(w)) = calls[fwd[w]].batch
  <2>1. StepOf(w) # 0
    BY <1>9
  <2>. QED
    BY <1>1, <2>1 DEF FirstStep, LastStep, SizeOf, RowsOf
<1>11. /\ fwd[w] = Len(calls)
       /\ \/ StepOf(w) = NSteps + 1
          \/ StepOf(w) = NSteps /\ c = Chunks /\ ~ (RowOf(w) + 1 < calls[fwd[w]].batch)
  <2>1. \A f, s, r, k : At(f, s, r, k).fwd = f
    BY DEF At
  <2>2. Due(calls, w, Root, fwd[w], StepOf(w), RowOf(w), c).fwd = Len(calls) + 1
    BY <1>7, <2>1
  <2>3. StepOf(w) < 2 => Due(calls, w, Root, fwd[w], StepOf(w), RowOf(w), c).fwd = fwd[w]
    BY <1>10, <2>1 DEF Due
  <2>4. StepOf(w) >= 2 /\ ~ (StepOf(w) > NSteps) /\ c < Chunks =>
          Due(calls, w, Root, fwd[w], StepOf(w), RowOf(w), c).fwd = fwd[w]
    BY <1>9, <1>10, <2>1 DEF Due
  <2>5. StepOf(w) >= 2 /\ ~ (StepOf(w) > NSteps) /\ RowOf(w) + 1 < calls[fwd[w]].batch =>
          Due(calls, w, Root, fwd[w], StepOf(w), RowOf(w), c).fwd = fwd[w]
    BY <1>9, <1>10, <2>1 DEF Due
  <2>6. StepOf(w) >= 2 /\ StepOf(w) < NSteps =>
          Due(calls, w, Root, fwd[w], StepOf(w), RowOf(w), c).fwd = fwd[w]
    BY <1>9, <1>10, <2>1 DEF Due
  <2>7. Due(calls, w, Root, fwd[w], StepOf(w), RowOf(w), c).fwd \in {fwd[w], fwd[w] + 1}
    BY <1>9, <1>10, <2>1 DEF Due
  <2>. QED
    BY <1>3, <1>9, <2>2, <2>3, <2>4, <2>5, <2>6, <2>7
<1>12. Through(w)
  <2>1. CASE pc[w] = "ctl"
    BY <2>1 DEF Through
  <2>2. CASE pc[w] = "op"
    <3>1. StepOf(w) = step[w] /\ c = 0
      BY <2>2 DEF StepOf, c
    <3>. QED
      BY <1>9, <1>11, <3>1
  <2>3. CASE pc[w] \in {"send", "recv"}
    <3>1. step[w] = NSteps /\ ~ (row[w] + 1 < calls[fwd[w]].batch) /\ (pc[w] = "send" => io[w][Root] = Chunks)
      BY <1>9, <1>11, <2>3 DEF StepOf, RowOf, c
    <3>2. calls[fwd[w]].batch = batch[w] /\ batch[w] \in 1 .. NBatches /\ row[w] < batch[w]
      BY <1>1, <2>3, CurrentCall DEF InForward, IInv, StreamInv, CallInv
    <3>3. row[w] + 1 = batch[w]
      BY <1>9, <3>1, <3>2
    <3>. QED
      BY <2>3, <3>1, <3>3 DEF Through
  <2>. QED
    BY <1>8, <2>1, <2>2, <2>3
<1>. QED
  BY <1>1, <1>2, <1>5, <1>11, <1>12

\* What a worker that is through would read next is of a forward to come.
LEMMA ThroughDue ==
  ASSUME IInv, NEW w \in Worker, NEW p \in Node, Through(w), pc[w] # "finished"
  PROVE  DueIn(w, p) = At(fwd[w] + 1, FirstStep(p), 0, 0)
<1> USE Constants
<1>1. w \in Node /\ w # Root /\ fwd[w] \in Nat
  BY DEF Worker, IInv, TypeOK
<1>2. CASE pc[w] = "ctl"
  <2>1. DueIn(w, p) = Due(calls, p, w, fwd[w], NSteps + 1, 0, 0)
    BY <1>2 DEF DueIn, StepOf, RowOf
  <2>. QED
    BY <1>1, <2>1, DueEnds
<1>3. CASE pc[w] \in {"send", "recv"} /\ step[w] = NSteps
  <2>1. NSteps > LastStep(w) /\ ~ (NSteps < FirstStep(p))
    BY <1>1 DEF LastStep, FirstStep
  <2>2. StepOf(w) = NSteps
    BY <1>3 DEF StepOf
  <2>. QED
    BY <2>1, <2>2 DEF DueIn, Due
<1>. QED
  BY <1>2, <1>3 DEF Through

\* And nothing is left on any stream.
LEMMA AtRest ==
  ASSUME IInv, EndInv, pc[Root] = "ctl", NEW w \in Worker
  PROVE  \A n \in Node : chan[w][n] = <<>> /\ chan[n][w] = <<>>
<1> USE Constants
<1>1. \A n \in Worker : n \in Node /\ n # Root
  BY DEF Worker
<1>2. ~ Ended /\ Len(calls) \in Nat
  BY DEF Ended, IInv, TypeOK
<1>3. ASSUME NEW n \in Worker, NEW p \in Peers(n) PROVE chan[p][n] = <<>>
  <2>1. Alive(n) /\ NoStops(chan[p][n]) /\ p \in Node
    BY <1>1, <1>2, BeforeEnd DEF Peers
  <2>2. Through(n) /\ fwd[n] = Len(calls) /\ pc[n] # "finished"
    BY <2>1, WorkersThrough DEF Alive, InForward
  <2>3. DueIn(n, p) = At(Len(calls) + 1, FirstStep(p), 0, 0)
    BY <2>1, <2>2, ThroughDue
  <2>4. Len(calls) + 1 \in Nat /\ Len(calls) + 1 > Len(calls)
    BY <1>2
  <2>. QED
    BY <1>1, <2>1, <2>3, <2>4, NothingDue
<1>4. ASSUME NEW n \in Node PROVE chan[w][n] = <<>> /\ chan[n][w] = <<>>
  <2>1. CASE n = w
    BY <2>1 DEF EndInv
  <2>2. CASE n = Root
    BY <1>1, <1>3, <2>2, WorkersThrough DEF Peers
  <2>3. CASE n # w /\ n # Root
    BY <1>1, <1>3, <2>3 DEF Peers, Worker
  <2>. QED
    BY <2>1, <2>2, <2>3
<1>. QED
  BY <1>4

\* In a cluster without faults no call on a socket fails.
LEMMA NoErrors ==
  ASSUME IInv, EndInv, NEW n \in Node, NEW p \in Peers(n)
  PROVE  ~ WriteError(n, p) /\ ~ ReadError(n, p)
<1> USE Constants
<1>1. SUFFICES ASSUME pc[p] \in Stopped PROVE ~ WriteError(n, p) /\ ~ ReadError(n, p)
  BY DEF WriteError, ReadError
<1>2. p \in Node /\ p # n /\ (n = Root \/ n \in Worker) /\ (p = Root \/ p \in Worker)
  BY DEF Peers, Worker
<1>3. pc[p] = "finished" /\ Ended
  <2>1. pc[p] = "finished"
    BY <1>1, <1>2 DEF EndInv, Stopped
  <2>. QED
    BY <1>2, <2>1 DEF EndInv, Ended
<1>4. CASE n = Root
  <2>1. p \in Worker /\ StopSent(p)
    BY <1>2, <1>3, <1>4 DEF EndInv, Closing
  <2>2. pc[Root] = "finish" => ~ Turn(Root, p, Worker, 1)
    BY <2>1 DEF StopSent, Turn
  <2>. QED
    BY <1>3, <1>4, <2>2 DEF WriteError, ReadError, Ended
<1>5. CASE n \in Worker
  <2>1. Closing(n) /\ n # Root
    BY <1>3, <1>5 DEF EndInv, Worker
  <2>2. pc[n] \in {"send", "recv"} =>
          /\ step[n] = NSteps /\ Targets(n, step[n]) = {Root} /\ Sources(n, step[n]) = {}
          /\ (pc[n] = "send" => io[n][Root] = Chunks)
    BY <2>1 DEF Closing, Through, Targets, Sources, SyncType
  <2>3. ~ WriteError(n, p)
    BY <2>1, <2>2 DEF WriteError, Turn
  <2>4. ~ (pc[n] = "recv" /\ Turn(n, p, Sources(n, step[n]), Chunks))
    BY <2>2 DEF Turn
  <2>5. pc[n] = "ctl" /\ p = Root => chan[p][n] # <<>> /\ chan[n][p] = <<>>
    <3>1. p = Root => StopSent(n)
      BY <1>3 DEF StopSent
    <3>. QED
      BY <1>2, <2>1, <3>1 DEF Closing
  <2>. QED
    BY <2>3, <2>4, <2>5 DEF ReadError
<1>. QED
  BY <1>2, <1>4, <1>5

-----------------------------------------------------------------------------
(* Every action keeps EndInv.                                              *)

\* A step before the end.
LEMMA NotYet ==
  ASSUME EndInv, ~ Ended', faults' = faults,
         \A n \in Node : pc'[n] # "dead" /\ chan'[n][n] = <<>>,
         \A w \in Worker : fwd'[w] <= Len(calls') /\ pc'[w] # "finished"
  PROVE  EndInv'
  BY DEF EndInv

\* A step of one worker, after the end, that sends and receives nothing.
LEMMA ClosingMove ==
  ASSUME IInv, EndInv, Ended, NEW a \in Worker, \A b \in Node \ {a} : Untouched(b),
         UNCHANGED <<calls, chan, faults>>, fwd'[a] = fwd[a],
         pc[a] # "finished", pc'[a] \notin {"finished", "dead"}, Through(a)'
  PROVE  EndInv'
<1> USE Constants
<1>1. a \in Node /\ a # Root /\ Untouched(Root)
  BY DEF Worker
<1>2. Ended' /\ \A w \in Node : StopSent(w)' <=> StopSent(w)
  BY <1>1 DEF Ended, StopSent, Untouched
<1>3. ASSUME NEW w \in Worker PROVE Closing(w)'
  <2>1. Closing(w) /\ w \in Node
    BY DEF EndInv, Worker
  <2>2. CASE w = a
    BY <1>2, <2>1, <2>2 DEF Closing
  <2>3. CASE w # a
    <3>1. Untouched(w)
      BY <2>1, <2>3
    <3>2. Through(w)'
      BY <2>1, <3>1 DEF Untouched, Through, Closing
    <3>. QED
      BY <1>2, <2>1, <3>1, <3>2 DEF Closing, Untouched
  <2>. QED
    BY <2>2, <2>3
<1>4. ASSUME NEW n \in Node PROVE pc'[n] # "dead" /\ chan'[n][n] = <<>>
  BY DEF EndInv, Untouched
<1>5. ASSUME NEW w \in Worker PROVE fwd'[w] <= Len(calls')
  <2>1. w = a \/ Untouched(w)
    BY DEF Worker
  <2>. QED
    BY <2>1 DEF EndInv, Untouched
<1>. QED
  BY <1>2, <1>3, <1>4, <1>5 DEF EndInv

\* The root announces a forward, or ends.
LEMMA EndForward ==
  ASSUME IInv, EndInv, NEW b \in 1 .. NBatches, RootForward(b)
  PROVE  EndInv'
<1> USE Constants
<1>1. pc'[Root] = "announce" /\ pc[Root] = "ctl" /\ \A n \in Node \ {Root} : pc'[n] = pc[n]
  BY GotoEffect DEF IInv, RootForward
<1>2. chan' = chan /\ faults' = faults /\ \A n \in Node \ {Root} : fwd'[n] = fwd[n]
  BY DEF RootForward, IInv, TypeOK
<1>3. Len(calls') = Len(calls) + 1 /\ Len(calls) \in Nat
  BY DEF RootForward, IInv, TypeOK
<1>4. \A w \in Worker : fwd[w] \in Nat /\ fwd[w] <= Len(calls) /\ w \in Node /\ w # Root /\ pc[w] # "finished"
  BY <1>1 DEF EndInv, IInv, TypeOK, Worker, Ended
<1>5. \A w \in Worker : fwd'[w] <= Len(calls') /\ pc'[w] # "finished"
  BY <1>1, <1>2, <1>3, <1>4
<1>6. \A n \in Node : pc'[n] # "dead" /\ chan'[n][n] = <<>>
  BY <1>1, <1>2 DEF EndInv
<1>7. ~ Ended'
  BY <1>1 DEF Ended
<1>. QED
  BY <1>2, <1>5, <1>6, <1>7, NotYet

\* The root ends when all workers are through with the last forward.
LEMMA EndFinish == IInv /\ EndInv /\ RootFinish => EndInv'
<1> SUFFICES ASSUME IInv, EndInv, RootFinish PROVE EndInv'
  OBVIOUS
<1> USE Constants
<1>1. /\ pc[Root] = "ctl" /\ pc'[Root] = "finish" /\ io'[Root] = NoIO
      /\ \A n \in Node \ {Root} : pc'[n] = pc[n] /\ io'[n] = io[n]
  BY GotoEffect DEF IInv, RootFinish
<1>2. UNCHANGED <<calls, fwd, batch, step, row, chan, faults>>
  BY DEF RootFinish, place
<1>3. ASSUME NEW w \in Worker PROVE Closing(w)' /\ fwd[w] <= Len(calls)
  <2>1. w \in Node /\ w # Root
    BY DEF Worker
  <2>2. Through(w) /\ fwd[w] = Len(calls) /\ pc[w] # "finished"
    BY <1>1, WorkersThrough DEF Alive, InForward
  <2>3. \A n \in Node : chan[w][n] = <<>> /\ chan[n][w] = <<>>
    BY <1>1, AtRest
  <2>4. Through(w)'
    BY <1>1, <1>2, <2>1, <2>2 DEF Through
  <2>5. ~ StopSent(w)'
    BY <1>1, <2>1 DEF StopSent, NoIO
  <2>6. fwd[w] <= Len(calls)
    BY DEF EndInv
  <2>. QED
    BY <1>1, <1>2, <2>1, <2>2, <2>3, <2>4, <2>5, <2>6 DEF Closing
<1>4. \A n \in Node : pc'[n] # "dead"
  BY <1>1 DEF EndInv
<1>5. Ended'
  BY <1>1 DEF Ended
<1>. QED
  BY <1>2, <1>3, <1>4, <1>5 DEF EndInv

\* The stop packets go out one after the other.
LEMMA EndBroadcast ==
  ASSUME IInv, EndInv, NEW p \in Worker, RootBroadcast(p)
  PROVE  EndInv'
<1> USE Constants
<1>1. p \in Node /\ p # Root /\ \A w \in Worker : w \in Node /\ w # Root
  BY DEF Worker
<1>2. UNCHANGED <<calls, pc, fwd, batch, step, row, faults>>
  BY DEF RootBroadcast, place
<1>3. /\ io[Root][p] < 1 /\ io[Root][p] \in 0 .. Chunks
      /\ io'[Root][p] = io[Root][p] + 1 /\ \A q \in Node \ {p} : io'[Root][q] = io[Root][q]
      /\ \A n \in Node \ {Root} : io'[n] = io[n]
  BY <1>1 DEF RootBroadcast, Turn, IInv, TypeOK
<1>4. \A m, n \in Node : m # Root \/ n # p => chan'[m][n] = chan[m][n]
  BY <1>1 DEF RootBroadcast, IInv, TypeOK
<1>5. \A n \in Node : pc'[n] # "dead" /\ chan'[n][n] = <<>>
  BY <1>1, <1>2, <1>4 DEF EndInv
<1>6. CASE pc[Root] = "announce"
  <2>1. ~ Ended /\ ~ Ended'
    BY <1>2, <1>6 DEF Ended
  <2>. QED
    BY <1>2, <1>5, <2>1, NotYet DEF EndInv
<1>7. CASE pc[Root] = "finish"
  <2>1. Ended /\ Ended' /\ pc'[Root] = "finish"
    BY <1>2, <1>7 DEF Ended
  <2>2. io[Root][p] = 0 /\ io'[Root][p] = 1
    BY <1>3
  <2>3. ~ StopSent(p) /\ StopSent(p)' /\ \A w \in Worker \ {p} : StopSent(w)' <=> StopSent(w)
    BY <1>1, <1>3, <1>7, <2>1, <2>2 DEF StopSent
  <2>4. ASSUME NEW w \in Worker PROVE Closing(w)'
    <3>1. Closing(w) /\ w \in Node /\ w # Root
      BY <1>1, <2>1 DEF EndInv
    <3>2. Through(w)' /\ fwd'[w] = Len(calls') /\ \A n \in Node : chan'[w][n] = <<>>
      BY <1>2, <1>3, <1>4, <3>1 DEF Through, Closing
    <3>3. CASE w # p
      BY <1>2, <1>4, <2>3, <3>1, <3>2, <3>3 DEF Closing
    <3>4. CASE w = p
      <4>1. chan[Root][p] = <<>> /\ pc[p] # "finished"
        BY <2>3, <3>1, <3>4 DEF Closing
      <4> DEFINE d == Control(fwd[Root] + 1, Stop)
      <4>2. chan'[Root][p] = Append(chan[Root][p], d)
        BY <1>1, <1>7 DEF RootBroadcast, IInv, TypeOK
      <4>3. IsStop(d)
        BY DEF IsStop, IsControl, Control, Version
      <4> HIDE DEF d
      <4>4. Len(chan'[Root][p]) = 1 /\ Head(chan'[Root][p]) = d
        BY <4>1, <4>2
      <4>. QED
        BY <1>2, <2>3, <3>2, <3>4, <4>1, <4>3, <4>4 DEF Closing
    <3>. QED
      BY <3>3, <3>4
  <2>. QED
    BY <1>2, <1>5, <2>1, <2>4 DEF EndInv
<1>. QED
  BY <1>6, <1>7 DEF RootBroadcast

\* All stop packets are out.
LEMMA EndBroadcastDone == IInv /\ EndInv /\ RootBroadcastDone => EndInv'
<1> SUFFICES ASSUME IInv, EndInv, RootBroadcastDone PROVE EndInv'
  OBVIOUS
<1> USE Constants
<1>1. UNCHANGED <<calls, fwd, batch, row, chan, faults>>
  BY DEF RootBroadcastDone
<1>2. \A w \in Worker : w \in Node /\ w # Root /\ io[Root][w] = 1
  BY DEF Worker, RootBroadcastDone, AllMoved
<1>3. CASE pc[Root] = "announce" /\ Goto(Root, "op")
  <2>1. pc'[Root] = "op" /\ \A n \in Node \ {Root} : pc'[n] = pc[n]
    BY <1>3, GotoEffect DEF IInv
  <2>2. ~ Ended /\ ~ Ended'
    BY <1>3, <2>1 DEF Ended
  <2>3. \A n \in Node : pc'[n] # "dead" /\ chan'[n][n] = <<>>
    BY <1>1, <2>1 DEF EndInv
  <2>4. \A w \in Worker : fwd'[w] <= Len(calls') /\ pc'[w] # "finished"
    BY <1>1, <1>2, <2>1, <2>2 DEF EndInv
  <2>. QED
    BY <1>1, <2>2, <2>3, <2>4, NotYet
<1>4. CASE pc[Root] = "finish" /\ Goto(Root, "finished") /\ UNCHANGED step
  <2>1. pc'[Root] = "finished" /\ \A n \in Node \ {Root} : pc'[n] = pc[n] /\ io'[n] = io[n]
    BY <1>4, GotoEffect DEF IInv
  <2>2. Ended /\ Ended'
    BY <1>4, <2>1 DEF Ended
  <2>3. ASSUME NEW w \in Worker PROVE Closing(w)'
    <3>1. Closing(w) /\ StopSent(w) /\ StopSent(w)'
      BY <1>2, <2>1, <2>2 DEF EndInv, StopSent
    <3>2. Through(w)'
      BY <1>1, <1>2, <1>4, <2>1, <3>1 DEF Closing, Through
    <3>. QED
      BY <1>1, <1>2, <2>1, <3>1, <3>2 DEF Closing
  <2>4. \A n \in Node : pc'[n] # "dead"
    BY <2>1 DEF EndInv
  <2>. QED
    BY <1>1, <2>2, <2>3, <2>4 DEF EndInv
<1>. QED
  BY <1>3, <1>4 DEF RootBroadcastDone

\* What a worker finds between two forwards: the packet that starts the next,
\* or, when the root has ended, the one that ends it.
LEMMA ControlOrStop ==
  ASSUME IInv, EndInv, NEW w \in Worker, ReadControl(w)
  PROVE  LET d == Head(chan[Root][w])
         IN  \/ /\ ~ Ended /\ IsControl(d) /\ ~ IsStop(d) /\ StartForward(w, d.call)
                /\ fwd[w] + 1 \in 1 .. Len(calls) /\ d.call = calls[fwd[w] + 1]
             \/ /\ Ended /\ IsStop(d) /\ StopSent(w) /\ Len(chan[Root][w]) = 1
                /\ Goto(w, "finished") /\ UNCHANGED place
<1> USE Constants
<1> DEFINE d == Head(chan[Root][w])
<1>1. w \in Node /\ Root \in Peers(w) /\ w \in Peers(Root)
  BY DEF Worker, Peers
<1>2. /\ pc[w] = "ctl" /\ chan[Root][w] # <<>>
      /\ \/ IsControl(d) /\ ~IsStop(d) /\ StartForward(w, d.call)
         \/ IsStop(d) /\ Goto(w, "finished") /\ UNCHANGED place
         \/ ~IsControl(d) /\ Goto(w, "dead") /\ UNCHANGED place
  BY DEF ReadControl
<1>3. CASE Ended
  <2>1. Closing(w)
    BY <1>3 DEF EndInv
  <2>2. StopSent(w) /\ Len(chan[Root][w]) = 1 /\ IsStop(d)
    BY <1>2, <2>1 DEF Closing
  <2>. QED
    BY <1>2, <1>3, <2>2 DEF IsStop
<1>4. CASE ~ Ended
  <2>1. chan[Root][w] \in Seq(Messages) /\ NoStops(chan[Root][w])
    BY <1>1, <1>4, BeforeEnd, LinkTypes DEF IInv
  <2>2. 1 \in 1 .. Len(chan[Root][w]) /\ d = chan[Root][w][1]
    BY <1>2, <2>1
  <2>3. ~ IsStop(d)
    BY <2>1, <2>2 DEF NoStops
  <2>4. IsControl(d) /\ fwd[w] + 1 \in 1 .. Len(calls) /\ d.call = calls[fwd[w] + 1]
    BY <1>2, <2>3, ControlDue
  <2>. QED
    BY <1>2, <1>4, <2>3, <2>4
<1>. QED
  BY <1>3, <1>4

\* Of a sequence of one element nothing is left behind it.
LEMMA TailOfOne ==
  ASSUME NEW S, NEW q \in Seq(S), Len(q) = 1
  PROVE  Tail(q) = <<>>
<1>1. \A t \in Seq(S) : Len(t) = 0 => t = <<>>
  OBVIOUS
<1>2. Tail(q) \in Seq(S) /\ Len(Tail(q)) = 0
  OBVIOUS
<1>. QED
  BY <1>1, <1>2

\* A worker reads its stop packet, behind which there is nothing.
LEMMA EndReadControl ==
  ASSUME IInv, EndInv, NEW w \in Worker, ReadControl(w)
  PROVE  EndInv'
<1> USE Constants
<1> DEFINE d == Head(chan[Root][w])
<1>1. /\ w \in Node /\ w # Root /\ \A v \in Worker : v \in Node /\ v # Root
      /\ UNCHANGED <<calls, faults>> /\ pc[w] = "ctl"
  BY DEF Worker, ReadControl
<1>2. /\ chan'[Root][w] = Tail(chan[Root][w])
      /\ \A m, n \in Node : m # Root \/ n # w => chan'[m][n] = chan[m][n]
  BY <1>1 DEF ReadControl, IInv, TypeOK
<1>3. \A n \in Node : chan'[n][n] = <<>>
  BY <1>1, <1>2 DEF EndInv
<1>4. CASE /\ ~ Ended /\ StartForward(w, d.call) /\ fwd[w] + 1 \in 1 .. Len(calls)
  <2>1. pc'[w] = "send" /\ \A n \in Node \ {w} : pc'[n] = pc[n]
    BY <1>1, <1>4, GotoEffect DEF IInv, StartForward
  <2>2. fwd'[w] = fwd[w] + 1 /\ \A n \in Node \ {w} : fwd'[n] = fwd[n]
    BY <1>1, <1>4 DEF IInv, TypeOK, StartForward
  <2>3. ~ Ended'
    BY <1>1, <1>4, <2>1 DEF Ended
  <2>4. \A n \in Node : pc'[n] # "dead"
    BY <2>1 DEF EndInv
  <2>5. Len(calls) \in Nat
    BY DEF IInv, TypeOK
  <2>6. \A v \in Worker : fwd'[v] <= Len(calls') /\ pc'[v] # "finished"
    BY <1>1, <1>4, <2>1, <2>2, <2>5 DEF EndInv
  <2>. QED
    BY <1>1, <1>3, <2>3, <2>4, <2>6, NotYet
<1>5. CASE /\ Ended /\ StopSent(w) /\ Len(chan[Root][w]) = 1
           /\ Goto(w, "finished") /\ UNCHANGED place
  <2>1. pc'[w] = "finished" /\ \A n \in Node \ {w} : pc'[n] = pc[n] /\ io'[n] = io[n]
    BY <1>1, <1>5, GotoEffect DEF IInv
  <2>2. UNCHANGED <<fwd, batch, step, row>>
    BY <1>5 DEF place
  <2>3. Ended' /\ \A v \in Worker : StopSent(v)' <=> StopSent(v)
    BY <1>1, <1>5, <2>1 DEF Ended, StopSent
  <2>4. chan'[Root][w] = <<>>
    <3>1. chan[Root][w] \in Seq(Messages)
      BY <1>1 DEF IInv, TypeOK
    <3>2. Len(chan[Root][w]) = 1
      BY <1>5
    <3>3. Tail(chan[Root][w]) = <<>>
      BY <3>1, <3>2, TailOfOne
    <3>. QED
      BY <1>2, <3>3
  <2>5. ASSUME NEW v \in Worker PROVE Closing(v)'
    <3>1. Closing(v) /\ v \in Node /\ v # Root
      BY <1>1, <1>5 DEF EndInv
    <3>2. Through(v)'
      BY <1>1, <2>1, <2>2, <3>1 DEF Closing, Through
    <3>3. fwd'[v] = Len(calls') /\ \A n \in Node : chan'[v][n] = <<>>
      BY <1>1, <1>2, <2>2, <3>1 DEF Closing
    <3>4. CASE v = w
      BY <1>5, <2>1, <2>3, <2>4, <3>2, <3>3, <3>4 DEF Closing
    <3>5. CASE v # w
      BY <1>1, <1>2, <2>1, <2>3, <3>1, <3>2, <3>3, <3>5 DEF Closing
    <3>. QED
      BY <3>4, <3>5
  <2>6. \A n \in Node : pc'[n] # "dead"
    BY <2>1 DEF EndInv
  <2>7. \A v \in Worker : fwd'[v] <= Len(calls')
    BY <1>1, <2>2 DEF EndInv
  <2>. QED
    BY <1>1, <1>3, <2>3, <2>5, <2>6, <2>7 DEF EndInv
<1>. QED
  BY <1>4, <1>5, ControlOrStop

\* A step of a node in its forward, when the root has ended: what is left is to
\* return from it.
LEMMA EndNodeStep ==
  ASSUME IInv, EndInv, NEW n \in Node, NodeStep(n)
  PROVE  EndInv'
<1> USE Constants
<1>1. \A p \in Peers(n) : ~ WriteError(n, p) /\ ~ ReadError(n, p)
  BY NoErrors
<1>2. \/ Compute(n) \/ WriteDone(n) \/ RowDone(n)
      \/ \E p \in Peers(n) : WriteChunk(n, p) \/ ReadChunk(n, p)
  BY <1>1 DEF NodeStep
<1>3. /\ UNCHANGED <<calls, fwd, faults>> /\ pc[n] \in {"op", "send", "recv"}
      /\ \/ pc' = pc
         \/ \E l \in {"send", "recv", "op", "ctl"} : Goto(n, l)
  BY <1>2 DEF Compute, WriteDone, RowDone, NextRow, NextSegment, ForwardReturn, WriteChunk, ReadChunk, place
<1>4. pc'[n] \in {"send", "recv", "op", "ctl"} /\ \A b \in Node \ {n} : pc'[b] = pc[b]
  BY <1>3, GotoEffect DEF IInv
<1>5. \A b \in Node : chan'[b][b] = chan[b][b]
  <2>1. chan \in [Node -> [Node -> Seq(Messages)]]
    BY DEF IInv, TypeOK
  <2>2. \/ chan' = chan
        \/ \E p \in Peers(n) : \E q : chan' = [chan EXCEPT ![n][p] = q] \/ chan' = [chan EXCEPT ![p][n] = q]
    BY <1>2 DEF Compute, WriteDone, RowDone, WriteChunk, ReadChunk
  <2>3. \A p \in Peers(n) : p \in Node /\ p # n
    BY DEF Peers
  <2>4. CASE chan' = chan
    BY <2>4
  <2>5. ASSUME NEW p \in Peers(n), NEW q,
               chan' = [chan EXCEPT ![n][p] = q] \/ chan' = [chan EXCEPT ![p][n] = q],
               NEW b \in Node
        PROVE  chan'[b][b] = chan[b][b]
    <3>1. p \in Node /\ p # n /\ n \in Node /\ (b # n \/ b # p)
      BY <2>3
    <3>2. CASE chan' = [chan EXCEPT ![n][p] = q]
      BY ONLY <2>1, <3>1, <3>2, b \in Node, LinkUpdate
    <3>3. CASE chan' = [chan EXCEPT ![p][n] = q]
      BY ONLY <2>1, <3>1, <3>3, b \in Node, LinkUpdate
    <3>. QED
      BY <2>5, <3>2, <3>3
  <2>. QED
    BY <2>2, <2>4, <2>5
<1>6. CASE ~ Ended
  <2>1. ~ Ended'
    BY <1>4, <1>6 DEF Ended
  <2>2. \A b \in Node : pc'[b] # "dead" /\ chan'[b][b] = <<>>
    BY <1>4, <1>5 DEF EndInv
  <2>3. \A w \in Worker : w \in Node /\ fwd'[w] <= Len(calls') /\ pc'[w] # "finished"
    BY <1>3, <1>4, <1>6 DEF EndInv, Worker
  <2>. QED
    BY <1>3, <2>1, <2>2, <2>3, NotYet
<1>7. CASE Ended
  <2>1. n \in Worker /\ n # Root
    BY <1>3, <1>7 DEF Ended, Worker
  <2>2. Through(n) /\ pc[n] \in {"send", "recv"}
    BY <1>3, <1>7, <2>1 DEF EndInv, Closing, Through
  <2>3. /\ step[n] = NSteps /\ row[n] + 1 = batch[n] /\ row[n] \in Nat
        /\ (pc[n] = "send" => io[n][Root] = Chunks)
    <3>1. row[n] \in Rows
      BY DEF IInv, TypeOK
    <3>2. row[n] \in Nat
      BY <3>1 DEF Rows
    <3>. QED
      BY <2>2, <3>2 DEF Through
  <2>4. Targets(n, step[n]) = {Root} /\ Sources(n, step[n]) = {}
    BY <2>1, <2>3 DEF Targets, Sources, SyncType
  <2>5. \A p \in Peers(n) : ~ WriteChunk(n, p) /\ ~ ReadChunk(n, p)
    BY <2>3, <2>4 DEF WriteChunk, ReadChunk, Turn
  <2>6. CASE WriteDone(n)
    <3>1. pc'[n] = "recv" /\ UNCHANGED <<fwd, batch, step, row, pos, chan, x, zq, lg>>
      BY <2>6, GotoEffect DEF IInv, WriteDone, place, pipes
    <3>2. \A b \in Node \ {n} : Untouched(b)
      BY <2>6, <3>1, GotoEffect DEF IInv, WriteDone, Untouched
    <3>3. Through(n)'
      BY <2>3, <3>1 DEF Through
    <3>. QED
      BY <1>3, <1>7, <2>1, <3>1, <3>2, <3>3, ClosingMove
  <2>7. CASE RowDone(n)
    <3>1. ForwardReturn(n)
      BY <2>3, <2>7 DEF RowDone, NextRow, NextSegment
    <3>2. pc'[n] = "ctl" /\ UNCHANGED <<fwd, batch, step, row, pos, chan, x, zq, lg>>
      BY <2>7, <3>1, GotoEffect DEF IInv, RowDone, ForwardReturn, pipes
    <3>3. \A b \in Node \ {n} : Untouched(b)
      BY <3>1, <3>2, GotoEffect DEF IInv, ForwardReturn, Untouched
    <3>4. Through(n)'
      BY <3>2 DEF Through
    <3>. QED
      BY <1>3, <1>7, <2>1, <3>2, <3>3, <3>4, ClosingMove
  <2>8. ~ Compute(n)
    BY <2>2 DEF Compute
  <2>. QED
    BY <1>2, <2>5, <2>6, <2>7, <2>8
<1>. QED
  BY <1>6, <1>7

\* Up to the first fault no process crashes or raises.
LEMMA NoFailures ==
  ASSUME TypeOK, faults' = 0
  PROVE  ~ RootRaise /\ \A n \in Node : ~ Crash(n)
<1>1. faults \in Nat
  BY DEF TypeOK
<1>. QED
  BY <1>1 DEF RootRaise, Crash

\* Nothing happens.
LEMMA EndStutter == EndInv /\ UNCHANGED vars => EndInv'
  BY DEF vars, place, EndInv, Ended, Closing, StopSent, Through

\* At first nothing is on its way, and nobody ends.
LEMMA InitEndInv == Init => EndInv
  BY Constants DEF Init, EndInv, Ended, Worker

\* A step of EndInv: one lemma for each action; without a fault none raises.
LEMMA NextEndInv ==
  ASSUME IInv, EndInv, [Next]_vars, faults' = 0
  PROVE  EndInv'
<1>1. RootStep => EndInv'
  BY EndBroadcast, EndBroadcastDone DEF RootStep
<1>2. ASSUME NEW b \in 1 .. NBatches, RootForward(b) PROVE EndInv'
  BY <1>2, EndForward
<1>3. ASSUME NEW w \in Worker, ReadControl(w) PROVE EndInv'
  BY <1>3, EndReadControl
<1>4. ASSUME NEW n \in Node, NodeStep(n) PROVE EndInv'
  BY <1>4, EndNodeStep
<1>5. UNCHANGED vars \/ Terminated => EndInv'
  BY EndStutter DEF Terminated
<1>6. ~ RootRaise /\ \A n \in Node : ~ Crash(n)
  BY NoFailures DEF IInv
<1>. QED
  BY <1>1, <1>2, <1>3, <1>4, <1>5, <1>6, EndFinish DEF Next

\* The count of faults does not go down.
LEMMA FaultsStay ==
  ASSUME TypeOK, [Next]_vars, faults' = 0
  PROVE  faults = 0
<1>1. faults \in Nat
  BY DEF TypeOK
<1>2. faults' = faults \/ faults' = faults + 1
  BY DEF vars, Next, RootForward, RootFinish, RootStep, RootBroadcast, RootBroadcastDone, ReadControl,
         NodeStep, Compute, WriteDone, RowDone, WriteChunk, ReadChunk, WriteError, ReadError, OnError,
         Crash, RootRaise, Terminated
<1>. QED
  BY <1>1, <1>2

\* As long as there is no fault a run is orderly.
LEMMA EndInductive == OneThreadOrOneWorker /\ Spec => [](IInv /\ (faults = 0 => EndInv))
<1>1. OneThreadOrOneWorker /\ Init => IInv /\ EndInv
  BY ThreadZeroServesAll, InitIInv, InitEndInv
<1>2. IInv /\ (faults = 0 => EndInv) /\ [Next]_vars => IInv' /\ (faults = 0 => EndInv)'
  BY NextIInv, NextEndInv, FaultsStay DEF IInv
<1>. QED
  BY <1>1, <1>2, PTL DEF Spec

\* As long as there is no fault nobody dies, no worker ends before the root has
\* decided to, and when all have ended no byte is left unread: the stop packet
\* of RootLlmInference.finish finds every worker in try_read_control_packet.
THEOREM EndsInOrder == OneThreadOrOneWorker /\ Spec => []OrderlyStop
<1>1. IInv /\ (faults = 0 => EndInv) => OrderlyStop
  <2> SUFFICES ASSUME EndInv PROVE OrderlyStop
    BY DEF OrderlyStop
  <2>1. ASSUME \A n \in Node : pc[n] = "finished", NEW m \in Node, NEW n \in Node
        PROVE  chan[m][n] = <<>>
    <3>1. Ended /\ \A w \in Worker : Closing(w)
      BY <2>1, Constants DEF Ended, EndInv
    <3>2. (m = Root \/ m \in Worker) /\ (n = Root \/ n \in Worker)
      BY DEF Worker
    <3>. QED
      BY <2>1, <3>1, <3>2 DEF Closing, EndInv
  <2>. QED
    BY <2>1 DEF OrderlyStop, EndInv, Ended
<1>. QED
  BY <1>1, EndInductive, PTL

-----------------------------------------------------------------------------
(* The promise: what is on its way, or has arrived, has been produced.     *)

RoundSet == [fwd : Nat, step : 0 .. NSteps + 1, row : Nat]

\* The node has run the ops of the round it is in.
Done(n) == pc[n] \in {"send", "recv"}

\* A node in round at, its ops done or not, has produced its part of round a.
Has(at, done, a) == Promise!Before(a, at) \/ (at = a /\ done)

\* From one round to another, or its ops done, or nothing.
Advanced(at, done, atNext, doneNext) ==
  (atNext = at /\ (done => doneNext)) \/ Promise!Before(at, atNext)

\* The round a chunk belongs to.
RoundOf(d) == [fwd |-> d.ver.fwd, step |-> d.ver.step, row |-> d.row]

AllProduced(q, at, done) ==
  \A i \in 1 .. Len(q) : IsControl(q[i]) \/ Has(at, done, RoundOf(q[i]))

Received(n) ==
  pc[n] = "recv" =>
    \A p \in Sources(n, step[n]) :
      io[n][p] > 0 => Has(Position(p), Done(p), Position(n))

\* The root's last packet says where it is.
LastCall ==
  IF Len(calls) = 0 THEN pos[Root] = 0 /\ batch[Root] = 0
  ELSE calls[Len(calls)] = Call(pos[Root], batch[Root])

RoundInv ==
  /\ LastCall
  /\ \A m, n \in Node : AllProduced(chan[m][n], Position(m), Done(m))
  /\ \A n \in Node : Received(n)

\* Promise!Before is the order of the rounds.
LEMMA BeforeDef ==
  ASSUME NEW a, NEW b
  PROVE  Promise!Before(a, b) <=>
           \/ a.fwd < b.fwd
           \/ a.fwd = b.fwd /\ a.step < b.step
           \/ a.fwd = b.fwd /\ a.step = b.step /\ a.row < b.row
  BY DEF Promise!Before

\* What a node has produced it has produced for good.
LEMMA HasStays ==
  ASSUME NEW at \in RoundSet, NEW atNext \in RoundSet, NEW a \in RoundSet,
         NEW done \in BOOLEAN, NEW doneNext \in BOOLEAN,
         Advanced(at, done, atNext, doneNext), Has(at, done, a)
  PROVE  Has(atNext, doneNext, a)
<1>1. CASE atNext = at /\ (done => doneNext)
  BY <1>1 DEF Has
<1>2. CASE Promise!Before(at, atNext)
  <2>1. Promise!Before(a, at) \/ a = at
    BY DEF Has
  <2>2. Promise!Before(a, atNext)
    BY <1>2, <2>1, BeforeDef DEF RoundSet
  <2>. QED
    BY <2>2 DEF Has
<1>. QED
  BY <1>1, <1>2 DEF Advanced

\* The place of a node in Collective is a round, or between forwards.
LEMMA PositionType ==
  ASSUME TypeOK, NEW n \in Node
  PROVE  Position(n) \in RoundSet /\ Done(n) \in BOOLEAN
<1> USE Constants
<1>1. fwd[n] \in Nat /\ step[n] \in 1 .. NSteps /\ row[n] \in Nat
  BY DEF TypeOK, Steps, Rows
<1>. QED
  BY <1>1 DEF Position, RoundSet, Done

\* So is the round of a chunk.
LEMMA RoundOfType ==
  ASSUME NEW q \in Seq(Messages), NEW i \in 1 .. Len(q)
  PROVE  RoundOf(q[i]) \in RoundSet
<1> USE Constants
<1>1. \A S : \A u \in Seq(S) : \A k \in 1 .. Len(u) : u[k] \in S
  OBVIOUS
<1>2. q[i] \in Messages
  BY <1>1
<1>3. q[i].ver \in Versions /\ q[i].row \in Rows
  BY <1>2 DEF Messages
<1>4. q[i].ver.fwd \in Nat /\ q[i].ver.step \in 0 .. NSteps /\ q[i].row \in Nat
  BY <1>3 DEF Versions, Rows
<1>. QED
  BY <1>4 DEF RoundOf, RoundSet

\* A node that an action leaves alone stays in its round.
LEMMA UntouchedPosition ==
  ASSUME NEW b \in Node, Untouched(b)
  PROVE  Position(b)' = Position(b) /\ (Done(b)' <=> Done(b))
  BY DEF Untouched, Position, Done, Busy

\* A step of node a, which gets on or stays; whatever is on a stream now its
\* sender has produced already, and so has who sent what a has received.
LEMMA RoundMove ==
  ASSUME TypeOK, TypeOK', RoundInv, NEW a \in Node, \A b \in Node \ {a} : Untouched(b),
         Advanced(Position(a), Done(a), Position(a)', Done(a)'), LastCall',
         \A m, n \in Node : AllProduced(chan'[m][n], Position(m), Done(m)),
         pc'[a] = "recv" => \A p \in Sources(a, step'[a]) :
           io'[a][p] > 0 => Has(Position(p), Done(p), Position(a)')
  PROVE  RoundInv'
<1> USE Constants
<1>1. ASSUME NEW n \in Node PROVE Advanced(Position(n), Done(n), Position(n)', Done(n)')
  BY UntouchedPosition DEF Advanced
<1>2. \A n \in Node : /\ Position(n) \in RoundSet /\ Done(n) \in BOOLEAN
                      /\ Position(n)' \in RoundSet /\ Done(n)' \in BOOLEAN
  <2>1. ASSUME NEW n \in Node PROVE Position(n) \in RoundSet /\ Done(n) \in BOOLEAN
    BY PositionType
  <2>2. TypeOK => \A n \in Node : Position(n) \in RoundSet /\ Done(n) \in BOOLEAN
    BY PositionType
  <2>3. ASSUME NEW n \in Node PROVE Position(n)' \in RoundSet /\ Done(n)' \in BOOLEAN
    <3>1. fwd'[n] \in Nat /\ step'[n] \in 1 .. NSteps /\ row'[n] \in Nat
      BY DEF TypeOK, Steps, Rows
    <3>. QED
      BY <3>1 DEF Position, RoundSet, Done
  <2>. QED
    BY <2>1, <2>3
<1>3. ASSUME NEW n \in Node, NEW r \in RoundSet, Has(Position(n), Done(n), r)
      PROVE  Has(Position(n)', Done(n)', r)
  BY <1>1, <1>2, <1>3, HasStays
<1>4. ASSUME NEW m \in Node, NEW n \in Node
      PROVE  AllProduced(chan'[m][n], Position(m)', Done(m)')
  <2>1. chan'[m][n] \in Seq(Messages)
    BY DEF TypeOK
  <2>2. \A i \in 1 .. Len(chan'[m][n]) : RoundOf(chan'[m][n][i]) \in RoundSet
    BY <2>1, RoundOfType
  <2>3. AllProduced(chan'[m][n], Position(m), Done(m))
    OBVIOUS
  <2>. QED
    BY <1>3, <2>2, <2>3 DEF AllProduced
<1>5. ASSUME NEW n \in Node, pc'[n] = "recv", NEW p \in Sources(n, step'[n]), io'[n][p] > 0
      PROVE  Has(Position(p)', Done(p)', Position(n)')
  <2>1. p \in Node
    BY PeersAreNodes DEF TypeOK
  <2>2. CASE n = a
    BY <1>2, <1>3, <1>5, <2>1, <2>2
  <2>3. CASE n # a
    <3>1. Position(n)' = Position(n) /\ Received(n)
      BY <2>3, UntouchedPosition DEF RoundInv
    <3>2. Has(Position(p), Done(p), Position(n))
      BY <1>5, <2>3, <3>1 DEF Received, Untouched
    <3>. QED
      BY <1>2, <1>3, <2>1, <3>1, <3>2
  <2>. QED
    BY <2>2, <2>3
<1>. QED
  BY <1>4, <1>5 DEF RoundInv, Received

-----------------------------------------------------------------------------
(* The promise: every step is a step of the collective operations, or none. *)

\* The step seen from the collective operations.
PromisedStep == Promise!Next \/ UNCHANGED Promise!vars

\* Collective stutters when every node stays in its round.
LEMMA MapStutter ==
  ASSUME calls' = calls, \A n \in Node : Position(n)' = Position(n) /\ (Done(n)' <=> Done(n))
  PROVE  UNCHANGED Promise!vars
<1>1. \A n \in Node : (pc[n] \in {"send", "recv"})' = (pc[n] \in {"send", "recv"})
  BY DEF Done
<1>. QED
  BY <1>1 DEF Promise!vars

\* The same constants on both sides.
LEMMA PromiseConstants ==
  /\ Promise!Node = Node /\ Promise!Root = Root /\ Promise!Worker = Worker
  /\ Promise!NSteps = NSteps /\ Promise!Idle = NSteps + 1
  BY DEF Promise!Node, Promise!Root, Promise!Worker, Promise!NSteps, Promise!Idle, Node, Root, Worker, NSteps

\* What only one node changes.
LEMMA MapMove ==
  ASSUME NEW a \in Node, \A b \in Node \ {a} : Untouched(b),
         NEW r, Position(a)' = r, NEW c \in BOOLEAN, Done(a)' <=> c
  PROVE  /\ [n \in Node |-> Position(n)]' = [[n \in Node |-> Position(n)] EXCEPT ![a] = r]
         /\ [n \in Node |-> pc[n] \in {"send", "recv"}]' =
              [[n \in Node |-> pc[n] \in {"send", "recv"}] EXCEPT ![a] = c]
<1>1. \A n \in Node : Position(n)' = IF n = a THEN r ELSE Position(n)
  BY UntouchedPosition
<1>2. \A n \in Node : (pc[n] \in {"send", "recv"})' = IF n = a THEN c ELSE (pc[n] \in {"send", "recv"})
  BY UntouchedPosition DEF Done
<1>. QED
  BY <1>1, <1>2

\* A step that moves data only.
LEMMA RoundStutter ==
  ASSUME TypeOK, TypeOK', RoundInv, NEW a \in Node, \A b \in Node \ {a} : Untouched(b),
         Position(a)' = Position(a), Done(a)' <=> Done(a), calls' = calls,
         a = Root => pos'[a] = pos[a] /\ batch'[a] = batch[a],
         \A m, n \in Node : AllProduced(chan'[m][n], Position(m), Done(m)),
         pc'[a] = "recv" => \A p \in Sources(a, step'[a]) :
           io'[a][p] > 0 => Has(Position(p), Done(p), Position(a)')
  PROVE  RoundInv' /\ PromisedStep
<1> USE Constants
<1>1. LastCall'
  <2>1. pos'[Root] = pos[Root] /\ batch'[Root] = batch[Root]
    BY DEF Untouched
  <2>. QED
    BY <2>1 DEF RoundInv, LastCall
<1>2. Advanced(Position(a), Done(a), Position(a)', Done(a)')
  BY DEF Advanced
<1>3. RoundInv'
  BY <1>1, <1>2, RoundMove
<1>4. \A n \in Node : Position(n)' = Position(n) /\ (Done(n)' <=> Done(n))
  BY UntouchedPosition
<1>. QED
  BY <1>3, <1>4, MapStutter DEF PromisedStep

\* RootForward is Announce.
LEMMA AbsForward ==
  ASSUME IInv, TypeOK', RoundInv, NEW b \in 1 .. NBatches, RootForward(b)
  PROVE  RoundInv' /\ PromisedStep
<1> USE Constants
<1> DEFINE c == Call(FirstRow(b), b)
<1>1. /\ pc[Root] = "ctl" /\ pc'[Root] = "announce"
      /\ \A n \in Node \ {Root} : pc'[n] = pc[n] /\ io'[n] = io[n]
  BY GotoEffect DEF IInv, RootForward
<1>2. /\ fwd'[Root] = fwd[Root] + 1 /\ pos'[Root] = FirstRow(b) /\ batch'[Root] = b
      /\ \A n \in Node \ {Root} : fwd'[n] = fwd[n] /\ pos'[n] = pos[n] /\ batch'[n] = batch[n]
  BY DEF RootForward, IInv, TypeOK
<1>3. UNCHANGED <<step, row, chan, x, zq, lg>> /\ calls' = Append(calls, c) /\ Len(calls) < MaxForwards
  BY DEF RootForward, pipes
<1>4. \A n \in Node \ {Root} : Untouched(n)
  BY <1>1, <1>2, <1>3 DEF Untouched
<1>5. /\ Position(Root) = [fwd |-> fwd[Root], step |-> NSteps + 1, row |-> 0] /\ ~ Done(Root)
      /\ Position(Root)' = [fwd |-> fwd[Root] + 1, step |-> 1, row |-> 0] /\ ~ Done(Root)'
      /\ fwd[Root] \in Nat
  <2>1. fwd[Root] \in Nat
    BY DEF IInv, TypeOK
  <2>. QED
    BY <1>1, <1>2, <2>1 DEF Position, Busy, InForward, Done
<1>6. Advanced(Position(Root), Done(Root), Position(Root)', Done(Root)')
  BY <1>5, BeforeDef DEF Advanced
<1>7. LastCall'
  <2>1. Len(calls') = Len(calls) + 1 /\ Len(calls) \in Nat /\ calls'[Len(calls) + 1] = c
    BY <1>3 DEF IInv, TypeOK
  <2>. QED
    BY <1>2, <2>1 DEF LastCall
<1>8. RoundInv'
  BY <1>1, <1>3, <1>4, <1>6, <1>7, RoundMove DEF IInv, RoundInv
<1>9. Promise!NextPos = FirstRow(b)
  <2>1. LastCall /\ pos[Root] \in Nat /\ batch[Root] \in Nat
    BY DEF RoundInv, IInv, TypeOK
  <2>2. CASE Len(calls) = 0
    BY <2>1, <2>2 DEF LastCall, FirstRow, Promise!NextPos
  <2>3. CASE Len(calls) # 0
    <3>1. calls[Len(calls)].pos = pos[Root] /\ calls[Len(calls)].batch = batch[Root]
      BY <2>1, <2>3 DEF LastCall, Call
    <3>. QED
      BY <2>3, <3>1 DEF FirstRow, Promise!NextPos
  <2>. QED
    BY <2>2, <2>3
<1>10. Promise!Announce(b)
  <2> DEFINE r == Promise!Round(fwd[Root] + 1, 1, 0)
  <2>1. [n \in Node |-> Position(n)][Root] = Position(Root)
    OBVIOUS
  <2>2. /\ [n \in Node |-> Position(n)][Root].step = NSteps + 1
        /\ [n \in Node |-> Position(n)][Root].fwd = fwd[Root]
    BY <1>5, <2>1
  <2>3. [n \in Node |-> Position(n)]' = [[n \in Node |-> Position(n)] EXCEPT ![Root] = r]
    <3>1. Position(Root)' = r
      BY <1>5 DEF Promise!Round
    <3>. QED
      BY <1>4, <1>5, <3>1, MapMove
  <2>4. [n \in Node |-> pc[n] \in {"send", "recv"}]' = [n \in Node |-> pc[n] \in {"send", "recv"}]
    <3>1. \A n \in Node : (pc[n] \in {"send", "recv"})' = (pc[n] \in {"send", "recv"})
      BY <1>1
    <3>. QED
      BY <3>1
  <2>5. calls' = Append(calls, [pos |-> Promise!NextPos, batch |-> b])
    BY <1>3, <1>9 DEF Call
  <2> HIDE DEF r
  <2>6. Promise!Round([n \in Node |-> Position(n)][Root].fwd + 1, 1, 0) = r
    BY <2>2 DEF r
  <2>. QED
    BY <1>3, <2>2, <2>3, <2>4, <2>5, <2>6, PromiseConstants DEF Promise!Announce
<1>. QED
  BY <1>8, <1>10 DEF PromisedStep, Promise!Next

\* What has been produced, when a message is added or the oldest taken off.
LEMMA ProducedQueue ==
  ASSUME NEW q \in Seq(Messages), NEW at, NEW done, AllProduced(q, at, done)
  PROVE  /\ \A d \in Messages : IsControl(d) \/ Has(at, done, RoundOf(d)) => AllProduced(Append(q, d), at, done)
         /\ q # <<>> => AllProduced(Tail(q), at, done)
<1>1. ASSUME NEW d \in Messages, IsControl(d) \/ Has(at, done, RoundOf(d)), NEW i \in 1 .. Len(Append(q, d))
      PROVE  IsControl(Append(q, d)[i]) \/ Has(at, done, RoundOf(Append(q, d)[i]))
  <2>1. Append(q, d)[i] = d \/ (i \in 1 .. Len(q) /\ Append(q, d)[i] = q[i])
    OBVIOUS
  <2>. QED
    BY <1>1, <2>1 DEF AllProduced
<1>2. ASSUME q # <<>>, NEW i \in 1 .. Len(Tail(q))
      PROVE  IsControl(Tail(q)[i]) \/ Has(at, done, RoundOf(Tail(q)[i]))
  <2>1. i + 1 \in 1 .. Len(q) /\ Tail(q)[i] = q[i + 1]
    BY <1>2
  <2>. QED
    BY <2>1 DEF AllProduced
<1>. QED
  BY <1>1, <1>2 DEF AllProduced

\* The root ends, or its broadcast goes on.
LEMMA AbsFinish ==
  ASSUME IInv, TypeOK', RoundInv, RootFinish
  PROVE  RoundInv' /\ PromisedStep
<1> USE Constants
<1>1. /\ pc[Root] = "ctl" /\ pc'[Root] = "finish"
      /\ \A n \in Node \ {Root} : pc'[n] = pc[n] /\ io'[n] = io[n]
  BY GotoEffect DEF IInv, RootFinish
<1>2. UNCHANGED <<calls, fwd, pos, batch, step, row, chan, x, zq, lg>>
  BY DEF RootFinish, place, pipes
<1>3. \A n \in Node \ {Root} : Untouched(n)
  BY <1>1, <1>2 DEF Untouched
<1>4. Position(Root)' = Position(Root) /\ (Done(Root)' <=> Done(Root))
  BY <1>1, <1>2 DEF Position, Busy, InForward, Done
<1>5. \A m, n \in Node : AllProduced(chan'[m][n], Position(m), Done(m))
  BY <1>2 DEF RoundInv
<1>. QED
  BY <1>1, <1>2, <1>3, <1>4, <1>5, RoundStutter DEF IInv

\* All control packets are out: the root has been in step 1 of Collective since it
\* announced the forward, and stays there.
LEMMA AbsBroadcastDone ==
  ASSUME IInv, TypeOK', RoundInv, RootBroadcastDone
  PROVE  RoundInv' /\ PromisedStep
<1> USE Constants
<1>1. /\ \/ pc[Root] = "announce" /\ pc'[Root] = "op" /\ step'[Root] = 1
         \/ pc[Root] = "finish" /\ pc'[Root] = "finished" /\ step' = step
      /\ \A n \in Node \ {Root} : pc'[n] = pc[n] /\ io'[n] = io[n] /\ step'[n] = step[n]
  <2>1. CASE pc[Root] = "announce" /\ Goto(Root, "op") /\ step' = [step EXCEPT ![Root] = 1]
    <3>1. step'[Root] = 1 /\ \A n \in Node \ {Root} : step'[n] = step[n]
      BY <2>1 DEF IInv, TypeOK
    <3>. QED
      BY <2>1, <3>1, GotoEffect DEF IInv
  <2>2. CASE pc[Root] = "finish" /\ Goto(Root, "finished") /\ UNCHANGED step
    BY <2>2, GotoEffect DEF IInv
  <2>. QED
    BY <2>1, <2>2 DEF RootBroadcastDone
<1>2. UNCHANGED <<calls, fwd, pos, batch, row, chan, x, zq, lg>>
  BY DEF RootBroadcastDone, pipes
<1>3. \A n \in Node \ {Root} : Untouched(n)
  BY <1>1, <1>2 DEF Untouched
<1>4. Position(Root)' = Position(Root) /\ (Done(Root)' <=> Done(Root))
  BY <1>1, <1>2 DEF Position, Busy, InForward, Done
<1>5. \A m, n \in Node : AllProduced(chan'[m][n], Position(m), Done(m))
  BY <1>2 DEF RoundInv
<1>. QED
  BY <1>1, <1>2, <1>3, <1>4, <1>5, RoundStutter DEF IInv

\* Sending a control packet is no step of Collective.
LEMMA AbsBroadcast ==
  ASSUME IInv, TypeOK', RoundInv, NEW p \in Worker, RootBroadcast(p)
  PROVE  RoundInv' /\ PromisedStep
<1> USE Constants
<1>1. p \in Node /\ p # Root
  BY DEF Worker
<1>2. UNCHANGED <<calls, pc, fwd, pos, batch, step, row, x, zq, lg>> /\ pc[Root] \in {"announce", "finish"}
  BY DEF RootBroadcast, place, pipes
<1>3. \A n \in Node \ {Root} : Untouched(n)
  BY <1>2 DEF RootBroadcast, IInv, TypeOK, Untouched
<1>4. Position(Root)' = Position(Root) /\ (Done(Root)' <=> Done(Root))
  BY <1>2 DEF Position, Busy, Done
<1>5. ASSUME NEW m \in Node, NEW n \in Node PROVE AllProduced(chan'[m][n], Position(m), Done(m))
  <2>1. AllProduced(chan[m][n], Position(m), Done(m)) /\ chan[m][n] \in Seq(Messages) /\ chan'[m][n] \in Seq(Messages)
    BY DEF RoundInv, IInv, TypeOK
  <2>2. CASE m = Root /\ n = p
    <3> DEFINE d == IF pc[Root] = "finish"
                      THEN Control(fwd[Root] + 1, Stop)
                      ELSE Control(fwd[Root], Call(pos[Root], batch[Root]))
    <3>1. IsControl(d)
      BY DEF IsControl, Control, Version
    <3>2. chan' = [chan EXCEPT ![Root][p] = Append(@, d)]
      BY DEF RootBroadcast
    <3> HIDE DEF d
    <3>3. chan'[m][n] = Append(chan[m][n], d)
      BY <1>1, <2>2, <3>2 DEF IInv, TypeOK
    <3>4. \A i \in 1 .. Len(chan'[m][n]) :
            chan'[m][n][i] = d \/ (i \in 1 .. Len(chan[m][n]) /\ chan'[m][n][i] = chan[m][n][i])
      BY <2>1, <3>3
    <3>. QED
      BY <2>1, <3>1, <3>4 DEF AllProduced
  <2>3. CASE ~ (m = Root /\ n = p)
    <3>1. chan'[m][n] = chan[m][n]
      BY <1>1, <2>3 DEF RootBroadcast, IInv, TypeOK
    <3>. QED
      BY <2>1, <3>1
  <2>. QED
    BY <2>2, <2>3
<1>. QED
  BY <1>2, <1>3, <1>4, <1>5, RoundStutter DEF IInv

\* A worker joins a forward that was announced, or ends.
LEMMA AbsReadControl ==
  ASSUME IInv, EndInv, TypeOK', RoundInv, NEW w \in Worker, ReadControl(w)
  PROVE  RoundInv' /\ PromisedStep
<1> USE Constants
<1> DEFINE d == Head(chan[Root][w])
<1>1. w \in Node /\ w # Root /\ pc[w] = "ctl" /\ UNCHANGED <<calls, x, zq, lg>> /\ fwd[w] \in Nat
  BY DEF Worker, ReadControl, pipes, IInv, TypeOK
<1>2. ASSUME NEW m \in Node, NEW n \in Node PROVE AllProduced(chan'[m][n], Position(m), Done(m))
  <2>1. AllProduced(chan[m][n], Position(m), Done(m)) /\ chan[m][n] \in Seq(Messages)
    BY DEF RoundInv, IInv, TypeOK
  <2>2. \/ chan'[m][n] = chan[m][n]
        \/ chan[m][n] # <<>> /\ chan'[m][n] = Tail(chan[m][n])
    BY <1>1 DEF ReadControl, IInv, TypeOK
  <2>. QED
    BY <2>1, <2>2, ProducedQueue
<1>3. CASE StartForward(w, d.call) /\ fwd[w] + 1 \in 1 .. Len(calls)
  <2> DEFINE c == d.call
  <2>1. pc'[w] = "send" /\ \A n \in Node \ {w} : pc'[n] = pc[n] /\ io'[n] = io[n]
    BY <1>1, <1>3, GotoEffect DEF IInv, StartForward
  <2>2. /\ fwd'[w] = fwd[w] + 1 /\ step'[w] = 1 /\ row'[w] = 0
        /\ \A n \in Node \ {w} : /\ fwd'[n] = fwd[n] /\ pos'[n] = pos[n] /\ batch'[n] = batch[n]
                                /\ step'[n] = step[n] /\ row'[n] = row[n]
    <3>1. StartForward(w, c)
      BY <1>3
    <3> HIDE DEF c
    <3>. QED
      BY <1>1, <3>1 DEF IInv, TypeOK, StartForward
  <2>3. \A n \in Node \ {w} : Untouched(n)
    BY <1>1, <2>1, <2>2 DEF Untouched
  <2> DEFINE r == Promise!Round(fwd[w] + 1, 1, 0)
  <2>4. /\ Position(w) = [fwd |-> fwd[w], step |-> NSteps + 1, row |-> 0] /\ ~ Done(w)
        /\ Position(w)' = r /\ Done(w)'
    BY <1>1, <2>1, <2>2 DEF Position, Busy, InForward, Done, Promise!Round
  <2>5. Advanced(Position(w), Done(w), Position(w)', Done(w)')
    BY <1>1, <2>4, BeforeDef DEF Advanced, Promise!Round
  <2>6. LastCall'
    <3>1. pos'[Root] = pos[Root] /\ batch'[Root] = batch[Root]
      BY <1>1, <2>2
    <3>. QED
      BY <1>1, <3>1 DEF RoundInv, LastCall
  <2>7. RoundInv'
    BY <1>1, <1>2, <2>1, <2>3, <2>5, <2>6, RoundMove DEF IInv
  <2>8. Promise!Join(w)
    <3>1. [n \in Node |-> Position(n)][w] = Position(w)
      BY <1>1
    <3>2. /\ [n \in Node |-> Position(n)][w].step = NSteps + 1
          /\ [n \in Node |-> Position(n)][w].fwd = fwd[w]
      BY <2>4, <3>1
    <3>3. /\ [n \in Node |-> Position(n)]' = [[n \in Node |-> Position(n)] EXCEPT ![w] = r]
          /\ [n \in Node |-> pc[n] \in {"send", "recv"}]' =
               [[n \in Node |-> pc[n] \in {"send", "recv"}] EXCEPT ![w] = TRUE]
      BY <1>1, <2>3, <2>4, MapMove
    <3> HIDE DEF r
    <3>4. Promise!Round([n \in Node |-> Position(n)][w].fwd + 1, 1, 0) = r
      BY <3>2 DEF r
    <3>5. fwd[w] < Len(calls)
      BY <1>1, <1>3 DEF IInv, TypeOK
    <3>. QED
      BY <1>1, <3>2, <3>3, <3>4, <3>5, PromiseConstants DEF Promise!Join
  <2>. QED
    BY <2>7, <2>8, PromiseConstants DEF PromisedStep, Promise!Next
<1>4. CASE Goto(w, "finished") /\ UNCHANGED place
  <2>1. pc'[w] = "finished" /\ \A n \in Node \ {w} : pc'[n] = pc[n] /\ io'[n] = io[n]
    BY <1>1, <1>4, GotoEffect DEF IInv
  <2>2. UNCHANGED <<fwd, pos, batch, step, row>>
    BY <1>4 DEF place
  <2>3. \A n \in Node \ {w} : Untouched(n)
    BY <1>1, <2>1, <2>2 DEF Untouched
  <2>4. Position(w)' = Position(w) /\ (Done(w)' <=> Done(w))
    BY <1>1, <2>1, <2>2 DEF Position, Busy, InForward, Done
  <2>. QED
    BY <1>1, <1>2, <2>1, <2>2, <2>3, <2>4, RoundStutter DEF IInv
<1>. QED
  BY <1>3, <1>4, ControlOrStop

\* A chunk that goes out has been produced: no step of Collective.
LEMMA AbsWriteChunk ==
  ASSUME IInv, TypeOK', RoundInv, NEW n \in Node, NEW p \in Peers(n), WriteChunk(n, p)
  PROVE  RoundInv' /\ PromisedStep
<1> USE Constants
<1>1. p \in Node /\ p # n /\ pc[n] = "send"
  BY DEF Peers, WriteChunk
<1>2. UNCHANGED <<calls, pc, fwd, pos, batch, step, row, x, zq, lg>>
  BY DEF WriteChunk, place, pipes
<1>3. \A b \in Node \ {n} : Untouched(b)
  BY <1>2 DEF WriteChunk, IInv, TypeOK, Untouched
<1>4. Position(n)' = Position(n) /\ (Done(n)' <=> Done(n))
  BY <1>2 DEF Position, Busy, Done
<1>5. ASSUME NEW k \in Node, NEW l \in Node PROVE AllProduced(chan'[k][l], Position(k), Done(k))
  <2>1. AllProduced(chan[k][l], Position(k), Done(k)) /\ chan[k][l] \in Seq(Messages) /\ chan'[k][l] \in Seq(Messages)
    BY DEF RoundInv, IInv, TypeOK
  <2>2. CASE k = n /\ l = p
    <3> DEFINE d == NextChunk(n, p)
    <3>1. RoundOf(d) = Position(n)
      <4>1. Outgoing(n) = Version(fwd[n], step[n])
        BY <1>1, OutgoingIsOwn DEF WriteChunk, Turn
      <4>2. Position(n) = [fwd |-> fwd[n], step |-> step[n], row |-> row[n]]
        BY <1>1 DEF Position, Busy, InForward
      <4>. QED
        BY <4>1, <4>2 DEF RoundOf, NextChunk, Data, Version
    <3>2. Has(Position(n), Done(n), RoundOf(d))
      BY <1>1, <3>1 DEF Has, Done
    <3> HIDE DEF d
    <3>3. chan' = [chan EXCEPT ![n][p] = Append(@, d)]
      BY DEF WriteChunk, d
    <3>4. chan'[k][l] = Append(chan[k][l], d)
      BY <1>1, <2>2, <3>3 DEF IInv, TypeOK
    <3>5. \A i \in 1 .. Len(chan'[k][l]) :
            chan'[k][l][i] = d \/ (i \in 1 .. Len(chan[k][l]) /\ chan'[k][l][i] = chan[k][l][i])
      BY <2>1, <3>4
    <3>. QED
      BY <2>1, <2>2, <3>2, <3>5 DEF AllProduced
  <2>3. CASE ~ (k = n /\ l = p)
    <3>1. chan'[k][l] = chan[k][l]
      BY <1>1, <2>3 DEF WriteChunk, IInv, TypeOK
    <3>. QED
      BY <2>1, <3>1
  <2>. QED
    BY <2>2, <2>3
<1>. QED
  BY <1>1, <1>2, <1>3, <1>4, <1>5, RoundStutter DEF IInv

\* Going from writing to reading is no step of Collective.
LEMMA AbsWriteDone ==
  ASSUME IInv, TypeOK', RoundInv, NEW n \in Node, WriteDone(n)
  PROVE  RoundInv' /\ PromisedStep
<1> USE Constants
<1>1. /\ pc[n] = "send" /\ pc'[n] = "recv" /\ io'[n] = NoIO
      /\ \A b \in Node \ {n} : pc'[b] = pc[b] /\ io'[b] = io[b]
  BY GotoEffect DEF IInv, WriteDone
<1>2. UNCHANGED <<calls, fwd, pos, batch, step, row, chan, x, zq, lg>>
  BY DEF WriteDone, place, pipes
<1>3. \A b \in Node \ {n} : Untouched(b)
  BY <1>1, <1>2 DEF Untouched
<1>4. Position(n)' = Position(n) /\ (Done(n)' <=> Done(n))
  BY <1>1, <1>2 DEF Position, Busy, InForward, Done
<1>5. \A k, l \in Node : AllProduced(chan'[k][l], Position(k), Done(k))
  BY <1>2 DEF RoundInv
<1>6. \A p \in Sources(n, step'[n]) : ~ (io'[n][p] > 0)
  <2>1. Sources(n, step'[n]) \subseteq Node
    BY PeersAreNodes DEF TypeOK
  <2>. QED
    BY <1>1, <2>1 DEF NoIO
<1>. QED
  BY <1>2, <1>3, <1>4, <1>5, <1>6, RoundStutter DEF IInv

\* What is received the sender has produced: it was on the stream.
LEMMA AbsReadChunk ==
  ASSUME IInv, TypeOK', RoundInv, NEW n \in Node, NEW p \in Peers(n), ReadChunk(n, p)
  PROVE  RoundInv' /\ PromisedStep
<1> USE Constants
<1> DEFINE d == Head(chan[p][n])
<1>1. /\ p \in Node /\ p # n /\ pc[n] = "recv" /\ p \in Sources(n, step[n]) /\ io[n][p] < Chunks
      /\ chan[p][n] # <<>>
  BY DEF Peers, ReadChunk, Turn
<1>2. UNCHANGED <<calls, pc, fwd, pos, batch, step, row>>
  BY DEF ReadChunk, place
<1>3. /\ \A b \in Node \ {n} : io'[b] = io[b] /\ x'[b] = x[b] /\ zq'[b] = zq[b] /\ lg'[b] = lg[b]
      /\ \A q \in Node \ {p} : io'[n][q] = io[n][q]
      /\ IsControl(d) => io' = io
  <2>1. CASE IsControl(d) /\ UNCHANGED <<io, pipes>>
    BY <2>1 DEF pipes
  <2>2. CASE ~ IsControl(d) /\ io' = [io EXCEPT ![n][p] = @ + 1] /\ Store(n, p, d.ver)
    <3>1. \A b \in Node \ {n} : x'[b] = x[b] /\ zq'[b] = zq[b] /\ lg'[b] = lg[b]
      BY <1>1, <2>2, StoreParts DEF IInv
    <3>2. /\ \A b \in Node \ {n} : io'[b] = io[b]
          /\ \A q \in Node \ {p} : io'[n][q] = io[n][q]
      BY <1>1, <2>2 DEF IInv, TypeOK
    <3>. QED
      BY <2>2, <3>1, <3>2
  <2>. QED
    BY <2>1, <2>2 DEF ReadChunk
<1>4. \A b \in Node \ {n} : Untouched(b)
  BY <1>2, <1>3 DEF Untouched
<1>5. Position(n)' = Position(n) /\ (Done(n)' <=> Done(n))
  BY <1>2 DEF Position, Busy, Done
<1>6. ASSUME NEW k \in Node, NEW l \in Node PROVE AllProduced(chan'[k][l], Position(k), Done(k))
  <2>1. AllProduced(chan[k][l], Position(k), Done(k)) /\ chan[k][l] \in Seq(Messages)
    BY DEF RoundInv, IInv, TypeOK
  <2>2. \/ chan'[k][l] = chan[k][l]
        \/ chan[k][l] # <<>> /\ chan'[k][l] = Tail(chan[k][l])
    <3>1. chan \in [Node -> [Node -> Seq(Messages)]]
      BY DEF IInv, TypeOK
    <3>2. chan' = [chan EXCEPT ![p][n] = Tail(chan[p][n])]
      BY DEF ReadChunk
    <3>. QED
      BY ONLY <1>1, <3>1, <3>2, LinkUpdate, n \in Node, k \in Node, l \in Node
  <2>. QED
    BY <2>1, <2>2, ProducedQueue
<1>7. ~ IsControl(d) => Has(Position(p), Done(p), Position(n))
  <2> SUFFICES ASSUME ~ IsControl(d) PROVE Has(Position(p), Done(p), Position(n))
    OBVIOUS
  <2>1. d = Data(Version(fwd[n], step[n]), row[n], io[n][p])
    BY <1>1, DataDue DEF IsStop
  <2>2. Position(n) = [fwd |-> fwd[n], step |-> step[n], row |-> row[n]]
    BY <1>1 DEF Position, Busy, InForward
  <2>3. RoundOf(d) = Position(n)
    BY <2>1, <2>2 DEF RoundOf, Data, Version
  <2>4. chan[p][n] \in Seq(Messages) /\ AllProduced(chan[p][n], Position(p), Done(p))
    BY <1>1 DEF RoundInv, IInv, TypeOK
  <2>5. 1 \in 1 .. Len(chan[p][n]) /\ d = chan[p][n][1]
    BY <1>1, <2>4
  <2>. QED
    BY <2>3, <2>4, <2>5 DEF AllProduced
<1> HIDE DEF d
<1>8. ASSUME NEW q \in Sources(n, step'[n]), io'[n][q] > 0
      PROVE  Has(Position(q), Done(q), Position(n)')
  <2>1. q \in Node /\ Received(n) /\ q \in Sources(n, step[n])
    BY <1>2, PeersAreNodes DEF IInv, TypeOK, RoundInv
  <2>2. io'[n][q] = io[n][q] => Has(Position(q), Done(q), Position(n))
    BY <1>1, <1>8, <2>1 DEF Received
  <2>. QED
    BY <1>3, <1>5, <1>7, <2>1, <2>2
<1>. QED
  BY <1>2, <1>4, <1>5, <1>6, <1>8, RoundStutter DEF IInv

\* The ops of a node touch its own pipes only.
LEMMA ComputeOwn ==
  ASSUME TypeOK, NEW n \in Node, Compute(n)
  PROVE  /\ row'[n] = 0
         /\ \A b \in Node \ {n} : /\ row'[b] = row[b]
                                  /\ x'[b] = x[b] /\ zq'[b] = zq[b] /\ lg'[b] = lg[b]
<1>1. row'[n] = 0 /\ \A b \in Node \ {n} : row'[b] = row[b]
  BY DEF Compute, TypeOK
<1>2. \A b \in Node \ {n} : x'[b] = x[b] /\ zq'[b] = zq[b] /\ lg'[b] = lg[b]
  BY DEF Compute, TypeOK
<1>. QED
  BY <1>1, <1>2

\* The ops of a segment are run: the round is computed.
LEMMA AbsCompute ==
  ASSUME IInv, TypeOK', RoundInv, NEW n \in Node, Compute(n)
  PROVE  RoundInv' /\ PromisedStep
<1> USE Constants
<1>1. /\ pc[n] = "op" /\ pc'[n] = "send"
      /\ \A b \in Node \ {n} : pc'[b] = pc[b] /\ io'[b] = io[b]
  BY GotoEffect DEF IInv, Compute
<1>2. row'[n] = 0 /\ \A b \in Node \ {n} : row'[b] = row[b]
  BY ComputeOwn DEF IInv
<1>3. UNCHANGED <<calls, fwd, pos, batch, step, chan>>
  BY DEF Compute
<1>4. \A b \in Node \ {n} : x'[b] = x[b] /\ zq'[b] = zq[b] /\ lg'[b] = lg[b]
  BY ComputeOwn DEF IInv
<1>5. \A b \in Node \ {n} : Untouched(b)
  BY <1>1, <1>2, <1>3, <1>4 DEF Untouched
<1>6. /\ Position(n)' = Position(n) /\ ~ Done(n) /\ Done(n)'
      /\ Position(n).step = step[n] /\ step[n] \in 1 .. NSteps
  <2>1. step[n] \in 1 .. NSteps
    BY DEF IInv, TypeOK, Steps
  <2>. QED
    BY <1>1, <1>2, <1>3, <2>1 DEF Position, Busy, InForward, Done
<1>7. Advanced(Position(n), Done(n), Position(n)', Done(n)')
  BY <1>6 DEF Advanced
<1>8. LastCall'
  BY <1>3 DEF RoundInv, LastCall
<1>9. \A k, l \in Node : AllProduced(chan'[k][l], Position(k), Done(k))
  BY <1>3 DEF RoundInv
<1>10. RoundInv'
  BY <1>1, <1>5, <1>7, <1>8, <1>9, RoundMove DEF IInv
<1>11. Promise!Compute(n)
  <2> DEFINE r == Position(n)
  <2>1. [k \in Node |-> Position(k)][n].step # NSteps + 1
    BY <1>6
  <2>2. ~ [k \in Node |-> pc[k] \in {"send", "recv"}][n]
    BY <1>1
  <2>3. [k \in Node |-> pc[k] \in {"send", "recv"}]' =
          [[k \in Node |-> pc[k] \in {"send", "recv"}] EXCEPT ![n] = TRUE]
    BY <1>5, <1>6, MapMove
  <2>4. [k \in Node |-> Position(k)]' = [k \in Node |-> Position(k)]
    <3>1. \A k \in Node : Position(k)' = Position(k)
      BY <1>5, <1>6, UntouchedPosition
    <3>. QED
      BY <3>1
  <2>. QED
    BY <1>3, <2>1, <2>2, <2>3, <2>4, PromiseConstants DEF Promise!Compute
<1>. QED
  BY <1>10, <1>11, PromiseConstants DEF PromisedStep, Promise!Next

\* Whoever a node needs something from is a source, or the node itself.
LEMMA NeedsAreSources ==
  ASSUME AllServed, NEW n \in Node, NEW s \in Steps
  PROVE  Promise!Needs(n, s) \subseteq {n} \cup Sources(n, s)
<1> USE Constants
<1>1. Served(n) = Node \ {n} /\ Root \in Node
  BY DEF AllServed, Peers
<1>2. s \in Nat /\ s >= 1 /\ s <= NSteps /\ NSteps > 1 /\ NSteps \in Nat
  BY DEF Steps
<1>3. CASE s = 1
  BY <1>2, <1>3, PromiseConstants DEF Promise!Needs, Sources, SyncType
<1>4. CASE s # 1 /\ s < NSteps
  BY <1>1, <1>2, <1>4, PromiseConstants DEF Promise!Needs, Sources, SyncType
<1>5. CASE s # 1 /\ s = NSteps
  BY <1>1, <1>2, <1>5, PromiseConstants DEF Promise!Needs, Sources, SyncType
<1>. QED
  BY <1>2, <1>3, <1>4, <1>5

\* A row is through: whoever the node needed something from has produced it.
LEMMA RowReady ==
  ASSUME IInv, RoundInv, NEW n \in Node, RowDone(n)
  PROVE  Promise!Ready(n)
<1> USE Constants
<1> DEFINE at == [k \in Node |-> Position(k)]
<1> DEFINE done == [k \in Node |-> pc[k] \in {"send", "recv"}]
<1>1. pc[n] = "recv" /\ step[n] \in Steps
  BY DEF RowDone, IInv, TypeOK
<1>2. Position(n).step = step[n] /\ Done(n)
  BY <1>1 DEF Position, Busy, InForward, Done
<1>3. ASSUME NEW p \in Promise!Needs(n, step[n])
      PROVE  p \in Node /\ Has(Position(p), Done(p), Position(n))
  <2>1. p = n \/ p \in Sources(n, step[n])
    BY <1>1, NeedsAreSources DEF IInv
  <2>2. p \in Node
    BY <1>1, <2>1, PeersAreNodes
  <2>3. CASE p = n
    BY <1>2, <2>2, <2>3 DEF Has
  <2>4. CASE p \in Sources(n, step[n])
    <3>1. io[n][p] = Chunks
      BY <2>4 DEF RowDone, AllMoved
    <3>. QED
      BY <1>1, <2>2, <2>4, <3>1 DEF RoundInv, Received
  <2>. QED
    BY <2>1, <2>2, <2>3, <2>4
<1>4. ASSUME NEW p \in Promise!Needs(n, step[n])
      PROVE  Promise!Before(at[n], at[p]) \/ (at[p] = at[n] /\ done[p])
  <2>1. at[p] = Position(p) /\ at[n] = Position(n) /\ (done[p] <=> Done(p))
    BY <1>3 DEF Done
  <2>. QED
    BY <1>3, <2>1 DEF Has
<1>5. at[n].step = step[n]
  BY <1>2
<1>. QED
  BY <1>4, <1>5 DEF Promise!Ready, Promise!Reached

\* Where a node goes when a row is through.
LEMMA RowDoneEffect ==
  ASSUME TypeOK, NEW n \in Node, RowDone(n)
  PROVE  /\ \/ /\ row[n] + 1 < batch[n] /\ pc'[n] = "send"
               /\ step'[n] = step[n] /\ row'[n] = row[n] + 1
            \/ /\ row[n] + 1 >= batch[n] /\ step[n] < NSteps /\ pc'[n] = "op"
               /\ step'[n] = step[n] + 1
            \/ /\ row[n] + 1 >= batch[n] /\ step[n] = NSteps /\ pc'[n] = "ctl"
         /\ \A b \in Node \ {n} : /\ pc'[b] = pc[b] /\ io'[b] = io[b]
                                 /\ step'[b] = step[b] /\ row'[b] = row[b]
<1>1. \E l \in {"send", "op", "ctl"} : Goto(n, l)
  BY DEF RowDone, NextRow, NextSegment, ForwardReturn
<1>2. \A b \in Node \ {n} : pc'[b] = pc[b] /\ io'[b] = io[b]
  BY <1>1, GotoEffect
<1>3. \A b \in Node \ {n} : step'[b] = step[b] /\ row'[b] = row[b]
  BY DEF RowDone, NextRow, NextSegment, ForwardReturn, TypeOK
<1>4. \/ NextRow(n) /\ pc'[n] = "send" /\ step'[n] = step[n] /\ row'[n] = row[n] + 1
      \/ NextSegment(n) /\ pc'[n] = "op" /\ step'[n] = step[n] + 1
      \/ ForwardReturn(n) /\ pc'[n] = "ctl"
  BY GotoEffect DEF RowDone, NextRow, NextSegment, ForwardReturn, TypeOK
<1>. QED
  BY <1>2, <1>3, <1>4 DEF NextRow, NextSegment, ForwardReturn

\* A node is through with a round: the next row, or the next step.
LEMMA AbsRowDone ==
  ASSUME IInv, TypeOK', RoundInv, NEW n \in Node, RowDone(n)
  PROVE  RoundInv' /\ PromisedStep
<1> USE Constants
<1>1. pc[n] = "recv" /\ pc[n] \in InForward
  BY DEF RowDone, InForward
<1>2. UNCHANGED <<calls, fwd, pos, batch, chan, x, zq, lg>>
  BY DEF RowDone, pipes
<1>3. /\ fwd[n] \in Nat /\ step[n] \in 1 .. NSteps /\ row[n] \in Nat /\ row[n] < batch[n]
      /\ batch[n] \in Nat /\ calls[fwd[n]].batch = batch[n]
  <2>1. fwd[n] \in Nat /\ step[n] \in 1 .. NSteps /\ row[n] \in Nat /\ batch[n] \in Nat
    BY DEF IInv, TypeOK, Rows, Steps
  <2>2. row[n] < batch[n]
    BY <1>1 DEF IInv, StreamInv, CallInv
  <2>3. calls[fwd[n]].batch = batch[n]
    BY <1>1, CurrentCall
  <2>. QED
    BY <2>1, <2>2, <2>3
<1>4. /\ \/ /\ row[n] + 1 < batch[n] /\ pc'[n] = "send"
            /\ step'[n] = step[n] /\ row'[n] = row[n] + 1
         \/ /\ row[n] + 1 >= batch[n] /\ step[n] < NSteps /\ pc'[n] = "op"
            /\ step'[n] = step[n] + 1
         \/ /\ row[n] + 1 >= batch[n] /\ step[n] = NSteps /\ pc'[n] = "ctl"
      /\ \A b \in Node \ {n} : /\ pc'[b] = pc[b] /\ io'[b] = io[b]
                              /\ step'[b] = step[b] /\ row'[b] = row[b]
  BY RowDoneEffect DEF IInv
<1>5. \A b \in Node \ {n} : Untouched(b)
  BY <1>2, <1>4 DEF Untouched
<1>6. Position(n) = [fwd |-> fwd[n], step |-> step[n], row |-> row[n]] /\ Done(n)
  BY <1>1 DEF Position, Busy, Done
<1>7. \/ /\ row[n] + 1 < batch[n] /\ Done(n)'
         /\ Position(n)' = [fwd |-> fwd[n], step |-> step[n], row |-> row[n] + 1]
      \/ /\ row[n] + 1 = batch[n] /\ ~ Done(n)'
         /\ Position(n)' = [fwd |-> fwd[n], step |-> step[n] + 1, row |-> 0]
  <2>1. CASE row[n] + 1 < batch[n]
    BY <1>2, <1>3, <1>4, <2>1 DEF Position, Busy, InForward, Done
  <2>2. CASE ~ (row[n] + 1 < batch[n])
    <3>1. row[n] + 1 = batch[n]
      BY <1>3, <2>2
    <3>2. \/ pc'[n] = "op" /\ step'[n] = step[n] + 1
          \/ pc'[n] = "ctl" /\ step[n] = NSteps
      BY <1>4, <2>2
    <3>. QED
      BY <1>2, <3>1, <3>2 DEF Position, Busy, InForward, Done
  <2>. QED
    BY <2>1, <2>2
<1>8. Advanced(Position(n), Done(n), Position(n)', Done(n)')
  <2>1. Promise!Before(Position(n), Position(n)')
    BY <1>3, <1>6, <1>7, BeforeDef
  <2>. QED
    BY <2>1 DEF Advanced
<1>9. LastCall'
  BY <1>2 DEF RoundInv, LastCall
<1>10. \A k, l \in Node : AllProduced(chan'[k][l], Position(k), Done(k))
  BY <1>2 DEF RoundInv
<1>11. RoundInv'
  BY <1>4, <1>5, <1>8, <1>9, <1>10, RoundMove DEF IInv
<1>12. Promise!Complete(n)
  <2> DEFINE at == [k \in Node |-> Position(k)]
  <2> DEFINE done == [k \in Node |-> pc[k] \in {"send", "recv"}]
  <2>1. /\ at[n].fwd = fwd[n] /\ at[n].step = step[n] /\ at[n].row = row[n]
        /\ done[n]
    <3>1. at[n] = Position(n)
      OBVIOUS
    <3>2. done[n] = (pc[n] \in {"send", "recv"})
      OBVIOUS
    <3>3. at[n].fwd = fwd[n] /\ at[n].step = step[n] /\ at[n].row = row[n]
      BY <1>6, <3>1
    <3>4. done[n]
      BY <1>1, <3>2
    <3>. QED
      BY <3>3, <3>4
  <2>2. Promise!Ready(n)
    BY RowReady
  <2>3. CASE row[n] + 1 < batch[n]
    <3> DEFINE r == Promise!Round(fwd[n], step[n], row[n] + 1)
    <3>1. Position(n)' = r /\ Done(n)'
      BY <1>3, <1>7, <2>3 DEF Promise!Round
    <3>2. at' = [at EXCEPT ![n] = r] /\ done' = [done EXCEPT ![n] = TRUE]
      BY <1>5, <3>1, MapMove
    <3>3. done' = done
      <4>1. \A k \in Node : [done EXCEPT ![n] = TRUE][k] = done[k]
        BY <2>1
      <4>. QED
        BY <3>2, <4>1
    <3>4. r = Promise!Round(at[n].fwd, at[n].step, at[n].row + 1)
      BY <2>1
    <3> HIDE DEF r
    <3>5. at[n].row + 1 < calls[at[n].fwd].batch
      BY <1>3, <2>1, <2>3
    <3>6. Promise!NextRow(n)
      BY <3>2, <3>3, <3>4, <3>5 DEF Promise!NextRow
    <3>. QED
      BY <1>2, <1>3, <2>1, <2>2, <3>6, PromiseConstants DEF Promise!Complete
  <2>4. CASE row[n] + 1 = batch[n]
    <3> DEFINE r == Promise!Round(fwd[n], step[n] + 1, 0)
    <3>1. Position(n)' = r /\ ~ Done(n)'
      BY <1>3, <1>7, <2>4 DEF Promise!Round
    <3>2. at' = [at EXCEPT ![n] = r] /\ done' = [done EXCEPT ![n] = FALSE]
      BY <1>5, <3>1, MapMove
    <3>4. r = Promise!Round(at[n].fwd, at[n].step + 1, 0)
      BY <2>1
    <3> HIDE DEF r
    <3>5. at[n].row + 1 = calls[at[n].fwd].batch
      BY <1>3, <2>1, <2>4
    <3>6. Promise!NextStep(n)
      BY <3>2, <3>4, <3>5 DEF Promise!NextStep
    <3>. QED
      BY <1>2, <1>3, <2>1, <2>2, <3>6, PromiseConstants DEF Promise!Complete
  <2>. QED
    BY <1>7, <2>3, <2>4
<1>. QED
  BY <1>11, <1>12, PromiseConstants DEF PromisedStep, Promise!Next

\* A step of a node in its forward, when nobody has failed.
LEMMA AbsNodeStep ==
  ASSUME IInv, EndInv, TypeOK', RoundInv, NEW n \in Node, NodeStep(n)
  PROVE  RoundInv' /\ PromisedStep
<1>1. \A p \in Peers(n) : ~ WriteError(n, p) /\ ~ ReadError(n, p)
  BY NoErrors
<1>2. \/ Compute(n) \/ WriteDone(n) \/ RowDone(n)
      \/ \E p \in Peers(n) : WriteChunk(n, p) \/ ReadChunk(n, p)
  BY <1>1 DEF NodeStep
<1>. QED
  BY <1>2, AbsCompute, AbsWriteDone, AbsRowDone, AbsWriteChunk, AbsReadChunk

\* Nothing happens, nor is promised.
LEMMA AbsNothing ==
  ASSUME RoundInv, UNCHANGED vars
  PROVE  RoundInv' /\ PromisedStep
<1>1. UNCHANGED <<calls, pc, fwd, pos, batch, step, row, io, chan>>
  BY DEF vars, place
<1>2. \A n \in Node : Position(n)' = Position(n) /\ (Done(n)' <=> Done(n))
  BY <1>1 DEF Position, Busy, Done
<1>3. RoundInv'
  BY <1>1 DEF RoundInv, LastCall, AllProduced, Received, Has, Position, Busy, Done
<1>. QED
  BY <1>1, <1>2, <1>3, MapStutter DEF PromisedStep

\* All steps of a run in which nobody has failed.
LEMMA AbsNext ==
  ASSUME IInv, EndInv, RoundInv, [Next]_vars, faults' = 0
  PROVE  RoundInv' /\ PromisedStep
<1>1. TypeOK'
  BY NextIInv DEF IInv
<1>2. RootStep => RoundInv' /\ PromisedStep
  BY <1>1, AbsBroadcast, AbsBroadcastDone DEF RootStep
<1>3. ASSUME NEW b \in 1 .. NBatches, RootForward(b) PROVE RoundInv' /\ PromisedStep
  BY <1>1, <1>3, AbsForward
<1>4. ASSUME NEW w \in Worker, ReadControl(w) PROVE RoundInv' /\ PromisedStep
  BY <1>1, <1>4, AbsReadControl
<1>5. ASSUME NEW n \in Node, NodeStep(n) PROVE RoundInv' /\ PromisedStep
  BY <1>1, <1>5, AbsNodeStep
<1>6. RootFinish => RoundInv' /\ PromisedStep
  BY <1>1, AbsFinish
<1>7. UNCHANGED vars \/ Terminated => RoundInv' /\ PromisedStep
  BY AbsNothing DEF Terminated
<1>8. ~ RootRaise /\ \A n \in Node : ~ Crash(n)
  BY NoFailures DEF IInv
<1>. QED
  BY <1>2, <1>3, <1>4, <1>5, <1>6, <1>7, <1>8 DEF Next

\* Both start with everybody between two forwards and nothing on its way.
LEMMA AbsInit == Init => RoundInv /\ Promise!Init
<1> SUFFICES ASSUME Init PROVE RoundInv /\ Promise!Init
  OBVIOUS
<1> USE Constants
<1>1. /\ calls = <<>> /\ pos[Root] = 0 /\ batch[Root] = 0
      /\ \A n \in Node : pc[n] = "ctl" /\ fwd[n] = 0
      /\ \A m, n \in Node : chan[m][n] = <<>>
  BY DEF Init
<1>2. RoundInv
  BY <1>1 DEF RoundInv, LastCall, AllProduced, Received
<1>3. \A n \in Node : Position(n) = Promise!Round(0, NSteps + 1, 0)
  BY <1>1 DEF Position, Busy, InForward, Promise!Round
<1>4. \A n \in Node : (pc[n] \in {"send", "recv"}) = FALSE
  BY <1>1
<1>5. Promise!Init
  BY <1>1, <1>3, <1>4, PromiseConstants DEF Promise!Init
<1>. QED
  BY <1>2, <1>5

\* The threads, sockets and streams of a run in which nobody fails do what the
\* collective operations promise: every step of NnNetworkNodeSynchronizer.sync,
\* of the executors and of the control packets is one of Collective's, or none.
THEOREM ImplementsThePromise ==
  OneThreadOrOneWorker /\ Spec /\ [](faults = 0) => ImplementsCollective
<1>1. OneThreadOrOneWorker /\ Init => IInv /\ EndInv /\ RoundInv /\ Promise!Init
  BY ThreadZeroServesAll, InitIInv, InitEndInv, AbsInit
<1>2. IInv /\ EndInv /\ RoundInv /\ [Next]_vars /\ (faults = 0)' =>
        IInv' /\ EndInv' /\ RoundInv' /\ [Promise!Next]_(Promise!vars)
  BY NextIInv, NextEndInv, AbsNext DEF PromisedStep
<1>. QED
  BY <1>1, <1>2, PTL DEF Spec, ImplementsCollective, Promise!Spec

\* Collective and its theorems, read off the nodes as Promise is.
Kept == INSTANCE CollectiveProofs WITH
  at       <- [n \in Node |-> Position(n)],
  computed <- [n \in Node |-> pc[n] \in {"send", "recv"}]

\* Promise and Kept are one specification under two names.
LEMMA SameNames ==
  /\ Promise!Init => Kept!Init
  /\ [Promise!Next]_(Promise!vars) => [Kept!Next]_(Kept!vars)
<1>1. /\ Promise!Node = Kept!Node /\ Promise!Root = Kept!Root /\ Promise!Worker = Kept!Worker
      /\ Promise!NSteps = Kept!NSteps /\ Promise!Idle = Kept!Idle /\ Promise!NextPos = Kept!NextPos
      /\ Promise!vars = Kept!vars
  BY DEF Promise!Node, Promise!Root, Promise!Worker, Promise!NSteps, Promise!Idle, Promise!NextPos, Promise!vars,
         Kept!Node, Kept!Root, Kept!Worker, Kept!NSteps, Kept!Idle, Kept!NextPos, Kept!vars
<1>2. \A f, s, r : Promise!Round(f, s, r) = Kept!Round(f, s, r)
  BY DEF Promise!Round, Kept!Round
<1>3. \A a, b : Promise!Before(a, b) <=> Kept!Before(a, b)
  BY DEF Promise!Before, Kept!Before
<1>4. \A n, s : Promise!Needs(n, s) = Kept!Needs(n, s)
  BY <1>1 DEF Promise!Needs, Kept!Needs
<1>5. Promise!Init <=> Kept!Init
  BY <1>1, <1>2 DEF Promise!Init, Kept!Init
<1>6. \A b : Promise!Announce(b) <=> Kept!Announce(b)
  BY <1>1, <1>2 DEF Promise!Announce, Kept!Announce
<1>7. \A w : Promise!Join(w) <=> Kept!Join(w)
  BY <1>1, <1>2 DEF Promise!Join, Kept!Join
<1>8. \A n : Promise!Compute(n) <=> Kept!Compute(n)
  BY <1>1 DEF Promise!Compute, Kept!Compute
<1>9. \A n : Promise!Ready(n) <=> Kept!Ready(n)
  BY <1>3, <1>4 DEF Promise!Ready, Kept!Ready, Promise!Reached, Kept!Reached
<1>10. \A n : Promise!Complete(n) <=> Kept!Complete(n)
  BY <1>1, <1>2, <1>9 DEF Promise!Complete, Kept!Complete, Promise!NextRow, Kept!NextRow, Promise!NextStep, Kept!NextStep
<1>11. Promise!Rest <=> Kept!Rest
  BY <1>1 DEF Promise!Rest, Kept!Rest, Promise!vars, Kept!vars
<1>12. [Promise!Next]_(Promise!vars) => [Kept!Next]_(Kept!vars)
  BY <1>1, <1>6, <1>7, <1>8, <1>10, <1>11 DEF Promise!Next, Kept!Next, Promise!vars, Kept!vars
<1>. QED
  BY <1>5, <1>12

\* The assumption on the constants is the same.
LEMMA SameAssumption == Kept!CollectiveAssumption
  BY ClusterAssumption DEF Kept!CollectiveAssumption

\* What is proved of Collective: the promise is inductive, and who keeps it is
\* in lockstep and led by the root.
LEMMA PromiseKept ==
  /\ Promise!Init => Kept!IInv
  /\ Kept!IInv /\ [Promise!Next]_(Promise!vars) => Kept!IInv'
  /\ Kept!IInv => Kept!Gathered /\ Kept!Lockstep /\ Kept!RootLeads
<1>1. Kept!Init => Kept!IInv
  BY SameAssumption, Kept!InitIInv
<1>2. Kept!IInv /\ [Kept!Next]_(Kept!vars) => Kept!IInv'
  BY SameAssumption, Kept!NextIInv
<1>3. Kept!IInv => Kept!Lockstep
  BY SameAssumption, Kept!IInvLockstep
<1>4. Kept!IInv => Kept!RootLeads
  BY SameAssumption, Kept!IInvRootLeads
<1>5. Kept!IInv => Kept!Gathered
  BY DEF Kept!IInv
<1>. QED
  BY <1>1, <1>2, <1>3, <1>4, <1>5, SameNames

-----------------------------------------------------------------------------
(* The buffers: what is on a link, in order.                               *)

\* The number of a chunk among those of its step, over all rows.
Index(d) == d.row * Chunks + d.chunk

Later(v, w) == v.fwd < w.fwd \/ (v.fwd = w.fwd /\ v.step < w.step)

\* Messages follow each other step after step, and within a step chunk after
\* chunk, with none left out.
InOrder(q) ==
  \A j \in 1 .. Len(q) : \A i \in 1 .. j - 1 :
    \/ Later(q[i].ver, q[j].ver)
    \/ q[i].ver = q[j].ver /\ Index(q[j]) = Index(q[i]) + (j - i)

\* A message is of a row of its batch; a control packet has no rows or chunks.
RealRow(cs, d) ==
  IF IsControl(d) THEN d.row = 0 /\ d.chunk = 0 ELSE d.row < cs[d.ver.fwd].batch

RealRows(cs, q) == \A i \in 1 .. Len(q) : RealRow(cs, q[i])

OrderInv ==
  ~ Ended => \A m \in Node : \A n \in Peers(m) :
               InOrder(chan[m][n]) /\ RealRows(calls, chan[m][n])

\* Arithmetic of rows and chunks.
LEMMA RowsOfChunks ==
  /\ \A r \in Nat : r * Chunks \in Nat /\ (r + 1) * Chunks = r * Chunks + Chunks
  /\ \A r, k \in Nat : r < k => r * Chunks + Chunks <= k * Chunks
<1>1. Chunks \in Nat
  BY Constants
<1>2. \A r \in Nat : r * Chunks \in Nat /\ (r + 1) * Chunks = r * Chunks + Chunks
  BY <1>1
<1>3. ASSUME NEW r \in Nat, NEW k \in Nat, r < k PROVE r * Chunks + Chunks <= k * Chunks
  <2>1. k - (r + 1) \in Nat /\ k = (r + 1) + (k - (r + 1))
    BY <1>3
  <2>2. \A a, b \in Nat : (a + b) * Chunks = a * Chunks + b * Chunks /\ b * Chunks \in Nat
    BY <1>1
  <2>3. k * Chunks = (r + 1) * Chunks + (k - (r + 1)) * Chunks /\ (k - (r + 1)) * Chunks \in Nat
    BY <2>1, <2>2
  <2>4. (r + 1) * Chunks = r * Chunks + Chunks /\ r * Chunks \in Nat
    BY <1>2
  <2>5. k * Chunks \in Nat
    BY <1>1
  <2>. QED
    BY <1>1, <2>3, <2>4, <2>5
<1>. QED
  BY <1>2, <1>3

\* What a message says about itself.
LEMMA MessageParts ==
  ASSUME NEW d \in Messages
  PROVE  /\ d.ver.fwd \in Nat /\ d.ver.step \in 0 .. NSteps /\ d.row \in Nat /\ d.row < NBatches
         /\ d.chunk \in Nat /\ d.chunk < Chunks
         /\ d.ver = [fwd |-> d.ver.fwd, step |-> d.ver.step]
<1> USE Constants
<1>1. d.ver \in Versions /\ d.row \in Rows /\ d.chunk \in 0 .. Chunks - 1
  BY DEF Messages
<1>. QED
  BY <1>1 DEF Versions, Rows

LEMMA IndexType == ASSUME NEW d \in Messages PROVE Index(d) \in Nat
<1>1. d.row \in Nat /\ d.chunk \in Nat
  BY MessageParts
<1> DEFINE a == d.row * Chunks
<1>2. a \in Nat
  BY <1>1, RowsOfChunks
<1> HIDE DEF a
<1>3. a + d.chunk \in Nat
  BY <1>1, <1>2
<1>. QED
  BY <1>3 DEF Index, a

\* The chunk that is due after another is the next of its step, or of a step
\* that is later.
LEMMA AfterIsNext ==
  ASSUME NEW cs, NEW m \in Node, NEW n \in Node, NEW d \in Messages, NEW e \in Messages,
         Place(e) = After(cs, m, n, d)
  PROVE  Later(d.ver, e.ver) \/ (d.ver = e.ver /\ Index(e) = Index(d) + 1)
<1> USE Constants
<1> DEFINE f == d.ver.fwd
<1> DEFINE s == d.ver.step
<1> DEFINE r == d.row
<1> DEFINE c == d.chunk
<1>1. /\ f \in Nat /\ s \in 0 .. NSteps /\ r \in Nat /\ c \in Nat /\ c < Chunks
      /\ d.ver = [fwd |-> f, step |-> s]
  BY MessageParts
<1>2. e.ver = [fwd |-> e.ver.fwd, step |-> e.ver.step]
  BY MessageParts
<1>3. Place(e) = Due(cs, m, n, f, s, r, c + 1)
  BY DEF After
<1>4. Index(d) = r * Chunks + c
  BY DEF Index
<1> HIDE DEF f, s, r, c
<1>5. FirstStep(m) \in Nat /\ LastStep(n) \in Nat /\ FirstStep(m) <= LastStep(n)
  BY DEF FirstStep, LastStep
<1>6. \/ Place(e) = At(f, s, r, c + 1) /\ s # 0
      \/ Place(e) = At(f, s, r + 1, 0) /\ s # 0 /\ c + 1 = Chunks
      \/ \E t \in Nat : t > s /\ Place(e) = At(f, t, 0, 0)
      \/ \E t \in Nat : Place(e) = At(f + 1, t, 0, 0)
  <2>1. CASE s < FirstStep(m)
    BY <1>1, <1>3, <1>5, <2>1 DEF Due
  <2>2. CASE s > LastStep(n)
    BY <1>1, <1>3, <1>5, <2>2 DEF Due
  <2>3. CASE FirstStep(m) <= s /\ s <= LastStep(n) /\ s = 0
    BY <1>1, <1>3, <1>5, <2>3 DEF Due, SizeOf, RowsOf
  <2>4. CASE FirstStep(m) <= s /\ s <= LastStep(n) /\ s # 0
    BY <1>1, <1>3, <1>5, <2>4 DEF Due, SizeOf, RowsOf
  <2>. QED
    BY <1>1, <1>5, <2>1, <2>2, <2>3, <2>4
<1>7. Place(e) = At(e.ver.fwd, e.ver.step, e.row, e.chunk) /\ Index(e) = e.row * Chunks + e.chunk
  BY DEF Place, Index
<1>8. r * Chunks \in Nat /\ (r + 1) * Chunks = r * Chunks + Chunks
  BY <1>1, RowsOfChunks
<1>9. CASE Place(e) = At(f, s, r, c + 1)
  <2>1. e.ver.fwd = f /\ e.ver.step = s /\ e.row = r /\ e.chunk = c + 1
    BY <1>7, <1>9 DEF At
  <2>. QED
    BY <1>1, <1>2, <1>4, <1>7, <1>8, <2>1
<1>10. CASE Place(e) = At(f, s, r + 1, 0) /\ c + 1 = Chunks
  <2>1. e.ver.fwd = f /\ e.ver.step = s /\ e.row = r + 1 /\ e.chunk = 0
    BY <1>7, <1>10 DEF At
  <2>2. Index(e) = r * Chunks + Chunks
    BY <1>7, <1>8, <2>1
  <2>. QED
    BY <1>1, <1>2, <1>4, <1>8, <1>10, <2>1, <2>2
<1>11. CASE \E t \in Nat : t > s /\ Place(e) = At(f, t, 0, 0)
  <2>1. PICK t \in Nat : t > s /\ Place(e) = At(f, t, 0, 0)
    BY <1>11
  <2>2. e.ver.fwd = f /\ e.ver.step = t
    BY <1>7, <2>1 DEF At
  <2>. QED
    BY <1>1, <2>1, <2>2 DEF Later
<1>12. CASE \E t \in Nat : Place(e) = At(f + 1, t, 0, 0)
  <2>1. e.ver.fwd = f + 1
    BY <1>7, <1>12 DEF At
  <2>. QED
    BY <1>1, <2>1 DEF Later
<1>. QED
  BY <1>6, <1>9, <1>10, <1>11, <1>12

\* What is due is of a row of its batch, and of a step its link carries.
LEMMA DueReal ==
  ASSUME NEW cs, NEW m \in Node, NEW n \in Node, NEW f \in Nat, NEW s \in 0 .. NSteps + 1,
         NEW r \in Nat, NEW c \in Nat, r = 0 \/ (s # 0 /\ r < cs[f].batch),
         NEW e \in Messages, Place(e) = Due(cs, m, n, f, s, r, c), 
         cs[e.ver.fwd].batch \in Nat, cs[e.ver.fwd].batch > 0
  PROVE  RealRow(cs, e) /\ FirstStep(m) <= e.ver.step /\ e.ver.step <= LastStep(n)
<1> USE Constants
<1>1. FirstStep(m) \in Nat /\ LastStep(n) \in Nat /\ FirstStep(m) <= LastStep(n)
  BY DEF FirstStep, LastStep
<1>2. e.ver.fwd = Due(cs, m, n, f, s, r, c).fwd /\ e.ver.step = Due(cs, m, n, f, s, r, c).step
      /\ e.row = Due(cs, m, n, f, s, r, c).row /\ e.chunk = Due(cs, m, n, f, s, r, c).chunk
  BY DEF Place, At
<1>3. \/ e.row = 0 /\ e.chunk = 0
      \/ e.row = r /\ e.ver.fwd = f /\ e.ver.step = s /\ (s = 0 => e.chunk = 0)
      \/ s # 0 /\ e.row < cs[e.ver.fwd].batch /\ e.ver.step = s
  BY <1>1, <1>2 DEF Due, At, SizeOf, RowsOf
<1>4. FirstStep(m) <= e.ver.step /\ e.ver.step <= LastStep(n)
  BY <1>1, <1>2 DEF Due, At
<1>. QED
  BY <1>3, <1>4 DEF RealRow, IsControl

\* What a link holds before the end, message by message.
Chained ==
  \A m \in Node : \A n \in Peers(m) : \A i \in 1 .. Len(chan[m][n]) :
    LET d == chan[m][n][i]
    IN  /\ d \in Messages /\ ~ IsStop(d) /\ d.ver.fwd \in 1 .. Len(calls)
        /\ calls[d.ver.fwd].batch \in Nat /\ calls[d.ver.fwd].batch > 0
        /\ IF i = 1 THEN RealRow(calls, d)
           ELSE Place(d) = After(calls, m, n, chan[m][n][i - 1])

\* The streams of StreamInv are chained.
LEMMA ChainedLinks == IInv /\ EndInv /\ ~ Ended => Chained
<1> SUFFICES ASSUME IInv, EndInv, ~ Ended, NEW m \in Node, NEW n \in Peers(m), NEW i \in 1 .. Len(chan[m][n])
             PROVE  LET d == chan[m][n][i]
                    IN  /\ d \in Messages /\ ~ IsStop(d) /\ d.ver.fwd \in 1 .. Len(calls)
                        /\ calls[d.ver.fwd].batch \in Nat /\ calls[d.ver.fwd].batch > 0
                        /\ IF i = 1 THEN RealRow(calls, d)
                           ELSE Place(d) = After(calls, m, n, chan[m][n][i - 1])
  BY DEF Chained
<1> USE Constants
<1> DEFINE q == chan[m][n]
<1>1. n \in Node /\ m \in Peers(n) /\ q \in Seq(Messages)
  BY LinkTypes DEF IInv
<1>2. Alive(n) /\ NoStops(q)
  BY <1>1, BeforeEnd
<1>3. Aligned(calls, m, n, q, DueIn(n, m)) /\ GenuineAll(calls, q)
  BY <1>1, <1>2 DEF IInv, StreamInv, LinkInv
<1>4. q[i] \in Messages
  BY <1>1
<1> HIDE DEF q
<1>5. ~ IsStop(q[i]) /\ q[i].ver.fwd \in 1 .. Len(calls)
  BY <1>2, <1>3 DEF NoStops, GenuineAll, Genuine, q
<1>6. Place(q[i]) = IF i = 1 THEN DueIn(n, m) ELSE After(calls, m, n, q[i - 1])
  BY <1>3, <1>5 DEF Aligned, q
<1>7. calls[q[i].ver.fwd].batch \in 1 .. NBatches
  BY <1>5, CallTypes DEF IInv
<1>8. calls[q[i].ver.fwd].batch \in Nat /\ calls[q[i].ver.fwd].batch > 0
  BY <1>7
<1>9. i = 1 => RealRow(calls, q[i])
  <2> SUFFICES ASSUME i = 1 PROVE RealRow(calls, q[i])
    OBVIOUS
  <2>1. /\ fwd[n] \in Nat /\ StepOf(n) \in 0 .. NSteps + 1 /\ RowOf(n) \in Nat
        /\ (IF pc[n] = "recv" THEN io[n][m] ELSE 0) \in Nat
    <3>1. fwd[n] \in Nat /\ step[n] \in 1 .. NSteps /\ row[n] \in Nat
      BY <1>1 DEF IInv, TypeOK, Steps, Rows
    <3>2. io[n][m] \in 0 .. Chunks
      BY <1>1 DEF IInv, TypeOK
    <3>3. io[n][m] \in Nat
      BY <3>2
    <3>. QED
      BY <3>1, <3>3 DEF StepOf, RowOf
  <2>2. RowOf(n) = 0 \/ (StepOf(n) # 0 /\ RowOf(n) < calls[fwd[n]].batch)
    <3>1. CASE pc[n] \in {"send", "recv"}
      <4>1. step[n] # 0
        BY <1>1 DEF IInv, TypeOK, Steps
      <4>2. row[n] < batch[n] /\ calls[fwd[n]].batch = batch[n]
        BY <1>1, <3>1, CurrentCall DEF IInv, StreamInv, CallInv, InForward
      <4>. QED
        BY <3>1, <4>1, <4>2 DEF RowOf, StepOf
    <3>. QED
      BY <3>1 DEF RowOf
  <2>3. Place(q[i]) = Due(calls, m, n, fwd[n], StepOf(n), RowOf(n), IF pc[n] = "recv" THEN io[n][m] ELSE 0)
    BY <1>6 DEF DueIn
  <2>. QED
    BY <1>1, <1>4, <1>8, <2>1, <2>2, <2>3, DueReal
<1>. QED
  BY <1>4, <1>5, <1>6, <1>8, <1>9 DEF q

\* ... and still are in the next state.
LEMMA ChainedNext == IInv' /\ EndInv' /\ ~ Ended' => Chained'
  BY ChainedLinks, PTL

\* Order, when a message is added or the oldest taken off.
LEMMA OrderQueue ==
  ASSUME NEW q \in Seq(Messages), InOrder(q)
  PROVE  /\ q # <<>> => InOrder(Tail(q))
         /\ \A d \in Messages :
              (Len(q) > 0 => \/ Later(q[Len(q)].ver, d.ver)
                             \/ q[Len(q)].ver = d.ver /\ Index(d) = Index(q[Len(q)]) + 1) =>
              InOrder(Append(q, d))
<1> USE Constants
<1>1. ASSUME q # <<>>, NEW j \in 1 .. Len(Tail(q)), NEW i \in 1 .. j - 1
      PROVE  \/ Later(Tail(q)[i].ver, Tail(q)[j].ver)
             \/ Tail(q)[i].ver = Tail(q)[j].ver /\ Index(Tail(q)[j]) = Index(Tail(q)[i]) + (j - i)
  <2>1. /\ j + 1 \in 1 .. Len(q) /\ i + 1 \in 1 .. (j + 1) - 1 /\ (j + 1) - (i + 1) = j - i
        /\ Tail(q)[j] = q[j + 1] /\ Tail(q)[i] = q[i + 1]
    BY <1>1
  <2>2. \/ Later(q[i + 1].ver, q[j + 1].ver)
        \/ q[i + 1].ver = q[j + 1].ver /\ Index(q[j + 1]) = Index(q[i + 1]) + ((j + 1) - (i + 1))
    BY <2>1 DEF InOrder
  <2>. QED
    BY <2>1, <2>2
<1>2. ASSUME NEW d \in Messages,
             Len(q) > 0 => \/ Later(q[Len(q)].ver, d.ver)
                           \/ q[Len(q)].ver = d.ver /\ Index(d) = Index(q[Len(q)]) + 1,
             NEW j \in 1 .. Len(Append(q, d)), NEW i \in 1 .. j - 1
      PROVE  LET u == Append(q, d)
             IN  \/ Later(u[i].ver, u[j].ver)
                 \/ u[i].ver = u[j].ver /\ Index(u[j]) = Index(u[i]) + (j - i)
  <2> DEFINE u == Append(q, d)
  <2> DEFINE l == Len(q)
  <2>1. l \in Nat /\ Len(u) = l + 1 /\ u[l + 1] = d /\ \A k \in 1 .. l : u[k] = q[k] /\ q[k] \in Messages
    OBVIOUS
  <2>2. CASE j \in 1 .. l
    BY <2>1, <2>2 DEF InOrder
  <2>3. CASE j = l + 1
    <3>1. i \in 1 .. l /\ l \in 1 .. l /\ l > 0
      BY <2>1, <2>3
    <3>2. Later(q[l].ver, d.ver) \/ (q[l].ver = d.ver /\ Index(d) = Index(q[l]) + 1)
      BY <1>2, <3>1
    <3>3. i = l \/ i \in 1 .. l - 1
      BY <3>1
    <3>4. i = l \/ Later(q[i].ver, q[l].ver) \/ (q[i].ver = q[l].ver /\ Index(q[l]) = Index(q[i]) + (l - i))
      BY <3>1, <3>3 DEF InOrder
    <3>5. /\ q[i].ver.fwd \in Nat /\ q[l].ver.fwd \in Nat /\ d.ver.fwd \in Nat
          /\ q[i].ver.step \in Nat /\ q[l].ver.step \in Nat /\ d.ver.step \in Nat
      <4>1. \A e \in Messages : e.ver.fwd \in Nat /\ e.ver.step \in 0 .. NSteps
        BY MessageParts
      <4>2. q[i] \in Messages /\ q[l] \in Messages /\ d \in Messages
        BY <2>1, <3>1
      <4>. QED
        BY <4>1, <4>2
    <3>6. Index(q[i]) \in Nat
      BY <2>1, <3>1, IndexType
    <3>7. Later(q[i].ver, d.ver) \/ (q[i].ver = d.ver /\ Index(d) = Index(q[i]) + ((l + 1) - i))
      <4>1. CASE i = l
        <5>1. (l + 1) - i = 1
          BY <2>1, <4>1
        <5>. QED
          BY <3>2, <4>1, <5>1
      <4>2. CASE Later(q[i].ver, q[l].ver)
        <5>1. Later(q[i].ver, d.ver)
          BY <3>2, <3>5, <4>2 DEF Later
        <5>. QED
          BY <5>1
      <4>3. CASE q[i].ver = q[l].ver /\ Index(q[l]) = Index(q[i]) + (l - i)
        <5>1. CASE Later(q[l].ver, d.ver)
          BY <4>3, <5>1
        <5>2. CASE q[l].ver = d.ver /\ Index(d) = Index(q[l]) + 1
          <6>1. Index(q[i]) + (l - i) + 1 = Index(q[i]) + ((l + 1) - i)
            BY <2>1, <3>1, <3>6
          <6>. QED
            BY <4>3, <5>2, <6>1
        <5>. QED
          BY <3>2, <5>1, <5>2
      <4>. QED
        BY <3>4, <4>1, <4>2, <4>3
    <3>. QED
      BY <2>1, <2>3, <3>1, <3>7
  <2>. QED
    BY <2>1, <2>2, <2>3
<1>3. q # <<>> => InOrder(Tail(q))
  BY <1>1 DEF InOrder
<1>4. ASSUME NEW d \in Messages,
             Len(q) > 0 => \/ Later(q[Len(q)].ver, d.ver)
                           \/ q[Len(q)].ver = d.ver /\ Index(d) = Index(q[Len(q)]) + 1
      PROVE  InOrder(Append(q, d))
  BY <1>2, <1>4 DEF InOrder
<1>. QED
  BY <1>3, <1>4

\* A step leaves a link alone, adds one message to it, or takes the oldest off.
LEMMA LinkStep ==
  ASSUME TypeOK, [Next]_vars, NEW m \in Node, NEW n \in Node
  PROVE  \/ chan'[m][n] = chan[m][n]
         \/ chan[m][n] # <<>> /\ chan'[m][n] = Tail(chan[m][n])
         \/ \E d : chan'[m][n] = Append(chan[m][n], d)
<1>1. chan \in [Node -> [Node -> Seq(Messages)]]
  BY DEF TypeOK
<1>2. ASSUME NEW k \in Node, NEW l \in Node, NEW d, chan' = [chan EXCEPT ![k][l] = Append(@, d)]
      PROVE  chan'[m][n] = chan[m][n] \/ chan'[m][n] = Append(chan[m][n], d)
  BY <1>1, <1>2
<1>3. ASSUME NEW k \in Node, NEW l \in Node, chan[k][l] # <<>>, chan' = [chan EXCEPT ![k][l] = Tail(@)]
      PROVE  chan'[m][n] = chan[m][n] \/ (chan[m][n] # <<>> /\ chan'[m][n] = Tail(chan[m][n]))
  BY <1>1, <1>3
<1>4. ASSUME NEW p \in Worker, RootBroadcast(p)
      PROVE  \E d : chan' = [chan EXCEPT ![Root][p] = Append(@, d)]
  BY <1>4 DEF RootBroadcast
<1>5. ASSUME NEW w \in Worker, ReadControl(w)
      PROVE  chan[Root][w] # <<>> /\ chan' = [chan EXCEPT ![Root][w] = Tail(@)]
  BY <1>5 DEF ReadControl
<1>6. ASSUME NEW k \in Node, NEW p \in Peers(k), WriteChunk(k, p)
      PROVE  \E d : chan' = [chan EXCEPT ![k][p] = Append(@, d)]
  BY <1>6 DEF WriteChunk
<1>7. ASSUME NEW k \in Node, NEW p \in Peers(k), ReadChunk(k, p)
      PROVE  chan[p][k] # <<>> /\ chan' = [chan EXCEPT ![p][k] = Tail(@)]
  BY <1>7 DEF ReadChunk
<1>8. Root \in Node /\ (\A w \in Worker : w \in Node) /\ \A k \in Node : \A p \in Peers(k) : p \in Node
  BY Constants DEF Worker, Peers
<1>9. \/ chan' = chan
      \/ \E p \in Worker : RootBroadcast(p) \/ ReadControl(p)
      \/ \E k \in Node : \E p \in Peers(k) : WriteChunk(k, p) \/ ReadChunk(k, p)
  BY DEF Next, vars, RootForward, RootFinish, RootStep, RootBroadcastDone, NodeStep, Compute, WriteDone,
         RowDone, WriteError, ReadError, OnError, Crash, RootRaise, Terminated
<1>10. CASE \E p \in Worker : RootBroadcast(p) \/ ReadControl(p)
  <2>1. PICK p \in Worker : RootBroadcast(p) \/ ReadControl(p)
    BY <1>10
  <2>2. p \in Node
    BY <1>8
  <2>3. CASE RootBroadcast(p)
    <3>1. PICK d : chan' = [chan EXCEPT ![Root][p] = Append(@, d)]
      BY <1>4, <2>3
    <3>. QED
      BY <1>2, <1>8, <2>2, <3>1
  <2>4. CASE ReadControl(p)
    BY <1>3, <1>5, <1>8, <2>2, <2>4
  <2>. QED
    BY <2>1, <2>3, <2>4
<1>11. CASE \E k \in Node : \E p \in Peers(k) : WriteChunk(k, p) \/ ReadChunk(k, p)
  <2>1. PICK k \in Node : \E p \in Peers(k) : WriteChunk(k, p) \/ ReadChunk(k, p)
    BY <1>11
  <2>2. PICK p \in Peers(k) : WriteChunk(k, p) \/ ReadChunk(k, p)
    BY <2>1
  <2>3. p \in Node
    BY <1>8
  <2>4. CASE WriteChunk(k, p)
    <3>1. PICK d : chan' = [chan EXCEPT ![k][p] = Append(@, d)]
      BY <1>6, <2>4
    <3>. QED
      BY <1>2, <2>3, <3>1
  <2>5. CASE ReadChunk(k, p)
    BY <1>3, <1>7, <2>3, <2>5
  <2>. QED
    BY <2>2, <2>4, <2>5
<1>. QED
  BY <1>9, <1>10, <1>11

\* A root that has ended does not begin again.
LEMMA EndedStays ==
  ASSUME IInv, EndInv, [Next]_vars, faults' = 0, Ended
  PROVE  Ended'
<1> USE Constants
<1>1. ~ RootRaise /\ \A n \in Node : ~ Crash(n)
  BY NoFailures DEF IInv
<1>2. CASE RootStep
  <2>1. pc' = pc \/ Goto(Root, "finished")
    BY <1>2 DEF Ended, RootStep, RootBroadcast, RootBroadcastDone
  <2>2. Goto(Root, "finished") => pc'[Root] = "finished"
    BY GotoEffect DEF IInv
  <2>. QED
    BY <2>1, <2>2 DEF Ended
<1>3. ASSUME NEW w \in Worker, ReadControl(w) PROVE Ended'
  <2>1. w \in Node /\ w # Root
    BY DEF Worker
  <2>2. \E l : Goto(w, l)
    BY <1>3 DEF ReadControl, StartForward
  <2>. QED
    BY <2>1, <2>2, GotoEffect DEF Ended, IInv
<1>4. ASSUME NEW n \in Node, NodeStep(n) PROVE Ended'
  <2>1. \A p \in Peers(n) : ~ WriteError(n, p) /\ ~ ReadError(n, p)
    BY <1>4, NoErrors
  <2>2. pc[n] \in {"op", "send", "recv"} /\ (pc' = pc \/ \E l : Goto(n, l))
    BY <1>4, <2>1 DEF NodeStep, Compute, WriteDone, RowDone, NextRow, NextSegment, ForwardReturn, WriteChunk, ReadChunk
  <2>3. n # Root
    BY <2>2 DEF Ended
  <2>. QED
    BY <2>2, <2>3, GotoEffect DEF Ended, IInv
<1>5. ~ RootFinish /\ \A b \in 1 .. NBatches : ~ RootForward(b)
  BY DEF Ended, RootFinish, RootForward
<1>6. UNCHANGED vars \/ Terminated => Ended'
  BY DEF vars, Terminated, Ended
<1>. QED
  BY <1>1, <1>2, <1>3, <1>4, <1>5, <1>6 DEF Next

\* The calls announced stay as they are.
LEMMA CallsStay ==
  ASSUME TypeOK, [Next]_vars, NEW f \in 1 .. Len(calls)
  PROVE  calls'[f] = calls[f]
<1>1. calls' = calls \/ \E c : calls' = Append(calls, c)
  BY DEF vars, Next, RootForward, RootFinish, RootStep, RootBroadcast, RootBroadcastDone, ReadControl,
         NodeStep, Compute, WriteDone, RowDone, WriteChunk, ReadChunk, WriteError, ReadError, OnError,
         Crash, RootRaise, Terminated
<1>2. ASSUME NEW c, calls' = Append(calls, c) PROVE calls'[f] = calls[f]
  BY <1>2 DEF TypeOK
<1>. QED
  BY <1>1, <1>2

\* A step of the order: what a link carries is changed at one end.
LEMMA NextOrderInv ==
  ASSUME IInv, EndInv, OrderInv, [Next]_vars, faults' = 0, IInv', EndInv'
  PROVE  OrderInv'
<1> SUFFICES ASSUME ~ Ended', NEW m \in Node, NEW n \in Peers(m)
             PROVE  InOrder(chan'[m][n]) /\ RealRows(calls', chan'[m][n])
  BY DEF OrderInv
<1> USE Constants
<1> DEFINE q == chan[m][n]
<1> DEFINE u == chan'[m][n]
<1>1. n \in Node /\ ~ Ended
  BY EndedStays DEF Peers
<1>2. q \in Seq(Messages) /\ u \in Seq(Messages)
  BY <1>1 DEF IInv, TypeOK
<1>3. InOrder(q) /\ RealRows(calls, q) /\ Chained /\ Chained'
  BY <1>1, ChainedLinks, ChainedNext DEF OrderInv
<1>4. \A i \in 1 .. Len(q) : RealRow(calls', q[i])
  <2>1. \A i \in 1 .. Len(q) : q[i].ver.fwd \in 1 .. Len(calls) /\ RealRow(calls, q[i])
    BY <1>3 DEF Chained, RealRows
  <2>2. \A f \in 1 .. Len(calls) : calls'[f] = calls[f]
    BY CallsStay DEF IInv
  <2>. QED
    BY <2>1, <2>2 DEF RealRow
<1>5. \A i \in 1 .. Len(u) :
        /\ u[i] \in Messages /\ ~ IsStop(u[i]) /\ calls'[u[i].ver.fwd].batch \in Nat /\ calls'[u[i].ver.fwd].batch > 0
        /\ IF i = 1 THEN RealRow(calls', u[i]) ELSE Place(u[i]) = After(calls', m, n, u[i - 1])
  BY <1>3 DEF Chained
<1> HIDE DEF q, u
<1>6. CASE u = q
  BY <1>3, <1>4, <1>6 DEF RealRows, u, q
<1>7. CASE q # <<>> /\ u = Tail(q)
  <2>1. \A i \in 1 .. Len(u) : i + 1 \in 1 .. Len(q) /\ u[i] = q[i + 1]
    BY <1>2, <1>7
  <2>2. InOrder(u)
    BY <1>2, <1>3, <1>7, OrderQueue
  <2>. QED
    BY <1>4, <2>1, <2>2 DEF RealRows, u
<1>8. CASE \E d : u = Append(q, d)
  <2>1. PICK d : u = Append(q, d)
    BY <1>8
  <2> DEFINE l == Len(q)
  <2>2. /\ l \in Nat /\ l + 1 \in 1 .. Len(u) /\ u[l + 1] = d /\ \A k \in 1 .. l : u[k] = q[k] /\ q[k] \in Messages
        /\ \A k \in 1 .. Len(u) : k \in 1 .. l \/ k = l + 1
    BY <1>2, <2>1
  <2>3. /\ d \in Messages /\ calls'[d.ver.fwd].batch \in Nat /\ calls'[d.ver.fwd].batch > 0
        /\ l = 0 => RealRow(calls', d)
        /\ l > 0 => l \in 1 .. l /\ Place(d) = After(calls', m, n, q[l])
    <3>1. /\ d \in Messages /\ calls'[d.ver.fwd].batch \in Nat /\ calls'[d.ver.fwd].batch > 0
          /\ IF l + 1 = 1 THEN RealRow(calls', d) ELSE Place(d) = After(calls', m, n, u[(l + 1) - 1])
      BY <1>5, <2>2
    <3>2. (l + 1) - 1 = l /\ (l = 0 <=> l + 1 = 1) /\ (l > 0 => l \in 1 .. l)
      BY <2>2
    <3>3. l > 0 => u[l] = q[l]
      BY <2>2, <3>2
    <3>. QED
      BY <3>1, <3>2, <3>3
  <2>4. l > 0 => \/ Later(q[l].ver, d.ver)
                 \/ q[l].ver = d.ver /\ Index(d) = Index(q[l]) + 1
    BY <1>1, <2>2, <2>3, AfterIsNext
  <2>5. InOrder(u)
    BY <1>2, <1>3, <2>1, <2>3, <2>4, OrderQueue
  <2>6. l > 0 => RealRow(calls', d)
    <3> SUFFICES ASSUME l > 0 PROVE RealRow(calls', d)
      OBVIOUS
    <3> DEFINE e == q[l]
    <3>1. e \in Messages /\ RealRow(calls', e) /\ Place(d) = After(calls', m, n, e)
      BY <1>4, <2>2, <2>3
    <3> HIDE DEF e
    <3>2. e.row = 0 \/ (e.ver.step # 0 /\ e.row < calls'[e.ver.fwd].batch)
      BY <3>1 DEF RealRow, IsControl
    <3>4. e.ver.fwd \in Nat /\ e.ver.step \in 0 .. NSteps /\ e.row \in Nat /\ e.chunk \in Nat
      BY <3>1, MessageParts
    <3>5. e.ver.step \in 0 .. NSteps + 1 /\ e.chunk + 1 \in Nat
      BY <3>4
    <3>3. Place(d) = Due(calls', m, n, e.ver.fwd, e.ver.step, e.row, e.chunk + 1)
      BY <3>1 DEF After
    <3>. QED
      BY <1>1, <2>3, <3>2, <3>3, <3>4, <3>5, DueReal
  <2>7. RealRow(calls', d)
    BY <2>2, <2>3, <2>6
  <2>8. RealRows(calls', u)
    BY <1>4, <2>2, <2>7 DEF RealRows
  <2>. QED
    BY <2>5, <2>8 DEF u
<1>9. u = q \/ (q # <<>> /\ u = Tail(q)) \/ \E d : u = Append(q, d)
  BY <1>1, LinkStep DEF IInv, q, u
<1>. QED
  BY <1>6, <1>7, <1>8, <1>9

\* What the promise says of two nodes, in the terms of this module: who is past
\* an all-gather has found everybody there ...
LEMMA GatheredHere ==
  ASSUME Kept!Gathered, NEW m \in Node, NEW n \in Node, NEW f \in 1 .. Len(calls),
         NEW s \in 2 .. NSteps - 1, NEW r \in Nat, r < calls[f].batch, calls[f].batch \in Nat,
         Promise!Before([fwd |-> f, step |-> s, row |-> r], Position(m))
  PROVE  Has(Position(n), Done(n), [fwd |-> f, step |-> s, row |-> r])
<1> USE Constants
<1> DEFINE a == Kept!Round(f, s, r)
<1> DEFINE at == [k \in Node |-> Position(k)]
<1> DEFINE done == [k \in Node |-> pc[k] \in {"send", "recv"}]
<1>1. Kept!Node = Node /\ Kept!NSteps = NSteps /\ Kept!LastRow(f) = calls[f].batch - 1
  BY DEF Kept!Node, Kept!NSteps, Kept!LastRow, Node, NSteps
<1>2. a = [fwd |-> f, step |-> s, row |-> r]
  BY DEF Kept!Round
<1>3. \A b, c : Kept!Before(b, c) <=> Promise!Before(b, c)
  BY DEF Kept!Before, Promise!Before
<1>4. n \in Kept!Needs(m, s)
  BY <1>1 DEF Kept!Needs
<1>5. s \in 1 .. NSteps /\ r \in 0 .. calls[f].batch - 1
  OBVIOUS
<1>6. at[m] = Position(m) /\ at[n] = Position(n) /\ (done[n] <=> Done(n))
  BY DEF Done
<1> HIDE DEF a, at, done
<1>7. Kept!Before(a, at[m]) => \A p \in Kept!Needs(m, s) : Kept!Before(a, at[p]) \/ (at[p] = a /\ done[p])
  BY <1>1, <1>5 DEF Kept!Gathered, Kept!Reached, a, at, done
<1>8. Kept!Before(a, at[n]) \/ (at[n] = a /\ done[n])
  BY <1>2, <1>3, <1>4, <1>6, <1>7
<1>. QED
  BY <1>2, <1>3, <1>6, <1>8 DEF Has

\* ... and the root is in the lead, with the workers through with the forward
\* before.
LEMMA LeadsHere ==
  ASSUME Kept!RootLeads, NEW w \in Worker
  PROVE  /\ Position(w).fwd <= Position(Root).fwd
         /\ \A f \in 1 .. Len(calls) : f < Position(Root).fwd =>
              Has(Position(w), Done(w), [fwd |-> f, step |-> NSteps, row |-> calls[f].batch - 1])
<1> USE Constants
<1> DEFINE at == [k \in Node |-> Position(k)]
<1> DEFINE done == [k \in Node |-> pc[k] \in {"send", "recv"}]
<1>1. Kept!Worker = Worker /\ Kept!NSteps = NSteps /\ Kept!Root = Root
  BY DEF Kept!Worker, Kept!Node, Kept!Root, Kept!NSteps, Worker, Node, Root, NSteps
<1>2. \A b, c : Kept!Before(b, c) <=> Promise!Before(b, c)
  BY DEF Kept!Before, Promise!Before
<1>3. at[w] = Position(w) /\ at[Root] = Position(Root) /\ (done[w] <=> Done(w))
  BY DEF Done, Worker
<1> HIDE DEF at, done
<1>4. /\ at[w].fwd <= at[Root].fwd
      /\ \A f \in 1 .. Len(calls) : f < at[Root].fwd =>
           LET a == Kept!Round(f, NSteps, Kept!LastRow(f))
           IN  Kept!Before(a, at[w]) \/ (at[w] = a /\ done[w])
  BY <1>1 DEF Kept!RootLeads, Kept!Reached, at, done
<1>5. \A f : Kept!Round(f, NSteps, Kept!LastRow(f)) = [fwd |-> f, step |-> NSteps, row |-> calls[f].batch - 1]
  BY DEF Kept!Round, Kept!LastRow
<1>. QED
  BY <1>2, <1>3, <1>4, <1>5 DEF Has

\* The steps of a link are all that it carries.
LEMMA StepRange ==
  ASSUME IInv, EndInv, ~ Ended, NEW m \in Node, NEW n \in Peers(m), NEW i \in 1 .. Len(chan[m][n])
  PROVE  FirstStep(m) <= chan[m][n][i].ver.step /\ chan[m][n][i].ver.step <= LastStep(n)
<1> USE Constants
<1> DEFINE q == chan[m][n]
<1>1. n \in Node /\ m \in Peers(n) /\ q \in Seq(Messages)
  BY LinkTypes DEF IInv
<1>2. FirstStep(m) \in Nat /\ LastStep(n) \in Nat /\ FirstStep(m) <= LastStep(n)
  BY DEF FirstStep, LastStep
<1>3. Alive(n) /\ NoStops(q)
  BY <1>1, BeforeEnd
<1>4. Aligned(calls, m, n, q, DueIn(n, m))
  BY <1>1, <1>3 DEF IInv, StreamInv, LinkInv
<1>5. \A j \in 1 .. Len(q) : q[j].ver.step \in 0 .. NSteps
  <2>1. \A j \in 1 .. Len(q) : q[j] \in Messages
    BY <1>1
  <2>. QED
    BY <2>1, MessageParts
<1>6. i = 1 \/ (i - 1 \in 1 .. Len(q) /\ q[i - 1].ver.step \in Nat)
  BY <1>1, <1>5
<1> HIDE DEF q
<1>7. Place(q[i]) = IF i = 1 THEN DueIn(n, m) ELSE After(calls, m, n, q[i - 1])
  BY <1>3, <1>4 DEF NoStops, Aligned, q
<1>8. StepOf(n) \in Nat
  <2>1. step[n] \in Steps
    BY <1>1 DEF IInv, TypeOK
  <2>2. step[n] \in Nat /\ NSteps + 1 \in Nat
    BY <2>1 DEF Steps
  <2>. QED
    BY <2>2 DEF StepOf
<1>9. \E f, r, c : \E s \in Nat : Place(q[i]) = Due(calls, m, n, f, s, r, c)
  BY <1>6, <1>7, <1>8 DEF DueIn, After
<1>10. PICK f, r, c : \E s \in Nat : Place(q[i]) = Due(calls, m, n, f, s, r, c)
  BY <1>9
<1>11. PICK s \in Nat : Place(q[i]) = Due(calls, m, n, f, s, r, c)
  BY <1>10
<1>12. q[i].ver.step = Due(calls, m, n, f, s, r, c).step
  BY <1>11 DEF Place, At
<1>13. q[i].ver.step \in Nat /\ FirstStep(m) <= q[i].ver.step /\ q[i].ver.step <= LastStep(n)
  BY <1>2, <1>12 DEF Due, At
<1>. QED
  BY <1>13 DEF q

\* Rows and the numbers of chunks go together.
LEMMA RowByIndex ==
  ASSUME NEW d \in Messages, NEW e \in Messages
  PROVE  /\ Index(d) \in Nat /\ Index(d) < NBatches * Chunks
         /\ Index(d) <= Index(e) => d.row <= e.row
         /\ Index(d) + Chunks <= Index(e) => d.row < e.row
<1> USE Constants
<1>1. /\ d.row \in Nat /\ d.row < NBatches /\ d.chunk \in Nat /\ d.chunk < Chunks
      /\ e.row \in Nat /\ e.row < NBatches /\ e.chunk \in Nat /\ e.chunk < Chunks
  BY MessageParts
<1>2. /\ d.row * Chunks \in Nat /\ e.row * Chunks \in Nat /\ NBatches * Chunks \in Nat
      /\ d.row * Chunks + Chunks <= NBatches * Chunks
      /\ e.row < d.row => e.row * Chunks + Chunks <= d.row * Chunks
  BY <1>1, RowsOfChunks
<1>3. Index(d) = d.row * Chunks + d.chunk /\ Index(e) = e.row * Chunks + e.chunk
  BY DEF Index
<1> DEFINE D == d.row * Chunks
<1> DEFINE E == e.row * Chunks
<1> DEFINE B == NBatches * Chunks
<1>4. Index(d) \in Nat /\ Index(d) < B
  <2> HIDE DEF D, B
  <2>1. D \in Nat /\ B \in Nat /\ D + Chunks <= B /\ Index(d) = D + d.chunk
    BY <1>2, <1>3 DEF D, B
  <2>. QED
    BY <1>1, <2>1
<1>5. e.row < d.row => Index(e) < Index(d)
  <2>1. D \in Nat /\ E \in Nat /\ (e.row < d.row => E + Chunks <= D)
        /\ Index(d) = D + d.chunk /\ Index(e) = E + e.chunk
    BY <1>2, <1>3
  <2> HIDE DEF D, E
  <2>. QED
    BY <1>1, <2>1
<1>6. e.row = d.row => Index(e) < Index(d) + Chunks
  <2>1. D \in Nat /\ (e.row = d.row => E = D)
        /\ Index(d) = D + d.chunk /\ Index(e) = E + e.chunk
    BY <1>2, <1>3
  <2> HIDE DEF D, E
  <2>. QED
    BY <1>1, <2>1
<1>7. Index(e) \in Nat
  BY <1>1, <1>2, <1>3
<1>. QED
  BY <1>1, <1>4, <1>5, <1>6, <1>7

\* Rounds are in a linear order.
LEMMA BeforeIsTransitive ==
  ASSUME NEW a \in RoundSet, NEW b \in RoundSet, NEW c \in RoundSet,
         Promise!Before(a, b), Promise!Before(b, c) \/ b = c
  PROVE  Promise!Before(a, c)
<1>1. /\ a.fwd \in Nat /\ a.step \in Nat /\ a.row \in Nat
      /\ b.fwd \in Nat /\ b.step \in Nat /\ b.row \in Nat
      /\ c.fwd \in Nat /\ c.step \in Nat /\ c.row \in Nat
  BY Constants DEF RoundSet
<1>. QED
  BY <1>1, BeforeDef

\* A message and those behind it are of rounds in order, and Chunks further on
\* the round is another.
LEMMA Apart ==
  ASSUME NEW q \in Seq(Messages), InOrder(q), NEW j \in 1 .. Len(q), NEW i \in 1 .. j - 1
  PROVE  /\ ~ Promise!Before(RoundOf(q[j]), RoundOf(q[i]))
         /\ j - i >= Chunks => Promise!Before(RoundOf(q[i]), RoundOf(q[j]))
<1> USE Constants
<1> DEFINE d == q[i]
<1> DEFINE e == q[j]
<1>1. d \in Messages /\ e \in Messages /\ j - i \in Nat /\ j - i > 0
  OBVIOUS
<1>2. Later(d.ver, e.ver) \/ (d.ver = e.ver /\ Index(e) = Index(d) + (j - i))
  BY DEF InOrder
<1> HIDE DEF d, e
<1>3. /\ d.ver.fwd \in Nat /\ d.ver.step \in Nat /\ d.row \in Nat
      /\ e.ver.fwd \in Nat /\ e.ver.step \in Nat /\ e.row \in Nat
  <2>1. \A m \in Messages : m.ver.fwd \in Nat /\ m.ver.step \in 0 .. NSteps /\ m.row \in Nat
    BY MessageParts
  <2>. QED
    BY <1>1, <2>1
<1>4. /\ RoundOf(d).fwd = d.ver.fwd /\ RoundOf(d).step = d.ver.step /\ RoundOf(d).row = d.row
      /\ RoundOf(e).fwd = e.ver.fwd /\ RoundOf(e).step = e.ver.step /\ RoundOf(e).row = e.row
  BY DEF RoundOf
<1>5. CASE Later(d.ver, e.ver)
  BY <1>3, <1>4, <1>5, BeforeDef DEF Later, d, e
<1>6. CASE d.ver = e.ver /\ Index(e) = Index(d) + (j - i)
  <2>1. /\ Index(d) \in Nat
        /\ Index(d) <= Index(e) => d.row <= e.row
        /\ Index(d) + Chunks <= Index(e) => d.row < e.row
    BY <1>1, RowByIndex
  <2>2. d.row <= e.row /\ (j - i >= Chunks => d.row < e.row)
    BY <1>1, <1>6, <2>1
  <2>3. /\ ~ Promise!Before(RoundOf(e), RoundOf(d))
        /\ j - i >= Chunks => Promise!Before(RoundOf(d), RoundOf(e))
    BY <1>3, <1>4, <1>6, <2>2, BeforeDef
  <2>. QED
    BY <2>3 DEF d, e
<1>. QED
  BY <1>2, <1>5, <1>6

\* What is on a link is of no round its reader has left.
LEMMA NotBehind ==
  ASSUME IInv, EndInv, OrderInv, ~ Ended, NEW m \in Node, NEW n \in Peers(m), NEW i \in 1 .. Len(chan[m][n])
  PROVE  ~ Promise!Before(RoundOf(chan[m][n][i]), Position(n))
<1> USE Constants
<1> DEFINE q == chan[m][n]
<1>1. n \in Node /\ m \in Peers(n) /\ q \in Seq(Messages) /\ InOrder(q) /\ 1 \in 1 .. Len(q)
  BY LinkTypes DEF IInv, OrderInv
<1>2. Alive(n) /\ NoStops(q)
  BY <1>1, BeforeEnd
<1>3. Place(q[1]) = DueIn(n, m)
  BY <1>1, <1>2 DEF IInv, StreamInv, LinkInv, Aligned, NoStops
<1>4. q[1] \in Messages /\ q[i] \in Messages
  BY <1>1
<1>5. i = 1 \/ ~ Promise!Before(RoundOf(q[i]), RoundOf(q[1]))
  <2>1. i # 1 => 1 \in 1 .. i - 1
    OBVIOUS
  <2>. QED
    BY <1>1, <2>1, Apart
<1> HIDE DEF q
<1>6. /\ RoundOf(q[1]).fwd = DueIn(n, m).fwd /\ RoundOf(q[1]).step = DueIn(n, m).step
      /\ RoundOf(q[1]).row = DueIn(n, m).row
  BY <1>3 DEF RoundOf, Place, At
<1>7. /\ fwd[n] \in Nat /\ step[n] \in 1 .. NSteps /\ row[n] \in Nat
  BY <1>1 DEF IInv, TypeOK, Steps, Rows
<1>8. /\ RoundOf(q[1]) \in RoundSet /\ RoundOf(q[i]) \in RoundSet /\ Position(n) \in RoundSet
  <2>1. q \in Seq(Messages) /\ i \in 1 .. Len(q)
    BY <1>1 DEF q
  <2>. QED
    BY <1>1, <2>1, RoundOfType, PositionType DEF IInv
<1>9. ~ Promise!Before(RoundOf(q[1]), Position(n))
  <2>1. CASE pc[n] = "announce"
    <3>1. n = Root /\ m # Root
      BY <1>1, <2>1 DEF IInv, StreamInv, CallInv, Worker, Peers
    <3>2. DueIn(n, m) = Due(calls, m, n, fwd[n], 0, 0, 0)
      BY <2>1 DEF DueIn, StepOf, RowOf
    <3>3. DueIn(n, m) = At(fwd[n], 2, 0, 0)
      BY <1>1, <1>7, <3>1, <3>2, DueEnds DEF FirstStep
    <3>4. Position(n).fwd = fwd[n] /\ Position(n).step = 1
      BY <2>1 DEF Position, Busy, InForward
    <3>. QED
      BY <1>6, <1>7, <3>3, <3>4, BeforeDef DEF At
  <2>2. CASE pc[n] = "ctl"
    <3>1. DueIn(n, m) = Due(calls, m, n, fwd[n], NSteps + 1, 0, 0)
      BY <2>2 DEF DueIn, StepOf, RowOf
    <3>2. DueIn(n, m) = At(fwd[n] + 1, FirstStep(m), 0, 0)
      BY <1>1, <1>7, <3>1, DueEnds
    <3>3. Position(n).fwd = fwd[n]
      BY DEF Position
    <3>. QED
      BY <1>6, <1>7, <3>2, <3>3, BeforeDef DEF At
  <2>3. CASE pc[n] \in {"op", "send", "recv"}
    <3> DEFINE r == RowOf(n)
    <3> DEFINE c == IF pc[n] = "recv" THEN io[n][m] ELSE 0
    <3>1. DueIn(n, m) = Due(calls, m, n, fwd[n], step[n], r, c)
      BY <2>3 DEF DueIn, StepOf
    <3>2. Position(n).fwd = fwd[n] /\ Position(n).step = step[n] /\ Position(n).row = r
      BY <2>3 DEF Position, Busy, InForward, RowOf
    <3>3. r \in Nat
      BY <1>7 DEF RowOf
    <3> HIDE DEF r, c
    <3>4. FirstStep(m) \in Nat /\ LastStep(n) \in Nat
      BY DEF FirstStep, LastStep
    <3>5. \/ DueIn(n, m).fwd = fwd[n] + 1
          \/ DueIn(n, m).fwd = fwd[n] /\ DueIn(n, m).step > step[n]
          \/ DueIn(n, m).fwd = fwd[n] /\ DueIn(n, m).step = step[n] /\ DueIn(n, m).row \in {r, r + 1}
      BY <1>7, <3>1, <3>3, <3>4 DEF Due, At
    <3>6. RoundOf(q[1]).fwd \in Nat /\ RoundOf(q[1]).step \in Nat /\ RoundOf(q[1]).row \in Nat
      BY <1>8 DEF RoundSet
    <3>. QED
      BY <1>6, <1>7, <3>2, <3>3, <3>5, <3>6, BeforeDef
  <2>. QED
    BY <1>2, <2>1, <2>2, <2>3 DEF Alive, InForward
<1>10. ~ Promise!Before(RoundOf(q[i]), Position(n))
  BY <1>5, <1>8, <1>9, BeforeDef DEF RoundSet
<1>. QED
  BY <1>10 DEF q

\* There are never three rounds on a link the middle one of which is an
\* all-gather: its sender would be past it, and its reader not there.
LEMMA NoThree ==
  ASSUME IInv, EndInv, RoundInv, OrderInv, Kept!Gathered, ~ Ended, NEW m \in Node, NEW n \in Peers(m),
         NEW k \in 1 .. Len(chan[m][n]), NEW j \in 1 .. k - 1, NEW i \in 1 .. j - 1,
         j - i >= Chunks, k - j >= Chunks, ~ IsControl(chan[m][n][k])
  PROVE  chan[m][n][j].ver.step \notin 2 .. NSteps - 1
<1> SUFFICES ASSUME chan[m][n][j].ver.step \in 2 .. NSteps - 1
             PROVE  FALSE
  OBVIOUS
<1> USE Constants
<1> DEFINE q == chan[m][n]
<1>1. n \in Node /\ q \in Seq(Messages) /\ InOrder(q) /\ Chained
  BY LinkTypes, ChainedLinks DEF IInv, OrderInv
<1>2. j \in 1 .. Len(q) /\ i \in 1 .. Len(q) /\ k \in 1 .. Len(q)
  BY <1>1
<1>3. Promise!Before(RoundOf(q[i]), RoundOf(q[j])) /\ Promise!Before(RoundOf(q[j]), RoundOf(q[k]))
  BY <1>1, <1>2, Apart
<1>4. /\ RoundOf(q[i]) \in RoundSet /\ RoundOf(q[j]) \in RoundSet /\ RoundOf(q[k]) \in RoundSet
      /\ Position(m) \in RoundSet /\ Position(n) \in RoundSet
  BY <1>1, <1>2, RoundOfType, PositionType DEF IInv
<1>5. Has(Position(m), Done(m), RoundOf(q[k]))
  BY <1>1, <1>2 DEF RoundInv, AllProduced
<1>6. Promise!Before(RoundOf(q[j]), Position(m))
  BY <1>3, <1>4, <1>5, BeforeIsTransitive DEF Has
<1> DEFINE f == q[j].ver.fwd
<1> DEFINE s == q[j].ver.step
<1> DEFINE r == q[j].row
<1>7. RoundOf(q[j]) = [fwd |-> f, step |-> s, row |-> r]
  BY DEF RoundOf
<1>8. /\ f \in 1 .. Len(calls) /\ calls[f].batch \in Nat /\ RealRow(calls, q[j]) /\ q[j] \in Messages
  BY <1>1, <1>2 DEF Chained, OrderInv, RealRows
<1>9. r \in Nat
  BY <1>8, MessageParts
<1>10. s \in 2 .. NSteps - 1 /\ r < calls[f].batch
  BY <1>8 DEF RealRow, IsControl
<1> HIDE DEF f, s, r, q
<1>11. Has(Position(n), Done(n), RoundOf(q[j]))
  BY <1>1, <1>6, <1>7, <1>8, <1>9, <1>10, GatheredHere
<1>12. ~ Promise!Before(RoundOf(q[i]), Position(n))
  BY <1>2, NotBehind DEF q
<1>. QED
  BY <1>3, <1>4, <1>11, <1>12, BeforeIsTransitive DEF Has

\* Of one step no more than its rows are on a link.
LEMMA OneStep ==
  ASSUME NEW q \in Seq(Messages), InOrder(q), NEW j \in 1 .. Len(q), NEW i \in 1 .. j - 1,
         q[i].ver = q[j].ver
  PROVE  j - i < NBatches * Chunks
<1>1. q[i] \in Messages /\ q[j] \in Messages
  OBVIOUS
<1>2. q[i].ver.fwd \in Nat /\ q[i].ver.step \in 0 .. NSteps
  BY <1>1, MessageParts
<1>3. ~ Later(q[i].ver, q[j].ver)
  BY <1>2 DEF Later
<1>4. Index(q[j]) = Index(q[i]) + (j - i)
  BY <1>3 DEF InOrder
<1>5. Index(q[i]) \in Nat /\ Index(q[j]) \in Nat /\ Index(q[j]) < NBatches * Chunks
  BY <1>1, RowByIndex
<1>6. NBatches * Chunks \in Nat
  BY Constants, RowsOfChunks
<1>. QED
  BY <1>4, <1>5, <1>6

\* Between two workers: two slices.
LEMMA BetweenWorkers ==
  ASSUME IInv, EndInv, RoundInv, OrderInv, Kept!Gathered, ~ Ended, NEW m \in Worker, NEW n \in Worker, m # n
  PROVE  Len(chan[m][n]) <= 2 * Chunks
<1> SUFFICES ASSUME ~ (Len(chan[m][n]) <= 2 * Chunks) PROVE FALSE
  OBVIOUS
<1> USE Constants
<1> DEFINE q == chan[m][n]
<1> DEFINE j == Chunks + 1
<1> DEFINE k == 2 * Chunks + 1
<1>1. m \in Node /\ n \in Peers(m) /\ m # Root /\ n # Root /\ q \in Seq(Messages)
  BY DEF Worker, Peers, IInv, TypeOK
<1>2. /\ k \in 1 .. Len(q) /\ j \in 1 .. k - 1 /\ 1 \in 1 .. j - 1 /\ j \in 1 .. Len(q)
      /\ j - 1 >= Chunks /\ k - j >= Chunks
  <2>1. Len(q) \in Nat /\ ~ (Len(q) <= 2 * Chunks) /\ 2 * Chunks = Chunks + Chunks
    BY <1>1
  <2> HIDE DEF q
  <2>. QED
    BY <2>1
<1> HIDE DEF j, k, q
<1>3. 2 <= q[j].ver.step /\ q[j].ver.step <= NSteps - 1 /\ 2 <= q[k].ver.step
  BY <1>1, <1>2, StepRange DEF FirstStep, LastStep, q
<1>4. q[j].ver.step \in Nat /\ q[k].ver.step \in Nat
  <2>1. q[j] \in Messages /\ q[k] \in Messages
    BY <1>1, <1>2
  <2>2. q[j].ver.step \in 0 .. NSteps /\ q[k].ver.step \in 0 .. NSteps
    BY <2>1, MessageParts
  <2>. QED
    BY <2>2
<1>5. q[j].ver.step \in 2 .. NSteps - 1 /\ ~ IsControl(q[k])
  BY <1>3, <1>4 DEF IsControl
<1>. QED
  BY <1>1, <1>2, <1>5, NoThree DEF q

\* From a worker to the root: the rows of the logits besides one slice.
LEMMA ToRoot ==
  ASSUME IInv, EndInv, RoundInv, OrderInv, Kept!Gathered, Kept!RootLeads, ~ Ended, NEW w \in Worker
  PROVE  Len(chan[w][Root]) <= (NBatches + 1) * Chunks
<1> SUFFICES ASSUME ~ (Len(chan[w][Root]) <= (NBatches + 1) * Chunks) PROVE FALSE
  OBVIOUS
<1> USE Constants
<1> DEFINE q == chan[w][Root]
<1> DEFINE B == NBatches * Chunks
<1> DEFINE j == Chunks + 1
<1> DEFINE k == B + Chunks + 1
<1>1. w \in Node /\ Root \in Peers(w) /\ w # Root /\ q \in Seq(Messages) /\ InOrder(q)
  <2>1. w \in Node /\ Root \in Peers(w) /\ w # Root
    BY DEF Worker, Peers
  <2>. QED
    BY <2>1, LinkTypes DEF IInv, OrderInv
<1>2. B \in Nat /\ (NBatches + 1) * Chunks = B + Chunks /\ Chunks <= B
  <2>1. 0 * Chunks + Chunks <= NBatches * Chunks
    BY RowsOfChunks
  <2>. QED
    BY <2>1, RowsOfChunks
<1> HIDE DEF B
<1>3. /\ k \in 1 .. Len(q) /\ j \in 1 .. k - 1 /\ 1 \in 1 .. j - 1 /\ j \in 1 .. Len(q)
      /\ j - 1 >= Chunks /\ k - j >= B /\ k - j >= Chunks
  BY <1>1, <1>2
<1> HIDE DEF j, k, q
<1>4. /\ 2 <= q[j].ver.step /\ 2 <= q[k].ver.step
  BY <1>1, <1>3, StepRange DEF FirstStep, q
<1>5. /\ q[j].ver.step \in 0 .. NSteps /\ q[k].ver.step \in 0 .. NSteps
      /\ q[j].ver.fwd \in Nat /\ q[k].ver.fwd \in Nat
  <2>1. q[j] \in Messages /\ q[k] \in Messages
    BY <1>1, <1>3
  <2>. QED
    BY <2>1, MessageParts
<1>6. ~ IsControl(q[k])
  BY <1>4, <1>5 DEF IsControl
<1>7. q[j].ver.step = NSteps
  <2>1. q[j].ver.step \notin 2 .. NSteps - 1
    BY <1>1, <1>3, <1>6, NoThree DEF q
  <2>. QED
    BY <1>4, <1>5, <2>1
\* The chunk at k is not of that step any more, and so of the next forward.
<1>8. q[j].ver # q[k].ver
  <2>1. q[j].ver = q[k].ver => k - j < B
    BY <1>1, <1>3, OneStep DEF B
  <2>2. k - j \in Nat
    BY <1>3
  <2>. QED
    BY <1>2, <1>3, <2>1, <2>2
<1>9. q[j].ver.fwd < q[k].ver.fwd
  <2>1. Later(q[j].ver, q[k].ver)
    BY <1>1, <1>3, <1>8 DEF InOrder
  <2>. QED
    BY <1>5, <1>7, <2>1 DEF Later
<1>10. q[k].ver.fwd <= Position(w).fwd
  <2>1. Has(Position(w), Done(w), RoundOf(q[k]))
    BY <1>1, <1>3, <1>6 DEF RoundInv, AllProduced, q
  <2>2. RoundOf(q[k]).fwd = q[k].ver.fwd
    BY DEF RoundOf
  <2>3. Position(w).fwd \in Nat
    BY <1>1, PositionType DEF IInv, RoundSet
  <2>. QED
    BY <1>5, <2>1, <2>2, <2>3, BeforeDef DEF Has
<1>11. Position(w).fwd <= Position(Root).fwd
  BY LeadsHere
<1>12. Position(w).fwd \in Nat /\ Position(Root).fwd \in Nat
  BY <1>1, PositionType DEF IInv, RoundSet
<1>13. RoundOf(q[j]).fwd < Position(Root).fwd
  <2>1. RoundOf(q[j]).fwd = q[j].ver.fwd
    BY DEF RoundOf
  <2>. QED
    BY <1>5, <1>9, <1>10, <1>11, <1>12, <2>1
<1>14. ~ Promise!Before(RoundOf(q[j]), Position(Root))
  BY <1>1, <1>3, NotBehind DEF q
<1>. QED
  BY <1>13, <1>14, BeforeDef

\* All that is on its way from the root is of its last forward, since every
\* worker was through with the one before when it was announced.
LEMMA FromRootIsCurrent ==
  ASSUME IInv, EndInv, OrderInv, Kept!RootLeads, ~ Ended, NEW w \in Worker, NEW i \in 1 .. Len(chan[Root][w])
  PROVE  chan[Root][w][i].ver.fwd = fwd[Root]
<1> USE Constants
<1> DEFINE d == chan[Root][w][i]
<1>1. w \in Node /\ w \in Peers(Root) /\ w # Root
  BY DEF Worker, Peers
<1>2. Chained /\ fwd[Root] = Len(calls) /\ Len(calls) \in Nat
  <2>1. Chained
    BY ChainedLinks
  <2>2. fwd[Root] = Len(calls)
    BY DEF IInv, StreamInv, CallInv
  <2>3. Len(calls) \in Nat
    BY DEF IInv, TypeOK
  <2>. QED
    BY <2>1, <2>2, <2>3
<1>3. d \in Messages /\ d.ver.fwd \in 1 .. Len(calls)
  BY <1>1, <1>2 DEF Chained
<1>4. d.ver.step <= NSteps - 1
  BY <1>1, StepRange DEF LastStep
<1>5. ~ Promise!Before(RoundOf(d), Position(w))
  BY <1>1, NotBehind
<1> HIDE DEF d
<1>6. d.ver.step \in 0 .. NSteps
  BY <1>3, MessageParts
<1>7. ASSUME d.ver.fwd < fwd[Root] PROVE FALSE
  <2> DEFINE a == [fwd |-> d.ver.fwd, step |-> NSteps, row |-> calls[d.ver.fwd].batch - 1]
  <2>1. Position(Root).fwd = fwd[Root]
    BY DEF Position
  <2>2. Has(Position(w), Done(w), a)
    BY <1>3, <1>7, <2>1, LeadsHere
  <2>3. RoundOf(d).fwd = d.ver.fwd /\ RoundOf(d).step = d.ver.step /\ a.fwd = d.ver.fwd /\ a.step = NSteps
    BY DEF RoundOf
  <2> HIDE DEF a
  <2>4. Position(w).fwd \in Nat /\ Position(w).step \in Nat
    BY <1>1, PositionType DEF IInv, RoundSet
  <2>5. CASE Position(w) = a
    BY <1>3, <1>4, <1>5, <1>6, <2>3, <2>5, BeforeDef
  <2>6. CASE Promise!Before(a, Position(w))
    <3>1. d.ver.fwd < Position(w).fwd \/ (d.ver.fwd = Position(w).fwd /\ NSteps <= Position(w).step)
      BY <2>3, <2>4, <2>6, BeforeDef
    <3>. QED
      BY <1>3, <1>4, <1>5, <1>6, <2>3, <2>4, <3>1, BeforeDef
  <2>. QED
    BY <2>2, <2>5, <2>6 DEF Has
<1>8. d.ver.fwd = fwd[Root]
  BY <1>2, <1>3, <1>7
<1>. QED
  BY <1>8 DEF d

\* From the root to a worker: a control packet, the rows of X, and one slice.
LEMMA FromRoot ==
  ASSUME IInv, EndInv, RoundInv, OrderInv, Kept!Gathered, Kept!RootLeads, ~ Ended, NEW w \in Worker
  PROVE  Len(chan[Root][w]) <= 1 + (NBatches + 1) * Chunks
<1> SUFFICES ASSUME ~ (Len(chan[Root][w]) <= 1 + (NBatches + 1) * Chunks) PROVE FALSE
  OBVIOUS
<1> USE Constants
<1> DEFINE q == chan[Root][w]
<1> DEFINE B == NBatches * Chunks
<1> DEFINE j == B + 2
<1> DEFINE k == B + Chunks + 2
<1>1. w \in Node /\ w \in Peers(Root) /\ w # Root
  BY DEF Worker, Peers
<1>2. q \in Seq(Messages) /\ InOrder(q) /\ RealRows(calls, q)
  BY <1>1, LinkTypes DEF IInv, OrderInv
<1>3. B \in Nat /\ (NBatches + 1) * Chunks = B + Chunks /\ Chunks <= B
  <2>1. 0 * Chunks + Chunks <= NBatches * Chunks
    BY RowsOfChunks
  <2>. QED
    BY <2>1, RowsOfChunks
<1> HIDE DEF B
<1>4. /\ k \in 1 .. Len(q) /\ j \in 1 .. k - 1 /\ 1 \in 1 .. j - 1 /\ 2 \in 1 .. j - 1
      /\ j \in 1 .. Len(q) /\ 2 \in 1 .. Len(q) /\ j - 1 >= Chunks /\ k - j >= Chunks /\ j - 2 = B
  BY <1>2, <1>3
<1> HIDE DEF j, k, q
<1>5. \A i \in 1 .. Len(q) : /\ q[i] \in Messages /\ q[i].ver.fwd = fwd[Root] /\ fwd[Root] \in Nat
                            /\ q[i].ver.step \in 0 .. NSteps /\ q[i].ver.step <= NSteps - 1
                            /\ q[i].ver = [fwd |-> q[i].ver.fwd, step |-> q[i].ver.step]
  <2> SUFFICES ASSUME NEW i \in 1 .. Len(q)
               PROVE  /\ q[i] \in Messages /\ q[i].ver.fwd = fwd[Root] /\ fwd[Root] \in Nat
                      /\ q[i].ver.step \in 0 .. NSteps /\ q[i].ver.step <= NSteps - 1
                      /\ q[i].ver = [fwd |-> q[i].ver.fwd, step |-> q[i].ver.step]
    OBVIOUS
  <2>1. q[i].ver.step <= NSteps - 1
    BY <1>1, StepRange DEF LastStep, q
  <2>2. q[i].ver.fwd = fwd[Root]
    BY FromRootIsCurrent DEF q
  <2>3. q[i] \in Messages
    BY <1>2
  <2>. QED
    BY <2>1, <2>2, <2>3, MessageParts DEF IInv, TypeOK
\* A control packet can only be the first message.
<1>6. ASSUME NEW i \in 1 .. Len(q), i > 1 PROVE ~ IsControl(q[i])
  <2> SUFFICES ASSUME IsControl(q[i]) PROVE FALSE
    OBVIOUS
  <2>1. 1 \in 1 .. i - 1 /\ 1 \in 1 .. Len(q)
    BY <1>2, <1>6
  <2>2. q[i].ver.step = 0
    BY DEF IsControl
  <2>3. ~ Later(q[1].ver, q[i].ver)
    <3>1. q[1].ver.fwd = q[i].ver.fwd /\ q[i].ver.fwd \in Nat /\ q[1].ver.step \in 0 .. NSteps
      BY <1>5, <2>1
    <3>. QED
      BY <2>2, <3>1 DEF Later
  <2>4. q[1].ver = q[i].ver /\ Index(q[i]) = Index(q[1]) + (i - 1)
    BY <1>2, <2>1, <2>3 DEF InOrder
  <2>5. IsControl(q[1])
    BY <2>2, <2>4 DEF IsControl
  <2>6. Index(q[1]) = 0 /\ Index(q[i]) = 0
    <3>1. q[1].row = 0 /\ q[1].chunk = 0 /\ q[i].row = 0 /\ q[i].chunk = 0
      BY <1>2, <2>1, <2>5 DEF RealRows, RealRow
    <3>2. 0 * Chunks = 0
      OBVIOUS
    <3>. QED
      BY <3>1, <3>2 DEF Index
  <2>. QED
    BY <1>6, <2>4, <2>6
<1>7. ~ IsControl(q[k]) /\ ~ IsControl(q[j]) /\ ~ IsControl(q[2])
  BY <1>3, <1>4, <1>6 DEF j, k
<1>8. q[j].ver.step = 1
  <2>1. q[j].ver.step \notin 2 .. NSteps - 1
    BY <1>1, <1>4, <1>7, NoThree DEF q
  <2>2. q[j].ver.step \in 0 .. NSteps /\ q[j].ver.step <= NSteps - 1
    BY <1>4, <1>5
  <2>3. q[j].ver.step # 0
    BY <1>7 DEF IsControl
  <2>. QED
    BY <2>1, <2>2, <2>3
<1>9. q[2].ver = q[j].ver
  <2>1. q[2].ver.step # 0
    BY <1>7 DEF IsControl
  <2>2. ~ Later(q[2].ver, q[j].ver)
    <3>1. q[2].ver.fwd = q[j].ver.fwd /\ q[j].ver.fwd \in Nat /\ q[2].ver.step \in 0 .. NSteps
      BY <1>4, <1>5
    <3>. QED
      BY <1>8, <2>1, <3>1 DEF Later
  <2>. QED
    BY <1>2, <1>4, <2>2 DEF InOrder
<1>10. j - 2 < B
  BY <1>2, <1>4, <1>9, OneStep DEF B
<1>. QED
  BY <1>3, <1>4, <1>10

\* When the root has ended at most its stop packets are on their way.
LEMMA AtTheEnd ==
  ASSUME IInv, EndInv, NEW m \in Node, NEW n \in Node, Ended \/ m = n
  PROVE  Len(chan[m][n]) <= 1
<1>1. Len(chan[m][n]) = 0 \/ Len(chan[m][n]) = 1
  <2>1. CASE m = n
    BY <2>1 DEF EndInv
  <2>2. CASE m # n
    BY <2>2 DEF EndInv, Closing, Worker
  <2>. QED
    BY <2>1, <2>2
<1>2. \A k : k = 0 \/ k = 1 => k <= 1
  OBVIOUS
<1>. QED
  BY <1>1, <1>2

\* The bound of each kind of link, from the lemmas above.
LEMMA IInvDemand ==
  ASSUME IInv, EndInv, RoundInv, OrderInv, Kept!Gathered, Kept!RootLeads
  PROVE  BufferDemand
<1> SUFFICES ASSUME NEW m \in Node, NEW n \in Node
             PROVE  Len(chan[m][n]) <= CASE m = Root -> 1 + (NBatches + 1) * Chunks
                                         [] n = Root -> (NBatches + 1) * Chunks
                                         [] OTHER    -> 2 * Chunks
  BY DEF BufferDemand
<1> USE Constants
<1> DEFINE B == (NBatches + 1) * Chunks
<1>1. B \in Nat /\ 1 <= B
  BY RowsOfChunks
<1>2. 1 <= 2 * Chunks
  OBVIOUS
<1>3. Len(chan[m][n]) \in Nat
  BY DEF IInv, TypeOK
<1>4. CASE Ended \/ m = n
  <2>1. Len(chan[m][n]) <= 1
    BY <1>4, AtTheEnd
  <2> HIDE DEF B
  <2>2. /\ Len(chan[m][n]) <= 1 + B /\ Len(chan[m][n]) <= B /\ Len(chan[m][n]) <= 2 * Chunks
    BY <1>1, <1>2, <1>3, <2>1
  <2>. QED
    BY <2>2 DEF B
<1>5. CASE ~ Ended /\ m # n
  <2>1. CASE m = Root
    <3>1. n \in Worker /\ n # Root
      BY <1>5, <2>1 DEF Worker
    <3>. QED
      BY <1>5, <2>1, <3>1, FromRoot
  <2>2. CASE m # Root /\ n = Root
    <3>1. m \in Worker
      BY <2>2 DEF Worker
    <3>. QED
      BY <1>5, <2>2, <3>1, ToRoot
  <2>3. CASE m # Root /\ n # Root
    <3>1. m \in Worker /\ n \in Worker
      BY <2>3 DEF Worker
    <3>. QED
      BY <1>5, <2>3, <3>1, BetweenWorkers
  <2>. QED
    BY <2>1, <2>2, <2>3
<1>. QED
  BY <1>4, <1>5

-----------------------------------------------------------------------------
(* What holds of a run as long as nobody fails.                            *)

NoFaultInv == EndInv /\ RoundInv /\ OrderInv /\ Kept!IInv

\* Init has nothing on its way.
LEMMA InitNoFaultInv == Init => NoFaultInv
<1>1. Init => OrderInv
  BY DEF Init, OrderInv, InOrder, RealRows, Peers
<1>. QED
  BY <1>1, InitEndInv, AbsInit, PromiseKept DEF NoFaultInv

\* A step of the invariant, as long as there is no fault.
LEMMA NextNoFaultInv ==
  ASSUME IInv, NoFaultInv, [Next]_vars, faults' = 0
  PROVE  NoFaultInv'
<1>1. IInv' /\ EndInv'
  BY NextIInv, NextEndInv DEF NoFaultInv
<1>2. RoundInv' /\ [Promise!Next]_(Promise!vars)
  BY AbsNext DEF PromisedStep, NoFaultInv
<1>3. OrderInv'
  BY <1>1, NextOrderInv DEF NoFaultInv
<1>4. Kept!IInv'
  BY <1>2, PromiseKept DEF NoFaultInv
<1>. QED
  BY <1>1, <1>2, <1>3, <1>4 DEF NoFaultInv

\* The inductive invariant of runs without faults.
LEMMA NoFaultInductive ==
  OneThreadOrOneWorker /\ Spec => [](IInv /\ (faults = 0 => NoFaultInv))
<1>1. OneThreadOrOneWorker /\ Init => IInv /\ NoFaultInv
  BY ThreadZeroServesAll, InitIInv, InitNoFaultInv
<1>2. IInv /\ (faults = 0 => NoFaultInv) /\ [Next]_vars => IInv' /\ (faults = 0 => NoFaultInv)'
  BY NextIInv, NextNoFaultInv, FaultsStay DEF IInv
<1>. QED
  BY <1>1, <1>2, PTL DEF Spec

\* In a run in which nobody has failed a node past a sync has what it needed of
\* it, no node is more than one all-gather ahead of another, and the root
\* broadcasts a control packet only when every worker has run all the ops of the
\* forward before: what sync() is for, though no barrier and no message says so.
THEOREM OrderInRuns ==
  OneThreadOrOneWorker /\ Spec =>
    [](faults = 0 => Kept!Gathered /\ Kept!Lockstep /\ Kept!RootLeads)
<1>1. IInv /\ (faults = 0 => NoFaultInv) =>
        (faults = 0 => Kept!Gathered /\ Kept!Lockstep /\ Kept!RootLeads)
  BY PromiseKept DEF NoFaultInv
<1>. QED
  BY <1>1, NoFaultInductive, PTL

\* The buffering that write_many counts on, before the first fault, is bounded
\* whatever the number of layers and forwards: a link between workers never holds
\* more than two slices, one with the root no more than the rows of a broadcast
\* or of the logits and one slice besides, and from the root a control packet.
THEOREM BufferBound == OneThreadOrOneWorker /\ Spec => []BufferDemand
<1>1. IInv /\ (faults = 0 => NoFaultInv) => BufferDemand
  <2>1. CASE faults = 0
    BY <2>1, IInvDemand, PromiseKept DEF NoFaultInv
  <2>2. CASE faults # 0
    BY <2>2 DEF BufferDemand
  <2>. QED
    BY <2>1, <2>2
<1>. QED
  BY <1>1, NoFaultInductive, PTL

=============================================================================
