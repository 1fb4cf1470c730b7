--------------------------- MODULE HandshakeProofs ---------------------------
(***************************************************************************)
(* Proofs about Handshake, for any number of workers and of crashes.       *)
(***************************************************************************)
EXTENDS Handshake, FiniteSetTheorems, FunctionTheorems, SequenceTheorems, TLAPS

-----------------------------------------------------------------------------
(* The inductive invariant.                                                *)

\* Every worker has accepted its first connection.
AllAccepted == \A w \in Worker : sockets[w] # <<>>

\* What the root has to do with how far the workers are.
RootInv ==
  /\ pc[Root] \in {"connect", "ack", "signal"} \cup Gone
  /\ pc[Root] \in {"connect", "ack"} =>
       /\ Len(sockets[Root]) = turn - 1
       /\ \A w \in 1 .. turn - 1 : sockets[w] # <<>>
       /\ \A w \in turn + 1 .. NWorkers : sockets[w] = <<>> /\ backlog[w] = <<>>
  /\ pc[Root] = "connect" => sockets[turn] = <<>> /\ backlog[turn] = <<>>
  /\ pc[Root] \in {"signal", "done"} => AllAccepted /\ Len(sockets[Root]) = NWorkers
  /\ \A i \in 1 .. Len(sockets[Root]) : sockets[Root][i] = i

\* Nobody dials before all workers have accepted the root; whom a worker has
\* to read from.
WorkerInv ==
  \A w \in Worker :
    /\ pc[w] \in {"down", "accept"} => sockets[w] = <<>>
    /\ pc[w] \in {"topology", "ready", "mesh", "done"} => sockets[w] # <<>>
    /\ pc[w] \notin {"connect", "ack", "signal"}
    /\ pc[w] = "mesh" => AllAccepted
    /\ pc[w] = "done" => Len(sockets[w]) = NWorkers
    /\ wire[w][Root] # <<>> => sockets[w] # <<>>
    /\ \A i \in 1 .. Len(wire[Root][w]) : wire[Root][w][i] = ACK => AllAccepted
    /\ sockets[w] = <<>> => backlog[w] \in {<<>>, <<Root>>}
    /\ sockets[w] # <<>> => sockets[w][1] = Root

\* A node below w has dialled w once it has w sockets (the root always has).
HasDialled(m, w) == m = Root \/ Len(sockets[m]) >= w

\* The first w sockets of worker w and its backlog hold different nodes below
\* w, each of which has dialled w; the sockets behind lead to the nodes above.
MeshInv ==
  \A w \in Worker :
    /\ \A i \in 1 .. Len(sockets[w]) :
         IF i <= w THEN sockets[w][i] \in 0 .. w - 1 /\ HasDialled(sockets[w][i], w)
                   ELSE sockets[w][i] = i
    /\ \A i \in 1 .. Len(backlog[w]) :
         backlog[w][i] \in 0 .. w - 1 /\ HasDialled(backlog[w][i], w)
    /\ \A i, j \in 1 .. Len(sockets[w]) :
         i <= w /\ j <= w /\ sockets[w][i] = sockets[w][j] => i = j
    /\ \A i, j \in 1 .. Len(backlog[w]) : backlog[w][i] = backlog[w][j] => i = j
    /\ \A i \in 1 .. Len(sockets[w]), j \in 1 .. Len(backlog[w]) :
         i <= w => sockets[w][i] # backlog[w][j]

IInv == TypeOK /\ RootInv /\ WorkerInv /\ MeshInv

-----------------------------------------------------------------------------
(* Types.                                                                  *)

\* What the assumption on the constants gives.
LEMMA Constants ==
  /\ NWorkers \in Nat /\ NWorkers >= 1
  /\ Node = 0 .. NWorkers /\ Worker = 1 .. NWorkers
  /\ Root = 0 /\ Root \in Node /\ Root \notin Worker
  BY HandshakeAssumption DEF NWorkers, Node, Worker, Root

\* The processes start in a state that satisfies the invariant.
LEMMA InitIInv == Init => IInv
<1> SUFFICES ASSUME Init PROVE IInv
  OBVIOUS
<1> USE Constants
<1>1. TypeOK
  BY DEF Init, TypeOK, Gone
<1>2. RootInv
  BY DEF Init, RootInv
<1>3. WorkerInv
  BY DEF Init, WorkerInv
<1>4. MeshInv
  BY DEF Init, MeshInv
<1>. QED
  BY <1>1, <1>2, <1>3, <1>4 DEF IInv

Labels == {"connect", "ack", "signal", "down", "accept", "topology", "ready", "mesh"} \cup Gone

\* The types of the variables, and how the parts of the actions keep them.
LEMMA PcType ==
  ASSUME TypeOK, NEW n \in Node, NEW l \in Labels, Goto(n, l)
  PROVE  pc' \in [Node -> Labels]
  BY DEF TypeOK, Goto, Labels

\* A node registers a connection while it has less than all of them.
LEMMA SocketsType ==
  ASSUME TypeOK, NEW n \in Node, NEW e \in Node, Len(sockets[n]) < NWorkers,
         sockets' = [sockets EXCEPT ![n] = Append(@, e)]
  PROVE  /\ sockets' \in [Node -> Seq(Node)]
         /\ \A m \in Node : Len(sockets'[m]) <= NWorkers
<1>1. sockets[n] \in Seq(Node)
  BY DEF TypeOK
<1>2. Append(sockets[n], e) \in Seq(Node) /\ Len(Append(sockets[n], e)) = Len(sockets[n]) + 1
  BY <1>1
<1>3. Len(Append(sockets[n], e)) <= NWorkers
  BY <1>1, <1>2, Constants
<1>. QED
  BY <1>2, <1>3 DEF TypeOK

\* A connection enters a worker's backlog, or is accepted.
LEMMA BacklogType ==
  ASSUME TypeOK, NEW w \in Worker
  PROVE  /\ \A m \in Node : [backlog EXCEPT ![w] = Append(@, m)] \in [Worker -> Seq(Node)]
         /\ backlog[w] # <<>> =>
              /\ Head(backlog[w]) \in Node
              /\ [backlog EXCEPT ![w] = Tail(@)] \in [Worker -> Seq(Node)]
<1>1. backlog[w] \in Seq(Node)
  BY DEF TypeOK
<1>2. \A m \in Node : Append(backlog[w], m) \in Seq(Node)
  BY <1>1
<1>3. backlog[w] # <<>> => Head(backlog[w]) \in Node /\ Tail(backlog[w]) \in Seq(Node)
  BY <1>1
<1>. QED
  BY <1>2, <1>3 DEF TypeOK

\* A message enters a connection, or is read.
LEMMA WireType ==
  ASSUME NEW c \in [Node -> [Node -> Seq({Topology, ACK})]], NEW m \in Node, NEW n \in Node
  PROVE  /\ \A d \in {Topology, ACK} :
              [c EXCEPT ![m][n] = Append(@, d)] \in [Node -> [Node -> Seq({Topology, ACK})]]
         /\ c[m][n] # <<>> =>
              [c EXCEPT ![m][n] = Tail(@)] \in [Node -> [Node -> Seq({Topology, ACK})]]
<1>1. c[m][n] \in Seq({Topology, ACK})
  OBVIOUS
<1>2. \A d \in {Topology, ACK} : Append(c[m][n], d) \in Seq({Topology, ACK})
  BY <1>1
<1>3. c[m][n] # <<>> => Tail(c[m][n]) \in Seq({Topology, ACK})
  BY <1>1
<1>. QED
  BY <1>2, <1>3

\* Every action keeps the types.
LEMMA NextTypeOK == IInv /\ [Next]_vars => TypeOK'
<1> SUFFICES ASSUME TypeOK, RootInv, WorkerInv, [Next]_vars PROVE TypeOK'
  BY DEF IInv
<1> USE Constants
<1> DEFINE PcOK == pc' \in [Node -> Labels]
           SocketsOK == sockets' \in [Node -> Seq(Node)] /\ \A n \in Node : Len(sockets'[n]) <= NWorkers
           BacklogOK == backlog' \in [Worker -> Seq(Node)]
           WireOK == wire' \in [Node -> [Node -> Seq({Topology, ACK})]]
<1>0. SUFFICES PcOK /\ SocketsOK /\ BacklogOK /\ WireOK /\ turn' \in Worker /\ faults' \in Nat
  BY DEF TypeOK, Labels
<1>u. /\ UNCHANGED pc => PcOK
      /\ UNCHANGED sockets => SocketsOK
      /\ UNCHANGED backlog => BacklogOK
      /\ UNCHANGED wire => WireOK
      /\ UNCHANGED turn => turn' \in Worker
      /\ UNCHANGED faults => faults' \in Nat
  BY DEF TypeOK, Labels
<1>p. ASSUME NEW n \in Node, NEW l \in Labels, Goto(n, l) PROVE PcOK
  BY <1>p, PcType
<1>l. {"connect", "ack", "signal", "accept", "topology", "ready", "mesh", "dead", "done"} \subseteq Labels
  BY DEF Labels, Gone
<1>w. /\ turn \in Worker /\ wire \in [Node -> [Node -> Seq({Topology, ACK})]]
      /\ faults \in Nat /\ Worker \subseteq Node /\ turn \in Node
  <2>1. turn \in Worker /\ wire \in [Node -> [Node -> Seq({Topology, ACK})]] /\ faults \in Nat
    BY DEF TypeOK
  <2>2. Worker \subseteq Node
    BY DEF Worker
  <2>. QED
    BY <2>1, <2>2
<1> HIDE DEF PcOK, SocketsOK, BacklogOK, WireOK
<1>1. CASE RootConnect
  <2>1. BacklogOK
    BY <1>1, <1>w, BacklogType DEF RootConnect, BacklogOK
  <2>2. WireOK
    BY <1>1, <1>w, WireType DEF RootConnect, WireOK, Put
  <2>. QED
    BY <1>1, <2>1, <2>2, <1>u, <1>p, <1>l DEF RootConnect
<1>2. CASE RootRefused
  BY <1>2, <1>u, <1>p, <1>l DEF RootRefused
<1>3. CASE RootReadAck
  <2>1. Len(sockets[Root]) < NWorkers
    BY <1>3, <1>w DEF RootReadAck, RootInv
  <2>2. SocketsOK
    BY <1>3, <2>1, <1>w, SocketsType DEF RootReadAck, SocketsOK
  <2>3. turn' \in Worker /\ PcOK
    <3>1. CASE turn < NWorkers /\ turn' = turn + 1 /\ Goto(Root, "connect")
      BY <3>1, <1>w, <1>p, <1>l
    <3>2. CASE turn = NWorkers /\ turn' = 1 /\ Goto(Root, "signal")
      BY <3>2, <1>w, <1>p, <1>l
    <3>. QED
      BY <1>3, <3>1, <3>2 DEF RootReadAck, NextTurn
  <2>4. WireOK
    BY <1>3, <1>w, WireType DEF RootReadAck, WireOK, Take
  <2>. QED
    BY <1>3, <2>2, <2>3, <2>4, <1>u DEF RootReadAck
<1>4. CASE RootSignal
  <2>1. WireOK
    BY <1>4, <1>w, WireType DEF RootSignal, WireOK, Put
  <2>2. turn' \in Worker /\ PcOK
    <3>1. CASE turn < NWorkers /\ turn' = turn + 1 /\ UNCHANGED pc
      BY <3>1, <1>w, <1>u
    <3>2. CASE turn = NWorkers /\ turn' = turn /\ Goto(Root, "done")
      BY <3>2, <1>w, <1>p, <1>l
    <3>. QED
      BY <1>4, <3>1, <3>2 DEF RootSignal
  <2>. QED
    BY <1>4, <2>1, <2>2, <1>u DEF RootSignal
<1>5. ASSUME NEW w \in Worker, Serve(w)
      PROVE  PcOK /\ SocketsOK /\ BacklogOK /\ WireOK /\ turn' \in Worker /\ faults' \in Nat
  BY <1>5, <1>u, <1>p, <1>l DEF Serve
<1>6. ASSUME NEW w \in Worker, AcceptOldest(w), Len(sockets[w]) < NWorkers
      PROVE  SocketsOK /\ BacklogOK
  <2>1. BacklogOK /\ Head(backlog[w]) \in Node
    BY <1>6, BacklogType DEF AcceptOldest, BacklogOK
  <2>2. SocketsOK
    BY <1>6, <2>1, <1>w, SocketsType DEF AcceptOldest, SocketsOK
  <2>. QED
    BY <2>1, <2>2
<1>7. ASSUME NEW w \in Worker, AcceptRoot(w)
      PROVE  PcOK /\ SocketsOK /\ BacklogOK /\ WireOK /\ turn' \in Worker /\ faults' \in Nat
  <2>1. sockets[w] = <<>>
    BY <1>7 DEF AcceptRoot, WorkerInv
  <2>2. SocketsOK /\ BacklogOK
    BY <1>7, <2>1, <1>6 DEF AcceptRoot
  <2>. QED
    BY <1>7, <2>2, <1>u, <1>p, <1>l, <1>w DEF AcceptRoot
<1>8. ASSUME NEW w \in Worker, ReadTopology(w)
      PROVE  PcOK /\ SocketsOK /\ BacklogOK /\ WireOK /\ turn' \in Worker /\ faults' \in Nat
  <2>1. RootConn(w) = Root
    BY <1>8 DEF ReadTopology, WorkerInv, RootConn
  <2> DEFINE c == [wire EXCEPT ![Root][w] = Tail(@)]
  <2>2. c \in [Node -> [Node -> Seq({Topology, ACK})]]
    <3>1. wire[Root][w] # <<>>
      BY <1>8, <2>1 DEF ReadTopology, Take
    <3>. QED
      BY <3>1, <1>w, WireType
  <2>3. wire' = [c EXCEPT ![w][Root] = Append(@, ACK)]
    BY <1>8, <2>1, <1>w DEF ReadTopology
  <2> HIDE DEF c
  <2>4. WireOK
    BY <2>2, <2>3, <1>w, WireType DEF WireOK
  <2>. QED
    BY <1>8, <2>4, <1>u, <1>p, <1>l, <1>w DEF ReadTopology
<1>9. ASSUME NEW w \in Worker, ReadReady(w)
      PROVE  PcOK /\ SocketsOK /\ BacklogOK /\ WireOK /\ turn' \in Worker /\ faults' \in Nat
  <2>1. RootConn(w) = Root
    BY <1>9 DEF ReadReady, WorkerInv, RootConn
  <2>2. WireOK
    <3>1. wire[Root][w] # <<>> /\ wire' = [wire EXCEPT ![Root][w] = Tail(@)]
      BY <1>9, <2>1 DEF ReadReady, Take
    <3>. QED
      BY <3>1, <1>w, WireType DEF WireOK
  <2>. QED
    BY <1>9, <2>2, <1>u, <1>p, <1>l, <1>w DEF ReadReady
<1>10. ASSUME NEW w \in Worker, MeshConnect(w)
       PROVE  PcOK /\ SocketsOK /\ BacklogOK /\ WireOK /\ turn' \in Worker /\ faults' \in Nat
  <2>1. Dialled(w) \in Worker /\ Len(sockets[w]) < NWorkers
    BY <1>10 DEF MeshConnect, Dialled, NextSocket, Meant
  <2> DEFINE p == Dialled(w)
  <2> HIDE DEF p
  <2>2. CASE /\ backlog' = [backlog EXCEPT ![p] = Append(@, w)]
             /\ sockets' = [sockets EXCEPT ![w] = Append(@, p)]
             /\ UNCHANGED pc
    <3>1. SocketsOK /\ BacklogOK
      BY <2>1, <2>2, <1>w, SocketsType, BacklogType DEF SocketsOK, BacklogOK, p
    <3>. QED
      BY <1>10, <2>2, <3>1, <1>u DEF MeshConnect
  <2>3. CASE Goto(w, "dead") /\ UNCHANGED <<backlog, sockets>>
    BY <1>10, <2>3, <1>u, <1>p, <1>l, <1>w DEF MeshConnect
  <2>. QED
    BY <1>10, <2>2, <2>3 DEF MeshConnect, p
<1>11. ASSUME NEW w \in Worker, MeshAccept(w)
       PROVE  PcOK /\ SocketsOK /\ BacklogOK /\ WireOK /\ turn' \in Worker /\ faults' \in Nat
  <2>1. Len(sockets[w]) < NWorkers
    BY <1>11, <1>w DEF MeshAccept, NextSocket, TypeOK
  <2>2. SocketsOK /\ BacklogOK
    BY <1>11, <2>1, <1>6 DEF MeshAccept
  <2>. QED
    BY <1>11, <2>2, <1>u DEF MeshAccept
<1>12. ASSUME NEW w \in Worker, MeshDone(w)
       PROVE  PcOK /\ SocketsOK /\ BacklogOK /\ WireOK /\ turn' \in Worker /\ faults' \in Nat
  BY <1>12, <1>u, <1>p, <1>l, <1>w DEF MeshDone
<1>13. ASSUME NEW n \in Node, Crash(n)
       PROVE  PcOK /\ SocketsOK /\ BacklogOK /\ WireOK /\ turn' \in Worker /\ faults' \in Nat
  BY <1>13, <1>u, <1>p, <1>l, <1>w DEF Crash
<1>14. ASSUME NEW n \in Node, ReadError(n)
       PROVE  PcOK /\ SocketsOK /\ BacklogOK /\ WireOK /\ turn' \in Worker /\ faults' \in Nat
  BY <1>14, <1>u, <1>p, <1>l DEF ReadError
<1>15. CASE UNCHANGED vars
  BY <1>15, <1>u DEF vars
<1>. QED
  BY <1>1, <1>2, <1>3, <1>4, <1>5, <1>7, <1>8, <1>9, <1>10, <1>11, <1>12, <1>13, <1>14, <1>15
     DEF Next, RootStep, WorkerStep

-----------------------------------------------------------------------------
(* The root and the workers.                                               *)

\* Sockets are only ever added.
LEMMA SocketsGrow ==
  ASSUME IInv, [Next]_vars, NEW n \in Node
  PROVE  /\ Len(sockets'[n]) \in Nat /\ Len(sockets[n]) \in Nat
         /\ Len(sockets'[n]) >= Len(sockets[n])
         /\ sockets[n] # <<>> => sockets'[n] # <<>>
<1> USE Constants
<1>t. TypeOK /\ TypeOK'
  BY NextTypeOK DEF IInv
<1>1. sockets[n] \in Seq(Node) /\ sockets'[n] \in Seq(Node)
  BY <1>t DEF TypeOK
<1> DEFINE Added == \E m, e \in Node : sockets' = [sockets EXCEPT ![m] = Append(@, e)]
<1>2. UNCHANGED sockets \/ Added
  <2>1. turn \in Node /\ \A w \in Worker : backlog[w] # <<>> => Head(backlog[w]) \in Node
    <3>1. turn \in Worker
      BY <1>t DEF TypeOK
    <3>2. \A w \in Worker : backlog[w] # <<>> => Head(backlog[w]) \in Node
      BY <1>t, BacklogType
    <3>. QED
      BY <3>1, <3>2
  <2>2. ASSUME RootReadAck PROVE Added
    BY <2>1, <2>2 DEF RootReadAck
  <2>3. ASSUME NEW w \in Worker, AcceptOldest(w) PROVE Added
    <3>1. /\ Head(backlog[w]) \in Node /\ w \in Node
          /\ sockets' = [sockets EXCEPT ![w] = Append(@, Head(backlog[w]))]
      BY <2>1, <2>3 DEF AcceptOldest
    <3>. QED
      BY <3>1
  <2>4. ASSUME NEW w \in Worker, MeshConnect(w) PROVE UNCHANGED sockets \/ Added
    <3>1. Dialled(w) \in Node
      BY <2>4 DEF MeshConnect, Dialled, NextSocket, Meant
    <3>. QED
      BY <2>4, <3>1 DEF MeshConnect
  <2>5. CASE RootStep
    BY <2>2, <2>5 DEF RootStep, RootConnect, RootRefused, RootSignal, ReadError
  <2>6. ASSUME NEW w \in Worker, Serve(w) \/ WorkerStep(w)
        PROVE  UNCHANGED sockets \/ Added
    <3>1. AcceptRoot(w) \/ MeshAccept(w) => Added
      BY <2>3 DEF AcceptRoot, MeshAccept
    <3>2. Serve(w) \/ ReadTopology(w) \/ ReadReady(w) \/ MeshDone(w) \/ ReadError(w) => UNCHANGED sockets
      BY DEF Serve, ReadTopology, ReadReady, MeshDone, ReadError
    <3>. QED
      BY <2>4, <2>6, <3>1, <3>2 DEF WorkerStep
  <2>7. ASSUME NEW m \in Node, Crash(m) PROVE UNCHANGED sockets
    BY <2>7 DEF Crash
  <2>. QED
    BY <2>5, <2>6, <2>7 DEF Next, vars
<1>3. ASSUME NEW m \in Node, NEW e \in Node, sockets' = [sockets EXCEPT ![m] = Append(@, e)]
      PROVE  sockets'[n] = sockets[n] \/ sockets'[n] = Append(sockets[n], e)
  BY <1>3, <1>t DEF TypeOK
<1>4. sockets'[n] = sockets[n] \/ \E e \in Node : sockets'[n] = Append(sockets[n], e)
  BY <1>2, <1>3
<1>5. ASSUME NEW e \in Node, sockets'[n] = Append(sockets[n], e)
      PROVE  Len(sockets'[n]) = Len(sockets[n]) + 1 /\ sockets'[n] # <<>>
  BY <1>1, <1>5
<1>. QED
  BY <1>1, <1>4, <1>5

\* Once every worker has a connection, every worker keeps one.
LEMMA AllAcceptedStable ==
  ASSUME IInv, [Next]_vars, AllAccepted
  PROVE  AllAccepted'
  BY SocketsGrow, Constants DEF AllAccepted

\* When every worker has a connection, the root connects to nobody any more.
LEMMA RootIsThrough ==
  ASSUME IInv, AllAccepted
  PROVE  pc[Root] # "connect" /\ (pc[Root] = "ack" => turn = NWorkers)
<1>1. turn \in Worker
  BY DEF IInv, TypeOK
<1>2. pc[Root] = "connect" => sockets[turn] = <<>>
  BY DEF IInv, RootInv
<1>3. pc[Root] = "ack" => \A w \in turn + 1 .. NWorkers : sockets[w] = <<>>
  BY DEF IInv, RootInv
<1>. QED
  BY <1>1, <1>2, <1>3, Constants DEF AllAccepted

\* The root goes through the workers in order, and signals when all have
\* accepted it.
LEMMA NextRootInv == IInv /\ [Next]_vars => RootInv'
<1> SUFFICES ASSUME IInv, [Next]_vars PROVE RootInv'
  OBVIOUS
<1> USE Constants DEF Gone
<1>t. TypeOK /\ TypeOK' /\ RootInv /\ WorkerInv
  BY NextTypeOK DEF IInv
<1>s. /\ turn \in Worker /\ turn' \in Worker
      /\ sockets \in [Node -> Seq(Node)] /\ backlog \in [Worker -> Seq(Node)] /\ pc \in [Node -> Labels]
  BY <1>t DEF TypeOK, Labels
<1>g. \A w \in Worker : sockets[w] # <<>> => sockets'[w] # <<>>
  BY SocketsGrow
<1>a. AllAccepted => AllAccepted'
  BY AllAcceptedStable
\* What a step must leave alone for this invariant to hold after it.
<1>u. ASSUME pc'[Root] = pc[Root], UNCHANGED <<turn, sockets, backlog>> PROVE RootInv'
  BY <1>u, <1>t DEF RootInv, AllAccepted
<1>d. ASSUME pc'[Root] = "dead", UNCHANGED <<turn, sockets, backlog>> PROVE RootInv'
  BY <1>d, <1>t DEF RootInv
<1>1. CASE RootConnect
  BY <1>1, <1>t, <1>s DEF RootConnect, RootInv, Goto
<1>2. CASE RootRefused
  BY <1>2, <1>s, <1>d DEF RootRefused, Goto
<1>3. CASE RootReadAck
  <2>1. /\ Len(sockets[Root]) = turn - 1
        /\ \A w \in 1 .. turn - 1 : sockets[w] # <<>>
        /\ \A w \in turn + 1 .. NWorkers : sockets[w] = <<>> /\ backlog[w] = <<>>
        /\ \A i \in 1 .. Len(sockets[Root]) : sockets[Root][i] = i
    BY <1>3, <1>t DEF RootReadAck, RootInv
  <2>2. sockets[turn] # <<>>
    BY <1>3, <1>s, <1>t DEF RootReadAck, Take, WorkerInv
  <2>3. /\ sockets'[Root] = Append(sockets[Root], turn) /\ sockets[Root] \in Seq(Node)
        /\ \A w \in Worker : sockets'[w] = sockets[w]
        /\ backlog' = backlog
    <3>1. sockets' = [sockets EXCEPT ![Root] = Append(@, turn)] /\ backlog' = backlog
      BY <1>3 DEF RootReadAck
    <3>. QED
      BY <3>1, <1>s
  <2>4. Len(sockets'[Root]) = turn /\ \A i \in 1 .. Len(sockets'[Root]) : sockets'[Root][i] = i
    BY <2>1, <2>3, <1>s
  <2>5. \A w \in 1 .. turn : sockets'[w] # <<>>
    BY <2>1, <2>2, <2>3, <1>s
  <2>6. CASE turn < NWorkers /\ turn' = turn + 1 /\ Goto(Root, "connect")
    <3>1. pc'[Root] = "connect"
      BY <2>6, <1>s DEF Goto
    <3>. QED
      <4>1. Len(sockets'[Root]) = turn' - 1
        BY <2>4, <2>6, <1>s
      <4>2. \A w \in 1 .. turn' - 1 : sockets'[w] # <<>>
        BY <2>5, <2>6, <1>s
      <4>3. ASSUME NEW w \in turn + 1 .. NWorkers
            PROVE  sockets'[w] = <<>> /\ backlog'[w] = <<>>
        <5>1. w \in Worker
          BY <1>s
        <5>. QED
          BY <5>1, <2>1, <2>3
      <4>4. /\ turn' \in turn + 1 .. NWorkers
            /\ \A w \in turn' + 1 .. NWorkers : w \in turn + 1 .. NWorkers
        BY <2>6, <1>s
      <4>. QED
        BY <3>1, <4>1, <4>2, <4>3, <4>4, <2>4 DEF RootInv
  <2>7. CASE turn = NWorkers /\ turn' = 1 /\ Goto(Root, "signal")
    <3>1. pc'[Root] = "signal"
      BY <2>7, <1>s DEF Goto
    <3>2. AllAccepted'
      BY <2>5, <2>7 DEF AllAccepted
    <3>. QED
      BY <2>4, <2>7, <3>1, <3>2, <1>s DEF RootInv
  <2>. QED
    BY <1>3, <2>6, <2>7 DEF RootReadAck, NextTurn
<1>4. CASE RootSignal
  <2>1. AllAccepted /\ Len(sockets[Root]) = NWorkers /\ \A i \in 1 .. Len(sockets[Root]) : sockets[Root][i] = i
    BY <1>4, <1>t DEF RootSignal, RootInv
  <2>2. pc'[Root] \in {"signal", "done"} /\ UNCHANGED sockets
    BY <1>4, <1>s DEF RootSignal, Goto
  <2>. QED
    BY <2>1, <2>2, <1>a DEF RootInv
<1>5. ASSUME NEW w \in Worker, Serve(w) PROVE RootInv'
  BY <1>5, <1>s, <1>u DEF Serve, Goto
<1>6. ASSUME NEW w \in Worker, AcceptOldest(w), pc'[Root] = pc[Root], UNCHANGED turn PROVE RootInv'
  <2>1. backlog[w] # <<>>
    BY <1>6 DEF AcceptOldest
  <2>2. /\ sockets'[Root] = sockets[Root]
        /\ \A v \in Worker \ {w} : sockets'[v] = sockets[v] /\ backlog'[v] = backlog[v]
    BY <1>6, <1>s DEF AcceptOldest
  <2>3. /\ pc[Root] \in {"connect", "ack"} => w \notin turn + 1 .. NWorkers
        /\ pc[Root] = "connect" => w # turn
    BY <2>1, <1>t DEF RootInv
  <2>4. ASSUME pc'[Root] \in {"connect", "ack"}
        PROVE  /\ \A v \in 1 .. turn - 1 : sockets'[v] # <<>>
               /\ \A v \in turn + 1 .. NWorkers : sockets'[v] = <<>> /\ backlog'[v] = <<>>
    <3>1. ASSUME NEW v \in 1 .. turn - 1 PROVE sockets'[v] # <<>>
      <4>1. v \in Worker /\ sockets[v] # <<>>
        BY <1>6, <1>s, <1>t, <2>4 DEF RootInv
      <4>. QED
        BY <4>1, <1>g
    <3>2. ASSUME NEW v \in turn + 1 .. NWorkers PROVE sockets'[v] = <<>> /\ backlog'[v] = <<>>
      <4>1. sockets[v] = <<>> /\ backlog[v] = <<>> /\ v # w
        BY <1>6, <1>t, <2>3, <2>4 DEF RootInv
      <4>2. v \in Worker
        BY <1>s
      <4>. QED
        BY <4>1, <4>2, <2>2
    <3>. QED
      BY <3>1, <3>2
  <2>5. pc'[Root] = "connect" => sockets'[turn'] = <<>> /\ backlog'[turn'] = <<>>
    BY <1>6, <2>2, <2>3, <1>s, <1>t DEF RootInv
  <2>. QED
    BY <1>6, <2>2, <2>4, <2>5, <1>a, <1>t DEF RootInv
<1>7. ASSUME NEW w \in Worker, AcceptRoot(w) PROVE RootInv'
  BY <1>6, <1>7, <1>s DEF AcceptRoot, Goto
<1>8. ASSUME NEW w \in Worker, ReadTopology(w) PROVE RootInv'
  BY <1>8, <1>s, <1>u DEF ReadTopology, Goto
<1>9. ASSUME NEW w \in Worker, ReadReady(w) PROVE RootInv'
  BY <1>9, <1>s, <1>u DEF ReadReady, Goto
<1>10. ASSUME NEW w \in Worker, MeshConnect(w) PROVE RootInv'
  <2>1. AllAccepted
    BY <1>10, <1>t DEF MeshConnect, WorkerInv
  <2>2. pc[Root] # "connect" /\ (pc[Root] = "ack" => turn = NWorkers)
    BY <2>1, RootIsThrough
  <2>3. pc'[Root] = pc[Root] /\ turn' = turn /\ sockets'[Root] = sockets[Root]
    BY <1>10, <1>s DEF MeshConnect, Goto
  <2>. QED
    BY <2>1, <2>2, <2>3, <1>a, <1>g, <1>s, <1>t DEF RootInv
<1>11. ASSUME NEW w \in Worker, MeshAccept(w) PROVE RootInv'
  BY <1>6, <1>11, <1>s DEF MeshAccept
<1>12. ASSUME NEW w \in Worker, MeshDone(w) PROVE RootInv'
  BY <1>12, <1>s, <1>u DEF MeshDone, Goto
<1>13. ASSUME NEW n \in Node, Crash(n) PROVE RootInv'
  BY <1>13, <1>s, <1>u, <1>d DEF Crash, Goto
<1>14. ASSUME NEW n \in Node, ReadError(n) PROVE RootInv'
  BY <1>14, <1>s, <1>u, <1>d DEF ReadError, Goto
<1>15. CASE UNCHANGED vars
  BY <1>15, <1>u DEF vars
<1>. QED
  BY <1>1, <1>2, <1>3, <1>4, <1>5, <1>7, <1>8, <1>9, <1>10, <1>11, <1>12, <1>13, <1>14, <1>15
     DEF Next, RootStep, WorkerStep

\* The parts of WorkerInv that hold of one worker.
WorkerPart(w) ==
  /\ pc[w] \in {"down", "accept"} => sockets[w] = <<>>
  /\ pc[w] \in {"topology", "ready", "mesh", "done"} => sockets[w] # <<>>
  /\ pc[w] \notin {"connect", "ack", "signal"}
  /\ pc[w] = "mesh" => AllAccepted
  /\ pc[w] = "done" => Len(sockets[w]) = NWorkers
ConnPart(w) ==
  /\ sockets[w] = <<>> => backlog[w] \in {<<>>, <<Root>>}
  /\ sockets[w] # <<>> => sockets[w][1] = Root
WirePart(w) ==
  /\ wire[w][Root] # <<>> => sockets[w] # <<>>
  /\ \A i \in 1 .. Len(wire[Root][w]) : wire[Root][w][i] = ACK => AllAccepted

\* WorkerInv is these parts of every worker.
LEMMA WorkerParts == WorkerInv <=> \A w \in Worker : WorkerPart(w) /\ ConnPart(w) /\ WirePart(w)
  BY DEF WorkerInv, WorkerPart, ConnPart, WirePart

\* Nobody builds the mesh before every worker has accepted the root.
LEMMA NextWorkerInv == IInv /\ [Next]_vars => WorkerInv'
<1> SUFFICES ASSUME IInv, [Next]_vars, NEW v \in Worker
             PROVE  WorkerPart(v)' /\ ConnPart(v)' /\ WirePart(v)'
  BY WorkerParts DEF WorkerInv, WorkerPart, ConnPart, WirePart
<1> USE Constants
<1>t. TypeOK /\ RootInv /\ \A w \in Worker : WorkerPart(w) /\ ConnPart(w) /\ WirePart(w)
  BY WorkerParts DEF IInv
<1>s. /\ turn \in Worker /\ turn \in Node /\ v \in Node
      /\ sockets \in [Node -> Seq(Node)] /\ backlog \in [Worker -> Seq(Node)]
  <2>1. turn \in Worker /\ sockets \in [Node -> Seq(Node)] /\ backlog \in [Worker -> Seq(Node)]
    BY <1>t DEF TypeOK
  <2>. QED
    BY <2>1
<1>n. \A w \in Worker : w \in Node /\ w # Root
  OBVIOUS
<1>pc. ASSUME NEW n \in Node, NEW l, Goto(n, l) PROVE pc'[v] = IF v = n THEN l ELSE pc[v]
  <2>1. pc \in [Node -> Labels]
    BY <1>t DEF TypeOK, Labels
  <2>. QED
    BY <2>1, <1>pc, <1>s DEF Goto
<1>wi. wire \in [Node -> [Node -> Seq({Topology, ACK})]]
  BY <1>t DEF TypeOK
<1>g. sockets[v] # <<>> => sockets'[v] # <<>>
  BY SocketsGrow
<1>a. AllAccepted => AllAccepted'
  BY AllAcceptedStable
<1>p. ASSUME UNCHANGED <<pc, sockets>> PROVE WorkerPart(v)'
  BY <1>p, <1>t, <1>a DEF WorkerPart
<1>c. ASSUME UNCHANGED <<sockets, backlog>> PROVE ConnPart(v)'
  BY <1>c, <1>t DEF ConnPart
<1>w. ASSUME UNCHANGED wire PROVE WirePart(v)'
  BY <1>w, <1>t, <1>a, <1>g DEF WirePart
<1>d. ASSUME NEW n \in Node, Goto(n, "dead"), UNCHANGED sockets PROVE WorkerPart(v)'
  BY <1>d, <1>t, <1>a, <1>pc DEF WorkerPart
<1>1. CASE RootConnect
  <2>1. sockets[turn] = <<>> /\ backlog[turn] = <<>> /\ UNCHANGED sockets
    BY <1>1, <1>t DEF RootConnect, RootInv
  <2>2. ConnPart(v)'
    <3>1. backlog'[v] = IF v = turn THEN <<Root>> ELSE backlog[v]
      BY <1>1, <2>1, <1>s DEF RootConnect
    <3>. QED
      BY <2>1, <3>1, <1>t DEF ConnPart
  <2>3. WorkerPart(v)'
    <3>1. pc'[v] = pc[v]
      BY <1>1, <1>pc, <1>s DEF RootConnect
    <3>. QED
      BY <2>1, <3>1, <1>a, <1>t DEF WorkerPart
  <2>4. WirePart(v)'
    <3>1. wire[Root][v] \in Seq({Topology, ACK}) /\ wire'[v] = wire[v]
      BY <1>1, <1>wi, <1>s DEF RootConnect, Put
    <3>2. wire'[Root][v] = wire[Root][v] \/ wire'[Root][v] = Append(wire[Root][v], Topology)
      BY <1>1, <1>wi, <1>s DEF RootConnect, Put
    <3>3. \A i \in 1 .. Len(wire'[Root][v]) : wire'[Root][v][i] = ACK =>
             i \in 1 .. Len(wire[Root][v]) /\ wire[Root][v][i] = ACK
      <4>1. CASE wire'[Root][v] = wire[Root][v]
        BY <4>1
      <4>2. CASE wire'[Root][v] = Append(wire[Root][v], Topology)
        <5> DEFINE q == wire[Root][v]
        <5>1. q \in Seq({Topology, ACK}) /\ wire'[Root][v] = Append(q, Topology)
          BY <3>1, <4>2
        <5> HIDE DEF q
        <5>2. \A i \in 1 .. Len(Append(q, Topology)) :
                IF i \in 1 .. Len(q) THEN Append(q, Topology)[i] = q[i] ELSE Append(q, Topology)[i] = Topology
          BY <5>1
        <5>. QED
          BY <5>1, <5>2 DEF Topology, ACK, q
      <4>. QED
        BY <3>2, <4>1, <4>2
    <3>. QED
      BY <2>1, <3>1, <3>3, <1>a, <1>t DEF WirePart
  <2>. QED
    BY <2>2, <2>3, <2>4
<1>2. CASE RootRefused
  BY <1>2, <1>d, <1>c, <1>w DEF RootRefused
<1>3. CASE RootReadAck
  <2>1. sockets'[v] = sockets[v] /\ pc'[v] = pc[v] /\ backlog'[v] = backlog[v]
    BY <1>3, <1>s, <1>pc DEF RootReadAck, NextTurn
  <2>2. wire'[Root][v] = wire[Root][v] /\ (wire[v][Root] = <<>> => wire'[v][Root] = <<>>)
    BY <1>3, <1>s, <1>wi DEF RootReadAck, Take
  <2>. QED
    BY <2>1, <2>2, <1>a, <1>g, <1>t DEF WorkerPart, ConnPart, WirePart
<1>4. CASE RootSignal
  <2>1. AllAccepted
    BY <1>4, <1>t DEF RootSignal, RootInv
  <2>2. sockets'[v] = sockets[v] /\ pc'[v] = pc[v] /\ backlog'[v] = backlog[v]
    BY <1>4, <1>s, <1>pc DEF RootSignal
  <2>3. AllAccepted' /\ sockets'[v] # <<>>
    BY <2>1, <1>a DEF AllAccepted
  <2>4. wire'[v] = wire[v]
    BY <1>4, <1>wi, <1>s DEF RootSignal, Put
  <2>. QED
    BY <2>2, <2>3, <2>4, <1>t DEF WorkerPart, ConnPart, WirePart
<1>5. ASSUME NEW w \in Worker, Serve(w) PROVE WorkerPart(v)' /\ ConnPart(v)' /\ WirePart(v)'
  <2>1. WorkerPart(v)'
    <3>1. pc'[v] = IF v = w THEN "accept" ELSE pc[v]
      BY <1>5, <1>pc, <1>s DEF Serve
    <3>. QED
      BY <1>5, <3>1, <1>a, <1>t DEF Serve, WorkerPart
  <2>. QED
    BY <1>5, <2>1, <1>c, <1>w DEF Serve
<1>6. ASSUME NEW w \in Worker, AcceptRoot(w) PROVE WorkerPart(v)' /\ ConnPart(v)' /\ WirePart(v)'
  <2>1. sockets[w] = <<>> /\ backlog[w] = <<Root>>
    BY <1>6, <1>t DEF AcceptRoot, AcceptOldest, WorkerPart, ConnPart
  <2>2. sockets' = [sockets EXCEPT ![w] = <<Root>>] /\ backlog' = [backlog EXCEPT ![w] = <<>>]
    <3>1. Head(<<Root>>) = Root /\ Tail(<<Root>>) = <<>> /\ Append(<<>>, Root) = <<Root>>
      OBVIOUS
    <3>. QED
      BY <1>6, <2>1, <3>1, <1>s DEF AcceptRoot, AcceptOldest
  <2>5. /\ sockets'[v] = IF v = w THEN <<Root>> ELSE sockets[v]
        /\ backlog'[v] = IF v = w THEN <<>> ELSE backlog[v]
        /\ pc'[v] = IF v = w THEN "topology" ELSE pc[v]
    BY <1>6, <2>2, <1>pc, <1>s DEF AcceptRoot
  <2>3. ConnPart(v)'
    BY <2>5, <1>t DEF ConnPart
  <2>4. WorkerPart(v)'
    BY <2>5, <1>a, <1>t DEF WorkerPart
  <2>. QED
    BY <1>6, <2>3, <2>4, <1>w DEF AcceptRoot
<1>7. ASSUME NEW w \in Worker, ReadTopology(w) PROVE WorkerPart(v)' /\ ConnPart(v)' /\ WirePart(v)'
  <2>1. RootConn(w) = Root /\ sockets[w] # <<>>
    BY <1>7, <1>t DEF ReadTopology, WorkerPart, ConnPart, RootConn
  <2>2. WorkerPart(v)'
    <3>1. pc'[v] = IF v = w THEN "ready" ELSE pc[v]
      BY <1>7, <1>pc, <1>n DEF ReadTopology
    <3>. QED
      BY <1>7, <2>1, <3>1, <1>a, <1>t DEF ReadTopology, WorkerPart
  <2>3. /\ wire'[v][Root] # <<>> => wire[v][Root] # <<>> \/ v = w
        /\ wire'[Root][v] = IF v = w THEN Tail(wire[Root][v]) ELSE wire[Root][v]
        /\ v = w => wire[Root][v] # <<>>
    BY <1>7, <2>1, <1>s, <1>wi DEF ReadTopology, Take
  <2>4. \A i \in 1 .. Len(wire'[Root][v]) : \E j \in 1 .. Len(wire[Root][v]) : wire'[Root][v][i] = wire[Root][v][j]
    <3>1. wire[Root][v] \in Seq({Topology, ACK})
      BY <1>s, <1>wi
    <3>2. CASE v = w
      <4>1. \A i \in 1 .. Len(Tail(wire[Root][v])) :
               i + 1 \in 1 .. Len(wire[Root][v]) /\ Tail(wire[Root][v])[i] = wire[Root][v][i + 1]
        BY <2>3, <3>1, <3>2
      <4>. QED
        BY <2>3, <3>2, <4>1
    <3>. QED
      BY <2>3, <3>2
  <2>5. WirePart(v)'
    BY <2>1, <2>3, <2>4, <1>a, <1>g, <1>t DEF WirePart
  <2>. QED
    BY <1>7, <2>2, <2>5, <1>c DEF ReadTopology
<1>8. ASSUME NEW w \in Worker, ReadReady(w) PROVE WorkerPart(v)' /\ ConnPart(v)' /\ WirePart(v)'
  <2>1. RootConn(w) = Root
    BY <1>8, <1>t DEF ReadReady, WorkerPart, ConnPart, RootConn
  <2>2. wire[Root][w] \in Seq({Topology, ACK}) /\ wire[Root][w] # <<>> /\ Head(wire[Root][w]) = ACK
    BY <1>8, <2>1, <1>wi, <1>n DEF ReadReady, Take
  <2>3. AllAccepted
    BY <2>2, <1>t DEF WirePart
  <2>4. AllAccepted' /\ sockets'[v] # <<>>
    BY <2>3, <1>a DEF AllAccepted
  <2>5. WirePart(v)'
    BY <2>4 DEF WirePart
  <2>6. WorkerPart(v)'
    <3>1. pc'[v] = IF v = w THEN "mesh" ELSE pc[v]
      BY <1>8, <1>pc, <1>n DEF ReadReady
    <3>. QED
      BY <1>8, <2>4, <3>1, <1>t DEF ReadReady, WorkerPart
  <2>. QED
    BY <1>8, <2>5, <2>6, <1>c DEF ReadReady
<1>9. ASSUME NEW w \in Worker, pc[w] = "mesh", UNCHANGED wire,
             UNCHANGED sockets \/ \E e \in Node : sockets' = [sockets EXCEPT ![w] = Append(@, e)]
      PROVE  ConnPart(v)' /\ WirePart(v)'
  <2>1. AllAccepted
    BY <1>9, <1>t DEF WorkerPart
  <2>2. sockets[v] # <<>> /\ sockets'[v] # <<>> /\ sockets[v] \in Seq(Node)
    BY <2>1, <1>g, <1>s DEF AllAccepted
  <2>3. ASSUME NEW e \in Node, sockets' = [sockets EXCEPT ![w] = Append(@, e)]
        PROVE  sockets'[v][1] = sockets[v][1]
    <3>1. Append(sockets[v], e)[1] = sockets[v][1]
      BY <2>2
    <3>. QED
      BY <2>2, <2>3, <3>1, <1>s
  <2>. QED
    BY <1>9, <2>2, <2>3, <1>t, <1>w DEF ConnPart
<1>10. ASSUME NEW w \in Worker, MeshConnect(w) PROVE WorkerPart(v)' /\ ConnPart(v)' /\ WirePart(v)'
  <2>1. Dialled(w) \in Node
    BY <1>10 DEF MeshConnect, Dialled, NextSocket, Meant
  <2>2. ConnPart(v)' /\ WirePart(v)'
    BY <1>9, <1>10, <2>1 DEF MeshConnect
  <2>3. WorkerPart(v)'
    <3>1. pc'[v] = pc[v] \/ (v = w /\ pc'[v] = "dead")
      <4>1. UNCHANGED pc \/ Goto(w, "dead")
        BY <1>10 DEF MeshConnect
      <4>2. w \in Node /\ (Goto(w, "dead") => pc'[v] = IF v = w THEN "dead" ELSE pc[v])
        BY <1>pc, <1>n
      <4>. QED
        BY <4>1, <4>2
    <3>2. pc[w] = "mesh" /\ (v # w => sockets'[v] = sockets[v])
      BY <1>10, <1>s DEF MeshConnect
    <3>. QED
      BY <3>1, <3>2, <1>a, <1>g, <1>t DEF WorkerPart
  <2>. QED
    BY <2>2, <2>3
<1>11. ASSUME NEW w \in Worker, MeshAccept(w) PROVE WorkerPart(v)' /\ ConnPart(v)' /\ WirePart(v)'
  <2>1. Head(backlog[w]) \in Node
    BY <1>11, <1>t, BacklogType DEF MeshAccept, AcceptOldest
  <2>2. ConnPart(v)' /\ WirePart(v)'
    BY <1>9, <1>11, <2>1 DEF MeshAccept, AcceptOldest
  <2>3. WorkerPart(v)'
    <3>1. pc[w] = "mesh" /\ pc'[v] = pc[v] /\ (v # w => sockets'[v] = sockets[v])
      BY <1>11, <1>s DEF MeshAccept, AcceptOldest
    <3>. QED
      BY <3>1, <1>a, <1>g, <1>t DEF WorkerPart
  <2>. QED
    BY <2>2, <2>3
<1>12. ASSUME NEW w \in Worker, MeshDone(w) PROVE WorkerPart(v)' /\ ConnPart(v)' /\ WirePart(v)'
  <2>1. sockets[w] \in Seq(Node) /\ Len(sockets[w]) = NWorkers
    BY <1>12, <1>s DEF MeshDone, NextSocket
  <2>2. WorkerPart(v)'
    <3>1. pc'[v] = IF v = w THEN "done" ELSE pc[v]
      BY <1>12, <1>pc, <1>s DEF MeshDone
    <3>2. pc[w] = "mesh" /\ UNCHANGED sockets
      BY <1>12 DEF MeshDone
    <3>. QED
      BY <2>1, <3>1, <3>2, <1>a, <1>t DEF WorkerPart
  <2>. QED
    BY <1>12, <2>2, <1>c, <1>w DEF MeshDone
<1>13. ASSUME NEW n \in Node, Crash(n) PROVE WorkerPart(v)' /\ ConnPart(v)' /\ WirePart(v)'
  BY <1>13, <1>d, <1>c, <1>w DEF Crash
<1>14. ASSUME NEW n \in Node, ReadError(n) PROVE WorkerPart(v)' /\ ConnPart(v)' /\ WirePart(v)'
  BY <1>14, <1>d, <1>c, <1>w DEF ReadError
<1>15. CASE UNCHANGED vars
  BY <1>15, <1>p, <1>c, <1>w DEF vars
<1>. QED
  BY <1>1, <1>2, <1>3, <1>4, <1>5, <1>6, <1>7, <1>8, <1>10, <1>11, <1>12, <1>13, <1>14, <1>15
     DEF Next, RootStep, WorkerStep

-----------------------------------------------------------------------------
(* The mesh.                                                               *)

\* The nodes below w that have dialled it.
DialledBy(w) == {m \in 0 .. w - 1 : HasDialled(m, w)}

\* MeshInv of the sockets s and the backlog b of a worker w that the nodes of
\* D have dialled.
Placed(s, b, w, D) ==
  /\ \A i \in 1 .. Len(s) : IF i <= w THEN s[i] \in D ELSE s[i] = i
  /\ \A i \in 1 .. Len(b) : b[i] \in D
  /\ \A i, j \in 1 .. Len(s) : i <= w /\ j <= w /\ s[i] = s[j] => i = j
  /\ \A i, j \in 1 .. Len(b) : b[i] = b[j] => i = j
  /\ \A i \in 1 .. Len(s), j \in 1 .. Len(b) : i <= w => s[i] # b[j]

\* MeshInv says this of every worker.
LEMMA MeshInvPlaced ==
  MeshInv <=> \A w \in Worker : Placed(sockets[w], backlog[w], w, DialledBy(w))
  BY DEF MeshInv, Placed, DialledBy

\* It goes on to hold when more nodes have dialled.
LEMMA PlacedInMore ==
  ASSUME NEW s, NEW b, NEW w, NEW D, NEW E, D \subseteq E, Placed(s, b, w, D)
  PROVE  Placed(s, b, w, E)
  BY DEF Placed

\* accept(): the oldest connection becomes the next socket.
LEMMA PlacedAccept ==
  ASSUME NEW s \in Seq(Node), NEW b \in Seq(Node), NEW w \in Nat, NEW D,
         b # <<>>, Len(s) < w, Placed(s, b, w, D)
  PROVE  Placed(Append(s, Head(b)), Tail(b), w, D)
<1> DEFINE t == Append(s, Head(b))
           c == Tail(b)
<1>1. /\ Len(t) = Len(s) + 1 /\ Len(s) \in Nat
      /\ \A i \in 1 .. Len(s) : t[i] = s[i]
      /\ t[Len(s) + 1] = b[1]
  OBVIOUS
<1>2. /\ Len(b) \in Nat /\ Len(b) >= 1 /\ Len(c) = Len(b) - 1
      /\ \A i \in 1 .. Len(c) : c[i] = b[i + 1]
  OBVIOUS
<1> HIDE DEF t, c
<1>3. \A i \in 1 .. Len(t) : i \in 1 .. Len(s) \/ i = Len(s) + 1
  BY <1>1
<1>4. 1 \in 1 .. Len(b) /\ \A i \in 1 .. Len(c) : i + 1 \in 1 .. Len(b) /\ i + 1 # 1
  BY <1>2
<1>5. \A i \in 1 .. Len(t) : i <= w /\ t[i] \in D
  BY <1>1, <1>3, <1>4 DEF Placed
<1>6. \A i \in 1 .. Len(c) : c[i] \in D
  BY <1>2, <1>4 DEF Placed
<1>7. ASSUME NEW i \in 1 .. Len(t), NEW j \in 1 .. Len(t), t[i] = t[j] PROVE i = j
  <2>1. CASE i \in 1 .. Len(s) /\ j \in 1 .. Len(s)
    BY <2>1, <1>1, <1>5, <1>7 DEF Placed
  <2>2. CASE i = Len(s) + 1 /\ j \in 1 .. Len(s)
    <3>1. s[j] = b[1] /\ j <= w
      BY <2>2, <1>1, <1>7
    <3>. QED
      BY <2>2, <3>1, <1>4 DEF Placed
  <2>3. CASE i \in 1 .. Len(s) /\ j = Len(s) + 1
    <3>1. s[i] = b[1] /\ i <= w
      BY <2>3, <1>1, <1>7
    <3>. QED
      BY <2>3, <3>1, <1>4 DEF Placed
  <2>. QED
    BY <1>3, <2>1, <2>2, <2>3
<1>8. ASSUME NEW i \in 1 .. Len(c), NEW j \in 1 .. Len(c), c[i] = c[j] PROVE i = j
  <2>1. b[i + 1] = b[j + 1] /\ i + 1 \in 1 .. Len(b) /\ j + 1 \in 1 .. Len(b)
    BY <1>2, <1>4, <1>8
  <2>2. i + 1 = j + 1
    BY <2>1 DEF Placed
  <2>. QED
    BY <2>2
<1>9. ASSUME NEW i \in 1 .. Len(t), NEW j \in 1 .. Len(c) PROVE t[i] # c[j]
  <2>1. c[j] = b[j + 1] /\ j + 1 \in 1 .. Len(b) /\ j + 1 # 1
    BY <1>2, <1>4
  <2>2. CASE i \in 1 .. Len(s)
    BY <2>1, <2>2, <1>1, <1>5 DEF Placed
  <2>3. CASE i = Len(s) + 1
    BY <2>1, <2>3, <1>1, <1>4 DEF Placed
  <2>. QED
    BY <1>3, <2>2, <2>3
<1>. QED
  BY <1>5, <1>6, <1>7, <1>8, <1>9 DEF Placed, t, c

\* connect(): a connection of somebody new waits behind the others.
LEMMA PlacedQueue ==
  ASSUME NEW s \in Seq(Node), NEW b \in Seq(Node), NEW w \in Nat, NEW D, NEW m \in Node,
         m \notin D, Placed(s, b, w, D)
  PROVE  Placed(s, Append(b, m), w, D \cup {m})
<1> DEFINE c == Append(b, m)
<1>1. /\ Len(c) = Len(b) + 1 /\ Len(b) \in Nat
      /\ \A i \in 1 .. Len(b) : c[i] = b[i]
      /\ c[Len(b) + 1] = m
  OBVIOUS
<1> HIDE DEF c
<1>2. \A i \in 1 .. Len(c) : i \in 1 .. Len(b) \/ i = Len(b) + 1
  BY <1>1
<1>3. \A i \in 1 .. Len(c) : c[i] \in D \cup {m} /\ (c[i] = m <=> i = Len(b) + 1)
  BY <1>1, <1>2 DEF Placed
<1>4. ASSUME NEW i \in 1 .. Len(c), NEW j \in 1 .. Len(c), c[i] = c[j] PROVE i = j
  BY <1>1, <1>2, <1>3, <1>4 DEF Placed
<1>5. ASSUME NEW i \in 1 .. Len(s), NEW j \in 1 .. Len(c), i <= w PROVE s[i] # c[j]
  BY <1>1, <1>2, <1>5 DEF Placed
<1>. QED
  BY <1>3, <1>4, <1>5 DEF Placed, c

\* The sockets a worker makes by dialling come behind those it accepted.
LEMMA PlacedDial ==
  ASSUME NEW s \in Seq(Node), NEW b, NEW w \in Nat, NEW D, NEW e \in Node,
         Len(s) >= w, e = Len(s) + 1, Placed(s, b, w, D)
  PROVE  Placed(Append(s, e), b, w, D)
<1> DEFINE t == Append(s, e)
<1>1. /\ Len(t) = Len(s) + 1 /\ Len(s) \in Nat
      /\ \A i \in 1 .. Len(s) : t[i] = s[i]
      /\ t[Len(s) + 1] = Len(s) + 1
  OBVIOUS
<1> HIDE DEF t
<1>2. \A i \in 1 .. Len(t) : i <= w => i \in 1 .. Len(s)
  BY <1>1
<1>3. \A i \in 1 .. Len(t) : i \in 1 .. Len(s) \/ (i = Len(s) + 1 /\ ~ (i <= w) /\ t[i] = i)
  BY <1>1
<1>. QED
  BY <1>1, <1>2, <1>3 DEF Placed, t

\* Every connection is dialled once, and becomes one socket on either side.
LEMMA NextMeshInv == IInv /\ [Next]_vars => MeshInv'
<1> SUFFICES ASSUME IInv, [Next]_vars, NEW v \in Worker
             PROVE  Placed(sockets'[v], backlog'[v], v, DialledBy(v)')
  BY DEF MeshInv, Placed, DialledBy
<1> USE Constants
<1> DEFINE Old == Placed(sockets[v], backlog[v], v, DialledBy(v))
           New(s, b, D) == Placed(s, b, v, D)
<1>t. TypeOK /\ RootInv /\ WorkerInv /\ \A w \in Worker : Placed(sockets[w], backlog[w], w, DialledBy(w))
  BY MeshInvPlaced DEF IInv
<1>s. /\ sockets \in [Node -> Seq(Node)] /\ backlog \in [Worker -> Seq(Node)]
      /\ turn \in Worker
  BY <1>t DEF TypeOK
<1>n. \A w \in Worker : w \in Node /\ w # Root /\ w \in Nat
  OBVIOUS
<1>v. /\ v \in Node /\ v \in Nat
      /\ sockets[v] \in Seq(Node) /\ backlog[v] \in Seq(Node)
      /\ Placed(sockets[v], backlog[v], v, DialledBy(v))
  BY <1>n, <1>s, <1>t
<1>h. \A w \in Worker : DialledBy(w) \subseteq DialledBy(w)'
  <2> SUFFICES ASSUME NEW w \in Worker, NEW m \in 0 .. w - 1, HasDialled(m, w) PROVE HasDialled(m, w)'
    BY DEF DialledBy
  <2>1. m \in Node /\ w \in Nat
    BY <1>n
  <2>2. Len(sockets'[m]) \in Nat /\ Len(sockets[m]) \in Nat /\ Len(sockets'[m]) >= Len(sockets[m])
    BY <2>1, SocketsGrow
  <2>. QED
    BY <2>1, <2>2 DEF HasDialled
\* What a step must leave alone for this invariant to hold after it.
<1>u. ASSUME sockets'[v] = sockets[v], backlog'[v] = backlog[v]
      PROVE  Placed(sockets'[v], backlog'[v], v, DialledBy(v)')
  BY <1>u, <1>v, <1>h, PlacedInMore
<1>1. CASE RootConnect
  <2>1. sockets[turn] = <<>> /\ backlog[turn] = <<>>
    BY <1>1, <1>t DEF RootConnect, RootInv
  <2>2. sockets' = sockets /\ backlog' = [backlog EXCEPT ![turn] = Append(@, Root)]
    BY <1>1 DEF RootConnect
  <2>3. CASE v # turn
    BY <2>2, <2>3, <1>s, <1>u
  <2>4. CASE v = turn
    <3>1. sockets'[v] = <<>> /\ backlog'[v] = <<Root>>
      BY <2>1, <2>2, <2>4, <1>s
    <3>2. Root \in DialledBy(v)'
      BY <1>v DEF DialledBy, HasDialled
    <3>. QED
      BY <3>1, <3>2 DEF Placed
  <2>. QED
    BY <2>3, <2>4
<1>2. CASE RootReadAck
  <2>1. sockets' = [sockets EXCEPT ![Root] = Append(@, turn)] /\ backlog' = backlog
    BY <1>2 DEF RootReadAck
  <2>. QED
    BY <2>1, <1>n, <1>s, <1>u
<1>3. ASSUME NEW w \in Worker, AcceptOldest(w), Len(sockets[w]) < w
      PROVE  Placed(sockets'[v], backlog'[v], v, DialledBy(v)')
  <2>1. CASE v # w
    BY <1>3, <2>1, <1>s, <1>u DEF AcceptOldest
  <2>2. CASE v = w
    <3>1. /\ sockets'[v] = Append(sockets[v], Head(backlog[v])) /\ backlog'[v] = Tail(backlog[v])
          /\ backlog[v] # <<>>
      BY <1>3, <2>2, <1>s, <1>v DEF AcceptOldest
    <3>2. Placed(sockets'[v], backlog'[v], v, DialledBy(v))
      BY <3>1, <1>3, <2>2, <1>v, PlacedAccept
    <3>. QED
      BY <3>2, <1>h, PlacedInMore
  <2>. QED
    BY <2>1, <2>2
<1>4. ASSUME NEW w \in Worker, AcceptRoot(w)
      PROVE  Placed(sockets'[v], backlog'[v], v, DialledBy(v)')
  <2>1. sockets[w] = <<>> /\ Len(sockets[w]) < w
    BY <1>4, <1>t DEF AcceptRoot, WorkerInv
  <2>. QED
    BY <1>4, <2>1, <1>3 DEF AcceptRoot
<1>5. ASSUME NEW w \in Worker, MeshAccept(w)
      PROVE  Placed(sockets'[v], backlog'[v], v, DialledBy(v)')
  BY <1>5, <1>3 DEF MeshAccept, NextSocket
<1>6. ASSUME NEW w \in Worker, MeshConnect(w)
      PROVE  Placed(sockets'[v], backlog'[v], v, DialledBy(v)')
  <2> DEFINE p == Dialled(w)
  <2>1. /\ p = Len(sockets[w]) + 1 /\ p \in w + 1 .. NWorkers /\ Len(sockets[w]) >= w
        /\ Len(sockets[w]) \in Nat
    BY <1>6, <1>n, <1>s DEF MeshConnect, Dialled, NextSocket, Meant
  <2>2. p \in Worker /\ p # w /\ w \in Node /\ p \in Node /\ w \in 0 .. p - 1
    BY <2>1, <1>n
  <2>3. \/ UNCHANGED <<backlog, sockets>>
        \/ /\ backlog' = [backlog EXCEPT ![p] = Append(@, w)]
           /\ sockets' = [sockets EXCEPT ![w] = Append(@, p)]
    BY <1>6 DEF MeshConnect
  <2> HIDE DEF p
  <2>4. CASE UNCHANGED <<backlog, sockets>>
    BY <2>4, <1>u
  <2>5. CASE /\ backlog' = [backlog EXCEPT ![p] = Append(@, w)]
             /\ sockets' = [sockets EXCEPT ![w] = Append(@, p)]
    <3>1. CASE v # w /\ v # p
      BY <2>5, <3>1, <1>s, <1>u
    <3>2. CASE v = w
      <4>1. sockets'[v] = Append(sockets[v], p) /\ backlog'[v] = backlog[v]
        BY <2>2, <2>5, <3>2, <1>s
      <4>2. Placed(sockets'[v], backlog'[v], v, DialledBy(v))
        BY <4>1, <2>1, <2>2, <3>2, <1>v, PlacedDial
      <4>. QED
        BY <4>2, <1>h, PlacedInMore
    <3>3. CASE v = p
      <4>1. sockets'[v] = sockets[v] /\ backlog'[v] = Append(backlog[v], w)
        BY <2>2, <2>5, <3>3, <1>s
      <4>2. w \notin DialledBy(v)
        BY <2>1, <2>2, <3>3, <1>n DEF DialledBy, HasDialled
      <4>3. Placed(sockets'[v], backlog'[v], v, DialledBy(v) \cup {w})
        BY <4>1, <4>2, <2>2, <1>v, PlacedQueue
      <4>4. w \in DialledBy(v)'
        <5>1. sockets'[w] = Append(sockets[w], p) /\ sockets[w] \in Seq(Node)
          BY <2>2, <2>5, <1>s
        <5>2. Len(sockets'[w]) = p
          BY <5>1, <2>1
        <5>. QED
          BY <5>2, <2>1, <2>2, <3>3 DEF DialledBy, HasDialled
      <4>. QED
        BY <4>3, <4>4, <1>h, PlacedInMore
    <3>. QED
      BY <3>1, <3>2, <3>3
  <2>. QED
    BY <2>3, <2>4, <2>5
<1>7. CASE UNCHANGED <<sockets, backlog>>
  BY <1>7, <1>u
<1>8. CASE RootStep
  BY <1>1, <1>2, <1>7, <1>8 DEF RootStep, RootRefused, RootSignal, ReadError
<1>9. ASSUME NEW w \in Worker, Serve(w) \/ WorkerStep(w)
      PROVE  Placed(sockets'[v], backlog'[v], v, DialledBy(v)')
  BY <1>4, <1>5, <1>6, <1>7, <1>9 DEF WorkerStep, Serve, ReadTopology, ReadReady, MeshDone, ReadError
<1>10. ASSUME NEW n \in Node, Crash(n)
       PROVE  Placed(sockets'[v], backlog'[v], v, DialledBy(v)')
  BY <1>7, <1>10 DEF Crash
<1>. QED
  BY <1>7, <1>8, <1>9, <1>10 DEF Next, vars

-----------------------------------------------------------------------------
(* The theorems.                                                           *)

\* The invariant is inductive.
LEMMA Inductive == Spec => []IInv
<1>1. IInv /\ [Next]_vars => IInv'
  BY NextTypeOK, NextRootInv, NextWorkerInv, NextMeshInv DEF IInv
<1>. QED
  BY InitIInv, <1>1, PTL DEF Spec

\* The variables keep their types, and no process ever has more sockets than
\* there are peers.
THEOREM TypeCorrect == Spec => []TypeOK
<1>1. IInv => TypeOK
  BY DEF IInv
<1>. QED
  BY Inductive, <1>1, PTL

\* Socket 0 of a worker leads to the root: a worker dials the others only after
\* the root's signal, which follows every worker's acknowledgement.
THEOREM RootFirst == Spec => []RootIsSocketZero
<1>1. IInv => RootIsSocketZero
  BY DEF IInv, WorkerInv, RootIsSocketZero
<1>. QED
  BY Inductive, <1>1, PTL

\* The first w sockets of a worker that is through lead to all w nodes below
\* it: w different numbers below w are all the numbers below w.
LEMMA BelowCovered ==
  ASSUME NEW w \in Nat, NEW s, \A i \in 1 .. w : s[i] \in 0 .. w - 1,
         \A i, j \in 1 .. w : s[i] = s[j] => i = j
  PROVE  \A m \in 0 .. w - 1 : \E i \in 1 .. w : s[i] = m
<1> DEFINE f == [i \in 1 .. w |-> s[i]]
<1>1. IsFiniteSet(1 .. w) /\ IsFiniteSet(0 .. w - 1)
  BY FS_Interval
<1>2. Cardinality(1 .. w) = w /\ Cardinality(0 .. w - 1) = w
  BY FS_Interval
<1>3. f \in Injection(1 .. w, 0 .. w - 1)
  BY DEF Injection, IsInjective
<1>4. f \in Surjection(1 .. w, 0 .. w - 1)
  BY <1>1, <1>2, <1>3, FS_Injection
<1>. QED
  BY <1>4 DEF Surjection

\* The first w sockets of a worker w that is through: one to every node below.
LEMMA DoneCoversBelow ==
  ASSUME IInv, NEW w \in Worker, pc[w] = "done"
  PROVE  /\ Len(sockets[w]) = NWorkers /\ w \in 1 .. NWorkers
         /\ \A i \in 1 .. w : sockets[w][i] \in 0 .. w - 1
         /\ \A m \in 0 .. w - 1 : \E i \in 1 .. w : sockets[w][i] = m
<1>1. Len(sockets[w]) = NWorkers /\ w \in 1 .. NWorkers
  BY Constants DEF IInv, WorkerInv
<1>2. \A i \in 1 .. w : i \in 1 .. Len(sockets[w])
  BY <1>1, Constants
<1>3. \A i \in 1 .. w : sockets[w][i] \in 0 .. w - 1
  BY <1>1, <1>2 DEF IInv, MeshInv
<1>4. \A i, j \in 1 .. w : sockets[w][i] = sockets[w][j] => i = j
  BY <1>1, <1>2 DEF IInv, MeshInv
<1>5. w \in Nat
  BY <1>1, Constants
<1>6. \A m \in 0 .. w - 1 : \E i \in 1 .. w : sockets[w][i] = m
  BY <1>3, <1>4, <1>5, BelowCovered
<1>. QED
  BY <1>1, <1>3, <1>6

\* Whoever is through has one socket to every other node: the root because it
\* dials the workers one by one, a worker because those below it dial it once
\* and it dials those above.
THEOREM FullMesh == Spec => []MeshComplete
<1>1. ASSUME IInv, NEW n \in Node, pc[n] = "done"
      PROVE  Len(sockets[n]) = NWorkers /\ {sockets[n][i] : i \in 1 .. NWorkers} = Node \ {n}
  <2>1. CASE n = Root
    <3>1. Len(sockets[n]) = NWorkers /\ \A i \in 1 .. Len(sockets[n]) : sockets[n][i] = i
      BY <1>1, <2>1 DEF IInv, RootInv
    <3>2. {sockets[n][i] : i \in 1 .. NWorkers} = 1 .. NWorkers
      BY <3>1
    <3>. QED
      BY <2>1, <3>1, <3>2, Constants
  <2>2. CASE n \in Worker
    <3>1. /\ Len(sockets[n]) = NWorkers /\ n \in 1 .. NWorkers
          /\ \A i \in 1 .. n : sockets[n][i] \in 0 .. n - 1
          /\ \A m \in 0 .. n - 1 : \E i \in 1 .. n : sockets[n][i] = m
      BY <1>1, <2>2, DoneCoversBelow
    <3>2. ASSUME NEW i \in n + 1 .. NWorkers PROVE sockets[n][i] = i
      <4>1. i \in 1 .. Len(sockets[n]) /\ ~ (i <= n)
        BY <3>1, Constants
      <4>. QED
        BY <1>1, <2>2, <4>1 DEF IInv, MeshInv
    <3>3. ASSUME NEW i \in 1 .. NWorkers PROVE sockets[n][i] \in Node \ {n}
      <4>1. CASE i <= n
        BY <3>1, <4>1, Constants
      <4>2. CASE ~ (i <= n)
        BY <3>1, <3>2, <4>2, Constants
      <4>. QED
        BY <4>1, <4>2
    <3>4. ASSUME NEW m \in Node \ {n} PROVE \E i \in 1 .. NWorkers : sockets[n][i] = m
      <4>1. CASE m < n
        <5>1. m \in 0 .. n - 1 /\ \A i \in 1 .. n : i \in 1 .. NWorkers
          BY <3>1, <4>1, Constants
        <5>. QED
          BY <3>1, <5>1
      <4>2. CASE ~ (m < n)
        <5>1. m \in n + 1 .. NWorkers /\ m \in 1 .. NWorkers
          BY <3>1, <4>2, Constants
        <5>. QED
          BY <3>2, <5>1
      <4>. QED
        BY <4>1, <4>2
    <3>5. {sockets[n][i] : i \in 1 .. NWorkers} = Node \ {n}
      BY <3>3, <3>4
    <3>. QED
      BY <3>1, <3>5
  <2>. QED
    BY <2>1, <2>2 DEF Worker
<1>2. IInv => MeshComplete
  BY <1>1 DEF MeshComplete
<1>. QED
  BY Inductive, <1>2, PTL

\* When a worker closes its server, nobody is left in its backlog: those who
\* could be there, the nodes below it, all have a socket already.
THEOREM BacklogDrained == Spec => []NothingDropped
<1>1. ASSUME IInv, NEW w \in Worker, pc[w] = "done" PROVE backlog[w] = <<>>
  <2>1. backlog[w] \in Seq(Node)
    BY <1>1 DEF IInv, TypeOK
  <2>2. SUFFICES ASSUME backlog[w] # <<>> PROVE FALSE
    OBVIOUS
  <2>3. 1 \in 1 .. Len(backlog[w])
    BY <2>1, <2>2
  <2>4. backlog[w][1] \in 0 .. w - 1
    BY <1>1, <2>3 DEF IInv, MeshInv
  <2>5. PICK i \in 1 .. w : sockets[w][i] = backlog[w][1]
    BY <1>1, <2>4, DoneCoversBelow
  <2>6. i \in 1 .. Len(sockets[w]) /\ i <= w
    BY <1>1, DoneCoversBelow, Constants
  <2>. QED
    BY <1>1, <2>3, <2>5, <2>6 DEF IInv, MeshInv
<1>2. IInv => NothingDropped
  BY <1>1 DEF NothingDropped
<1>. QED
  BY Inductive, <1>2, PTL

=============================================================================
