------------------------------ MODULE Handshake ------------------------------
(***************************************************************************)
(* How a cluster connects: NnNetwork.connect on the root, NnNetwork.serve  *)
(* on every worker.  The root dials the workers one by one, tells each its *)
(* index and the addresses of the others, and when all have acknowledged   *)
(* gives each the signal to go on.  Then every worker dials the workers    *)
(* above it and accepts those below it.                                    *)
(*                                                                         *)
(* A TCP connect succeeds as soon as the other side listens: the           *)
(* connection waits in its backlog, and accept() hands out the oldest.     *)
(* Nobody says who it is, so who a socket leads to is known only from the  *)
(* order in which connections arrive.                                      *)
(***************************************************************************)
EXTENDS Naturals, Sequences, FiniteSets

CONSTANTS
  NNodes,      \* the root and the workers
  MaxFaults    \* bound: process crashes of a run

Node == 0 .. NNodes - 1
Root == 0
Worker == Node \ {Root}
NWorkers == NNodes - 1

ASSUME HandshakeAssumption ==
  /\ NNodes \in Nat /\ NNodes >= 2
  /\ MaxFaults \in Nat

VARIABLES
  pc,       \* where a process is
  turn,     \* the worker the root is dealing with: i + 1 in its loops
  sockets,  \* sockets[n]: the nodes its sockets lead to, socket 0 first
  backlog,  \* backlog[w]: connections that wait for w to accept them
  wire,     \* wire[m][n]: messages on their way from m to n
  faults    \* crashes so far

vars == <<pc, turn, sockets, backlog, wire, faults>>

Topology == "topology"
ACK == "ACK"

Gone == {"done", "dead"}

\* The server socket of w is open: connect() to it succeeds.
Listening(w) == pc[w] \notin {"down", "done", "dead"}

\* Socket s of worker w is meant for this node: hosts[s - 1], for s > 0.
Meant(w, s) == IF s < w THEN s ELSE s + 1

Init ==
  /\ pc = [n \in Node |-> IF n = Root THEN "connect" ELSE "down"]
  /\ turn = 1
  /\ sockets = [n \in Node |-> <<>>]
  /\ backlog = [w \in Worker |-> <<>>]
  /\ wire = [m \in Node |-> [n \in Node |-> <<>>]]
  /\ faults = 0

Goto(n, l) == pc' = [pc EXCEPT ![n] = l]
Put(m, n, msg) == wire' = [wire EXCEPT ![m][n] = Append(@, msg)]
Take(m, n, msg) ==
  /\ wire[m][n] # <<>>
  /\ Head(wire[m][n]) = msg

-----------------------------------------------------------------------------
(* The root: NnNetwork.connect.                                            *)

RootConnect ==
  /\ pc[Root] = "connect"
  /\ Listening(turn)
  /\ backlog' = [backlog EXCEPT ![turn] = Append(@, Root)]
  /\ Put(Root, turn, Topology)
  /\ Goto(Root, "ack")
  /\ UNCHANGED <<turn, sockets, faults>>

\* connect() to a worker that is not up raises, and the root ends.
RootRefused ==
  /\ pc[Root] = "connect"
  /\ ~ Listening(turn)
  /\ Goto(Root, "dead")
  /\ UNCHANGED <<turn, sockets, backlog, wire, faults>>

\* Variant with a bug: one worker too many.
NextTurnTooFar ==
  \/ turn <= NWorkers /\ turn' = turn + 1 /\ Goto(Root, "connect")
  \/ turn > NWorkers /\ turn' = 1 /\ Goto(Root, "signal")

NextTurn ==
  \/ turn < NWorkers /\ turn' = turn + 1 /\ Goto(Root, "connect")
  \/ turn = NWorkers /\ turn' = 1 /\ Goto(Root, "signal")

RootReadAck ==
  /\ pc[Root] = "ack"
  /\ Take(turn, Root, ACK)
  /\ wire' = [wire EXCEPT ![turn][Root] = Tail(@)]
  /\ sockets' = [sockets EXCEPT ![Root] = Append(@, turn)]
  /\ NextTurn
  /\ UNCHANGED <<backlog, faults>>

\* Variant with a bug: the last worker gets no signal.
RootSignalShort ==
  /\ pc[Root] = "signal"
  /\ \/ turn < NWorkers /\ turn' = turn + 1 /\ Put(Root, turn, ACK) /\ UNCHANGED pc
     \/ turn = NWorkers /\ Goto(Root, "done") /\ UNCHANGED <<turn, wire>>
  /\ UNCHANGED <<sockets, backlog, faults>>

\* The readiness signal, to the workers in order.
RootSignal ==
  /\ pc[Root] = "signal"
  /\ Put(Root, turn, ACK)
  /\ \/ turn < NWorkers /\ turn' = turn + 1 /\ UNCHANGED pc
     \/ turn = NWorkers /\ turn' = turn /\ Goto(Root, "done")
  /\ UNCHANGED <<sockets, backlog, faults>>

-----------------------------------------------------------------------------
(* A worker: NnNetwork.serve.                                              *)

\* bind and listen.
Serve(w) ==
  /\ pc[w] = "down"
  /\ Goto(w, "accept")
  /\ UNCHANGED <<turn, sockets, backlog, wire, faults>>

AcceptOldest(w) ==
  /\ backlog[w] # <<>>
  /\ sockets' = [sockets EXCEPT ![w] = Append(@, Head(backlog[w]))]
  /\ backlog' = [backlog EXCEPT ![w] = Tail(@)]

\* root_conn is whoever comes first.
AcceptRoot(w) ==
  /\ pc[w] = "accept"
  /\ AcceptOldest(w)
  /\ Goto(w, "topology")
  /\ UNCHANGED <<turn, wire, faults>>

RootConn(w) == sockets[w][1]

\* Variant with a bug: the mesh is built without waiting for the signal.
ReadTopologyNoWait(w) ==
  /\ pc[w] = "topology"
  /\ Take(RootConn(w), w, Topology)
  /\ wire' = [wire EXCEPT ![RootConn(w)][w] = Tail(@),
                          ![w][RootConn(w)] = Append(@, ACK)]
  /\ Goto(w, "mesh")
  /\ UNCHANGED <<turn, sockets, backlog, faults>>

\* Reads n_sockets, its index and the other addresses, and acknowledges them.
ReadTopology(w) ==
  /\ pc[w] = "topology"
  /\ Take(RootConn(w), w, Topology)
  /\ wire' = [wire EXCEPT ![RootConn(w)][w] = Tail(@),
                          ![w][RootConn(w)] = Append(@, ACK)]
  /\ Goto(w, "ready")
  /\ UNCHANGED <<turn, sockets, backlog, faults>>

ReadReady(w) ==
  /\ pc[w] = "ready"
  /\ Take(RootConn(w), w, ACK)
  /\ wire' = [wire EXCEPT ![RootConn(w)][w] = Tail(@)]
  /\ Goto(w, "mesh")
  /\ UNCHANGED <<turn, sockets, backlog, faults>>

\* The socket the mesh loop is about to make.
NextSocket(w) == Len(sockets[w])

\* Variant with a bug: hosts[i] taken from a list with w itself in it.
DialledOfAll(w) == NextSocket(w)

\* The node at hosts[i].
Dialled(w) == Meant(w, NextSocket(w))

MeshConnect(w) ==
  /\ pc[w] = "mesh"
  /\ NextSocket(w) \in w .. NWorkers - 1
  /\ LET p == Dialled(w)
     IN  \/ /\ Listening(p)
            /\ backlog' = [backlog EXCEPT ![p] = Append(@, w)]
            /\ sockets' = [sockets EXCEPT ![w] = Append(@, p)]
            /\ UNCHANGED pc
         \/ /\ ~ Listening(p)
            /\ Goto(w, "dead")
            /\ UNCHANGED <<backlog, sockets>>
  /\ UNCHANGED <<turn, wire, faults>>

MeshAccept(w) ==
  /\ pc[w] = "mesh"
  /\ NextSocket(w) < w
  /\ AcceptOldest(w)
  /\ UNCHANGED <<pc, turn, wire, faults>>

\* Variant with a bug: the root's socket is counted among the workers'.
MeshDoneShort(w) ==
  /\ pc[w] = "mesh"
  /\ NextSocket(w) >= NWorkers - 1
  /\ Goto(w, "done")
  /\ UNCHANGED <<turn, sockets, backlog, wire, faults>>

\* server.close(): what is left in the backlog is dropped.
MeshDone(w) ==
  /\ pc[w] = "mesh"
  /\ NextSocket(w) = NWorkers
  /\ Goto(w, "done")
  /\ UNCHANGED <<turn, sockets, backlog, wire, faults>>

-----------------------------------------------------------------------------
(* Failures: a crash, and the end of stream the others see.                *)

Crash(n) ==
  /\ faults < MaxFaults
  /\ pc[n] \notin {"down", "dead"}
  /\ Goto(n, "dead")
  /\ faults' = faults + 1
  /\ UNCHANGED <<turn, sockets, backlog, wire>>

\* recv raises ConnectionError when the peer is gone and the stream drained.
ReadError(n) ==
  /\ \/ pc[n] \in {"topology", "ready"} /\ pc[RootConn(n)] = "dead"
          /\ wire[RootConn(n)][n] = <<>>
     \/ n = Root /\ pc[n] = "ack" /\ pc[turn] = "dead"
          /\ wire[turn][n] = <<>>
  /\ Goto(n, "dead")
  /\ UNCHANGED <<turn, sockets, backlog, wire, faults>>

-----------------------------------------------------------------------------
RootStep == RootConnect \/ RootRefused \/ RootReadAck \/ RootSignal \/ ReadError(Root)

WorkerStep(w) ==
  \/ AcceptRoot(w)
  \/ ReadTopology(w)
  \/ ReadReady(w)
  \/ MeshConnect(w)
  \/ MeshAccept(w)
  \/ MeshDone(w)
  \/ ReadError(w)

Next ==
  \/ RootStep
  \/ \E w \in Worker : Serve(w) \/ WorkerStep(w)
  \/ \E n \in Node : Crash(n)

\* Processes that run make progress; whether a worker is ever started, and
\* when, is the user's business.
Spec == Init /\ [][Next]_vars
FairSpec ==
  /\ Spec
  /\ WF_vars(RootStep)
  /\ \A w \in Worker : WF_vars(WorkerStep(w))

-----------------------------------------------------------------------------
(* Properties.                                                             *)

\* Type invariant: no node has more sockets than there are peers.
TypeOK ==
  /\ pc \in [Node -> {"connect", "ack", "signal", "down", "accept", "topology",
                      "ready", "mesh"} \cup Gone]
  /\ turn \in Worker
  /\ sockets \in [Node -> Seq(Node)]
  /\ \A n \in Node : Len(sockets[n]) <= NWorkers
  /\ backlog \in [Worker -> Seq(Node)]
  /\ wire \in [Node -> [Node -> Seq({Topology, ACK})]]
  /\ faults \in Nat

\* The first connection a worker accepts is the root's: no worker dials another
\* before that one has taken its root connection out of the backlog.
RootIsSocketZero ==
  \A w \in Worker : sockets[w] # <<>> => sockets[w][1] = Root

\* A process that is through has one socket to every other node, not two to the
\* same one and none to itself, crashes of others or not.
MeshComplete ==
  \A n \in Node : pc[n] = "done" =>
    /\ Len(sockets[n]) = NWorkers
    /\ {sockets[n][i] : i \in 1 .. NWorkers} = Node \ {n}

\* No worker closes its server over a connection nobody has accepted yet.
NothingDropped ==
  \A w \in Worker : pc[w] = "done" => backlog[w] = <<>>

\* Once all are up and the root has not run into a refusal, all get connected,
\* or a process crashes.
Connects ==
  (faults = 0 /\ pc[Root] # "dead" /\ \A w \in Worker : pc[w] # "down")
    ~> (faults > 0 \/ \A n \in Node : pc[n] = "done")

=============================================================================
