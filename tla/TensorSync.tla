------------------------------ MODULE TensorSync ------------------------------
(***************************************************************************)
(* The inference loop of a cluster: the root drives a sequence of forward  *)
(* passes, every node walks the same list of steps, and the pipes are      *)
(* brought together after each segment over raw TCP streams.               *)
(*                                                                         *)
(* Nothing on the wire says what a chunk is: no length, no step, no row.   *)
(* A read means what the reader's own position in the step list says it    *)
(* means, so the streams stay aligned only if all nodes make the same      *)
(* calls in the same order.  A message below therefore carries, as ghost   *)
(* data, what its sender put in it.                                        *)
(*                                                                         *)
(* Code: network.py (NnNetworkNodeSynchronizer, write_many, read_many),    *)
(* executor.py (NnExecutor.forward), inference.py (RootLlmInference,       *)
(* WorkerLlmInference, run_worker_app, run_inference_app).                 *)
(***************************************************************************)
EXTENDS Naturals, Sequences, FiniteSets

CONSTANTS
  NNodes,        \* the root and the workers
  NLayers,       \* transformer layers: two all-gathers each
  NBatches,      \* rows of a pipe: the largest batch
  NThreads,      \* NThreads[n]: --nthreads of node n
  Chunks,        \* chunks of MAX_CHUNK_SIZE in one row (or slice of a row)
  Cap,           \* chunks a connection holds in one direction before send blocks
  MaxForwards,   \* bound: forward passes of a run
  MaxFaults      \* bound: process crashes and exceptions of a run

Node == 0 .. NNodes - 1
Root == 0
Worker == Node \ {Root}
Rows == 0 .. NBatches - 1

ASSUME ClusterAssumption ==
  /\ NNodes \in Nat /\ NNodes >= 2
  /\ NLayers \in Nat \ {0}
  /\ NBatches \in Nat \ {0}
  /\ NThreads \in [Node -> Nat \ {0}]
  /\ Chunks \in Nat \ {0}
  /\ Cap \in Nat \ {0}
  /\ MaxForwards \in Nat
  /\ MaxFaults \in Nat

VARIABLES
  calls,   \* history: the control packets of the root, [pos, batch] per forward
  pc,      \* where a node's program is
  fwd,     \* number of the forward pass a node is in, or was in last
  pos,     \* position of row 0, as the node's position pipe has it
  batch,   \* execution.batch_size
  step,    \* the sync step it is at
  row,     \* batch_idx of that sync
  io,      \* io[n][p]: chunks moved to or from p in the current I/O call
  chan,    \* chan[m][n]: chunks on their way from m to n
  x,       \* the X pipe: one version per row
  zq,      \* the ZQ pipe: per row, one version per slice
  lg,      \* the logits pipe, likewise
  faults   \* faults so far

place == <<fwd, pos, batch, step, row>>
pipes == <<x, zq, lg>>
vars == <<calls, pc, place, io, chan, pipes, faults>>

-----------------------------------------------------------------------------
(* The step list: what build_llm_net makes the same on every node.         *)

NSteps == 2 * NLayers + 2
Steps == 1 .. NSteps

SyncType(s) ==
  IF s = 1 THEN "SYNC_WITH_ROOT"
  ELSE IF s = NSteps THEN "SYNC_NODE_SLICES_EXCEPT_ROOT"
  ELSE "SYNC_NODE_SLICES"

Peers(n) == Node \ {n}

\* The socket of n that leads to p: slice_index read backwards.
SocketOf(n, p) == IF p < n THEN p ELSE p - 1

\* sync() runs in thread 0 only, and thread 0 of nt takes sockets 0, nt, 2nt...
Served(n) == {p \in Peers(n) : SocketOf(n, p) % NThreads[n] = 0}

\* The peers n sends its row or slice to in step s (phase 1) ...
Targets(n, s) ==
  IF SyncType(s) = "SYNC_NODE_SLICES" THEN Served(n)
  ELSE IF SyncType(s) = "SYNC_WITH_ROOT" /\ n = Root THEN Served(n)
  ELSE IF SyncType(s) = "SYNC_NODE_SLICES_EXCEPT_ROOT" /\ n # Root THEN {Root}
  ELSE {}

\* Variant with a bug: the root takes the logits for already there.
SourcesNoLogits(n, s) ==
  IF SyncType(s) = "SYNC_NODE_SLICES" THEN Served(n)
  ELSE IF SyncType(s) = "SYNC_WITH_ROOT" /\ n # Root THEN {Root}
  ELSE {}

\* ... and those it receives one from (phase 2).
Sources(n, s) ==
  IF SyncType(s) = "SYNC_NODE_SLICES" THEN Served(n)
  ELSE IF SyncType(s) = "SYNC_WITH_ROOT" /\ n # Root THEN {Root}
  ELSE IF SyncType(s) = "SYNC_NODE_SLICES_EXCEPT_ROOT" /\ n = Root THEN Served(n)
  ELSE {}

-----------------------------------------------------------------------------
(* Data.  A version says which computation produced a row or a slice.      *)

Version(f, s) == [fwd |-> f, step |-> s]
Blank == Version(0, 0)

Call(p, b) == [pos |-> p, batch |-> b]
Stop == Call(0, 0)

\* A control packet is 8 bytes of its own; step 0 stands for it.
Control(f, c) == [ver |-> Version(f, 0), row |-> 0, chunk |-> 0, call |-> c]
Data(v, r, c) == [ver |-> v, row |-> r, chunk |-> c, call |-> Stop]

IsControl(m) == m.ver.step = 0
\* Variant with a bug: told by the position, which is 0 in a first forward too.
IsStopByPosition(m) == IsControl(m) /\ m.call.pos = 0

IsStop(m) == IsControl(m) /\ m.call = Stop

\* What n puts on the wire in the current row.
Outgoing(n) ==
  IF SyncType(step[n]) = "SYNC_WITH_ROOT" THEN x[n][row[n]]
  ELSE IF SyncType(step[n]) = "SYNC_NODE_SLICES" THEN zq[n][row[n]][n]
  ELSE lg[n][row[n]][n]

NoIO == [p \in Node |-> 0]

Stopped == {"finished", "dead"}
InForward == {"announce", "op", "send", "recv"}

\* read_many and write_many go round the sockets, one chunk each: p is next.
Turn(n, p, S, size) ==
  /\ p \in S
  /\ io[n][p] < size
  /\ \A q \in S : io[n][q] > io[n][p] \/ (io[n][q] = io[n][p] /\ p <= q)

\* Variant with a bug: the I/O loop ends with the first socket that is through.
AnyMoved(n, S, size) == S = {} \/ \E p \in S : io[n][p] = size

AllMoved(n, S, size) == \A p \in S : io[n][p] = size

-----------------------------------------------------------------------------
Init ==
  /\ calls = <<>>
  /\ pc = [n \in Node |-> "ctl"]
  /\ fwd = [n \in Node |-> 0]
  /\ pos = [n \in Node |-> 0]
  /\ batch = [n \in Node |-> 0]
  /\ step = [n \in Node |-> NSteps]
  /\ row = [n \in Node |-> 0]
  /\ io = [n \in Node |-> NoIO]
  /\ chan = [m \in Node |-> [n \in Node |-> <<>>]]
  /\ x = [n \in Node |-> [r \in Rows |-> Blank]]
  /\ zq = [n \in Node |-> [r \in Rows |-> [p \in Node |-> Blank]]]
  /\ lg = [n \in Node |-> [r \in Rows |-> [p \in Node |-> Blank]]]
  /\ faults = 0

Goto(n, l) ==
  /\ pc' = [pc EXCEPT ![n] = l]
  /\ io' = [io EXCEPT ![n] = NoIO]

-----------------------------------------------------------------------------
(* The root between forwards.                                              *)

\* Variant with a bug: the position moves by the rows of the new batch.
FirstRowByNewBatch(b) == pos[Root] + (IF Len(calls) = 0 THEN 0 ELSE b)

\* Where a forward of b rows starts: after the rows of the one before.
FirstRow(b) == pos[Root] + batch[Root]

\* set_batch_size, set_position, and forward() up to the broadcast.
RootForward(b) ==
  /\ pc[Root] = "ctl"
  /\ Len(calls) < MaxForwards
  /\ calls' = Append(calls, Call(FirstRow(b), b))
  /\ pos' = [pos EXCEPT ![Root] = FirstRow(b)]
  /\ batch' = [batch EXCEPT ![Root] = b]
  /\ fwd' = [fwd EXCEPT ![Root] = @ + 1]
  /\ Goto(Root, "announce")
  /\ UNCHANGED <<step, row, chan, pipes, faults>>

\* The handler returns (or raises) between two forwards: finally: finish().
RootFinish ==
  /\ pc[Root] = "ctl"
  /\ Goto(Root, "finish")
  /\ UNCHANGED <<calls, place, chan, pipes, faults>>

\* One packet of write_all: to every socket, whatever the thread count.
RootBroadcast(p) ==
  /\ pc[Root] \in {"announce", "finish"}
  /\ Turn(Root, p, Worker, 1)
  /\ Len(chan[Root][p]) < Cap
  /\ chan' = [chan EXCEPT ![Root][p] = Append(@,
                IF pc[Root] = "finish"
                  THEN Control(fwd[Root] + 1, Stop)
                  ELSE Control(fwd[Root], Call(pos[Root], batch[Root])))]
  /\ io' = [io EXCEPT ![Root][p] = @ + 1]
  /\ UNCHANGED <<calls, pc, place, pipes, faults>>

\* write_all has returned: executor.forward() starts, or the process ends.
RootBroadcastDone ==
  /\ AllMoved(Root, Worker, 1)
  /\ \/ /\ pc[Root] = "announce"
        /\ Goto(Root, "op")
        /\ step' = [step EXCEPT ![Root] = 1]
     \/ /\ pc[Root] = "finish"
        /\ Goto(Root, "finished")
        /\ UNCHANGED step
  /\ UNCHANGED <<calls, fwd, pos, batch, row, chan, pipes, faults>>

-----------------------------------------------------------------------------
(* A worker between forwards: try_read_control_packet.                     *)

\* Variant with a bug: the worker counts positions itself, by the new batch.
StartForwardCounting(w, c) ==
  /\ fwd' = [fwd EXCEPT ![w] = @ + 1]
  /\ pos' = [pos EXCEPT ![w] = IF fwd[w] = 0 THEN 0 ELSE @ + c.batch]
  /\ batch' = [batch EXCEPT ![w] = c.batch]
  /\ step' = [step EXCEPT ![w] = 1]
  /\ row' = [row EXCEPT ![w] = 0]
  /\ Goto(w, "send")

\* Variant with a bug: a worker leaves out the START segment and its sync.
StartForwardNoSync(w, c) ==
  /\ fwd' = [fwd EXCEPT ![w] = @ + 1]
  /\ pos' = [pos EXCEPT ![w] = c.pos]
  /\ batch' = [batch EXCEPT ![w] = c.batch]
  /\ step' = [step EXCEPT ![w] = 2]
  /\ row' = [row EXCEPT ![w] = 0]
  /\ Goto(w, "op")

\* set_batch_size and the position pipe; the START segment has no op.
StartForward(w, c) ==
  /\ fwd' = [fwd EXCEPT ![w] = @ + 1]
  /\ pos' = [pos EXCEPT ![w] = c.pos]
  /\ batch' = [batch EXCEPT ![w] = c.batch]
  /\ step' = [step EXCEPT ![w] = 1]
  /\ row' = [row EXCEPT ![w] = 0]
  /\ Goto(w, "send")

ReadControl(w) ==
  /\ pc[w] = "ctl"
  /\ chan[Root][w] # <<>>
  /\ chan' = [chan EXCEPT ![Root][w] = Tail(@)]
  /\ LET m == Head(chan[Root][w])
     IN  \/ IsControl(m) /\ ~IsStop(m) /\ StartForward(w, m.call)
         \/ IsStop(m) /\ Goto(w, "finished") /\ UNCHANGED place
         \* Data is no batch size: set_batch_size raises.
         \/ ~IsControl(m) /\ Goto(w, "dead") /\ UNCHANGED place
  /\ UNCHANGED <<calls, pipes, faults>>

-----------------------------------------------------------------------------
(* executor.forward(): the ops of a segment, then its sync row by row.     *)

\* The rows of the batch with slice n of each computed anew.
OwnSlice(n, slices) ==
  [r \in Rows |->
     IF r < batch[n]
       THEN [slices[r] EXCEPT ![n] = Version(fwd[n], step[n])]
       ELSE slices[r]]

\* The ops of the segment of step[n] fill the node's own part of the pipe.
Compute(n) ==
  /\ pc[n] = "op"
  /\ \/ /\ SyncType(step[n]) = "SYNC_WITH_ROOT"
        /\ x' = [x EXCEPT ![n] =
             [r \in Rows |->
                IF r < batch[n] THEN Version(fwd[n], step[n]) ELSE x[n][r]]]
        /\ UNCHANGED <<zq, lg>>
     \/ /\ SyncType(step[n]) = "SYNC_NODE_SLICES"
        /\ zq' = [zq EXCEPT ![n] = OwnSlice(n, zq[n])]
        /\ UNCHANGED <<x, lg>>
     \/ /\ SyncType(step[n]) = "SYNC_NODE_SLICES_EXCEPT_ROOT"
        /\ lg' = [lg EXCEPT ![n] = OwnSlice(n, lg[n])]
        /\ UNCHANGED <<x, zq>>
  /\ row' = [row EXCEPT ![n] = 0]
  /\ Goto(n, "send")
  /\ UNCHANGED <<calls, fwd, pos, batch, step, chan, faults>>

\* Variant with a bug: the write offset is not advanced.
NextChunkAgain(n, p) == Data(Outgoing(n), row[n], 0)

\* The chunk of its part of the pipe that n sends to p next.
NextChunk(n, p) == Data(Outgoing(n), row[n], io[n][p])

\* Phase 1: one chunk of write_many.
WriteChunk(n, p) ==
  /\ pc[n] = "send"
  /\ Turn(n, p, Targets(n, step[n]), Chunks)
  /\ Len(chan[n][p]) < Cap
  /\ chan' = [chan EXCEPT ![n][p] = Append(@, NextChunk(n, p))]
  /\ io' = [io EXCEPT ![n][p] = @ + 1]
  /\ UNCHANGED <<calls, pc, place, pipes, faults>>

WriteDone(n) ==
  /\ pc[n] = "send"
  /\ AllMoved(n, Targets(n, step[n]), Chunks)
  /\ Goto(n, "recv")
  /\ UNCHANGED <<calls, place, chan, pipes, faults>>

\* Variant with a bug: logits are always received into row 0.
StoreInRowZero(n, p, v) ==
  \/ /\ SyncType(step[n]) = "SYNC_WITH_ROOT"
     /\ x' = [x EXCEPT ![n][row[n]] = v]
     /\ UNCHANGED <<zq, lg>>
  \/ /\ SyncType(step[n]) = "SYNC_NODE_SLICES"
     /\ zq' = [zq EXCEPT ![n][row[n]][p] = v]
     /\ UNCHANGED <<x, lg>>
  \/ /\ SyncType(step[n]) = "SYNC_NODE_SLICES_EXCEPT_ROOT"
     /\ lg' = [lg EXCEPT ![n][0][p] = v]
     /\ UNCHANGED <<x, zq>>

\* Where n puts the version it received from p.  (The code fills a copy of the
\* row and writes it back when it is whole; nothing reads the pipe meanwhile.)
Store(n, p, v) ==
  \/ /\ SyncType(step[n]) = "SYNC_WITH_ROOT"
     /\ x' = [x EXCEPT ![n][row[n]] = v]
     /\ UNCHANGED <<zq, lg>>
  \/ /\ SyncType(step[n]) = "SYNC_NODE_SLICES"
     /\ zq' = [zq EXCEPT ![n][row[n]][p] = v]
     /\ UNCHANGED <<x, lg>>
  \/ /\ SyncType(step[n]) = "SYNC_NODE_SLICES_EXCEPT_ROOT"
     /\ lg' = [lg EXCEPT ![n][row[n]][p] = v]
     /\ UNCHANGED <<x, zq>>

\* Phase 2: one chunk of read_many.  A stray control packet is 8 bytes of the
\* slice being read and completes nothing.
ReadChunk(n, p) ==
  /\ pc[n] = "recv"
  /\ Turn(n, p, Sources(n, step[n]), Chunks)
  /\ chan[p][n] # <<>>
  /\ chan' = [chan EXCEPT ![p][n] = Tail(@)]
  /\ \/ /\ IsControl(Head(chan[p][n]))
        /\ UNCHANGED <<io, pipes>>
     \/ /\ ~ IsControl(Head(chan[p][n]))
        /\ io' = [io EXCEPT ![n][p] = @ + 1]
        /\ Store(n, p, Head(chan[p][n]).ver)
  /\ UNCHANGED <<calls, pc, place, faults>>

\* Variant with a bug: one row too many.
NextRowTooFar(n) ==
  /\ row[n] < batch[n]
  /\ row' = [row EXCEPT ![n] = @ + 1]
  /\ Goto(n, "send")
  /\ UNCHANGED step

NextRow(n) ==
  /\ row[n] + 1 < batch[n]
  /\ row' = [row EXCEPT ![n] = @ + 1]
  /\ Goto(n, "send")
  /\ UNCHANGED step

NextSegment(n) ==
  /\ row[n] + 1 >= batch[n]
  /\ step[n] < NSteps
  /\ step' = [step EXCEPT ![n] = @ + 1]
  /\ Goto(n, "op")
  /\ UNCHANGED row

ForwardReturn(n) ==
  /\ row[n] + 1 >= batch[n]
  /\ step[n] = NSteps
  /\ Goto(n, "ctl")
  /\ UNCHANGED <<step, row>>

\* The row is complete: the next row, the next segment, or forward() returns.
RowDone(n) ==
  /\ pc[n] = "recv"
  /\ AllMoved(n, Sources(n, step[n]), Chunks)
  /\ NextRow(n) \/ NextSegment(n) \/ ForwardReturn(n)
  /\ UNCHANGED <<calls, fwd, pos, batch, chan, pipes, faults>>

-----------------------------------------------------------------------------
(* Failures.  A stopped process has closed its sockets.                    *)

Crash(n) ==
  /\ faults < MaxFaults
  /\ pc[n] \notin Stopped
  /\ Goto(n, "dead")
  /\ faults' = faults + 1
  /\ UNCHANGED <<calls, place, chan, pipes>>

\* Variant with a bug: the root catches the exception and goes on serving.
RootRaiseCaught ==
  /\ faults < MaxFaults
  /\ pc[Root] \in InForward
  /\ Goto(Root, "ctl")
  /\ faults' = faults + 1
  /\ UNCHANGED <<calls, place, chan, pipes>>

\* An exception leaves forward() on the root: finally: inference.finish().
RootRaise ==
  /\ faults < MaxFaults
  /\ pc[Root] \in InForward
  /\ Goto(Root, "finish")
  /\ faults' = faults + 1
  /\ UNCHANGED <<calls, place, chan, pipes>>

\* Variant with a bug: the error is swallowed and the call tried again.
OnErrorRetry(n) == UNCHANGED vars

\* Where a ConnectionError or OSError takes a node.
OnError(n) ==
  /\ Goto(n, IF n = Root /\ pc[n] \in InForward THEN "finish"
             ELSE IF n # Root /\ pc[n] = "ctl" THEN "finished"
             ELSE "dead")
  /\ UNCHANGED <<calls, place, chan, pipes, faults>>

\* send to a closed socket may still succeed (into the void) or fail.
WriteError(n, p) ==
  /\ pc[p] \in Stopped
  /\ \/ pc[n] = "send" /\ Turn(n, p, Targets(n, step[n]), Chunks)
     \/ n = Root /\ pc[n] \in {"announce", "finish"} /\ Turn(n, p, Worker, 1)
  /\ OnError(n)

\* End of stream once it is drained; a reset if the peer left data unread.
ReadError(n, p) ==
  /\ pc[p] \in Stopped
  /\ chan[p][n] = <<>> \/ chan[n][p] # <<>>
  /\ \/ pc[n] = "recv" /\ Turn(n, p, Sources(n, step[n]), Chunks)
     \/ n # Root /\ p = Root /\ pc[n] = "ctl"
  /\ OnError(n)

-----------------------------------------------------------------------------
RootStep ==
  \/ \E p \in Worker : RootBroadcast(p)
  \/ RootBroadcastDone

NodeStep(n) ==
  \/ Compute(n)
  \/ WriteDone(n)
  \/ RowDone(n)
  \/ \E p \in Peers(n) :
       WriteChunk(n, p) \/ ReadChunk(n, p) \/ WriteError(n, p) \/ ReadError(n, p)

\* Every process has ended; nothing is left to happen.
Terminated ==
  /\ \A n \in Node : pc[n] \in Stopped
  /\ UNCHANGED vars

Next ==
  \/ \E b \in 1 .. NBatches : RootForward(b)
  \/ RootFinish
  \/ RootStep
  \/ \E w \in Worker : ReadControl(w)
  \/ \E n \in Node : NodeStep(n)
  \/ \E n \in Node : Crash(n)
  \/ RootRaise
  \/ Terminated

\* A process that can run does run: its thread is never suspended for good, and
\* a blocking send or recv returns once it can.  Nothing obliges the application
\* to ask for another forward, to finish, or to fail.
Fairness ==
  /\ WF_vars(RootStep)
  /\ \A n \in Node : WF_vars(NodeStep(n))
  /\ \A w \in Worker : WF_vars(ReadControl(w))

Spec == Init /\ [][Next]_vars
FairSpec == Spec /\ Fairness

-----------------------------------------------------------------------------
(* Properties.                                                             *)

Versions == [fwd : Nat, step : 0 .. NSteps]
Calls == [pos : Nat, batch : 0 .. NBatches]
Messages == [ver : Versions, row : Rows, chunk : 0 .. Chunks - 1, call : Calls]
Labels == InForward \cup {"ctl", "finish"} \cup Stopped

\* Type invariant: no node walks past its step list, the rows of its pipes, the
\* size of a slice, or (set_batch_size) the largest batch, on any path.
TypeOK ==
  /\ calls \in Seq([pos : Nat, batch : 1 .. NBatches])
  /\ pc \in [Node -> Labels]
  /\ fwd \in [Node -> Nat]
  /\ pos \in [Node -> Nat]
  /\ batch \in [Node -> 0 .. NBatches]
  /\ step \in [Node -> Steps]
  /\ row \in [Node -> Rows]
  /\ io \in [Node -> [Node -> 0 .. Chunks]]
  /\ chan \in [Node -> [Node -> Seq(Messages)]]
  /\ x \in [Node -> [Rows -> Versions]]
  /\ zq \in [Node -> [Rows -> [Node -> Versions]]]
  /\ lg \in [Node -> [Rows -> [Node -> Versions]]]
  /\ faults \in Nat

\* What the next chunk on the stream from p has to be, wherever n reads p.
Awaited(n, p, m) ==
  /\ (pc[n] = "recv" /\ p \in Sources(n, step[n]) /\ io[n][p] < Chunks) =>
       m = Data(Version(fwd[n], step[n]), row[n], io[n][p])
  /\ (pc[n] = "ctl" /\ n # Root /\ p = Root) =>
       IsControl(m) /\ m.ver.fwd = fwd[n] + 1

\* The untagged streams never slip: what a node is about to read from a peer is
\* the chunk of the forward, step, row and slice that it takes it for (or the
\* stop packet of a root that is ending).
StreamAligned ==
  \A n \in Node : \A p \in Peers(n) :
    pc[n] \notin Stopped /\ chan[p][n] # <<>> =>
      LET m == Head(chan[p][n]) IN IsStop(m) \/ Awaited(n, p, m)

\* No segment is computed from a pipe with a part missing or left over from an
\* earlier step: the X row or all slices of the step before are there.
InputsComplete ==
  \A n \in Node : pc[n] = "op" /\ step[n] > 1 =>
    \A r \in 0 .. batch[n] - 1 :
      IF step[n] = 2
        THEN x[n][r] = Version(fwd[n], 1)
        ELSE \A p \in Node : zq[n][r][p] = Version(fwd[n], step[n] - 1)

\* When forward() has returned on the root, the logits of every row are whole:
\* each node's slice of the vocabulary is of this very forward.
LogitsComplete ==
  pc[Root] = "ctl" /\ fwd[Root] > 0 =>
    \A r \in 0 .. batch[Root] - 1, p \in Node :
      lg[Root][r][p] = Version(fwd[Root], NSteps)

\* A node inside its k-th forward has the position and the batch size the root
\* announced for the k-th forward (the KV caches are written at that position).
SameCall ==
  \A n \in Node : pc[n] \in {"op", "send", "recv"} =>
    /\ fwd[n] \in 1 .. Len(calls)
    /\ calls[fwd[n]] = Call(pos[n], batch[n])

\* Without a fault nobody dies, no worker ends before the root has decided to,
\* and the end leaves no byte unread anywhere.
OrderlyStop ==
  faults = 0 =>
    /\ \A n \in Node : pc[n] # "dead"
    /\ \A w \in Worker :
         pc[w] = "finished" => pc[Root] \in {"finish", "finished"}
    /\ (\A n \in Node : pc[n] = "finished") =>
         \A m, n \in Node : chan[m][n] = <<>>

\* The buffering a connection has to offer: two slices between workers, and the
\* rows of one broadcast or of the logits besides one slice with the root.
BufferDemand ==
  faults = 0 =>
    \A m, n \in Node :
      Len(chan[m][n]) <= CASE m = Root -> 1 + (NBatches + 1) * Chunks
                           [] n = Root -> (NBatches + 1) * Chunks
                           [] OTHER    -> 2 * Chunks

\* A forward that was started comes back with logits, or with an exception.
ForwardReturns == pc[Root] = "announce" ~> pc[Root] \in {"ctl", "finish", "dead"}

\* Once the root is gone, every worker ends too: nobody is left in a recv.
WorkersFollowRoot ==
  pc[Root] \in Stopped ~> \A n \in Node : pc[n] \in Stopped

-----------------------------------------------------------------------------
(* What it implements: the collective operations, seen from the nodes'     *)
(* positions in the step list.  Stated for runs without faults, where a    *)
(* node ends only between two forwards.                                    *)

Busy(n) == pc[n] \in InForward

Position(n) ==
  [fwd  |-> fwd[n],
   step |-> IF ~Busy(n) THEN NSteps + 1
            ELSE IF pc[n] = "announce" THEN 1 ELSE step[n],
   row  |-> IF pc[n] \in {"send", "recv"} THEN row[n] ELSE 0]

Promise == INSTANCE Collective WITH
  at       <- [n \in Node |-> Position(n)],
  computed <- [n \in Node |-> pc[n] \in {"send", "recv"}]

\* Every step of the threads, sockets and streams is a step of the collective
\* operations or none: no row or slice is used before it has been produced.
ImplementsCollective == Promise!Spec

=============================================================================
