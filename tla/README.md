# distributed-llama-python: specifications and proofs

TLA+ models of the distributed inference engine in `distributed_llama/`, the TLC
runs that check them on small clusters, and TLAPS proofs of what holds for every
cluster. File names and lines below are those of the repository; `src/` stands
for its root.

## 1. The system

A *root* process and some *workers* run one transformer together. Every node
holds a slice of each weight matrix. The root asks for forward passes; in each,
all nodes walk the same list of *segments* (START, two per layer, END), and
after each segment a *sync* brings a *pipe* together over raw TCP connections,
of which there is one between any two nodes.

| Component | State | Operations | Talks to |
|---|---|---|---|
| Handshake (`network.py`, `NnNetwork.connect`, `serve`) | sockets in order, server backlog, ACKs | dial, accept, send topology, ready signal, mesh | root with each worker, workers among themselves |
| Tensor synchronisation (`network.py`, `NnNetworkNodeSynchronizer`, `write_many`, `read_many`) | pipes, bytes in the streams | SYNC_WITH_ROOT, SYNC_NODE_SLICES, SYNC_NODE_SLICES_EXCEPT_ROOT | called by the executor; all peers |
| Forward loop (`executor.py` `NnExecutor`; `inference.py` `RootLlmInference`, `WorkerLlmInference`, `run_*_app`) | step list, batch size, position pipe | forward, set_batch_size, set_position, control packet, finish | synchroniser, ops, control packets |
| Configuration and weight transfer (`network.py`, `inference.py` `_load_weights`) | position in the stream, loaded weights | write_net/write_node, read_net/read_node, load_root, load_all, row/column slices, finish | root to each worker over the same sockets |
| Graph and slices (`graph_builder.py`) | none (pure) | build_llm_net, slice_* | input of everything else |
| Ops and thread splitting (`executor.py`) | `ctx.weight`, `ctx.weight_deq`, buffers, KV cache | one method per op, run by `nt` threads | C kernels |
| C thread pool (`ops/ops.c`) | `go`, `workers_done`, `func` | init_mt, _tp_run | spinning threads |
| Application loops (`inference.py`: inference, perplexity, chat) | position, current token | eval in batches, predict one by one | RootLlmInference, tokenizer, sampler |
| API server (`api.py`) | prompt cache, KV cache, position | completions, chat completions | single-threaded HTTP server |
| Tokenizer, sampler, EOS detector (`tokenizer.py`) | UTF-8 buffer, stop buffer, random state | encode, decode, sample, append | application loops |
| Model header, command line, converters | none | parsing, conversion | - |

What is hard here:

* **No framing.** A chunk on a connection says nothing about what it is. Its
  meaning is the reader's own position in the step list, so two nodes that differ
  by one call misread everything after it, silently.
* **Reuse.** The pipes are reused by every layer; a part that was not received
  still holds the last layer's data and looks as good as any.
* **Everyone writes before anyone reads** (`network.py:671-700`), on blocking
  sockets, with whatever buffering the kernel offers.
* **Arrival order.** Connections are identified by the order in which `accept()`
  returns them.
* **Threads.** Sockets are shared out among threads of which one runs; ops share
  a weight pointer; the C pool has a two-phase spin barrier.
* **Failure.** No timeouts and no retries. Peers notice a failure by an end of
  stream or a reset, and `finish()` runs in a `finally:`, so a stop packet can
  follow half a forward.

What makes each component correct: the streams stay aligned, each segment is
computed from complete and current inputs, all nodes agree on position and batch,
everyone ends when the root ends (tensor synchronisation, forward loop); socket 0
is the root, every pair of nodes has exactly one connection, the process comes to
an end (handshake); a reader consumes exactly what the writer wrote and every node
ends up with its part of configuration and weights (transfer); parts cover the
whole without overlap (slices); each operator reads what was computed for it, at
this position and in this forward, and the KV cache is the conversation as it is
now (ops); a round of the pool involves every thread exactly once (C pool); the
tokens fed are the prompt and then the sampled ones, and their text comes out
whole (application loops, tokenizer); cached messages describe the KV cache
(API).

## 2. Modules

| Module | Models | Code |
|---|---|---|
| `Collective` | the promise: rounds of collective operations, no sockets | sync types, control packets |
| `TensorSync` | the same cluster with threads' share of sockets, chunks, streams with a capacity, phases of a sync, crashes | `network.py`, `executor.py`, `inference.py` |
| `Handshake` | connecting a cluster | `network.py:149-242` |
| `ThreadPool` | the spin barrier of the C thread pool | `ops.c:30-93` |
| `ApiCache` | requests to the API server, its KV cache and prompt cache | `api.py:203-232`, `378-723` |
| `Graph` | what `build_llm_net` makes of a header: pipes, buffers, segments, operators, slices | `graph_builder.py` |
| `Cluster` | the one header that root and workers were started for | |
| `Splits` | how a range is shared among threads | `executor.py:205-215` |
| `Loading` | configuration and weights from the root to the workers, on unframed streams | `network.py:705-1250`, `inference.py:174-403` |
| `Executor` | all operators of a forward on all nodes and threads | `executor.py:383-1347` |
| `Node` | composition: a cluster is brought up (`Loading`) and then runs forwards (`Executor`) | `inference.py:174-319` |
| `Text` | tokenizer, streaming decoder, chat templates (operators, no state) | `tokenizer.py` |
| `Generation` | inference, perplexity and chat mode | `inference.py:406-660` |
| `MC` + name | instances for TLC | |
| `CollectiveProofs`, `ThreadPoolProofs`, `HandshakeProofs`, `ApiCacheProofs` | theorems about the module of that name | |
| `TensorSyncProofs` | theorems about `TensorSync`: types and streams, under faults; the refinement of `Collective`, the end and the buffers, without | |
| `NodeProofs` | theorems about `Node`: how work and weights are shared out, how workers read their configuration and weights in step, what configuration they then have, and what holds of memory, rows and exceptions while nodes run forwards (`Splits`, `Graph`, `Loading`, `Executor`) | |
| `WeightProofs` | theorem about `Node`, on top of `NodeProofs`: which weights a node that serves holds (`Loading`) | |
| `ListLemmas` | lemmas about lists: `\o`, `FlattenSeq`, reading and writing at the ends | |

How they fit together: `Handshake` ends where `Loading` begins, with sockets that
work. `Node` puts `Loading` in front of `Executor`, both on the graph of `Graph`.
`TensorSync` and `Executor` are two views of one forward: the former has the bytes
on the connections and no data, the latter the data, and synchronises in one step
as `Collective` promises, which `TensorSync` is shown to implement. `Generation`
is the program that calls forwards on the root, one batch after the other.

### TensorSync

One process per node. `pc[n]` is where its program is:

    ctl --RootForward--> announce --RootBroadcast*--> op          (root)
    ctl --ReadControl--> send                                     (worker)
    op --Compute--> send --WriteChunk*--> (WriteDone) recv --ReadChunk*--> (RowDone)
        --> send (next row) | op (next segment) | ctl (forward() returns)
    ctl --RootFinish--> finish --RootBroadcast*--> finished

`step[n]` and `row[n]` are the segment and the `batch_idx` of `sync()`;
`io[n][p]` is what `pending` holds in `write_many` and `read_many`, in chunks;
`Turn` is their round-robin. `chan[m][n]` is one direction of a connection
including the kernel's buffers, `Cap` chunks in all. A pipe is modelled by
*versions*: for each row (and slice) of it the forward and the step whose ops
produced it. Messages carry as ghost data what the sender put in them; no guard
of a reader looks at it except to tell the 8 bytes of a control packet from
data, which is their difference in meaning and size.

`Served(n)` is the sockets thread 0 gets out of `n_sockets // n_threads + ...`.
With one thread these are all sockets.

The step list is START, `2 * NLayers` all-gathers and END. START has no op on a
worker. A worker that receives data where it expects a control packet gets a huge
batch size, `set_batch_size` raises ValueError, and nothing catches it: the
process ends (`ReadControl`). An OSError there ends the worker in order
(`OnError`). On the root an exception in a forward leads to `finish()`; one in
`finish()` ends it.

`calls` is a history variable: the control packets announced, one per forward.
The application may announce any contiguous batches and may stop between any two,
which is what inference, perplexity and chat mode do (the next position is the
last one plus the last batch; the API server runs without workers).

### Collective

`at[n]` is the *round* (forward, step, row) node `n` is in, `computed[n]` says
that its ops for the round have run. `Complete(n)` leaves a round only when all
nodes in `Needs(n, step)` have produced their part of it. TensorSync maps to it
by `Position(n)` and "is in send or recv" (`Promise`), and the property
`ImplementsCollective` says that each of its steps is a step of Collective or
changes nothing there. The mapping is for runs without faults; a failed forward
has no counterpart in Collective.

### Handshake

`sockets[n]` is the list of sockets, as the node each really leads to;
`backlog[w]` is what the kernel holds for `accept()`. A `connect()` succeeds once
the other side listens, and fails at once if it does not (there is no retry).
Sending the topology and its ACK are one message each way.

### ThreadPool

`pc[0]` is the caller in `_tp_run`, `pc[t]` a thread in `_tp_worker`; every access
to `go` and `workers_done` is a step, in one order for all threads, as the
sequentially consistent atomics of the code have it. `computed` counts how often
each part was computed in the round; which items a part has is not modelled.
There is one caller. Although the wrappers release the interpreter's lock
(`ops.c:1393`), only the thread with `ti == 0` calls the one kernel that uses the
pool (`executor.py:746`, `814`), and `forward` waits for it before the next op.

### ApiCache

A request runs alone (`HTTPServer` is not threaded) and is a sequence of forwards,
so what can happen in any order is whole requests, and how each of them ends: with
an answer, with a client that goes away while the reply is streamed (`Disconnect`),
or with a forward that raises, in whichever phase of the request (`Raise`). The last
two end the request and not the server. `kv[p]` is the token whose forward wrote
position `p`, `NoToken` if there was none or one that raised left some layers of it:
`Abort` lets each position of the batch be written, as it was, or torn. A message is
one token, a prompt ends with one token that asks for the assistant's turn, and
begins with BOS if the tokenizer has `add_bos` and a BOS token (`addBos`, either in
`Init`). `cache` is `NaiveCache._cache`. There are three history variables: `reused`,
the messages `resolve_delta_prompt` cut off; `completed`, that a completion has used
the KV cache; and `aborted`, that a forward has raised at a position below the end
that the prompt cache remembers. The latter two are reset by a chat that starts at
position 0, whose messages are the last ones remembered from then on. `max_tokens`,
stop sequences and the end of text are a choice in `Generate`. A completion with an
empty prompt and no BOS has no token; its one forward is at position -1 and raises
where the key is put into its cache (`CompleteNothing`). Prompts for completions fit
the context; longer ones are not modelled.

### Graph

Pure operators that follow `build_llm_net` call by call, for LLAMA, QWEN3 and
QWEN3_MOE, with and without a quantised network. Dimensions count *units*, the
parts that are never divided: a quantisation block in a row, a head in q, k and v.
A pipe, buffer or operator goes by its name and layer; the code refers to it by
the index of its `add_*` call.

### Loading

A *field* is one write of the root. `Todo` is the list of everything the root does
after the handshake, in order: the configurations with an ack after each, every
weight of the file shared out, the comparison with the size of the file, the end
marks. `down[w]` is the connection to a worker, of at most `Capacity` fields. A
worker knows what it has to read next (`expect[w]`) only from the counts and names
it has read (`FollowedBy`), and takes whatever comes for it; `as`, what the writer
meant, is ghost data that no reader looks at. `got` is the configuration it has
read, `weights` what is in the buffers of its operators, as the expert and the place in the
matrix that a unit came from. An int beyond 32 bits raises in `struct.pack`
(`TooLarge`), a file of another size in `_load_weights`, a lost connection in
`recv` or `send`; each ends its process. What the root writes to a worker that has
ended may be lost or raise, as with a socket whose reset has not arrived.

### Executor

`pc[n]` is the place in the list of `_build_steps`, `now[n]` the step found there
(`End` after the last), `at[n][ti]` the row and, in a matmul, the branch that a
thread is in; `sizes[n]` are the sizes of the node's pipes and buffers. A node goes on to its next step when all its threads
are through, as `forward` waits for its futures. `mem` holds *values* instead of
numbers: how a cell came about (the operators since the residual stream and their
layer), its column, position and forward. Each operator (`...Cell`) checks what it
reads for being what a transformer would compute there, and otherwise gives
`Junk`, which no later operator repairs. The reference (`Query`, `Down`, `Half`,
`Logits`...) is written from what the layers mean, not from buffers and pointers.

Threads share columns by `Split`, or rows by `y % nt`, as each operator does. A
matmul with 4-bit weights first tests `ctx.weight` (`TestWeight`) and uses it in a
later step (`Multiply`), so that another thread's `ctx.weight = None` may come in
between. A cast quantises into a new array of which the thread has filled its part
only and copies all of it (`Converts`, `Written`). A batch on one node is handed to
sgemm with the share of thread 0 (`MultiplyBatch`). `Raise` is an exception in a
thread. All of these are what the code does with the C extension; `Threadsafe`
names the models and thread counts that meet none of them.

`Forward` takes any position up to the first that was never fed and any batch: the
conversation may go on or go back.

### Text and Generation

Text is a sequence of bytes, of which `Follow` says how many continuation bytes they
announce. `Encode` has the scan for special tokens and bytes and the merge loop, and
prepends BOS at a start if the tokenizer has `add_bos`, an optional key of its file,
and a BOS token (`addBos`, either in `Init`), `Detok` the decoder with its recovery,
`Content` the four chat templates, in which the fixed text around a message is one
byte. `Generation` has one action per forward of each mode; a sampled token is any of
`Samples`. `kv` is the token fed last at each position, `sampled` and `printed` are
history variables. Exceptions set `cause`. In a chat, `EosDetector.MAYBE_EOS` ends the
program behind the first predicted token (see findings), so there is a second turn in
no behaviour.

## 3. Runs

| Run | Instance | Shows |
|---|---|---|
| `collective` | 3 nodes, 1 layer, 2 rows, 2 forwards | `Gathered`, `Lockstep`, `RootLeads` of the promise |
| `sync` | same, slices of one chunk, 10 chunks of buffer, no fault | streams aligned, inputs and logits complete, same call everywhere, orderly stop, buffer demand, refinement of Collective |
| `faults` | 1 row, 2 forwards, slices of 2 chunks, 2 chunks of buffer, at most one crash or exception anywhere | chunks stay in order with the least buffering that works; survivors never misread; every forward and all workers come to an end |
| `workerThreads` | workers with 4 threads, the root with 1 | **violation** of `InputsComplete` (finding 1) |
| `handshake` | root and 4 workers, at most one crash | right socket 0, complete mesh, nothing dropped; without a crash all connect |
| `threadPool` | 4 threads, 3 rounds | a round that ends is complete; fields are not written while read; a round that finds all threads ready ends |
| `threadMissed` | 2 threads, 2 rounds | **violation** of `RoundReturns` (finding 3) |
| `apiCache` | context of 4, batches of 2, 4 requests: one conversation and completions, with and without BOS, forwards that raise anywhere | until a forward raises below the end remembered, no forward attends to a position never written; until then or a completion, what is cut off as cached is in the KV cache |
| `apiCompletion` | the same, 3 requests | **violation** of `SurvivesCompletions` (finding 4) |
| `node` | nine headers: dense, Qwen3 and MoE; one to three nodes; one or two threads; with and without 4-bit weights and a quantised network; one crash | configuration and weights arrive as built and sliced, loading ends, the root serves last; forwards give the right logits, raise only as known, and leave a cache of the conversation |
| `nodeExperts` | MoE with 3 experts on 2 nodes | **violation** of `ExpertsLoaded` (finding 2) |
| `generation` | context of 5, batches of 2; with and without BOS; 8 prompts, 3 step limits, 7 chats, 4 templates | fed tokens and printed text are complete and in order, failures are known ones, the application ends |

Bounds. Three nodes are the fewest with a worker pair, which is where slices cross
that the root never sees. One layer has two all-gathers, so a node can be ahead by
one of the same kind; with two layers the `sync` run has 36,573 states and the same
result. Two rows give a next row and a last row; two forwards with different batch
sizes give a position that is not a multiple of the batch. `MaxForwards` and
`MaxFaults` bound the run and appear in no other guard. A buffer of 10 chunks is
never filled (`BufferDemand` says how much is used at most). With a buffer smaller
than a slice (`Cap < Chunks`) the model deadlocks in the first all-gather, with all
nodes in `send`; the code relies on the kernel's buffers there. Real slices of a
row are a few kB and socket buffers far larger, so `Cap >= Chunks` is an assumption
about the deployment, made by `faults`, and not a property of the code.

In `node` each header is there for a case: two nodes as by default (4-bit weights,
quantised network); the same with three experts of which two are active, other ones
at each position; Qwen3 with 32-bit types and two threads on the worker, in which
q and k are normalised head by head; three nodes, so that a worker's slice is
neither the first nor the last; a vocabulary whose slice exceeds `MaxInt32`, where
the root raises in the middle of loading; a single node with two layers, rows of
three units and two threads, so that parts are unequal; a mixture of experts there;
32-bit weights under a quantised network, which no matmul takes; and 4-bit weights
with two threads, which race. Sequences of three positions with batches of two give
a batch, a single row behind it and a return to an earlier position in two forwards
(one for three nodes, `MaxForwards`). Two fields of capacity let the root run ahead
of a worker and still wait for it. Models with exactly one active expert are left
out (see hazards: `executor.py:792`).

In `generation` the vocabulary has one byte of each class (a character of one byte,
the first of two and of three, one in the middle, an undecodable one), tokens that
are merges of others, whole and half characters and four undecodable bytes, which
fill the decoder's buffer of 11 in three tokens. Prompts are empty, need two levels
of merges, have a character across the context's end, exceed the context, or end in
bytes that are no token, which raises in `encode`, in a chat too. Five
positions have a full batch, a partial one and a prediction behind it.

Deadlock is checked in all runs of Collective and TensorSync: there, only a cluster
whose processes have all ended may stop (`Terminated`), or one at rest (`Rest`).
In the handshake, stopping is legitimate: it is over when everybody is connected,
and a crashed neighbour leaves a worker in `accept()` for ever. The pool may stop
between rounds, and in finding 3; the API server may get no more requests; a
cluster may be asked for no more forwards or have failed; an application ends.

The third round of `threadPool` is the first in which a thread may be late from a
round it took part in and another from one it missed. In `apiCache` four tokens of
context are filled by a chat of three messages and by the longest completion and
exceeded by a chat of four, and four requests suffice for a chat, a client that goes
away, and two hits. Its completions have prompts of no token, of one and of three,
with and without BOS.

Fairness. Each node is weakly fair in its own steps: its thread is scheduled and a
blocking call returns once it can. `RootForward`, `RootFinish` and the failures are
not fair: nobody has to ask for another forward. In the handshake nobody has to
start a worker (`Serve`), so `Connects` speaks of runs in which all are up. In the
pool every thread is weakly fair: it is scheduled again and again, but nothing says
how often it looks at `go` between two changes of it. `Publish` is not fair. In
`Loading` the root and the workers are weakly fair in all they do: their sends and
receives return when they can, and crashes have no fairness; forwards have none
either. In `Generation` `WF_vars(Next)` is one thread that goes on; it may have to
wait for a line, which at the end of input is there at once, and empty.

Each property has a variant of one definition with a plausible bug, defined just
before it and named in `PROJECT.json`, under which the run fails; they are
marked "Variant with a bug" and used nowhere else.

## 4. Findings

1. *Worker threads.* `NnExecutor.forward` calls `sync(arg, nt, 0)` once
   (`executor.py:1346`), but `_sync_node_slices` shares sockets among `nt` threads, so
   with `nt = 4`, the default of `dllama worker` (`cli.py:74`), a worker serves socket
   0 only. Two such workers exchange slices with the root, never with each other, and
   go on with a stale slice. `silent` shows that no read ever blocks or fails because
   of it: each pair agrees not to talk. (More than one thread on the root alone is not
   silent: it sends X to every second worker only, and TLC reports the deadlock.
   `README.md:109` of the repository advises against more than one thread, because of a
   race in the matmul.)
2. *Experts.* `_load_row` and `_load_col` pass expert index 0 for every expert
   (`inference.py:350`, `354`), so each expert's matrices are written over those of the
   one before, at offset 0; the places of the other experts stay zero. `README.md:97`
   of the repository lists Qwen3 MoE as supported. The run shows a node that serves
   with the last expert's weights in the first one's place.
3. *Missed round.* A pool thread that has reported waits to see `go == 0` (`ops.c:53`).
   Nothing makes the caller wait for that: if the next round raises `go` first, the
   thread never leaves, and the caller spins for ever (`ops.c:90`).
   `PunctualRoundReturns` is what remains: a round that begins with all threads at the
   first spin ends.
4. *Stale prefix.* A completion overwrites the KV cache from position 0 and leaves the
   prompt cache as it is, so a chat may be continued on another prompt's positions
   (`api.py:404`). With chats of a single conversation alone, none of which raises in
   its evaluation, this does not happen (`ChatsAloneAreCached`). Chats of different
   conversations could do it too, as a miss does not clear the prompt cache either
   (`api.py:571`). After a hit all messages are pushed again, the cached ones too, so a
   conversation hits once and never again.

Met on the way: a chat that fails leaves a stale prefix as well. Its messages are
pushed to the prompt cache (`api.py:571`) before they are evaluated. If a forward of
the evaluation raises (`api.py:587`), as a 4-bit matmul does whose threads race for
`ctx.weight` (`executor.py:824-832`, in the first forward only), the request ends and
its messages stay cached. The same chat with one more message then starts behind
positions that were never written; without `~aborted`, `NoUnwrittenPrefix` and
`ChatsAloneAreCached` are violated after three steps. They are what holds as long as
that has not happened, and again from the next chat on that starts at position 0.

Also met, and part of ApiCache and Generation as it is: `EosDetector.MAYBE_EOS` does not
exist (`api.py:632`, and `inference.py:642` in chat mode), so a chat request that may
predict a token ends with an exception after its first one, its messages already
cached (`PredictChat`); only a request without room for a reply is answered
(`AnswerChat`). The token fed after the prompt is looked up one too far
(`api.py:592`, `inference.py:622`) and is 0 instead of the prompt's last one
(`EvalChat`). Part of Executor: with more than one thread, casts, the softmax over
several rows and 4-bit matmuls get in each other's way, which `README.md:109` of
the repository warns of. Part of Generation: `decode` on an end-of-text token gives
out the bytes kept back and keeps them (`Decode`), a prompt of one token makes
`perplexity_mode` divide by zero (`ScoreDone`), a chat at the end of input asks for
ever (`Ask`), and an empty prompt without BOS has no token: `inference_mode` ends with
an `IndexError` (`inference.py:435`, `Begin`), and `perplexity_mode` divides nothing by
-1 and reports a perplexity of 1 (`ScoreDone`).

Not a finding: with three or more workers, socket `i + 1` of a worker leads to
whichever lower worker connected first (`network.py:201`), while the slices it
brings are put where the socket number says. They are summed in the merge-add, so
only the order of floating-point additions changes; the logits, where the order
matters, go to the root alone, whose sockets are in order.

## 5. Proofs

`CollectiveProofs`, for any number of nodes, layers, rows and forwards:
`TypeCorrect`, `GatheredHolds`, `LockstepHolds`, `RootLeadsHolds`. The only
assumption is `CollectiveAssumption`. The inductive invariant is `TypeOK` together
with `Gathered`. It is inductive because rounds are totally ordered, a node that
moves moves forwards (`Moves`), so what has been produced stays produced
(`ReachedStable`), and the one round a node newly has behind it is the one it was
just allowed to leave (`LeavesGathered`). `Lockstep` and `RootLeads` then follow
without induction: a node past step s - 1 has every node's part of its last row,
so every node has got there.

`TensorSyncProofs`: `TypeCorrect`, for any number of nodes, layers, rows, chunks,
threads per node, buffer capacity and faults (`ClusterAssumption`). It says more
than that variables have types: no step index leaves the step list, no row the
pipe, no I/O the slice it moves, and no batch exceeds the largest batch, on any
path including those after a failure.

`ThreadPoolProofs`: `TypeCorrect`, `RoundCompleteHolds`, `NoReadWhileWrittenHolds`,
for any number of threads and rounds (`PoolAssumption`). The invariant says what the
caller's place means for `go` and `func`, what a worker's place means for its part,
and, as its core, that during a round `workers_done` is the number of workers that
have reported *in this round* (`CountView`): a thread left over from the last round
stands at the same place but has not computed its part, so it is not counted. From
that, `workers_done >= n_threads - 1` can only mean all workers.

`HandshakeProofs`: `TypeCorrect`, `RootFirst`, `FullMesh`, `BacklogDrained`, for any
number of workers, any order of arrival, refused connections and any number of
crashes. The invariant has a part for the root (the workers it has dialled are
1, 2, ... in order), one for each worker (where it stands says which sockets it
has; before its first `accept()` nobody but the root can be in its backlog, as the
others dial only after the root's signal, and the root signals only after every
worker's ACK) and one for the mesh: a worker is in the sockets or the backlog of
another at most once, and only if that one has dialled it, so the number of
`accept()`s a worker does is exactly the number of nodes below it.

Also in `TensorSyncProofs`: `AlignedStreams`, `CompleteInputs`, `CompleteLogits`, `AgreedCalls`,
for any number of nodes, layers, rows, chunks, forwards, any capacity, with crashes
and exceptions at any point. Their hypothesis is `OneThreadOrOneWorker`: `n_threads`
is 1 on every node, or there is a single worker, which has one socket. It cannot be
dropped: `workerThreads` shows `InputsComplete` violated without it. The inductive
invariant looks at a connection from both ends. From where a node is follows which
chunk of which forward, step and row it has to write to a peer next (`DueOut`) and
which it has to read next (`DueIn`); one function says what is due behind a given
chunk (`Due`), for both. What lies on a connection begins with the chunk that its
reader is due to read, goes on with what is due behind each, and ends before the one
that its writer is due to write (`LinkInv`). As both walk the same step list, the
reader takes the chunk for what it is. `CallInv` says that `calls` gives every node's
position and batch, `PipeInv` which parts of a pipe are there at each place of the
program. A node that raises in the middle of a
forward leaves a stream that ends early, and nothing that is misread: `finish()`
writes a stop packet behind half a forward, which `StreamAligned` allows for.

`TensorSyncProofs`, for runs in which there has been no fault yet: `EndsInOrder`
(`OrderlyStop`), `ImplementsThePromise` (TensorSync implements Collective),
`OrderInRuns` (`Gathered`, `Lockstep` and `RootLeads` of Collective hold of
TensorSync's state) and `BufferBound` (`BufferDemand`). The refinement goes step by
step: `Position` and `Computed` map the initial state to Collective's, a send or
receive changes neither, `Compute` is Collective's `Compute`, `RowDone` its `Complete`,
because a node that has read the last chunk of a round from a peer proves that this
peer has computed it. With the refinement, Collective's own invariants carry over.
They are what bounds the buffers: a sender that is past a round has met the reader
there, so a link between workers holds at most two slices, and one with the root the
rows of one broadcast or of the logits, up to `NBatches`, and one slice besides (and the
control packet).

`ApiCacheProofs`: `TypeCorrect` and `WrittenPrefix` (`NoUnwrittenPrefix`), for any
context, batch size, chats and prompts. The assumption `TokenAssumption` says that
chats are sequences of messages and that `NoToken` is no token. The invariant adds
that all positions below the end that the prompt cache remembers last are written, or
are just being evaluated (`Remembered`), as a chat that hits starts there. A forward
that returns unwrites nothing. One that raises may tear its own positions, which is
what `aborted` looks at: behind the end remembered that does no harm; below it, as in
the evaluation of the very prompt that was pushed, the invariant and the property
promise nothing (section 4), until a chat starts at position 0 and has its own end
remembered, below which it writes all positions itself.

`ChatsAreCached` (`ChatsAloneAreCached`) holds under the hypothesis `OneConversation`:
every message stands at one place in the conversation, a chat that goes on has found
room in the context, no chat is empty and BOS is no message. Then any two chats begin
alike, as far as the shorter goes. The invariant (`ConversationInv`) distinguishes
three states of `NaiveCache`: empty; the messages of one request; or the messages of
several, so that one occurs twice, and as no chat has a message twice,
`resolve_delta_prompt` never hits on it. So a hit is always in the second state. This
much holds whatever becomes of the KV cache (`Pushes`), which is why a chat that starts
at position 0 mends what was `completed` or `aborted` before it. While neither is the
case, the KV cache has the messages of the second state from position 0 on, up to where
their evaluation has come (`ChatInv`). The parts of the hypothesis are needed: an empty
chat overwrites the KV cache and is not remembered; with a message at two places a chat
can begin with the list of the third state; and a chat longer than the context, whose
client goes away before it is answered, leaves an end position of `seq_len` for all its
messages, of which the KV cache has only those that fitted, so a chat that went on from
there would find less than it cuts off.

`NodeProofs`. Of `_split_threads` and `SPLIT_THREADS`, for every range and number of
threads: each thread's part begins where the one before ends, the first at 0 and the
last to the end of the range (`PartsAreConsecutive`), no item has two threads
(`PartsAreDisjoint`) and every item has one (`PartsCover`). Of the weights, for
matrices of any size (`Sized`): what a node gets by rows or by columns is the part of
the matrix that its index says, by `Shifted` (`PartsAreShifted`). If the number of
nodes divides what is shared (`Divides`), no unit goes to two nodes or to two places
(`UnitsGoOnce`), and every unit goes somewhere (`UnitsAllGo`). They need nothing but quotient and
remainder.

Of `Loading`, as part of `Node`, for every header, any number of nodes, layers and
experts, any capacity of the connections, and whichever process ends when:
`StreamStaysInStep` (`StreamInStep`), `RootIsLast` (`RootServesLast`),
`ConfigurationAsBuilt` (`ConfigAsBuilt`), and `PlainWeightsLoaded` (`WeightsLoaded`)
of `WeightProofs`.
The assumption is `HeaderAssumption`: a header has a positive number of nodes and each
of them a positive number of threads, and its dimensions and its numbers of layers,
experts, active experts and batch rows are natural numbers. None of them is inductive: what a
worker reads next depends on counts it has read earlier, up to thousands of fields
before. The invariant (`LoadOK`, with a part `WorkerOK` for each living worker) says:

* what the worker expects *fits* (`Fits`) the fields on its connection, followed by
  all that the root has still to send it (`AheadAt`). To fit is defined without
  recursion: the fields can be cut into one piece for each expectation (`Pieces`), and
  there is a set of such pieces, closed in itself (`Sound`): each begins with a field of
  the expected kind and the rest can be cut into pieces of the set for what the
  field's value makes the worker expect (`Follow`);
* the ACKs on their way, and those that the worker will still write, are as many as
  those that the root will still await from it, and each expectation list ends with
  one: so a root that has nothing left to await leaves nobody in the middle;
* an entry of a table that is read under an earlier count finds that count among the
  fields the worker has read (`Tracks`).

That this holds at the start is a statement about the graph: `write_net` and
`write_node` write, for any header, exactly what `read_net` and `read_node` will ask
for (`NetFields`, `NodeFields`, `FieldsOf` taken apart into sections, each a list of
lists as long as the count before it). `ListLemmas` has what that takes: a flattened
list of lists is the first of them followed by the rest, what is picked out of it is
what is picked out of each, and so on, all by induction over the list.

`ConfigAsBuilt` speaks of what has been read, so it has a second invariant (`ToldOK`,
with a part `Told` for each living worker): what the worker has read (`got`), what
lies on its connection and what the root has still to send it make up, one behind the
other, the whole configuration that `write_net` and `write_node` list for it
(`ConfigOf`), followed by fields of weights only. Each field read is what a worker
makes of the field written (`Seen`): a float has passed through `struct`, the bytes of
an operator's configuration have been unpacked with the code that was read seven fields
before. When the worker waits for the name of a weight, nothing of the configuration is
still to come. It remains to show what is in there: picking the fields of one kind out
of the whole configuration gives the table of the graph (`ConfigVals`), and `Unpack`
undoes `Pack` for the configuration of every operator that `build_llm_net` makes
(`SegmentsConfigured`).

`WeightsLoaded` speaks of what has been done with it, and has a third invariant
(`FeedOK`), of two parts:

* For each living worker there is a number k of weights it has taken (`Taking`). It
  has its part of each of those (`Has`), unit by unit. What it will still be sent
  (`Stream`: what lies on its connection and what the root has still to send) is the
  end of its configuration and its parts of all other weights (`From`); or it is in
  the middle of weight k + 1 (`Amid`), and what it has read of that (`blob`) and what
  is still to come are the five fields of it; or nothing comes any more.
* The root has its part of each weight that stands in its list of tasks before the
  place it has reached (`RootFed`).

A part put at its offset may neither fall outside the operator's buffer, where it
would be cut off, nor touch another weight. So the size of each buffer that
`build_llm_net` asks for is the size of the part of the file that will be put there
(`Roomy`, for the graph; `Filed`, for the file), which takes from the names of weights
and operators what split and what size each has. All offsets are 0 (`OffsetZero`), as
the loader passes on expert 0 for every weight, so what is put for one weight begins
where the operator's buffer begins; and two weights of one operator and index, other
than experts', would have the same part (`SamePart`). `PartUnits`, on which
`PartsAreShifted` rests, then puts each unit of the part where `Holds` looks for it.
The theorem has one hypothesis more, `ExpertsInMixtures`: a model of the mixture
architecture has experts. With none, the model's sizes of its operators `w1`, `w2` and
`w3` are 0, but its file would have a dense feed-forward of that name. No model of that
kind exists, but nothing in the code refuses one.

Of `Executor`, as part of `Node`, under the same assumption and so for every graph
that `build_llm_net` can build, any number of nodes, threads, rows and forwards:
`ExecTypes` (`ExecTypeOK`) and `RaisesAsKnown` (`RaisesOnlyAsKnown`). Two parts make
the proof:

* What the graph promises the executor, about all pipes, buffers and operators at once.
  `AllocatedAsNamed`: each pipe and buffer is there, with the type and the depth that
  its name stands for, the synchronised pipes alike on all nodes. `StepsGood`: every
  step of a node is an operator that only works on such places, with weights of the
  type of the model (`Fine`), or a synchronisation of one of three pipes (`GoodSync`),
  and behind them all is the end. `AllSupported`: `forward()` has code for the types of
  every such operator but for the combinations `RaisesOnlyAsKnown` lists.
* The invariant (`ExecOK`, with `NodeOK` for each node): the step is the one at `pc`;
  memory has the shape it was allocated with (`Shape`), whatever an operator, a gate, a
  synchronisation or the caller writes; each thread's row is within the step's limit,
  and when a node waits for a synchronisation or has nothing to do, its threads are at
  their begin (`Counted`, `Fresh`); and a thread that has seen `ctx.weight` still finds
  it (`Weighed`). The last is what makes `RaisesOnlyAsKnown` inductive: one thread
  can only lose `ctx.weight` by its own hand, several only meet it with 4-bit weights.

Only model-checked, and why:

* *Liveness*, under fairness: `ForwardReturns`, `Connects`, `PunctualRoundReturns`,
  `LoadingEnds`, `GenerationEnds` and the like.
* *Executor* (`LogitsRight`, `CacheIsHistory`): they speak of the values that the
  operators of `build_llm_net` leave in each other's buffers over a whole forward, and
  an invariant would have to say for every step what each live buffer holds by then;
  the invariant above only knows their shape.
* *Generation*: `Encode` and the decoder are recursions over texts, and the
  properties speak of their results.

The library's theorems for inductions over data take an operator as a parameter,
which the provers cannot instantiate. Where a proof needs one (the lists of
`ListLemmas`), it takes the least number at which the statement would fail
(`LeastNumber`, `AllNumbers`).

## 6. Plan

What is left are proofs, in this order:

1. `FedInOrder` of the applications: first that a merge of tokens does not change their
   text, then that position p holds the token p of prompt and samples. Both need the
   recursive functions behind `Iterate` and `FlattenSeq` unfolded, by an induction that
   the least element of a set of counterexamples can stand in for.
2. `LogitsRight` of Executor: what each live buffer holds after each step of a forward,
   on top of the shapes that `ExecOK` has.

## 7. Not modelled

Floating-point arithmetic of the ops and kernels, and quantisation: out of TLC's reach;
what Executor says is which numbers are computed from which. GELU is in no graph. The
paths without the C extension, and a node without NumPy's C kernels, are other code for
the same operators. The sampler is any choice of a token. EosDetector is called once
per chat and then ends it, so its states are not reached. Parsing of model, tokenizer
and command line, JSON, HTTP and console output: no state that outlives the call. The
converters: offline, sequential file conversion. Statistics,
`try_read_with_max_attempts` and `set_turbo` (never called).
