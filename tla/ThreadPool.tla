----------------------------- MODULE ThreadPool -----------------------------
(* The C thread pool of ops.c: _tp_run hands one function to all threads and   *)
(* waits for them, over two spinning flags (go and workers_done).  One caller  *)
(* runs rounds; it is the Python thread with ti = 0, and NnExecutor.forward    *)
(* waits for that thread before the next op, so rounds do not overlap          *)
(* (executor.py:1340-1343).  The threads are those of init_mt; n_threads is    *)
(* what init_mt was called with, for both calls pass the executor's nt.        *)
(* Atomic operations are sequentially consistent, as atomic_load and           *)
(* atomic_store are, and each is a step of its own.                            *)
EXTENDS Naturals, FiniteSets

CONSTANTS NThreads,     \* _tp_size
          MaxRounds     \* bound on the number of rounds

ASSUME PoolAssumption == NThreads \in Nat \ {0, 1} /\ MaxRounds \in Nat

Thread == 0 .. NThreads - 1     \* ti; thread 0 is the caller
Worker == Thread \ {0}

VARIABLES pc,        \* where each thread is
          go,        \* _tp_work.go
          done,      \* _tp_work.workers_done
          func,      \* _tp_work.func is set (with ctx, n_threads and the ranges)
          round,     \* how many times _tp_run has been called
          computed   \* history: how often each part was computed in this round

vars == <<pc, go, done, func, round, computed>>

CallerPc == {"idle", "reset", "raise", "own", "await", "clear", "lower"}
WorkerPc == {"up", "test", "work", "count", "down"}

-----------------------------------------------------------------------------
(* init_mt: the threads are created before the first round, and begin at the   *)
(* first spin whenever they are scheduled.                                     *)
Init ==
    /\ pc = [t \in Thread |-> IF t = 0 THEN "idle" ELSE "up"]
    /\ go = 0
    /\ done = 0
    /\ func = FALSE
    /\ round = 0
    /\ computed = [t \in Thread |-> 0]

Goto(t, l) == pc' = [pc EXCEPT ![t] = l]

Compute(t) == computed' = [computed EXCEPT ![t] = @ + 1]

(* _tp_run: the ranges, func, ctx and n_threads of this round.                 *)
Publish ==
    /\ pc[0] = "idle"
    /\ round < MaxRounds
    /\ round' = round + 1
    /\ func' = TRUE
    /\ computed' = [t \in Thread |-> 0]
    /\ Goto(0, "reset")
    /\ UNCHANGED <<go, done>>

(* Variant with a bug: workers_done keeps the count of the last round.         *)
ResetDoneForgotten ==
    /\ pc[0] = "reset"
    /\ Goto(0, "raise")
    /\ UNCHANGED <<go, done, func, round, computed>>

ResetDone ==
    /\ pc[0] = "reset"
    /\ done' = 0
    /\ Goto(0, "raise")
    /\ UNCHANGED <<go, func, round, computed>>

RaiseGo ==
    /\ pc[0] = "raise"
    /\ go' = 1
    /\ Goto(0, "own")
    /\ UNCHANGED <<done, func, round, computed>>

RunOwnPart ==
    /\ pc[0] = "own"
    /\ Compute(0)
    /\ Goto(0, "await")
    /\ UNCHANGED <<go, done, func, round>>

(* Variants with a bug: one worker too few, one worker too many.               *)
ExpectedTooFew == NThreads - 2
ExpectedTooMany == NThreads
Expected == NThreads - 1

AwaitWorkers ==
    /\ pc[0] = "await"
    /\ done >= Expected
    /\ Goto(0, "clear")
    /\ UNCHANGED <<go, done, func, round, computed>>

ClearFunc ==
    /\ pc[0] = "clear"
    /\ func' = FALSE
    /\ Goto(0, "lower")
    /\ UNCHANGED <<go, done, round, computed>>

LowerGo ==
    /\ pc[0] = "lower"
    /\ go' = 0
    /\ Goto(0, "idle")
    /\ UNCHANGED <<done, func, round, computed>>

-----------------------------------------------------------------------------
(* _tp_worker.                                                                 *)
SeeGoUp(t) ==
    /\ pc[t] = "up"
    /\ go = 1
    /\ Goto(t, "test")
    /\ UNCHANGED <<go, done, func, round, computed>>

TestFunc(t) ==
    /\ pc[t] = "test"
    /\ Goto(t, IF func THEN "work" ELSE "count")
    /\ UNCHANGED <<go, done, func, round, computed>>

Work(t) ==
    /\ pc[t] = "work"
    /\ Compute(t)
    /\ Goto(t, "count")
    /\ UNCHANGED <<go, done, func, round>>

CountDone(t) ==
    /\ pc[t] = "count"
    /\ done' = done + 1
    /\ Goto(t, "down")
    /\ UNCHANGED <<go, func, round, computed>>

(* Variant with a bug: a thread that has reported does not wait for go = 0.    *)
SeeGoDownAnyway(t) ==
    /\ pc[t] = "down"
    /\ Goto(t, "up")
    /\ UNCHANGED <<go, done, func, round, computed>>

SeeGoDown(t) ==
    /\ pc[t] = "down"
    /\ go = 0
    /\ Goto(t, "up")
    /\ UNCHANGED <<go, done, func, round, computed>>

-----------------------------------------------------------------------------
CallerStep ==
    ResetDone \/ RaiseGo \/ RunOwnPart \/ AwaitWorkers \/ ClearFunc \/ LowerGo

WorkerStep(t) ==
    SeeGoUp(t) \/ TestFunc(t) \/ Work(t) \/ CountDone(t) \/ SeeGoDown(t)

Next == Publish \/ CallerStep \/ \E t \in Worker : WorkerStep(t)

(* A thread that spins is scheduled again and again; nobody has to ask for     *)
(* another round.                                                              *)
Spec ==
    /\ Init
    /\ [][Next]_vars
    /\ WF_vars(CallerStep)
    /\ \A t \in Worker : WF_vars(WorkerStep(t))

-----------------------------------------------------------------------------
(* Type invariant.  workers_done never passes the number of workers, and a     *)
(* part is computed at most once a round.                                      *)
TypeOK ==
    /\ pc \in [Thread -> CallerPc \cup WorkerPc]
    /\ pc[0] \in CallerPc
    /\ \A t \in Worker : pc[t] \in WorkerPc
    /\ go \in {0, 1}
    /\ done \in 0 .. NThreads - 1
    /\ func \in BOOLEAN
    /\ round \in 0 .. MaxRounds
    /\ computed \in [Thread -> {0, 1}]

(* When _tp_run has passed its wait, every part of this round has been         *)
(* computed, once: the matmul's output is complete when the op returns, with   *)
(* nothing left over from the threads of the round before.                     *)
RoundComplete ==
    pc[0] \in {"clear", "lower"} => \A t \in Thread : computed[t] = 1

(* While the caller writes ranges, func and ctx, which are plain fields, no    *)
(* thread is where it reads them.                                              *)
NoReadWhileWritten ==
    pc[0] \notin {"own", "await"} => \A t \in Worker : pc[t] \in {"up", "down"}

(* Every call of _tp_run returns.  It does not hold: see the run threadMissed. *)
RoundReturns == (pc[0] = "reset") ~> (pc[0] = "idle")

(* What the pool can promise: a round that begins when every thread has seen   *)
(* the end of the round before (or has not run yet) returns.                   *)
PunctualRoundReturns ==
    (pc[0] = "raise" /\ \A t \in Worker : pc[t] = "up") ~> (pc[0] = "idle")
=============================================================================
