-------------------------- MODULE ThreadPoolProofs --------------------------
(* Proofs about the thread pool, for any number of threads and rounds.         *)
EXTENDS ThreadPool, FiniteSetTheorems, TLAPS

Counted == {t \in Worker : pc[t] = "down" /\ computed[t] = 1}

Running == pc[0] \in {"own", "await"}

Types ==
    /\ pc \in [Thread -> CallerPc \cup WorkerPc]
    /\ pc[0] \in CallerPc
    /\ \A t \in Worker : pc[t] \in WorkerPc
    /\ go \in {0, 1}
    /\ done \in 0 .. NThreads - 1
    /\ func \in BOOLEAN
    /\ round \in 0 .. MaxRounds
    /\ computed \in [Thread -> {0, 1}]

(* What the caller's place says of the shared fields and of its own part.      *)
CallerView ==
    /\ go = 1 <=> pc[0] \in {"own", "await", "clear", "lower"}
    /\ func <=> pc[0] \in {"reset", "raise", "own", "await", "clear"}
    /\ pc[0] \in {"reset", "raise", "own"} => computed[0] = 0
    /\ pc[0] \in {"await", "clear", "lower"} => computed[0] = 1

(* What a worker's place says of its part and of the caller.                   *)
WorkerView ==
    \A t \in Worker :
        /\ pc[t] \in {"test", "work"} => Running /\ computed[t] = 0
        /\ pc[t] = "count" => Running /\ computed[t] = 1
        /\ pc[t] = "up" => pc[0] \notin {"clear", "lower"}
        /\ pc[t] = "up" /\ Running => computed[t] = 0
        /\ pc[0] \in {"reset", "raise"} => computed[t] = 0
        /\ pc[0] \in {"clear", "lower"} => computed[t] = 1

(* workers_done counts the threads that have reported in this round.           *)
CountView ==
    /\ pc[0] = "raise" => done = 0
    /\ Running => done = Cardinality(Counted)

IInv == Types /\ CallerView /\ WorkerView /\ CountView

-----------------------------------------------------------------------------
\* There are as many workers as threads, but one.
LEMMA WorkersCounted == IsFiniteSet(Worker) /\ Cardinality(Worker) = NThreads - 1
<1>1. Worker = 1 .. NThreads - 1
  BY PoolAssumption, SMT DEF Worker, Thread
<1>2. QED
  BY <1>1, FS_Interval, PoolAssumption, SMT

(* A set of workers has NThreads - 1 members only if it has all of them.       *)
LEMMA AllCounted ==
    ASSUME NEW S \in SUBSET Worker
    PROVE  /\ IsFiniteSet(S)
           /\ Cardinality(S) \in 0 .. NThreads - 1
           /\ Cardinality(S) >= Expected => S = Worker
<1>1. IsFiniteSet(S) /\ Cardinality(S) <= NThreads - 1
  BY WorkersCounted, FS_Subset
<1>2. Cardinality(S) \in Nat
  BY <1>1, FS_CardinalityType
<1>3. Cardinality(S) = NThreads - 1 => S = Worker
  BY WorkersCounted, FS_Subset
<1>4. QED
  BY <1>1, <1>2, <1>3, PoolAssumption, SMT DEF Expected

-----------------------------------------------------------------------------
\* create starts the workers before the first generation.
LEMMA InitIInv == Init => IInv
<1> SUFFICES ASSUME Init PROVE IInv
  OBVIOUS
<1> USE PoolAssumption DEF Init, Thread, Worker
<1>1. 0 \in Thread /\ pc[0] = "idle" /\ \A t \in Worker : pc[t] = "up"
  BY SMT
<1>2. Types
  <2>1. pc \in [Thread -> CallerPc \cup WorkerPc]
    BY SMT DEF CallerPc, WorkerPc
  <2>2. computed \in [Thread -> {0, 1}]
    BY SMT
  <2>3. go \in {0, 1} /\ done \in 0 .. NThreads - 1 /\ round \in 0 .. MaxRounds
    BY SMT
  <2>4. func \in BOOLEAN
    OBVIOUS
  <2>5. pc[0] \in CallerPc /\ \A t \in Worker : pc[t] \in WorkerPc
    BY <1>1 DEF CallerPc, WorkerPc
  <2>6. QED
    BY <2>1, <2>2, <2>3, <2>4, <2>5 DEF Types
<1>3. CallerView /\ WorkerView /\ CountView
  BY <1>1, SMT DEF CallerView, WorkerView, CountView, Running
<1>4. QED
  BY <1>2, <1>3 DEF IInv

(* A worker's report adds one member to the set that is counted.               *)
LEMMA CountDoneCounts ==
    ASSUME IInv, NEW t \in Worker, CountDone(t)
    PROVE  done' = Cardinality(Counted') /\ done' \in 0 .. NThreads - 1
<1>1. t \in Thread /\ t # 0 /\ computed[t] = 1 /\ Running /\ pc[t] = "count"
  BY DEF Worker, CountDone, IInv, WorkerView
<1>2. pc' = [pc EXCEPT ![t] = "down"] /\ computed' = computed /\ done' = done + 1
  BY DEF CountDone, Goto
<1>3. pc \in [Thread -> CallerPc \cup WorkerPc]
  BY DEF IInv, Types
<1>4. Counted' = Counted \cup {t}
  BY <1>1, <1>2, <1>3, SMT DEF Counted, Worker
<1>5. t \notin Counted
  BY <1>1, SMT DEF Counted
<1>6. Counted \in SUBSET Worker /\ Counted' \in SUBSET Worker
  BY DEF Counted
<1>7. IsFiniteSet(Counted)
  BY <1>6, AllCounted
<1>8. Cardinality(Counted') = Cardinality(Counted) + 1
  BY <1>4, <1>5, <1>7, FS_AddElement
<1>9. done = Cardinality(Counted)
  BY <1>1 DEF IInv, CountView
<1>10. Cardinality(Counted') \in 0 .. NThreads - 1
  BY <1>6, AllCounted
<1>11. QED
  BY <1>2, <1>8, <1>9, <1>10

(* The set that is counted is untouched by a step that changes no report.      *)
LEMMA CountedStays ==
    ASSUME \A t \in Worker : pc'[t] = "down" <=> pc[t] = "down",
           \A t \in Worker : computed'[t] = computed[t]
    PROVE  Counted' = Counted
  BY DEF Counted

(* One step per action.                                                        *)
LEMMA NextIInv == IInv /\ [Next]_vars => IInv'
<1> SUFFICES ASSUME IInv, [Next]_vars PROVE IInv'
  OBVIOUS
<1> USE PoolAssumption DEF Thread, Worker, CallerPc, WorkerPc, Goto, Compute
<1>1. CASE Publish
  BY <1>1, SMT DEF Publish, IInv, Types, CallerView, WorkerView, CountView, Running
<1>2. CASE ResetDone
  BY <1>2, SMT DEF ResetDone, IInv, Types, CallerView, WorkerView, CountView, Running
<1>3. CASE RaiseGo
  <2>1. Counted' = {}
    BY <1>3, SMT DEF RaiseGo, IInv, Types, WorkerView, Counted
  <2>2. Cardinality(Counted') = 0
    BY <2>1, FS_EmptySet
  <2>3. (Types /\ CallerView /\ WorkerView)'
    BY <1>3, SMT DEF RaiseGo, IInv, Types, CallerView, WorkerView, Running
  <2>4. CountView'
    BY <1>3, <2>2, SMT DEF RaiseGo, IInv, Types, CountView, Running
  <2>5. QED
    BY <2>3, <2>4 DEF IInv
<1>4. CASE RunOwnPart
  <2>1. Counted' = Counted
    BY <1>4, CountedStays, SMT DEF RunOwnPart, IInv, Types
  <2>2. (Types /\ CallerView /\ WorkerView)'
    BY <1>4, SMT DEF RunOwnPart, IInv, Types, CallerView, WorkerView, Running
  <2>3. CountView'
    BY <1>4, <2>1, SMT DEF RunOwnPart, IInv, Types, CountView, Running
  <2>4. QED
    BY <2>2, <2>3 DEF IInv
<1>5. CASE AwaitWorkers
  <2>1. Counted = Worker
    <3>1. Counted \in SUBSET Worker
      BY DEF Counted
    <3>2. Cardinality(Counted) >= Expected
      BY <1>5 DEF AwaitWorkers, IInv, CountView, Running
    <3>3. QED
      BY <3>1, <3>2, AllCounted
  <2>2. \A t \in Worker : pc[t] = "down" /\ computed[t] = 1
    BY <2>1 DEF Counted
  <2>3. QED
    BY <1>5, <2>2, SMT
    DEF AwaitWorkers, IInv, Types, CallerView, WorkerView, CountView, Running
<1>6. CASE ClearFunc
  <2>1. pc' = [pc EXCEPT ![0] = "lower"] /\ pc'[0] = "lower" /\ pc[0] = "clear"
    BY <1>6, SMT DEF ClearFunc, IInv, Types
  <2>2. func' = FALSE /\ UNCHANGED <<go, done, round, computed>>
    BY <1>6 DEF ClearFunc
  <2>3. CallerView'
    <3>1. func' <=> pc'[0] \in {"reset", "raise", "own", "await", "clear"}
      BY <2>1, <2>2
    <3>2. go' = 1 /\ computed'[0] = 1
      BY <2>1, <2>2 DEF IInv, CallerView
    <3>3. QED
      BY <2>1, <3>1, <3>2 DEF CallerView
  <2>4. Types'
    <3>1. pc' \in [Thread -> CallerPc \cup WorkerPc] /\ \A t \in Worker : pc'[t] = pc[t]
      BY <2>1, SMT DEF IInv, Types
    <3>2. func' \in BOOLEAN /\ pc'[0] \in CallerPc
      BY <2>1, <2>2
    <3>3. QED
      BY <2>2, <3>1, <3>2 DEF IInv, Types
  <2>5. (WorkerView /\ CountView)'
    BY <2>1, <2>2, SMT DEF IInv, Types, WorkerView, CountView, Running
  <2>6. QED
    BY <2>3, <2>4, <2>5 DEF IInv
<1>7. CASE LowerGo
  BY <1>7, SMT DEF LowerGo, IInv, Types, CallerView, WorkerView, CountView, Running
<1>8. ASSUME NEW t \in Worker, SeeGoUp(t) PROVE IInv'
  <2>1. Counted' = Counted
    BY <1>8, CountedStays, SMT DEF SeeGoUp, IInv, Types
  <2>2. Running
    BY <1>8, SMT DEF SeeGoUp, IInv, CallerView, WorkerView, Running
  <2>3. (Types /\ CallerView /\ WorkerView)'
    BY <1>8, <2>2, SMT DEF SeeGoUp, IInv, Types, CallerView, WorkerView, Running
  <2>4. CountView'
    BY <1>8, <2>1, SMT DEF SeeGoUp, IInv, Types, CountView, Running
  <2>5. QED
    BY <2>3, <2>4 DEF IInv
<1>9. ASSUME NEW t \in Worker, TestFunc(t) PROVE IInv'
  <2>1. Running /\ func
    BY <1>9, SMT DEF TestFunc, IInv, CallerView, WorkerView, Running
  <2>2. Counted' = Counted
    BY <1>9, <2>1, CountedStays, SMT DEF TestFunc, IInv, Types
  <2>3. (Types /\ CallerView /\ WorkerView)'
    BY <1>9, <2>1, SMT DEF TestFunc, IInv, Types, CallerView, WorkerView, Running
  <2>4. CountView'
    BY <1>9, <2>2, SMT DEF TestFunc, IInv, Types, CountView, Running
  <2>5. QED
    BY <2>3, <2>4 DEF IInv
<1>10. ASSUME NEW t \in Worker, Work(t) PROVE IInv'
  <2>1. Counted' = Counted
    BY <1>10, SMT DEF Work, IInv, Types, Counted
  <2>2. (Types /\ CallerView /\ WorkerView)'
    BY <1>10, SMT DEF Work, IInv, Types, CallerView, WorkerView, Running
  <2>3. CountView'
    BY <1>10, <2>1, SMT DEF Work, IInv, Types, CountView, Running
  <2>4. QED
    BY <2>2, <2>3 DEF IInv
<1>11. ASSUME NEW t \in Worker, CountDone(t) PROVE IInv'
  <2>1. done' = Cardinality(Counted') /\ done' \in 0 .. NThreads - 1
    BY <1>11, CountDoneCounts
  <2>2. Running /\ pc'[0] = pc[0]
    BY <1>11, SMT DEF CountDone, IInv, Types, WorkerView
  <2>3. (Types /\ CallerView /\ WorkerView)'
    BY <1>11, <2>1, <2>2, SMT DEF CountDone, IInv, Types, CallerView, WorkerView, Running
  <2>4. CountView'
    BY <2>1, <2>2, SMT DEF CountView, Running
  <2>5. QED
    BY <2>3, <2>4 DEF IInv
<1>12. ASSUME NEW t \in Worker, SeeGoDown(t) PROVE IInv'
  BY <1>12, SMT DEF SeeGoDown, IInv, Types, CallerView, WorkerView, CountView, Running
<1>13. CASE UNCHANGED vars
  <2>1. Counted' = Counted
    BY <1>13 DEF vars, Counted
  <2>2. QED
    BY <1>13, <2>1
    DEF vars, IInv, Types, CallerView, WorkerView, CountView, Running
<1>14. QED
  BY <1>1, <1>2, <1>3, <1>4, <1>5, <1>6, <1>7, <1>8, <1>9, <1>10, <1>11, <1>12, <1>13
  DEF Next, CallerStep, WorkerStep

(* The invariant from which the theorems below follow.                         *)
THEOREM Invariant == Spec => []IInv
  BY InitIInv, NextIInv, PTL DEF Spec

-----------------------------------------------------------------------------
(* Every variable keeps its type; workers_done never exceeds the number of     *)
(* workers and no part is computed twice in a round.                           *)
THEOREM TypeCorrect == Spec => []TypeOK
<1>1. IInv => TypeOK
  BY DEF IInv, Types, TypeOK
<1>2. QED
  BY <1>1, Invariant, PTL

(* When _tp_run's wait is over, every part has been computed exactly once.     *)
THEOREM RoundCompleteHolds == Spec => []RoundComplete
<1>1. IInv => RoundComplete
  BY SMT DEF IInv, CallerView, WorkerView, RoundComplete, Worker
<1>2. QED
  BY <1>1, Invariant, PTL

(* No thread is between seeing go and reporting while the caller writes the    *)
(* fields such a thread reads.                                                 *)
THEOREM NoReadWhileWrittenHolds == Spec => []NoReadWhileWritten
<1>1. IInv => NoReadWhileWritten
  BY SMT DEF IInv, Types, WorkerView, Running, WorkerPc, NoReadWhileWritten
<1>2. QED
  BY <1>1, Invariant, PTL
=============================================================================
