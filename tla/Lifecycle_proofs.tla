-------------------------- MODULE Lifecycle_proofs --------------------------
(***************************************************************************)
(* Proofs about the life of the worker process, for every number of        *)
(* workers, of attempts and of panics.                                     *)
(***************************************************************************)
EXTENDS Lifecycle, TLAPS

\* Where LifecycleCmd is bounds the worker it is at, and a worker that was not
\* started has done nothing.
Order ==
    /\ main \in {"setup", "construct"} => current \in 0..Workers
    /\ main = "await" => current \in Worker
    /\ \A w \in Worker :
           main \in {"setup", "construct"} \/ (main = "start" /\ current <= w) => pc[w] = "none"

\* The workers are stopped when appCtx is done, which takes a signal or a panic.
Cause ==
    /\ main \in {"stop", "await"} => appDone
    /\ appDone => listener = "done" \/ \E v \in Worker : panicked[v]

\* The workers that were stopped, which are all of them when the process has
\* ended well, have returned without an error.
Ended ==
    \A w \in Worker :
        Stopped(w) \/ exit = "ok" => pc[w] = "returned" /\ ~failed[w]

\* A worker that reports the errors of retry.Do fails by one, and returns.
Reported ==
    \A w \in Worker :
        /\ failed[w] => pc[w] = "returned"
        /\ w \notin Logs /\ lost[w] = "stop" => failed[w]
        /\ w \notin Logs \union Swallows /\ lost[w] = "database" => failed[w]

IInv == TypeOK /\ Order /\ Cause /\ Ended /\ Reported

USE LifecycleAssumption DEF Worker, Finder

LEMMA InitIInv == Init => IInv
<1> SUFFICES ASSUME Init PROVE IInv
  OBVIOUS
<1>1. attempt \in [Worker -> 0..MaxAttempts - 1] /\ work \in [Worker -> 0..MaxWork]
  BY DEF Init
<1>2. current \in 0..Workers + 1 /\ faults \in 0..MaxFaults
  BY DEF Init
<1>3. TypeOK
  BY <1>1, <1>2 DEF Init, TypeOK
<1> QED
  BY <1>3 DEF Init, IInv, Order, Cause, Ended, Reported, Stopped

\* LifecycleCmd until all workers run.
LEMMA StartPreserves ==
    ASSUME IInv, Setup \/ Construct \/ StartSynchronizer \/ StartWorker
    PROVE  IInv'
<1> USE DEF IInv
<1>1. CASE Setup
  <2>1. TypeOK'
    BY <1>1 DEF Setup, Exits, Running, workerVars, TypeOK
  <2>2. Order' /\ Cause' /\ Ended' /\ Reported'
    BY <1>1 DEF Setup, Exits, Running, workerVars, TypeOK, Order, Cause, Ended, Reported, Stopped
  <2> QED
    BY <2>1, <2>2
<1>2. CASE Construct
  <2>1. TypeOK'
    BY <1>2 DEF Construct, Exits, Running, workerVars, TypeOK
  <2>2. Order'
    BY <1>2 DEF Construct, Exits, Running, workerVars, TypeOK, Order
  <2>3. Cause' /\ Reported'
    BY <1>2 DEF Construct, Exits, workerVars, Cause, Reported
  <2>4. Ended'
    BY <1>2 DEF Construct, Exits, Running, workerVars, Order, Ended, Stopped
  <2> QED
    BY <2>1, <2>2, <2>3, <2>4
<1>3. CASE StartSynchronizer
  BY <1>3 DEF StartSynchronizer, Running, workerVars, TypeOK, Order, Cause, Ended, Reported,
              Stopped
<1>4. CASE StartWorker
  <2>1. TypeOK'
    BY <1>4 DEF StartWorker, Running, TypeOK
  <2>2. Order' /\ Cause'
    BY <1>4 DEF StartWorker, Running, TypeOK, Order, Cause
  <2>3. Ended' /\ Reported'
    BY <1>4 DEF StartWorker, Running, TypeOK, Order, Ended, Reported, Stopped
  <2> QED
    BY <2>1, <2>2, <2>3
<1> QED
  BY <1>1, <1>2, <1>3, <1>4

\* LifecycleCmd from then on.
LEMMA StopPreserves ==
    ASSUME IInv, AppDone \/ StopSynchronizer \/ Cancel \/ Await
    PROVE  IInv'
<1> USE DEF IInv
<1>1. CASE AppDone
  BY <1>1 DEF AppDone, Running, workerVars, TypeOK, Order, Cause, Ended, Reported, Stopped
<1>2. CASE StopSynchronizer
  BY <1>2 DEF StopSynchronizer, Exits, Running, workerVars, TypeOK, Order, Cause, Ended,
              Reported, Stopped
<1>3. CASE Cancel
  BY <1>3 DEF Cancel, Running, TypeOK, Order, Cause, Ended, Reported, Stopped
<1>4. CASE Await
  <2>0. /\ current' \in 0..Workers + 1 /\ exit' \in {"no", "ok", "error", "crash"}
        /\ main' \in {"await", "stop", "exited"}
    BY <1>4 DEF Await, Exits, Running, TypeOK, Order
  <2>1. TypeOK'
    BY <1>4, <2>0 DEF Await, workerVars, TypeOK
  <2>2. Order'
    BY <1>4 DEF Await, Exits, Running, workerVars, TypeOK, Order
  <2>3. Cause' /\ Reported'
    BY <1>4 DEF Await, Exits, workerVars, Cause, Reported
  <2>4. Ended'
    BY <1>4 DEF Await, Exits, Running, workerVars, TypeOK, Order, Ended, Stopped
  <2> QED
    BY <2>1, <2>2, <2>3, <2>4
<1> QED
  BY <1>1, <1>2, <1>3, <1>4

LEMMA SignalPreserves ==
    ASSUME IInv, Listen \/ Signal \/ Interrupted
    PROVE  IInv'
<1> USE DEF IInv
<1>0. /\ UNCHANGED <<main, current, exit, loop, workerVars>>
      /\ listener' \in {"waiting", "signalled", "done"} /\ listener # "done"
  BY DEF Listen, Signal, Interrupted, TypeOK
<1>a. appDone' = appDone \/ (appDone' = TRUE /\ listener' = "done")
  BY DEF Listen, Signal, Interrupted
<1>1. TypeOK'
  BY <1>0, <1>a DEF workerVars, TypeOK
<1>2. Cause'
  BY <1>0, <1>a DEF workerVars, Cause
<1>3. Order' /\ Ended' /\ Reported'
  BY <1>0 DEF workerVars, Order, Ended, Reported, Stopped
<1> QED
  BY <1>1, <1>2, <1>3

\* A step of a worker is one of a worker that runs, and returns with an error if
\* what it leaves unrecorded is to be reported.
WorkerMoves(w) ==
    /\ Running /\ UNCHANGED <<main, current, listener, exit, loop, cancelled>>
    /\ pc[w] \in {"select", "act", "try", "op"}
    /\ pc'[w] \in {"select", "act", "try", "op", "returned"}
    /\ \A v \in Worker \ {w} :
           pc'[v] = pc[v] /\ failed'[v] = failed[v] /\ lost'[v] = lost[v]
    /\ appDone' => appDone \/ panicked'[w]
    /\ appDone => appDone'
    /\ \A v \in Worker : panicked[v] => panicked'[v]
    /\ failed'[w] => pc'[w] = "returned"
    /\ w \notin Logs /\ lost'[w] = "stop" => failed'[w] \/ lost[w] = "stop"
    /\ w \notin Logs \union Swallows /\ lost'[w] = "database" =>
           failed'[w] \/ lost[w] = "database"

LEMMA NextBusinessTyped ==
    ASSUME TypeOK, NEW w \in Worker, NextBusiness(w)
    PROVE  /\ pc' \in [Worker -> {"none", "select", "act", "try", "op", "returned"}]
           /\ pc'[w] \in {"select", "act"}
           /\ \A v \in Worker \ {w} : pc'[v] = pc[v]
           /\ work' \in [Worker -> 0..MaxWork]
<1>1. work \in [Worker -> 0..MaxWork] /\ work[w] \in 0..MaxWork
  BY DEF TypeOK
<1>2. work' \in [Worker -> 0..MaxWork]
  BY <1>1 DEF NextBusiness
<1> QED
  BY <1>2 DEF NextBusiness, Goto, TypeOK

LEMMA ReturnTyped ==
    ASSUME TypeOK, NEW w \in Worker, NEW error \in BOOLEAN, Return(w, error)
    PROVE  /\ pc' \in [Worker -> {"none", "select", "act", "try", "op", "returned"}]
           /\ pc'[w] = "returned" /\ failed'[w] = error
           /\ failed' \in [Worker -> BOOLEAN]
           /\ \A v \in Worker \ {w} : pc'[v] = pc[v] /\ failed'[v] = failed[v]
BY DEF Return, Goto, TypeOK

LEMMA DoFailsTyped ==
    ASSUME TypeOK, NEW w \in Worker, NEW why \in {"stop", "database"}, DoFails(w, why)
    PROVE  /\ pc' \in [Worker -> {"none", "select", "act", "try", "op", "returned"}]
           /\ pc'[w] \in {"select", "act", "returned"}
           /\ failed' \in [Worker -> BOOLEAN]
           /\ work' \in [Worker -> 0..MaxWork]
           /\ lost' \in [Worker -> {"no", "stop", "database", "panic"}]
           /\ lost'[w] = why
           /\ failed'[w] \/ (w \in Logs /\ failed' = failed)
           /\ failed'[w] => pc'[w] = "returned" \/ failed[w]
           /\ \A v \in Worker \ {w} :
                  pc'[v] = pc[v] /\ failed'[v] = failed[v] /\ lost'[v] = lost[v]
<1>1. /\ lost' \in [Worker -> {"no", "stop", "database", "panic"}]
      /\ lost'[w] = why /\ \A v \in Worker \ {w} : lost'[v] = lost[v]
  BY DEF DoFails, TypeOK
<1>2. CASE w \in Logs
  BY <1>1, <1>2, NextBusinessTyped DEF DoFails, TypeOK
<1>3. CASE w \notin Logs
  BY <1>1, <1>3, ReturnTyped DEF DoFails, TypeOK
<1> QED
  BY <1>2, <1>3

LEMMA StepMoves ==
    ASSUME IInv, NEW w \in Worker, Step(w) \/ Panic(w)
    PROVE  WorkerMoves(w) /\ TypeOK'
<1>0. TypeOK /\ (pc[w] # "returned" => ~failed[w])
  BY DEF IInv, Reported
<1>a. /\ attempt \in [Worker -> 0..MaxAttempts - 1] /\ attempt[w] \in 0..MaxAttempts - 1
      /\ work \in [Worker -> 0..MaxWork] /\ work[w] \in 0..MaxWork
  BY <1>0 DEF TypeOK
<1> USE DEF At, Running, processVars
<1>1. CASE TakeWork(w)
  <2>a. attempt' \in [Worker -> 0..MaxAttempts - 1] /\ work' \in [Worker -> 0..MaxWork]
    BY <1>a, <1>1 DEF TakeWork, Goto
  <2>1. TypeOK'
    BY <2>a, <1>0, <1>1 DEF TakeWork, Goto, TypeOK
  <2>2. WorkerMoves(w)
    BY <1>0, <1>1 DEF TakeWork, Goto, TypeOK, WorkerMoves
  <2> QED
    BY <2>1, <2>2
<1>2. CASE SeesDone(w)
  <2>1. TypeOK'
    BY <1>0, <1>2, ReturnTyped DEF SeesDone, TypeOK
  <2>2. WorkerMoves(w)
    BY <1>0, <1>2, ReturnTyped DEF SeesDone, TypeOK, WorkerMoves
  <2> QED
    BY <2>1, <2>2
<1>3. CASE Act(w)
  <2>a. attempt' \in [Worker -> 0..MaxAttempts - 1] /\ work' \in [Worker -> 0..MaxWork]
    BY <1>a, <1>3 DEF Act, Goto
  <2>1. TypeOK'
    BY <2>a, <1>0, <1>3 DEF Act, Goto, TypeOK
  <2>2. WorkerMoves(w)
    BY <1>0, <1>3 DEF Act, Goto, TypeOK, WorkerMoves
  <2> QED
    BY <2>1, <2>2
<1>4. CASE SkipAct(w)
  <2>1. TypeOK'
    BY <1>0, <1>4, ReturnTyped, NextBusinessTyped DEF SkipAct, TypeOK
  <2>2. WorkerMoves(w)
    BY <1>0, <1>4, ReturnTyped, NextBusinessTyped DEF SkipAct, TypeOK, WorkerMoves
  <2> QED
    BY <2>1, <2>2
<1>5. CASE Try(w)
  <2>1. TypeOK'
    BY <1>0, <1>5, DoFailsTyped DEF Try, Goto, TypeOK
  <2>2. WorkerMoves(w)
    BY <1>0, <1>5, DoFailsTyped DEF Try, Goto, TypeOK, WorkerMoves
  <2> QED
    BY <2>1, <2>2
<1>6. CASE Record(w)
  <2>1. TypeOK'
    BY <1>0, <1>6, NextBusinessTyped DEF Record, TypeOK
  <2>2. WorkerMoves(w)
    BY <1>0, <1>6, NextBusinessTyped DEF Record, TypeOK, WorkerMoves
  <2> QED
    BY <2>1, <2>2
<1>7. CASE RecordFails(w)
  <2>0. pc[w] = "op" /\ Running /\ UNCHANGED <<processVars, cancelled, panicked, faults>>
    BY <1>7 DEF RecordFails
  <2>1. CASE /\ w \in Swallows /\ NextBusiness(w)
             /\ lost' = [lost EXCEPT ![w] = "database"] /\ UNCHANGED <<attempt, failed>>
    <3>1. TypeOK'
      BY <1>0, <2>0, <2>1, NextBusinessTyped DEF TypeOK
    <3>2. lost'[w] = "database" /\ \A v \in Worker \ {w} : lost'[v] = lost[v]
      BY <1>0, <2>1 DEF TypeOK
    <3> QED
      BY <1>0, <2>0, <2>1, <3>1, <3>2, NextBusinessTyped DEF WorkerMoves
  <2>2. CASE /\ attempt[w] + 1 < MaxAttempts /\ Goto(w, "try")
             /\ attempt' = [attempt EXCEPT ![w] = @ + 1] /\ UNCHANGED <<failed, lost, work>>
    <3>1. attempt' \in [Worker -> 0..MaxAttempts - 1]
      <4>1. attempt[w] + 1 \in 0..MaxAttempts - 1
        BY <1>a, <2>2
      <4> QED
        BY <1>a, <2>2, <4>1
    <3>a. pc' \in [Worker -> {"none", "select", "act", "try", "op", "returned"}]
      BY <1>0, <2>2 DEF Goto, TypeOK
    <3>2. TypeOK'
      BY <1>0, <2>0, <2>2, <3>1, <3>a DEF TypeOK, processVars
    <3>3. pc'[w] = "try" /\ \A v \in Worker \ {w} : pc'[v] = pc[v]
      BY <1>0, <2>2 DEF Goto, TypeOK
    <3> QED
      BY <1>0, <2>0, <2>2, <3>2, <3>3 DEF WorkerMoves
  <2>3. CASE DoFails(w, "database") /\ UNCHANGED attempt
    <3>1. TypeOK'
      BY <1>0, <2>0, <2>3, DoFailsTyped DEF TypeOK
    <3> QED
      BY <1>0, <2>0, <2>3, <3>1, DoFailsTyped DEF TypeOK, WorkerMoves
  <2>4. CASE w \in Swallows
    BY <1>7, <2>1, <2>4 DEF RecordFails
  <2>5. CASE w \notin Swallows
    BY <1>7, <2>2, <2>3, <2>5 DEF RecordFails
  <2> QED
    BY <2>4, <2>5
<1>8. CASE Panic(w)
  <2>1. faults' \in 0..MaxFaults /\ appDone' = TRUE
    BY <1>0, <1>8 DEF Panic, TypeOK
  <2>2. /\ panicked' \in [Worker -> BOOLEAN]
        /\ lost' \in [Worker -> {"no", "stop", "database", "panic"}]
    BY <1>0, <1>8 DEF Panic, TypeOK
  <2>3. /\ pc' \in [Worker -> {"none", "select", "act", "try", "op", "returned"}]
        /\ failed' \in [Worker -> BOOLEAN]
    BY <1>0, <1>8, ReturnTyped DEF Panic
  <2>4. TypeOK'
    BY <2>1, <2>2, <2>3, <1>0, <1>8 DEF Panic, TypeOK
  <2>5. WorkerMoves(w)
    BY <1>0, <1>8, ReturnTyped DEF Panic, TypeOK, WorkerMoves
  <2> QED
    BY <2>4, <2>5
<1> QED
  BY <1>1, <1>2, <1>3, <1>4, <1>5, <1>6, <1>7, <1>8 DEF Step

LEMMA WorkerPreserves ==
    ASSUME IInv, NEW w \in Worker, Step(w) \/ Panic(w)
    PROVE  IInv'
<1>1. WorkerMoves(w) /\ TypeOK'
  BY StepMoves
<1>2. pc[w] \notin {"none", "returned"} /\ ~failed[w]
  BY <1>1 DEF WorkerMoves, IInv, Reported
<1>3. UNCHANGED <<main, current, listener, exit>> /\ exit = "no"
  BY <1>1 DEF WorkerMoves, Running
<1>4. Order'
  <2>1. \A v \in Worker \ {w} : pc'[v] = pc[v]
    BY <1>1 DEF WorkerMoves
  <2>2. main \notin {"setup", "construct"} /\ ~(main = "start" /\ current <= w)
    BY <1>2 DEF IInv, Order
  <2> QED
    BY <1>3, <2>1, <2>2 DEF IInv, Order
<1>5. Cause'
  <2>1. \A v \in Worker : panicked[v] => panicked'[v]
    BY <1>1 DEF WorkerMoves
  <2>2. (appDone' => appDone \/ panicked'[w]) /\ (appDone => appDone')
    BY <1>1 DEF WorkerMoves
  <2> QED
    BY <1>3, <2>1, <2>2 DEF IInv, Cause
<1>6. Ended'
  <2>1. ~Stopped(w)
    BY <1>2 DEF IInv, Ended
  <2>2. \A v \in Worker \ {w} : pc'[v] = pc[v] /\ failed'[v] = failed[v]
    BY <1>1 DEF WorkerMoves
  <2> QED
    BY <1>3, <2>1, <2>2 DEF IInv, Ended, Stopped
<1>7. Reported'
  <2>1. \A v \in Worker \ {w} : pc'[v] = pc[v] /\ failed'[v] = failed[v] /\ lost'[v] = lost[v]
    BY <1>1 DEF WorkerMoves
  <2>2. /\ failed'[w] => pc'[w] = "returned"
        /\ w \notin Logs /\ lost'[w] = "stop" => failed'[w]
        /\ w \notin Logs \union Swallows /\ lost'[w] = "database" => failed'[w]
    BY <1>1, <1>2 DEF WorkerMoves, IInv, Reported
  <2> QED
    BY <2>1, <2>2 DEF IInv, Reported
<1> QED
  BY <1>1, <1>4, <1>5, <1>6, <1>7 DEF IInv

LEMMA CrashPreserves ==
    ASSUME IInv, SynchronizerPanics
    PROVE  IInv'
BY DEF IInv, SynchronizerPanics, Exits, Running, TypeOK, Order, Cause, Ended, Reported, Stopped

LEMMA NextIInv == IInv /\ [Next]_vars => IInv'
<1> SUFFICES ASSUME IInv, [Next]_vars PROVE IInv'
  OBVIOUS
<1>1. CASE UNCHANGED vars
  BY <1>1 DEF vars, processVars, workerVars, IInv, TypeOK, Order, Cause, Ended, Reported, Stopped
<1>2. CASE Main
  BY <1>2, StartPreserves, StopPreserves DEF Main
<1>3. CASE Listen \/ Signal \/ Interrupted
  BY <1>3, SignalPreserves
<1>4. CASE \E w \in Worker : Step(w) \/ Panic(w)
  BY <1>4, WorkerPreserves
<1>5. CASE SynchronizerPanics
  BY <1>5, CrashPreserves
<1> QED
  BY <1>1, <1>2, <1>3, <1>4, <1>5 DEF Next

LEMMA AlwaysIInv == Spec => []IInv
<1> QED
  BY InitIInv, NextIInv, PTL DEF Spec

\* Every state of the process is of its type, whatever the number of workers.
THEOREM TypeCorrect == Spec => []TypeOK
<1>1. IInv => TypeOK
  BY DEF IInv
<1> QED
  BY <1>1, AlwaysIInv, PTL

\* When the process ends without an error, every worker has returned without one,
\* and what a worker did last is in the database unless it panicked, logs its
\* errors or swallows those of the database: those losses are silent, any other
\* is reported (worker/entry.go:144-182, common/retry/operation.go:34-59,
\* common/tasks/tasks.go:17-34).
THEOREM LossesAreReported == Spec => []LossIsReported
<1>1. IInv => LossIsReported
  BY DEF IInv, TypeOK, Ended, Reported, LossIsReported
<1> QED
  BY <1>1, AlwaysIInv, PTL

\* A worker that was stopped does nothing while the others are being stopped
\* (worker/entry.go:144-182, common/tasks/tasks.go).
THEOREM StoppedStays == Spec => StoppedIsQuiet
<1>1. ASSUME IInv, [Next]_vars, NEW w \in Worker, Stopped(w)
      PROVE  pc'[w] = pc[w]
  <2>1. pc[w] = "returned" /\ main \in {"stop", "await"}
    BY <1>1 DEF IInv, Ended, Stopped
  <2>2. CASE UNCHANGED vars
    BY <2>2 DEF vars, workerVars
  <2>3. CASE Main
    BY <2>1, <2>3 DEF Main, Setup, Construct, StartSynchronizer, StartWorker, AppDone,
                      StopSynchronizer, Cancel, Await, workerVars
  <2>4. CASE Listen \/ Signal \/ Interrupted
    BY <2>4 DEF Listen, Signal, Interrupted, workerVars
  <2>5. ASSUME NEW v \in Worker, Step(v) \/ Panic(v)
        PROVE  pc'[w] = pc[w]
    <3>1. WorkerMoves(v)
      BY <1>1, <2>5, StepMoves
    <3> QED
      BY <2>1, <3>1 DEF WorkerMoves
  <2>6. CASE SynchronizerPanics
    BY <2>6 DEF SynchronizerPanics
  <2> QED
    BY <1>1, <2>2, <2>3, <2>4, <2>5, <2>6 DEF Next
<1>2. IInv /\ [Next]_vars => [\A w \in Worker : Stopped(w) => pc'[w] = pc[w]]_vars
  BY <1>1
<1> QED
  BY <1>2, AlwaysIInv, PTL DEF Spec, StoppedIsQuiet

\* A worker is told to stop only after a signal or a panic, never because another
\* one has failed (cliapp/lifecycle.go:54-82, worker/entry.go).
THEOREM StoppedByCause == Spec => StoppedForAReason
<1>1. ASSUME IInv, [Next]_vars, NEW w \in Worker, ~cancelled[w], cancelled'[w]
      PROVE  listener = "done" \/ \E v \in Worker : panicked[v]
  <2>1. ~UNCHANGED cancelled
    BY <1>1
  <2>2. CASE Main
    <3>1. Cancel
      BY <2>1, <2>2 DEF Main, Setup, Construct, StartSynchronizer, StartWorker, AppDone,
                        StopSynchronizer, Await, workerVars
    <3> QED
      BY <1>1, <3>1 DEF Cancel, IInv, Cause
  <2>3. ~(Listen \/ Signal \/ Interrupted \/ SynchronizerPanics)
    BY <2>1 DEF Listen, Signal, Interrupted, SynchronizerPanics, workerVars
  <2>4. ASSUME NEW v \in Worker PROVE ~(Step(v) \/ Panic(v))
    BY <1>1, <2>1, StepMoves DEF WorkerMoves
  <2>5. ~UNCHANGED vars
    BY <2>1 DEF vars, workerVars
  <2> QED
    BY <1>1, <2>2, <2>3, <2>4, <2>5 DEF Next, IInv, Cause
<1>2. IInv /\ [Next]_vars =>
          [\A w \in Worker : ~cancelled[w] /\ cancelled'[w] =>
              listener = "done" \/ \E v \in Worker : panicked[v]]_vars
  BY <1>1
<1> QED
  BY <1>2, AlwaysIInv, PTL DEF Spec, StoppedForAReason

=============================================================================
