----------------------------- MODULE Lifecycle -----------------------------
(***************************************************************************)
(* The life of the worker process: LifecycleCmd (common/cliapp), the       *)
(* signals it listens for (common/opio), the workers it starts and stops   *)
(* in order (worker/entry.go), each a goroutine of a tasks.Group with a    *)
(* context of its own, and retry.Do, by which every worker records in the  *)
(* database what it has done outside of it.                                *)
(***************************************************************************)
EXTENDS Naturals

CONSTANTS
    Workers,       \* Finder, Withdraw, Internal, Fallback, Notifier, in this order
    Logs,          \* those that log an error of retry.Do and go on
    Swallows,      \* those whose operation tells retry.Do of no error
    MaxAttempts,   \* of retry.Do
    MaxWork,       \* bound: pieces of work a worker takes
    MaxFaults      \* bound: panics

Worker == 1..Workers
Finder == 1

ASSUME LifecycleAssumption ==
    /\ Workers \in Nat /\ MaxAttempts \in Nat \ {0} /\ MaxWork \in Nat /\ MaxFaults \in Nat
    /\ Logs \subseteq Worker /\ Swallows \subseteq Worker /\ Logs \intersect Swallows = {}

VARIABLES
    main,         \* what LifecycleCmd is about to do
    current,      \* the worker WorkerEntry is starting or stopping
    listener,     \* the goroutine that waits for a signal
    appDone,      \* appCtx is done
    exit,         \* how the process has ended, "no" while it runs
    loop,         \* the loop of the synchronizer
    pc,           \* what each worker is about to do
    attempt,      \* of retry.Do, for each worker
    cancelled,    \* resourceCtx of each worker is done
    failed,       \* its goroutine has returned an error
    panicked,     \* its goroutine has panicked
    work,         \* bound: pieces of work taken
    faults,       \* bound: panics
    lost          \* history: why what a worker did last was not recorded, "no" if it was

processVars == <<main, current, listener, appDone, exit, loop>>
workerVars == <<pc, attempt, cancelled, failed, panicked, work, faults, lost>>
vars == <<processVars, workerVars>>

Init ==
    /\ main = "setup" /\ current = 0 /\ listener = "ready" /\ appDone = FALSE
    /\ exit = "no" /\ loop = "none"
    /\ pc = [w \in Worker |-> "none"] /\ attempt = [w \in Worker |-> 0]
    /\ cancelled = [w \in Worker |-> FALSE]
    /\ failed = [w \in Worker |-> FALSE] /\ panicked = [w \in Worker |-> FALSE]
    /\ work = [w \in Worker |-> 0] /\ faults = 0
    /\ lost = [w \in Worker |-> "no"]

Running == exit = "no"

-----------------------------------------------------------------------------
\* LifecycleCmd.

Exits(how) == exit' = how /\ main' = "exited"

\* NewDB, which retries on a context of its own: no signal shortens it.
Setup ==
    /\ Running /\ main = "setup"
    /\ \/ main' = "construct" /\ UNCHANGED exit
       \/ Exits("error")
    /\ UNCHANGED <<current, listener, appDone, loop, workerVars>>

\* NewAllWorker, the synchronizer (which reads the last block) as number 0; the
\* Notifier (which reads the businesses) comes last.
Construct ==
    /\ Running /\ main = "construct"
    /\ \/ current < Workers /\ current' = current + 1 /\ UNCHANGED <<main, exit>>
       \/ current = Workers /\ main' = "start" /\ current' = 0 /\ UNCHANGED exit
       \/ current \in {0, Workers} /\ Exits("error") /\ UNCHANGED current
    /\ UNCHANGED <<listener, appDone, loop, workerVars>>

\* The synchronizer is started first, as worker 0.
StartSynchronizer ==
    /\ Running /\ main = "start" /\ current = 0
    /\ loop' = "running"
    /\ current' = 1
    /\ main' = IF Workers = 0 THEN "wait" ELSE "start"
    /\ UNCHANGED <<listener, appDone, exit, workerVars>>

StartWorker ==
    /\ Running /\ main = "start" /\ current \in Worker
    /\ pc' = [pc EXCEPT ![current] = "select"]
    /\ current' = current + 1
    /\ main' = IF current = Workers THEN "wait" ELSE "start"
    /\ UNCHANGED <<listener, appDone, exit, loop, attempt, cancelled, failed, panicked,
                   work, faults, lost>>

\* Mutant: LifecycleCmd does not wait.
AppDoneAtOnce ==
    /\ Running /\ main = "wait"
    /\ main' = "stop" /\ current' = 0
    /\ UNCHANGED <<listener, appDone, exit, loop, workerVars>>

AppDone ==
    /\ Running /\ main = "wait" /\ appDone
    /\ main' = "stop" /\ current' = 0
    /\ UNCHANGED <<listener, appDone, exit, loop, workerVars>>

\* BaseSynchronizer.Stop does nothing when there is a loop, and closes it when
\* there is none.
StopSynchronizer ==
    /\ Running /\ main = "stop" /\ current = 0
    /\ current' = 1
    /\ IF loop = "none" THEN Exits("crash")
       ELSE IF Workers = 0 THEN Exits("ok") ELSE UNCHANGED <<main, exit>>
    /\ UNCHANGED <<listener, appDone, loop, workerVars>>

\* Mutant: the context is not cancelled before the wait.
CancelNothing ==
    /\ Running /\ main = "stop" /\ current \in Worker
    /\ main' = "await"
    /\ UNCHANGED <<current, listener, appDone, exit, loop, workerVars>>

\* Stop of a worker, up to the wait for its goroutine.
Cancel ==
    /\ Running /\ main = "stop" /\ current \in Worker
    /\ cancelled' = [cancelled EXCEPT ![current] = TRUE]
    /\ main' = "await"
    /\ UNCHANGED <<current, listener, appDone, exit, loop, pc, attempt, failed, panicked,
                   work, faults, lost>>

\* Mutant: the goroutine is not waited for.
AwaitNothing ==
    /\ Running /\ main = "await"
    /\ IF failed[current] THEN Exits("error") /\ UNCHANGED current
       ELSE /\ current' = current + 1
            /\ IF current = Workers THEN Exits("ok") ELSE main' = "stop" /\ UNCHANGED exit
    /\ UNCHANGED <<listener, appDone, loop, workerVars>>

\* The first error ends the stop: the workers that follow are not stopped.
Await ==
    /\ Running /\ main = "await" /\ pc[current] = "returned"
    /\ IF failed[current] THEN Exits("error") /\ UNCHANGED current
       ELSE /\ current' = current + 1
            /\ IF current = Workers THEN Exits("ok") ELSE main' = "stop" /\ UNCHANGED exit
    /\ UNCHANGED <<listener, appDone, loop, workerVars>>

Main ==
    \/ Setup \/ Construct \/ StartSynchronizer \/ StartWorker
    \/ AppDone \/ StopSynchronizer \/ Cancel \/ Await

-----------------------------------------------------------------------------
\* Signals.  main.go has registered a channel for them nobody reads, so that no
\* signal ends the process; the one listener here is that of appCtx.

Listen ==
    /\ Running /\ listener = "ready" /\ listener' = "waiting"
    /\ UNCHANGED <<main, current, appDone, exit, loop, workerVars>>

\* A signal that finds nobody waiting is gone.
Signal ==
    /\ Running /\ listener = "waiting" /\ listener' = "signalled"
    /\ UNCHANGED <<main, current, appDone, exit, loop, workerVars>>

Interrupted ==
    /\ Running /\ (listener = "signalled" \/ (listener = "waiting" /\ appDone))
    /\ listener' = "done" /\ appDone' = TRUE
    /\ UNCHANGED <<main, current, exit, loop, workerVars>>

-----------------------------------------------------------------------------
\* A worker.

At(w, label) == Running /\ pc[w] = label
Goto(w, label) == pc' = [pc EXCEPT ![w] = label]

\* The goroutine of the worker ends, with an error or without.
Return(w, error) ==
    Goto(w, "returned") /\ failed' = [failed EXCEPT ![w] = error]

\* A tick or a batch, which select may take though the context is done.
TakeWork(w) ==
    /\ At(w, "select") /\ work[w] < MaxWork
    /\ work' = [work EXCEPT ![w] = @ + 1]
    /\ Goto(w, "act")
    /\ UNCHANGED <<processVars, attempt, cancelled, failed, panicked, faults, lost>>

SeesDone(w) ==
    /\ At(w, "select") /\ cancelled[w]
    /\ Return(w, FALSE)
    /\ UNCHANGED <<processVars, attempt, cancelled, panicked, work, faults, lost>>

\* For one business: send, notify or sort out what was taken.
Act(w) ==
    /\ At(w, "act") /\ Goto(w, "try")
    /\ attempt' = [attempt EXCEPT ![w] = 0]
    /\ UNCHANGED <<processVars, cancelled, failed, panicked, work, faults, lost>>

\* On to the next business, whatever has become of the context, or back to the
\* loop.
NextBusiness(w) ==
    \/ Goto(w, "select") /\ UNCHANGED work
    \/ work[w] < MaxWork /\ Goto(w, "act") /\ work' = [work EXCEPT ![w] = @ + 1]

\* There is nothing to do, or a query has failed, which is logged but in the
\* Finder, which it ends.
SkipAct(w) ==
    /\ At(w, "act")
    /\ \/ NextBusiness(w) /\ UNCHANGED failed
       \/ w = Finder /\ Return(w, TRUE) /\ UNCHANGED work
    /\ UNCHANGED <<processVars, attempt, cancelled, panicked, faults, lost>>

\* retry.Do returns an error.
DoFails(w, why) ==
    /\ lost' = [lost EXCEPT ![w] = why]
    /\ IF w \in Logs THEN NextBusiness(w) /\ UNCHANGED failed
                    ELSE Return(w, TRUE) /\ UNCHANGED work

\* Mutant: an operation cut short by the context is no error.
TrySilent(w) ==
    /\ At(w, "try")
    /\ IF cancelled[w] THEN lost' = [lost EXCEPT ![w] = "stop"] /\ Return(w, FALSE)
                       ELSE Goto(w, "op") /\ UNCHANGED <<failed, lost>>
    /\ UNCHANGED <<processVars, attempt, cancelled, panicked, work, faults>>

\* The head of the loop of retry.Do.
Try(w) ==
    /\ At(w, "try")
    /\ IF cancelled[w] THEN DoFails(w, "stop")
                       ELSE Goto(w, "op") /\ UNCHANGED <<failed, lost, work>>
    /\ UNCHANGED <<processVars, attempt, cancelled, panicked, faults>>

\* The transaction commits.
Record(w) ==
    /\ At(w, "op") /\ NextBusiness(w)
    /\ lost' = [lost EXCEPT ![w] = "no"]
    /\ UNCHANGED <<processVars, attempt, cancelled, failed, panicked, faults>>

\* It does not: retry.Do sleeps, whatever becomes of the context, and tries again.
RecordFails(w) ==
    /\ At(w, "op")
    /\ \/ /\ w \in Swallows /\ NextBusiness(w)
          /\ lost' = [lost EXCEPT ![w] = "database"]
          /\ UNCHANGED <<attempt, failed>>
       \/ /\ w \notin Swallows /\ attempt[w] + 1 < MaxAttempts
          /\ Goto(w, "try") /\ attempt' = [attempt EXCEPT ![w] = @ + 1]
          /\ UNCHANGED <<failed, lost, work>>
       \/ /\ w \notin Swallows /\ attempt[w] + 1 = MaxAttempts
          /\ DoFails(w, "database")
          /\ UNCHANGED attempt
    /\ UNCHANGED <<processVars, cancelled, panicked, faults>>

\* Mutant: the group recovers and tells nobody.
PanicRecovered(w) ==
    /\ (At(w, "act") \/ At(w, "op")) /\ faults < MaxFaults
    /\ faults' = faults + 1
    /\ panicked' = [panicked EXCEPT ![w] = TRUE]
    /\ Return(w, FALSE)
    /\ lost' = [lost EXCEPT ![w] = "panic"]
    /\ UNCHANGED <<processVars, attempt, cancelled, work>>

\* The group recovers, calls HandleCrit, which is shutdown, and returns no error.
Panic(w) ==
    /\ (At(w, "act") \/ At(w, "op")) /\ faults < MaxFaults
    /\ faults' = faults + 1
    /\ panicked' = [panicked EXCEPT ![w] = TRUE] /\ appDone' = TRUE
    /\ Return(w, FALSE)
    /\ lost' = [lost EXCEPT ![w] = "panic"]
    /\ UNCHANGED <<main, current, listener, exit, loop, attempt, cancelled, work>>

\* The loop of the synchronizer recovers nothing.
SynchronizerPanics ==
    /\ Running /\ loop = "running" /\ faults < MaxFaults
    /\ faults' = faults + 1
    /\ Exits("crash")
    /\ UNCHANGED <<current, listener, appDone, loop, pc, attempt, cancelled, failed,
                   panicked, work, lost>>

Step(w) ==
    \/ TakeWork(w) \/ SeesDone(w) \/ Act(w) \/ SkipAct(w)
    \/ Try(w) \/ Record(w) \/ RecordFails(w)

Next ==
    \/ Main
    \/ Listen \/ Signal \/ Interrupted
    \/ \E w \in Worker : Step(w) \/ Panic(w)
    \/ SynchronizerPanics

Spec == Init /\ [][Next]_vars

\* Goroutines that are ready run, calls return, and a select whose context is
\* done takes that case in the end.  Nobody has to send a signal.
FairSpec ==
    /\ Spec
    /\ WF_vars(Main) /\ WF_vars(Interrupted)
    /\ \A w \in Worker : WF_vars(Step(w)) /\ SF_vars(SeesDone(w))

-----------------------------------------------------------------------------
\* Type correctness.
TypeOK ==
    /\ main \in {"setup", "construct", "start", "wait", "stop", "await", "exited"}
    /\ current \in 0..Workers + 1
    /\ listener \in {"ready", "waiting", "signalled", "done"}
    /\ appDone \in BOOLEAN /\ exit \in {"no", "ok", "error", "crash"}
    /\ loop \in {"none", "running"}
    /\ pc \in [Worker -> {"none", "select", "act", "try", "op", "returned"}]
    /\ attempt \in [Worker -> 0..MaxAttempts - 1]
    /\ cancelled \in [Worker -> BOOLEAN]
    /\ failed \in [Worker -> BOOLEAN] /\ panicked \in [Worker -> BOOLEAN]
    /\ work \in [Worker -> 0..MaxWork] /\ faults \in 0..MaxFaults
    /\ lost \in [Worker -> {"no", "stop", "database", "panic"}]

\* The process ends without an error only if every worker has returned without
\* one, and what a worker did last is then in the database but for three silent
\* losses: its goroutine panicked, of which the group returns no error
\* (tasks.go:17-29), it logs the errors of retry.Do, or it swallows those of the
\* database.  Above all, a stop that comes between an act and its record is
\* reported by every worker that does not log.
LossIsReported ==
    exit = "ok" => \A w \in Worker :
        /\ pc[w] = "returned" /\ ~failed[w]
        /\ \/ lost[w] \in {"no", "panic"}
           \/ w \in Logs
           \/ w \in Swallows /\ lost[w] = "database"

\* A worker whose Stop has returned does nothing any more, however long the
\* others take to stop and however that ends.
Stopped(w) == main \in {"stop", "await"} /\ w < current
StoppedIsQuiet == [][\A w \in Worker : Stopped(w) => pc'[w] = pc[w]]_vars

\* The workers are stopped only after a signal or a panic: that one has failed
\* stops nothing.
StoppedForAReason ==
    [][\A w \in Worker : ~cancelled[w] /\ cancelled'[w] =>
          listener = "done" \/ \E v \in Worker : panicked[v]]_vars

\* A signal that was heard ends the process, also while it starts or its workers
\* are retrying.
InterruptEnds == listener = "signalled" ~> exit # "no"

\* So does a panic in a worker.
PanicEnds == (\E w \in Worker : panicked[w]) ~> exit # "no"

\* What Stop says of the synchronizer: it is stopped when the process has ended
\* well.
SynchronizerStopped == exit = "ok" => loop # "running"

\* What the comment of Group.Wait says, that it returns all errors
\* (tasks.go:31-33), would make of an end without an error: a worker that neither
\* logs nor swallows has recorded what it did.  One that panicked has not.
NothingLost ==
    exit = "ok" => \A w \in Worker \ (Logs \union Swallows) : lost[w] = "no"

=============================================================================
