-------------------------------- MODULE Loop --------------------------------
(***************************************************************************)
(* LoopFn (common/clock/loop.go) on an AdvancingClock: a goroutine calls a *)
(* function at every tick until Close, which waits for the goroutine and   *)
(* then calls onClose.  Others use the same clock.  This is the loop the   *)
(* synchronizer runs its ticks in.                                         *)
(***************************************************************************)
EXTENDS Advancing

CONSTANTS
    LoopTicker,     \* the ticker of the loop
    Interval,       \* its period
    MaxResets       \* bound: number of calls of Reset

ASSUME LoopAssumption ==
    /\ LoopTicker \in Ticker /\ Interval \in Nat \ {0} /\ MaxResets \in Nat

VARIABLES
    work,          \* what the goroutine of the loop is about to do
    cancelled,     \* lf.ctx is done
    closing,       \* what Close is about to do
    resets         \* number of calls of Reset

loopVars == <<work, cancelled, closing, resets>>
vars == <<clockVars, advancingVars, loopVars>>

Init ==
    /\ ClockInit /\ AdvancingInit
    /\ work = "none" /\ cancelled = FALSE /\ closing = "no" /\ resets = 0

NewLoopFn ==
    /\ work = "none" /\ NewTicker(LoopTicker, Interval)
    /\ work' = "select"
    /\ UNCHANGED <<advancingVars, cancelled, closing, resets>>

\* With both cases ready select takes either.
WorkTick ==
    /\ work = "select" /\ Receive(LoopTicker)
    /\ work' = "call"
    /\ UNCHANGED <<advancingVars, cancelled, closing, resets>>

WorkReturn ==
    /\ work = "call" /\ work' = "select"
    /\ UNCHANGED <<clockVars, advancingVars, cancelled, closing, resets>>

\* The ticker is stopped before wg is done.
WorkDone ==
    /\ work = "select" /\ cancelled
    /\ StopTicker(LoopTicker)
    /\ work' = "done"
    /\ UNCHANGED <<advancingVars, cancelled, closing, resets>>

\* Mutant: the context is left as it is.
CloseNoCancel ==
    /\ work # "none" /\ closing = "no"
    /\ closing' = "wait"
    /\ UNCHANGED <<clockVars, advancingVars, work, cancelled, resets>>

Close ==
    /\ work # "none" /\ closing = "no"
    /\ cancelled' = TRUE /\ closing' = "wait"
    /\ UNCHANGED <<clockVars, advancingVars, work, resets>>

CloseDone ==
    /\ closing = "wait" /\ work = "done"
    /\ closing' = "closed"
    /\ UNCHANGED <<clockVars, advancingVars, work, cancelled, resets>>

\* Those who use the clock besides.
User ==
    /\ \/ \E d \in Duration, a \in Alarm : After(a, d) \/ AfterFunc(a, d) \/ NewTimer(a, d)
       \/ \E a \in Timer : Stop(a)
    /\ UNCHANGED <<advancingVars, loopVars>>

Resetting ==
    \/ /\ resets < MaxResets /\ resets' = resets + 1
       /\ \E a \in Ticker, d \in Duration : Reset(a, d)
       /\ UNCHANGED <<advancingVars, work, cancelled, closing>>
    \/ ResetNow /\ UNCHANGED <<advancingVars, loopVars>>

Driver == Start \/ StopAdvancing \/ Quit \/ OnTick
Work == WorkTick \/ WorkReturn \/ WorkDone

Next ==
    \/ SystemTick /\ UNCHANGED loopVars
    \/ Driver /\ UNCHANGED loopVars
    \/ Advancement /\ UNCHANGED loopVars
    \/ NewLoopFn \/ Work \/ Close \/ CloseDone
    \/ User \/ Resetting

Spec == Init /\ [][Next]_vars

\* Goroutines that are ready run, and the function of the loop returns.  Nothing
\* is asked of those who use the clock.
FairSpec ==
    /\ Spec
    /\ WF_vars(Advancement /\ UNCHANGED loopVars)
    /\ WF_vars((Quit \/ OnTick) /\ UNCHANGED loopVars)
    /\ WF_vars(ResetNow /\ UNCHANGED <<advancingVars, loopVars>>)
    /\ WF_vars(Work \/ CloseDone) /\ SF_vars(WorkDone)

\* Close returns in the end, unless a Reset of a ticker has met AdvanceTime.
CloseReturns == closing = "wait" ~> closing = "closed" \/ Deadlocked

\* AdvanceTime returns in the end, unless a Reset has met it.
AdvanceReturns == advance # None ~> advance = None \/ Deadlocked

=============================================================================
