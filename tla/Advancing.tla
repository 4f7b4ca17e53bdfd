----------------------------- MODULE Advancing -----------------------------
(***************************************************************************)
(* AdvancingClock (common/clock/advancing.go): a goroutine that moves a    *)
(* deterministic clock along with the system's, by what has passed since   *)
(* the last tick it handled.  Start and Stop are called by one goroutine.  *)
(***************************************************************************)
EXTENDS Clock

CONSTANT MaxTime     \* bound: the system clock stops there

VARIABLES
    system,       \* the system clock
    tick,         \* what the channel of the system's ticker holds, or None
    ticking,      \* the system's ticker is on
    running,
    worker,       \* what the goroutine is about to do
    lastTick,     \* the tick it handled last, or is handling
    stopping      \* Stop waits to send on quit

advancingVars == <<system, tick, ticking, running, worker, lastTick, stopping>>

AdvancingInit ==
    /\ system = 0 /\ tick = None /\ ticking = FALSE
    /\ running = FALSE /\ worker = "none" /\ lastTick = 0 /\ stopping = FALSE

\* A tick the channel has no room for is lost.
SystemTick ==
    /\ system < MaxTime
    /\ system' = system + 1
    /\ tick' = IF ticking /\ tick = None THEN system + 1 ELSE tick
    /\ UNCHANGED <<clockVars, ticking, running, worker, lastTick, stopping>>

Start ==
    /\ ~stopping /\ ~running
    /\ running' = TRUE /\ ticking' = TRUE /\ tick' = None
    /\ worker' = "select"
    /\ UNCHANGED <<clockVars, system, lastTick, stopping>>

StopAdvancing ==
    /\ ~stopping /\ running
    /\ running' = FALSE /\ ticking' = FALSE
    /\ stopping' = TRUE
    /\ UNCHANGED <<clockVars, system, tick, worker, lastTick>>

\* The channel quit is unbuffered: Stop returns when the goroutine takes it.
Quit ==
    /\ stopping /\ worker = "select"
    /\ stopping' = FALSE /\ worker' = "none"
    /\ UNCHANGED <<clockVars, system, tick, ticking, running, lastTick>>

\* onTick, up to the call of AdvanceTime.
OnTick ==
    /\ worker = "select" /\ tick # None
    /\ tick' = None
    /\ IF tick > lastTick
       THEN AdvanceTime(tick - lastTick) /\ worker' = "advance" /\ lastTick' = tick
       ELSE UNCHANGED <<clockVars, worker, lastTick>>
    /\ UNCHANGED <<system, ticking, running, stopping>>

AfterAdvance ==
    /\ worker = "advance" /\ EndAdvance
    /\ worker' = "select"
    /\ UNCHANGED <<system, tick, ticking, running, lastTick, stopping>>

Advancement ==
    \/ AfterAdvance
    \/ /\ CheckDue \/ \E a \in Alarm : FireTask(a) \/ FireTimer(a) \/ FireTicker(a)
       /\ UNCHANGED advancingVars

=============================================================================
