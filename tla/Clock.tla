------------------------------- MODULE Clock -------------------------------
(***************************************************************************)
(* DeterministicClock (common/clock/deterministic.go): a clock that moves  *)
(* only when AdvanceTime is called, with channels, timers and tickers that *)
(* are due at some time.  AdvanceTime holds the clock's lock while it goes *)
(* through what is pending; a timer and a ticker have a lock of their own, *)
(* which Stop takes alone and Reset takes before the clock's.              *)
(***************************************************************************)
EXTENDS Integers, SequencesExt

CONSTANTS
    Task,        \* calls of After
    Timer,       \* calls of AfterFunc and NewTimer
    Ticker,      \* calls of NewTicker
    Duration,    \* durations they are called with
    None         \* nothing

Alarm == Task \union Timer \union Ticker

\* A task, timer or ticker, and what AdvanceTime has in hand.
Struct ==
    [due : Nat, period : Nat, stopped : BOOLEAN, run : BOOLEAN, answer : BOOLEAN \union {None}]
Frame == [rest : Seq(Alarm), kept : Seq(Alarm), due : BOOLEAN]

ASSUME ClockAssumption ==
    /\ Task \intersect Timer = {} /\ Ticker \intersect (Task \union Timer) = {}
    /\ Duration \subseteq Nat
    /\ None \notin Alarm /\ None \notin Nat /\ None \notin Struct /\ None \notin Frame

VARIABLES
    now,
    alarm,        \* the struct of each call, None before it
    ch,           \* what the channel of a ticker holds: at most one time
    pending,      \* alarms to look at, oldest first
    advance,      \* frame of AdvanceTime, None while the clock's lock is free
    resetting,    \* frame of Reset, which holds the lock of a ticker, or None
    fired         \* history: how often an alarm has fired

clockVars == <<now, alarm, ch, pending, advance, resetting, fired>>

Exists(a) == alarm[a] # None
Unlocked(a) == ~(resetting # None /\ resetting.alarm = a)
ClockUnlocked == advance = None

ClockInit ==
    /\ now = 0
    /\ alarm = [a \in Alarm |-> None] /\ ch = [a \in Ticker |-> None]
    /\ pending = <<>>
    /\ advance = None /\ resetting = None
    /\ fired = [a \in Alarm |-> 0]

-----------------------------------------------------------------------------
\* New alarms.

NewAlarm(d) ==
    [due |-> now + d, period |-> d, stopped |-> FALSE, run |-> FALSE, answer |-> None]

Made(a, d) ==
    /\ ClockUnlocked /\ ~Exists(a)
    /\ alarm' = [alarm EXCEPT ![a] = NewAlarm(d)]

AddPending(a) == pending' = Append(pending, a)

\* A channel that is due at once is filled and closed and never pending.
After(a, d) ==
    /\ a \in Task /\ Made(a, d)
    /\ IF d = 0 THEN fired' = [fired EXCEPT ![a] = 1] /\ UNCHANGED pending
                ELSE AddPending(a) /\ UNCHANGED fired
    /\ UNCHANGED <<now, ch, advance, resetting>>

\* A function that is due at once runs before AfterFunc returns.
AfterFunc(a, d) ==
    /\ a \in Timer /\ ClockUnlocked /\ ~Exists(a)
    /\ alarm' = [alarm EXCEPT ![a] = [NewAlarm(d) EXCEPT !.run = (d = 0)]]
    /\ IF d = 0 THEN fired' = [fired EXCEPT ![a] = 1] /\ UNCHANGED pending
                ELSE AddPending(a) /\ UNCHANGED fired
    /\ UNCHANGED <<now, ch, advance, resetting>>

\* A timer that is due at once waits for the next AdvanceTime.
NewTimer(a, d) ==
    /\ a \in Timer /\ Made(a, d) /\ AddPending(a)
    /\ UNCHANGED <<now, ch, advance, resetting, fired>>

NewTicker(a, d) ==
    /\ a \in Ticker /\ d > 0 /\ Made(a, d) /\ AddPending(a)
    /\ UNCHANGED <<now, ch, advance, resetting, fired>>

-----------------------------------------------------------------------------
\* What the holder of an alarm does with it.

Receive(a) ==
    /\ a \in Ticker /\ ch[a] # None /\ ch' = [ch EXCEPT ![a] = None]
    /\ UNCHANGED <<now, alarm, pending, advance, resetting, fired>>

\* timer.Stop, whose answer is remembered; a second call answers FALSE.
Stop(a) ==
    /\ a \in Timer /\ Exists(a) /\ ~alarm[a].stopped
    /\ alarm' = [alarm EXCEPT ![a].stopped = TRUE, ![a].answer = ~alarm[a].run]
    /\ UNCHANGED <<now, ch, pending, advance, resetting, fired>>

\* ticker.Stop
StopTicker(a) ==
    /\ a \in Ticker /\ Exists(a) /\ Unlocked(a)
    /\ alarm' = [alarm EXCEPT ![a].stopped = TRUE]
    /\ UNCHANGED <<now, ch, pending, advance, resetting, fired>>

\* Reset takes the lock of the ticker, and then, for Now, that of the clock.
Reset(a, d) ==
    /\ a \in Ticker /\ d > 0 /\ Exists(a) /\ resetting = None
    /\ resetting' = [alarm |-> a, period |-> d]
    /\ UNCHANGED <<now, alarm, ch, pending, advance, fired>>

ResetNow ==
    /\ resetting # None /\ ClockUnlocked
    /\ alarm' = [alarm EXCEPT ![resetting.alarm].period = resetting.period,
                              ![resetting.alarm].due = now + resetting.period]
    /\ resetting' = None
    /\ UNCHANGED <<now, ch, pending, advance, fired>>

-----------------------------------------------------------------------------
\* AdvanceTime.

AdvanceTime(d) ==
    /\ ClockUnlocked
    /\ now' = now + d
    /\ advance' = [rest |-> pending, kept |-> <<>>, due |-> FALSE]
    /\ UNCHANGED <<alarm, ch, pending, resetting, fired>>

\* Mutant: what is due this very moment is not due.
IsDueLater(a) == alarm[a].due < now

IsDue(a) == alarm[a].due <= now

Current == Head(advance.rest)
Passed(keep) ==
    advance' = [rest |-> Tail(advance.rest), due |-> FALSE,
                kept |-> IF keep THEN Append(advance.kept, Current) ELSE advance.kept]

Visiting == advance # None /\ advance.rest # <<>> /\ Unlocked(Current)

CheckDue ==
    /\ Visiting /\ ~advance.due
    /\ IF IsDue(Current) THEN advance' = [advance EXCEPT !.due = TRUE] ELSE Passed(TRUE)
    /\ UNCHANGED <<now, alarm, ch, pending, resetting, fired>>

Delivered(a) == fired' = [fired EXCEPT ![a] = @ + 1]
Published(a) == ch' = [ch EXCEPT ![a] = now] /\ Delivered(a)

Firing(a) == Visiting /\ advance.due /\ Current = a

FireTask(a) ==
    /\ Firing(a) /\ a \in Task
    /\ Delivered(a) /\ Passed(FALSE)
    /\ UNCHANGED <<now, ch, alarm, pending, resetting>>

\* Mutant: a stopped timer is not looked at again.
FireTimerStopped(a) ==
    /\ Firing(a) /\ a \in Timer
    /\ Delivered(a) /\ alarm' = [alarm EXCEPT ![a].run = TRUE]
    /\ Passed(FALSE)
    /\ UNCHANGED <<now, ch, pending, resetting>>

\* Mutant: a timer that has been stopped since is waited for.
FireTimerWaits(a) ==
    /\ Firing(a) /\ a \in Timer /\ ~alarm[a].stopped
    /\ Delivered(a) /\ alarm' = [alarm EXCEPT ![a].run = TRUE]
    /\ Passed(FALSE)
    /\ UNCHANGED <<now, ch, pending, resetting>>

\* The timer may have been stopped since it was found due.
FireTimer(a) ==
    /\ Firing(a) /\ a \in Timer
    /\ IF alarm[a].stopped THEN UNCHANGED <<fired, alarm>>
       ELSE Delivered(a) /\ alarm' = [alarm EXCEPT ![a].run = TRUE]
    /\ Passed(FALSE)
    /\ UNCHANGED <<now, ch, pending, resetting>>

\* A tick for which the channel has no room is skipped, and due again at once.
FireTicker(a) ==
    /\ Firing(a) /\ a \in Ticker
    /\ IF alarm[a].stopped \/ ch[a] # None THEN UNCHANGED <<ch, fired, alarm>>
       ELSE /\ Published(a)
            /\ alarm' = [alarm EXCEPT ![a].due = now + alarm[a].period]
    /\ Passed(~alarm[a].stopped)
    /\ UNCHANGED <<now, pending, resetting>>

EndAdvance ==
    /\ advance # None /\ advance.rest = <<>>
    /\ pending' = advance.kept
    /\ advance' = None
    /\ UNCHANGED <<now, alarm, ch, resetting, fired>>

AdvanceStep ==
    CheckDue \/ EndAdvance \/ \E a \in Alarm : FireTask(a) \/ FireTimer(a) \/ FireTicker(a)

-----------------------------------------------------------------------------
IsLive(a) == a \in Task \union Timer /\ Exists(a) /\ fired[a] = 0 /\ ~alarm[a].stopped

\* While the clock rests, no channel and no timer is overdue: all that came due
\* has fired when AdvanceTime returns, unless it was made due at once.
NothingOverdue ==
    ClockUnlocked =>
        \A a \in Alarm : IsLive(a) =>
            a \in ToSet(pending) /\ (alarm[a].due > now \/ alarm[a].period = 0)

\* What Stop answers is true and stays true, also when it is called while
\* AdvanceTime has found the timer due: a timer it says it has stopped never
\* fires, and one it says it was too late for has fired, once.
StopIsFinal ==
    \A a \in Timer : Exists(a) =>
        /\ alarm[a].answer # None => (alarm[a].answer <=> fired[a] = 0)
        /\ fired[a] <= 1

\* AdvanceTime waits for the lock of a ticker whose Reset waits for the clock's.
Deadlocked ==
    advance # None /\ advance.rest # <<>> /\ resetting # None /\ Current = resetting.alarm

=============================================================================
