---------------------------- MODULE Clock_proofs ----------------------------
(***************************************************************************)
(* Proofs about the deterministic clock as a loop, an advancing clock and  *)
(* others use it, for any number of channels, timers and tickers.          *)
(***************************************************************************)
EXTENDS Loop, TLAPS

\* Times are natural numbers.
TimeInv ==
    /\ system \in Nat /\ lastTick \in Nat
    /\ tick # None => tick \in Nat

ClockTypes ==
    /\ now \in Nat
    /\ alarm \in [Alarm -> Struct \union {None}]
    /\ fired \in [Alarm -> Nat]
    /\ pending \in Seq(Alarm)
    /\ advance \in Frame \union {None}
    /\ resetting # None => /\ resetting.alarm \in Ticker /\ resetting.period \in Nat
                           /\ Exists(resetting.alarm)

\* What is queued is queued once, exists, and has not fired unless it is a ticker.
Distinct(q) == \A i, j \in DOMAIN q : q[i] = q[j] => i = j
Waiting(q) == \A i \in DOMAIN q : Exists(q[i]) /\ (q[i] \notin Ticker => fired[q[i]] = 0)

Queued ==
    /\ advance = None => Distinct(pending) /\ Waiting(pending)
    /\ advance # None =>
           /\ Distinct(advance.rest) /\ Waiting(advance.rest)
           /\ Distinct(advance.kept) /\ Waiting(advance.kept)
           /\ \A i \in DOMAIN advance.rest, j \in DOMAIN advance.kept :
                  advance.rest[i] # advance.kept[j]

\* A timer has run when it has fired, and only Stop has an answer.
AnsweredBy(a) ==
    /\ alarm[a].run <=> fired[a] # 0
    /\ fired[a] <= 1
    /\ alarm[a].answer # None => alarm[a].stopped /\ (alarm[a].answer <=> fired[a] = 0)

Answered ==
    /\ \A a \in Alarm : ~Exists(a) => fired[a] = 0
    /\ \A a \in Timer : Exists(a) => AnsweredBy(a)

\* AdvanceTime drops no channel and no timer that is live, and keeps only what
\* is not due.
LiveKept ==
    /\ NothingOverdue
    /\ advance # None =>
           \A a \in Alarm : IsLive(a) =>
               \/ \E i \in DOMAIN advance.rest : advance.rest[i] = a
               \/ (\E i \in DOMAIN advance.kept : advance.kept[i] = a) /\ alarm[a].due > now

ClockInv == ClockTypes /\ Queued /\ Answered /\ LiveKept

USE ClockAssumption DEF ClockUnlocked, Exists

-----------------------------------------------------------------------------
\* The steps of a clock, whoever takes them.
Makes(a, d) == After(a, d) \/ AfterFunc(a, d) \/ NewTimer(a, d) \/ NewTicker(a, d)

ClockStep ==
    \/ UNCHANGED clockVars
    \/ \E a \in Alarm, d \in Nat : Makes(a, d) \/ Reset(a, d)
    \/ \E a \in Alarm : Receive(a) \/ Stop(a) \/ StopTicker(a)
    \/ ResetNow
    \/ \E d \in Nat : AdvanceTime(d)
    \/ AdvanceStep

LEMMA Steps ==
    ASSUME TimeInv, [Next]_vars
    PROVE  TimeInv' /\ ClockStep
<1> USE LoopAssumption DEF TimeInv
<1>1. CASE SystemTick
  BY <1>1 DEF SystemTick, ClockStep
<1>2. CASE Start \/ StopAdvancing \/ Quit
  BY <1>2 DEF Start, StopAdvancing, Quit, ClockStep
<1>3. CASE OnTick
  <2>1. CASE tick > lastTick
    <3>1. tick - lastTick \in Nat /\ AdvanceTime(tick - lastTick)
      BY <1>3, <2>1 DEF OnTick
    <3> QED BY <1>3, <2>1, <3>1 DEF OnTick, ClockStep
  <2>2. CASE ~(tick > lastTick)
    BY <1>3, <2>2 DEF OnTick, ClockStep
  <2> QED BY <2>1, <2>2
<1>4. CASE Advancement
  BY <1>4 DEF Advancement, AfterAdvance, advancingVars, ClockStep, AdvanceStep
<1>5. CASE NewLoopFn
  BY <1>5 DEF NewLoopFn, advancingVars, ClockStep, Alarm, Makes
<1>6. CASE Work
  BY <1>6 DEF Work, WorkTick, WorkReturn, WorkDone, advancingVars, ClockStep, Alarm
<1>7. CASE Close \/ CloseDone
  BY <1>7 DEF Close, CloseDone, advancingVars, ClockStep
<1>8. CASE User
  BY <1>8 DEF User, advancingVars, ClockStep, Alarm, Makes
<1>9. CASE Resetting
  BY <1>9 DEF Resetting, advancingVars, ClockStep, Alarm
<1>10. CASE UNCHANGED vars
  BY <1>10 DEF vars, advancingVars, ClockStep
<1> QED BY <1>1, <1>2, <1>3, <1>4, <1>5, <1>6, <1>7, <1>8, <1>9, <1>10 DEF Next, Driver

LEMMA ClockInitHolds == Init => TimeInv /\ ClockInv
  BY DEF Init, ClockInit, AdvancingInit, TimeInv, ClockInv, ClockTypes, Queued, Distinct, Waiting,
         Answered, LiveKept, NothingOverdue, IsLive, ToSet, Alarm

-----------------------------------------------------------------------------
\* The invariant, step by step.

\* An alarm is made; it is queued unless it has fired at once.
LEMMA NewHolds ==
    ASSUME ClockInv, NEW a \in Alarm, NEW d \in Nat, Makes(a, d)
    PROVE  ClockInv'
<1> USE DEF ClockInv
<1>1. PICK made \in Struct :
          /\ alarm' = [alarm EXCEPT ![a] = made]
          /\ made.due = now + d /\ made.period = d /\ ~made.stopped /\ made.answer = None
          /\ \/ fired' = [fired EXCEPT ![a] = 1] /\ UNCHANGED pending
                /\ a \notin Ticker /\ (a \in Timer => made.run)
             \/ pending' = Append(pending, a) /\ UNCHANGED fired
                /\ ~made.run /\ (a \in Timer \union Ticker \/ d > 0)
  <2>1. NewAlarm(d) \in Struct /\ [NewAlarm(d) EXCEPT !.run = (d = 0)] \in Struct
    <3>1. now + d \in Nat /\ (d = 0) \in BOOLEAN
      BY DEF ClockTypes
    <3> QED BY <3>1 DEF NewAlarm, Struct
  <2>2. /\ NewAlarm(d).due = now + d /\ NewAlarm(d).period = d /\ ~NewAlarm(d).stopped
        /\ NewAlarm(d).answer = None /\ ~NewAlarm(d).run
    BY DEF NewAlarm
  <2>3. CASE After(a, d)
    <3>1. alarm' = [alarm EXCEPT ![a] = NewAlarm(d)] /\ a \notin Ticker /\ a \notin Timer
      BY <2>3 DEF After, Made
    <3>2. \/ fired' = [fired EXCEPT ![a] = 1] /\ UNCHANGED pending
          \/ d > 0 /\ pending' = Append(pending, a) /\ UNCHANGED fired
      BY <2>3 DEF After, AddPending
    <3> QED BY <2>1, <2>2, <3>1, <3>2
  <2>4. CASE AfterFunc(a, d)
    <3> DEFINE new == [NewAlarm(d) EXCEPT !.run = (d = 0)]
    <3>1. /\ new.due = now + d /\ new.period = d /\ ~new.stopped /\ new.answer = None
          /\ new.run <=> d = 0
      BY DEF NewAlarm
    <3> QED BY <2>1, <2>4, <3>1 DEF AfterFunc, AddPending
  <2>5. CASE NewTimer(a, d) \/ NewTicker(a, d)
    BY <2>1, <2>2, <2>5 DEF NewTimer, NewTicker, Made, AddPending
  <2> QED BY <2>3, <2>4, <2>5 DEF Makes
<1>2. /\ advance = None /\ alarm[a] = None
      /\ UNCHANGED <<now, advance, resetting>>
  BY DEF Makes, After, AfterFunc, NewTimer, NewTicker, Made
<1>3. fired[a] = 0 /\ \A i \in DOMAIN pending : pending[i] # a
  BY <1>2 DEF Answered, Queued, Waiting
<1>4. /\ \A b \in Alarm : b # a => alarm'[b] = alarm[b] /\ fired'[b] = fired[b]
      /\ alarm'[a] = made /\ made # None
      /\ alarm' \in [Alarm -> Struct \union {None}]
  BY <1>1 DEF ClockTypes
<1>5. CASE fired' = [fired EXCEPT ![a] = 1] /\ UNCHANGED pending
           /\ a \notin Ticker /\ (a \in Timer => made.run)
  <2>1. fired'[a] = 1
    BY <1>5 DEF ClockTypes
  <2>2. ClockTypes'
    <3>1. resetting # None => alarm'[resetting.alarm] # None
      BY <1>4 DEF ClockTypes, Alarm
    <3>2. fired' \in [Alarm -> Nat]
      BY <1>5 DEF ClockTypes
    <3> QED BY <1>2, <1>4, <1>5, <3>1, <3>2 DEF ClockTypes
  <2>3. Queued'
    BY <1>2, <1>3, <1>4, <1>5 DEF Queued, Distinct, Waiting, ClockTypes
  <2>4. Answered'
    <3>1. a \in Timer => AnsweredBy(a)'
      BY <1>1, <1>4, <1>5, <2>1 DEF AnsweredBy
    <3>2. \A b \in Timer : b # a /\ Exists(b) => AnsweredBy(b)'
      BY <1>4 DEF Answered, AnsweredBy, Alarm
    <3> QED BY <1>4, <3>1, <3>2 DEF Answered, Alarm
  <2>5. LiveKept'
    BY <1>1, <1>2, <1>4, <1>5, <2>1 DEF LiveKept, NothingOverdue, IsLive, Alarm
  <2> QED BY <2>2, <2>3, <2>4, <2>5
<1>6. CASE pending' = Append(pending, a) /\ UNCHANGED fired
           /\ ~made.run /\ (a \in Timer \union Ticker \/ d > 0)
  <2>1. /\ Len(pending') = Len(pending) + 1 /\ pending' \in Seq(Alarm)
        /\ DOMAIN pending = 1..Len(pending) /\ DOMAIN pending' = 1..(Len(pending) + 1)
        /\ \A i \in 1..Len(pending) : pending'[i] = pending[i]
        /\ pending'[Len(pending) + 1] = a
    BY <1>6 DEF ClockTypes
  <2>2. ClockTypes'
    <3>1. resetting # None => alarm'[resetting.alarm] # None
      BY <1>4 DEF ClockTypes, Alarm
    <3> QED BY <1>2, <1>4, <1>6, <2>1, <3>1 DEF ClockTypes
  <2>3. Queued'
    <3>1. Distinct(pending')
      <4>1. Distinct(pending)
        BY <1>2 DEF Queued
      <4>2. \A i \in DOMAIN pending' :
                \/ i = Len(pending) + 1 /\ pending'[i] = a
                \/ i \in DOMAIN pending /\ pending'[i] = pending[i] /\ pending'[i] # a
        <5>1. Len(pending) \in Nat
          BY DEF ClockTypes
        <5> QED BY <1>3, <2>1, <5>1
      <4> QED BY <4>1, <4>2 DEF Distinct
    <3>2. Waiting(pending)'
      BY <1>2, <1>3, <1>4, <1>6, <2>1 DEF Queued, Waiting, ClockTypes
    <3> QED BY <1>2, <3>1, <3>2 DEF Queued, Distinct
  <2>4. Answered'
    <3>1. a \in Timer => AnsweredBy(a)'
      BY <1>1, <1>3, <1>4, <1>6 DEF AnsweredBy
    <3>2. \A b \in Timer : b # a /\ Exists(b) => AnsweredBy(b)'
      BY <1>4 DEF Answered, AnsweredBy, Alarm
    <3> QED BY <1>4, <1>6, <3>1, <3>2 DEF Answered, Alarm
  <2>5. LiveKept'
    <3>1. ToSet(pending)' = ToSet(pending) \union {a}
      BY <2>1 DEF ToSet
    <3>2. made.due > now \/ made.period = 0
      BY <1>1 DEF ClockTypes
    <3> QED BY <1>1, <1>2, <1>4, <1>6, <3>1, <3>2 DEF LiveKept, NothingOverdue, IsLive
  <2> QED BY <2>2, <2>3, <2>4, <2>5
<1> QED BY <1>1, <1>5, <1>6

\* A timer that is stopped answers whether it has not run.
IsStopped(b) ==
    /\ b \in Timer /\ alarm'[b].stopped
    /\ alarm'[b].run <=> alarm[b].run
    /\ alarm'[b].answer <=> ~alarm[b].run

\* What those who hold alarms may do to them: a ticker is theirs, and a timer may
\* be stopped.
LEMMA HeldHolds ==
    ASSUME ClockInv, UNCHANGED <<now, pending, advance, fired>>,
           alarm' \in [Alarm -> Struct \union {None}],
           \A b \in Alarm : alarm'[b] = None <=> alarm[b] = None,
           \A b \in Alarm \ Ticker :
               \/ alarm'[b] = alarm[b]
               \/ IsStopped(b),
           resetting' # None => /\ resetting'.alarm \in Ticker /\ resetting'.period \in Nat
                                /\ Exists(resetting'.alarm)
    PROVE  ClockInv'
<1> USE DEF ClockInv
<1>1. ClockTypes'
  BY DEF ClockTypes, Alarm
<1>2. Queued'
  <2>1. \A q \in Seq(Alarm) : Waiting(q) => Waiting(q)'
    BY DEF Waiting
  <2>2. advance # None => advance.rest \in Seq(Alarm) /\ advance.kept \in Seq(Alarm)
    BY DEF ClockTypes, Frame
  <2> QED BY <2>1, <2>2 DEF Queued, Distinct, Waiting, ClockTypes
<1>3. Answered'
  <2>1. ASSUME NEW b \in Timer, alarm'[b] # None
        PROVE  AnsweredBy(b)'
    <3>1. alarm'[b] = alarm[b] \/ IsStopped(b)
      BY <2>1 DEF Alarm
    <3>2. AnsweredBy(b)
      BY <2>1 DEF Answered, Alarm
    <3> QED BY <3>1, <3>2 DEF AnsweredBy, IsStopped
  <2> QED BY <2>1 DEF Answered
<1>4. \A b \in Alarm : IsLive(b)' => IsLive(b) /\ alarm'[b] = alarm[b]
  BY DEF IsLive, IsStopped, Alarm
<1> QED BY <1>1, <1>2, <1>3, <1>4 DEF LiveKept, NothingOverdue

LEMMA HolderHolds ==
    ASSUME ClockInv, NEW a \in Alarm, NEW d \in Nat,
           Receive(a) \/ Stop(a) \/ StopTicker(a) \/ Reset(a, d) \/ ResetNow
    PROVE  ClockInv'
<1>0. alarm \in [Alarm -> Struct \union {None}]
  BY DEF ClockInv, ClockTypes
<1>1. CASE Receive(a)
  BY <1>0, <1>1, HeldHolds DEF Receive, ClockInv, ClockTypes
<1>2. CASE Reset(a, d)
  <2>1. resetting' # None => /\ resetting'.alarm \in Ticker /\ resetting'.period \in Nat
                             /\ alarm[resetting'.alarm] # None
    BY <1>2 DEF Reset
  <2> QED BY <1>0, <1>2, <2>1, HeldHolds DEF Reset
<1>3. CASE Stop(a)
  <2>1. /\ a \in Timer /\ alarm[a] \in Struct /\ ~alarm[a].stopped
        /\ alarm' = [alarm EXCEPT ![a].stopped = TRUE, ![a].answer = ~alarm[a].run]
        /\ UNCHANGED <<now, pending, advance, resetting, fired>>
    BY <1>0, <1>3 DEF Stop
  <2> DEFINE new == [[alarm[a] EXCEPT !.stopped = TRUE] EXCEPT !.answer = ~alarm[a].run]
  <2>2. /\ new \in Struct /\ new.stopped /\ new.run = alarm[a].run
        /\ new.answer = ~alarm[a].run
    BY <2>1 DEF Struct
  <2>3. alarm' = [alarm EXCEPT ![a] = new]
    BY <2>1
  <2> HIDE DEF new
  <2>4. alarm'[a] = new /\ \A b \in Alarm : b # a => alarm'[b] = alarm[b]
    BY <1>0, <2>3
  <2>5. IsStopped(a)
    BY <2>1, <2>2, <2>4 DEF IsStopped
  <2>6. alarm' \in [Alarm -> Struct \union {None}] /\ new # None
    BY <1>0, <2>2, <2>3
  <2>7. resetting # None => /\ resetting.alarm \in Ticker /\ resetting.period \in Nat
                            /\ alarm'[resetting.alarm] # None
    BY <2>4, <2>6 DEF ClockInv, ClockTypes, Alarm
  <2>8. \A b \in Alarm \ Ticker : alarm'[b] = alarm[b] \/ IsStopped(b)
    BY <2>4, <2>5
  <2>9. \A b \in Alarm : alarm'[b] = None <=> alarm[b] = None
    BY <2>1, <2>4, <2>6
  <2>10. alarm' \in [Alarm -> Struct \union {None}]
    BY <2>6
  <2>11. UNCHANGED <<now, pending, advance, resetting, fired>>
    BY <2>1
  <2>12. resetting # None => alarm[resetting.alarm] # None
    BY DEF ClockInv, ClockTypes
  <2> QED BY <2>7, <2>8, <2>9, <2>10, <2>11, <2>12, HeldHolds DEF IsStopped
<1>4. CASE StopTicker(a)
  <2>1. /\ a \in Ticker /\ alarm[a] \in Struct
        /\ alarm' = [alarm EXCEPT ![a] = [alarm[a] EXCEPT !.stopped = TRUE]]
        /\ UNCHANGED <<now, pending, advance, resetting, fired>>
    BY <1>0, <1>4 DEF StopTicker
  <2>2. [alarm[a] EXCEPT !.stopped = TRUE] \in Struct
    BY <2>1 DEF Struct
  <2>3. /\ alarm' \in [Alarm -> Struct \union {None}] /\ alarm'[a] # None
        /\ \A b \in Alarm : b # a => alarm'[b] = alarm[b]
    BY <1>0, <2>1, <2>2
  <2>4. resetting # None => /\ resetting.alarm \in Ticker /\ resetting.period \in Nat
                            /\ alarm'[resetting.alarm] # None
    BY <2>3 DEF ClockInv, ClockTypes, Alarm
  <2> QED BY <2>1, <2>3, <2>4, HeldHolds
<1>5. CASE ResetNow
  <2> DEFINE t == resetting.alarm
             new == [[alarm[t] EXCEPT !.period = resetting.period]
                         EXCEPT !.due = now + resetting.period]
  <2>1. /\ t \in Ticker /\ t \in Alarm /\ alarm[t] \in Struct /\ now + resetting.period \in Nat
        /\ resetting.period \in Nat
        /\ UNCHANGED <<now, pending, advance, fired>> /\ resetting' = None
    BY <1>0, <1>5 DEF ResetNow, ClockInv, ClockTypes, Alarm
  <2>2. new \in Struct
    BY <2>1 DEF Struct
  <2>3. alarm' = [alarm EXCEPT ![t] = new]
    BY <1>5, <2>1 DEF ResetNow
  <2>4. /\ alarm' \in [Alarm -> Struct \union {None}] /\ alarm'[t] # None
        /\ \A b \in Alarm : b # t => alarm'[b] = alarm[b]
    BY <1>0, <2>1, <2>2, <2>3
  <2> QED BY <2>1, <2>4, HeldHolds
<1> QED BY <1>1, <1>2, <1>3, <1>4, <1>5

-----------------------------------------------------------------------------
\* AdvanceTime.

LEMMA AdvanceBegins ==
    ASSUME ClockInv, NEW d \in Nat, AdvanceTime(d)
    PROVE  ClockInv'
<1> USE DEF ClockInv
<1>1. /\ advance = None /\ now' = now + d
      /\ advance' = [rest |-> pending, kept |-> <<>>, due |-> FALSE]
      /\ UNCHANGED <<alarm, pending, resetting, fired>>
  BY DEF AdvanceTime
<1>2. advance' \in Frame /\ advance' # None /\ advance'.rest = pending /\ advance'.kept = <<>>
  <2>1. pending \in Seq(Alarm) /\ <<>> \in Seq(Alarm)
    BY DEF ClockTypes
  <2>2. advance' \in Frame
    BY <1>1, <2>1 DEF Frame
  <2> QED BY <1>1, <2>2
<1>3. ClockTypes'
  BY <1>1, <1>2 DEF ClockTypes
<1>4. Queued'
  BY <1>1, <1>2 DEF Queued, Distinct, Waiting
<1>5. Answered'
  BY <1>1 DEF Answered, AnsweredBy
<1>6. LiveKept'
  <2>1. \A a \in Alarm : IsLive(a)' => IsLive(a) /\ \E i \in DOMAIN pending : pending[i] = a
    BY <1>1 DEF LiveKept, NothingOverdue, IsLive, ToSet
  <2> QED BY <1>1, <1>2, <2>1 DEF LiveKept, NothingOverdue
<1> QED BY <1>3, <1>4, <1>5, <1>6

\* The alarm that is being looked at leaves rest, for kept or for good.
LEMMA Passing ==
    ASSUME ClockInv, advance # None, advance.rest # <<>>, NEW keep \in BOOLEAN, Passed(keep)
    PROVE  /\ advance' \in Frame /\ advance' # None /\ Current \in Alarm
           /\ Distinct(advance'.rest) /\ Distinct(advance'.kept)
           /\ \A i \in DOMAIN advance'.rest, j \in DOMAIN advance'.kept :
                  advance'.rest[i] # advance'.kept[j]
           /\ \A i \in DOMAIN advance'.rest :
                  /\ advance'.rest[i] # Current
                  /\ \E j \in DOMAIN advance.rest : advance'.rest[i] = advance.rest[j]
           /\ \A i \in DOMAIN advance'.kept :
                  \/ keep /\ advance'.kept[i] = Current
                  \/ /\ advance'.kept[i] # Current
                     /\ \E j \in DOMAIN advance.kept : advance'.kept[i] = advance.kept[j]
           /\ \A i \in DOMAIN advance.rest :
                  \/ advance.rest[i] = Current
                  \/ \E j \in DOMAIN advance'.rest : advance'.rest[j] = advance.rest[i]
           /\ \A i \in DOMAIN advance.kept :
                  \E j \in DOMAIN advance'.kept : advance'.kept[j] = advance.kept[i]
           /\ keep => \E j \in DOMAIN advance'.kept : advance'.kept[j] = Current
           /\ \E i \in DOMAIN advance.rest : advance.rest[i] = Current
<1> DEFINE r == advance.rest
           k == advance.kept
           rr == Tail(r)
           kk == IF keep THEN Append(k, Head(r)) ELSE k
<1>1. /\ r \in Seq(Alarm) /\ k \in Seq(Alarm) /\ r # <<>>
      /\ Distinct(r) /\ Distinct(k) /\ \A i \in DOMAIN r, j \in DOMAIN k : r[i] # k[j]
  BY DEF ClockInv, ClockTypes, Queued, Frame
<1>2. advance' = [rest |-> rr, due |-> FALSE, kept |-> kk]
  BY DEF Passed, Current
<1>3. /\ Len(r) \in Nat \ {0} /\ Head(r) = r[1] /\ r[1] \in Alarm
      /\ rr \in Seq(Alarm) /\ Len(rr) = Len(r) - 1
      /\ \A i \in 1..(Len(r) - 1) : rr[i] = r[i + 1]
      /\ DOMAIN r = 1..Len(r) /\ DOMAIN rr = 1..(Len(r) - 1)
  BY <1>1
<1>4. /\ DOMAIN k = 1..Len(k) /\ Len(k) \in Nat
      /\ kk \in Seq(Alarm) /\ DOMAIN kk = 1..Len(kk)
      /\ Len(kk) = IF keep THEN Len(k) + 1 ELSE Len(k)
      /\ \A i \in 1..Len(k) : kk[i] = k[i]
      /\ keep => kk[Len(k) + 1] = r[1]
  BY <1>1, <1>3
<1>5. advance' \in Frame /\ advance'.rest = rr /\ advance'.kept = kk
  BY <1>2, <1>3, <1>4 DEF Frame
<1>6. Current = r[1]
  BY <1>3 DEF Current
<1> HIDE DEF r, k, rr, kk
<1>7. Distinct(rr) /\ \A i \in DOMAIN rr : rr[i] # r[1] /\ \E j \in DOMAIN r : rr[i] = r[j]
  <2>1. \A i \in DOMAIN rr : i + 1 \in DOMAIN r /\ rr[i] = r[i + 1]
    BY <1>3
  <2>2. 1 \in DOMAIN r /\ \A i \in DOMAIN rr : i + 1 # 1
    BY <1>3
  <2>3. \A i, j \in DOMAIN r : r[i] = r[j] => i = j
    BY <1>1 DEF Distinct
  <2>4. Distinct(rr)
    <3> SUFFICES ASSUME NEW i \in DOMAIN rr, NEW j \in DOMAIN rr, rr[i] = rr[j]
                 PROVE  i = j
      BY DEF Distinct
    <3>1. i + 1 = j + 1
      BY <2>1, <2>3
    <3> QED BY <1>3, <3>1
  <2>5. \A i \in DOMAIN rr : rr[i] # r[1]
    BY <2>1, <2>2, <2>3
  <2> QED BY <2>1, <2>4, <2>5
<1>8. \A i \in DOMAIN kk :
          \/ keep /\ kk[i] = r[1] /\ i = Len(k) + 1
          \/ kk[i] # r[1] /\ i \in DOMAIN k /\ kk[i] = k[i]
  <2>1. CASE keep
    <3>1. \A i \in DOMAIN kk : i = Len(k) + 1 \/ (i \in DOMAIN k /\ kk[i] = k[i])
      BY <1>4, <2>1
    <3>2. \A i \in DOMAIN k : k[i] # r[1]
      BY <1>1, <1>3
    <3>3. kk[Len(k) + 1] = r[1]
      BY <1>4, <2>1
    <3> QED BY <2>1, <3>1, <3>2, <3>3
  <2>2. CASE ~keep
    <3>1. \A i \in DOMAIN kk : i \in DOMAIN k /\ kk[i] = k[i]
      BY <1>4, <2>2
    <3>2. \A i \in DOMAIN k : k[i] # r[1]
      BY <1>1, <1>3
    <3> QED BY <3>1, <3>2
  <2> QED BY <2>1, <2>2
<1>9. Distinct(kk)
  <2> SUFFICES ASSUME NEW i \in DOMAIN kk, NEW j \in DOMAIN kk, kk[i] = kk[j]
               PROVE  i = j
    BY DEF Distinct
  <2>1. CASE kk[i] = r[1]
    BY <1>8, <2>1
  <2>2. CASE kk[i] # r[1]
    BY <1>1, <1>8, <2>2 DEF Distinct
  <2> QED BY <2>1, <2>2
<1>10. \A i \in DOMAIN rr, j \in DOMAIN kk : rr[i] # kk[j]
  BY <1>1, <1>7, <1>8
<1>11. \A i \in DOMAIN r : r[i] = r[1] \/ \E j \in DOMAIN rr : rr[j] = r[i]
  <2>1. \A i \in DOMAIN r : i = 1 \/ (i - 1 \in DOMAIN rr /\ rr[i - 1] = r[i])
    BY <1>3
  <2> QED BY <2>1
<1>12. \A i \in DOMAIN k : \E j \in DOMAIN kk : kk[j] = k[i]
  BY <1>4
<1>13. keep => \E j \in DOMAIN kk : kk[j] = r[1]
  BY <1>4
<1>14. \E i \in DOMAIN r : r[i] = r[1]
  BY <1>3
<1> HIDE DEF Current
<1>15. advance' # None /\ Current \in Alarm
  BY <1>3, <1>5, <1>6
<1> QED BY <1>5, <1>6, <1>7, <1>8, <1>9, <1>10, <1>11, <1>12, <1>13, <1>14, <1>15 DEF r, k

\* Passing over an alarm that is not due, or of a ticker, changes nothing else.
LEMMA PassHolds ==
    ASSUME ClockInv, advance # None, advance.rest # <<>>, NEW keep \in BOOLEAN, Passed(keep),
           NEW c, c = Current,
           UNCHANGED <<now, pending, resetting>>,
           alarm' \in [Alarm -> Struct \union {None}], fired' \in [Alarm -> Nat],
           \A b \in Alarm : alarm'[b] = None <=> alarm[b] = None,
           \A b \in Alarm : b # Current => alarm'[b] = alarm[b] /\ fired'[b] = fired[b],
           keep /\ Current \notin Ticker => /\ alarm'[Current].due > now
                                            /\ fired'[Current] = fired[Current],
           ~keep => ~IsLive(c)',
           c \in Timer /\ AnsweredBy(c) => AnsweredBy(c)'
    PROVE  ClockInv'
<1> USE DEF ClockInv
<1>1. c \in Alarm /\ Exists(c)
  <2>1. c \in Alarm /\ \E i \in DOMAIN advance.rest : advance.rest[i] = c
    BY Passing
  <2> QED BY <2>1 DEF Queued, Waiting
<1>2. advance' \in Frame /\ advance' # None
  BY Passing
<1>3. ClockTypes'
  <2>1. resetting # None => alarm'[resetting.alarm] # None
    BY DEF ClockTypes, Alarm
  <2> QED BY <1>2, <2>1 DEF ClockTypes
<1>4. Queued'
  <2>1. \A b \in Alarm : b # Current /\ Exists(b) => alarm'[b] # None
    OBVIOUS
  <2>2. advance \in Frame
    BY DEF ClockTypes
  <2>3. /\ \A j \in DOMAIN advance.rest : advance.rest[j] \in Alarm
        /\ \A j \in DOMAIN advance.kept : advance.kept[j] \in Alarm
    BY <2>2 DEF Frame
  <2>4. Waiting(advance.rest)'
    <3> SUFFICES ASSUME NEW i \in DOMAIN advance'.rest
                 PROVE  /\ alarm'[advance'.rest[i]] # None
                        /\ advance'.rest[i] \notin Ticker => fired'[advance'.rest[i]] = 0
      BY DEF Waiting
    <3>1. PICK j \in DOMAIN advance.rest :
              advance'.rest[i] = advance.rest[j] /\ advance.rest[j] # Current
      BY Passing
    <3> QED BY <2>1, <2>3, <3>1 DEF Queued, Waiting
  <2>5. Waiting(advance.kept)'
    <3> SUFFICES ASSUME NEW i \in DOMAIN advance'.kept
                 PROVE  /\ alarm'[advance'.kept[i]] # None
                        /\ advance'.kept[i] \notin Ticker => fired'[advance'.kept[i]] = 0
      BY DEF Waiting
    <3>1. CASE keep /\ advance'.kept[i] = Current
      <4>1. Current \notin Ticker => fired[Current] = 0
        <5>1. \E j \in DOMAIN advance.rest : advance.rest[j] = Current
          BY Passing
        <5> QED BY <5>1 DEF Queued, Waiting
      <4> QED BY <1>1, <3>1, <4>1
    <3>2. CASE ~(keep /\ advance'.kept[i] = Current)
      <4>1. PICK j \in DOMAIN advance.kept :
                advance'.kept[i] = advance.kept[j] /\ advance.kept[j] # Current
        BY <3>2, Passing
      <4> QED BY <2>1, <2>3, <4>1 DEF Queued, Waiting
    <3> QED BY <3>1, <3>2
  <2>6. /\ Distinct(advance'.rest) /\ Distinct(advance'.kept)
        /\ \A i \in DOMAIN advance'.rest, j \in DOMAIN advance'.kept :
               advance'.rest[i] # advance'.kept[j]
    BY Passing
  <2> QED BY <1>2, <2>4, <2>5, <2>6 DEF Queued, Distinct
<1>5. Answered'
  <2>1. ASSUME NEW b \in Alarm, alarm'[b] = None
        PROVE  fired'[b] = 0
    <3>1. b # Current /\ alarm[b] = None
      BY <1>1, <2>1
    <3> QED BY <3>1 DEF Answered
  <2>2. ASSUME NEW b \in Timer, alarm'[b] # None
        PROVE  AnsweredBy(b)'
    <3>1. AnsweredBy(b)
      BY <2>2 DEF Answered, Alarm
    <3>2. CASE b = Current
      BY <3>1, <3>2 DEF AnsweredBy
    <3>3. CASE b # Current
      <4>1. alarm'[b] = alarm[b] /\ fired'[b] = fired[b]
        BY <3>3 DEF Alarm
      <4> QED BY <3>1, <4>1 DEF AnsweredBy
    <3> QED BY <3>2, <3>3
  <2> QED BY <2>1, <2>2 DEF Answered
<1>6. LiveKept'
  <2> SUFFICES ASSUME NEW b \in Alarm, IsLive(b)'
               PROVE  \/ \E i \in DOMAIN advance'.rest : advance'.rest[i] = b
                      \/ /\ \E i \in DOMAIN advance'.kept : advance'.kept[i] = b
                         /\ alarm'[b].due > now
    BY <1>2 DEF LiveKept, NothingOverdue
  <2>1. CASE b = Current
    <3>1. keep /\ b \notin Ticker
      BY <2>1 DEF IsLive
    <3> QED BY <2>1, <3>1, Passing
  <2>2. CASE b # Current
    <3>1. IsLive(b) /\ alarm'[b] = alarm[b]
      BY <2>2 DEF IsLive
    <3>2. \/ \E i \in DOMAIN advance.rest : advance.rest[i] = b
          \/ (\E i \in DOMAIN advance.kept : advance.kept[i] = b) /\ alarm[b].due > now
      BY <3>1 DEF LiveKept
    <3>3. CASE \E i \in DOMAIN advance.rest : advance.rest[i] = b
      BY <2>2, <3>3, Passing
    <3>4. CASE (\E i \in DOMAIN advance.kept : advance.kept[i] = b) /\ alarm[b].due > now
      BY <3>1, <3>4, Passing
    <3> QED BY <3>2, <3>3, <3>4
  <2> QED BY <2>1, <2>2
<1> QED BY <1>3, <1>4, <1>5, <1>6

LEMMA CheckHolds ==
    ASSUME ClockInv, CheckDue
    PROVE  ClockInv'
<1>1. /\ advance # None /\ advance.rest # <<>>
      /\ UNCHANGED <<now, alarm, pending, resetting, fired>>
  BY DEF CheckDue, Visiting
<1>2. CASE advance' = [advance EXCEPT !.due = TRUE]
  <2>1. advance \in Frame
    BY <1>1 DEF ClockInv, ClockTypes
  <2>2. /\ advance' \in Frame /\ advance'.rest = advance.rest /\ advance'.kept = advance.kept
        /\ advance' # None
    BY <1>2, <2>1 DEF Frame
  <2>3. ClockTypes'
    BY <1>1, <2>2 DEF ClockInv, ClockTypes
  <2>4. Queued'
    BY <1>1, <2>2 DEF ClockInv, Queued, Distinct, Waiting
  <2>5. Answered'
    BY <1>1 DEF ClockInv, Answered, AnsweredBy
  <2>6. LiveKept'
    BY <1>1, <2>2 DEF ClockInv, LiveKept, NothingOverdue, IsLive
  <2> QED BY <2>3, <2>4, <2>5, <2>6 DEF ClockInv
<1>3. CASE ~IsDue(Current) /\ Passed(TRUE)
  <2>1. Current \in Alarm /\ alarm[Current] # None
    <3>1. Current \in Alarm /\ \E i \in DOMAIN advance.rest : advance.rest[i] = Current
      BY <1>1, <1>3, Passing
    <3>2. Waiting(advance.rest)
      BY <1>1 DEF ClockInv, Queued
    <3> QED BY <3>1, <3>2 DEF Waiting
  <2>2. alarm[Current].due > now
    <3>1. alarm[Current] \in Struct /\ now \in Nat
      BY <2>1 DEF ClockInv, ClockTypes
    <3> QED BY <1>3, <3>1 DEF IsDue, Struct
  <2>3. alarm' \in [Alarm -> Struct \union {None}] /\ fired' \in [Alarm -> Nat]
    BY <1>1 DEF ClockInv, ClockTypes
  <2>4. PICK c : c = Current
    OBVIOUS
  <2>5. c \in Timer /\ AnsweredBy(c) => AnsweredBy(c)'
    BY <1>1, <2>4 DEF AnsweredBy
  <2> QED BY <1>1, <1>3, <2>2, <2>3, <2>4, <2>5, PassHolds
<1> QED BY <1>2, <1>3 DEF CheckDue

LEMMA FireHolds ==
    ASSUME ClockInv, NEW a \in Alarm, FireTask(a) \/ FireTimer(a) \/ FireTicker(a)
    PROVE  ClockInv'
<1>1. /\ advance # None /\ advance.rest # <<>> /\ a = Current
      /\ UNCHANGED <<now, pending, resetting>>
  BY DEF FireTask, FireTimer, FireTicker, Firing, Visiting
<1>2. /\ alarm \in [Alarm -> Struct \union {None}] /\ fired \in [Alarm -> Nat] /\ now \in Nat
  BY DEF ClockInv, ClockTypes
<1>3. ASSUME NEW keep \in BOOLEAN, Passed(keep)
      PROVE  alarm[a] \in Struct /\ (a \notin Ticker => fired[a] = 0)
  <2>1. \E i \in DOMAIN advance.rest : advance.rest[i] = a
    BY <1>1, <1>3, Passing
  <2> QED BY <1>1, <1>2, <2>1 DEF ClockInv, Queued, Waiting
<1>4. CASE FireTask(a)
  <2>1. Passed(FALSE) /\ UNCHANGED alarm /\ fired' = [fired EXCEPT ![a] = @ + 1] /\ a \in Task
    BY <1>4 DEF FireTask, Delivered
  <2>2. fired'[a] # 0 /\ fired' \in [Alarm -> Nat] /\ \A b \in Alarm : b # a => fired'[b] = fired[b]
    BY <1>2, <2>1
  <2>3. ~IsLive(a)' /\ a \notin Timer
    BY <2>1, <2>2 DEF IsLive
  <2> QED BY <1>1, <1>2, <2>1, <2>2, <2>3, PassHolds
<1>5. CASE FireTimer(a) /\ alarm[a].stopped
  <2>1. Passed(FALSE) /\ UNCHANGED <<alarm, fired>> /\ a \in Timer
    BY <1>5 DEF FireTimer
  <2>2. ~IsLive(a)' /\ (AnsweredBy(a) => AnsweredBy(a)')
    BY <1>5, <2>1 DEF IsLive, AnsweredBy
  <2> QED BY <1>1, <1>2, <2>1, <2>2, PassHolds
<1>6. CASE FireTimer(a) /\ ~alarm[a].stopped
  <2>1. /\ Passed(FALSE) /\ a \in Timer /\ fired' = [fired EXCEPT ![a] = @ + 1]
        /\ alarm' = [alarm EXCEPT ![a] = [alarm[a] EXCEPT !.run = TRUE]]
    BY <1>6 DEF FireTimer, Delivered
  <2>2. alarm[a] \in Struct /\ fired[a] = 0
    BY <1>3, <2>1
  <2> DEFINE new == [alarm[a] EXCEPT !.run = TRUE]
  <2>3. /\ new \in Struct /\ new.run /\ new.stopped = alarm[a].stopped
        /\ new.answer = alarm[a].answer
    BY <2>2 DEF Struct
  <2> HIDE DEF new
  <2>4. /\ alarm'[a] = new /\ alarm' \in [Alarm -> Struct \union {None}]
        /\ \A b \in Alarm : b # a => alarm'[b] = alarm[b]
    BY <1>2, <2>1, <2>3 DEF new
  <2>5. /\ fired'[a] = 1 /\ fired' \in [Alarm -> Nat]
        /\ \A b \in Alarm : b # a => fired'[b] = fired[b]
    BY <1>2, <2>1, <2>2
  <2>6. ~IsLive(a)'
    BY <2>5 DEF IsLive
  <2>7. AnsweredBy(a) => AnsweredBy(a)'
    BY <1>6, <2>3, <2>4, <2>5 DEF AnsweredBy
  <2>8. \A b \in Alarm : alarm'[b] = None <=> alarm[b] = None
    BY <2>2, <2>3, <2>4
  <2> QED BY <1>1, <2>1, <2>4, <2>5, <2>6, <2>7, <2>8, PassHolds
<1>7. CASE FireTicker(a)
  <2>1. /\ Passed(~alarm[a].stopped) /\ a \in Ticker /\ a \notin Timer /\ a \notin Task
        /\ \/ UNCHANGED <<alarm, fired>>
           \/ /\ fired' = [fired EXCEPT ![a] = @ + 1]
              /\ alarm' = [alarm EXCEPT ![a] = [alarm[a] EXCEPT !.due = now + alarm[a].period]]
    BY <1>7 DEF FireTicker, Published, Delivered
  <2>2. PICK keep \in BOOLEAN : Passed(keep)
    BY <2>1
  <2>3. alarm[a] \in Struct
    BY <1>3, <2>2
  <2>4. now + alarm[a].period \in Nat
    BY <1>2, <2>3 DEF Struct
  <2>5. [alarm[a] EXCEPT !.due = now + alarm[a].period] \in Struct
    BY <2>3, <2>4 DEF Struct
  <2>6. /\ alarm' \in [Alarm -> Struct \union {None}] /\ alarm'[a] # None
        /\ \A b \in Alarm : b # a => alarm'[b] = alarm[b]
        /\ fired' \in [Alarm -> Nat] /\ \A b \in Alarm : b # a => fired'[b] = fired[b]
    BY <1>2, <2>1, <2>3, <2>5
  <2>7. ~IsLive(a)'
    BY <2>1 DEF IsLive
  <2>8. \A b \in Alarm : alarm'[b] = None <=> alarm[b] = None
    BY <2>3, <2>6
  <2> QED BY <1>1, <2>1, <2>2, <2>6, <2>7, <2>8, PassHolds
<1> QED BY <1>4, <1>5, <1>6, <1>7

LEMMA AdvanceEnds ==
    ASSUME ClockInv, EndAdvance
    PROVE  ClockInv'
<1>1. /\ advance # None /\ advance.rest = <<>> /\ advance.kept \in Seq(Alarm)
      /\ advance' = None /\ pending' = advance.kept
      /\ UNCHANGED <<now, alarm, resetting, fired>>
  BY DEF EndAdvance, ClockInv, ClockTypes, Frame
<1>2. ClockTypes'
  BY <1>1 DEF ClockInv, ClockTypes
<1>3. Queued'
  BY <1>1 DEF ClockInv, Queued, Distinct, Waiting
<1>4. Answered'
  BY <1>1 DEF ClockInv, Answered, AnsweredBy
<1>5. LiveKept'
  <2>1. DOMAIN advance.rest = {}
    BY <1>1
  <2>2. \A a \in Alarm : IsLive(a)' =>
            (\E i \in DOMAIN advance.kept : advance.kept[i] = a) /\ alarm[a].due > now
    BY <1>1, <2>1 DEF ClockInv, LiveKept, IsLive
  <2> QED BY <1>1, <2>2 DEF LiveKept, NothingOverdue, ToSet
<1> QED BY <1>2, <1>3, <1>4, <1>5 DEF ClockInv

-----------------------------------------------------------------------------
LEMMA ClockStepHolds == TimeInv /\ ClockInv /\ [Next]_vars => TimeInv' /\ ClockInv'
<1> SUFFICES ASSUME TimeInv, ClockInv, [Next]_vars PROVE TimeInv' /\ ClockInv'
  OBVIOUS
<1>1. TimeInv' /\ ClockStep
  BY Steps
<1>2. CASE UNCHANGED clockVars
  <2> USE <1>2 DEF clockVars, ClockInv
  <2>1. ClockTypes'
    BY DEF ClockTypes
  <2>2. Queued'
    BY DEF Queued, Distinct, Waiting
  <2>3. Answered'
    BY DEF Answered, AnsweredBy
  <2>4. LiveKept'
    BY DEF LiveKept, NothingOverdue, IsLive
  <2> QED BY <1>1, <2>1, <2>2, <2>3, <2>4
<1>3. CASE AdvanceStep
  <2>1. ASSUME NEW a \in Alarm, FireTask(a) \/ FireTimer(a) \/ FireTicker(a)
        PROVE  ClockInv'
    BY <2>1, FireHolds
  <2> QED BY <1>1, <1>3, <2>1, CheckHolds, AdvanceEnds DEF AdvanceStep
<1>4. CASE ResetNow
  <2>1. PICK a \in Alarm : TRUE
    BY <1>4 DEF ResetNow, ClockInv, ClockTypes, Alarm
  <2> QED BY <1>1, <1>4, <2>1, HolderHolds
<1>5. ASSUME NEW a \in Alarm, NEW d \in Nat, Makes(a, d) \/ Reset(a, d)
      PROVE  ClockInv'
  BY <1>5, NewHolds, HolderHolds
<1>6. ASSUME NEW a \in Alarm, Receive(a) \/ Stop(a) \/ StopTicker(a)
      PROVE  ClockInv'
  <2>1. 0 \in Nat
    OBVIOUS
  <2> QED BY <1>6, <2>1, HolderHolds
<1>7. ASSUME NEW d \in Nat, AdvanceTime(d)
      PROVE  ClockInv'
  BY <1>7, AdvanceBegins
<1> QED BY <1>1, <1>2, <1>3, <1>4, <1>5, <1>6, <1>7 DEF ClockStep

LEMMA ClockAlways == Spec => [](TimeInv /\ ClockInv)
  BY ClockInitHolds, ClockStepHolds, PTL DEF Spec

\* A timer that Stop says it has stopped never fires, one it was too late for has
\* fired, once, for any number of timers and any interleaving with AdvanceTime.
THEOREM StopKeepsItsWord == Spec => []StopIsFinal
<1>1. TimeInv /\ ClockInv => StopIsFinal
  BY DEF ClockInv, Answered, AnsweredBy, StopIsFinal
<1> QED BY <1>1, ClockAlways, PTL

\* While the clock rests no channel and no timer is overdue, whatever was made,
\* stopped and advanced before.
THEOREM NothingIsOverdue == Spec => []NothingOverdue
<1>1. TimeInv /\ ClockInv => NothingOverdue
  BY DEF ClockInv, LiveKept
<1> QED BY <1>1, ClockAlways, PTL

=============================================================================
