-------------------------- MODULE TimerListProofs --------------------------
(***************************************************************************)
(* app_timer.c with its ticks: no handler is called early, none is called  *)
(* late, and without the ticks the module is TimerQueue.  ListInv is       *)
(* inductive: each action has a lemma that says it keeps the invariant.    *)
(* Everything is proved for any set of timers, any of them repeating, a    *)
(* ring and a counter of any size, and any intervals and delays that meet  *)
(* TimingAssumption, as those of the firmware do.                          *)
(***************************************************************************)
EXTENDS TimerListLemmas

-----------------------------------------------------------------------------
(***************************************************************************)
(* What the invariant gives, and what a step leaves alone.                 *)
(***************************************************************************)
(* What the types give. *)
LEMMA Basics ==
  ASSUME ListTypeOK
  PROVE  /\ list \in NodeSeq /\ Len(list) \in Nat /\ DOMAIN list = 1..Len(list)
         /\ \A i \in 0..Len(list) : D(i) \in Nat
         /\ counter \in Counters /\ latest \in Counters
         /\ Passed \in Nat /\ Passed < CounterSize
         /\ busy \in Nat /\ busy <= Slack
         /\ Rested \in Nat /\ Rested <= Slack
         /\ Line \in Int /\ Line = Passed - Rested
         /\ ring \in Seq(RingOps) /\ restart \in Seq(Restarts)
         /\ \A t \in DOMAIN left : left[t] \in Int
<1>1. list \in NodeSeq
  <2> DEFINE S == [timer : Timers, wait : 0..(2 * CounterSize)]
             R == [timer : Timers, wait : Nat]
  <2>1. list \in Seq(S)
    BY DEF ListTypeOK
  <2>2. S \subseteq R
    BY ConstantsType
  <2> HIDE DEF S, R
  <2>3. list \in Seq(R)
    BY <2>1, <2>2, SeqMonotonic
  <2> QED
    BY <2>3 DEF NodeSeq, R
<1>2. Len(list) \in Nat /\ DOMAIN list = 1..Len(list)
  BY <1>1, NodeSeqType
<1>3. \A i \in 0..Len(list) : D(i) \in Nat
  BY <1>1, UntilDef DEF D
<1>4. counter \in Counters /\ latest \in Counters
  BY DEF ListTypeOK
<1>5. Passed \in Nat /\ Passed < CounterSize
  <2>1. Diff(counter, latest) \in Counters
    BY <1>4, DiffCases
  <2>2. Diff(counter, latest) \in Nat /\ Diff(counter, latest) < CounterSize
    BY <2>1, ConstantsType DEF Counters
  <2> HIDE DEF Diff
  <2> QED
    BY <2>2, ConstantsType DEF Passed
<1>6. busy \in Nat /\ busy <= Slack
  BY ConstantsType DEF ListTypeOK
<1>7. Rested \in Nat /\ Rested <= Slack
  BY <1>6, ConstantsType DEF Rested
<1>8. Line \in Int /\ Line = Passed - Rested
  BY <1>5, <1>7 DEF Line
<1>9. ring \in Seq(RingOps) /\ restart \in Seq(Restarts)
  BY DEF ListTypeOK, RingOps, Restarts
<1>10. \A t \in DOMAIN left : left[t] \in Int
  BY ConstantsType DEF ListTypeOK
<1> QED
  BY <1>1, <1>2, <1>3, <1>4, <1>5, <1>6, <1>7, <1>8, <1>9, <1>10

(* What the timing assumption gives. *)
LEMMA ConstantFacts ==
  /\ \A t \in Timers, i \in Nat : Allow(t, i) \in Int
  /\ \A t \in Timers, i, j \in Nat : i <= j => Allow(t, j) <= Allow(t, i)
  /\ \A t \in Timers, i, j \in Nat :
       i < j => Allow(t, j) + (CompareOffset - 1) <= Allow(t, i)
  /\ \A t \in Timers, i \in Nat :
       i <= Cardinality(Timers) => Wait[t] + (CompareOffset - 1) <= Allow(t, i)
  /\ \A t \in Timers : Allow(t, 1) = Wait[t] + Offsets
  /\ Longest \in Int /\ CounterSize - 1 - Slack = Longest + Behind
  /\ \A t \in Timers : /\ 0 <= Longest /\ Interval[t] <= Longest
                       /\ Half + Interval[t] <= Longest + 1
                       /\ Half >= 1 /\ Half + Behind + Slack < CounterSize
                       /\ Half + Interval[t] + Behind + Slack <= CounterSize
                       /\ t \in Repeating \/ Wait[t] < Slack =>
                            Interval[t] > Wait[t] + Offsets + Slack
  /\ Repeating \subseteq Timers
<1> DEFINE n == Cardinality(Timers)
           s == CompareOffset - 1
<1>1. n \in Nat /\ s \in Nat
  BY ConstantsType
<1>2. \A t, i : Allow(t, i) = Wait[t] + (n + 1 - i) * s
  BY DEF Allow
<1>3. Offsets = n * s
  BY DEF Offsets
<1> HIDE DEF n, s
<1>4. \A t \in Timers, i \in Nat : Allow(t, i) \in Int
  BY <1>1, <1>2, ConstantsType
<1>5. ASSUME NEW t \in Timers, NEW i \in Nat, NEW j \in Nat, i <= j
      PROVE  Allow(t, j) = Allow(t, i) - (j - i) * s
  <2>1. (n + 1 - j) * s = (n + 1 - i) * s - (j - i) * s
    BY <1>1
  <2>2. (n + 1 - j) * s \in Int /\ (n + 1 - i) * s \in Int /\ (j - i) * s \in Int
    BY <1>1
  <2>3. Wait[t] \in Nat
    BY ConstantsType
  <2> QED
    BY <2>1, <2>2, <2>3, <1>2
<1>6. ASSUME NEW t \in Timers, NEW i \in Nat, NEW j \in Nat, i <= j
      PROVE  Allow(t, j) <= Allow(t, i)
  <2>1. (j - i) * s \in Nat
    <3>1. j - i \in Nat
      BY <1>6
    <3> QED
      BY <1>1, <3>1
  <2>2. Allow(t, j) = Allow(t, i) - (j - i) * s
    BY <1>5, <1>6
  <2> QED
    BY <1>4, <2>1, <2>2
<1>7. ASSUME NEW t \in Timers, NEW i \in Nat, NEW j \in Nat, i < j
      PROVE  Allow(t, j) + s <= Allow(t, i)
  <2>1. (j - i) * s = s + (j - i - 1) * s
    BY <1>1
  <2>2. (j - i - 1) * s \in Nat
    <3>1. j - i - 1 \in Nat
      BY <1>7
    <3> QED
      BY <1>1, <3>1
  <2>3. (j - i) * s \in Int
    BY <2>1, <2>2, <1>1
  <2>4. Allow(t, j) = Allow(t, i) - (j - i) * s
    BY <1>5, <1>7
  <2>5. Allow(t, i) \in Int /\ Allow(t, j) \in Int
    BY <1>4
  <2> DEFINE p == (j - i) * s
             q == (j - i - 1) * s
  <2> HIDE DEF p, q
  <2>6. p = s + q /\ q \in Nat /\ Allow(t, j) = Allow(t, i) - p
    BY <2>1, <2>2, <2>4 DEF p, q
  <2> QED
    BY <1>1, <2>5, <2>6
<1>8. ASSUME NEW t \in Timers, NEW i \in Nat, i <= n
      PROVE  Wait[t] + s <= Allow(t, i)
  <2>1. (n + 1 - i) * s = s + (n - i) * s
    BY <1>1
  <2>2. (n - i) * s \in Nat
    <3>1. n - i \in Nat
      BY <1>1, <1>8
    <3> QED
      BY <1>1, <3>1
  <2>3. Wait[t] \in Nat
    BY ConstantsType
  <2> QED
    BY <1>1, <1>2, <2>1, <2>2, <2>3
<1>9. \A t \in Timers : Allow(t, 1) = Wait[t] + Offsets
  <2>1. (n + 1 - 1) = n
    BY <1>1
  <2> QED
    BY <1>2, <1>3, <2>1
<1>10. Longest \in Int /\ CounterSize - 1 - Slack = Longest + Behind
  BY ConstantsType DEF Longest
<1>11. ASSUME NEW t \in Timers
       PROVE  /\ 0 <= Longest /\ Interval[t] <= Longest
              /\ Half + Interval[t] <= Longest + 1
              /\ Half >= 1 /\ Half + Behind + Slack < CounterSize
              /\ Half + Interval[t] + Behind + Slack <= CounterSize
  <2>1. Half >= 1
    BY TimingAssumption, ConstantsType DEF Half
  <2>2. Half + Interval[t] + Offsets + 2 * Slack <= CounterSize
    BY TimingAssumption
  <2>3. Half + Interval[t] + Behind + Slack <= CounterSize
    BY <2>2, ConstantsType
  <2> QED
    BY <2>1, <2>3, ConstantsType DEF Longest
<1>12. ASSUME NEW t \in Timers, t \in Repeating \/ Wait[t] < Slack
       PROVE  Interval[t] > Wait[t] + Offsets + Slack
  BY <1>12, TimingAssumption
<1>13. Repeating \subseteq Timers
  BY TimerListAssumption
<1> QED
  BY <1>4, <1>6, <1>7, <1>8, <1>9, <1>10, <1>11, <1>12, <1>13 DEF n, s

(* The ticks a request gets when it is carried out. *)
LEMMA SinceFacts ==
  ASSUME latest \in Counters, NEW at \in Counters
  PROVE  /\ Since(at) \in Int /\ Since(at) < CounterSize
         /\ \A t \in Timers :
              /\ NewWait(at, t) \in Nat
              /\ NewWait(at, t) = IF Since(at) + Interval[t] >= 0
                                  THEN Since(at) + Interval[t] ELSE 0
<1> DEFINE d == Diff(at, latest)
           e == Diff(latest, at)
<1>1. at \in Int /\ latest \in Int /\ 0 <= at /\ at < CounterSize /\ 0 <= latest
      /\ latest < CounterSize /\ CounterSize \in Int /\ Half \in Nat
  BY CountersInt, ConstantsType
<1>2. d \in Counters /\ (latest <= at => d = at - latest) /\ (at < latest => d = (at - latest) + CounterSize)
  BY DiffCases
<1>3. e \in Counters /\ (at <= latest => e = latest - at) /\ (latest < at => e = (latest - at) + CounterSize)
  BY DiffCases
<1> HIDE DEF d, e
<1>4. d \in Int /\ e \in Int /\ 0 <= d /\ d < CounterSize
  BY <1>2, <1>3, CountersInt
<1>5. d # 0 => e = CounterSize - d
  BY <1>1, <1>2, <1>3, <1>4
<1>6. d = 0 => e = 0
  BY <1>1, <1>2, <1>3, <1>4
<1>7. Since(at) = IF d < Half THEN d ELSE d - CounterSize
  BY DEF Since, d
<1>8. ASSUME NEW t \in Timers
      PROVE  /\ NewWait(at, t) \in Nat
             /\ NewWait(at, t) = IF Since(at) + Interval[t] >= 0
                                 THEN Since(at) + Interval[t] ELSE 0
  <2>1. Interval[t] \in Nat /\ Interval[t] >= 1 /\ Half >= 1
    BY ConstantsType, ConstantFacts
  <2>2. NewWait(at, t) = IF d < Half THEN d + Interval[t]
                         ELSE IF Interval[t] > e THEN Interval[t] - e ELSE 0
    BY DEF NewWait, ToExpire, d, e
  <2>3. CASE d < Half
    BY <1>1, <1>4, <1>7, <2>1, <2>2, <2>3
  <2>4. CASE ~(d < Half)
    <3>1. e = CounterSize - d
      BY <1>1, <1>4, <1>5, <2>1, <2>4
    <3> QED
      BY <1>1, <1>4, <1>7, <2>1, <2>2, <2>4, <3>1
  <2> QED
    BY <2>3, <2>4
<1> QED
  BY <1>1, <1>4, <1>7, <1>8

(* What a step leaves alone. *)

(* A step that leaves the counter alone. *)
LEMMA LineSame ==
  ASSUME UNCHANGED <<counter, latest, clearing>>, Rested' = Rested
  PROVE  Passed' = Passed /\ Line' = Line
BY DEF Passed, Diff, Line

(* A step that leaves the list alone. *)
LEMMA NodesFrame ==
  ASSUME Nodes, UNCHANGED <<list, due, elapsed, restart, swi, head>>, running' \subseteq running
  PROVE  Nodes'
BY DEF Nodes, Injective, CoveredNodes, NodesOf

(* The same for the distances ... *)
LEMMA NoWrapFrame ==
  ASSUME NoWrap, Line' = Line, UNCHANGED <<list, ticking>>
  PROVE  NoWrap'
BY DEF NoWrap, D, Allowed

(* ... for COMPARE ... *)
LEMMA ArmedFrame ==
  ASSUME Armed, Line' = Line, Passed' = Passed,
         UNCHANGED <<list, compare, latest, pre, swi, head, update, rtcPend>>,
         Covering' = Covering
  PROVE  Armed'
<1>1. \A i : D(i)' = D(i) /\ Allowed(i)' = Allowed(i)
  BY DEF D, Allowed
<1>2. Ahead' = Ahead /\ Aim' = Aim /\ Target' = Target /\ HeadKept' = HeadKept
  BY DEF Ahead, Aim, Target, HeadKept, HeadOf, Diff, D
<1>3. Set' = Set /\ Unset' = Unset
  BY <1>1, <1>2 DEF Set, Unset
<1> QED
  BY <1>1, <1>2, <1>3 DEF Armed

(* ... for m_ticks_elapsed ... *)
LEMMA CoversFrame ==
  ASSUME Covers, Line' = Line, Passed' = Passed, UNCHANGED <<list, elapsed>>
  PROVE  Covers'
BY DEF Covers, Covering, D

(* ... for the timers that have had their handlers called ... *)
LEMMA PausingFrame ==
  ASSUME Pausing, Line' = Line, Rested' = Rested, Served' = Served,
         UNCHANGED <<list, elapsed>>, running' \subseteq running
  PROVE  Pausing'
BY DEF Pausing, Covering, D

(* ... which nothing is asked of when no interrupt is left ... *)
LEMMA PausingIdle ==
  ASSUME Idle'
  PROVE  Pausing'
<1>1. Rested' = 0 /\ Served' = {}
  BY DEF Rested, Served
<1>2. \A t \in Timers : 0 <= Wait[t]
  BY ConstantsType
<1> QED
  BY <1>1, <1>2 DEF Pausing

(* ... or may be, when the interrupt in hand ends ... *)
LEMMA PausingLeaves ==
  ASSUME Pausing, ~Idle, UNCHANGED <<list, running, elapsed, busy, served>>,
         Passed' = Passed \/ DOMAIN list = {}
  PROVE  Pausing'
<1>1. CASE Idle'
  BY <1>1, PausingIdle
<1>2. CASE ~Idle'
  <2>1. Rested' = Rested /\ Served' = Served
    BY <1>2 DEF Rested, Served
  <2>2. CASE Passed' = Passed
    <3>1. Line' = Line
      BY <2>1, <2>2 DEF Line
    <3> QED
      BY <2>1, <3>1, PausingFrame
  <2>3. CASE DOMAIN list = {}
    BY <2>1, <2>3 DEF Pausing
  <2> QED
    BY <2>2, <2>3
<1> QED
  BY <1>1, <1>2

(* ... and for what compare_reg_update has read. *)
LEMMA ReadingFrame ==
  ASSUME Reading, Passed' = Passed, UNCHANGED <<swi, pre, latest>>
  PROVE  Reading'
BY DEF Reading, Diff

(* The tuples of the state, for the steps that leave them alone. *)
LEMMA OnTimeFrame == ASSUME OnTime, UNCHANGED left PROVE OnTime'
BY DEF OnTime

(* A request joins the ring. *)
LEMMA RingGrows ==
  ASSUME ring \in Seq(RingOps), NEW r \in RingOps, ring' = Append(ring, r)
  PROVE  /\ Len(ring) \in Nat /\ DOMAIN ring = 1..Len(ring)
         /\ DOMAIN ring' = 1..(Len(ring) + 1) /\ Len(ring') = Len(ring) + 1
         /\ \A i \in DOMAIN ring : i \in DOMAIN ring' /\ ring'[i] = ring[i] /\ i < Len(ring) + 1
         /\ ring'[Len(ring) + 1] = r /\ Len(ring) + 1 \in DOMAIN ring'
         /\ \A i \in DOMAIN ring' : i \in DOMAIN ring \/ i = Len(ring) + 1
         /\ ring' \in Seq(RingOps)
         /\ \A u : StartWaits(u)' <=> StartWaits(u) \/ (r.op = "start" /\ r.timer = u)
         /\ \A u : StopWaits(u)' <=> StopWaits(u) \/ (r.op = "stop" /\ r.timer = u)
<1> DEFINE n == Len(ring)
<1>1. n \in Nat /\ DOMAIN ring = 1..n
  OBVIOUS
<1>2. DOMAIN ring' = 1..(n + 1) /\ Len(ring') = n + 1 /\ ring' \in Seq(RingOps)
  <2>1. ring' \in Seq(RingOps) /\ Len(ring') = n + 1
    BY AppendProperties
  <2> QED
    BY <2>1, <1>1
<1>3. ring'[n + 1] = r /\ \A i \in 1..n : ring'[i] = ring[i]
  BY AppendProperties
<1> HIDE DEF n
<1>4. \A i \in DOMAIN ring : i \in DOMAIN ring' /\ ring'[i] = ring[i] /\ i < n + 1
  BY <1>1, <1>2, <1>3
<1>5. n + 1 \in DOMAIN ring' /\ \A i \in DOMAIN ring' : i \in DOMAIN ring \/ i = n + 1
  BY <1>1, <1>2
<1>6. ASSUME NEW u PROVE StartWaits(u)' <=> StartWaits(u) \/ (r.op = "start" /\ r.timer = u)
  BY <1>3, <1>4, <1>5 DEF StartWaits
<1>7. ASSUME NEW u PROVE StopWaits(u)' <=> StopWaits(u) \/ (r.op = "stop" /\ r.timer = u)
  BY <1>3, <1>4, <1>5 DEF StopWaits
<1> QED
  BY <1>1, <1>2, <1>3, <1>4, <1>5, <1>6, <1>7 DEF n

-----------------------------------------------------------------------------
(***************************************************************************)
(* The initial state.                                                      *)
(***************************************************************************)
(* The initial state satisfies the invariant. *)
LEMMA InitDeep == ListInit => ListInv
<1> SUFFICES ASSUME ListInit PROVE ListInv
  OBVIOUS
<1>1. ListTypeOK
  <2>1. 0 \in Counters /\ 0 \in 0..Slack
    BY ConstantsType DEF Counters
  <2>2. \A S : <<>> \in Seq(S)
    OBVIOUS
  <2>3. Len(ring) <= OpQueueSize
    BY ConstantsType DEF ListInit
  <2>4. DOMAIN left = {}
    BY DEF ListInit
  <2>5. {reset, update, rtc, swiPend, rtcPend, ticking, clearing, cycle, misread} \subseteq BOOLEAN
    BY DEF ListInit
  <2>6. /\ running = {} /\ head = {} /\ swi = "idle" /\ elapsed = None /\ latest = 0
        /\ pre = 0 /\ counter = 0 /\ compare = None /\ busy = 0 /\ served = {}
        /\ ring = <<>> /\ list = <<>> /\ restart = <<>> /\ due = <<>>
    BY DEF ListInit
  <2> QED
    BY <2>1, <2>2, <2>3, <2>4, <2>5, <2>6 DEF ListTypeOK
<1>2. OnTime
  BY DEF ListInit, OnTime
<1>3. Deep
  <2>1. Turns /\ Reading /\ Lefts /\ Covers
    BY DEF ListInit, Turns, Reading, Lefts, Covers, Covering, None
  <2>2. Nodes
    BY DEF ListInit, Nodes, Injective, CoveredNodes
  <2>3. Clock
    BY DEF ListInit, Clock
  <2>4. NoWrap
    BY DEF ListInit, NoWrap
  <2>5. Armed
    BY DEF ListInit, Armed
  <2>6. Requests
    BY DEF ListInit, Requests
  <2>7. Pausing
    <3>1. list = <<>> /\ Rested = 0
      BY DEF ListInit, Rested, Idle
    <3> QED
      BY <3>1, ConstantsType DEF Pausing
  <2> QED
    BY <2>1, <2>2, <2>3, <2>4, <2>5, <2>6, <2>7 DEF Deep
<1> QED
  BY <1>1, <1>2, <1>3 DEF ListInv

-----------------------------------------------------------------------------
(***************************************************************************)
(* Requests.                                                               *)
(***************************************************************************)
(* A request joins the ring: only the timer it names, and what is left of  *)
(* its time, may change.                                                   *)
LEMMA RequestKeeps ==
  ASSUME ListTypeOK, Deep, Sound, NEW r \in RingOps,
         ring' = Append(ring, r), Len(ring) < OpQueueSize,
         swiPend' = TRUE, busy' = Rested, served' = Served, running' \subseteq running,
         UNCHANGED <<list, restart, elapsed, latest, reset, swi, head, update,
                     pre, rtc, due, rtcPend, counter, compare, ticking, clearing,
                     cycle>>,
         r.op = "start" => /\ swi # "stop" /\ ~(swi = "update" /\ list = <<>>)
                           /\ r.at = counter /\ Fresh /\ ~clearing
  PROVE  /\ Passed' = Passed /\ Line' = Line /\ Rested' = Rested
         /\ r.op = "start" => Since(r.at) = Passed /\ Line <= Passed /\ 0 <= Passed
         /\ Turns' /\ Nodes' /\ Clock' /\ NoWrap' /\ Armed' /\ Reading' /\ Covers'
         /\ Requests' /\ Pausing'
<1> USE DEF Deep
<1>1. Rested' = Rested /\ Served' = Served
  BY DEF Rested, Served, Idle
<1>2. Passed' = Passed /\ Line' = Line
  BY <1>1, LineSame
<1>3. Passed \in Nat /\ Rested \in Nat /\ Line = Passed - Rested /\ ring \in Seq(RingOps)
  BY Basics
<1>4. /\ DOMAIN ring' = 1..(Len(ring) + 1)
      /\ \A i \in DOMAIN ring : i \in DOMAIN ring' /\ ring'[i] = ring[i]
      /\ ring'[Len(ring) + 1] = r /\ Len(ring) + 1 \in DOMAIN ring'
      /\ \A i \in DOMAIN ring' : i \in DOMAIN ring \/ i = Len(ring) + 1
  BY <1>3, RingGrows
<1>5. r.op = "start" => Since(r.at) = Passed /\ Line <= Passed /\ 0 <= Passed
  BY <1>3 DEF Since, Fresh, Passed
<1>6. Turns'
  BY DEF Turns, Covering
<1>7. Nodes'
  BY NodesFrame
<1>8. Clock'
  <2>1. swi = "stop" \/ (swi = "update" /\ list = <<>>) =>
          \A i \in DOMAIN ring' : ring'[i].op # "start"
    BY <1>4 DEF Clock
  <2> QED
    BY <2>1 DEF Clock, HeadOf
<1>9. NoWrap'
  BY <1>2, NoWrapFrame
<1>10. Armed' /\ Covers' /\ Reading'
  BY <1>2, ArmedFrame, CoversFrame, ReadingFrame DEF Covering
<1>11. Requests'
  <2>1. \A at : Since(at)' = Since(at)
    BY DEF Since, Diff
  <2>2. ASSUME NEW i \in DOMAIN ring', ring'[i].op = "start"
        PROVE  \/ swi = "insert" /\ reset
               \/ /\ Line <= Since(ring'[i].at) /\ Since(ring'[i].at) <= Passed
                  /\ swi # "insert" => Since(ring'[i].at) >= 0
    <3>1. CASE i \in DOMAIN ring
      BY <3>1, <1>4, <2>2 DEF Requests
    <3>2. CASE i = Len(ring) + 1
      <4>1. ring'[i] = r
        BY <3>2, <1>4
      <4>2. Since(r.at) = Passed /\ Line <= Passed /\ 0 <= Passed
        BY <1>5, <2>2, <4>1
      <4> QED
        BY <4>1, <4>2, <1>3
    <3> QED
      BY <3>1, <3>2, <1>4
  <2>3. \A at, u : NewWait(at, u)' = NewWait(at, u)
    BY DEF NewWait, ToExpire, Diff
  <2> QED
    BY <2>1, <2>2, <2>3, <1>2 DEF Requests
<1>12. Pausing'
  BY <1>1, <1>2, PausingFrame
<1> QED
  BY <1>1, <1>2, <1>5, <1>6, <1>7, <1>8, <1>9, <1>10, <1>11, <1>12

(* A stopped timer is no longer timed; the others are as they were. *)
LEMMA StopLefts ==
  ASSUME ListTypeOK, Deep, NEW t \in Timers, left' = Untimed(t),
         running' = running \ {t}, Passed' = Passed, Rested' = Rested,
         UNCHANGED <<list, restart, elapsed, latest, reset, swi, ticking, clearing>>,
         \/ UNCHANGED ring
         \/ ring \in Seq(RingOps) /\ ring' = Append(ring, [op |-> "stop", timer |-> t])
  PROVE  Lefts'
<1> DEFINE r == [op |-> "stop", timer |-> t]
<1>0. /\ \A u : u # t => (StopWaits(u)' <=> StopWaits(u)) /\ (StartWaits(u)' <=> StartWaits(u))
      /\ \A i \in DOMAIN ring' : ring'[i].timer # t => i \in DOMAIN ring /\ ring'[i] = ring[i]
  <2>1. CASE UNCHANGED ring
    BY <2>1 DEF StopWaits, StartWaits
  <2>2. CASE ring \in Seq(RingOps) /\ ring' = Append(ring, r)
    <3>1. r \in RingOps /\ r.timer = t
      BY DEF RingOps
    <3> HIDE DEF r
    <3> QED
      BY <2>2, <3>1, RingGrows
  <2> QED
    BY <2>1, <2>2
<1>1. SUFFICES ASSUME NEW u \in DOMAIN left', u # t
               PROVE  InList(u)' \/ InRestart(u)' \/ InRing(u)'
  BY DEF Lefts, Untimed
<1>2. u \in DOMAIN left /\ left'[u] = left[u]
  BY <1>1 DEF Untimed
<1>3. (StopWaits(u)' <=> StopWaits(u)) /\ (StartWaits(u)' <=> StartWaits(u)) /\ (u \in running' <=> u \in running)
  BY <1>0, <1>1
<1>4. \A i : D(i)' = D(i)
  BY DEF D
<1>5. \A e : Within(e)' <=> Within(e)
  BY DEF Within, Steady
<1>6. CASE InList(u)
  <2>1. InList(u)'
    BY <1>2, <1>3, <1>4, <1>5, <1>6 DEF InList, Covering
  <2> QED
    BY <2>1
<1>7. CASE InRestart(u)
  <2>1. \A at : NewWait(at, u)' = NewWait(at, u)
    BY DEF NewWait, ToExpire, Diff
  <2>2. InRestart(u)'
    BY <1>2, <1>3, <1>5, <1>7, <2>1 DEF InRestart
  <2> QED
    BY <2>2
<1>8. CASE InRing(u)
  <2>1. \A at : Since(at)' = Since(at)
    BY DEF Since, Diff
  <2>2. NodesOf(list)' = NodesOf(list) /\ CoveredNodes' = CoveredNodes
    BY DEF NodesOf, CoveredNodes
  <2>3. \A i, j \in DOMAIN ring' :
          ring'[i].op = "start" /\ ring'[i].timer = u
            /\ ring'[j].op = "stop" /\ ring'[j].timer = u => j < i
    BY <1>0, <1>1, <1>8 DEF InRing
  <2>4. \A i \in DOMAIN ring' : ring'[i].op = "start" /\ ring'[i].timer = u =>
          left[u] <= Interval[u] - Passed
                       + (IF swi = "insert" /\ reset THEN 0 ELSE Since(ring'[i].at))
    BY <1>0, <1>1, <1>8 DEF InRing
  <2>5. InRing(u)'
    BY <1>2, <1>3, <1>8, <2>1, <2>2, <2>3, <2>4 DEF InRing
  <2> QED
    BY <2>5
<1> QED
  BY <1>2, <1>6, <1>7, <1>8 DEF Deep, Lefts

(* A timer is no longer timed. *)
LEMMA UntimedType ==
  ASSUME ListTypeOK, NEW t
  PROVE  /\ DOMAIN Untimed(t) \subseteq DOMAIN left /\ t \notin DOMAIN Untimed(t)
         /\ \A u \in DOMAIN Untimed(t) : Untimed(t)[u] = left[u]
BY DEF Untimed

(* app_timer_stop keeps the invariant ... *)
LEMMA ClientStopKeeps ==
  ASSUME ListInv, NEW t \in Timers, ClientStop(t)
  PROVE  ListTypeOK' /\ Deep'
<1> DEFINE r == [op |-> "stop", timer |-> t]
<1>0. ListTypeOK /\ Sound /\ Deep
  BY DEF ListInv, ClientStop, StopAsked
<1>1. /\ r \in RingOps /\ r.op = "stop" /\ r.timer = t
      /\ ring' = Append(ring, r) /\ Len(ring) < OpQueueSize /\ swiPend' = TRUE
      /\ busy' = Rested /\ served' = Served
      /\ running' = running \ {t} /\ left' = Untimed(t)
      /\ UNCHANGED <<list, restart, elapsed, latest, reset, swi, head, update, pre,
                     rtc, due, rtcPend, counter, compare, ticking, clearing,
                     cycle, misread>>
  BY DEF ClientStop, StopAsked, RingOps, HasRoom
<1>2. ring \in Seq(RingOps) /\ Rested \in Nat /\ Rested <= Slack
  BY <1>0, Basics
<1>3. Lefts' /\ Passed' = Passed /\ Line' = Line /\ Rested' = Rested
      /\ Turns' /\ Nodes' /\ Clock' /\ NoWrap' /\ Armed' /\ Reading' /\ Covers' /\ Requests'
      /\ Pausing'
  <2> HIDE DEF r
  <2>1. /\ Passed' = Passed /\ Line' = Line /\ Rested' = Rested
        /\ Turns' /\ Nodes' /\ Clock' /\ NoWrap' /\ Armed' /\ Reading' /\ Covers' /\ Requests'
        /\ Pausing'
    BY <1>0, <1>1, RequestKeeps
  <2>2. Lefts'
    BY <1>0, <1>1, <1>2, <2>1, StopLefts DEF r
  <2> QED
    BY <2>1, <2>2
<1>4. ListTypeOK'
  <2> HIDE DEF r
  <2>1. ring' \in Seq(RingOps) /\ Len(ring') <= OpQueueSize
    BY <1>1, <1>2, RingGrows, ConstantsType
  <2>2. Rested \in 0..Slack /\ Served \subseteq Timers
    BY <1>0, <1>2, ConstantsType DEF Served, ListTypeOK
  <2>3. DOMAIN left' \subseteq Timers
        /\ \A u \in DOMAIN left' : left'[u] \in -(MaxLate(u) + 1)..(2 * CounterSize)
    BY <1>0, <1>1, UntimedType DEF ListTypeOK
  <2>4. {reset, update, rtc, swiPend, rtcPend, ticking, clearing, cycle, misread}' \subseteq BOOLEAN
    BY <1>0, <1>1 DEF ListTypeOK
  <2> QED
    BY <1>0, <1>1, <2>1, <2>2, <2>3, <2>4 DEF ListTypeOK, RingOps, Counters
<1> QED
  BY <1>3, <1>4 DEF Deep

(* ... also when the ring is full. *)
LEMMA ClientStopRefusedKeeps ==
  ASSUME ListInv, NEW t \in Timers, ClientStopRefused(t)
  PROVE  ListTypeOK' /\ Deep'
<1>0. ListTypeOK /\ Sound /\ Deep
  BY DEF ListInv, ClientStopRefused
<1>1. /\ running' = running \ {t} /\ left' = Untimed(t)
      /\ UNCHANGED <<ring, list, restart, elapsed, latest, reset, swi, head, update, pre,
                     rtc, due, swiPend, rtcPend, counter, compare, ticking, clearing,
                     busy, served, cycle, misread>>
  BY DEF ClientStopRefused, rtc1Vars
<1>2. Rested' = Rested /\ Served' = Served /\ Passed' = Passed /\ Line' = Line
  <2>1. Rested' = Rested /\ Served' = Served
    BY <1>1 DEF Rested, Served, Idle
  <2> QED
    BY <1>1, <2>1, LineSame
<1>3. Turns' /\ Clock'
  BY <1>0, <1>1 DEF Deep, Turns, Clock, Covering, HeadOf
<1>4. Nodes' /\ NoWrap' /\ Armed' /\ Reading' /\ Covers' /\ Pausing'
  BY <1>0, <1>1, <1>2, NodesFrame, NoWrapFrame, ArmedFrame, ReadingFrame, CoversFrame,
     PausingFrame DEF Deep, Covering
<1>5. Requests'
  BY <1>0, <1>1, <1>2 DEF Deep, Requests, Since, NewWait, ToExpire, Diff
<1>6. Lefts'
  BY <1>0, <1>1, <1>2, StopLefts
<1>7. ListTypeOK'
  <2>1. DOMAIN left' \subseteq Timers
        /\ \A u \in DOMAIN left' : left'[u] \in -(MaxLate(u) + 1)..(2 * CounterSize)
    BY <1>0, <1>1, UntimedType DEF ListTypeOK
  <2> QED
    BY <1>0, <1>1, <2>1 DEF ListTypeOK, Counters
<1> QED
  BY <1>3, <1>4, <1>5, <1>6, <1>7 DEF Deep

(* A start of t: t waits in the ring from now on, unless it is timed       *)
(* already.                                                                *)
LEMMA ClientStartLefts ==
  ASSUME ListTypeOK, Deep, Sound, NEW t \in Timers, ClientStart(t), Sound',
         Passed' = Passed, Rested' = Rested, Since(counter) = Passed
  PROVE  Lefts'
<1> DEFINE r == [op |-> "start", timer |-> t, at |-> counter]
           n == Len(ring) + 1
<1>0. /\ ring' = Append(ring, r) /\ r \in RingOps /\ r.op = "start" /\ r.timer = t
      /\ r.at = counter
      /\ UNCHANGED <<list, running, restart, elapsed, latest, reset, swi, ticking, clearing>>
      /\ left' = IF Active(t) THEN left ELSE IF Timely(t) THEN Timed(t) ELSE Untimed(t)
  BY DEF ClientStart, RingOps, ListTypeOK
<1>1. ring \in Seq(RingOps) /\ Passed \in Nat /\ Rested \in Nat /\ Interval[t] \in Nat
      /\ \A u \in DOMAIN left : left[u] \in Int
  BY Basics, ConstantsType
<1> HIDE DEF r
<1>2. /\ \A i \in DOMAIN ring : i \in DOMAIN ring' /\ ring'[i] = ring[i] /\ i < n
      /\ ring'[n] = r /\ n \in DOMAIN ring'
      /\ \A i \in DOMAIN ring' : i \in DOMAIN ring \/ i = n
      /\ \A u : StartWaits(u)' <=> StartWaits(u) \/ u = t
      /\ \A u : StopWaits(u)' <=> StopWaits(u)
  BY <1>0, <1>1, RingGrows
<1> HIDE DEF n
<1>3. \A i : D(i)' = D(i)
  BY <1>0 DEF D
<1>4. \A e : Within(e)' <=> Within(e)
  BY <1>0 DEF Within, Steady
<1>5. \A at, u : NewWait(at, u)' = NewWait(at, u) /\ Since(at)' = Since(at)
  BY <1>0 DEF NewWait, ToExpire, Diff, Since
<1>6. NodesOf(list)' = NodesOf(list) /\ CoveredNodes' = CoveredNodes
  BY <1>0 DEF NodesOf, CoveredNodes
<1>7. ASSUME NEW u \in DOMAIN left', u \in DOMAIN left, left'[u] = left[u]
      PROVE  InList(u)' \/ InRestart(u)' \/ InRing(u)'
  <2>1. CASE InList(u)
    <3>1. InList(u)'
      BY <1>0, <1>2, <1>3, <1>4, <1>7, <2>1 DEF InList, Covering
    <3> QED
      BY <3>1
  <2>2. CASE InRestart(u)
    <3>1. InRestart(u)'
      BY <1>0, <1>2, <1>4, <1>5, <1>7, <2>2 DEF InRestart
    <3> QED
      BY <3>1
  <2>3. CASE InRing(u)
    <3>1. \A i, j \in DOMAIN ring' :
            ring'[i].op = "start" /\ ring'[i].timer = u
              /\ ring'[j].op = "stop" /\ ring'[j].timer = u => j < i
      <4> SUFFICES ASSUME NEW i \in DOMAIN ring', NEW j \in DOMAIN ring',
                          ring'[i].op = "start", ring'[i].timer = u,
                          ring'[j].op = "stop", ring'[j].timer = u
                   PROVE  j < i
        OBVIOUS
      <4>1. j \in DOMAIN ring /\ ring'[j] = ring[j] /\ j < n
        BY <1>0, <1>2
      <4>2. CASE i = n
        BY <4>1, <4>2
      <4>3. CASE i \in DOMAIN ring
        BY <1>2, <2>3, <4>1, <4>3 DEF InRing
      <4> QED
        BY <1>2, <4>2, <4>3
    <3>2. \A i \in DOMAIN ring' : ring'[i].op = "start" /\ ring'[i].timer = u =>
            left[u] <= Interval[u] - Passed
                         + (IF swi = "insert" /\ reset THEN 0 ELSE Since(ring'[i].at))
      <4> SUFFICES ASSUME NEW i \in DOMAIN ring', ring'[i].op = "start", ring'[i].timer = u
                   PROVE  left[u] <= Interval[u] - Passed
                             + (IF swi = "insert" /\ reset THEN 0 ELSE Since(ring'[i].at))
        OBVIOUS
      <4>1. CASE i \in DOMAIN ring
        BY <1>2, <2>3, <4>1 DEF InRing
      <4>2. CASE i = n
        <5>0. Since(ring'[i].at) = Passed /\ u = t
          BY <1>0, <1>2, <4>2
        <5>1. PICK k \in DOMAIN ring : ring[k].op = "start" /\ ring[k].timer = u
          BY <2>3 DEF InRing, StartWaits
        <5>2. left[u] <= Interval[u] - Passed
                          + (IF swi = "insert" /\ reset THEN 0 ELSE Since(ring[k].at))
          BY <2>3, <5>1 DEF InRing
        <5>3. ~(swi = "insert" /\ reset) => Since(ring[k].at) <= Passed
          BY <5>1 DEF Deep, Requests
        <5>4. ~(swi = "insert" /\ reset) => Since(ring[k].at) \in Int
          <6>1. ring[k].at \in Counters
            <7>1. ring[k] \in RingOps
              BY <1>1, ElementOfSeq
            <7> QED
              BY <5>1, <7>1 DEF RingOps
          <6> QED
            BY <6>1, SinceFacts DEF ListTypeOK
        <5>5. Interval[u] \in Nat /\ left[u] \in Int
          BY <1>1, <1>7, <5>0
        <5> HIDE DEF r
        <5>6. CASE swi = "insert" /\ reset
          BY <5>2, <5>6
        <5>7. CASE ~(swi = "insert" /\ reset)
          BY <1>1, <5>0, <5>2, <5>3, <5>4, <5>5, <5>7
        <5> QED
          BY <5>6, <5>7
      <4> QED
        BY <1>2, <4>1, <4>2
    <3>3. InRing(u)'
      BY <1>0, <1>2, <1>5, <1>6, <1>7, <2>3, <3>1, <3>2 DEF InRing
    <3> QED
      BY <3>3
  <2> QED
    BY <1>7, <2>1, <2>2, <2>3 DEF Deep, Lefts
<1>8. CASE Active(t)
  BY <1>0, <1>7, <1>8 DEF Lefts
<1>9. CASE ~Active(t) /\ ~Timely(t)
  <2>1. left' = Untimed(t)
    BY <1>0, <1>9
  <2>2. \A u \in DOMAIN left' : u \in DOMAIN left /\ left'[u] = left[u]
    BY <2>1, UntimedType
  <2> QED
    BY <1>7, <2>2 DEF Lefts
<1>10. CASE ~Active(t) /\ Timely(t)
  <2>1. left' = Timed(t)
    BY <1>0, <1>10
  <2>2. /\ \A u \in DOMAIN left' : u # t => u \in DOMAIN left /\ left'[u] = left[u]
        /\ left'[t] = Interval[t]
    BY <2>1 DEF Timed
  <2>3. /\ t \notin running /\ ~StartWaits(t) /\ \A i \in DOMAIN restart : restart[i].timer # t
        /\ ~(swi = "insert" /\ reset)
        /\ t \in NodesOf(list) =>
             /\ swi # "insert"
             /\ StopWaits(t) \/ (t \in CoveredNodes /\ t \notin Repeating)
    BY <1>10 DEF Active, Timely
  <2>4. \A i \in DOMAIN ring' : ring'[i].op = "start" /\ ring'[i].timer = t => i = n
    BY <1>2, <2>3 DEF StartWaits
  <2>5. \A i, j \in DOMAIN ring' :
          ring'[i].op = "start" /\ ring'[i].timer = t
            /\ ring'[j].op = "stop" /\ ring'[j].timer = t => j < i
    <3> SUFFICES ASSUME NEW i \in DOMAIN ring', NEW j \in DOMAIN ring',
                        ring'[i].op = "start", ring'[i].timer = t,
                        ring'[j].op = "stop", ring'[j].timer = t
                 PROVE  j < i
      OBVIOUS
    <3>1. i = n
      BY <2>4
    <3>2. j # n
      BY <1>0, <1>2
    <3> QED
      BY <1>2, <3>1, <3>2
  <2>6. left'[t] >= Interval[t] - Rested
    BY <1>1, <2>2
  <2>7. \A i \in DOMAIN ring' : ring'[i].op = "start" /\ ring'[i].timer = t =>
          left'[t] <= Interval[t] - Passed
                       + (IF swi = "insert" /\ reset THEN 0 ELSE Since(ring'[i].at))
    <3> SUFFICES ASSUME NEW i \in DOMAIN ring', ring'[i].op = "start", ring'[i].timer = t
                 PROVE  left'[t] <= Interval[t] - Passed
                          + (IF swi = "insert" /\ reset THEN 0 ELSE Since(ring'[i].at))
      OBVIOUS
    <3>1. Since(ring'[i].at) = Passed
      BY <1>0, <1>2, <2>4
    <3> QED
      BY <1>1, <2>2, <2>3, <3>1
  <2>8. InRing(t)'
    BY <1>0, <1>2, <1>5, <1>6, <2>3, <2>5, <2>6, <2>7 DEF InRing
  <2> QED
    BY <1>7, <2>2, <2>8 DEF Lefts
<1> QED
  BY <1>8, <1>9, <1>10

(* app_timer_start keeps the invariant. *)
LEMMA ClientStartKeeps ==
  ASSUME ListInv, NEW t \in Timers, ClientStart(t)
  PROVE  ListTypeOK' /\ (Sound' => Deep')
<1> DEFINE r == [op |-> "start", timer |-> t, at |-> counter]
<1>0. ListTypeOK /\ Sound /\ Deep
  BY DEF ListInv, ClientStart
<1>1. /\ r \in RingOps /\ r.op = "start" /\ r.at = counter
      /\ ring' = Append(ring, r) /\ Len(ring) < OpQueueSize /\ swiPend' = TRUE
      /\ busy' = Rested /\ served' = Served
      /\ left' = IF Active(t) THEN left ELSE IF Timely(t) THEN Timed(t) ELSE Untimed(t)
      /\ Fresh /\ misread' = Unsteady
      /\ UNCHANGED <<list, running, restart, elapsed, latest, reset, swi, head, update, pre,
                     rtc, due, rtcPend, counter, compare, ticking, clearing, cycle>>
  BY <1>0 DEF ClientStart, RingOps, HasRoom, ListTypeOK
<1>2. ring \in Seq(RingOps) /\ Rested \in Nat /\ Rested <= Slack
  BY <1>0, Basics
<1>3. ASSUME Sound' PROVE Deep'
  <2>a. swi # "stop" /\ ~(swi = "update" /\ list = <<>>) /\ ~clearing
    <3>1. ~Unsteady
      BY <1>1, <1>3 DEF Sound
    <3>2. swi = "stop" => list = <<>>
      BY <1>0 DEF Deep, Clock
    <3> QED
      BY <3>1, <3>2 DEF Unsteady
  <2> HIDE DEF r
  <2>1. /\ Passed' = Passed /\ Line' = Line /\ Rested' = Rested
        /\ r.op = "start" => Since(r.at) = Passed /\ Line <= Passed /\ 0 <= Passed
        /\ Turns' /\ Nodes' /\ Clock' /\ NoWrap' /\ Armed' /\ Reading' /\ Covers' /\ Requests'
        /\ Pausing'
    BY <1>0, <1>1, <2>a, RequestKeeps
  <2>2. Lefts'
    BY <1>0, <1>1, <1>3, <2>1, ClientStartLefts
  <2> QED
    BY <2>1, <2>2 DEF Deep
<1>4. ListTypeOK'
  <2> HIDE DEF r
  <2>1. ring' \in Seq(RingOps) /\ Len(ring') <= OpQueueSize
    BY <1>1, <1>2, RingGrows, ConstantsType
  <2>2. Rested \in 0..Slack /\ Served \subseteq Timers
    BY <1>0, <1>2, ConstantsType DEF Served, ListTypeOK
  <2>3. DOMAIN left' \subseteq Timers
        /\ \A u \in DOMAIN left' : left'[u] \in -(MaxLate(u) + 1)..(2 * CounterSize)
    <3>1. Interval[t] \in -(MaxLate(t) + 1)..(2 * CounterSize)
      BY TimerListAssumption, ConstantsType
    <3>2. DOMAIN left \subseteq Timers
          /\ \A u \in DOMAIN left : left[u] \in -(MaxLate(u) + 1)..(2 * CounterSize)
      BY <1>0 DEF ListTypeOK
    <3>3. CASE left' = left
      BY <3>2, <3>3
    <3>4. CASE left' = Untimed(t)
      BY <3>2, <3>4, UntimedType, <1>0
    <3>5. CASE left' = Timed(t)
      BY <3>1, <3>2, <3>5 DEF Timed
    <3> QED
      BY <1>1, <3>3, <3>4, <3>5
  <2>4. misread' \in BOOLEAN
    BY <1>0, <1>1 DEF Unsteady, ListTypeOK
  <2>5. {reset, update, rtc, swiPend, rtcPend, ticking, clearing, cycle, misread}' \subseteq BOOLEAN
    BY <1>0, <1>1, <2>4 DEF ListTypeOK
  <2> QED
    BY <1>0, <1>1, <2>1, <2>2, <2>3, <2>5 DEF ListTypeOK, RingOps, Counters
<1> QED
  BY <1>3, <1>4

-----------------------------------------------------------------------------
(***************************************************************************)
(* RTC1: timer_timeouts_check.                                             *)
(***************************************************************************)
(* A timer stays timed in a step that leaves its place alone. *)
LEMMA LeftKeeps ==
  ASSUME NEW u \in DOMAIN left, InList(u) \/ InRestart(u) \/ InRing(u),
         left'[u] = left[u], UNCHANGED <<ring, list, restart, latest>>,
         u \in running' <=> u \in running, Passed' = Passed,
         Steady => Steady', Rested' = Rested \/ (ring = <<>> /\ Steady'),
         \A i \in DOMAIN list : Covering /\ i <= Covered(list, elapsed) =>
           (Covering' /\ (i <= Covered(list, elapsed))'),
         CoveredNodes \subseteq CoveredNodes',
         ring # <<>> => /\ swi' = "insert" <=> swi = "insert"
                        /\ swi = "insert" => reset' = reset
  PROVE  InList(u)' \/ InRestart(u)' \/ InRing(u)'
<1>1. (StopWaits(u)' <=> StopWaits(u)) /\ (StartWaits(u)' <=> StartWaits(u))
  BY DEF StopWaits, StartWaits
<1>2. \A i : D(i)' = D(i)
  BY DEF D
<1>3. \A e : Within(e) => Within(e)'
  BY DEF Within
<1>4. \A at : NewWait(at, u)' = NewWait(at, u) /\ Since(at)' = Since(at)
  BY DEF NewWait, ToExpire, Diff, Since
<1>5. CASE InList(u)
  <2>1. InList(u)'
    BY <1>1, <1>2, <1>3, <1>5 DEF InList
  <2> QED
    BY <2>1
<1>6. CASE InRestart(u)
  <2>1. InRestart(u)'
    BY <1>1, <1>3, <1>4, <1>6 DEF InRestart
  <2> QED
    BY <2>1
<1>7. CASE InRing(u)
  <2>1. ring # <<>>
    BY <1>7 DEF InRing, StartWaits
  <2>2. Rested' = Rested /\ (swi' = "insert" <=> swi = "insert")
        /\ (swi = "insert" => reset' = reset)
    BY <2>1
  <2>3. NodesOf(list)' = NodesOf(list)
    BY DEF NodesOf
  <2>4. InRing(u)'
    BY <1>1, <1>4, <1>7, <2>2, <2>3 DEF InRing
  <2> QED
    BY <2>4
<1> QED
  BY <1>5, <1>6, <1>7

(* A step that leaves the requests and their distances alone. *)
LEMMA RequestsFrame ==
  ASSUME Requests, UNCHANGED <<ring, restart, latest, swi, reset>>, Passed' = Passed, Line' = Line
  PROVE  Requests'
BY DEF Requests, Since, NewWait, ToExpire, Diff

(* What timer_timeouts_check computes: the nodes that are due. *)
LEMMA RtcEnterFacts ==
  ASSUME ListTypeOK, Sound, Deep, RtcEnter
  PROVE  /\ list # <<>> /\ ~clearing /\ ticking /\ ~Idle
         /\ rtc' = TRUE /\ rtcPend' = FALSE /\ misread' = FALSE
         /\ UNCHANGED <<ring, list, running, restart, latest, reset, swi, head,
                        update, pre, swiPend, counter, compare, ticking, clearing,
                        busy, served, cycle, left>>
         /\ \E k \in 0..Len(list) :
              /\ \A i \in 1..Len(list) : i <= k <=> D(i) <= Passed
              /\ due' = [i \in 1..k |-> list[i].timer]
              /\ elapsed' = D(k) /\ Covered(list, D(k)) = k /\ D(k) <= Passed /\ D(k) \in Nat
              /\ Covering => Covered(list, elapsed) <= k
<1>1. rtcPend /\ ~rtc /\ swi = "idle"
      /\ UNCHANGED <<ring, list, running, restart, latest, reset, swi, head,
                     update, pre, swiPend, counter, compare, ticking, clearing,
                     busy, served, cycle, left>>
  BY DEF RtcEnter
<1>2. ticking /\ ~clearing /\ list # <<>>
  BY <1>1 DEF Deep, Turns, Clock
<1>3. Passed = Diff(counter, latest) /\ Passed \in Nat
  BY <1>2, Basics DEF Passed
<1> DEFINE k == Covered(list, Passed)
<1>4. /\ rtc' = TRUE /\ rtcPend' = FALSE /\ misread' = FALSE
      /\ due' = [i \in 1..k |-> list[i].timer] /\ elapsed' = D(k)
  BY <1>2, <1>3 DEF RtcEnter, D
<1>5. list \in NodeSeq /\ Len(list) \in Nat /\ DOMAIN list = 1..Len(list)
      /\ \A i \in 0..Len(list) : D(i) \in Nat
  BY Basics
<1>6. k \in 0..Len(list) /\ \A i \in 1..Len(list) : i <= k <=> D(i) <= Passed
  BY <1>3, <1>5, CoveredDef DEF D
<1> HIDE DEF k
<1>7. D(k) <= Passed /\ D(k) \in Nat
  <2>1. CASE k = 0
    BY <2>1, <1>3, <1>5, UntilDef DEF D
  <2>2. CASE k # 0
    BY <2>2, <1>5, <1>6
  <2> QED
    BY <2>1, <2>2
<1>8. Covered(list, D(k)) = k
  <2>1. \A i \in 1..Len(list) : i <= k <=> D(i) <= D(k)
    <3> SUFFICES ASSUME NEW i \in 1..Len(list) PROVE i <= k <=> D(i) <= D(k)
      OBVIOUS
    <3>0. i \in 0..Len(list)
      BY <1>5
    <3>1. CASE i <= k
      <4>1. k \in i..Len(list)
        BY <1>5, <1>6, <3>1
      <4> QED
        BY <1>5, <3>0, <3>1, <4>1, UntilGrows DEF D
    <3>2. CASE ~(i <= k)
      <4>1. ~(D(i) <= Passed) /\ D(i) \in Nat
        BY <1>5, <1>6, <3>0, <3>2
      <4> QED
        BY <1>3, <1>7, <3>2, <4>1
    <3> QED
      BY <3>1, <3>2
  <2> QED
    BY <1>5, <1>6, <1>7, <2>1, CoveredUnique DEF D
<1>9. Covering => Covered(list, elapsed) <= k
  <2> SUFFICES ASSUME Covering PROVE Covered(list, elapsed) <= k
    OBVIOUS
  <2> DEFINE q == Covered(list, elapsed)
  <2>1. elapsed <= Passed /\ elapsed \in Int
    BY ConstantsType, CountersInt DEF Deep, Covers, Covering, ListTypeOK
  <2>2. q \in 0..Len(list) /\ \A i \in 1..Len(list) : i <= q <=> D(i) <= elapsed
    BY <1>5, <2>1, CoveredDef DEF D
  <2> HIDE DEF q
  <2>3. CASE q = 0
    BY <2>3, <1>5, <1>6 DEF q
  <2>4. CASE q # 0
    <3>1. q \in 1..Len(list) /\ D(q) <= elapsed /\ D(q) \in Nat
      BY <1>5, <2>2, <2>4
    <3>2. D(q) <= Passed
      BY <1>3, <2>1, <3>1
    <3> QED
      BY <1>6, <3>1, <3>2 DEF q
  <2> QED
    BY <2>3, <2>4
<1>10. ~Idle
  BY <1>1 DEF Idle
<1> QED
  BY <1>1, <1>2, <1>4, <1>6, <1>7, <1>8, <1>9, <1>10

(* timer_timeouts_check keeps the invariant: as it begins ... *)
LEMMA RtcEnterKeeps ==
  ASSUME ListInv, RtcEnter
  PROVE  ListTypeOK' /\ (Sound' => Deep')
<1>0. ListTypeOK /\ Sound /\ Deep
  BY DEF ListInv, RtcEnter
<1>1. /\ list # <<>> /\ ~clearing /\ ticking /\ ~Idle
      /\ rtc' = TRUE /\ rtcPend' = FALSE /\ misread' = FALSE
      /\ UNCHANGED <<ring, list, running, restart, latest, reset, swi, head,
                     update, pre, swiPend, counter, compare, ticking, clearing,
                     busy, served, cycle, left>>
  BY <1>0, RtcEnterFacts
<1>2. PICK k \in 0..Len(list) :
         /\ \A i \in 1..Len(list) : i <= k <=> D(i) <= Passed
         /\ due' = [i \in 1..k |-> list[i].timer]
         /\ elapsed' = D(k) /\ Covered(list, D(k)) = k /\ D(k) <= Passed /\ D(k) \in Nat
         /\ Covering => Covered(list, elapsed) <= k
  BY <1>0, RtcEnterFacts
<1>3. list \in NodeSeq /\ Len(list) \in Nat /\ DOMAIN list = 1..Len(list)
      /\ Passed \in Nat /\ Passed < CounterSize /\ Line = Passed - Rested /\ Rested \in Nat
      /\ \A i \in 0..Len(list) : D(i) \in Nat
  BY <1>0, Basics
<1>4. swi = "idle"
  BY DEF RtcEnter
<1>5. Rested' = Rested /\ Served' = Served /\ Passed' = Passed /\ Line' = Line
  <2>1. Rested' = Rested /\ Served' = Served
    BY <1>1 DEF Rested, Served, Idle
  <2> QED
    BY <1>1, <2>1, LineSame
<1>6. elapsed' # None
  BY <1>2 DEF None
<1>7. Covered(list, elapsed)' = k
  BY <1>1, <1>2
<1>8. /\ due' \in Seq(Timers) /\ DOMAIN due' = 1..k
      /\ \A i \in 1..k : due'[i] = list[i].timer /\ i \in 1..Len(list)
  <2>1. k \in Nat /\ \A i \in 1..k : list[i].timer \in Timers /\ i \in 1..Len(list)
    BY <1>3, NodeSeqType
  <2>2. due' \in [1..k -> Timers]
    BY <1>2, <2>1
  <2> QED
    BY <1>2, <2>1, <2>2, SeqIntro
<1>9. ListTypeOK'
  <2>1. elapsed' \in Counters
    BY <1>2, <1>3, ConstantsType DEF Counters
  <2>2. {reset, update, rtc, swiPend, rtcPend, ticking, clearing, cycle, misread}' \subseteq BOOLEAN
    BY <1>0, <1>1 DEF ListTypeOK
  <2>3. elapsed' \in Counters \cup {None} /\ due' \in Seq(Timers)
    BY <1>8, <2>1
  <2> QED
    BY <1>0, <1>1, <2>2, <2>3 DEF ListTypeOK
<1>10. Turns'
  BY <1>0, <1>1, <1>4, <1>6 DEF Deep, Turns, Covering
<1>11. Nodes'
  <2>1. CoveredNodes' = {list[i].timer : i \in 1..k}
    BY <1>1, <1>6, <1>7 DEF CoveredNodes
  <2>2. Injective(due)'
    BY <1>0, <1>3, <1>8 DEF Injective, Deep, Nodes
  <2>3. \A i \in DOMAIN due' : due'[i] \in CoveredNodes'
    BY <1>8, <2>1
  <2>4. \A t \in running' \cap CoveredNodes' : \E i \in DOMAIN due' : due'[i] = t
    BY <1>8, <2>1
  <2> QED
    BY <1>0, <1>1, <2>2, <2>3, <2>4 DEF Deep, Nodes, NodesOf
<1>12. Clock'
  BY <1>0, <1>1 DEF Deep, Clock, HeadOf
<1>13. NoWrap' /\ Reading' /\ Requests'
  BY <1>0, <1>1, <1>5, NoWrapFrame, ReadingFrame, RequestsFrame DEF Deep
<1>14. Armed'
  BY <1>1, <1>4, <1>6 DEF Armed, Covering
<1>15. Covers'
  <2>1. \A i \in DOMAIN list : i > k => Line < D(i)
    BY <1>2, <1>3
  <2>2. \A i : D(i)' = D(i)
    BY <1>1 DEF D
  <2> QED
    BY <1>1, <1>2, <1>5, <1>7, <2>1, <2>2 DEF Covers
<1>16. Lefts'
  <2> SUFFICES ASSUME NEW u \in DOMAIN left' PROVE InList(u)' \/ InRestart(u)' \/ InRing(u)'
    BY DEF Lefts
  <2>1. u \in DOMAIN left /\ (InList(u) \/ InRestart(u) \/ InRing(u)) /\ left'[u] = left[u]
    BY <1>0, <1>1 DEF Deep, Lefts
  <2>2. Steady => Steady'
    BY <1>1 DEF Steady
  <2>3. \A i \in DOMAIN list : Covering /\ i <= Covered(list, elapsed) =>
           (Covering' /\ (i <= Covered(list, elapsed))')
    <3>1. Covering => Covered(list, elapsed) \in Int
      <4>1. elapsed \in Counters => elapsed \in Int
        BY CountersInt
      <4> QED
        BY <1>0, <1>3, <4>1, CoveredDef DEF Covering, ListTypeOK
    <3> QED
      BY <1>2, <1>3, <1>6, <1>7, <3>1 DEF Covering
  <2>4. CoveredNodes \subseteq CoveredNodes'
    <3>1. CoveredNodes' = {list[i].timer : i \in 1..k}
      BY <1>1, <1>6, <1>7 DEF CoveredNodes
    <3>2. Covering => Covered(list, elapsed) \in 0..Len(list)
      <4>1. elapsed \in Counters => elapsed \in Int
        BY CountersInt
      <4> QED
        BY <1>0, <1>3, <4>1, CoveredDef DEF Covering, ListTypeOK
    <3>3. ASSUME Covering, NEW i \in 1..Covered(list, elapsed) PROVE i \in 1..k
      BY <1>2, <3>2, <3>3
    <3> QED
      BY <3>1, <3>3 DEF CoveredNodes, Covering
  <2> QED
    BY <1>1, <1>5, <2>1, <2>2, <2>3, <2>4, LeftKeeps
<1>17. Pausing'
  <2> SUFFICES ASSUME NEW i \in DOMAIN list, list[i].timer \in Served,
                      Wait[list[i].timer] < Slack,
                      ~(i <= k /\ list[i].timer \notin running)
               PROVE  D(i) > Line + Slack
    <3>1. \A j : D(j)' = D(j)
      BY <1>1 DEF D
    <3> QED
      BY <1>0, <1>1, <1>5, <1>6, <1>7, <3>1 DEF Deep, Pausing, Covering
  <2>1. \/ Covering /\ i <= Covered(list, elapsed) /\ list[i].timer \notin running
        \/ D(i) > Line + Slack
    BY <1>0 DEF Deep, Pausing
  <2>2. ASSUME Covering, i <= Covered(list, elapsed) PROVE i <= k
    <3>1. Covered(list, elapsed) \in Int
      <4>1. elapsed \in Counters => elapsed \in Int
        BY CountersInt
      <4> QED
        BY <1>0, <1>3, <2>2, <4>1, CoveredDef DEF Covering, ListTypeOK
    <3> QED
      BY <1>2, <1>3, <2>2, <3>1
  <2> QED
    BY <2>1, <2>2
<1> QED
  BY <1>9, <1>10, <1>11, <1>12, <1>13, <1>14, <1>15, <1>16, <1>17 DEF Deep

(* timer_timeouts_check goes on to the next node. *)
LEMMA PassKeeps ==
  ASSUME ListTypeOK, Sound, Deep, NEW t, Pass(t), running' = running \ {t}
  PROVE  /\ Passed' = Passed /\ Rested' = Rested /\ Line' = Line /\ ~Idle /\ ~Idle'
         /\ swi = "idle" /\ Covering
         /\ due' \in Seq(Timers)
         /\ t \in CoveredNodes
         /\ Turns' /\ Nodes' /\ Clock' /\ NoWrap' /\ Armed' /\ Reading' /\ Covers'
         /\ Requests'
<1>1. /\ rtc /\ due # <<>> /\ t = Head(due) /\ due' = Tail(due)
      /\ UNCHANGED <<ring, list, restart, elapsed, latest, reset, swi, head,
                     update, pre, rtc, swiPend, rtcPend, counter, compare, ticking,
                     clearing, busy, cycle, misread>>
  BY DEF Pass
<1>2. swi = "idle" /\ Covering /\ ~Idle /\ ~Idle'
  BY <1>1 DEF Deep, Turns, Idle
<1>3. Rested' = Rested /\ Passed' = Passed /\ Line' = Line
  <2>1. Rested' = Rested
    BY <1>1 DEF Rested, Idle
  <2> QED
    BY <1>1, <2>1, LineSame
<1>4. /\ due' \in Seq(Timers) /\ Len(due) \in Nat /\ Len(due) >= 1 /\ t = due[1]
      /\ DOMAIN due = 1..Len(due) /\ DOMAIN due' = 1..(Len(due) - 1)
      /\ \A i \in 1..(Len(due) - 1) : due'[i] = due[i + 1]
  <2>1. due \in Seq(Timers)
    BY DEF ListTypeOK
  <2> QED
    BY <1>1, <2>1
<1>5. CoveredNodes' = CoveredNodes
  BY <1>1 DEF CoveredNodes
<1>6. Nodes'
  <2>1. Injective(due)'
    BY <1>4 DEF Injective, Deep, Nodes
  <2>2. \A i \in DOMAIN due' : due'[i] \in CoveredNodes'
    BY <1>4, <1>5 DEF Deep, Nodes
  <2>3. \A u \in running' \cap CoveredNodes' : \E i \in DOMAIN due' : due'[i] = u
    <3> SUFFICES ASSUME NEW u \in running' \cap CoveredNodes'
                 PROVE  \E i \in DOMAIN due' : due'[i] = u
      OBVIOUS
    <3>1. PICK i \in DOMAIN due : due[i] = u
      BY <1>5 DEF Deep, Nodes
    <3>2. i # 1
      BY <1>4, <3>1
    <3>3. i - 1 \in 1..(Len(due) - 1) /\ due'[i - 1] = due[i]
      BY <1>4, <3>1, <3>2
    <3> QED
      BY <1>4, <3>1, <3>3
  <2> QED
    BY <1>1, <2>1, <2>2, <2>3 DEF Deep, Nodes, NodesOf
<1>7. t \in CoveredNodes
  BY <1>4 DEF Deep, Nodes
<1>8. Turns' /\ Clock'
  BY <1>1 DEF Deep, Turns, Clock, Covering, HeadOf
<1>9. NoWrap' /\ Armed' /\ Reading' /\ Covers' /\ Requests'
  BY <1>1, <1>3, NoWrapFrame, ArmedFrame, ReadingFrame, CoversFrame, RequestsFrame
     DEF Deep, Covering
<1> QED
  BY <1>2, <1>3, <1>4, <1>6, <1>7, <1>8, <1>9

(* ... as it passes over a node ... *)
LEMMA SkipKeeps ==
  ASSUME ListInv, NEW t \in Timers, Skip(t)
  PROVE  ListTypeOK' /\ Deep'
<1>0. ListTypeOK /\ Sound /\ Deep /\ Pass(t) /\ running' = running /\ left' = left
      /\ running' = running \ {t} /\ served' = served
  BY DEF ListInv, Skip, Pass
<1>1. /\ Passed' = Passed /\ Rested' = Rested /\ Line' = Line /\ ~Idle /\ ~Idle'
      /\ due' \in Seq(Timers)
      /\ Turns' /\ Nodes' /\ Clock' /\ NoWrap' /\ Armed' /\ Reading' /\ Covers'
      /\ Requests'
  BY <1>0, PassKeeps
<1>2. UNCHANGED <<ring, list, restart, elapsed, latest, reset, swi, head,
                  update, pre, rtc, swiPend, rtcPend, counter, compare, ticking,
                  clearing, busy, cycle, misread>>
  BY <1>0 DEF Pass
<1>3. ListTypeOK'
  <2>1. {reset, update, rtc, swiPend, rtcPend, ticking, clearing, cycle, misread}' \subseteq BOOLEAN
    BY <1>0, <1>2 DEF ListTypeOK
  <2> QED
    BY <1>0, <1>1, <1>2, <2>1 DEF ListTypeOK, Counters
<1>4. Lefts'
  <2> SUFFICES ASSUME NEW u \in DOMAIN left' PROVE InList(u)' \/ InRestart(u)' \/ InRing(u)'
    BY DEF Lefts
  <2>1. u \in DOMAIN left /\ (InList(u) \/ InRestart(u) \/ InRing(u)) /\ left'[u] = left[u]
    BY <1>0 DEF Deep, Lefts
  <2>2. Steady => Steady'
    BY <1>2 DEF Steady
  <2>3. \A i \in DOMAIN list : Covering /\ i <= Covered(list, elapsed) =>
           (Covering' /\ (i <= Covered(list, elapsed))')
    BY <1>2 DEF Covering
  <2>4. CoveredNodes \subseteq CoveredNodes'
    BY <1>2 DEF CoveredNodes
  <2> QED
    BY <1>0, <1>1, <1>2, <2>1, <2>2, <2>3, <2>4, LeftKeeps
<1>5. Pausing'
  <2>1. Served' = Served
    BY <1>0, <1>1 DEF Served
  <2> QED
    BY <1>0, <1>1, <1>2, <2>1, PausingFrame DEF Deep
<1> QED
  BY <1>1, <1>3, <1>4, <1>5 DEF Deep

(* The timer that expires is in the list, and its time is over. *)
LEMMA FireFacts ==
  ASSUME ListTypeOK, Sound, Deep, NEW t \in Timers, Fire(t), t \in DOMAIN left
  PROVE  \E i \in DOMAIN list :
           /\ list[i].timer = t /\ i <= Covered(list, elapsed) /\ ~StopWaits(t)
           /\ Within(D(i) - Passed - left[t])
           /\ D(i) <= Longest /\ D(i) <= Passed /\ left[t] <= 0
<1>1. Pass(t) /\ t \in running /\ running' = running \ {t}
  BY DEF Fire
<1>2. t \in CoveredNodes /\ Covering
  BY <1>1, PassKeeps
<1>3. list \in NodeSeq /\ DOMAIN list = 1..Len(list) /\ Len(list) \in Nat /\ Passed \in Nat
      /\ left[t] \in Int /\ \A i \in 0..Len(list) : D(i) \in Nat
  BY Basics
<1>4. elapsed \in Int /\ elapsed <= Passed
  BY <1>2, CountersInt DEF Deep, Covers, Covering, ListTypeOK
<1>5. Covered(list, elapsed) \in 0..Len(list)
      /\ \A i \in 1..Len(list) : i <= Covered(list, elapsed) <=> D(i) <= elapsed
  BY <1>3, <1>4, CoveredDef DEF D
<1>6. PICK i \in 1..Covered(list, elapsed) : list[i].timer = t
  BY <1>2 DEF CoveredNodes, Covering
<1>7. InList(t)
  BY <1>1 DEF Deep, Lefts, InRestart, InRing
<1>8. PICK j \in DOMAIN list : list[j].timer = t /\ Within(D(j) - Passed - left[t])
  BY <1>1, <1>7 DEF InList
<1>9. i \in DOMAIN list /\ i <= Covered(list, elapsed) /\ i \in 1..Len(list) /\ i \in 0..Len(list)
  BY <1>3, <1>5
<1>10. i = j
  BY <1>6, <1>8, <1>9 DEF Deep, Nodes
<1>11. D(i) <= elapsed /\ D(i) \in Nat
  BY <1>3, <1>5, <1>9
<1>12. D(i) <= Passed
  BY <1>3, <1>4, <1>11
<1>13. left[t] <= 0
  <2>1. D(i) - Passed - left[t] >= 0
    BY <1>8, <1>10 DEF Within
  <2> QED
    BY <1>3, <1>11, <1>12, <2>1
<1>14. D(i) <= Longest
  BY <1>9 DEF Deep, NoWrap
<1> QED
  BY <1>6, <1>7, <1>8, <1>9, <1>10, <1>12, <1>13, <1>14 DEF InList

(* ... as it calls a handler ... *)
LEMMA FireKeeps ==
  ASSUME ListInv, NEW t \in Timers, Fire(t)
  PROVE  ListTypeOK' /\ Deep'
<1>0. ListTypeOK /\ Sound /\ Deep /\ Pass(t) /\ running' = running \ {t} /\ t \in running
      /\ served' = served \cup {t}
      /\ left' = IF t \notin DOMAIN left THEN left
                 ELSE IF t \in Repeating THEN [left EXCEPT ![t] = @ + Interval[t]]
                 ELSE Untimed(t)
  BY DEF ListInv, Fire, Pass
<1>1. /\ Passed' = Passed /\ Rested' = Rested /\ due' \in Seq(Timers) /\ Covering
      /\ Line' = Line /\ ~Idle /\ ~Idle' /\ t \in CoveredNodes
      /\ Turns' /\ Nodes' /\ Clock' /\ NoWrap' /\ Armed' /\ Reading' /\ Covers'
      /\ Requests'
  BY <1>0, PassKeeps
<1>2. UNCHANGED <<ring, list, restart, elapsed, latest, reset, swi, head,
                  update, pre, rtc, swiPend, rtcPend, counter, compare, ticking,
                  clearing, busy, cycle, misread>>
  BY <1>0 DEF Pass
<1>a. /\ \A u \in DOMAIN left' : u # t => u \in DOMAIN left /\ left'[u] = left[u]
      /\ t \in DOMAIN left' => t \in DOMAIN left /\ t \in Repeating
                               /\ left'[t] = left[t] + Interval[t]
  <2>1. CASE t \notin DOMAIN left
    BY <1>0, <2>1
  <2>2. CASE t \in DOMAIN left /\ t \in Repeating
    BY <1>0, <2>2
  <2>3. CASE t \in DOMAIN left /\ t \notin Repeating
    <3>1. left' = Untimed(t)
      BY <1>0, <2>3
    <3> QED
      BY <1>0, <3>1, UntimedType
  <2> QED
    BY <2>1, <2>2, <2>3
<1>b. \A u \in DOMAIN left : left[u] \in Int
  BY <1>0, Basics
<1>c. Interval[t] \in Nat /\ Interval[t] >= 1 /\ Interval[t] < CounterSize
      /\ CounterSize \in Nat /\ MaxLate(t) \in Nat
  BY TimerListAssumption, ConstantsType
<1>3. ListTypeOK'
  <2>1. {reset, update, rtc, swiPend, rtcPend, ticking, clearing, cycle, misread}' \subseteq BOOLEAN
    BY <1>0, <1>2 DEF ListTypeOK
  <2>2. DOMAIN left' \subseteq Timers
    BY <1>0, <1>a DEF ListTypeOK
  <2>3. \A u \in DOMAIN left' : left'[u] \in -(MaxLate(u) + 1)..(2 * CounterSize)
    <3> SUFFICES ASSUME NEW u \in DOMAIN left' PROVE left'[u] \in -(MaxLate(u) + 1)..(2 * CounterSize)
      OBVIOUS
    <3>1. u \in DOMAIN left /\ left[u] \in -(MaxLate(u) + 1)..(2 * CounterSize)
      BY <1>0, <1>a DEF ListTypeOK
    <3>2. CASE u # t
      BY <1>a, <3>1, <3>2
    <3>3. CASE u = t
      <4>1. left[u] <= 0 /\ left[u] \in Int /\ left[u] >= -(MaxLate(u) + 1)
        BY <1>0, <1>b, <1>c, <3>1, <3>3, FireFacts
      <4>2. left'[u] = left[u] + Interval[t]
        BY <1>a, <3>3
      <4>3. left[u] + Interval[t] \in -(MaxLate(t) + 1)..(2 * CounterSize)
        BY <1>c, <3>3, <4>1
      <4> QED
        BY <3>3, <4>2, <4>3
    <3> QED
      BY <3>2, <3>3
  <2> QED
    BY <1>0, <1>1, <1>2, <2>1, <2>2, <2>3 DEF ListTypeOK, Counters
<1>5. Pausing'
  <2>1. Served' = Served \cup {t}
    BY <1>0, <1>1 DEF Served
  <2>2. \A u \in Timers \ Served' : Rested' <= Wait[u]
    BY <1>0, <1>1, <2>1 DEF Deep, Pausing
  <2>3. ASSUME NEW i \in DOMAIN list, list[i].timer = t
        PROVE  i <= Covered(list, elapsed)
    <3>1. PICK j \in 1..Covered(list, elapsed) : list[j].timer = t
      BY <1>1 DEF CoveredNodes, Covering
    <3>2. j \in DOMAIN list
      <4>1. list \in NodeSeq /\ DOMAIN list = 1..Len(list) /\ Len(list) \in Nat
        BY <1>0, Basics
      <4>2. elapsed \in Int /\ 0 <= elapsed
        BY <1>0, <1>1, CountersInt DEF Deep, Covers, Covering, ListTypeOK
      <4>3. Covered(list, elapsed) \in 0..Len(list)
        BY <4>1, <4>2, CoveredDef
      <4> QED
        BY <3>1, <4>1, <4>3
    <3>3. j = i
      BY <1>0, <2>3, <3>1, <3>2 DEF Deep, Nodes
    <3> QED
      BY <3>1, <3>3
  <2>4. ASSUME NEW i \in DOMAIN list, list[i].timer \in Served',
               Wait[list[i].timer] < Slack
        PROVE  \/ /\ Covering /\ i <= Covered(list, elapsed)
                  /\ list[i].timer \notin running'
               \/ D(i) > Line + Slack
    <3>1. CASE list[i].timer = t
      BY <1>0, <1>1, <2>3, <3>1
    <3>2. CASE list[i].timer # t
      BY <1>0, <2>1, <2>4, <3>2 DEF Deep, Pausing
    <3> QED
      BY <3>1, <3>2
  <2>5. (Covering <=> Covering') /\ \A i : D(i)' = D(i)
    BY <1>2 DEF Covering, D
  <2> QED
    BY <1>1, <1>2, <2>2, <2>4, <2>5 DEF Pausing
<1>4. Lefts'
  <2> SUFFICES ASSUME NEW u \in DOMAIN left' PROVE InList(u)' \/ InRestart(u)' \/ InRing(u)'
    BY DEF Lefts
  <2>0. u \in DOMAIN left
    BY <1>a
  <2>1. InList(u) \/ InRestart(u) \/ InRing(u)
    BY <1>0, <2>0 DEF Deep, Lefts
  <2>2. Steady => Steady'
    BY <1>2 DEF Steady
  <2>3. \A i \in DOMAIN list : Covering /\ i <= Covered(list, elapsed) =>
           (Covering' /\ (i <= Covered(list, elapsed))')
    BY <1>2 DEF Covering
  <2>4. CASE u # t
    <3>1. left'[u] = left[u] /\ (u \in running' <=> u \in running)
      BY <1>0, <1>a, <2>4
    <3>2. CoveredNodes \subseteq CoveredNodes'
      BY <1>2 DEF CoveredNodes
    <3> QED
      BY <1>1, <1>2, <2>0, <2>1, <2>2, <2>3, <3>1, <3>2, LeftKeeps
  <2>5. CASE u = t
    <3>0. t \in DOMAIN left /\ t \in Repeating /\ left'[t] = left[t] + Interval[t]
      BY <1>a, <2>5
    <3>1. PICK i \in DOMAIN list :
            /\ list[i].timer = t /\ i <= Covered(list, elapsed) /\ ~StopWaits(t)
            /\ Within(D(i) - Passed - left[t])
            /\ D(i) <= Longest /\ D(i) <= Passed /\ left[t] <= 0
      BY <1>0, <3>0, FireFacts
    <3>2. D(i) \in Nat /\ Passed \in Nat
      <4>1. i \in 0..Len(list)
        BY <1>0, Basics
      <4> QED
        BY <1>0, <4>1, Basics
    <3>3. D(i) + Interval[t] - Passed - left'[t] = D(i) - Passed - left[t]
      BY <1>b, <1>c, <3>0, <3>2
    <3>4. \A e : Within(e)' <=> Within(e)
      BY <1>1, <1>2 DEF Within, Steady
    <3>5. D(i)' = D(i) /\ Covering' /\ (~StopWaits(t))' /\ t \notin running'
      BY <1>0, <1>1, <1>2, <3>1 DEF D, Covering, StopWaits
    <3>6. InList(t)'
      BY <1>0, <1>1, <1>2, <3>0, <3>1, <3>3, <3>4, <3>5 DEF InList
    <3> QED
      BY <2>5, <3>6
  <2> QED
    BY <2>4, <2>5
<1> QED
  BY <1>1, <1>3, <1>4, <1>5 DEF Deep

(* ... and as it ends. *)
LEMMA RtcLeaveKeeps ==
  ASSUME ListInv, RtcLeave
  PROVE  ListTypeOK' /\ Deep'
<1>0. ListTypeOK /\ Sound /\ Deep
  BY DEF ListInv, RtcLeave
<1>1. /\ rtc /\ due = <<>> /\ rtc' = FALSE /\ swiPend' = TRUE
      /\ UNCHANGED <<ring, list, running, restart, elapsed, latest, reset, swi,
                     head, update, pre, due, rtcPend, counter, compare, ticking,
                     clearing, busy, served, cycle, left, misread>>
  BY DEF RtcLeave, rtc1Vars, history
<1>2. swi = "idle" /\ Covering
  BY <1>0, <1>1 DEF Deep, Turns
<1>3. Rested' = Rested /\ Served' = Served /\ Passed' = Passed /\ Line' = Line
  <2>1. Rested' = Rested /\ Served' = Served
    BY <1>1 DEF Rested, Served, Idle
  <2> QED
    BY <1>1, <2>1, LineSame
<1>4. ListTypeOK'
  <2>1. {reset, update, rtc, swiPend, rtcPend, ticking, clearing, cycle, misread}' \subseteq BOOLEAN
    BY <1>0, <1>1 DEF ListTypeOK
  <2> QED
    BY <1>0, <1>1, <2>1 DEF ListTypeOK, Counters
<1>5. Turns' /\ Clock'
  BY <1>0, <1>1 DEF Deep, Turns, Clock, Covering, HeadOf
<1>6. Nodes'
  BY <1>0, <1>1, NodesFrame DEF Deep
<1>7. NoWrap' /\ Armed' /\ Reading' /\ Covers' /\ Requests' /\ Pausing'
  BY <1>0, <1>1, <1>3, NoWrapFrame, ArmedFrame, ReadingFrame, CoversFrame, RequestsFrame,
     PausingFrame DEF Deep, Covering
<1>8. Lefts'
  <2> SUFFICES ASSUME NEW u \in DOMAIN left' PROVE InList(u)' \/ InRestart(u)' \/ InRing(u)'
    BY DEF Lefts
  <2>1. u \in DOMAIN left /\ (InList(u) \/ InRestart(u) \/ InRing(u)) /\ left'[u] = left[u]
    BY <1>0, <1>1 DEF Deep, Lefts
  <2>2. Steady => Steady'
    BY <1>1 DEF Steady
  <2>3. \A i \in DOMAIN list : Covering /\ i <= Covered(list, elapsed) =>
           (Covering' /\ (i <= Covered(list, elapsed))')
    BY <1>1 DEF Covering
  <2>4. CoveredNodes \subseteq CoveredNodes'
    BY <1>1 DEF CoveredNodes
  <2> QED
    BY <1>1, <1>3, <2>1, <2>2, <2>3, <2>4, LeftKeeps
<1> QED
  BY <1>4, <1>5, <1>6, <1>7, <1>8 DEF Deep

-----------------------------------------------------------------------------
(***************************************************************************)
(* SWI0: the end of the insertions, and compare_reg_update.                *)
(***************************************************************************)
(* COMPARE is set from the first node. *)
LEMMA FirstWait ==
  ASSUME ListTypeOK, list # <<>>
  PROVE  /\ list[1].wait = D(1) /\ 1 \in DOMAIN list /\ D(1) \in Nat
         /\ Target = (latest + Aim) % CounterSize
         /\ \A i \in DOMAIN list : D(i) \in Nat /\ D(1) <= D(i)
<1>1. list \in NodeSeq /\ Len(list) \in Nat /\ DOMAIN list = 1..Len(list)
      /\ \A i \in 0..Len(list) : D(i) \in Nat
  BY Basics
<1>2. Len(list) # 0
  <2>1. list \in Seq([timer : Timers, wait : Nat])
    BY <1>1 DEF NodeSeq
  <2> QED
    BY <2>1
<1>3. 1 \in 1..Len(list)
  BY <1>1, <1>2
<1>4. Until(list, 0) = 0 /\ Until(list, 1) = Until(list, 1 - 1) + list[1].wait
  BY <1>1, <1>3, UntilDef
<1>5. list[1].wait \in Nat
  BY <1>1, <1>3, NodeSeqType
<1>6. list[1].wait = D(1)
  BY <1>4, <1>5 DEF D
<1>7. Target = (latest + Aim) % CounterSize
  BY <1>6 DEF Target, Aim
<1>8. ASSUME NEW i \in DOMAIN list PROVE D(i) \in Nat /\ D(1) <= D(i)
  <2>1. i \in 1..Len(list) /\ i \in 0..Len(list) /\ 1 \in 0..Len(list)
    BY <1>1, <1>3
  <2>2. D(1) <= D(i)
    BY <1>1, <2>1, UntilGrows DEF D
  <2> QED
    BY <1>1, <2>1, <2>2
<1>9. 1 \in 0..Len(list)
  BY <1>1, <1>3
<1> QED
  BY <1>1, <1>3, <1>6, <1>7, <1>8, <1>9

(* The node at an index of the list has its allowance. *)
LEMMA AllowedFacts ==
  ASSUME ListTypeOK, Unique(list), NEW i \in DOMAIN list
  PROVE  /\ i \in Nat /\ i >= 1 /\ i <= Cardinality(Timers) /\ D(i) \in Nat
         /\ list[i].timer \in Timers
         /\ Wait[list[i].timer] \in Nat /\ Wait[list[i].timer] <= Slack
         /\ Allowed(i) \in Int /\ 0 <= Allowed(i)
         /\ Wait[list[i].timer] + (CompareOffset - 1) <= Allowed(i)
         /\ Allowed(i) <= Wait[list[i].timer] + Offsets /\ Allowed(i) <= Behind
<1>1. list \in NodeSeq /\ Len(list) \in Nat /\ DOMAIN list = 1..Len(list)
      /\ \A j \in 0..Len(list) : D(j) \in Nat
  BY Basics
<1>2. Len(list) <= Cardinality(Timers)
  BY <1>1, UniqueLength
<1>3. i \in Nat /\ i >= 1 /\ i <= Cardinality(Timers) /\ i \in 0..Len(list)
  BY <1>1, <1>2, ConstantsType
<1>4. ASSUME NEW t \in Timers
      PROVE  /\ Allow(t, i) \in Int /\ Wait[t] + (CompareOffset - 1) <= Allow(t, i)
             /\ Allow(t, i) <= Allow(t, 1) /\ Allow(t, 1) = Wait[t] + Offsets
  BY <1>3, ConstantFacts
<1>5. list[i].timer \in Timers
  BY <1>1, NodeSeqType
<1>6. Wait[list[i].timer] \in Nat /\ Wait[list[i].timer] <= Slack
  BY <1>5, ConstantsType
<1>7. /\ Allowed(i) \in Int /\ Wait[list[i].timer] + (CompareOffset - 1) <= Allowed(i)
      /\ Allowed(i) <= Wait[list[i].timer] + Offsets
  BY <1>4, <1>5 DEF Allowed
<1>8. 0 <= Allowed(i) /\ Allowed(i) <= Behind
  BY <1>6, <1>7, ConstantsType
<1> QED
  BY <1>1, <1>3, <1>5, <1>6, <1>7, <1>8

(* A handler leaves the processor with COMPARE set. *)
LEMMA NoWrapSet ==
  ASSUME ListTypeOK, Unique(list), NoWrap, Set, list # <<>>
  PROVE  /\ Passed < CounterSize - 1 - Slack
         /\ Ahead \in Nat /\ Ahead <= CounterSize - 1 - Slack
         /\ \A i \in DOMAIN list : Passed <= D(i) + Allowed(i)
<1>1. 1 \in DOMAIN list
  BY FirstWait
<1>2. D(1) <= Longest /\ Passed < Ahead /\ \A i \in DOMAIN list : Ahead <= D(i) + Allowed(i)
  BY <1>1 DEF NoWrap, Set
<1>3. Ahead \in Counters
  <2>1. compare \in Counters
    BY DEF Set, ListTypeOK
  <2> QED
    BY <2>1, Basics, DiffCases DEF Ahead
<1>4. Ahead \in Nat /\ Passed \in Nat
  BY <1>3, CountersInt, Basics
<1>5. D(1) \in Nat /\ Allowed(1) \in Int /\ Allowed(1) <= Behind /\ Longest \in Int
      /\ CounterSize - 1 - Slack = Longest + Behind
  BY <1>1, AllowedFacts, ConstantFacts
<1>6. ASSUME NEW i \in DOMAIN list PROVE Passed <= D(i) + Allowed(i)
  <2>1. Allowed(i) \in Int /\ D(i) \in Nat
    BY AllowedFacts
  <2> QED
    BY <1>2, <1>4, <2>1
<1> QED
  BY <1>2, <1>4, <1>5, <1>6, <1>1, ConstantsType

(* Nothing is lost when the interrupts end. *)
LEMMA NoWrapIdle ==
  ASSUME ListTypeOK, Unique(list), NoWrap, UNCHANGED <<list, ticking>>,
         ticking => list # <<>>,
         Passed' = Passed, Line' = Line \/ (Line' = Passed /\ (list # <<>> => Set))
  PROVE  NoWrap'
<1>1. CASE Line' = Line
  BY <1>1, NoWrapFrame
<1>2. CASE Line' = Passed /\ (list # <<>> => Set)
  <2>1. \A i : D(i)' = D(i) /\ Allowed(i)' = Allowed(i)
    BY DEF D, Allowed
  <2>2. ticking => Passed <= CounterSize - 1 - Slack
    BY <1>2, NoWrapSet, Basics, ConstantsType
  <2>3. \A i \in DOMAIN list : D(i) <= Longest /\ Passed <= D(i) + Allowed(i)
    <3> SUFFICES ASSUME NEW i \in DOMAIN list PROVE D(i) <= Longest /\ Passed <= D(i) + Allowed(i)
      OBVIOUS
    <3>1. list # <<>>
      BY Basics
    <3> QED
      BY <1>2, <3>1, NoWrapSet DEF NoWrap
  <2>4. \A i \in DOMAIN list' : (D(i) <= Longest /\ Line <= D(i) + Allowed(i))'
    BY <1>2, <2>1, <2>3
  <2>5. (ticking => Line <= CounterSize - 1 - Slack)'
    BY <1>2, <2>2
  <2> QED
    BY <2>4, <2>5 DEF NoWrap
<1> QED
  BY <1>1, <1>2

(* No node is linked twice. *)
LEMMA UniqueList == ASSUME Deep PROVE Unique(list)
BY DEF Deep, Nodes, Unique

(* The end of the insertions keeps the invariant. *)
LEMMA SwiLeaveKeeps ==
  ASSUME ListInv, SwiLeave
  PROVE  ListTypeOK' /\ Deep'
<1>0. ListTypeOK /\ Sound /\ Deep
  BY DEF ListInv, SwiLeave
<1>1. /\ swi = "insert" /\ restart = <<>> /\ ring = <<>> /\ head' = {} /\ update' = FALSE
      /\ UNCHANGED <<ring, list, running, restart, elapsed, latest, pre, rtc, due,
                     swiPend, rtcPend, counter, compare, ticking, clearing, busy,
                     served, cycle, left, misread>>
      /\ \/ swi' = "update" /\ reset' = reset /\ ~HeadKept
         \/ swi' = "idle" /\ reset' = FALSE /\ HeadKept
  BY DEF SwiLeave, rtc1Vars, history, HeadKept
<1>2. ~rtc /\ ~Covering /\ (HeadKept => ~clearing /\ (ticking <=> list # <<>>))
  BY <1>0, <1>1 DEF Deep, Turns, Clock, HeadKept
<1>3. Passed' = Passed
  BY <1>1 DEF Passed, Diff
<1>4. Passed \in Nat /\ Rested = busy /\ Line = Passed - busy /\ busy \in Nat
  BY <1>0, <1>1, Basics DEF Rested, Idle
<1>5. \/ Rested' = Rested /\ Line' = Line
      \/ /\ HeadKept /\ Rested' = 0 /\ Line' = Passed /\ Line <= Line'
         /\ ~rtcPend /\ (list # <<>> => Set)
  <2>1. CASE Idle'
    <3>1. swi' = "idle" /\ ~rtcPend /\ HeadKept
      BY <1>1, <2>1 DEF Idle
    <3>2. Rested' = 0 /\ Line' = Passed
      BY <1>3, <1>4, <2>1 DEF Rested, Line
    <3>3. list # <<>> => Set
      BY <1>0, <1>1, <3>1 DEF Deep, Armed
    <3> QED
      BY <1>4, <3>1, <3>2, <3>3
  <2>2. CASE ~Idle'
    <3>1. Rested' = Rested
      BY <1>1, <1>4, <2>2 DEF Rested
    <3> QED
      BY <1>3, <3>1 DEF Line
  <2> QED
    BY <2>1, <2>2
<1>6. ListTypeOK'
  <2>1. {reset, update, rtc, swiPend, rtcPend, ticking, clearing, cycle, misread}' \subseteq BOOLEAN
    BY <1>0, <1>1 DEF ListTypeOK
  <2> QED
    BY <1>0, <1>1, <2>1 DEF ListTypeOK, Counters
<1>7. Turns'
  BY <1>0, <1>1, <1>2 DEF Deep, Turns, Covering
<1>8. Nodes' /\ Clock'
  BY <1>0, <1>1, <1>2 DEF Deep, Nodes, Clock, Injective, CoveredNodes
<1>9. NoWrap'
  <2>1. CASE Line' = Line
    BY <1>0, <1>1, <2>1, NoWrapFrame DEF Deep
  <2>2. CASE Line' # Line
    BY <1>0, <1>1, <1>2, <1>3, <1>5, <2>2, NoWrapIdle, UniqueList DEF Deep
  <2> QED
    BY <2>1, <2>2
<1>10. Armed'
  <2> SUFFICES ASSUME list # <<>>, ~rtcPend
               PROVE  /\ swi' = "idle" => Set'
                      /\ swi' = "update" => Unset'
    BY <1>1 DEF Armed
  <2>1. \A i : D(i)' = D(i)
    BY <1>1 DEF D
  <2>2. Ahead' = Ahead
    BY <1>1 DEF Ahead, Diff
  <2>3. ASSUME swi' = "idle" PROVE Set'
    <3>1. Set
      BY <1>0, <1>1, <2>3 DEF Deep, Armed
    <3> QED
      BY <1>1, <1>3, <2>1, <2>2, <3>1 DEF Set, Allowed
  <2>4. ASSUME swi' = "update" PROVE Unset'
    <3>1. Unset /\ Line' = Line
      BY <1>0, <1>1, <1>5, <2>4 DEF Deep, Armed
    <3> QED
      BY <1>1, <1>3, <2>1, <2>2, <3>1 DEF Unset, Allowed
  <2> QED
    BY <2>3, <2>4
<1>11. Reading' /\ Covers'
  BY <1>1, <1>2 DEF Reading, Covers, Covering
<1>12. Requests'
  BY <1>1 DEF Requests
<1>13. Pausing'
  <2>1. ~Idle
    BY <1>1 DEF Idle
  <2> QED
    BY <1>0, <1>1, <1>3, <2>1, PausingLeaves DEF Deep
<1>14. Lefts'
  <2> SUFFICES ASSUME NEW u \in DOMAIN left' PROVE InList(u)' \/ InRestart(u)' \/ InRing(u)'
    BY DEF Lefts
  <2>1. u \in DOMAIN left /\ (InList(u) \/ InRestart(u) \/ InRing(u)) /\ left'[u] = left[u]
    BY <1>0, <1>1 DEF Deep, Lefts
  <2>2. list # <<>>
    <3>1. DOMAIN restart = {} /\ DOMAIN ring = {}
      BY <1>1
    <3> QED
      BY <2>1, <3>1, <1>0, Basics DEF InList, InRestart, InRing, StartWaits
  <2>3. Rested' = Rested \/ (ring = <<>> /\ Steady')
    BY <1>1, <1>2, <1>5, <2>2 DEF Steady
  <2>4. Steady => Steady'
    BY <1>1 DEF Steady
  <2>5. CoveredNodes \subseteq CoveredNodes'
    BY <1>1 DEF CoveredNodes
  <2> QED
    BY <1>1, <1>2, <1>3, <2>1, <2>3, <2>4, <2>5, LeftKeeps
<1> QED
  BY <1>6, <1>7, <1>8, <1>9, <1>10, <1>11, <1>12, <1>13, <1>14 DEF Deep

(* While nothing covers the list, the counter is not far beyond the time   *)
(* of a node that was not due when the interrupts took the processor.      *)
LEMMA NotLong ==
  ASSUME ListTypeOK, Deep, ~Covering, NEW i \in DOMAIN list, Line < D(i)
  PROVE  Passed + 1 <= D(i) + Wait[list[i].timer]
<1>1. /\ Passed \in Nat /\ Rested \in Nat /\ Rested <= Slack /\ Line = Passed - Rested
      /\ Line \in Int
  BY Basics
<1> DEFINE t == list[i].timer
<1>2. /\ D(i) \in Nat /\ t \in Timers /\ Wait[t] \in Nat /\ Wait[t] <= Slack
  BY AllowedFacts, UniqueList
<1>3. \/ Rested <= Wait[t]
      \/ t \in Served /\ Wait[t] < Slack
  <2>1. CASE t \notin Served
    BY <1>2, <2>1 DEF Deep, Pausing
  <2>2. CASE ~(Wait[t] < Slack)
    BY <1>1, <1>2, <2>2, ConstantsType
  <2> QED
    BY <2>1, <2>2
<1>4. t \in Served /\ Wait[t] < Slack => D(i) > Line + Slack
  BY DEF Deep, Pausing
<1> HIDE DEF t
<1>5. Passed + 1 <= D(i) + Wait[t]
  <2>1. CASE Rested <= Wait[t]
    BY <1>1, <1>2, <2>1
  <2>2. CASE D(i) > Line + Slack
    BY <1>1, <1>2, <2>2, ConstantsType
  <2> QED
    BY <1>3, <1>4, <2>1, <2>2
<1> QED
  BY <1>5 DEF t

(* compare_reg_update keeps the invariant: as it reads the counter ... *)
LEMMA SwiReadKeeps ==
  ASSUME ListInv, SwiRead
  PROVE  ListTypeOK' /\ (Sound' => Deep')
<1>0. ListTypeOK /\ Sound /\ Deep
  BY DEF ListInv, SwiRead
<1>1. /\ swi = "update" /\ list # <<>> /\ swi' = "set" /\ pre' = counter /\ ticking' = TRUE
      /\ misread' = clearing
      /\ UNCHANGED <<ring, list, running, restart, elapsed, latest, reset, head,
                     update, rtc, due, swiPend, counter, compare, clearing, busy,
                     served, cycle, left>>
      /\ rtcPend' = (rtcPend /\ ticking)
  BY DEF SwiRead
<1>2. ~rtc /\ ~Covering /\ restart = <<>> /\ (rtcPend => ticking)
  BY <1>0, <1>1 DEF Deep, Turns
<1>3. Passed' = Passed /\ Rested' = Rested /\ Served' = Served /\ Line' = Line
  <2>1. Rested' = Rested /\ Served' = Served
    BY <1>1 DEF Rested, Served, Idle
  <2> QED
    BY <1>1, <2>1, LineSame
<1>4. Passed \in Nat /\ Rested \in Nat /\ Rested <= Slack /\ Line = Passed - Rested /\ Line \in Int
  BY <1>0, Basics
<1>5. ListTypeOK'
  <2>1. {reset, update, rtc, swiPend, rtcPend, ticking, clearing, cycle, misread}' \subseteq BOOLEAN
    BY <1>0, <1>1 DEF ListTypeOK
  <2> QED
    BY <1>0, <1>1, <2>1 DEF ListTypeOK, Counters
<1>6. ASSUME Sound' PROVE Deep'
  <2>1. ~clearing
    BY <1>1, <1>6 DEF Sound
  <2>2. Turns'
    BY <1>0, <1>1, <1>2, <2>1 DEF Deep, Turns, Covering
  <2>3. Nodes' /\ Clock'
    BY <1>0, <1>1, <1>2 DEF Deep, Nodes, Clock, Injective, CoveredNodes
  <2>4. \A i : D(i)' = D(i)
    BY <1>1 DEF D
  <2>5. NoWrap'
    <3>1. 1 \in DOMAIN list /\ D(1) \in Nat
      BY <1>0, <1>1, FirstWait
    <3>2. D(1) <= Longest /\ Line <= D(1) + Allowed(1)
          /\ Allowed(1) \in Int /\ Allowed(1) <= Behind
      BY <1>0, <3>1, AllowedFacts, UniqueList DEF Deep, NoWrap
    <3>a. /\ Longest \in Int /\ CounterSize - 1 - Slack = Longest + Behind
          /\ Behind \in Nat /\ Slack \in Nat /\ CounterSize \in Nat
      BY ConstantFacts, ConstantsType
    <3>3. Line <= CounterSize - 1 - Slack
      BY <1>4, <3>1, <3>2, <3>a
    <3>4. (ticking => Line <= CounterSize - 1 - Slack)'
      BY <1>3, <3>3
    <3>5. (\A i \in DOMAIN list : D(i) <= Longest /\ Line <= D(i) + Allowed(i))'
      BY <1>0, <1>1, <1>3, <2>4 DEF Deep, NoWrap, Allowed
    <3> QED
      BY <3>4, <3>5 DEF NoWrap
  <2>6. Diff(pre', latest) = Passed
    BY <1>1, <2>1 DEF Passed
  <2>7. Armed'
    <3> SUFFICES ASSUME ~rtcPend' PROVE \A i \in DOMAIN list : Aim' <= D(i) + Allowed(i)
      BY <1>1, <2>4 DEF Armed, Allowed
    <3>1. Unset
      BY <1>0, <1>1, <1>2 DEF Deep, Armed
    <3>2. Aim' = IF Passed + CompareOffset < D(1) THEN D(1) ELSE Passed + CompareOffset
      BY <1>1, <2>4, <2>6 DEF Aim, Diff
    <3> TAKE i \in DOMAIN list
    <3>3. D(1) \in Nat /\ D(i) \in Nat /\ D(1) <= D(i)
      BY <1>0, <1>1, FirstWait
    <3>4. Allowed(i) \in Int /\ 0 <= Allowed(i)
      BY <1>0, UniqueList, AllowedFacts
    <3>5. Passed + CompareOffset <= D(i) + Allowed(i)
      <4>1. CASE Line < D(i)
        <5>1. Passed + 1 <= D(i) + Wait[list[i].timer]
          BY <1>0, <1>2, <4>1, NotLong
        <5>2. /\ Wait[list[i].timer] + (CompareOffset - 1) <= Allowed(i)
              /\ Wait[list[i].timer] \in Nat /\ CompareOffset \in Nat
          BY <1>0, AllowedFacts, UniqueList, ConstantsType
        <5> QED
          BY <1>4, <3>3, <3>4, <5>1, <5>2
      <4>2. CASE compare # None /\ Passed < Ahead /\ Ahead + (CompareOffset - 1) <= D(i) + Allowed(i)
        <5>1. compare \in Counters
          BY <1>0, <4>2 DEF ListTypeOK
        <5>2. Ahead \in Counters
          BY <1>0, <5>1, Basics, DiffCases DEF Ahead
        <5>3. Ahead \in Int
          BY <5>2, CountersInt
        <5> QED
          BY <1>4, <3>3, <3>4, <4>2, <5>3, ConstantsType
      <4> QED
        BY <3>1, <4>1, <4>2 DEF Unset
    <3>6. D(1) <= D(i) + Allowed(i)
      BY <3>3, <3>4
    <3> QED
      BY <3>2, <3>5, <3>6
  <2>8. Reading'
    BY <1>1, <1>3, <1>4, <2>6 DEF Reading, Diff
  <2>9. Covers'
    BY <1>1, <1>2 DEF Covers, Covering
  <2>10. Requests'
    BY <1>0, <1>1, <1>2, <1>3 DEF Deep, Requests, Since, Diff
  <2>11. Lefts'
    <3> SUFFICES ASSUME NEW u \in DOMAIN left' PROVE InList(u)' \/ InRestart(u)' \/ InRing(u)'
      BY DEF Lefts
    <3>1. u \in DOMAIN left /\ (InList(u) \/ InRestart(u) \/ InRing(u)) /\ left'[u] = left[u]
      BY <1>0, <1>1 DEF Deep, Lefts
    <3>2. Steady => Steady'
      BY <1>1 DEF Steady
    <3>3. CoveredNodes \subseteq CoveredNodes'
      BY <1>1 DEF CoveredNodes
    <3> QED
      BY <1>1, <1>2, <1>3, <3>1, <3>2, <3>3, LeftKeeps
  <2>12. Pausing'
    BY <1>0, <1>1, <1>3, PausingFrame DEF Deep
  <2> QED
    BY <2>2, <2>3, <2>5, <2>7, <2>8, <2>9, <2>10, <2>11, <2>12 DEF Deep
<1> QED
  BY <1>5, <1>6

(* COMPARE is aimed at a count that is still to come.                      *)
LEMMA AimFacts ==
  ASSUME ListTypeOK, Deep, swi \in {"set", "check"}, ~rtcPend
  PROVE  /\ list # <<>> /\ ~clearing /\ ticking
         /\ Diff(pre, latest) \in Nat /\ Diff(pre, latest) <= Passed
         /\ Passed = Diff(counter, latest)
         /\ Aim \in Nat /\ Aim < CounterSize - Slack
         /\ Diff(pre, latest) + CompareOffset <= Aim
         /\ Aim = D(1) \/ Aim = Diff(pre, latest) + CompareOffset
         /\ Target \in Counters /\ Diff(Target, latest) = Aim
         /\ \A i \in DOMAIN list : Aim <= D(i) + Allowed(i)
<1>1. list # <<>> /\ ticking /\ ~clearing
  BY DEF Deep, Clock, Turns
<1>2. Diff(pre, latest) <= Passed
  BY DEF Deep, Reading
<1>3. Passed = Diff(counter, latest) /\ pre \in Counters /\ latest \in Counters
  BY <1>1 DEF Passed, ListTypeOK
<1> DEFINE p == Diff(pre, latest)
<1>4. p \in Nat
  BY <1>3, DiffCases, CountersInt
<1>5. D(1) \in Nat /\ 1 \in DOMAIN list /\ Target = (latest + Aim) % CounterSize
  BY <1>1, FirstWait
<1>6. Aim = IF p + CompareOffset < D(1) THEN D(1) ELSE p + CompareOffset
  BY DEF Aim
<1> HIDE DEF p
<1>7. Aim \in Nat /\ p + CompareOffset <= Aim /\ (Aim = D(1) \/ Aim = p + CompareOffset)
  BY <1>4, <1>5, <1>6, ConstantsType
<1>8. \A i \in DOMAIN list : Aim <= D(i) + Allowed(i)
  BY <1>1 DEF Deep, Armed
<1>9. Aim < CounterSize - Slack
  <2>1. Aim <= D(1) + Allowed(1) /\ D(1) <= Longest
    BY <1>5, <1>8 DEF Deep, NoWrap
  <2>2. Allowed(1) \in Int /\ Allowed(1) <= Behind
    BY <1>5, AllowedFacts, UniqueList
  <2>3. /\ Longest \in Int /\ CounterSize - 1 - Slack = Longest + Behind
        /\ Behind \in Nat /\ Slack \in Nat /\ CounterSize \in Nat
    BY ConstantFacts, ConstantsType
  <2> QED
    BY <1>5, <1>7, <2>1, <2>2, <2>3
<1>10. Target \in Counters /\ Diff(Target, latest) = Aim
  BY <1>3, <1>5, <1>7, <1>9, DiffOfWrap, ConstantsType
<1> QED
  BY <1>1, <1>2, <1>3, <1>4, <1>7, <1>8, <1>9, <1>10 DEF p

(* ... as it sets the register ... *)
LEMMA SwiSetKeeps ==
  ASSUME ListInv, SwiSet
  PROVE  ListTypeOK' /\ Deep'
<1>0. ListTypeOK /\ Sound /\ Deep
  BY DEF ListInv, SwiSet
<1>1. /\ swi = "set" /\ swi' = "check"
      /\ compare' \in {Target} \cup (IF Diff(Target, counter) <= 1 THEN {None} ELSE {})
      /\ UNCHANGED <<ring, list, running, restart, elapsed, latest, reset, head,
                     update, pre, rtc, due, swiPend, rtcPend, counter, ticking,
                     clearing, busy, served, cycle, left, misread>>
  BY DEF SwiSet, history
<1>2. ~rtc /\ ~Covering /\ restart = <<>> /\ list # <<>>
  BY <1>0, <1>1 DEF Deep, Turns, Clock
<1>3. Passed' = Passed /\ Rested' = Rested /\ Served' = Served /\ Line' = Line
  <2>1. Rested' = Rested /\ Served' = Served
    BY <1>1 DEF Rested, Served, Idle
  <2> QED
    BY <1>1, <2>1, LineSame
<1>4. ListTypeOK'
  <2>1. {reset, update, rtc, swiPend, rtcPend, ticking, clearing, cycle, misread}' \subseteq BOOLEAN
    BY <1>0, <1>1 DEF ListTypeOK
  <2>2. compare' \in Counters \cup {None}
    <3>1. D(1) \in Nat /\ Target = (latest + Aim) % CounterSize
      BY <1>0, <1>2, FirstWait
    <3>2. Diff(pre, latest) \in Int
      BY <1>0, DiffCases, CountersInt DEF ListTypeOK
    <3>3. Aim \in Int
      BY <3>1, <3>2, ConstantsType DEF Aim
    <3>4. Target \in Counters
      <4>1. latest + Aim \in Int
        BY <1>0, <3>3, CountersInt DEF ListTypeOK
      <4> QED
        BY <3>1, <4>1, WrapCases
    <3> QED
      BY <1>1, <3>4
  <2> QED
    BY <1>0, <1>1, <2>1, <2>2 DEF ListTypeOK, Counters
<1>5. Turns' /\ Nodes' /\ Clock'
  BY <1>0, <1>1, <1>2 DEF Deep, Turns, Covering, Nodes, Clock, Injective, CoveredNodes
<1>6. NoWrap'
  BY <1>0, <1>1, <1>3, NoWrapFrame DEF Deep
<1>7. Armed'
  <2> SUFFICES ASSUME ~rtcPend
               PROVE  /\ \A i \in DOMAIN list : (Aim <= D(i) + Allowed(i))'
                      /\ compare' = Target' \/ (compare' = None /\ (Aim <= Passed + 1)')
    BY <1>1 DEF Armed
  <2>0. \A i : D(i)' = D(i) /\ Allowed(i)' = Allowed(i)
    BY <1>1 DEF D, Allowed
  <2>1. Aim' = Aim /\ Target' = Target
    BY <1>1, <2>0 DEF Aim, Target, Diff
  <2>2. /\ Aim \in Nat /\ Aim < CounterSize - Slack /\ Passed = Diff(counter, latest)
        /\ Target \in Counters /\ Diff(Target, latest) = Aim
        /\ \A i \in DOMAIN list : Aim <= D(i) + Allowed(i)
    BY <1>0, <1>1, AimFacts
  <2>3. ASSUME compare' # Target PROVE compare' = None /\ Aim <= Passed + 1
    <3>1. compare' = None /\ Diff(Target, counter) <= 1
      BY <1>1, <2>3
    <3>2. counter \in Counters /\ latest \in Counters /\ Passed \in Nat
      BY <1>0, Basics
    <3>3. Passed <= Aim => Diff(Target, counter) = Aim - Passed
      BY <2>2, <3>2, DiffShift
    <3>4. Diff(Target, counter) \in Int
      BY <2>2, <3>2, DiffCases, CountersInt
    <3>5. Aim <= Passed + 1
      BY <2>2, <3>1, <3>2, <3>3, <3>4
    <3> QED
      BY <3>1, <3>5
  <2> QED
    BY <1>1, <1>3, <2>0, <2>1, <2>2, <2>3
<1>8. Reading'
  BY <1>0, <1>1, <1>3 DEF Deep, Reading, Diff
<1>9. Covers'
  BY <1>1, <1>2 DEF Covers, Covering
<1>10. Requests'
  BY <1>0, <1>1, <1>2, <1>3 DEF Deep, Requests, Since, Diff
<1>11. Lefts'
  <2> SUFFICES ASSUME NEW u \in DOMAIN left' PROVE InList(u)' \/ InRestart(u)' \/ InRing(u)'
    BY DEF Lefts
  <2>1. u \in DOMAIN left /\ (InList(u) \/ InRestart(u) \/ InRing(u)) /\ left'[u] = left[u]
    BY <1>0, <1>1 DEF Deep, Lefts
  <2>2. Steady => Steady'
    BY <1>1 DEF Steady
  <2>3. CoveredNodes \subseteq CoveredNodes'
    BY <1>1 DEF CoveredNodes
  <2> QED
    BY <1>1, <1>2, <1>3, <2>1, <2>2, <2>3, LeftKeeps
<1>12. Pausing'
  BY <1>0, <1>1, <1>3, PausingFrame DEF Deep
<1> QED
  BY <1>4, <1>5, <1>6, <1>7, <1>8, <1>9, <1>10, <1>11, <1>12 DEF Deep

(* ... as it checks it ... *)
LEMMA SwiCheckKeeps ==
  ASSUME ListInv, SwiCheck
  PROVE  ListTypeOK' /\ Deep'
<1>0. ListTypeOK /\ Sound /\ Deep
  BY DEF ListInv, SwiCheck
<1>1. /\ swi = "check" /\ swi' = "idle" /\ reset' = FALSE /\ pre' = 0
      /\ UNCHANGED <<ring, list, running, restart, elapsed, latest, head, update, rtc,
                     due, swiPend, counter, ticking, clearing, busy, served, cycle, left,
                     misread>>
      /\ \/ Missed /\ compare' = counter /\ rtcPend' = TRUE
         \/ ~Missed /\ UNCHANGED <<compare, rtcPend>>
  BY DEF SwiCheck, history
<1>2. /\ ~rtc /\ ~Covering /\ restart = <<>> /\ list # <<>> /\ ticking /\ ~clearing
      /\ (ring # <<>> => swiPend)
  BY <1>0, <1>1 DEF Deep, Turns, Clock
<1>3. Passed' = Passed
  BY <1>1 DEF Passed, Diff
<1>4. Passed \in Nat /\ Rested = busy /\ Line = Passed - busy /\ busy \in Nat /\ busy <= Slack
      /\ Line \in Int
  BY <1>0, <1>1, Basics DEF Rested, Idle
<1>5. ListTypeOK'
  <2>1. {reset, update, rtc, swiPend, rtcPend, ticking, clearing, cycle, misread}' \subseteq BOOLEAN
    <3>1. rtcPend' \in BOOLEAN
      BY <1>0, <1>1 DEF ListTypeOK
    <3> QED
      BY <1>0, <1>1, <3>1 DEF ListTypeOK
  <2>2. compare' \in Counters \cup {None}
    BY <1>0, <1>1 DEF ListTypeOK
  <2>3. 0 \in Counters
    BY ConstantsType DEF Counters
  <2> QED
    BY <1>0, <1>1, <2>1, <2>2, <2>3 DEF ListTypeOK, Counters
<1>6. \A i : D(i)' = D(i)
  BY <1>1 DEF D
<1>7. \/ Rested' = Rested /\ Line' = Line
      \/ Rested' = 0 /\ Line' = Passed /\ ~rtcPend' /\ ring = <<>>
  <2>1. CASE Idle'
    <3>1. Rested' = 0 /\ Line' = Passed /\ ~rtcPend' /\ ~swiPend
      BY <1>1, <1>3, <1>4, <2>1 DEF Rested, Line, Idle
    <3> QED
      BY <1>2, <3>1
  <2>2. CASE ~Idle'
    <3>1. Rested' = Rested
      BY <1>1, <1>4, <2>2 DEF Rested
    <3> QED
      BY <1>3, <3>1 DEF Line
  <2> QED
    BY <2>1, <2>2
<1>8. ASSUME ~rtcPend'
      PROVE  Set
  <2>0. ~rtcPend /\ ~Missed
    BY <1>1, <1>8
  <2> DEFINE p == Diff(pre, latest)
             t == Diff(Target, pre)
             q == Diff(counter, pre)
  <2>1. /\ p \in Nat /\ p <= Passed /\ Passed = Diff(counter, latest)
        /\ Aim \in Nat /\ Aim < CounterSize - Slack /\ p + CompareOffset <= Aim
        /\ Aim = D(1) \/ Aim = p + CompareOffset
        /\ Target \in Counters /\ Diff(Target, latest) = Aim
        /\ \A i \in DOMAIN list : Aim <= D(i) + Allowed(i)
    BY <1>0, <1>1, <2>0, AimFacts
  <2>2. counter \in Counters /\ latest \in Counters /\ pre \in Counters
    BY <1>0 DEF ListTypeOK
  <2>3. q = Passed - p
    BY <2>1, <2>2, DiffShift
  <2>4. p <= Aim
    BY <2>1, ConstantsType
  <2>5. t = Aim - p
    BY <2>1, <2>2, <2>4, DiffShift
  <2>6. ~(q + CompareOffset > t)
    BY <2>0 DEF Missed
  <2>7. compare = Target \/ (compare = None /\ Aim <= Passed + 1)
    BY <1>0, <1>1, <1>2, <2>0 DEF Deep, Armed
  <2> HIDE DEF p, q, t
  <2>8. Passed + CompareOffset <= Aim
    BY <1>4, <2>1, <2>3, <2>5, <2>6, ConstantsType
  <2>9. compare = Target
    BY <1>4, <2>1, <2>7, <2>8, ConstantsType
  <2>10. Ahead = Aim /\ compare # None
    <3>1. Target # None
      BY <2>1, ConstantsType, CountersInt DEF None
    <3> QED
      BY <2>1, <2>9, <3>1 DEF Ahead
  <2>11. Passed < Ahead
    BY <1>4, <2>1, <2>8, <2>10, ConstantsType
  <2>12. Ahead <= D(1) \/ Ahead <= Passed + CompareOffset
    <3>1. CASE Aim = D(1)
      BY <2>1, <2>10, <3>1
    <3>2. CASE Aim = p + CompareOffset
      BY <1>4, <2>1, <2>10, <3>2, ConstantsType
    <3> QED
      BY <2>1, <3>1, <3>2
  <2> QED
    BY <2>1, <2>10, <2>11, <2>12 DEF Set
<1>9. Turns' /\ Nodes' /\ Clock'
  BY <1>0, <1>1, <1>2 DEF Deep, Turns, Covering, Nodes, Clock, Injective, CoveredNodes
<1>10. NoWrap'
  BY <1>0, <1>1, <1>2, <1>3, <1>7, <1>8, NoWrapIdle, UniqueList DEF Deep
<1>11. Armed'
  <2> SUFFICES ASSUME ~rtcPend' PROVE Set'
    BY <1>1 DEF Armed
  <2>1. UNCHANGED compare
    BY <1>1
  <2>2. Ahead' = Ahead
    BY <1>1, <2>1 DEF Ahead, Diff
  <2> QED
    BY <1>1, <1>3, <1>6, <1>8, <2>1, <2>2 DEF Set, Allowed
<1>12. Reading' /\ Covers'
  BY <1>1, <1>2 DEF Reading, Covers, Covering
<1>13. Requests'
  <2>1. \A at : Since(at)' = Since(at)
    BY <1>1 DEF Since, Diff
  <2>2. ring # <<>> => Line' = Line
    BY <1>7
  <2>3. \A i \in DOMAIN ring : ring # <<>>
    BY <1>0, Basics
  <2> QED
    BY <1>0, <1>1, <1>2, <1>3, <2>1, <2>2, <2>3 DEF Deep, Requests
<1>14. Lefts'
  <2> SUFFICES ASSUME NEW u \in DOMAIN left' PROVE InList(u)' \/ InRestart(u)' \/ InRing(u)'
    BY DEF Lefts
  <2>1. u \in DOMAIN left /\ (InList(u) \/ InRestart(u) \/ InRing(u)) /\ left'[u] = left[u]
    BY <1>0, <1>1 DEF Deep, Lefts
  <2>2. Steady /\ Steady'
    BY <1>1, <1>2 DEF Steady
  <2>3. CoveredNodes \subseteq CoveredNodes'
    BY <1>1 DEF CoveredNodes
  <2> QED
    BY <1>1, <1>2, <1>3, <1>7, <2>1, <2>2, <2>3, LeftKeeps
<1>15. Pausing'
  <2>1. ~Idle
    BY <1>1 DEF Idle
  <2> QED
    BY <1>0, <1>1, <1>3, <2>1, PausingLeaves DEF Deep
<1> QED
  BY <1>5, <1>9, <1>10, <1>11, <1>12, <1>13, <1>14, <1>15 DEF Deep

(* ... as it stops RTC1 ... *)
LEMMA SwiStopKeeps ==
  ASSUME ListInv, SwiStop
  PROVE  ListTypeOK' /\ Deep'
<1>0. ListTypeOK /\ Sound /\ Deep
  BY DEF ListInv, SwiStop
<1>1. /\ swi = "update" /\ list = <<>> /\ swi' = "stop"
      /\ ticking' = FALSE /\ rtcPend' = FALSE /\ compare' = None
      /\ UNCHANGED <<ring, list, running, restart, elapsed, latest, reset, head,
                     update, pre, rtc, due, swiPend, counter, clearing, busy, served,
                     cycle, left, misread>>
  BY DEF SwiStop, history
<1>2. /\ ~rtc /\ ~Covering /\ restart = <<>> /\ \A i \in DOMAIN ring : ring[i].op # "start"
      /\ DOMAIN list = {} /\ DOMAIN restart = {}
  BY <1>0, <1>1 DEF Deep, Turns, Clock
<1>3. Passed' = Passed /\ Rested' = Rested /\ Served' = Served /\ Line' = Line
  <2>1. Rested' = Rested /\ Served' = Served
    BY <1>1 DEF Rested, Served, Idle
  <2> QED
    BY <1>1, <2>1, LineSame
<1>4. DOMAIN left = {}
  BY <1>0, <1>2 DEF Deep, Lefts, InList, InRestart, InRing, StartWaits
<1>5. ListTypeOK'
  <2>1. {reset, update, rtc, swiPend, rtcPend, ticking, clearing, cycle, misread}' \subseteq BOOLEAN
    BY <1>0, <1>1 DEF ListTypeOK
  <2> QED
    BY <1>0, <1>1, <2>1 DEF ListTypeOK, Counters
<1>6. Turns' /\ Nodes' /\ Clock'
  BY <1>0, <1>1, <1>2 DEF Deep, Turns, Covering, Nodes, Clock, Injective, CoveredNodes
<1>7. NoWrap' /\ Armed' /\ Reading' /\ Covers'
  BY <1>1, <1>2 DEF NoWrap, Armed, Reading, Covers, Covering
<1>8. Requests'
  BY <1>1, <1>2 DEF Requests
<1>9. Lefts'
  BY <1>1, <1>4 DEF Lefts
<1>10. Pausing'
  BY <1>0, <1>1, <1>3, PausingFrame DEF Deep
<1> QED
  BY <1>5, <1>6, <1>7, <1>8, <1>9, <1>10 DEF Deep

(* ... and as it clears it. *)
LEMMA SwiClearKeeps ==
  ASSUME ListInv, SwiClear
  PROVE  ListTypeOK' /\ Deep'
<1>0. ListTypeOK /\ Sound /\ Deep
  BY DEF ListInv, SwiClear
<1>1. /\ swi = "stop" /\ swi' = "idle" /\ reset' = FALSE
      /\ counter' = 0 /\ latest' = 0 /\ clearing' = FALSE
      /\ UNCHANGED <<ring, list, running, restart, elapsed, head, update, pre, rtc, due,
                     swiPend, rtcPend, compare, ticking, busy, served, cycle, left,
                     misread>>
  BY DEF SwiClear, history
<1>2. /\ ~rtc /\ ~Covering /\ restart = <<>> /\ \A i \in DOMAIN ring : ring[i].op # "start"
      /\ list = <<>> /\ ~ticking /\ DOMAIN list = {} /\ DOMAIN restart = {}
  BY <1>0, <1>1 DEF Deep, Turns, Clock
<1>3. DOMAIN left = {}
  BY <1>0, <1>2 DEF Deep, Lefts, InList, InRestart, InRing, StartWaits
<1>4. ListTypeOK'
  <2>1. {reset, update, rtc, swiPend, rtcPend, ticking, clearing, cycle, misread}' \subseteq BOOLEAN
    BY <1>0, <1>1 DEF ListTypeOK
  <2>2. 0 \in Counters
    BY ConstantsType DEF Counters
  <2> QED
    BY <1>0, <1>1, <2>1, <2>2 DEF ListTypeOK, Counters
<1>5. Turns' /\ Nodes' /\ Clock'
  BY <1>0, <1>1, <1>2 DEF Deep, Turns, Covering, Nodes, Clock, Injective, CoveredNodes
<1>6. NoWrap' /\ Armed' /\ Reading' /\ Covers'
  BY <1>1, <1>2 DEF NoWrap, Armed, Reading, Covers, Covering
<1>7. Requests'
  BY <1>1, <1>2 DEF Requests
<1>8. Lefts'
  BY <1>1, <1>3 DEF Lefts
<1>9. Pausing'
  <2>1. ~Idle
    BY <1>1 DEF Idle
  <2> QED
    BY <1>0, <1>1, <1>2, <2>1, PausingLeaves DEF Deep
<1> QED
  BY <1>4, <1>5, <1>6, <1>7, <1>8, <1>9 DEF Deep

(* What follows for the timers from the place of each. *)

-----------------------------------------------------------------------------
(***************************************************************************)
(* Ticks.                                                                  *)
(***************************************************************************)
(* What requests hold. *)
LEMMA RequestTypes ==
  ASSUME ListTypeOK
  PROVE  /\ \A i \in DOMAIN restart :
              /\ restart[i].timer \in Repeating /\ restart[i].timer \in Timers
              /\ restart[i].at \in Counters
              /\ NewWait(restart[i].at, restart[i].timer) \in Nat
         /\ \A i \in DOMAIN ring :
              /\ ring[i].op \in {"start", "stop"} /\ ring[i].timer \in Timers
              /\ ring[i].op = "start" => ring[i].at \in Counters /\ Since(ring[i].at) \in Int
<1>1. latest \in Counters /\ ring \in Seq(RingOps) /\ restart \in Seq(Restarts)
  BY Basics
<1>2. ASSUME NEW i \in DOMAIN restart
      PROVE  /\ restart[i].timer \in Repeating /\ restart[i].timer \in Timers
             /\ restart[i].at \in Counters
             /\ NewWait(restart[i].at, restart[i].timer) \in Nat
  <2>1. restart[i] \in Restarts
    BY <1>1, ElementOfSeq
  <2>2. restart[i].timer \in Repeating /\ restart[i].at \in Counters
    BY <2>1 DEF Restarts
  <2>3. restart[i].timer \in Timers
    BY <2>2, TimerListAssumption
  <2> QED
    BY <1>1, <2>2, <2>3, SinceFacts
<1>3. ASSUME NEW i \in DOMAIN ring
      PROVE  /\ ring[i].op \in {"start", "stop"} /\ ring[i].timer \in Timers
             /\ ring[i].op = "start" => ring[i].at \in Counters /\ Since(ring[i].at) \in Int
  <2>1. ring[i] \in RingOps
    BY <1>1, ElementOfSeq
  <2>2. /\ ring[i].op \in {"start", "stop"} /\ ring[i].timer \in Timers
        /\ ring[i].op = "start" => ring[i].at \in Counters
    BY <2>1 DEF RingOps
  <2> QED
    BY <1>1, <2>2, SinceFacts
<1> QED
  BY <1>2, <1>3

(* A timer that is late by more than MaxLate is nowhere in the module. *)
LEMMA DeepOnTime ==
  ASSUME ListTypeOK, Deep
  PROVE  OnTime
<1> SUFFICES ASSUME NEW t \in DOMAIN left PROVE left[t] >= -MaxLate(t)
  BY DEF OnTime
<1>0. /\ left[t] \in Int /\ t \in Timers
      /\ Passed \in Nat /\ Rested \in Nat /\ Rested <= Slack /\ Line = Passed - Rested
  BY Basics DEF ListTypeOK
<1>1. /\ Slack \in Nat /\ Offsets \in Nat /\ Wait[t] \in Nat /\ Wait[t] <= Slack
      /\ MaxLate(t) = 2 * Wait[t] + Offsets + Slack /\ Interval[t] \in Nat
      /\ t \in Repeating => Interval[t] > Wait[t] + Offsets + Slack
  BY <1>0, ConstantsType, ConstantFacts DEF MaxLate
<1>2. CASE InList(t)
  <2>1. PICK i \in DOMAIN list :
          /\ list[i].timer = t
          /\ \/ t \in running /\ Within(D(i) - Passed - left[t])
             \/ t \in Repeating /\ Within(D(i) + Interval[t] - Passed - left[t])
    BY <1>2 DEF InList
  <2>2. /\ D(i) \in Nat /\ Allowed(i) \in Int /\ Allowed(i) <= Wait[t] + Offsets
        /\ Line <= D(i) + Allowed(i)
    BY <2>1, AllowedFacts, UniqueList DEF Deep, NoWrap
  <2>3. CASE t \in running /\ Within(D(i) - Passed - left[t])
    <3>1. D(i) - Passed - left[t] <= Slack
      BY <2>3 DEF Within
    <3>2. CASE Rested <= Wait[t]
      BY <1>0, <1>1, <2>2, <3>1, <3>2
    <3>3. CASE ~(Rested <= Wait[t])
      <4>1. t \in Served /\ Wait[t] < Slack
        BY <1>0, <1>1, <3>3 DEF Deep, Pausing
      <4>2. D(i) > Line + Slack
        BY <2>1, <2>3, <4>1 DEF Deep, Pausing
      <4> QED
        BY <1>0, <1>1, <2>2, <3>1, <4>2
    <3> QED
      BY <3>2, <3>3
  <2>4. CASE t \in Repeating /\ Within(D(i) + Interval[t] - Passed - left[t])
    <3>1. D(i) + Interval[t] - Passed - left[t] <= Slack
      BY <2>4 DEF Within
    <3> QED
      BY <1>0, <1>1, <2>2, <2>4, <3>1
  <2> QED
    BY <2>1, <2>3, <2>4
<1>3. CASE InRestart(t)
  <2>1. PICK i \in DOMAIN restart :
          restart[i].timer = t /\ Within(NewWait(restart[i].at, t) - Passed - left[t])
    BY <1>3 DEF InRestart
  <2> DEFINE n == NewWait(restart[i].at, t)
  <2>2. n \in Nat
    BY <2>1, RequestTypes
  <2>3. Line + Slack < n
    BY <2>1 DEF Deep, Requests
  <2>4. n - Passed - left[t] <= Slack
    BY <2>1 DEF Within
  <2> HIDE DEF n
  <2> QED
    BY <1>0, <1>1, <2>2, <2>3, <2>4
<1>4. CASE InRing(t)
  <2>1. left[t] >= Interval[t] - Rested
    BY <1>4 DEF InRing
  <2> QED
    BY <1>0, <1>1, <2>1
<1> QED
  BY <1>2, <1>3, <1>4 DEF Deep, Lefts

(* What a tick does to the distances. *)
LEMMA TickFacts ==
  ASSUME ListTypeOK, Sound, Deep, Tick
  PROVE  /\ Passed' = (IF Steady THEN Passed + 1 ELSE Passed)
         /\ Rested' = (IF Idle THEN 0 ELSE Rested + 1) /\ Rested' <= Slack
         /\ busy' \in 0..Slack /\ counter' \in Counters
         /\ Idle => ring = <<>> /\ restart = <<>> /\ swi = "idle" /\ ~Covering /\ ~clearing
                    /\ (ticking <=> list # <<>>) /\ Rested = 0 /\ (list # <<>> => Set)
         /\ Steady /\ ~rtcPend' /\ compare # None /\ Passed < Ahead => Passed + 1 < Ahead
         /\ ~clearing' /\ (clearing => latest = 0) /\ (~ticking /\ ~clearing => counter' = counter)
         /\ (clearing => counter' = 0)
<1>0. /\ Idle \/ busy < Slack
      /\ busy' = (IF Idle THEN 0 ELSE busy + 1)
      /\ counter' = IF clearing THEN 0
                    ELSE IF ticking THEN (counter + 1) % CounterSize ELSE counter
      /\ clearing' = FALSE
      /\ rtcPend' = (rtcPend \/ (ticking /\ counter' = compare))
      /\ UNCHANGED <<ring, list, restart, elapsed, latest, swi, rtc, swiPend, compare, ticking>>
  BY DEF Tick, codeVars
<1>1. /\ Passed \in Nat /\ Rested \in Nat /\ Line = Passed - Rested /\ Line \in Int
      /\ busy \in Nat /\ busy <= Slack /\ counter \in Counters /\ latest \in Counters
  BY Basics
<1>2. Idle => ring = <<>> /\ restart = <<>> /\ swi = "idle" /\ ~Covering /\ ~clearing
              /\ (ticking <=> list # <<>>) /\ Rested = 0 /\ (list # <<>> => Set)
  <2> SUFFICES ASSUME Idle
               PROVE ring = <<>> /\ restart = <<>> /\ swi = "idle" /\ ~Covering /\ ~clearing
                     /\ (ticking <=> list # <<>>) /\ Rested = 0 /\ (list # <<>> => Set)
    OBVIOUS
  <2>1. ~rtc /\ swi = "idle" /\ ~swiPend /\ ~rtcPend
    BY DEF Idle
  <2>2. ring = <<>> /\ restart = <<>> /\ ~Covering /\ ~clearing
    BY <2>1 DEF Deep, Turns
  <2>3. (ticking <=> list # <<>>) /\ (list # <<>> => Set)
    BY <2>1, <2>2 DEF Deep, Clock, Armed
  <2>4. Rested = 0
    BY DEF Rested
  <2> QED
    BY <2>1, <2>2, <2>3, <2>4
<1>3. ~Idle => Rested = busy
  BY DEF Rested
<1>4. Rested' = (IF Idle THEN 0 ELSE Rested + 1)
  <2>1. CASE Idle
    BY <1>0, <2>1 DEF Rested
  <2>2. CASE ~Idle
    <3>1. ~Idle'
      BY <1>0, <2>2 DEF Idle
    <3> QED
      BY <1>0, <1>3, <2>2, <3>1 DEF Rested
  <2> QED
    BY <2>1, <2>2
<1>5. Rested' <= Slack /\ busy' \in 0..Slack
  <2>1. CASE Idle
    BY <1>0, <1>4, <2>1, ConstantsType
  <2>2. CASE ~Idle
    <3>1. busy < Slack /\ busy' = busy + 1 /\ Rested' = busy + 1
      BY <1>0, <1>3, <1>4, <2>2
    <3>2. busy + 1 \in 0..Slack /\ busy + 1 <= Slack
      BY <1>1, <3>1, ConstantsType
    <3> QED
      BY <3>1, <3>2
  <2> QED
    BY <2>1, <2>2
<1>6. counter \in Int /\ 0 <= counter /\ counter < CounterSize /\ CounterSize \in Int /\ CounterSize >= 1
      /\ 0 \in Counters
  BY <1>1, CountersInt, ConstantsType DEF Counters
<1>7. counter' \in Counters
  <2>1. (counter + 1) % CounterSize \in Counters
    BY <1>6, WrapCases
  <2> QED
    BY <1>0, <1>1, <1>6, <2>1
<1>8. clearing => latest = 0
  BY DEF Deep, Turns
<1>9. CASE clearing
  <2>1. counter' = 0 /\ latest = 0
    BY <1>0, <1>8, <1>9
  <2>2. Diff(0, 0) = 0
    BY <1>6, DiffCases
  <2>3. Diff(counter', latest') = 0
    BY <1>0, <2>1, <2>2
  <2>4. Passed' = 0 /\ Passed = 0
    BY <1>0, <1>9, <2>3 DEF Passed, Diff
  <2> QED
    BY <1>0, <1>2, <1>4, <1>5, <1>7, <1>8, <1>9, <2>1, <2>4 DEF Steady
<1>10. CASE ~clearing /\ ~ticking
  <2>1. counter' = counter
    BY <1>0, <1>10
  <2>2. Passed' = Passed
    BY <1>0, <1>10, <2>1 DEF Passed, Diff
  <2> QED
    BY <1>0, <1>2, <1>4, <1>5, <1>7, <1>8, <1>10, <2>1, <2>2 DEF Steady
<1>11. CASE ~clearing /\ ticking
  <2>1. Passed + 1 < CounterSize
    <3>1. CASE Idle
      <4>1. Set /\ list # <<>>
        BY <1>2, <1>11, <3>1
      <4>2. Passed < CounterSize - 1 - Slack
        BY <4>1, NoWrapSet, UniqueList DEF Deep
      <4> QED
        BY <1>1, <1>6, <4>2, ConstantsType
    <3>2. CASE ~Idle
      <4>1. Line <= CounterSize - 1 - Slack
        BY <1>11 DEF Deep, NoWrap
      <4>2. Rested < Slack
        BY <1>0, <1>3, <3>2
      <4> QED
        BY <1>1, <1>6, <4>1, <4>2, ConstantsType
    <3> QED
      BY <3>1, <3>2
  <2>2. Passed = Diff(counter, latest)
    BY <1>11 DEF Passed
  <2>3. Diff((counter + 1) % CounterSize, latest) = Passed + 1
    <3> DEFINE n == (counter + 1) % CounterSize
               d == Diff(n, latest)
    <3>1. n \in Counters /\ (counter + 1 < CounterSize => n = counter + 1)
          /\ (CounterSize <= counter + 1 => n = counter + 1 - CounterSize)
      BY <1>6, WrapCases
    <3>2. (latest <= counter => Passed = counter - latest)
          /\ (counter < latest => Passed = (counter - latest) + CounterSize)
      BY <1>1, <2>2, DiffCases
    <3>3. (latest <= n => d = n - latest) /\ (n < latest => d = (n - latest) + CounterSize)
      BY <1>1, <3>1, DiffCases
    <3>4. latest \in Int /\ 0 <= latest /\ latest < CounterSize /\ n \in Int
      BY <1>1, <3>1, CountersInt
    <3> HIDE DEF n, d
    <3>5. d = Passed + 1
      BY <1>1, <1>6, <2>1, <3>1, <3>2, <3>3, <3>4
    <3> QED
      BY <3>5 DEF n, d
  <2>4. Passed' = Passed + 1
    <3>1. counter' = (counter + 1) % CounterSize
      BY <1>0, <1>11
    <3> QED
      BY <1>0, <2>3, <3>1 DEF Passed, Diff
  <2>5. ASSUME ~rtcPend', compare # None, Passed < Ahead PROVE Passed + 1 < Ahead
    <3>1. compare \in Counters
      BY <2>5 DEF ListTypeOK
    <3>2. Ahead \in Int
      BY <1>1, <3>1, DiffCases, CountersInt DEF Ahead
    <3>3. counter' # compare /\ counter' = (counter + 1) % CounterSize
      BY <1>0, <1>11, <2>5
    <3>4. Ahead # Passed + 1
      <4>1. SUFFICES ASSUME Ahead = Passed + 1 PROVE FALSE
        OBVIOUS
      <4>2. Diff(compare, latest) = Diff((counter + 1) % CounterSize, latest)
        BY <2>3, <4>1 DEF Ahead
      <4>3. (counter + 1) % CounterSize \in Counters
        BY <1>7, <3>3
      <4>4. compare = (counter + 1) % CounterSize
        BY <1>1, <3>1, <4>2, <4>3, DiffShift
      <4> QED
        BY <3>3, <4>4
    <3> QED
      BY <1>1, <2>5, <3>2, <3>4
  <2> QED
    BY <1>0, <1>2, <1>4, <1>5, <1>7, <1>8, <1>11, <2>4, <2>5 DEF Steady
<1> QED
  BY <1>9, <1>10, <1>11

(* A tick keeps the invariant. *)
LEMMA TickKeeps ==
  ASSUME ListInv, Tick
  PROVE  ListTypeOK' /\ Deep'
<1>0. ListTypeOK /\ Sound /\ Deep /\ OnTime
  BY DEF ListInv, Tick
<1>1. /\ clearing' = FALSE
      /\ rtcPend' = (rtcPend \/ (ticking /\ counter' = compare))
      /\ left' = [t \in DOMAIN left |->
                    IF left[t] > -(MaxLate(t) + 1) THEN left[t] - 1 ELSE left[t]]
      /\ UNCHANGED <<ring, list, running, restart, elapsed, latest, reset, swi, head,
                     update, pre, rtc, due, swiPend, compare, ticking, cycle, misread>>
      /\ served' = Served
  BY DEF Tick, codeVars
<1>2. /\ Passed' = (IF Steady THEN Passed + 1 ELSE Passed)
      /\ Rested' = (IF Idle THEN 0 ELSE Rested + 1) /\ Rested' <= Slack
      /\ busy' \in 0..Slack /\ counter' \in Counters
  BY <1>0, TickFacts
<1>3. Idle => ring = <<>> /\ restart = <<>> /\ swi = "idle" /\ ~Covering /\ ~clearing
              /\ (ticking <=> list # <<>>) /\ Rested = 0 /\ (list # <<>> => Set)
  BY <1>0, TickFacts
<1>4. /\ Steady /\ ~rtcPend' /\ compare # None /\ Passed < Ahead => Passed + 1 < Ahead
      /\ (clearing => latest = 0) /\ (~ticking /\ ~clearing => counter' = counter)
      /\ (clearing => counter' = 0)
  BY <1>0, TickFacts
<1>5. Passed \in Nat /\ Rested \in Nat /\ Line = Passed - Rested /\ Line \in Int /\ Rested <= Slack
  BY <1>0, Basics
<1>6. /\ Passed' \in Nat /\ Passed <= Passed' /\ Passed' <= Passed + 1 /\ Line' \in Int
      /\ Rested' \in Nat
      /\ Line' = Passed' - Rested'
      /\ ~Idle => Line' <= Line
      /\ Steady => Line <= Line'
      /\ Idle => Line' = Passed'
  <2> DEFINE x == Passed'
             y == Rested'
             z == Line'
  <2>1. x = (IF Steady THEN Passed + 1 ELSE Passed) /\ y = (IF Idle THEN 0 ELSE Rested + 1)
    BY <1>2
  <2>2. z = x - y
    BY DEF Line
  <2> HIDE DEF x, y, z
  <2>3. /\ x \in Nat /\ Passed <= x /\ x <= Passed + 1 /\ z \in Int /\ y \in Nat
        /\ ~Idle => z <= Line
        /\ Steady => Line <= z
        /\ Idle => z = x
    BY <1>3, <1>5, <2>1, <2>2
  <2> QED
    BY <2>2, <2>3 DEF x, y, z
<1>7. DOMAIN left' = DOMAIN left /\ \A u \in DOMAIN left : left'[u] = left[u] - 1
  <2>1. ASSUME NEW u \in DOMAIN left PROVE left[u] > -(MaxLate(u) + 1)
    <3>1. left[u] \in Int /\ left[u] >= -MaxLate(u)
      BY <1>0, Basics, <2>1 DEF OnTime
    <3>2. MaxLate(u) \in Nat
      BY <1>0, <2>1, ConstantsType DEF ListTypeOK
    <3> QED
      BY <3>1, <3>2
  <2> QED
    BY <1>1, <2>1
<1>8. ListTypeOK'
  <2>1. {reset, update, rtc, swiPend, rtcPend, ticking, clearing, cycle, misread}' \subseteq BOOLEAN
    <3>1. rtcPend' \in BOOLEAN
      BY <1>0, <1>1 DEF ListTypeOK
    <3> QED
      BY <1>0, <1>1, <3>1 DEF ListTypeOK
  <2>2. \A u \in DOMAIN left' : left'[u] \in -(MaxLate(u) + 1)..(2 * CounterSize)
    <3> SUFFICES ASSUME NEW u \in DOMAIN left PROVE left[u] - 1 \in -(MaxLate(u) + 1)..(2 * CounterSize)
      BY <1>7
    <3>1. left[u] \in Int /\ left[u] >= -MaxLate(u) /\ left[u] <= 2 * CounterSize
      BY <1>0, Basics DEF OnTime, ListTypeOK
    <3>2. MaxLate(u) \in Nat /\ CounterSize \in Nat
      BY <1>0, ConstantsType DEF ListTypeOK
    <3> QED
      BY <3>1, <3>2
  <2>3. DOMAIN left' \subseteq Timers
    BY <1>0, <1>7 DEF ListTypeOK
  <2>4. served' \subseteq Timers
    BY <1>0, <1>1 DEF ListTypeOK, Served
  <2> QED
    BY <1>0, <1>1, <1>2, <2>1, <2>2, <2>3, <2>4 DEF ListTypeOK, Counters
<1>9. Turns'
  BY <1>0, <1>1 DEF Deep, Turns, Covering
<1>10. Nodes'
  BY <1>0, <1>1, NodesFrame DEF Deep
<1>11. Clock'
  BY <1>0, <1>1, <1>4 DEF Deep, Clock, HeadOf
<1>12. \A i : D(i)' = D(i) /\ Allowed(i)' = Allowed(i)
  BY <1>1 DEF D, Allowed
<1>13. NoWrap'
  <2>1. CASE ~Idle
    <3>1. ticking => Line' <= CounterSize - 1 - Slack
      <4>1. ticking => Line <= CounterSize - 1 - Slack
        BY <1>0 DEF Deep, NoWrap
      <4> DEFINE z == Line'
      <4>2. z <= Line /\ z \in Int
        BY <1>6, <2>1
      <4> HIDE DEF z
      <4>3. ticking => z <= CounterSize - 1 - Slack
        BY <1>5, <4>1, <4>2, ConstantsType
      <4> QED
        BY <4>3 DEF z
    <3>2. \A i \in DOMAIN list : D(i) <= Longest /\ Line' <= D(i) + Allowed(i)
      <4> SUFFICES ASSUME NEW i \in DOMAIN list PROVE D(i) <= Longest /\ Line' <= D(i) + Allowed(i)
        OBVIOUS
      <4>1. D(i) <= Longest /\ Line <= D(i) + Allowed(i)
        BY <1>0 DEF Deep, NoWrap
      <4>2. D(i) \in Nat /\ Allowed(i) \in Int
        BY <1>0, AllowedFacts, UniqueList
      <4> DEFINE z == Line'
      <4>3. z <= Line /\ z \in Int
        BY <1>6, <2>1
      <4> HIDE DEF z
      <4>4. z <= D(i) + Allowed(i)
        BY <1>5, <4>1, <4>2, <4>3
      <4> QED
        BY <4>1, <4>4 DEF z
    <3>3. (ticking => Line <= CounterSize - 1 - Slack)'
      BY <1>1, <3>1
    <3>4. (\A i \in DOMAIN list : D(i) <= Longest /\ Line <= D(i) + Allowed(i))'
      BY <1>1, <1>12, <3>2
    <3> QED
      BY <3>3, <3>4 DEF NoWrap
  <2>2. CASE Idle
    <3>0. Line' <= Passed + 1
      BY <1>6, <2>2
    <3>1. ticking => Line' <= CounterSize - 1 - Slack
      <4> SUFFICES ASSUME ticking PROVE Line' <= CounterSize - 1 - Slack
        OBVIOUS
      <4>1. list # <<>> /\ Set
        BY <1>3, <2>2
      <4>2. Passed < CounterSize - 1 - Slack
        BY <1>0, <4>1, NoWrapSet, UniqueList DEF Deep
      <4> DEFINE z == Line'
      <4>3. z <= Passed + 1 /\ z \in Int
        BY <1>6, <3>0
      <4> HIDE DEF z
      <4>4. z <= CounterSize - 1 - Slack
        BY <1>5, <4>2, <4>3, ConstantsType
      <4> QED
        BY <4>4 DEF z
    <3>2. \A i \in DOMAIN list : D(i) <= Longest /\ Line' <= D(i) + Allowed(i)
      <4> SUFFICES ASSUME NEW i \in DOMAIN list PROVE D(i) <= Longest /\ Line' <= D(i) + Allowed(i)
        OBVIOUS
      <4>0. list # <<>>
        BY <1>0, Basics
      <4>1. Set
        BY <1>3, <2>2, <4>0
      <4>2. D(i) <= Longest
        BY <1>0 DEF Deep, NoWrap
      <4>3. Passed < Ahead /\ Ahead <= D(i) + Allowed(i)
        BY <4>1 DEF Set
      <4>4. D(i) \in Nat /\ Allowed(i) \in Int
        BY <1>0, AllowedFacts, UniqueList
      <4>5. Ahead \in Nat
        BY <1>0, <4>0, <4>1, NoWrapSet, UniqueList DEF Deep
      <4> DEFINE z == Line'
      <4>6. z <= Passed + 1 /\ z \in Int
        BY <1>6, <3>0
      <4> HIDE DEF z
      <4>7. z <= D(i) + Allowed(i)
        BY <1>5, <4>3, <4>4, <4>5, <4>6
      <4> QED
        BY <4>2, <4>7 DEF z
    <3>3. (ticking => Line <= CounterSize - 1 - Slack)'
      BY <1>1, <3>1
    <3>4. (\A i \in DOMAIN list : D(i) <= Longest /\ Line <= D(i) + Allowed(i))'
      BY <1>1, <1>12, <3>2
    <3> QED
      BY <3>3, <3>4 DEF NoWrap
  <2> QED
    BY <2>1, <2>2
<1>14. Ahead' = Ahead /\ Aim' = Aim /\ Target' = Target /\ HeadKept' = HeadKept
       /\ Covering' = Covering
  BY <1>1, <1>12 DEF Ahead, Aim, Target, HeadKept, HeadOf, Diff, Covering
<1>15. ASSUME Set, Steady, ~rtcPend', list # <<>> PROVE Set'
  <2>1. Ahead \in Nat
    BY <1>0, <1>15, NoWrapSet, UniqueList DEF Deep
  <2>2. Passed' < Ahead
    BY <1>2, <1>4, <1>15 DEF Set
  <2>3. Ahead <= D(1) \/ Ahead <= Passed' + CompareOffset
    <3>1. CASE Ahead <= D(1)
      BY <3>1
    <3>2. CASE Ahead <= Passed + CompareOffset
      <4> DEFINE z == Passed'
      <4>1. Passed <= z /\ z \in Int /\ CompareOffset \in Nat
        BY <1>6, ConstantsType
      <4> HIDE DEF z
      <4>2. Ahead <= z + CompareOffset
        BY <1>5, <2>1, <3>2, <4>1
      <4> QED
        BY <4>2 DEF z
    <3> QED
      BY <1>15, <3>1, <3>2 DEF Set
  <2> QED
    BY <1>1, <1>12, <1>14, <1>15, <2>2, <2>3 DEF Set
<1>16. ASSUME Unset, ~Idle, ~rtcPend' PROVE Unset'
  <2> SUFFICES ASSUME NEW i \in DOMAIN list
               PROVE \/ Line' < D(i)
                     \/ /\ compare # None
                        /\ Passed' < Ahead
                        /\ Ahead + (CompareOffset - 1) <= D(i) + Allowed(i)
    BY <1>1, <1>12, <1>14 DEF Unset
  <2>1. CASE Line < D(i)
    <3>1. D(i) \in Nat
      BY <1>0, AllowedFacts, UniqueList
    <3> DEFINE z == Line'
    <3>2. z <= Line /\ z \in Int
      BY <1>6, <1>16
    <3> HIDE DEF z
    <3>3. z < D(i)
      BY <1>5, <2>1, <3>1, <3>2
    <3> QED
      BY <3>3 DEF z
  <2>2. CASE compare # None /\ Passed < Ahead /\ Ahead + (CompareOffset - 1) <= D(i) + Allowed(i)
    <3>1. Passed' < Ahead
      BY <1>2, <1>4, <1>16, <2>2
    <3> QED
      BY <2>2, <3>1
  <2> QED
    BY <1>16, <2>1, <2>2 DEF Unset
<1>17. Armed'
  <2> SUFFICES ASSUME list # <<>>, ~rtcPend'
               PROVE  /\ swi = "idle" /\ ~Covering => Set'
                      /\ swi = "insert" /\ HeadKept => Set'
                      /\ swi = "insert" /\ ~HeadKept => Unset'
                      /\ swi = "update" => Unset'
                      /\ swi \in {"set", "check"} => \A i \in DOMAIN list : (Aim <= D(i) + Allowed(i))'
                      /\ swi = "check" => (compare = Target \/ (compare = None /\ Aim <= Passed + 1))'
    BY <1>1, <1>14 DEF Armed
  <2>1. ~rtcPend
    BY <1>1
  <2>2. ASSUME swi = "idle", ~Covering PROVE Set'
    <3>1. Set /\ ticking /\ ~clearing
      BY <1>0, <2>1, <2>2 DEF Deep, Armed, Clock, Turns
    <3> QED
      BY <1>15, <3>1 DEF Steady
  <2>3. ASSUME swi = "insert", HeadKept PROVE Set'
    <3>1. Set /\ ticking /\ ~clearing
      BY <1>0, <2>1, <2>3 DEF Deep, Armed, Clock, Turns, HeadKept
    <3> QED
      BY <1>15, <3>1 DEF Steady
  <2>4. ASSUME swi = "update" \/ (swi = "insert" /\ ~HeadKept) PROVE Unset'
    <3>1. Unset /\ ~Idle
      BY <1>0, <2>1, <2>4 DEF Deep, Armed, Idle
    <3> QED
      BY <1>16, <3>1
  <2>5. ASSUME swi \in {"set", "check"}
        PROVE  \A i \in DOMAIN list : (Aim <= D(i) + Allowed(i))'
    <3>1. \A i \in DOMAIN list : Aim <= D(i) + Allowed(i)
      BY <1>0, <2>1, <2>5 DEF Deep, Armed
    <3> QED
      BY <1>12, <1>14, <3>1
  <2>6. ASSUME swi = "check"
        PROVE  (compare = Target \/ (compare = None /\ Aim <= Passed + 1))'
    <3>1. compare = Target \/ (compare = None /\ Aim <= Passed + 1)
      BY <1>0, <2>1, <2>6 DEF Deep, Armed
    <3>2. Aim \in Nat
      BY <1>0, <2>1, <2>6, AimFacts
    <3>3. Aim <= Passed + 1 => Aim <= Passed' + 1
      <4> DEFINE x == Passed'
      <4>1. x \in Nat /\ Passed <= x
        BY <1>6
      <4> HIDE DEF x
      <4>2. Aim <= Passed + 1 => Aim <= x + 1
        BY <1>5, <3>2, <4>1
      <4> QED
        BY <4>2 DEF x
    <3> QED
      BY <1>1, <1>14, <3>1, <3>3
  <2> QED
    BY <2>2, <2>3, <2>4, <2>5, <2>6
<1>18. Reading'
  <2> SUFFICES ASSUME swi \in {"set", "check"} PROVE Diff(pre, latest) <= Passed'
    BY <1>1 DEF Reading, Diff
  <2>1. Diff(pre, latest) <= Passed /\ Diff(pre, latest) \in Int
    BY <1>0, DiffCases, CountersInt DEF Deep, Reading, ListTypeOK
  <2> DEFINE x == Passed'
             p == Diff(pre, latest)
  <2>2. x \in Nat /\ Passed <= x
    BY <1>6
  <2> HIDE DEF x, p
  <2>3. p <= x
    BY <1>5, <2>1, <2>2 DEF p
  <2> QED
    BY <2>3 DEF x, p
<1>19. Covers'
  <2> SUFFICES ASSUME Covering
               PROVE  /\ list # <<>> /\ 0 <= elapsed /\ elapsed <= Passed'
                      /\ elapsed = D(Covered(list, elapsed))
                      /\ \A i \in DOMAIN list : i > Covered(list, elapsed) => Line' < D(i)
    BY <1>1, <1>12, <1>14 DEF Covers
  <2>1. /\ list # <<>> /\ 0 <= elapsed /\ elapsed <= Passed
        /\ elapsed = D(Covered(list, elapsed))
        /\ \A i \in DOMAIN list : i > Covered(list, elapsed) => Line < D(i)
    BY <1>0 DEF Deep, Covers
  <2>2. elapsed \in Int
    BY <1>0, CountersInt DEF Covering, ListTypeOK
  <2>3. ~Idle
    BY <1>3
  <2> DEFINE x == Passed'
             z == Line'
  <2>4. x \in Nat /\ Passed <= x /\ z \in Int /\ z <= Line
    BY <1>6, <2>3
  <2> HIDE DEF x, z
  <2>5. elapsed <= x
    BY <1>5, <2>1, <2>2, <2>4
  <2>6. ASSUME NEW i \in DOMAIN list, i > Covered(list, elapsed) PROVE z < D(i)
    <3>1. D(i) \in Nat /\ Line < D(i)
      BY <1>0, <2>1, <2>6, AllowedFacts, UniqueList
    <3> QED
      BY <1>5, <2>4, <3>1
  <2> QED
    BY <2>1, <2>5, <2>6 DEF x, z
<1>20. \A at : Since(at)' = Since(at) /\ \A u : NewWait(at, u)' = NewWait(at, u)
  BY <1>1 DEF Since, NewWait, ToExpire, Diff
<1>21. Requests'
  <2> DEFINE x == Passed'
             z == Line'
  <2>0. x \in Nat /\ Passed <= x /\ z \in Int /\ (~Idle => z <= Line)
    BY <1>6
  <2> HIDE DEF x, z
  <2>1. ASSUME NEW i \in DOMAIN ring, ring[i].op = "start"
        PROVE \/ swi = "insert" /\ reset
              \/ /\ z <= Since(ring[i].at) /\ Since(ring[i].at) <= x
                 /\ swi # "insert" => Since(ring[i].at) >= 0
    <3>1. ~Idle
      BY <1>0, <1>3, <2>1, Basics
    <3>2. Since(ring[i].at) \in Int
      BY <1>0, <2>1, RequestTypes
    <3>3. CASE swi = "insert" /\ reset
      BY <3>3
    <3>4. CASE /\ Line <= Since(ring[i].at) /\ Since(ring[i].at) <= Passed
               /\ swi # "insert" => Since(ring[i].at) >= 0
      BY <1>5, <2>0, <3>1, <3>2, <3>4
    <3> QED
      BY <1>0, <2>1, <3>3, <3>4 DEF Deep, Requests
  <2>2. ASSUME swi = "insert", reset PROVE z <= 0
    <3>1. Line <= 0 /\ ~Idle
      BY <1>0, <2>2 DEF Deep, Requests, Idle
    <3> QED
      BY <1>5, <2>0, <3>1
  <2>3. ASSUME NEW i \in DOMAIN restart
        PROVE  /\ z + Slack < NewWait(restart[i].at, restart[i].timer)
               /\ NewWait(restart[i].at, restart[i].timer) <= Longest
    <3>1. ~Idle
      BY <1>0, <1>3, <2>3, Basics
    <3>2. NewWait(restart[i].at, restart[i].timer) \in Nat
      BY <1>0, <2>3, RequestTypes
    <3>3. /\ Line + Slack < NewWait(restart[i].at, restart[i].timer)
          /\ NewWait(restart[i].at, restart[i].timer) <= Longest
      BY <1>0, <2>3 DEF Deep, Requests
    <3>4. Slack \in Nat
      BY ConstantsType
    <3> QED
      BY <1>5, <2>0, <3>1, <3>2, <3>3, <3>4
  <2> QED
    BY <1>1, <1>20, <2>1, <2>2, <2>3 DEF Requests, x, z
<1>22. Lefts'
  <2> SUFFICES ASSUME NEW u \in DOMAIN left PROVE InList(u)' \/ InRestart(u)' \/ InRing(u)'
    BY <1>7 DEF Lefts
  <2>0. left'[u] = left[u] - 1 /\ left[u] \in Int /\ u \in Timers
    BY <1>0, <1>7, Basics DEF ListTypeOK
  <2>1. (StopWaits(u)' <=> StopWaits(u)) /\ (StartWaits(u)' <=> StartWaits(u))
    BY <1>1 DEF StopWaits, StartWaits
  <2> DEFINE Late(e) == e >= 0 /\ e <= Slack /\ (Steady' \/ e <= Rested')
  <2>2. ASSUME NEW n \in Int, Within(n - Passed - left[u]), list # <<>> \/ restart # <<>>
        PROVE  Late(n - Passed' - left'[u])
    <3> DEFINE e == n - Passed - left[u]
               f == n - Passed' - left'[u]
    <3>1. e \in Int /\ e >= 0 /\ e <= Slack /\ (Steady \/ e <= Rested)
      BY <1>5, <2>0, <2>2 DEF Within
    <3>2. CASE Steady
      <4>1. f = e
        <5> DEFINE x == Passed'
        <5>1. x = Passed + 1
          BY <1>2, <3>2
        <5> HIDE DEF x
        <5>2. n - x - (left[u] - 1) = n - Passed - left[u]
          BY <1>5, <2>0, <5>1
        <5> QED
          BY <2>0, <5>2 DEF x
      <4>2. Steady'
        BY <1>1, <3>2 DEF Steady
      <4> HIDE DEF e
      <4> QED
        BY <3>1, <4>1, <4>2
    <3>3. CASE ~Steady
      <4>1. ~Idle
        BY <1>3, <2>2, <3>3 DEF Steady
      <4>2. Rested' = Rested + 1 /\ Passed' = Passed
        BY <1>2, <3>3, <4>1
      <4>3. f = e + 1
        <5>1. n - Passed - (left[u] - 1) = n - Passed - left[u] + 1
          BY <1>5, <2>0
        <5> QED
          BY <2>0, <4>2, <5>1
      <4> HIDE DEF e, f
      <4>5. e + 1 >= 0 /\ e + 1 <= Rested + 1 /\ Rested + 1 <= Slack
        BY <1>2, <1>5, <3>1, <3>3, <4>2
      <4>6. e + 1 <= Slack
        BY <1>5, <3>1, <4>5, ConstantsType
      <4> QED
        BY <4>2, <4>3, <4>5, <4>6 DEF f
    <3> QED
      BY <3>2, <3>3
  <2>3. CASE InList(u)
    <3>1. PICK i \in DOMAIN list :
            /\ list[i].timer = u
            /\ \/ u \in running /\ Within(D(i) - Passed - left[u])
               \/ /\ u \notin running /\ u \in Repeating
                  /\ Covering /\ i <= Covered(list, elapsed)
                  /\ Within(D(i) + Interval[u] - Passed - left[u])
      BY <2>3 DEF InList
    <3>2. D(i) \in Int /\ D(i) + Interval[u] \in Int /\ list # <<>>
      <4>1. D(i) \in Nat /\ Interval[u] \in Nat
        BY <1>0, <2>0, AllowedFacts, UniqueList, ConstantsType
      <4>2. list # <<>>
        BY <1>0, Basics
      <4> QED
        BY <4>1, <4>2
    <3>3. /\ Within(D(i) - Passed - left[u]) => Late(D(i) - Passed' - left'[u])
          /\ Within(D(i) + Interval[u] - Passed - left[u]) =>
               Late(D(i) + Interval[u] - Passed' - left'[u])
      <4> HIDE DEF Late
      <4>2. Within(D(i) - Passed - left[u]) => Late(D(i) - Passed' - left'[u])
        BY <2>2, <3>2
      <4>3. Within(D(i) + Interval[u] - Passed - left[u])
              => Late(D(i) + Interval[u] - Passed' - left'[u])
        <5>1. PICK m \in Int : m = D(i) + Interval[u]
          BY <3>2
        <5>2. Within(m - Passed - left[u]) => Late(m - Passed' - left'[u])
          BY <2>2, <3>2
        <5> QED
          <6> DEFINE d == D(i)
                     k == Interval[u]
                     l == left[u]
                     x == Passed'
          <6>0. d \in Int /\ k \in Int /\ l \in Int /\ x \in Int /\ m = d + k
            BY <1>6, <2>0, <3>2, <5>1, ConstantsType
          <6> HIDE DEF d, k, l, x
          <6>a. d + k - Passed - l = m - Passed - l
            BY <1>5, <6>0
          <6>b. d + k - x - (l - 1) = m - x - (l - 1)
            BY <6>0
          <6>1. D(i) + Interval[u] - Passed - left[u] = m - Passed - left[u]
            BY <6>a DEF d, k, l
          <6>2. D(i) + Interval[u] - Passed' - left'[u] = m - Passed' - left'[u]
            BY <2>0, <6>b DEF d, k, l, x
          <6> QED
            BY <5>2, <6>1, <6>2
      <4> QED
        BY <4>2, <4>3
    <3>a. /\ Within(D(i) - Passed - left[u]) => Within(D(i) - Passed - left[u])'
          /\ Within(D(i) + Interval[u] - Passed - left[u]) =>
               Within(D(i) + Interval[u] - Passed - left[u])'
      BY <1>12, <3>3 DEF Within
    <3>4. InList(u)'
      BY <1>1, <1>14, <2>1, <2>3, <3>1, <3>a DEF InList
    <3> QED
      BY <3>4
  <2>4. CASE InRestart(u)
    <3>1. PICK i \in DOMAIN restart :
            restart[i].timer = u /\ Within(NewWait(restart[i].at, u) - Passed - left[u])
      BY <2>4 DEF InRestart
    <3>2. NewWait(restart[i].at, u) \in Int /\ restart # <<>>
      BY <1>0, <3>1, RequestTypes, Basics
    <3>3. Within(NewWait(restart[i].at, u) - Passed - left[u])'
      <4>1. Late(NewWait(restart[i].at, u) - Passed' - left'[u])
        BY <2>2, <3>1, <3>2
      <4> QED
        BY <1>1, <1>20, <4>1 DEF Within
    <3>4. InRestart(u)'
      BY <1>1, <2>1, <2>4, <3>1, <3>3 DEF InRestart
    <3> QED
      BY <3>4
  <2>5. CASE InRing(u)
    <3>1. ring # <<>> /\ ~Idle
      BY <1>3, <2>5 DEF InRing, StartWaits
    <3>2. NodesOf(list)' = NodesOf(list)
      BY <1>1 DEF NodesOf
    <3> DEFINE x == Passed'
               y == Rested'
    <3>3. x \in Nat /\ x <= Passed + 1 /\ y = Rested + 1 /\ Interval[u] \in Int
      BY <1>2, <1>6, <2>0, <3>1, ConstantsType
    <3> HIDE DEF x, y
    <3>4. left[u] - 1 >= Interval[u] - y
      BY <1>5, <2>0, <2>5, <3>3 DEF InRing
    <3>5. ASSUME NEW i \in DOMAIN ring, ring[i].op = "start", ring[i].timer = u
          PROVE  left[u] - 1 <= Interval[u] - x
                   + (IF swi = "insert" /\ reset THEN 0 ELSE Since(ring[i].at))
      <4> DEFINE s == IF swi = "insert" /\ reset THEN 0 ELSE Since(ring[i].at)
      <4>1. left[u] <= Interval[u] - Passed + s
        BY <2>5, <3>5 DEF InRing
      <4>2. s \in Int
        BY <1>0, <3>5, RequestTypes
      <4> HIDE DEF s
      <4>3. left[u] - 1 <= Interval[u] - x + s
        BY <1>5, <2>0, <3>3, <4>1, <4>2
      <4> QED
        BY <4>3 DEF s
    <3>6. InRing(u)'
      BY <1>1, <1>20, <2>0, <2>1, <2>5, <3>2, <3>4, <3>5 DEF InRing, CoveredNodes, x, y
    <3> QED
      BY <3>6
  <2> QED
    BY <1>0, <2>3, <2>4, <2>5 DEF Deep, Lefts
<1>23. Pausing'
  <2>1. CASE Idle
    <3>1. Rested' = 0 /\ Served' = {}
      BY <1>1, <1>2, <2>1 DEF Served
    <3>2. \A t \in Timers : 0 <= Wait[t]
      BY ConstantsType
    <3> QED
      BY <3>1, <3>2 DEF Pausing
  <2>2. CASE ~Idle
    <3>1. ~Idle' /\ Served = served /\ Served' = served
      BY <1>1, <2>2 DEF Served, Idle
    <3>2. ASSUME NEW t \in Timers \ served PROVE Rested' <= Wait[t]
      <4>1. busy < Wait[t] /\ Rested' = Rested + 1 /\ Rested = busy
        BY <1>2, <2>2, <3>2 DEF Tick, Rested
      <4>2. Rested + 1 <= Wait[t]
        BY <1>5, <4>1, ConstantsType
      <4> QED
        BY <4>1, <4>2
    <3>3. ASSUME NEW i \in DOMAIN list, D(i) > Line + Slack PROVE D(i) > Line' + Slack
      <4> DEFINE z == Line'
      <4>1. z <= Line /\ z \in Int /\ D(i) \in Nat /\ Slack \in Nat
        BY <1>0, <1>6, <2>2, AllowedFacts, UniqueList, ConstantsType
      <4> HIDE DEF z
      <4>2. D(i) > z + Slack
        BY <1>5, <3>3, <4>1
      <4> QED
        BY <4>2 DEF z
    <3>4. \A i \in DOMAIN list :
            list[i].timer \in served /\ Wait[list[i].timer] < Slack =>
              \/ Covering /\ i <= Covered(list, elapsed) /\ list[i].timer \notin running
              \/ D(i) > Line + Slack
      BY <1>0, <3>1 DEF Deep, Pausing
    <3> QED
      BY <1>1, <1>12, <1>14, <3>1, <3>2, <3>3, <3>4 DEF Pausing
  <2> QED
    BY <2>1, <2>2
<1> QED
  BY <1>8, <1>9, <1>10, <1>11, <1>13, <1>17, <1>18, <1>19, <1>21, <1>22, <1>23 DEF Deep

-----------------------------------------------------------------------------
(***************************************************************************)
(* SWI0: list_insertions_handler.                                          *)
(***************************************************************************)
(* Where the nodes are after an insertion: b of them before the new one. *)
Inserts(b, t, n) ==
  /\ list' \in NodeSeq /\ Len(list') = Len(list) + 1
  /\ b \in 0..Len(list)
  /\ \A i \in 1..Len(list) : i <= b <=> D(i) < n
  /\ b + 1 \in DOMAIN list' /\ list'[b + 1].timer = t /\ Until(list', b + 1) = n
  /\ \A i \in 1..Len(list) :
       /\ i <= b => /\ i \in DOMAIN list' /\ list'[i].timer = list[i].timer
                    /\ Until(list', i) = D(i)
       /\ ~(i <= b) => /\ i + 1 \in DOMAIN list' /\ list'[i + 1].timer = list[i].timer
                       /\ Until(list', i + 1) = D(i)
  /\ \A j \in DOMAIN list' : \/ j \in 1..b /\ j \in 1..Len(list)
                             \/ j = b + 1
                             \/ j > b + 1 /\ j - 1 \in 1..Len(list) /\ ~(j - 1 <= b)

(* timer_list_insert puts the node somewhere, and keeps the times of the   *)
(* others.                                                                 *)
LEMMA InsertsExists ==
  ASSUME ListTypeOK, NEW t \in Timers, NEW n \in Nat, list' = Inserted(list, t, n)
  PROVE  \E b : Inserts(b, t, n)
<1>1. list \in NodeSeq /\ Len(list) \in Nat /\ DOMAIN list = 1..Len(list)
  BY Basics
<1>2. Inserted(list, t, n) \in NodeSeq /\ Len(Inserted(list, t, n)) = Len(list) + 1
  BY <1>1, InsertedDef
<1>3. PICK b \in 0..Len(list) :
        /\ \A i \in 1..Len(list) : i <= b <=> Until(list, i) < n
        /\ Inserted(list, t, n)[b + 1].timer = t /\ Until(Inserted(list, t, n), b + 1) = n
        /\ \A i \in 1..Len(list) :
             LET k == IF i <= b THEN i ELSE i + 1
             IN  Inserted(list, t, n)[k].timer = list[i].timer
                 /\ Until(Inserted(list, t, n), k) = Until(list, i)
  BY <1>1, InsertedDef
<1>4. list' \in NodeSeq /\ Len(list') = Len(list) + 1 /\ DOMAIN list' = 1..(Len(list) + 1)
  BY <1>1, <1>2, NodeSeqType
<1>5. b + 1 \in 1..(Len(list) + 1)
      /\ \A i \in 1..Len(list) : i \in 1..(Len(list) + 1) /\ i + 1 \in 1..(Len(list) + 1)
  BY <1>1
<1>6. \A j \in 1..(Len(list) + 1) : \/ j \in 1..b /\ j \in 1..Len(list)
                                    \/ j = b + 1
                                    \/ j > b + 1 /\ j - 1 \in 1..Len(list) /\ ~(j - 1 <= b)
  BY <1>1
<1>7. /\ list'[b + 1].timer = t /\ Until(list', b + 1) = n
      /\ \A i \in 1..Len(list) :
           /\ i <= b => list'[i].timer = list[i].timer /\ Until(list', i) = D(i)
           /\ ~(i <= b) => list'[i + 1].timer = list[i].timer /\ Until(list', i + 1) = D(i)
  BY <1>3 DEF D
<1>8. \A i \in 1..Len(list) : i <= b <=> D(i) < n
  BY <1>3 DEF D
<1>9. Inserts(b, t, n)
  BY <1>4, <1>5, <1>6, <1>7, <1>8 DEF Inserts
<1> QED
  BY <1>9

(* The list has its type after an insertion. *)
LEMMA InsertType ==
  ASSUME ListTypeOK, Deep, NEW t \in Timers, NEW n \in Nat, n <= 2 * CounterSize,
         list' = Inserted(list, t, n)
  PROVE  list' \in Seq([timer : Timers, wait : 0..(2 * CounterSize)])
<1>1. PICK b : Inserts(b, t, n)
  BY InsertsExists
<1>2. list' \in NodeSeq
  BY <1>1 DEF Inserts
<1>3. \A i \in DOMAIN list : D(i) <= 2 * CounterSize
  <2> SUFFICES ASSUME NEW i \in DOMAIN list PROVE D(i) <= 2 * CounterSize
    OBVIOUS
  <2>1. D(i) \in Nat
    BY AllowedFacts, UniqueList
  <2>2. D(i) <= Longest /\ Longest <= CounterSize /\ Longest \in Int
    BY ConstantsType DEF Deep, NoWrap, Longest
  <2> QED
    BY <2>1, <2>2, ConstantsType
<1>4. \A j \in 1..Len(list') : Until(list', j) <= 2 * CounterSize
  <2> SUFFICES ASSUME NEW j \in 1..Len(list') PROVE Until(list', j) <= 2 * CounterSize
    OBVIOUS
  <2>0. DOMAIN list' = 1..Len(list') /\ DOMAIN list = 1..Len(list) /\ Len(list) \in Nat
    BY <1>2, NodeSeqType, Basics
  <2>1. CASE j \in 1..b /\ j \in 1..Len(list)
    BY <1>1, <1>3, <2>0, <2>1 DEF Inserts
  <2>2. CASE j = b + 1
    BY <1>1, <2>2 DEF Inserts
  <2>3. CASE j > b + 1 /\ j - 1 \in 1..Len(list) /\ ~(j - 1 <= b)
    <3>1. Until(list', j - 1 + 1) = D(j - 1)
      BY <1>1, <2>3 DEF Inserts
    <3>2. j - 1 + 1 = j
      OBVIOUS
    <3> QED
      BY <1>3, <2>0, <2>3, <3>1, <3>2
  <2> QED
    BY <1>1, <2>0, <2>1, <2>2, <2>3 DEF Inserts
<1> QED
  BY <1>2, <1>4, WaitsBounded

(* An insertion ahead of the line, of a node that is not in the list.      *)
LEMMA InsertKeeps ==
  ASSUME ListTypeOK, Deep, swi = "insert", NEW t \in Timers, NEW n \in Nat, Line < n, n <= Longest,
         Wait[t] < Slack => Line + Slack < n,
         t \notin NodesOf(list), list' = Inserted(list, t, n),
         UNCHANGED <<elapsed, latest, reset, swi, head, update, pre, rtc, due, swiPend,
                     rtcPend, counter, compare, ticking, clearing, busy, served>>
  PROVE  /\ Passed' = Passed /\ Rested' = Rested /\ Line' = Line
         /\ NoWrap' /\ Armed' /\ Unique(list') /\ Pausing'
         /\ NodesOf(list') = NodesOf(list) \cup {t}
         /\ ~update /\ HeadOf(list') = head => ticking /\ list' # <<>>
         /\ \E j \in DOMAIN list' : list'[j].timer = t /\ Until(list', j) = n
         /\ \A i \in DOMAIN list : \E j \in DOMAIN list' :
              list'[j].timer = list[i].timer /\ Until(list', j) = D(i)
<1>1. PICK b : Inserts(b, t, n)
  BY InsertsExists
<1>2. list' \in NodeSeq /\ DOMAIN list' = 1..Len(list') /\ Len(list') = Len(list) + 1
      /\ DOMAIN list = 1..Len(list) /\ Len(list) \in Nat /\ b \in 0..Len(list)
  BY <1>1, NodeSeqType, Basics DEF Inserts
<1>3. Passed' = Passed /\ Rested' = Rested /\ Served' = Served /\ Line' = Line
  <2>1. Rested' = Rested /\ Served' = Served
    BY DEF Rested, Served, Idle
  <2> QED
    BY <2>1, LineSame
<1>4. Passed \in Nat /\ Rested \in Nat /\ Line = Passed - Rested /\ Line \in Int
  BY Basics
<1>5. ASSUME NEW i \in DOMAIN list
      PROVE  /\ i <= b => /\ i \in DOMAIN list' /\ list'[i].timer = list[i].timer
                          /\ Until(list', i) = D(i)
             /\ ~(i <= b) => /\ i + 1 \in DOMAIN list' /\ list'[i + 1].timer = list[i].timer
                             /\ Until(list', i + 1) = D(i)
             /\ i <= b <=> D(i) < n
             /\ D(i) \in Nat /\ D(i) <= Longest
  BY <1>1, <1>2, AllowedFacts, UniqueList DEF Inserts, Deep, NoWrap
<1>6. b + 1 \in DOMAIN list' /\ list'[b + 1].timer = t /\ Until(list', b + 1) = n
  BY <1>1 DEF Inserts
<1>7. ASSUME NEW j \in DOMAIN list'
      PROVE  \/ /\ j <= b /\ j \in DOMAIN list /\ list'[j].timer = list[j].timer
                /\ Until(list', j) = D(j)
             \/ j = b + 1
             \/ /\ j > b + 1 /\ j - 1 \in DOMAIN list /\ list'[j].timer = list[j - 1].timer
                /\ Until(list', j) = D(j - 1) /\ D(j - 1) >= n
  <2>1. CASE j \in 1..b /\ j \in 1..Len(list)
    BY <1>2, <1>5, <2>1
  <2>2. CASE j > b + 1 /\ j - 1 \in 1..Len(list) /\ ~(j - 1 <= b)
    <3>1. list'[j - 1 + 1].timer = list[j - 1].timer /\ Until(list', j - 1 + 1) = D(j - 1)
          /\ ~(D(j - 1) < n) /\ D(j - 1) \in Nat
      BY <1>2, <1>5, <2>2
    <3>2. j - 1 + 1 = j
      BY <1>2
    <3>3. D(j - 1) >= n
      BY <3>1
    <3> QED
      BY <1>2, <2>2, <3>1, <3>2, <3>3
  <2> QED
    BY <1>1, <2>1, <2>2 DEF Inserts
<1>8. Unique(list')
  <2> SUFFICES ASSUME NEW i \in DOMAIN list', NEW j \in DOMAIN list',
                      list'[i].timer = list'[j].timer
               PROVE  i = j
    BY DEF Unique
  <2>1. \A k \in DOMAIN list : list[k].timer # t
    BY DEF NodesOf
  <2>2. \A k, m \in DOMAIN list : list[k].timer = list[m].timer => k = m
    BY DEF Deep, Nodes
  <2>3. i \in Int /\ j \in Int /\ b \in Int
    BY <1>2
  <2>4. CASE i = b + 1
    BY <1>6, <1>7, <2>1, <2>4
  <2>5. CASE j = b + 1
    BY <1>6, <1>7, <2>1, <2>5
  <2>6. CASE i # b + 1 /\ j # b + 1
    <3>1. CASE i <= b /\ j <= b
      BY <1>7, <2>2, <2>3, <3>1
    <3>2. CASE i <= b /\ j > b + 1
      <4>1. list[i].timer = list[j - 1].timer /\ i \in DOMAIN list /\ j - 1 \in DOMAIN list
        BY <1>7, <2>3, <3>2
      <4>2. i = j - 1
        BY <2>2, <4>1
      <4> QED
        BY <2>3, <3>2, <4>2
    <3>3. CASE i > b + 1 /\ j <= b
      <4>1. list[i - 1].timer = list[j].timer /\ i - 1 \in DOMAIN list /\ j \in DOMAIN list
        BY <1>7, <2>3, <3>3
      <4>2. i - 1 = j
        BY <2>2, <4>1
      <4> QED
        BY <2>3, <3>3, <4>2
    <3>4. CASE i > b + 1 /\ j > b + 1
      <4>1. list[i - 1].timer = list[j - 1].timer /\ i - 1 \in DOMAIN list /\ j - 1 \in DOMAIN list
        BY <1>7, <2>3, <3>4
      <4>2. i - 1 = j - 1
        BY <2>2, <4>1
      <4> QED
        BY <2>3, <4>2
    <3> QED
      BY <1>7, <2>6, <3>1, <3>2, <3>3, <3>4
  <2> QED
    BY <2>4, <2>5, <2>6
<1>9. NodesOf(list') = NodesOf(list) \cup {t}
  <2>1. ASSUME NEW u \in NodesOf(list') PROVE u \in NodesOf(list) \cup {t}
    <3>1. PICK j \in DOMAIN list' : u = list'[j].timer
      BY <2>1 DEF NodesOf
    <3> QED
      BY <1>6, <1>7, <3>1 DEF NodesOf
  <2>2. ASSUME NEW u \in NodesOf(list) PROVE u \in NodesOf(list')
    <3>1. PICK i \in DOMAIN list : u = list[i].timer
      BY <2>2 DEF NodesOf
    <3> QED
      BY <1>5, <3>1 DEF NodesOf
  <2>3. t \in NodesOf(list')
    BY <1>6 DEF NodesOf
  <2> QED
    BY <2>1, <2>2, <2>3
<1>10. ASSUME NEW j \in DOMAIN list'
       PROVE  /\ j \in Nat /\ Allow(list'[j].timer, j) \in Int /\ 0 <= Allow(list'[j].timer, j)
              /\ Wait[list'[j].timer] + (CompareOffset - 1) <= Allow(list'[j].timer, j)
              /\ Wait[list'[j].timer] \in Nat
              /\ Until(list', j) \in Nat
              /\ j > b => Line < Until(list', j)
  <2>1. Len(list') <= Cardinality(Timers)
    BY <1>2, <1>8, UniqueLength
  <2>2. j \in Nat /\ j <= Cardinality(Timers) /\ j \in 0..Len(list')
    BY <1>2, <2>1, ConstantsType
  <2>a. list'[j].timer \in Timers
    BY <1>2, NodeSeqType
  <2>3. /\ Allow(list'[j].timer, j) \in Int /\ Wait[list'[j].timer] \in Nat
        /\ Wait[list'[j].timer] + (CompareOffset - 1) <= Allow(list'[j].timer, j)
    BY <2>2, <2>a, ConstantFacts, ConstantsType
  <2>4. 0 <= Allow(list'[j].timer, j)
    BY <2>3, ConstantsType
  <2>5. Until(list', j) \in Nat
    BY <1>2, <2>2, UntilDef
  <2>6. ASSUME j > b PROVE Line < Until(list', j)
    <3>1. Until(list', j) >= n
      BY <1>2, <1>6, <1>7, <2>2, <2>6
    <3> QED
      BY <1>4, <2>5, <3>1
  <2> QED
    BY <2>2, <2>3, <2>4, <2>5, <2>6
<1>11. NoWrap'
  <2>1. ASSUME NEW j \in DOMAIN list'
        PROVE  Until(list', j) <= Longest /\ Line <= Until(list', j) + Allow(list'[j].timer, j)
    <3>1. Until(list', j) <= Longest
      BY <1>5, <1>6, <1>7
    <3>2. CASE j > b
      BY <1>4, <1>10, <3>1, <3>2
    <3>3. CASE ~(j > b)
      <4>1. j \in DOMAIN list /\ Until(list', j) = D(j) /\ list'[j].timer = list[j].timer
        BY <1>2, <1>7, <1>10, <3>3
      <4> QED
        BY <3>1, <4>1 DEF Deep, NoWrap, Allowed
    <3> QED
      BY <3>2, <3>3
  <2>2. (\A i \in DOMAIN list : D(i) <= Longest /\ Line <= D(i) + Allowed(i))'
    BY <1>3, <2>1 DEF D, Allowed
  <2>3. (ticking => Line <= CounterSize - 1 - Slack)'
    BY <1>3 DEF Deep, NoWrap
  <2> QED
    BY <2>2, <2>3 DEF NoWrap
<1>12. list' # <<>> /\ 1 \in DOMAIN list' /\ HeadOf(list') = {list'[1].timer}
  <2>1. 1 \in DOMAIN list'
    BY <1>2
  <2> QED
    BY <2>1 DEF HeadOf
<1>13. ~update /\ HeadOf(list') = head =>
         b >= 1 /\ 1 \in DOMAIN list /\ list # <<>> /\ HeadKept /\ ticking /\ Until(list', 1) = D(1)
  <2> SUFFICES ASSUME ~update, HeadOf(list') = head
               PROVE b >= 1 /\ 1 \in DOMAIN list /\ list # <<>> /\ HeadKept /\ ticking
                     /\ Until(list', 1) = D(1)
    OBVIOUS
  <2>1. list'[1].timer \in NodesOf(list)
    BY <1>12 DEF Deep, Nodes
  <2>2. list'[1].timer # t
    BY <2>1
  <2>3. b # 0
    BY <1>6, <2>2
  <2>4. b >= 1
    BY <1>2, <2>3
  <2>5. 1 \in DOMAIN list /\ list'[1].timer = list[1].timer /\ Until(list', 1) = D(1)
    BY <1>2, <1>7, <1>12, <2>4
  <2>6. list # <<>> /\ HeadOf(list) = head
    BY <1>2, <1>12, <2>5 DEF HeadOf
  <2> QED
    BY <2>4, <2>5, <2>6 DEF HeadKept, Deep, Clock
<1>14. ASSUME HeadKept, 1 \in 1..b PROVE HeadKept'
  <2>1. 1 \in DOMAIN list /\ list'[1].timer = list[1].timer
    BY <1>2, <1>7, <1>12, <1>14
  <2>2. HeadOf(list') = HeadOf(list)
    BY <1>2, <1>12, <2>1 DEF HeadOf
  <2> QED
    BY <1>14, <2>2 DEF HeadKept
<1>16. ASSUME NEW j \in DOMAIN list', j > b
       PROVE  Passed + 1 <= Until(list', j) + Wait[list'[j].timer]
  <2>1. CASE j = b + 1
    <3>1. /\ list'[j].timer = t /\ Until(list', j) = n /\ Wait[t] \in Nat /\ Wait[t] <= Slack
          /\ Slack \in Nat
      BY <1>6, <2>1, ConstantsType
    <3>2. Rested <= Slack
      BY Basics
    <3>3. CASE Wait[t] < Slack
      <4>1. Line + Slack < n
        BY <3>3
      <4> QED
        BY <1>4, <3>1, <3>2, <4>1
    <3>4. CASE ~(Wait[t] < Slack)
      BY <1>4, <3>1, <3>2, <3>4
    <3> QED
      BY <3>3, <3>4
  <2>2. CASE j # b + 1
    <3>1. /\ j - 1 \in DOMAIN list /\ list'[j].timer = list[j - 1].timer
          /\ Until(list', j) = D(j - 1) /\ D(j - 1) >= n /\ D(j - 1) \in Nat
      BY <1>2, <1>5, <1>7, <1>10, <1>16, <2>2
    <3>2. Line < D(j - 1)
      BY <1>4, <3>1
    <3>3. ~Covering
      BY DEF Deep, Turns
    <3>4. Passed + 1 <= D(j - 1) + Wait[list[j - 1].timer]
      BY <3>1, <3>2, <3>3, NotLong
    <3> QED
      BY <3>1, <3>4
  <2> QED
    BY <2>1, <2>2
<1>17. Pausing'
  <2>1. ASSUME NEW j \in DOMAIN list', list'[j].timer \in Served, Wait[list'[j].timer] < Slack
        PROVE  Until(list', j) > Line + Slack
    <3>1. ASSUME NEW i \in DOMAIN list, list'[j].timer = list[i].timer, Until(list', j) = D(i)
          PROVE  Until(list', j) > Line + Slack
      <4>1. ~Covering
        BY DEF Deep, Turns
      <4> QED
        BY <2>1, <3>1, <4>1 DEF Deep, Pausing
    <3>2. CASE j = b + 1
      <4>1. list'[j].timer = t /\ Until(list', j) = n /\ Line + Slack < n
        BY <1>6, <2>1, <3>2
      <4> QED
        BY <1>4, <4>1, ConstantsType
    <3> QED
      BY <1>7, <3>1, <3>2
  <2>2. \A u \in Timers \ Served : Rested <= Wait[u]
    BY DEF Deep, Pausing
  <2>3. (\A i \in DOMAIN list :
            list[i].timer \in Served /\ Wait[list[i].timer] < Slack => D(i) > Line + Slack)'
    BY <1>3, <2>1 DEF D
  <2>4. (\A u \in Timers \ Served : Rested <= Wait[u])'
    BY <1>3, <2>2
  <2> QED
    BY <2>3, <2>4 DEF Pausing
<1>15. Armed'
  <2> SUFFICES ASSUME ~rtcPend
               PROVE  (HeadKept' => Set') /\ (~HeadKept' => Unset')
    BY DEF Armed
  <2>0. Ahead' = Ahead
    BY DEF Ahead, Diff
  <2>1. ASSUME HeadKept' PROVE Set'
    <3>1. b >= 1 /\ 1 \in DOMAIN list /\ list # <<>> /\ HeadKept /\ Until(list', 1) = D(1)
      BY <1>13, <2>1 DEF HeadKept
    <3>2. Set
      BY <3>1 DEF Deep, Armed
    <3>3. Ahead \in Nat
      BY <3>1, <3>2, NoWrapSet, UniqueList DEF Deep
    <3>4. ASSUME NEW j \in DOMAIN list'
          PROVE  Ahead <= Until(list', j) + Allow(list'[j].timer, j)
      <4>1. CASE ~(j > b)
        <5>1. j \in DOMAIN list /\ Until(list', j) = D(j) /\ list'[j].timer = list[j].timer
          BY <1>2, <1>7, <1>10, <4>1
        <5> QED
          BY <3>2, <5>1 DEF Set, Allowed
      <4>2. CASE j > b /\ Ahead <= D(1)
        <5>1. Until(list', 1) <= Until(list', j)
          <6>1. 1 \in 0..Len(list') /\ j \in 1..Len(list')
            BY <1>2
          <6> QED
            BY <1>2, <6>1, UntilGrows
        <5>2. D(1) \in Nat
          BY <1>5, <3>1
        <5> QED
          BY <1>10, <3>1, <3>3, <4>2, <5>1, <5>2
      <4>3. CASE j > b /\ Ahead <= Passed + CompareOffset
        <5>1. Passed + 1 <= Until(list', j) + Wait[list'[j].timer]
          BY <1>16, <4>3
        <5> QED
          BY <1>4, <1>10, <3>3, <4>3, <5>1, ConstantsType
      <4> QED
        BY <3>2, <4>1, <4>2, <4>3 DEF Set
    <3>5. (\A i \in DOMAIN list : Ahead <= D(i) + Allowed(i))'
      BY <2>0, <3>4 DEF D, Allowed
    <3>6. (Ahead <= D(1) \/ Ahead <= Passed + CompareOffset)'
      BY <1>3, <2>0, <3>1, <3>2 DEF D, Set
    <3> QED
      BY <1>3, <2>0, <3>2, <3>5, <3>6 DEF Set
  <2>2. ASSUME ~HeadKept' PROVE Unset'
    <3>1. ASSUME NEW j \in DOMAIN list'
          PROVE  \/ Line < Until(list', j)
                 \/ /\ compare # None
                    /\ Passed < Ahead
                    /\ Ahead + (CompareOffset - 1)
                         <= Until(list', j) + Allow(list'[j].timer, j)
      <4>1. CASE j > b
        BY <1>10, <4>1
      <4>2. CASE ~(j > b)
        <5>1. /\ j \in DOMAIN list /\ Until(list', j) = D(j) /\ 1 \in 1..b /\ list # <<>>
              /\ list'[j].timer = list[j].timer
          BY <1>2, <1>7, <1>10, <4>2
        <5>2. ~HeadKept
          BY <1>14, <2>2, <5>1
        <5>3. Unset
          BY <5>1, <5>2 DEF Deep, Armed
        <5> QED
          BY <5>1, <5>3 DEF Unset, Allowed
      <4> QED
        BY <4>1, <4>2
    <3> QED
      BY <1>3, <2>0, <3>1 DEF Unset, D, Allowed
  <2> QED
    BY <2>1, <2>2
<1> QED
  BY <1>3, <1>5, <1>6, <1>8, <1>9, <1>11, <1>12, <1>13, <1>15, <1>17

(* What a request asks for when list_insertions_handler carries it out.    *)
LEMMA WaitFacts ==
  ASSUME ListTypeOK, NEW t \in Timers, NEW at \in Counters
  PROVE  /\ NewWait(at, t) \in Nat /\ NewWait(at, t) <= 2 * CounterSize
         /\ NewWait(at, t) <= Longest \/ Since(at) >= Half
<1>1. /\ Since(at) \in Int /\ Since(at) < CounterSize
      /\ NewWait(at, t) \in Nat
      /\ NewWait(at, t) = IF Since(at) + Interval[t] >= 0 THEN Since(at) + Interval[t] ELSE 0
  BY Basics, SinceFacts
<1>2. /\ Interval[t] \in Nat /\ Interval[t] < CounterSize /\ CounterSize \in Nat
      /\ Half + Interval[t] <= Longest + 1 /\ 0 <= Longest /\ Longest \in Int /\ Half \in Nat
  BY TimerListAssumption, ConstantsType, ConstantFacts
<1> QED
  BY <1>1, <1>2

(* A request is less than half of the range old. *)
LEMMA SinceSmall ==
  ASSUME latest \in Counters, NEW at \in Counters
  PROVE  Since(at) < Half
<1>1. Diff(at, latest) \in Int /\ Diff(at, latest) < CounterSize
  BY DiffCases, CountersInt
<1>2. Half \in Nat /\ CounterSize \in Nat
  BY ConstantsType
<1> DEFINE d == Diff(at, latest)
<1> HIDE DEF d
<1>3. d \in Int /\ d < CounterSize
  BY <1>1 DEF d
<1>4. Since(at) = IF d < Half THEN d ELSE d - CounterSize
  BY DEF Since, d
<1>5. Half # 0 \/ Half = 0
  OBVIOUS
<1>6. Half >= 1
  BY TimingAssumption, ConstantsType DEF Half
<1> QED
  BY <1>2, <1>3, <1>4, <1>6

(* A timer that is in the list stays timed when another node joins it.     *)
LEMMA InListKeeps ==
  ASSUME NEW u, InList(u), ~Covering, left' = left, Passed' = Passed, Rested' = Rested,
         UNCHANGED <<elapsed, ticking, clearing>>, running \subseteq running',
         StopWaits(u)' => StopWaits(u),
         \A i \in DOMAIN list : \E j \in DOMAIN list' :
           list'[j].timer = list[i].timer /\ Until(list', j) = D(i)
  PROVE  InList(u)'
<1>1. u \in running /\ ~StopWaits(u)
  BY DEF InList
<1>2. PICK i \in DOMAIN list : list[i].timer = u /\ Within(D(i) - Passed - left[u])
  BY DEF InList
<1>3. PICK j \in DOMAIN list' : list'[j].timer = list[i].timer /\ Until(list', j) = D(i)
  OBVIOUS
<1>4. Within(D(j) - Passed - left[u])'
  BY <1>2, <1>3 DEF Within, Steady, D
<1> QED
  BY <1>1, <1>2, <1>3, <1>4 DEF InList

(* The insertion of a node that starts again keeps the invariant. *)
LEMMA SwiRestartKeeps ==
  ASSUME ListInv, SwiRestart
  PROVE  ListTypeOK' /\ (Sound' => Deep')
<1> DEFINE t == restart[1].timer
           n == NewWait(restart[1].at, t)
<1>0. ListTypeOK /\ Sound /\ Deep
  BY DEF ListInv, SwiRestart
<1>1. /\ swi = "insert" /\ restart # <<>>
      /\ restart' = Tail(restart)
      /\ UNCHANGED <<ring, elapsed, latest, reset, swi, head, update, pre, rtc, due,
                     swiPend, rtcPend, counter, compare, ticking, clearing, busy, served,
                     left, misread>>
      /\ Insert(Head(restart).timer, Head(restart).at)
  BY DEF SwiRestart, rtc1Vars
<1>2. /\ restart' \in Seq(Restarts) /\ Len(restart) \in Nat /\ Len(restart) >= 1
      /\ Head(restart) = restart[1] /\ 1 \in DOMAIN restart /\ DOMAIN restart = 1..Len(restart)
      /\ \A i \in DOMAIN restart' : i \in Nat /\ i + 1 \in DOMAIN restart /\ restart'[i] = restart[i + 1]
      /\ \A i \in DOMAIN restart : i # 1 => i - 1 \in DOMAIN restart' /\ restart'[i - 1] = restart[i]
  BY <1>0, <1>1, Basics, TailFacts
<1>3. /\ t \in Timers /\ t \in Repeating /\ restart[1].at \in Counters /\ n \in Nat
  BY <1>0, <1>2, RequestTypes
<1>4. Line < n /\ Line + Slack < n /\ n <= Longest
  <2>1. Line + Slack < n /\ n <= Longest
    BY <1>0, <1>2 DEF Deep, Requests
  <2>2. Line \in Int /\ Slack \in Nat
    BY <1>0, Basics, ConstantsType
  <2> HIDE DEF n
  <2> QED
    BY <1>3, <2>1, <2>2
<1>5. /\ list' = Inserted(list, t, n) /\ running' = running \cup {t}
      /\ cycle' = (cycle \/ t \in NodesOf(list))
  BY <1>1, <1>2 DEF Insert, NewWait
<1>6. ~rtc /\ ~Covering /\ due = <<>>
  BY <1>0, <1>1 DEF Deep, Turns
<1>7. ListTypeOK'
  <2>1. n <= 2 * CounterSize
    BY <1>0, <1>3, WaitFacts
  <2>2. list' \in Seq([timer : Timers, wait : 0..(2 * CounterSize)])
    <3> HIDE DEF n, t
    <3> QED
      BY <1>0, <1>3, <1>5, <2>1, InsertType
  <2>3. running' \subseteq Timers
    BY <1>0, <1>3, <1>5 DEF ListTypeOK
  <2>4. {reset, update, rtc, swiPend, rtcPend, ticking, clearing, cycle, misread}' \subseteq BOOLEAN
    <3>1. cycle' \in BOOLEAN
      BY <1>0, <1>5 DEF ListTypeOK
    <3> QED
      BY <1>0, <1>1, <3>1 DEF ListTypeOK
  <2>5. restart' \in Seq([timer : Repeating, at : Counters])
    BY <1>2 DEF Restarts
  <2> QED
    BY <1>0, <1>1, <2>2, <2>3, <2>4, <2>5 DEF ListTypeOK, Counters
<1>8. ASSUME Sound' PROVE Deep'
  <2>0. t \notin NodesOf(list)
    BY <1>5, <1>8 DEF Sound
  <2>1. /\ Passed' = Passed /\ Rested' = Rested /\ Line' = Line
        /\ NoWrap' /\ Armed' /\ Unique(list') /\ Pausing'
        /\ NodesOf(list') = NodesOf(list) \cup {t}
        /\ ~update /\ HeadOf(list') = head => ticking /\ list' # <<>>
        /\ \E j \in DOMAIN list' : list'[j].timer = t /\ Until(list', j) = n
        /\ \A i \in DOMAIN list : \E j \in DOMAIN list' :
             list'[j].timer = list[i].timer /\ Until(list', j) = D(i)
    <3> HIDE DEF n, t
    <3> QED
      BY <1>0, <1>1, <1>3, <1>4, <1>5, <2>0, InsertKeeps
  <2> HIDE DEF n
  <2>2. Turns'
    BY <1>0, <1>1, <1>6 DEF Deep, Turns, Covering
  <2>3. Nodes'
    <3>1. (\A i, j \in DOMAIN list : list[i].timer = list[j].timer => i = j)'
      BY <2>1 DEF Unique
    <3>2. (\A i, j \in DOMAIN restart : restart[i].timer = restart[j].timer => i = j)'
      <4>1. \A i, j \in DOMAIN restart : restart[i].timer = restart[j].timer => i = j
        BY <1>0 DEF Deep, Nodes
      <4> SUFFICES ASSUME NEW i \in DOMAIN restart', NEW j \in DOMAIN restart',
                          restart'[i].timer = restart'[j].timer
                   PROVE i = j
        OBVIOUS
      <4>2. i + 1 = j + 1 /\ i \in Nat /\ j \in Nat
        BY <1>2, <4>1
      <4> QED
        BY <4>2
    <3>3. (swi = "insert" => head \subseteq NodesOf(list))'
      BY <1>0, <1>1, <2>1 DEF Deep, Nodes
    <3>4. CoveredNodes' = {} /\ DOMAIN due' = {}
      BY <1>1, <1>6 DEF CoveredNodes, Covering
    <3> QED
      BY <3>1, <3>2, <3>3, <3>4 DEF Nodes, Injective
  <2>4. Clock'
    <3>1. ticking /\ ~reset
      BY <1>0, <1>1 DEF Deep, Clock
    <3>2. (swi = "insert" /\ ~update /\ HeadOf(list) = head => (ticking <=> list # <<>>))'
      BY <1>1, <2>1
    <3> QED
      BY <1>0, <1>1, <3>1, <3>2 DEF Deep, Clock
  <2>5. Reading' /\ Covers'
    BY <1>1, <1>6 DEF Reading, Covers, Covering
  <2>6. \A at, u : NewWait(at, u)' = NewWait(at, u) /\ Since(at)' = Since(at)
    BY <1>1 DEF NewWait, ToExpire, Diff, Since
  <2>7. Requests'
    <3>1. (\A i \in DOMAIN restart :
             /\ Line + Slack < NewWait(restart[i].at, restart[i].timer)
             /\ NewWait(restart[i].at, restart[i].timer) <= Longest)'
      <4>1. \A i \in DOMAIN restart :
             /\ Line + Slack < NewWait(restart[i].at, restart[i].timer)
             /\ NewWait(restart[i].at, restart[i].timer) <= Longest
        BY <1>0 DEF Deep, Requests
      <4>2. \A i \in DOMAIN restart' :
             /\ Line + Slack < NewWait(restart'[i].at, restart'[i].timer)
             /\ NewWait(restart'[i].at, restart'[i].timer) <= Longest
        BY <1>2, <4>1
      <4> QED
        BY <2>1, <2>6, <4>2
    <3> QED
      BY <1>0, <1>1, <2>1, <2>6, <3>1 DEF Deep, Requests
  <2>8. Lefts'
    <3> SUFFICES ASSUME NEW u \in DOMAIN left PROVE InList(u)' \/ InRestart(u)' \/ InRing(u)'
      BY <1>1 DEF Lefts
    <3>1. (StopWaits(u)' <=> StopWaits(u)) /\ (StartWaits(u)' <=> StartWaits(u))
      BY <1>1 DEF StopWaits, StartWaits
    <3>2. \A e : Within(e)' <=> Within(e)
      BY <1>1, <2>1 DEF Within, Steady
    <3>3. CASE InList(u)
      BY <1>1, <1>5, <1>6, <2>1, <3>1, <3>3, InListKeeps
    <3>4. CASE InRestart(u)
      <4>1. PICK i \in DOMAIN restart :
              restart[i].timer = u /\ Within(NewWait(restart[i].at, u) - Passed - left[u])
        BY <3>4 DEF InRestart
      <4>2. CASE i = 1
        <5>1. PICK j \in DOMAIN list' : list'[j].timer = t /\ Until(list', j) = n
          BY <2>1
        <5>2. u = t /\ Within(n - Passed - left[u])
          BY <4>1, <4>2 DEF n
        <5>3. Within(D(j) - Passed - left[u])'
          BY <1>1, <2>1, <3>2, <5>1, <5>2 DEF D, Within, Steady
        <5>4. InList(u)'
          BY <1>5, <3>1, <3>4, <5>1, <5>2, <5>3 DEF InList, InRestart
        <5> QED
          BY <5>4
      <4>3. CASE i # 1
        <5>1. PICK k \in DOMAIN restart' : restart'[k] = restart[i]
          BY <1>2, <4>1, <4>3
        <5>2. u # t
          BY <1>0, <1>2, <4>1, <4>3 DEF Deep, Nodes
        <5>3. u \notin running'
          BY <1>5, <3>4, <5>2 DEF InRestart
        <5>4. Within(NewWait(restart[k].at, u) - Passed - left[u])'
          BY <1>1, <2>1, <2>6, <3>2, <4>1, <5>1 DEF Within, Steady
        <5>5. InRestart(u)'
          BY <3>1, <3>4, <4>1, <5>1, <5>3, <5>4 DEF InRestart
        <5> QED
          BY <5>5
      <4> QED
        BY <4>2, <4>3
    <3>5. CASE InRing(u)
      <4>1. u # t /\ u \notin running'
        BY <1>2, <1>5, <3>5 DEF InRing
      <4>2. \A i \in DOMAIN restart' : restart'[i].timer # u
        BY <1>2, <3>5 DEF InRing
      <4>3. u \in NodesOf(list') => u \in NodesOf(list)
        BY <2>1, <4>1
      <4>4. InRing(u)'
        BY <1>1, <2>1, <2>6, <3>1, <3>5, <4>1, <4>2, <4>3 DEF InRing
      <4> QED
        BY <4>4
    <3> QED
      BY <1>0, <3>3, <3>4, <3>5 DEF Deep, Lefts
  <2> QED
    BY <2>1, <2>2, <2>3, <2>4, <2>5, <2>7, <2>8 DEF Deep
<1> QED
  BY <1>7, <1>8

(* A start that is carried out is ahead of the line, and the timer's time  *)
(* was counted from the start.                                             *)
LEMMA PopFacts ==
  ASSUME ListTypeOK, Deep, swi = "insert", ring # <<>>, ring[1].op = "start",
         NEW at, at = IF reset THEN 0 ELSE ring[1].at
  PROVE  LET t == ring[1].timer
             n == NewWait(at, t)
         IN  /\ t \in Timers /\ n \in Nat /\ n <= 2 * CounterSize
             /\ Line < n /\ n <= Longest /\ (Wait[t] < Slack => Line + Slack < n)
             /\ t \in DOMAIN left /\ InRing(t) => Within(n - Passed - left[t])
<1> DEFINE t == ring[1].timer
           n == NewWait(at, t)
           s == Since(at)
<1>1. 1 \in DOMAIN ring
  BY Basics, TailFacts
<1>2. t \in Timers /\ at \in Counters /\ latest \in Counters
  <2>1. 0 \in Counters
    BY ConstantsType DEF Counters
  <2> QED
    BY <1>1, <2>1, RequestTypes, Basics
<1>3. /\ s \in Int
      /\ n = IF s + Interval[t] >= 0 THEN s + Interval[t] ELSE 0
  BY <1>2, SinceFacts
<1>4. s < Half
  BY <1>2, SinceSmall
<1>5. n \in Nat /\ n <= 2 * CounterSize /\ n <= Longest
  <2>1. /\ n \in Nat /\ n <= 2 * CounterSize
        /\ n <= Longest \/ s >= Half
    BY <1>2, WaitFacts
  <2> HIDE DEF n, s
  <2> QED
    BY <1>3, <1>4, <2>1, ConstantsType
<1>6. Line <= s /\ s <= Passed
  <2>1. CASE reset
    <3>1. latest = 0 /\ Line <= 0
      BY <2>1 DEF Deep, Turns, Requests
    <3>2. Diff(0, 0) = 0 /\ Half >= 1
      BY <1>2, <2>1, DiffCases, TimingAssumption, ConstantsType DEF Half
    <3>3. s = 0
      BY <2>1, <3>1, <3>2, ConstantsType DEF Since
    <3> QED
      BY <3>1, <3>3, Basics
  <2>2. CASE ~reset
    BY <1>1, <2>2 DEF Deep, Requests
  <2> QED
    BY <2>1, <2>2
<1>7. Passed \in Nat /\ Rested \in Nat /\ Rested <= Slack /\ Line = Passed - Rested
      /\ Interval[t] \in Nat /\ Interval[t] >= 1 /\ Slack \in Nat
  BY <1>2, Basics, ConstantsType
<1>8. Line < n
  <2> DEFINE k == Interval[t]
  <2> HIDE DEF n, s, k
  <2>1. k \in Nat /\ k >= 1 /\ n = (IF s + k >= 0 THEN s + k ELSE 0)
    BY <1>3, <1>7 DEF k
  <2> QED
    BY <1>3, <1>6, <1>7, <2>1
<1>10. ASSUME Wait[t] < Slack PROVE Line + Slack < n
  <2> DEFINE k == Interval[t]
             w == Wait[t]
  <2>1. k \in Nat /\ w \in Nat /\ Offsets \in Nat /\ k > w + Offsets + Slack
    BY <1>2, <1>10, ConstantFacts, ConstantsType
  <2>2. n = (IF s + k >= 0 THEN s + k ELSE 0)
    BY <1>3
  <2> HIDE DEF n, s, k, w
  <2> QED
    BY <1>3, <1>6, <1>7, <2>1, <2>2
<1>9. ASSUME t \in DOMAIN left, InRing(t) PROVE Within(n - Passed - left[t])
  <2> DEFINE k == Interval[t]
             l == left[t]
             e == n - Passed - l
  <2>1. l \in Int /\ l >= k - Rested
    BY <1>9, Basics DEF InRing
  <2>2. l <= k - Passed + s
    <3>1. l <= k - Passed + (IF swi = "insert" /\ reset THEN 0 ELSE Since(ring[1].at))
      BY <1>1, <1>9 DEF InRing
    <3>2. (IF swi = "insert" /\ reset THEN 0 ELSE Since(ring[1].at)) = s
      <4>1. CASE reset
        <5>1. latest = 0
          BY <4>1 DEF Deep, Turns
        <5>2. Diff(0, 0) = 0 /\ Half >= 1
          BY <1>2, <4>1, DiffCases, TimingAssumption, ConstantsType DEF Half
        <5> QED
          BY <4>1, <5>1, <5>2, ConstantsType DEF Since
      <4>2. CASE ~reset
        BY <4>2
      <4> QED
        BY <4>1, <4>2
    <3> HIDE DEF s, l, k
    <3> QED
      BY <3>1, <3>2
  <2>3. k \in Nat /\ k >= 1 /\ n = (IF s + k >= 0 THEN s + k ELSE 0)
    BY <1>3, <1>7
  <2> HIDE DEF n, s, k, l, t
  <2>5. Passed \in Nat /\ Rested \in Nat /\ Rested <= Slack /\ s \in Int /\ s <= Passed
        /\ Slack \in Nat
    BY <1>3, <1>6, <1>7
  <2>6. n \in Int /\ s + k <= n /\ (n = s + k \/ (n = 0 /\ s + k < 0))
    BY <2>3, <2>5
  <2>7. e \in Int /\ e >= 0
    BY <2>1, <2>2, <2>3, <2>5, <2>6
  <2>8. e <= Rested
    BY <2>1, <2>3, <2>5, <2>6
  <2>4. e >= 0 /\ e <= Rested /\ e <= Slack
    BY <2>5, <2>7, <2>8
  <2> QED
    BY <2>4 DEF Within, l
<1> QED
  BY <1>2, <1>5, <1>8, <1>9, <1>10

(* The requests that stay in the ring. *)
LEMMA PopRing ==
  ASSUME ListTypeOK, ring # <<>>, ring' = Tail(ring)
  PROVE  /\ ring' \in Seq(RingOps) /\ Len(ring') <= OpQueueSize
         /\ \A i \in DOMAIN ring' : i \in Nat /\ i + 1 \in DOMAIN ring /\ ring'[i] = ring[i + 1]
         /\ \A i \in DOMAIN ring : i # 1 => i - 1 \in DOMAIN ring' /\ ring'[i - 1] = ring[i]
         /\ \A u : StopWaits(u)' => StopWaits(u)
<1>1. /\ ring' \in Seq(RingOps) /\ Len(ring') = Len(ring) - 1 /\ Len(ring) \in Nat
      /\ \A i \in DOMAIN ring' : i \in Nat /\ i + 1 \in DOMAIN ring /\ ring'[i] = ring[i + 1]
      /\ \A i \in DOMAIN ring : i # 1 => i - 1 \in DOMAIN ring' /\ ring'[i - 1] = ring[i]
  BY Basics, TailFacts
<1>2. Len(ring') <= OpQueueSize
  BY <1>1, ConstantsType DEF ListTypeOK
<1>3. ASSUME NEW u, StopWaits(u)' PROVE StopWaits(u)
  <2>1. PICK i \in DOMAIN ring' : ring'[i].op = "stop" /\ ring'[i].timer = u
    BY <1>3 DEF StopWaits
  <2> QED
    BY <1>1, <2>1 DEF StopWaits
<1> QED
  BY <1>1, <1>2, <1>3

(* A request stays timed when another one is taken. *)
LEMMA PopKeepsInRing ==
  ASSUME ListTypeOK, swi = "insert", restart = <<>>, ring # <<>>, ring' = Tail(ring),
         NEW u, InRing(u), ~(ring[1].op = "start" /\ ring[1].timer = u),
         u \notin running', left' = left, Passed' = Passed, Rested' = Rested,
         UNCHANGED <<restart, latest, reset, swi>>,
         u \in NodesOf(list') => u \in NodesOf(list)
  PROVE  InRing(u)'
<1>1. /\ \A i \in DOMAIN ring' : i \in Nat /\ i + 1 \in DOMAIN ring /\ ring'[i] = ring[i + 1]
      /\ \A i \in DOMAIN ring : i # 1 => i - 1 \in DOMAIN ring' /\ ring'[i - 1] = ring[i]
  BY PopRing
<1>2. \A at : Since(at)' = Since(at)
  BY DEF Since, Diff
<1>3. StartWaits(u)'
  <2>1. PICK i \in DOMAIN ring : ring[i].op = "start" /\ ring[i].timer = u
    BY DEF InRing, StartWaits
  <2>2. i # 1
    BY <2>1
  <2>3. PICK k \in DOMAIN ring' : ring'[k] = ring[i]
    BY <1>1, <2>2
  <2> QED
    BY <2>1, <2>3 DEF StartWaits
<1>4. \A i, j \in DOMAIN ring' :
        ring'[i].op = "start" /\ ring'[i].timer = u
          /\ ring'[j].op = "stop" /\ ring'[j].timer = u => j < i
  <2> SUFFICES ASSUME NEW i \in DOMAIN ring', NEW j \in DOMAIN ring',
                      ring'[i].op = "start", ring'[i].timer = u,
                      ring'[j].op = "stop", ring'[j].timer = u
               PROVE  j < i
    OBVIOUS
  <2>1. j + 1 < i + 1
    BY <1>1 DEF InRing
  <2>2. i \in Nat /\ j \in Nat
    BY <1>1
  <2> QED
    BY <2>1, <2>2
<1>5. \A i \in DOMAIN ring' : ring'[i].op = "start" /\ ring'[i].timer = u =>
        left[u] <= Interval[u] - Passed
                     + (IF swi = "insert" /\ reset THEN 0 ELSE Since(ring'[i].at))
  BY <1>1 DEF InRing
<1>6. u \notin NodesOf(list')
  BY DEF InRing
<1> QED
  BY <1>2, <1>3, <1>4, <1>5, <1>6 DEF InRing

(* Taking a request keeps the invariant. *)
LEMMA SwiPopKeeps ==
  ASSUME ListInv, SwiPop
  PROVE  ListTypeOK' /\ (Sound' => Deep')
<1> DEFINE t == ring[1].timer
           at == IF reset THEN 0 ELSE ring[1].at
           n == NewWait(at, t)
           taken == ring[1].op = "start" /\ t \notin running
<1>0. ListTypeOK /\ Sound /\ Deep
  BY DEF ListInv, SwiPop
<1>1. /\ swi = "insert" /\ restart = <<>> /\ ring # <<>>
      /\ ring' = Tail(ring)
      /\ UNCHANGED <<restart, elapsed, latest, reset, swi, head, update, pre, rtc, due,
                     swiPend, rtcPend, counter, compare, ticking, clearing, busy, served,
                     left, misread>>
  BY DEF SwiPop, rtc1Vars
<1>a. Head(ring) = ring[1] /\ 1 \in DOMAIN ring
  BY <1>0, <1>1, Basics, TailFacts
<1>2. \/ /\ taken
         /\ list' = Inserted(list, t, n) /\ running' = running \cup {t}
         /\ cycle' = (cycle \/ t \in NodesOf(list))
      \/ ~taken /\ UNCHANGED <<list, running, cycle>>
  <2>1. CASE taken
    BY <1>a, <2>1 DEF SwiPop, Insert, NewWait
  <2>2. CASE ~taken
    BY <1>a, <2>2 DEF SwiPop
  <2> QED
    BY <2>1, <2>2
<1>3. taken => /\ t \in Timers /\ n \in Nat /\ n <= 2 * CounterSize
               /\ Line < n /\ n <= Longest /\ (Wait[t] < Slack => Line + Slack < n)
               /\ t \in DOMAIN left /\ InRing(t) => Within(n - Passed - left[t])
  BY <1>0, <1>1, PopFacts
<1>4. /\ ring' \in Seq(RingOps) /\ Len(ring') <= OpQueueSize
      /\ \A i \in DOMAIN ring' : i \in Nat /\ i + 1 \in DOMAIN ring /\ ring'[i] = ring[i + 1]
      /\ \A i \in DOMAIN ring : i # 1 => i - 1 \in DOMAIN ring' /\ ring'[i - 1] = ring[i]
      /\ \A u : StopWaits(u)' => StopWaits(u)
  BY <1>0, <1>1, PopRing
<1> HIDE DEF n, at, t
<1>5. ~rtc /\ ~Covering /\ due = <<>>
  BY <1>0, <1>1 DEF Deep, Turns
<1>6. ListTypeOK'
  <2>1. list' \in Seq([timer : Timers, wait : 0..(2 * CounterSize)])
    <3>1. CASE taken
      BY <1>0, <1>2, <1>3, <3>1, InsertType
    <3>2. CASE ~taken
      BY <1>0, <1>2, <3>2 DEF ListTypeOK
    <3> QED
      BY <3>1, <3>2
  <2>2. running' \subseteq Timers
    BY <1>0, <1>2, <1>3 DEF ListTypeOK
  <2>3. {reset, update, rtc, swiPend, rtcPend, ticking, clearing, cycle, misread}' \subseteq BOOLEAN
    <3>1. cycle' \in BOOLEAN
      BY <1>0, <1>2 DEF ListTypeOK
    <3> QED
      BY <1>0, <1>1, <3>1 DEF ListTypeOK
  <2> QED
    BY <1>0, <1>1, <1>4, <2>1, <2>2, <2>3 DEF ListTypeOK, Counters, RingOps
<1>7. ASSUME Sound' PROVE Deep'
  <2>0. taken => t \notin NodesOf(list)
    BY <1>2, <1>7 DEF Sound
  <2>1. /\ Passed' = Passed /\ Rested' = Rested /\ Line' = Line
        /\ NoWrap' /\ Armed' /\ Unique(list') /\ Pausing'
        /\ NodesOf(list') = NodesOf(list) \cup (IF taken THEN {t} ELSE {})
        /\ ~update /\ HeadOf(list') = head => (ticking <=> list' # <<>>)
        /\ taken => \E j \in DOMAIN list' : list'[j].timer = t /\ Until(list', j) = n
        /\ \A i \in DOMAIN list : \E j \in DOMAIN list' :
             list'[j].timer = list[i].timer /\ Until(list', j) = D(i)
    <3>1. CASE taken
      <4>1. /\ Passed' = Passed /\ Rested' = Rested /\ Line' = Line
            /\ NoWrap' /\ Armed' /\ Unique(list') /\ Pausing'
            /\ NodesOf(list') = NodesOf(list) \cup {t}
            /\ ~update /\ HeadOf(list') = head => ticking /\ list' # <<>>
            /\ \E j \in DOMAIN list' : list'[j].timer = t /\ Until(list', j) = n
            /\ \A i \in DOMAIN list : \E j \in DOMAIN list' :
                 list'[j].timer = list[i].timer /\ Until(list', j) = D(i)
        BY <1>0, <1>1, <1>2, <1>3, <2>0, <3>1, InsertKeeps
      <4> QED
        BY <3>1, <4>1
    <3>2. CASE ~taken
      <4>1. UNCHANGED <<list, running, cycle>>
        BY <1>2, <3>2
      <4>2. Rested' = Rested /\ Served' = Served
        BY <1>1, <4>1 DEF Rested, Served, Idle
      <4>3. Passed' = Passed /\ Line' = Line
        BY <1>1, <4>2, LineSame
      <4>4. NoWrap' /\ Armed'
        BY <1>0, <1>1, <4>1, <4>3, NoWrapFrame, ArmedFrame DEF Deep, Covering
      <4>5. Unique(list') /\ NodesOf(list') = NodesOf(list)
        BY <1>0, <4>1, UniqueList DEF Unique, NodesOf
      <4>6. ~update /\ HeadOf(list') = head => (ticking <=> list' # <<>>)
        BY <1>0, <1>1, <4>1 DEF Deep, Clock, HeadOf
      <4>7. \A i \in DOMAIN list : \E j \in DOMAIN list' :
              list'[j].timer = list[i].timer /\ Until(list', j) = D(i)
        BY <4>1 DEF D
      <4>8. Pausing'
        BY <1>0, <1>1, <4>1, <4>2, <4>3, PausingFrame DEF Deep
      <4> QED
        BY <3>2, <4>2, <4>3, <4>4, <4>5, <4>6, <4>7, <4>8
    <3> QED
      BY <3>1, <3>2
  <2>2. Turns'
    BY <1>0, <1>1, <1>5 DEF Deep, Turns, Covering
  <2>3. Nodes'
    <3>1. (\A i, j \in DOMAIN list : list[i].timer = list[j].timer => i = j)'
      BY <2>1 DEF Unique
    <3>3. (swi = "insert" => head \subseteq NodesOf(list))'
      BY <1>0, <1>1, <2>1 DEF Deep, Nodes
    <3>4. CoveredNodes' = {} /\ DOMAIN due' = {} /\ DOMAIN restart' = {}
      BY <1>1, <1>5 DEF CoveredNodes, Covering
    <3> QED
      BY <3>1, <3>3, <3>4 DEF Nodes, Injective
  <2>4. Clock'
    BY <1>0, <1>1, <2>1 DEF Deep, Clock
  <2>5. Reading' /\ Covers'
    BY <1>1, <1>5 DEF Reading, Covers, Covering
  <2>6. \A at1, u : NewWait(at1, u)' = NewWait(at1, u) /\ Since(at1)' = Since(at1)
    BY <1>1 DEF NewWait, ToExpire, Diff, Since
  <2>7. Requests'
    <3>1. (\A i \in DOMAIN ring : ring[i].op = "start" =>
             \/ swi = "insert" /\ reset
             \/ /\ Line <= Since(ring[i].at) /\ Since(ring[i].at) <= Passed
                /\ swi # "insert" => Since(ring[i].at) >= 0)'
      <4>1. \A i \in DOMAIN ring' : ring'[i].op = "start" =>
             \/ swi = "insert" /\ reset
             \/ /\ Line <= Since(ring'[i].at) /\ Since(ring'[i].at) <= Passed
                /\ swi # "insert" => Since(ring'[i].at) >= 0
        BY <1>0, <1>4 DEF Deep, Requests
      <4> QED
        BY <1>1, <2>1, <2>6, <4>1
    <3>2. DOMAIN restart' = {}
      BY <1>1
    <3> QED
      BY <1>0, <1>1, <2>1, <3>1, <3>2 DEF Deep, Requests
  <2>8. Lefts'
    <3> SUFFICES ASSUME NEW u \in DOMAIN left PROVE InList(u)' \/ InRestart(u)' \/ InRing(u)'
      BY <1>1 DEF Lefts
    <3>3. CASE InList(u)
      BY <1>1, <1>2, <1>4, <1>5, <2>1, <3>3, InListKeeps
    <3>4. CASE InRestart(u)
      BY <1>1, <3>4 DEF InRestart
    <3>5. CASE InRing(u)
      <4>1. CASE ring[1].op = "start" /\ t = u
        <5>1. taken /\ Within(n - Passed - left[u])
          BY <1>3, <3>5, <4>1 DEF InRing
        <5>2. PICK j \in DOMAIN list' : list'[j].timer = t /\ Until(list', j) = n
          BY <2>1, <5>1
        <5>3. Within(D(j) - Passed - left[u])'
          BY <1>1, <2>1, <5>1, <5>2 DEF D, Within, Steady
        <5>4. ~StopWaits(u)'
          <6> SUFFICES ASSUME NEW i \in DOMAIN ring', ring'[i].op = "stop", ring'[i].timer = u
                       PROVE  FALSE
            BY DEF StopWaits
          <6>1. i \in Nat /\ i + 1 \in DOMAIN ring /\ ring[i + 1] = ring'[i]
            BY <1>4
          <6>2. i + 1 < 1
            BY <1>a, <3>5, <4>1, <6>1 DEF InRing, t
          <6> QED
            BY <6>1, <6>2
        <5>5. u \in running'
          BY <1>2, <4>1, <5>1
        <5>6. InList(u)'
          BY <4>1, <5>2, <5>3, <5>4, <5>5 DEF InList
        <5> QED
          BY <5>6
      <4>2. CASE ~(ring[1].op = "start" /\ t = u)
        <5>1. ~(taken /\ t = u)
          BY <4>2
        <5>2. u \notin running'
          BY <1>2, <3>5, <5>1 DEF InRing
        <5>3. u \in NodesOf(list') => u \in NodesOf(list)
          BY <2>1, <5>1
        <5>4. InRing(u)'
          BY <1>0, <1>1, <2>1, <3>5, <4>2, <5>2, <5>3, PopKeepsInRing DEF t
        <5> QED
          BY <5>4
      <4> QED
        BY <4>1, <4>2
    <3> QED
      BY <1>0, <3>3, <3>4, <3>5 DEF Deep, Lefts
  <2> QED
    BY <2>1, <2>2, <2>3, <2>4, <2>5, <2>7, <2>8 DEF Deep
<1> QED
  BY <1>6, <1>7

-----------------------------------------------------------------------------
(***************************************************************************)
(* SWI0: list_deletions_handler and expired_timers_handler.                *)
(***************************************************************************)
(* The ticks list_deletions_handler takes off, and the nodes it takes away *)
(* with them.                                                              *)
Gone == IF Covering THEN elapsed ELSE 0

Cut == IF Covering THEN Covered(Kept, elapsed) ELSE 0

(* Each node that is kept has the time it had.                             *)
LEMMA KeptIndex ==
  ASSUME ListTypeOK, Deep
  PROVE  /\ Kept \in NodeSeq /\ Unique(Kept) /\ Len(Kept) \in Nat /\ DOMAIN Kept = 1..Len(Kept)
         /\ NodesOf(Kept) = {t \in NodesOf(list) : ~StopWaits(t)}
         /\ list = <<>> => Kept = <<>>
         /\ \A k \in DOMAIN Kept : \E i \in DOMAIN list :
              /\ k <= i /\ list[i].timer = Kept[k].timer /\ Until(Kept, k) = D(i)
              /\ HeadOf(Kept) # HeadOf(list) => k + 1 <= i
              /\ HeadOf(Kept) = HeadOf(list) /\ k = 1 => i = 1
<1>1. list \in NodeSeq /\ Unique(list) /\ ring \in Seq(RingOps) /\ DOMAIN list = 1..Len(list)
      /\ Len(list) \in Nat
  BY Basics, UniqueList
<1>2. /\ Kept \in NodeSeq /\ SubList(Kept, list)
      /\ NodesOf(Kept) = {t \in NodesOf(list) : ~StopWaits(t)}
  BY <1>1, KeptDef
<1>3. Unique(Kept)
  BY <1>1, <1>2, SubListUnique
<1>4. Len(Kept) \in Nat /\ DOMAIN Kept = 1..Len(Kept)
  BY <1>2, NodeSeqType
<1>5. PICK f : Embeds(Kept, list, f)
  BY <1>2 DEF SubList
<1>6. /\ \A k \in 1..Len(Kept) : f[k] \in 1..Len(list) /\ (k - 1) + f[1] <= f[k] /\ k <= f[k]
      /\ \A k \in 1..Len(Kept) : Kept[k].timer = list[f[k]].timer
                                 /\ Until(Kept, k) = Until(list, f[k])
  BY <1>1, <1>2, <1>5, EmbedsGrows DEF Embeds
<1>7. ASSUME list = <<>> PROVE Kept = <<>>
  <2>1. Len(list) = 0
    BY <1>7
  <2>2. ~(1 \in 1..Len(Kept))
    BY <1>6, <2>1
  <2>3. Len(Kept) = 0
    BY <1>4, <2>2
  <2>4. Kept \in Seq([timer : Timers, wait : Nat])
    BY <1>2 DEF NodeSeq
  <2> QED
    BY <2>3, <2>4, EmptySeq
<1>8. ASSUME NEW k \in DOMAIN Kept
      PROVE  \E i \in DOMAIN list :
              /\ k <= i /\ list[i].timer = Kept[k].timer /\ Until(Kept, k) = D(i)
              /\ HeadOf(Kept) # HeadOf(list) => k + 1 <= i
              /\ HeadOf(Kept) = HeadOf(list) /\ k = 1 => i = 1
  <2>1. f[k] \in DOMAIN list /\ k <= f[k] /\ list[f[k]].timer = Kept[k].timer
        /\ Until(Kept, k) = D(f[k])
    BY <1>1, <1>4, <1>6 DEF D
  <2>2. 1 \in 1..Len(Kept) /\ f[1] \in 1..Len(list) /\ 1 \in DOMAIN list /\ k \in 1..Len(Kept)
        /\ (k - 1) + f[1] <= f[k]
    BY <1>1, <1>4, <1>6
  <2>3. HeadOf(Kept) = {Kept[1].timer} /\ HeadOf(list) = {list[1].timer}
    BY <1>1, <1>4, <2>2 DEF HeadOf
  <2>4. Kept[1].timer = list[f[1]].timer
    BY <1>6, <2>2
  <2>5. ASSUME HeadOf(Kept) # HeadOf(list) PROVE k + 1 <= f[k]
    <3>1. f[1] # 1
      BY <2>3, <2>4, <2>5
    <3>2. PICK a \in 1..Len(list), b \in 1..Len(list) : a = f[1] /\ b = f[k]
      BY <1>6, <2>2
    <3>3. a # 1 /\ (k - 1) + a <= b
      BY <2>2, <3>1, <3>2
    <3>4. a \in Int /\ a >= 2 /\ b \in Int /\ k \in Int
      BY <1>1, <1>4, <3>3
    <3>5. k + 1 <= b
      BY <3>3, <3>4
    <3> QED
      BY <3>2, <3>5
  <2>6. ASSUME HeadOf(Kept) = HeadOf(list), k = 1 PROVE f[k] = 1
    <3>1. list[f[1]].timer = list[1].timer
      BY <2>3, <2>4, <2>6
    <3> QED
      BY <1>1, <2>2, <2>6, <3>1 DEF Unique
  <2> QED
    BY <2>1, <2>5, <2>6
<1> QED
  BY <1>2, <1>3, <1>4, <1>7, <1>8

(* What the first step of timer_list_handler changes. *)
LEMMA DeleteFacts ==
  ASSUME ListTypeOK, Sound, Deep, SwiDelete
  PROVE  /\ swi = "idle" /\ ~rtc /\ ~rtcPend /\ due = <<>> /\ restart = <<>>
         /\ ~reset /\ ~clearing
         /\ swi' = "insert" /\ swiPend' = FALSE /\ elapsed' = None
         /\ reset' = Emptied /\ clearing' = Emptied
         /\ update' = (Covering \/ HeadOf(Kept) # HeadOf(list))
         /\ head' = HeadOf(list')
         /\ restart' = (IF Covering THEN Again(Kept, elapsed) ELSE <<>>)
         /\ UNCHANGED <<ring, running, pre, rtc, due, rtcPend, counter, compare,
                        ticking, busy, served, cycle, left, misread>>
         /\ Gone \in Nat /\ Gone <= Passed /\ Cut \in 0..Len(Kept)
         /\ (Covering => elapsed = Gone /\ list # <<>>)
         /\ Covering => \A k \in DOMAIN Kept : k <= Cut <=> Until(Kept, k) <= Gone
         /\ list' \in NodeSeq /\ Len(list') = Len(Kept) - Cut /\ DOMAIN list' = 1..Len(list')
         /\ \A i \in DOMAIN list' :
              /\ i \in Nat /\ Cut + i \in DOMAIN Kept
              /\ list'[i].timer = Kept[Cut + i].timer
              /\ Until(list', i) = Until(Kept, Cut + i) - Gone
         /\ latest' = (IF Emptied THEN 0 ELSE (latest + Gone) % CounterSize)
         /\ latest' \in Counters /\ Passed = Diff(counter, latest)
         /\ Rested' = Rested /\ Served' = Served
         /\ Passed' = (IF Emptied THEN 0 ELSE Passed - Gone)
         /\ Line' = (IF Emptied THEN -Rested ELSE Line - Gone)
<1>1. /\ swi = "idle" /\ ~rtc /\ ~rtcPend /\ swiPend
      /\ swi' = "insert" /\ swiPend' = FALSE /\ elapsed' = None
      /\ list' = (IF ~Covering THEN Kept ELSE Advanced(Kept, elapsed))
      /\ restart' = (IF Covering THEN Again(Kept, elapsed) ELSE <<>>)
      /\ latest' = (IF Emptied THEN 0
                    ELSE IF ~Covering THEN latest
                    ELSE (latest + elapsed) % CounterSize)
      /\ reset' = Emptied
      /\ clearing' = (clearing \/ Emptied)
      /\ update' = (Covering \/ HeadOf(Kept) # HeadOf(list))
      /\ head' = HeadOf(list')
      /\ UNCHANGED <<ring, running, pre, rtc, due, rtcPend, counter, compare,
                     ticking, busy, served, cycle, left, misread>>
  BY DEF SwiDelete, history, Covering
<1>2. due = <<>> /\ restart = <<>> /\ ~reset /\ ~clearing
  BY <1>1 DEF Deep, Turns
<1>3. clearing' = Emptied
  <2>1. clearing \in BOOLEAN
    BY DEF ListTypeOK
  <2> QED
    BY <1>1, <1>2, <2>1 DEF Emptied
<1>4. /\ counter \in Counters /\ latest \in Counters /\ Passed \in Nat /\ Passed < CounterSize
      /\ Rested \in Nat /\ Line = Passed - Rested
  BY Basics
<1>5. Passed = Diff(counter, latest)
  BY <1>2 DEF Passed
<1>6. Covering => elapsed \in Nat /\ elapsed <= Passed /\ list # <<>>
  <2>1. Covering => elapsed \in Counters
    BY DEF ListTypeOK, Covering
  <2> QED
    BY <2>1, CountersInt DEF Deep, Covers
<1>7. Gone \in Nat /\ Gone <= Passed /\ (Covering => elapsed = Gone)
  BY <1>4, <1>6 DEF Gone
<1>8. Kept \in NodeSeq /\ Len(Kept) \in Nat /\ DOMAIN Kept = 1..Len(Kept)
  BY KeptIndex
<1>9. /\ Cut \in 0..Len(Kept)
      /\ Covering => \A k \in DOMAIN Kept : k <= Cut <=> Until(Kept, k) <= Gone
  <2>1. CASE Covering
    <3>0. elapsed \in Int /\ Kept \in NodeSeq
      BY <1>6, <1>8, <2>1
    <3>1. Covered(Kept, elapsed) \in 0..Len(Kept)
          /\ \A k \in 1..Len(Kept) : k <= Covered(Kept, elapsed) <=> Until(Kept, k) <= elapsed
      BY <3>0, CoveredDef
    <3> QED
      BY <1>7, <1>8, <2>1, <3>1 DEF Cut
  <2>2. CASE ~Covering
    BY <1>8, <2>2 DEF Cut
  <2> QED
    BY <2>1, <2>2
<1>10. /\ list' \in NodeSeq /\ Len(list') = Len(Kept) - Cut /\ DOMAIN list' = 1..Len(list')
       /\ \A i \in DOMAIN list' :
            /\ i \in Nat /\ Cut + i \in DOMAIN Kept
            /\ list'[i].timer = Kept[Cut + i].timer
            /\ Until(list', i) = Until(Kept, Cut + i) - Gone
  <2>1. CASE Covering
    <3>1. list' = Advanced(Kept, elapsed) /\ Cut = Covered(Kept, elapsed) /\ Gone = elapsed
      BY <1>1, <1>7, <2>1 DEF Cut
    <3>2. /\ list' \in NodeSeq /\ Len(list') = Len(Kept) - Cut
          /\ \A i \in 1..Len(list') : /\ list'[i].timer = Kept[Cut + i].timer
                                      /\ Until(list', i) = Until(Kept, Cut + i) - Gone
      BY <1>6, <1>8, <2>1, <3>1, AdvancedDef
    <3>3. DOMAIN list' = 1..Len(list')
      BY <3>2, NodeSeqType
    <3>4. \A i \in 1..(Len(Kept) - Cut) : i \in Nat /\ Cut + i \in 1..Len(Kept)
      BY <1>8, <1>9
    <3> QED
      BY <1>8, <3>2, <3>3, <3>4
  <2>2. CASE ~Covering
    <3>1. list' = Kept /\ Cut = 0 /\ Gone = 0
      BY <1>1, <2>2 DEF Cut, Gone
    <3>2. \A i \in 1..Len(Kept) : i \in Nat /\ 0 + i = i /\ Until(Kept, i) - 0 = Until(Kept, i)
      <4>1. \A i \in 0..Len(Kept) : Until(Kept, i) \in Nat
        BY <1>8, UntilDef
      <4> QED
        BY <1>8, <4>1
    <3>3. Len(Kept) - 0 = Len(Kept)
      BY <1>8
    <3> QED
      BY <1>8, <3>1, <3>2, <3>3
  <2> QED
    BY <2>1, <2>2
<1>11. latest' = (IF Emptied THEN 0 ELSE (latest + Gone) % CounterSize) /\ latest' \in Counters
  <2>1. latest \in Int /\ 0 <= latest /\ latest < CounterSize
    BY <1>4, CountersInt
  <2>2. (latest + 0) % CounterSize = latest
    <3>1. latest + 0 = latest
      BY <2>1
    <3> QED
      BY <2>1, <3>1, WrapCases
  <2>3. (latest + Gone) % CounterSize \in Counters /\ 0 \in Counters
    <3>1. latest + Gone \in Int
      BY <1>7, <2>1
    <3> QED
      BY <3>1, WrapCases, ConstantsType DEF Counters
  <2>4. ~Covering => Gone = 0
    BY DEF Gone
  <2>5. latest' = (IF Emptied THEN 0 ELSE (latest + Gone) % CounterSize)
    BY <1>1, <1>7, <2>2, <2>4
  <2> QED
    BY <2>3, <2>5
<1>12. Rested' = Rested /\ Served' = Served
  BY <1>1 DEF Rested, Served, Idle
<1>13. Passed' = (IF Emptied THEN 0 ELSE Passed - Gone)
  <2>1. CASE Emptied
    BY <1>3, <2>1 DEF Passed
  <2>2. CASE ~Emptied
    <3>1. latest' = (latest + Gone) % CounterSize
      BY <1>11, <2>2
    <3>2. Gone < CounterSize /\ 0 <= Gone
      BY <1>4, <1>7, ConstantsType
    <3>3. Diff(counter, (latest + Gone) % CounterSize) = Diff(counter, latest) - Gone
      BY <1>4, <1>5, <1>7, <3>2, DiffOfAdvanced
    <3>4. Diff(counter', latest') = Passed - Gone
      BY <1>1, <1>5, <3>1, <3>3
    <3> QED
      BY <1>3, <2>2, <3>4 DEF Passed, Diff
  <2> QED
    BY <2>1, <2>2
<1>14. Line' = (IF Emptied THEN -Rested ELSE Line - Gone)
  <2>1. Line' = Passed' - Rested'
    BY DEF Line
  <2> DEFINE x == Passed'
  <2>2. x = (IF Emptied THEN 0 ELSE Passed - Gone) /\ Line' = x - Rested
    BY <1>12, <1>13, <2>1
  <2> HIDE DEF x
  <2> QED
    BY <1>4, <1>7, <2>2
<1> QED
  BY <1>1, <1>2, <1>3, <1>5, <1>6, <1>7, <1>9, <1>10, <1>11, <1>12, <1>13, <1>14

(* What is left of the list after list_deletions_handler and               *)
(* expired_timers_handler was in it, at the same place or later.           *)
LEMMA DeleteMoves ==
  ASSUME ListTypeOK, Sound, Deep, SwiDelete, NEW i \in DOMAIN list'
  PROVE  /\ ~Emptied /\ i \in Nat /\ i >= 1
         /\ \E g \in DOMAIN list :
              /\ i <= g /\ list[g].timer = list'[i].timer
              /\ Until(list', i) = D(g) - Gone /\ D(g) \in Nat
              /\ Covering => g > Covered(list, elapsed) /\ Line < D(g)
              /\ HeadOf(Kept) # HeadOf(list) => i + 1 <= g
              /\ ~update' /\ i = 1 => g = 1
<1>1. /\ i \in Nat /\ Cut + i \in DOMAIN Kept /\ list'[i].timer = Kept[Cut + i].timer
      /\ Until(list', i) = Until(Kept, Cut + i) - Gone
      /\ Cut \in 0..Len(Kept) /\ Gone \in Nat /\ DOMAIN list' = 1..Len(list')
      /\ Covering => elapsed = Gone
      /\ Covering => \A k \in DOMAIN Kept : k <= Cut <=> Until(Kept, k) <= Gone
      /\ update' = (Covering \/ HeadOf(Kept) # HeadOf(list))
  BY DeleteFacts
<1>2. Len(Kept) \in Nat /\ DOMAIN Kept = 1..Len(Kept)
  BY KeptIndex
<1>3. i >= 1 /\ Cut \in Nat /\ i <= Cut + i /\ ~(Cut + i <= Cut)
  BY <1>1, <1>2
<1>4. ~Emptied
  <2>1. Kept # <<>>
    BY <1>1
  <2> QED
    BY <2>1 DEF Emptied
<1>5. PICK g \in DOMAIN list :
        /\ Cut + i <= g /\ list[g].timer = Kept[Cut + i].timer /\ Until(Kept, Cut + i) = D(g)
        /\ HeadOf(Kept) # HeadOf(list) => (Cut + i) + 1 <= g
        /\ HeadOf(Kept) = HeadOf(list) /\ Cut + i = 1 => g = 1
  BY <1>1, KeptIndex
<1>6. g \in Nat /\ D(g) \in Nat /\ DOMAIN list = 1..Len(list) /\ Len(list) \in Nat /\ list \in NodeSeq
  <2>1. /\ DOMAIN list = 1..Len(list) /\ Len(list) \in Nat /\ list \in NodeSeq
        /\ \A j \in 0..Len(list) : D(j) \in Nat
    BY Basics
  <2>2. g \in 0..Len(list)
    BY <2>1
  <2> QED
    BY <2>1, <2>2
<1>7. i <= g /\ (HeadOf(Kept) # HeadOf(list) => i + 1 <= g)
  BY <1>1, <1>3, <1>5, <1>6
<1>8. ASSUME Covering PROVE g > Covered(list, elapsed) /\ Line < D(g)
  <2>1. ~(D(g) <= elapsed) /\ elapsed \in Int
    BY <1>1, <1>3, <1>5, <1>8
  <2>2. Covered(list, elapsed) \in 0..Len(list)
        /\ \A k \in 1..Len(list) : k <= Covered(list, elapsed) <=> Until(list, k) <= elapsed
    BY <1>6, <2>1, CoveredDef
  <2>3. ~(g <= Covered(list, elapsed))
    BY <1>6, <2>1, <2>2 DEF D
  <2>4. g > Covered(list, elapsed)
    BY <1>6, <2>2, <2>3
  <2> QED
    BY <1>8, <2>4 DEF Deep, Covers
<1>9. ASSUME ~update', i = 1 PROVE g = 1
  <2>1. ~Covering /\ HeadOf(Kept) = HeadOf(list)
    BY <1>1, <1>9
  <2>2. Cut = 0
    BY <2>1 DEF Cut
  <2>3. Cut + i = 1
    BY <1>9, <2>2
  <2> QED
    BY <1>5, <2>1, <2>3
<1> QED
  BY <1>1, <1>3, <1>4, <1>5, <1>6, <1>7, <1>8, <1>9

(* A request that waits keeps its distance to the counter.                 *)
LEMMA DeleteSince ==
  ASSUME ListTypeOK, Sound, Deep, SwiDelete, NEW at \in Counters,
         Timers # {}, 0 <= Since(at), Line <= Since(at), ~Emptied
  PROVE  Since(at)' = Since(at) - Gone
<1>1. /\ Gone \in Nat /\ Gone <= Passed /\ latest' = (latest + Gone) % CounterSize
  BY DeleteFacts
<1>2. /\ latest \in Counters /\ Passed \in Nat /\ Passed < CounterSize
      /\ Rested \in Nat /\ Rested <= Slack /\ Line = Passed - Rested
  BY Basics
<1>3. Since(at) < Half /\ Diff(at, latest) = Since(at) /\ Since(at) \in Int
  <2>1. Since(at) < Half
    BY <1>2, SinceSmall
  <2>2. Diff(at, latest) \in Int /\ Diff(at, latest) < CounterSize
    BY <1>2, CountersInt, WrapCases DEF Diff
  <2>3. Diff(at, latest) = Since(at)
    BY <2>2, ConstantsType DEF Since
  <2> QED
    BY <2>1, <2>2, <2>3
<1>4. /\ Gone < CounterSize /\ Diff(at, latest) < Gone + Half
      /\ Gone - Diff(at, latest) <= CounterSize - Half
  <2>1. /\ CounterSize \in Int /\ Half \in Nat /\ 2 * Half < CounterSize /\ Slack \in Nat
        /\ Behind \in Nat
    BY ConstantsType
  <2>2. Slack <= CounterSize - Half
    <3>1. Half >= 1 /\ Half + Behind + Slack < CounterSize
      BY ConstantFacts
    <3> QED
      BY <2>1, <3>1
  <2> QED
    BY <1>1, <1>2, <1>3, <2>1, <2>2
<1>5. (IF Diff(at, latest') < Half THEN Diff(at, latest') ELSE Diff(at, latest') - CounterSize)
        = Diff(at, latest) - Gone
  BY <1>1, <1>2, <1>4, SinceMoves
<1>6. Since(at)' = (IF Diff(at, latest') < Half THEN Diff(at, latest')
                    ELSE Diff(at, latest') - CounterSize)
  BY DEF Since, Diff
<1> QED
  BY <1>3, <1>5, <1>6

(* A repeating timer that has expired starts again at the time of its      *)
(* expiry.                                                                 *)
LEMMA DeleteAgain ==
  ASSUME ListTypeOK, Sound, Deep, SwiDelete
  PROVE  /\ restart' \in Seq(Restarts)
         /\ \A i, j \in DOMAIN restart' : restart'[i].timer = restart'[j].timer => i = j
         /\ restart' # <<>> => Covering /\ ticking /\ ~Emptied
         /\ \A i \in DOMAIN list : list[i].timer \in Repeating /\ Covering
              /\ i <= Covered(list, elapsed) /\ ~StopWaits(list[i].timer) =>
                \E j \in DOMAIN restart' : restart'[j].timer = list[i].timer
         /\ \A j \in DOMAIN restart' : \E g \in DOMAIN list : \E u \in Repeating :
              \E at \in Counters : \E w \in Int :
              /\ list[g].timer = u /\ restart'[j].timer = u /\ restart'[j].at = at
              /\ ~StopWaits(u) /\ g <= Covered(list, elapsed)
              /\ D(g) \in Nat /\ D(g) <= Gone
              /\ w = (D(g) - Gone) + Interval[u]
              /\ NewWait(at, u)' = w
              /\ (Line - Gone) + Slack < w /\ w <= Longest
<1>1. /\ Gone \in Nat /\ Gone <= Passed /\ Cut \in 0..Len(Kept)
      /\ (Covering => elapsed = Gone /\ list # <<>>)
      /\ restart' = (IF Covering THEN Again(Kept, elapsed) ELSE <<>>)
      /\ Covering => \A k \in DOMAIN Kept : k <= Cut <=> Until(Kept, k) <= Gone
      /\ latest' = (IF Emptied THEN 0 ELSE (latest + Gone) % CounterSize)
      /\ swi = "idle"
  BY DeleteFacts
<1>2. /\ Kept \in NodeSeq /\ Unique(Kept) /\ Len(Kept) \in Nat /\ DOMAIN Kept = 1..Len(Kept)
      /\ NodesOf(Kept) = {t \in NodesOf(list) : ~StopWaits(t)}
  BY KeptIndex
<1>3. /\ latest \in Counters /\ Passed \in Nat /\ Passed < CounterSize
      /\ Rested \in Nat /\ Rested <= Slack /\ Line = Passed - Rested /\ Line \in Int
      /\ list \in NodeSeq /\ Len(list) \in Nat /\ DOMAIN list = 1..Len(list)
  BY Basics
<1>4. CASE ~Covering
  <2>1. restart' = <<>>
    BY <1>1, <1>4
  <2> QED
    BY <1>4, <2>1
<1>5. CASE Covering
  <2> DEFINE r == Again(Kept, Gone)
  <2>1. restart' = r /\ Cut = Covered(Kept, Gone) /\ elapsed = Gone
    BY <1>1, <1>5 DEF Cut
  <2>2. /\ r \in Seq(Restarts)
        /\ \A j \in DOMAIN r : \E k \in 1..Cut :
             r[j].timer = Kept[k].timer /\ r[j].at = (latest + Until(Kept, k)) % CounterSize
        /\ \A k \in 1..Cut : Kept[k].timer \in Repeating =>
             \E j \in DOMAIN r : r[j].timer = Kept[k].timer
        /\ \A i, j \in DOMAIN r : r[i].timer = r[j].timer => i = j
    <3>1. Gone \in Nat /\ Covered(Kept, Gone) = Cut
      BY <1>1, <2>1
    <3>2. /\ r \in Seq(Restarts)
          /\ \A j \in DOMAIN r : \E k \in 1..Covered(Kept, Gone) :
               r[j].timer = Kept[k].timer /\ r[j].at = (latest + Until(Kept, k)) % CounterSize
          /\ \A k \in 1..Covered(Kept, Gone) : Kept[k].timer \in Repeating =>
               \E j \in DOMAIN r : r[j].timer = Kept[k].timer
          /\ \A i, j \in DOMAIN r : r[i].timer = r[j].timer => i = j
      BY <1>2, <1>3, <3>1, AgainDef
    <3> HIDE DEF r
    <3> QED
      BY <3>1, <3>2
  <2>3. \A j \in DOMAIN r : r[j].timer \in Repeating /\ r[j].at \in Counters
    <3>1. \A j \in DOMAIN r : r[j] \in Restarts
      BY <2>2
    <3> QED
      BY <3>1 DEF Restarts
  <2> HIDE DEF r
  <2>4. ASSUME restart' # <<>> PROVE ticking /\ ~Emptied
    <3>1. DOMAIN r # {}
      <4>1. Len(r) \in Nat /\ DOMAIN r = 1..Len(r)
        BY <2>2
      <4>2. Len(r) # 0
        BY <2>1, <2>2, <2>4, EmptySeq
      <4> QED
        BY <4>1, <4>2
    <3>2. 1..Cut # {}
      BY <2>2, <3>1
    <3>3. Kept # <<>>
      <4>1. CASE Kept = <<>>
        <5>1. Len(Kept) = 0
          BY <4>1
        <5> QED
          BY <1>1, <3>2, <5>1
      <4> QED
        BY <4>1
    <3> QED
      BY <1>1, <1>5, <3>3 DEF Emptied, Deep, Clock
  <2>5. ASSUME NEW i \in DOMAIN list, list[i].timer \in Repeating,
               i <= Covered(list, elapsed), ~StopWaits(list[i].timer)
        PROVE  \E j \in DOMAIN r : r[j].timer = list[i].timer
    <3>1. list[i].timer \in NodesOf(Kept)
      BY <1>2, <2>5 DEF NodesOf
    <3>2. PICK k \in DOMAIN Kept : Kept[k].timer = list[i].timer
      BY <3>1 DEF NodesOf
    <3>3. PICK g \in DOMAIN list : list[g].timer = Kept[k].timer /\ Until(Kept, k) = D(g)
      BY KeptIndex
    <3>4. g = i
      BY <3>2, <3>3, UniqueList DEF Unique
    <3>5. D(i) <= Gone
      <4>1. Gone \in Int
        BY <1>1
      <4>2. \A m \in 1..Len(list) : m <= Covered(list, Gone) <=> Until(list, m) <= Gone
        BY <1>3, <4>1, CoveredDef
      <4> QED
        BY <1>3, <2>1, <2>5, <4>2 DEF D
    <3>6. k <= Cut
      BY <1>1, <1>5, <3>3, <3>4, <3>5
    <3>7. k \in 1..Cut
      BY <1>1, <1>2, <3>6
    <3> QED
      BY <2>2, <2>5, <3>2, <3>7
  <2>6. ASSUME NEW j \in DOMAIN r
        PROVE  \E g \in DOMAIN list : \E u \in Repeating :
                 \E at \in Counters : \E w \in Int :
                 /\ list[g].timer = u /\ r[j].timer = u /\ r[j].at = at
                 /\ ~StopWaits(u) /\ g <= Covered(list, elapsed)
                 /\ D(g) \in Nat /\ D(g) <= Gone
                 /\ w = (D(g) - Gone) + Interval[u]
                 /\ NewWait(at, u)' = w
                 /\ (Line - Gone) + Slack < w /\ w <= Longest
    <3>1. PICK k \in 1..Cut :
            r[j].timer = Kept[k].timer /\ r[j].at = (latest + Until(Kept, k)) % CounterSize
      BY <2>2
    <3>2. k \in DOMAIN Kept /\ k <= Cut
      BY <1>1, <1>2
    <3>3. PICK g \in DOMAIN list : list[g].timer = Kept[k].timer /\ Until(Kept, k) = D(g)
      BY <3>2, KeptIndex
    <3>a. PICK u \in Repeating : u = list[g].timer /\ r[j].timer = u
      BY <2>3, <3>1, <3>3
    <3>b. PICK x \in Nat : x = D(g)
      <4>1. D(g) \in Nat
        BY AllowedFacts, UniqueList
      <4> QED
        BY <4>1
    <3>4. /\ g \in Nat /\ x \in Nat /\ x <= Gone /\ Line <= x + Allowed(g) /\ Allowed(g) \in Int
          /\ Allowed(g) <= Behind /\ Allowed(g) <= Wait[u] + Offsets /\ Wait[u] \in Nat
      <4>1. Unique(list)
        BY UniqueList
      <4> QED
        BY <1>1, <1>5, <3>2, <3>3, <3>a, <3>b, <4>1, AllowedFacts DEF Deep, NoWrap
    <3>5. /\ u \in Repeating /\ u \in Timers /\ Interval[u] \in Int
          /\ Interval[u] > Wait[u] + Offsets + Slack /\ Offsets \in Nat
          /\ r[j].timer = u /\ Interval[u] <= Longest /\ Longest \in Int
          /\ Half + Behind + Slack < CounterSize /\ Interval[u] \in Nat
      <4>2. u \in Timers
        BY ConstantFacts
      <4> QED
        BY <3>a, <4>2, ConstantFacts, ConstantsType
    <3>6. ~StopWaits(u)
      <4>1. u \in NodesOf(Kept)
        BY <3>2, <3>3, <3>a DEF NodesOf
      <4> QED
        BY <1>2, <4>1
    <3>7. g <= Covered(list, elapsed)
      <4>1. Gone \in Int
        BY <1>1
      <4>2. \A m \in 1..Len(list) : m <= Covered(list, Gone) <=> Until(list, m) <= Gone
        BY <1>3, <4>1, CoveredDef
      <4> QED
        BY <1>3, <2>1, <3>4, <3>b, <4>2 DEF D
    <3>8. PICK at \in Counters : Diff(at, latest) = x /\ r[j].at = at /\ at = (latest + x) % CounterSize
      <4>1. x \in Int /\ -CounterSize < x /\ x < CounterSize /\ 0 <= x
        BY <1>1, <1>3, <3>4, ConstantsType
      <4> QED
        BY <1>3, <3>1, <3>3, <3>b, <4>1, DiffOfWrap
    <3>9. latest' = (latest + Gone) % CounterSize
      <4>1. Kept # <<>>
        BY <3>2
      <4> QED
        BY <1>1, <4>1 DEF Emptied
    <3>10. /\ CounterSize \in Int /\ Half \in Nat /\ Behind \in Nat /\ Slack \in Nat
           /\ Gone \in Int /\ Gone <= Passed /\ Line = Passed - Rested /\ Rested <= Slack
           /\ Passed \in Int /\ Rested \in Int /\ Line \in Int /\ Half >= 1
      BY <1>1, <1>3, <3>5, ConstantsType, ConstantFacts
    <3>11. PICK w \in Int : w = (x - Gone) + Interval[u] /\ w >= 0
                             /\ (Line - Gone) + Slack < w /\ w <= Longest
      <4>1. LET w == (x - Gone) + Interval[u]
            IN  w \in Int /\ w >= 0 /\ (Line - Gone) + Slack < w /\ w <= Longest
        BY <3>4, <3>5, <3>10
      <4> QED
        BY <4>1
    <3>12. ToExpire(at, latest', Interval[u]) = w
      <4>1. Gone < CounterSize /\ Diff(at, latest) < Gone + Half
            /\ Gone - Diff(at, latest) <= CounterSize - Half
        <5>1. Gone - x <= Behind + Slack
          BY <3>4, <3>10
        <5>2. Passed < CounterSize
          BY <1>3
        <5> QED
          BY <3>4, <3>5, <3>8, <3>10, <5>1, <5>2
      <4>2. ToExpire(at, latest', Interval[u])
              = IF (x - Gone) + Interval[u] >= 0 THEN (x - Gone) + Interval[u] ELSE 0
        <5>1. Gone \in Nat /\ latest \in Counters /\ at \in Counters
          BY <1>1, <1>3
        <5>2. \A n \in Nat : ToExpire(at, (latest + Gone) % CounterSize, n)
                = IF (Diff(at, latest) - Gone) + n >= 0
                  THEN (Diff(at, latest) - Gone) + n ELSE 0
          BY <4>1, <5>1, SinceMoves
        <5> QED
          BY <3>5, <3>8, <3>9, <5>2
      <4> QED
        BY <3>11, <4>2
    <3>13. NewWait(at, u)' = w
      BY <3>12 DEF NewWait, ToExpire, Diff
    <3> QED
      BY <3>a, <3>b, <3>4, <3>6, <3>7, <3>8, <3>11, <3>13
  <2> QED
    BY <1>5, <2>1, <2>2, <2>4, <2>5, <2>6
<1> QED
  BY <1>4, <1>5

(* After that step, the requests and the restarts are ahead of the line. *)
LEMMA DeleteRequests ==
  ASSUME ListTypeOK, Sound, Deep, SwiDelete
  PROVE  Requests'
<1>1. /\ swi = "idle" /\ ~reset /\ swi' = "insert" /\ reset' = Emptied /\ ring' = ring
      /\ Gone \in Nat
      /\ Passed' = (IF Emptied THEN 0 ELSE Passed - Gone)
      /\ Line' = (IF Emptied THEN -Rested ELSE Line - Gone)
  BY DeleteFacts
<1>2. /\ Passed \in Nat /\ Rested \in Nat /\ Line \in Int
  BY Basics
<1>3. (swi = "insert" /\ reset => Line <= 0)'
  <2>1. Emptied => Line' = -Rested
    BY <1>1
  <2>2. -Rested <= 0
    BY <1>2
  <2> QED
    BY <1>1, <2>1, <2>2
<1>4. \A j \in DOMAIN restart' : \E u \in Repeating : \E at \in Counters : \E w \in Int :
        /\ restart'[j].timer = u /\ restart'[j].at = at /\ NewWait(at, u)' = w
        /\ Line' + Slack < w /\ w <= Longest
  <2> SUFFICES ASSUME NEW j \in DOMAIN restart'
               PROVE  \E u \in Repeating : \E at \in Counters : \E w \in Int :
        /\ restart'[j].timer = u /\ restart'[j].at = at /\ NewWait(at, u)' = w
        /\ Line' + Slack < w /\ w <= Longest
    OBVIOUS
  <2>1. \E g \in DOMAIN list : \E u \in Repeating :
              \E at \in Counters : \E w \in Int :
              /\ restart'[j].timer = u /\ restart'[j].at = at
              /\ NewWait(at, u)' = w
              /\ (Line - Gone) + Slack < w /\ w <= Longest
    BY DeleteAgain
  <2>2. restart' # <<>>
    OBVIOUS
  <2>3. ~Emptied
    BY <2>2, DeleteAgain
  <2>4. Line' = Line - Gone
    BY <1>1, <2>3
  <2> QED
    BY <2>1, <2>4
<1>5. (\A i \in DOMAIN restart :
         /\ Line + Slack < NewWait(restart[i].at, restart[i].timer)
         /\ NewWait(restart[i].at, restart[i].timer) <= Longest)'
  BY <1>4
<1>6. (\A i \in DOMAIN ring : ring[i].op = "start" =>
         \/ swi = "insert" /\ reset
         \/ /\ Line <= Since(ring[i].at) /\ Since(ring[i].at) <= Passed
            /\ swi # "insert" => Since(ring[i].at) >= 0)'
  <2>1. CASE Emptied
    BY <1>1, <2>1
  <2>2. CASE ~Emptied
    <3> SUFFICES ASSUME NEW i \in DOMAIN ring, ring[i].op = "start"
                 PROVE  Line' <= Since(ring[i].at)' /\ Since(ring[i].at)' <= Passed'
      BY <1>1
    <3>1. Line <= Since(ring[i].at) /\ Since(ring[i].at) <= Passed /\ Since(ring[i].at) >= 0
      BY <1>1 DEF Deep, Requests
    <3>2. ring[i].at \in Counters /\ Timers # {}
      <4>1. ring[i] \in RingOps
        BY Basics
      <4> QED
        BY <3>1, <4>1 DEF RingOps
    <3>3. PICK at \in Counters : at = ring[i].at
      BY <3>2
    <3>4. Since(at)' = Since(at) - Gone
      BY <2>2, <3>1, <3>2, <3>3, DeleteSince
    <3>5. Since(at) \in Int
      BY Basics, SinceFacts
    <3>6. Since(ring[i].at)' = Since(at)'
      BY <1>1, <3>3
    <3> DEFINE s == Since(at)
               s2 == Since(at)'
               l2 == Line'
               p2 == Passed'
    <3>7. s2 = s - Gone /\ s \in Int /\ Line <= s /\ s <= Passed /\ l2 = Line - Gone /\ p2 = Passed - Gone
      BY <1>1, <2>2, <3>1, <3>3, <3>4, <3>5
    <3>8. l2 <= s2 /\ s2 <= p2
      <4> HIDE DEF s, s2, l2, p2
      <4> QED
        BY <1>1, <1>2, <3>7
    <3> QED
      BY <3>6, <3>8
  <2> QED
    BY <2>1, <2>2
<1> QED
  BY <1>3, <1>5, <1>6 DEF Requests

(* The types after that step. *)
LEMMA DeleteTypes ==
  ASSUME ListTypeOK, Sound, Deep, SwiDelete
  PROVE  ListTypeOK'
<1>1. /\ swi' = "insert" /\ swiPend' = FALSE /\ elapsed' = None
      /\ reset' = Emptied /\ clearing' = Emptied
      /\ update' = (Covering \/ HeadOf(Kept) # HeadOf(list))
      /\ head' = HeadOf(list')
      /\ UNCHANGED <<ring, running, pre, rtc, due, rtcPend, counter, compare,
                     ticking, busy, served, cycle, left, misread>>
      /\ list' \in NodeSeq /\ DOMAIN list' = 1..Len(list')
      /\ latest' \in Counters /\ Gone \in Nat
  BY DeleteFacts
<1>2. list' \in Seq([timer : Timers, wait : 0..(2 * CounterSize)])
  <2>1. ASSUME NEW i \in 1..Len(list') PROVE Until(list', i) <= 2 * CounterSize
    <3>1. i \in DOMAIN list'
      BY <1>1
    <3>2. PICK g \in DOMAIN list : Until(list', i) = D(g) - Gone /\ D(g) \in Nat
      BY <3>1, DeleteMoves
    <3>3. D(g) <= Longest /\ Longest \in Int
      BY ConstantFacts DEF Deep, NoWrap
    <3>4. Longest <= CounterSize - 1 /\ CounterSize \in Nat
      BY ConstantsType DEF Longest
    <3> QED
      BY <1>1, <3>2, <3>3, <3>4
  <2> QED
    BY <1>1, <2>1, WaitsBounded
<1>3. restart' \in Seq([timer : Repeating, at : Counters])
  BY DeleteAgain DEF Restarts
<1>4. head' \subseteq Timers
  <2>1. \A i \in 1..Len(list') : list'[i].timer \in Timers
    BY <1>1, NodeSeqType
  <2>2. list' # <<>> => 1 \in 1..Len(list')
    <3>1. Len(list') \in Nat
      BY <1>1
    <3>2. Len(list') = 0 => list' = <<>>
      <4>1. list' \in Seq([timer : Timers, wait : Nat])
        BY <1>1 DEF NodeSeq
      <4> QED
        BY <4>1, EmptySeq
    <3> QED
      BY <3>1, <3>2
  <2> QED
    BY <1>1, <2>1, <2>2 DEF HeadOf
<1>5. {reset, update, rtc, swiPend, rtcPend, ticking, clearing, cycle, misread}' \subseteq BOOLEAN
  <2>1. Emptied \in BOOLEAN /\ (Covering \/ HeadOf(Kept) # HeadOf(list)) \in BOOLEAN
    BY DEF Emptied
  <2>2. reset' \in BOOLEAN /\ clearing' \in BOOLEAN /\ update' \in BOOLEAN /\ swiPend' \in BOOLEAN
    BY <1>1, <2>1
  <2>3. {rtc', rtcPend', ticking', cycle', misread'} \subseteq BOOLEAN
    BY <1>1 DEF ListTypeOK
  <2> QED
    BY <2>2, <2>3
<1>6. elapsed' \in Counters \cup {None} /\ swi' \in {"idle", "insert", "update", "set", "check", "stop"}
  BY <1>1
<1> QED
  BY <1>1, <1>2, <1>3, <1>4, <1>5, <1>6 DEF ListTypeOK, RingOps, Counters

(* Who is at work after that step. *)
LEMMA DeleteTurns ==
  ASSUME ListTypeOK, Sound, Deep, SwiDelete
  PROVE  Turns' /\ Reading' /\ Covers'
<1>1. /\ ~rtc /\ ~rtcPend /\ due = <<>>
      /\ swi' = "insert" /\ swiPend' = FALSE /\ elapsed' = None
      /\ reset' = Emptied /\ clearing' = Emptied
      /\ update' = (Covering \/ HeadOf(Kept) # HeadOf(list))
      /\ latest' = (IF Emptied THEN 0 ELSE (latest + Gone) % CounterSize)
      /\ UNCHANGED <<ring, rtc, due, rtcPend, ticking>>
  BY DeleteFacts
<1>2. Emptied => HeadOf(Kept) # HeadOf(list)
  <2>1. list \in NodeSeq
    BY Basics
  <2> QED
    BY <2>1, ListHead DEF Emptied, HeadOf
<1>3. ~Covering'
  BY <1>1 DEF Covering
<1>4. Turns'
  BY <1>1, <1>2, <1>3 DEF Turns
<1> QED
  BY <1>1, <1>3, <1>4 DEF Reading, Covers

(* What each node is in after that step. *)
LEMMA DeleteNodes ==
  ASSUME ListTypeOK, Sound, Deep, SwiDelete
  PROVE  Nodes' /\ NodesOf(list') \subseteq NodesOf(Kept)
<1>1. /\ due' = <<>> /\ elapsed' = None /\ head' = HeadOf(list')
      /\ list' \in NodeSeq /\ Cut \in 0..Len(Kept)
      /\ \A i \in DOMAIN list' :
           i \in Nat /\ Cut + i \in DOMAIN Kept /\ list'[i].timer = Kept[Cut + i].timer
  BY DeleteFacts
<1>2. Unique(Kept) /\ Len(Kept) \in Nat
  BY KeptIndex
<1>3. ASSUME NEW i \in DOMAIN list', NEW j \in DOMAIN list', list'[i].timer = list'[j].timer
      PROVE  i = j
  <2>1. Cut + i = Cut + j
    BY <1>1, <1>2, <1>3 DEF Unique
  <2> QED
    BY <1>1, <1>2, <2>1
<1>4. \A i, j \in DOMAIN restart' : restart'[i].timer = restart'[j].timer => i = j
  BY DeleteAgain
<1>5. CoveredNodes' = {} /\ DOMAIN due' = {}
  BY <1>1 DEF CoveredNodes
<1>6. head' \subseteq NodesOf(list')
  <2>1. list' # <<>> => 1 \in DOMAIN list' /\ HeadOf(list') = {list'[1].timer}
    BY <1>1, ListHead
  <2> QED
    BY <1>1, <2>1 DEF HeadOf, NodesOf
<1>7. NodesOf(list') \subseteq NodesOf(Kept)
  BY <1>1 DEF NodesOf
<1>8. (\A i, j \in DOMAIN list : list[i].timer = list[j].timer => i = j)'
  BY <1>3
<1>9. (\A i, j \in DOMAIN restart : restart[i].timer = restart[j].timer => i = j)'
  BY <1>4
<1>10. (swi = "insert" => head \subseteq NodesOf(list))'
  BY <1>6
<1> QED
  BY <1>5, <1>7, <1>8, <1>9, <1>10 DEF Nodes, Injective

(* RTC1 after that step. *)
LEMMA DeleteClock ==
  ASSUME ListTypeOK, Sound, Deep, SwiDelete
  PROVE  Clock'
<1>1. /\ swi = "idle" /\ swi' = "insert" /\ reset' = Emptied
      /\ update' = (Covering \/ HeadOf(Kept) # HeadOf(list))
      /\ UNCHANGED <<ring, counter, ticking>>
  BY DeleteFacts
<1>2. /\ list' = (IF ~Covering THEN Kept ELSE Advanced(Kept, elapsed))
      /\ latest' = (IF Emptied THEN 0
                    ELSE IF ~Covering THEN latest
                    ELSE (latest + elapsed) % CounterSize)
  BY DEF SwiDelete, Covering
<1>3. ticking <=> list # <<>>
  BY <1>1 DEF Deep, Clock
<1>4. (~ticking /\ swi # "stop" => counter = 0 /\ latest = 0)'
  BY <1>1, <1>2, <1>3 DEF Deep, Clock, Covers, Emptied
<1>5. (swi = "insert" /\ ~update /\ HeadOf(list) = head => (ticking <=> list # <<>>))'
  <2> SUFFICES ASSUME ~update' PROVE ticking' <=> list' # <<>>
    BY DEF HeadOf
  <2>1. list' = Kept /\ HeadOf(Kept) = HeadOf(list)
    BY <1>1, <1>2
  <2>2. list \in NodeSeq /\ Kept \in NodeSeq
    BY Basics, KeptIndex
  <2>3. Kept # <<>> <=> list # <<>>
    BY <2>1, <2>2, ListHead
  <2> QED
    BY <1>1, <1>3, <2>1, <2>3
<1>6. (restart # <<>> => ticking /\ ~reset)'
  BY <1>1, DeleteAgain
<1> QED
  BY <1>1, <1>4, <1>5, <1>6 DEF Clock

(* The distances and COMPARE after that step. *)
LEMMA DeleteArmed ==
  ASSUME ListTypeOK, Sound, Deep, SwiDelete
  PROVE  NoWrap' /\ Armed'
<1>1. /\ swi = "idle" /\ ~rtcPend /\ ~rtc /\ swi' = "insert" /\ rtcPend' = rtcPend
      /\ update' = (Covering \/ HeadOf(Kept) # HeadOf(list)) /\ head' = HeadOf(list')
      /\ UNCHANGED <<ticking, compare>>
      /\ list' \in NodeSeq /\ DOMAIN list' = 1..Len(list')
      /\ Gone \in Nat
      /\ Passed' = (IF Emptied THEN 0 ELSE Passed - Gone)
      /\ Line' = (IF Emptied THEN -Rested ELSE Line - Gone)
  BY DeleteFacts
<1>2. /\ Passed \in Nat /\ Rested \in Nat /\ Line \in Int /\ list \in NodeSeq
  BY Basics
<1>3. /\ Longest \in Int /\ CounterSize - 1 - Slack = Longest + Behind /\ Behind \in Nat
      /\ CompareOffset \in Nat /\ Slack \in Nat /\ CounterSize \in Nat /\ CompareOffset >= 2
  BY ConstantFacts, ConstantsType
<1>4. ASSUME NEW i \in DOMAIN list'
      PROVE  \E g \in DOMAIN list : \E a \in Int :
               /\ ~Emptied /\ i \in Nat /\ g \in Nat /\ i <= g
               /\ Until(list', i) = D(g) - Gone /\ D(g) \in Nat
               /\ Covering => Line < D(g)
               /\ ~update' /\ i = 1 => g = 1
               /\ a = Allowed(i)' /\ Allowed(g) \in Int /\ Allowed(g) <= a
               /\ HeadOf(Kept) # HeadOf(list) => Allowed(g) + (CompareOffset - 1) <= a
               /\ D(g) <= Longest /\ Line <= D(g) + Allowed(g)
  <2>1. /\ ~Emptied /\ i \in Nat /\ i >= 1
    BY DeleteMoves
  <2>2. PICK g \in DOMAIN list :
              /\ i <= g /\ list[g].timer = list'[i].timer
              /\ Until(list', i) = D(g) - Gone /\ D(g) \in Nat
              /\ Covering => g > Covered(list, elapsed) /\ Line < D(g)
              /\ HeadOf(Kept) # HeadOf(list) => i + 1 <= g
              /\ ~update' /\ i = 1 => g = 1
    BY DeleteMoves
  <2>3. g \in Nat
    BY AllowedFacts, UniqueList
  <2>t. PICK t \in Timers : t = list[g].timer /\ t = list'[i].timer
    BY <2>2, AllowedFacts, UniqueList
  <2>a. PICK a \in Int : a = Allow(t, i)
    BY <2>1, ConstantFacts
  <2>4. a = Allowed(i)' /\ Allowed(g) = Allow(t, g) /\ Allowed(g) \in Int /\ Allowed(g) <= a
    <3>1. a = Allowed(i)'
      BY <2>t, <2>a DEF Allowed, Allow
    <3>2. Allowed(g) = Allow(t, g)
      BY <2>t DEF Allowed
    <3> QED
      BY <2>1, <2>2, <2>3, <2>a, <3>1, <3>2, ConstantFacts
  <2>5. HeadOf(Kept) # HeadOf(list) => Allowed(g) + (CompareOffset - 1) <= a
    <3>1. HeadOf(Kept) # HeadOf(list) => i < g
      BY <2>1, <2>2, <2>3
    <3> QED
      BY <2>1, <2>3, <2>4, <2>a, <3>1, ConstantFacts
  <2>6. D(g) <= Longest /\ Line <= D(g) + Allowed(g)
    BY DEF Deep, NoWrap
  <2> QED
    BY <2>1, <2>2, <2>3, <2>4, <2>5, <2>6
<1>5. NoWrap'
  <2>1. ASSUME ticking PROVE Line' <= CounterSize - 1 - Slack
    <3>1. Line <= CounterSize - 1 - Slack /\ list # <<>>
      BY <1>1, <2>1 DEF Deep, NoWrap, Clock
    <3>2. 0 <= Longest
      <4>1. 1 \in DOMAIN list
        BY <1>2, <3>1, ListHead
      <4>2. D(1) <= Longest /\ D(1) \in Nat
        BY <4>1, AllowedFacts, UniqueList DEF Deep, NoWrap
      <4> QED
        BY <1>3, <4>2
    <3> QED
      BY <1>1, <1>2, <1>3, <3>1, <3>2
  <2>2. ASSUME NEW i \in DOMAIN list'
        PROVE  Until(list', i) <= Longest /\ Line' <= Until(list', i) + Allowed(i)'
    <3>1. PICK g \in DOMAIN list, a \in Int :
               /\ ~Emptied
               /\ Until(list', i) = D(g) - Gone /\ D(g) \in Nat
               /\ a = Allowed(i)' /\ Allowed(g) \in Int /\ Allowed(g) <= a
               /\ D(g) <= Longest /\ Line <= D(g) + Allowed(g)
      BY <1>4
    <3>2. Line' = Line - Gone
      BY <1>1, <3>1
    <3> DEFINE y == Line'
    <3>3. y = Line - Gone
      BY <3>2
    <3> HIDE DEF y
    <3>4. Until(list', i) <= Longest /\ y <= Until(list', i) + a
      <4>1. Gone \in Nat /\ Line \in Int /\ Longest \in Int
        BY <1>1, <1>2, <1>3
      <4> QED
        BY <3>1, <3>3, <4>1
    <3> QED
      BY <3>1, <3>4 DEF y
  <2>3. (\A i \in DOMAIN list : D(i) <= Longest /\ Line <= D(i) + Allowed(i))'
    BY <2>2 DEF D
  <2>4. (ticking => Line <= CounterSize - 1 - Slack)'
    BY <1>1, <2>1
  <2> QED
    BY <2>3, <2>4 DEF NoWrap
<1>6. ASSUME ~Covering, ~Emptied, list # <<>>
      PROVE  Ahead' = Ahead /\ Gone = 0 /\ Line' = Line /\ Passed' = Passed /\ Set /\ Ahead \in Nat
  <2>1. latest' = latest
    BY <1>6 DEF SwiDelete, Covering
  <2>2. Gone = 0
    BY <1>6 DEF Gone
  <2>3. Ahead' = Ahead
    BY <1>1, <2>1 DEF Ahead, Diff
  <2>4. Line' = Line /\ Passed' = Passed
    <3>1. Line - 0 = Line /\ Passed - 0 = Passed
      BY <1>2
    <3> QED
      BY <1>1, <1>6, <2>2, <3>1
  <2>5. Set
    BY <1>1, <1>6 DEF Deep, Armed
  <2>6. Ahead \in Nat
    BY <1>6, <2>5, NoWrapSet, UniqueList DEF Deep
  <2> QED
    BY <2>2, <2>3, <2>4, <2>5, <2>6
<1>7. Armed'
  <2> SUFFICES ASSUME list' # <<>> PROVE (HeadKept' => Set') /\ (~HeadKept' => Unset')
    BY <1>1 DEF Armed
  <2>1. HeadKept' <=> ~update'
    BY <1>1 DEF HeadKept, HeadOf
  <2>2. ~Emptied /\ list # <<>> /\ 1 \in DOMAIN list'
    <3>1. 1 \in DOMAIN list'
      BY <1>1, ListHead
    <3> QED
      BY <3>1, <1>4
  <2>3. ASSUME ~update' PROVE Set'
    <3>1. Ahead' = Ahead /\ Gone = 0 /\ Line' = Line /\ Passed' = Passed /\ Set /\ Ahead \in Nat
      BY <1>1, <1>6, <2>2, <2>3
    <3>2. ASSUME NEW i \in DOMAIN list' PROVE Ahead <= Until(list', i) + Allowed(i)'
      <4>1. PICK g \in DOMAIN list, a \in Int :
               /\ Until(list', i) = D(g) - Gone /\ D(g) \in Nat
               /\ a = Allowed(i)' /\ Allowed(g) \in Int /\ Allowed(g) <= a
        BY <1>4
      <4>2. Ahead <= D(g) + Allowed(g)
        BY <3>1 DEF Set
      <4>3. Ahead <= Until(list', i) + a
        BY <3>1, <4>1, <4>2
      <4> QED
        BY <4>1, <4>3
    <3>3. Until(list', 1) = D(1)
      <4>1. PICK g \in DOMAIN list : Until(list', 1) = D(g) - Gone /\ D(g) \in Nat /\ g = 1
        BY <1>4, <2>2, <2>3
      <4> QED
        BY <3>1, <4>1
    <3>4. (\A i \in DOMAIN list : Ahead <= D(i) + Allowed(i))'
      BY <3>1, <3>2 DEF D
    <3>5. (Ahead <= D(1) \/ Ahead <= Passed + CompareOffset)'
      BY <3>1, <3>3 DEF D, Set
    <3> QED
      BY <1>1, <3>1, <3>4, <3>5 DEF Set
  <2>4. ASSUME update' PROVE Unset'
    <3>1. ASSUME NEW i \in DOMAIN list'
          PROVE  \/ Line' < Until(list', i)
                 \/ /\ compare # None
                    /\ Passed' < Ahead'
                    /\ Ahead' + (CompareOffset - 1) <= Until(list', i) + Allowed(i)'
      <4>1. PICK g \in DOMAIN list, a \in Int :
               /\ ~Emptied
               /\ Until(list', i) = D(g) - Gone /\ D(g) \in Nat
               /\ Covering => Line < D(g)
               /\ a = Allowed(i)' /\ Allowed(g) \in Int
               /\ HeadOf(Kept) # HeadOf(list) => Allowed(g) + (CompareOffset - 1) <= a
        BY <1>4
      <4>2. CASE Covering
        <5>1. Line' = Line - Gone
          BY <1>1, <4>1
        <5>2. Line - Gone < D(g) - Gone
          BY <1>1, <1>2, <4>1, <4>2
        <5> QED
          BY <4>1, <5>1, <5>2
      <4>3. CASE ~Covering
        <5>1. Ahead' = Ahead /\ Gone = 0 /\ Passed' = Passed /\ Set /\ Ahead \in Nat
          BY <1>6, <2>2, <4>3
        <5>2. HeadOf(Kept) # HeadOf(list)
          BY <1>1, <2>4, <4>3
        <5>3. compare # None /\ Passed < Ahead /\ Ahead <= D(g) + Allowed(g)
          BY <5>1 DEF Set
        <5>4. Ahead + (CompareOffset - 1) <= Until(list', i) + a
          BY <1>3, <4>1, <5>1, <5>2, <5>3
        <5> QED
          BY <4>1, <5>1, <5>3, <5>4
      <4> QED
        BY <4>2, <4>3
    <3> QED
      BY <1>1, <3>1 DEF Unset, D
  <2> QED
    BY <2>1, <2>3, <2>4
<1> QED
  BY <1>5, <1>7

(* What is left of each time after that step. *)
LEMMA DeleteLefts ==
  ASSUME ListTypeOK, Sound, Deep, SwiDelete
  PROVE  Lefts'
<1>1. /\ swi = "idle" /\ ~reset /\ ~clearing /\ due = <<>> /\ restart = <<>>
      /\ swi' = "insert" /\ reset' = Emptied /\ clearing' = Emptied
      /\ UNCHANGED <<ring, running, ticking, left>>
      /\ Gone \in Nat /\ Cut \in 0..Len(Kept)
      /\ (Covering => elapsed = Gone)
      /\ Covering => \A k \in DOMAIN Kept : k <= Cut <=> Until(Kept, k) <= Gone
      /\ Len(list') = Len(Kept) - Cut /\ DOMAIN list' = 1..Len(list')
      /\ \A i \in DOMAIN list' :
           /\ list'[i].timer = Kept[Cut + i].timer
           /\ Until(list', i) = Until(Kept, Cut + i) - Gone
      /\ Rested' = Rested
      /\ Passed' = (IF Emptied THEN 0 ELSE Passed - Gone)
  BY DeleteFacts
<1>2. /\ Passed \in Nat /\ Rested \in Nat /\ list \in NodeSeq
      /\ Len(list) \in Nat /\ DOMAIN list = 1..Len(list)
      /\ \A u \in DOMAIN left : left[u] \in Int
      /\ \A i \in DOMAIN list : D(i) \in Nat
  BY Basics
<1>3. /\ Len(Kept) \in Nat /\ DOMAIN Kept = 1..Len(Kept)
      /\ NodesOf(Kept) = {t \in NodesOf(list) : ~StopWaits(t)}
      /\ \A k \in DOMAIN Kept : \E i \in DOMAIN list :
           list[i].timer = Kept[k].timer /\ Until(Kept, k) = D(i)
  BY KeptIndex
<1>4. \A i, j \in DOMAIN list : list[i].timer = list[j].timer => i = j
  BY DEF Deep, Nodes
<1> SUFFICES ASSUME NEW u \in DOMAIN left PROVE InList(u)' \/ InRestart(u)' \/ InRing(u)'
  BY <1>1 DEF Lefts
<1>5. (StopWaits(u)' <=> StopWaits(u)) /\ (StartWaits(u)' <=> StartWaits(u))
  BY <1>1 DEF StopWaits, StartWaits
<1>6. u \in Timers /\ Interval[u] \in Nat /\ left[u] \in Int
  BY <1>2, ConstantsType DEF ListTypeOK
<1>7. ASSUME ~Emptied, NEW a \in Int, NEW b \in Int, b = a - Gone, Within(a - Passed - left[u])
      PROVE  Within(b - Passed - left[u])'
  <2>1. Steady' <=> Steady
    BY <1>1, <1>7 DEF Steady
  <2>2. Passed' = Passed - Gone /\ left'[u] = left[u]
    BY <1>1, <1>7
  <2> DEFINE y == Passed'
             z == left'[u]
  <2>3. b - y - z = a - Passed - left[u]
    <3>1. y = Passed - Gone /\ z = left[u]
      BY <2>2
    <3> HIDE DEF y, z
    <3> QED
      BY <1>1, <1>2, <1>6, <1>7, <3>1
  <2> QED
    BY <1>1, <1>7, <2>1, <2>3 DEF Within
<1>8. CASE InList(u)
  <2>1. ~StopWaits(u)
    BY <1>8 DEF InList
  <2>2. PICK i \in DOMAIN list :
          /\ list[i].timer = u
          /\ \/ u \in running /\ Within(D(i) - Passed - left[u])
             \/ /\ u \notin running /\ u \in Repeating
                /\ Covering /\ i <= Covered(list, elapsed)
                /\ Within(D(i) + Interval[u] - Passed - left[u])
    BY <1>8 DEF InList
  <2>3. u \in NodesOf(Kept)
    BY <1>3, <2>1, <2>2 DEF NodesOf
  <2>4. PICK k \in DOMAIN Kept : Kept[k].timer = u
    BY <2>3 DEF NodesOf
  <2>5. Until(Kept, k) = D(i)
    BY <1>3, <1>4, <2>2, <2>4
  <2>6. ~Emptied
    BY <2>4 DEF Emptied
  <2>7. D(i) \in Nat
    BY <1>2
  <2>8. CASE u \in running /\ Within(D(i) - Passed - left[u])
    <3>1. ~(k <= Cut)
      <4>1. CASE Covering
        <5>1. u \notin CoveredNodes
          BY <1>1, <2>8 DEF Deep, Nodes
        <5>2. i \notin 1..Covered(list, elapsed)
          BY <2>2, <4>1, <5>1 DEF CoveredNodes, Covering
        <5>3. elapsed = Gone /\ Gone \in Int
          BY <1>1, <4>1
        <5>4. Covered(list, Gone) \in 0..Len(list)
              /\ \A m \in 1..Len(list) : m <= Covered(list, Gone) <=> Until(list, m) <= Gone
          BY <1>2, <5>3, CoveredDef
        <5>5. ~(i <= Covered(list, Gone))
          BY <1>2, <5>2, <5>3, <5>4
        <5>6. ~(D(i) <= Gone)
          BY <1>2, <5>4, <5>5 DEF D
        <5> QED
          BY <1>1, <2>5, <4>1, <5>6
      <4>2. CASE ~Covering
        <5>1. Cut = 0
          BY <4>2 DEF Cut
        <5> QED
          BY <1>3, <5>1
      <4> QED
        BY <4>1, <4>2
    <3>2. PICK j \in DOMAIN list' : Cut + j = k
      <4>1. k - Cut \in 1..(Len(Kept) - Cut) /\ Cut + (k - Cut) = k
        BY <1>1, <1>3, <3>1
      <4> QED
        BY <1>1, <4>1
    <3>3. list'[j].timer = u /\ Until(list', j) = D(i) - Gone
      BY <1>1, <2>4, <2>5, <3>2
    <3>4. PICK b \in Int : b = D(i) - Gone
      BY <1>1, <2>7
    <3>5. Within(b - Passed - left[u])'
      BY <1>7, <2>6, <2>7, <2>8, <3>4
    <3>6. Within(D(j) - Passed - left[u])'
      BY <3>3, <3>4, <3>5 DEF D
    <3>7. InList(u)'
      BY <1>1, <1>5, <2>1, <2>8, <3>3, <3>6 DEF InList
    <3> QED
      BY <3>7
  <2>9. CASE /\ u \notin running /\ u \in Repeating
             /\ Covering /\ i <= Covered(list, elapsed)
             /\ Within(D(i) + Interval[u] - Passed - left[u])
    <3>1. PICK j \in DOMAIN restart' : restart'[j].timer = u
      BY <2>1, <2>2, <2>9, DeleteAgain
    <3>2. \E g \in DOMAIN list : \E v \in Repeating :
              \E at \in Counters : \E w \in Int :
              /\ list[g].timer = v /\ restart'[j].timer = v /\ restart'[j].at = at
              /\ w = (D(g) - Gone) + Interval[v]
              /\ NewWait(at, v)' = w
      BY DeleteAgain
    <3>3. PICK at \in Counters : \E w \in Int :
              /\ restart'[j].at = at
              /\ w = (D(i) - Gone) + Interval[u]
              /\ NewWait(at, u)' = w
      BY <1>4, <2>2, <3>1, <3>2
    <3>4. PICK w \in Int :
              /\ restart'[j].at = at
              /\ w = (D(i) - Gone) + Interval[u]
              /\ NewWait(at, u)' = w
      BY <3>3
    <3>5. Within(w - Passed - left[u])'
      <4> DEFINE d == D(i)
                 n == Interval[u]
                 p == Passed
                 z == left[u]
      <4>1. d \in Int /\ n \in Int /\ p \in Int /\ z \in Int /\ Gone \in Int
        BY <1>1, <1>2, <1>6, <2>7
      <4>2. w = (d - Gone) + n /\ Within(d + n - p - z)
        BY <2>9, <3>4
      <4> HIDE DEF d, n, p, z
      <4>3. PICK a \in Int : a = d + n
        BY <4>1
      <4>4. w = a - Gone
        BY <4>1, <4>2, <4>3
      <4>5. d + n - p - z = a - p - z
        BY <4>1, <4>3
      <4>6. Within(a - Passed - left[u])
        BY <4>2, <4>5 DEF p, z
      <4> QED
        BY <1>7, <2>6, <4>4, <4>6
    <3>6. Within(NewWait(at, u) - Passed - left[u])'
      BY <3>4, <3>5
    <3>7. InRestart(u)'
      BY <1>1, <1>5, <2>1, <2>9, <3>1, <3>4, <3>6 DEF InRestart
    <3> QED
      BY <3>7
  <2> QED
    BY <2>2, <2>8, <2>9
<1>9. CASE InRestart(u)
  BY <1>1, <1>9 DEF InRestart
<1>10. CASE InRing(u)
  <2>1. /\ u \notin running /\ StartWaits(u)
        /\ u \in NodesOf(list) =>
             StopWaits(u) \/ (u \in CoveredNodes /\ u \notin Repeating)
        /\ \A i, j \in DOMAIN ring :
             ring[i].op = "start" /\ ring[i].timer = u
               /\ ring[j].op = "stop" /\ ring[j].timer = u => j < i
        /\ left[u] >= Interval[u] - Rested
        /\ \A i \in DOMAIN ring : ring[i].op = "start" /\ ring[i].timer = u =>
             left[u] <= Interval[u] - Passed + Since(ring[i].at)
    BY <1>1, <1>10 DEF InRing
  <2>2. ASSUME NEW j \in DOMAIN restart' PROVE restart'[j].timer # u
    <3>1. PICK g \in DOMAIN list : /\ list[g].timer = restart'[j].timer
                                   /\ ~StopWaits(restart'[j].timer)
                                   /\ restart'[j].timer \in Repeating
      BY DeleteAgain
    <3> QED
      BY <2>1, <3>1 DEF NodesOf
  <2>3. u \notin NodesOf(list')
    <3> SUFFICES ASSUME NEW i \in DOMAIN list', list'[i].timer = u PROVE FALSE
      BY DEF NodesOf
    <3>1. u \in NodesOf(Kept)
      BY DeleteNodes DEF NodesOf
    <3>2. ~StopWaits(u) /\ u \in CoveredNodes
      BY <1>3, <2>1, <3>1
    <3>3. PICK g \in DOMAIN list :
            list[g].timer = u /\ (Covering => g > Covered(list, elapsed))
      BY DeleteMoves
    <3>4. PICK h \in 1..Covered(list, elapsed) : Covering /\ list[h].timer = u
      BY <3>2 DEF CoveredNodes, Covering
    <3>5. elapsed \in Int
      BY <1>1, <3>4
    <3>6. Covered(list, elapsed) \in 0..Len(list)
      BY <1>2, <3>5, CoveredDef
    <3>7. h \in DOMAIN list /\ h <= Covered(list, elapsed) /\ Covered(list, elapsed) \in Int
      BY <1>2, <3>6
    <3>8. g = h
      BY <1>4, <3>3, <3>4, <3>7
    <3> QED
      BY <3>3, <3>4, <3>7, <3>8
  <2>4. ASSUME NEW i \in DOMAIN ring, ring[i].op = "start", ring[i].timer = u
        PROVE  left[u] <= Interval[u] - Passed'
                    + (IF Emptied THEN 0 ELSE Since(ring[i].at)')
    <3>1. ring[i] \in RingOps
      BY Basics
    <3>2. PICK at \in Counters : at = ring[i].at
      BY <2>4, <3>1 DEF RingOps
    <3>3. Line <= Since(at) /\ 0 <= Since(at) /\ Since(at) <= Passed
      BY <1>1, <2>4, <3>2 DEF Deep, Requests
    <3>4. Since(at) \in Int
      BY Basics, SinceFacts
    <3>5. left[u] <= Interval[u] - Passed + Since(at)
      BY <2>1, <2>4, <3>2
    <3>6. CASE Emptied
      <4>1. Passed' = 0
        BY <1>1, <3>6
      <4>2. left[u] <= Interval[u] - 0 + 0
        BY <1>2, <1>6, <3>3, <3>4, <3>5
      <4> QED
        BY <3>6, <4>1, <4>2
    <3>7. CASE ~Emptied
      <4>1. Since(at)' = Since(at) - Gone
        BY <1>6, <3>3, <3>7, DeleteSince
      <4>2. Since(ring[i].at)' = Since(at)'
        BY <1>1, <3>2
      <4>3. Passed' = Passed - Gone
        BY <1>1, <3>7
      <4>4. left[u] <= Interval[u] - (Passed - Gone) + (Since(at) - Gone)
        <5>1. Gone \in Nat /\ Passed \in Nat /\ Interval[u] \in Nat /\ left[u] \in Int
          BY <1>1, <1>2, <1>6
        <5> QED
          BY <3>4, <3>5, <5>1
      <4> QED
        BY <3>7, <4>1, <4>2, <4>3, <4>4
    <3> QED
      BY <3>6, <3>7
  <2>5. (left[u] >= Interval[u] - Rested)'
    BY <1>1, <2>1
  <2>6. (\A i \in DOMAIN ring : ring[i].op = "start" /\ ring[i].timer = u =>
           left[u] <= Interval[u] - Passed
                    + (IF swi = "insert" /\ reset THEN 0 ELSE Since(ring[i].at)))'
    BY <1>1, <2>4
  <2>7. InRing(u)'
    BY <1>1, <1>5, <2>1, <2>2, <2>3, <2>5, <2>6 DEF InRing
  <2> QED
    BY <2>7
<1> QED
  BY <1>8, <1>9, <1>10 DEF Deep, Lefts

(* Who has waited how long after that step: no node RTC1 found expired is  *)
(* left.                                                                   *)
LEMMA DeletePausing ==
  ASSUME ListTypeOK, Sound, Deep, SwiDelete
  PROVE  Pausing'
<1>1. /\ Rested' = Rested /\ Served' = Served /\ Gone \in Nat
      /\ Line' = (IF Emptied THEN -Rested ELSE Line - Gone)
  BY DeleteFacts
<1>2. Line \in Int /\ Slack \in Nat
  BY Basics, ConstantsType
<1>3. ASSUME NEW i \in DOMAIN list', list'[i].timer \in Served, Wait[list'[i].timer] < Slack
      PROVE  Until(list', i) > Line' + Slack
  <2>1. PICK g \in DOMAIN list :
          /\ list[g].timer = list'[i].timer /\ Until(list', i) = D(g) - Gone /\ D(g) \in Nat
          /\ Covering => g > Covered(list, elapsed)
    BY DeleteMoves
  <2>2. ~Emptied
    BY DeleteMoves
  <2>3. ~(Covering /\ g <= Covered(list, elapsed))
    <3> SUFFICES ASSUME Covering, g <= Covered(list, elapsed) PROVE FALSE
      OBVIOUS
    <3>1. /\ list \in NodeSeq /\ elapsed \in Int /\ g \in Nat
      BY Basics, DeleteFacts, AllowedFacts, UniqueList
    <3>2. Covered(list, elapsed) \in Int
      BY <3>1, CoveredDef, NodeSeqType
    <3> QED
      BY <2>1, <3>1, <3>2
  <2>4. D(g) > Line + Slack
    BY <1>3, <2>1, <2>3 DEF Deep, Pausing
  <2>5. PICK y \in Int : y = Line' /\ y = Line - Gone
    BY <1>1, <1>2, <2>2
  <2>6. Until(list', i) > y + Slack
    BY <1>1, <1>2, <2>1, <2>4, <2>5
  <2> QED
    BY <2>5, <2>6
<1>4. (\A i \in DOMAIN list :
         list[i].timer \in Served /\ Wait[list[i].timer] < Slack => D(i) > Line + Slack)'
  BY <1>1, <1>3 DEF D
<1>5. (\A t \in Timers \ Served : Rested <= Wait[t])'
  BY <1>1 DEF Deep, Pausing
<1> QED
  BY <1>4, <1>5 DEF Pausing

(* The first step of timer_list_handler keeps the invariant. *)
LEMMA SwiDeleteKeeps ==
  ASSUME ListInv, SwiDelete
  PROVE  ListTypeOK' /\ Deep'
<1>1. ListTypeOK /\ Sound /\ Deep
  BY DEF ListInv, SwiDelete
<1> QED
  BY <1>1, DeleteTypes, DeleteTurns, DeleteNodes, DeleteClock, DeleteArmed, DeleteRequests,
     DeletePausing, DeleteLefts DEF Deep

-----------------------------------------------------------------------------
(***************************************************************************)
(* The invariant, and what follows from it.                                *)
(***************************************************************************)
(* The same after a step. *)
LEMMA DeepOnTimeNext == (ListTypeOK /\ Deep => OnTime)'
<1>1. ListTypeOK /\ Deep => OnTime
  BY DeepOnTime
<1> QED
  BY <1>1, PTL

(* A step that keeps the times, or after which the module stops.           *)
LEMMA KeepsOnTime ==
  ASSUME ListInv, ListTypeOK', Sound' => Deep', ~Sound' => OnTime'
  PROVE  ListInv'
<1>1. CASE Sound'
  <2>1. OnTime'
    BY <1>1, DeepOnTimeNext
  <2> QED
    BY <1>1, <2>1 DEF ListInv
<1>2. CASE ~Sound'
  BY <1>2 DEF ListInv
<1> QED
  BY <1>1, <1>2

(* Every step keeps the invariant. *)
LEMMA InvStep == ListInv /\ [ListNext]_listVars => ListInv'
<1> SUFFICES ASSUME ListInv, [ListNext]_listVars PROVE ListInv'
  OBVIOUS
<1>0. OnTime /\ ListTypeOK
  BY DEF ListInv
<1>1. ASSUME UNCHANGED left PROVE OnTime'
  BY <1>0, <1>1, OnTimeFrame
<1>2. ASSUME NEW t \in Timers, ClientStart(t) PROVE ListInv'
  <2>1. OnTime'
    <3>1. left' = left \/ left' = Timed(t) \/ left' = Untimed(t)
      BY <1>2 DEF ClientStart
    <3>2. CASE left' = left
      BY <1>1, <3>2
    <3>3. CASE left' = Timed(t)
      <4>1. ASSUME NEW u \in DOMAIN left'
            PROVE  \/ u = t /\ left'[u] = Interval[t]
                   \/ u \in DOMAIN left /\ left'[u] = left[u]
        <5>1. u \in DOMAIN left \cup {t} /\ left'[u] = IF u = t THEN Interval[t] ELSE left[u]
          BY <3>3, <4>1 DEF Timed
        <5> QED
          BY <5>1
      <4>2. MaxLate(t) \in Nat /\ Interval[t] \in Nat
        BY ConstantsType
      <4>3. Interval[t] >= -MaxLate(t)
        BY <4>2
      <4> QED
        BY <1>0, <4>1, <4>3 DEF OnTime
    <3>4. CASE left' = Untimed(t)
      BY <1>0, <3>4 DEF OnTime, Untimed
    <3> QED
      BY <3>1, <3>2, <3>3, <3>4
  <2> QED
    BY <1>2, <2>1, ClientStartKeeps, KeepsOnTime
<1>3. ASSUME NEW t \in Timers, ClientStop(t) PROVE ListInv'
  BY <1>3, ClientStopKeeps, KeepsOnTime, DeepOnTimeNext
<1>4. ASSUME NEW t \in Timers, ClientStopRefused(t) PROVE ListInv'
  BY <1>4, ClientStopRefusedKeeps, KeepsOnTime, DeepOnTimeNext
<1>5. CASE RtcEnter
  <2>1. UNCHANGED left
    BY <1>5 DEF RtcEnter
  <2> QED
    BY <1>1, <1>5, <2>1, RtcEnterKeeps, KeepsOnTime
<1>6. CASE RtcLeave
  BY <1>6, RtcLeaveKeeps, KeepsOnTime, DeepOnTimeNext
<1>7. ASSUME NEW t \in Timers, Skip(t) PROVE ListInv'
  BY <1>7, SkipKeeps, KeepsOnTime, DeepOnTimeNext
<1>8. ASSUME NEW t \in Timers, Fire(t) PROVE ListInv'
  BY <1>8, FireKeeps, KeepsOnTime, DeepOnTimeNext
<1>9. CASE SwiDelete
  BY <1>9, SwiDeleteKeeps, KeepsOnTime, DeepOnTimeNext
<1>10. CASE SwiRestart
  <2>1. UNCHANGED left
    BY <1>10 DEF SwiRestart
  <2> QED
    BY <1>1, <1>10, <2>1, SwiRestartKeeps, KeepsOnTime
<1>11. CASE SwiPop
  <2>1. UNCHANGED left
    BY <1>11 DEF SwiPop
  <2> QED
    BY <1>1, <1>11, <2>1, SwiPopKeeps, KeepsOnTime
<1>12. CASE SwiLeave
  BY <1>12, SwiLeaveKeeps, KeepsOnTime, DeepOnTimeNext
<1>13. CASE SwiRead
  <2>1. UNCHANGED left
    BY <1>13 DEF SwiRead
  <2> QED
    BY <1>1, <1>13, <2>1, SwiReadKeeps, KeepsOnTime
<1>14. CASE SwiSet
  BY <1>14, SwiSetKeeps, KeepsOnTime, DeepOnTimeNext
<1>15. CASE SwiCheck
  BY <1>15, SwiCheckKeeps, KeepsOnTime, DeepOnTimeNext
<1>16. CASE SwiStop
  BY <1>16, SwiStopKeeps, KeepsOnTime, DeepOnTimeNext
<1>17. CASE SwiClear
  BY <1>17, SwiClearKeeps, KeepsOnTime, DeepOnTimeNext
<1>18. CASE Tick
  BY <1>18, TickKeeps, KeepsOnTime, DeepOnTimeNext
<1>19. CASE UNCHANGED listVars
  <2>1. ListTypeOK'
    BY <1>0, <1>19 DEF ListTypeOK, Counters, listVars, codeVars, rtc1Vars, history
  <2>2. OnTime'
    BY <1>1, <1>19 DEF listVars, history
  <2>3. ASSUME Sound' PROVE Deep'
    <3>0. UNCHANGED <<ring, list, running, restart, elapsed, latest, reset, swi, head, update,
                      pre, rtc, due, swiPend, rtcPend, counter, compare, ticking, clearing,
                      busy, served, cycle, left, misread>>
      BY <1>19 DEF listVars, codeVars, rtc1Vars, history
    <3>1. Deep
      BY <2>3, <3>0 DEF ListInv, Sound
    <3>2. Rested' = Rested /\ Served' = Served
      BY <3>0 DEF Rested, Served, Idle
    <3>3. Passed' = Passed /\ Line' = Line
      BY <3>0, <3>2, LineSame
    <3>4. Turns' /\ Clock'
      BY <3>0, <3>1 DEF Deep, Turns, Clock, Covering, HeadOf
    <3>5. Nodes'
      BY <3>0, <3>1, NodesFrame DEF Deep
    <3>6. NoWrap' /\ Armed' /\ Covers' /\ Reading' /\ Requests'
      BY <3>0, <3>1, <3>3, NoWrapFrame, ArmedFrame, CoversFrame, ReadingFrame, RequestsFrame
         DEF Deep, Covering
    <3>7. Pausing'
      BY <3>0, <3>1, <3>2, <3>3, PausingFrame DEF Deep
    <3>8. Lefts'
      <4> SUFFICES ASSUME NEW u \in DOMAIN left PROVE InList(u)' \/ InRestart(u)' \/ InRing(u)'
        BY <3>0 DEF Lefts
      <4>1. InList(u) \/ InRestart(u) \/ InRing(u)
        BY <3>1 DEF Deep, Lefts
      <4>2. InList(u) => InList(u)'
        BY <3>0, <3>2, <3>3 DEF InList, StopWaits, Within, Steady, D, Covering
      <4>3. InRestart(u) => InRestart(u)'
        BY <3>0, <3>2, <3>3 DEF InRestart, StopWaits, Within, Steady, NewWait, ToExpire, Diff
      <4>4. InRing(u) => InRing(u)'
        BY <3>0, <3>2, <3>3 DEF InRing, StopWaits, StartWaits, NodesOf, CoveredNodes, Since, Diff
      <4> QED
        BY <4>1, <4>2, <4>3, <4>4
    <3> QED
      BY <3>4, <3>5, <3>6, <3>7, <3>8 DEF Deep
  <2> QED
    BY <2>1, <2>2, <2>3 DEF ListInv
<1> QED
  BY <1>2, <1>3, <1>4, <1>5, <1>6, <1>7, <1>8, <1>9, <1>10, <1>11, <1>12, <1>13, <1>14,
     <1>15, <1>16, <1>17, <1>18, <1>19 DEF ListNext, Swi

(* Every state of the module satisfies the inductive invariant.            *)
THEOREM ListAlways == ListSpec => []ListInv
<1>1. ListInit => ListInv
  BY InitDeep
<1>2. ListInv /\ [ListNext]_listVars => ListInv'
  BY InvStep
<1> QED
  BY <1>1, <1>2, PTL DEF ListSpec

(* The variables of app_timer.c and RTC1 have their types, for any set of  *)
(* timers, any intervals the timing assumption allows, and a counter of    *)
(* any size.                                                               *)
THEOREM ListTypes == ListSpec => []ListTypeOK
<1>1. ListInv => ListTypeOK
  BY DEF ListInv
<1> QED
  BY <1>1, ListAlways, PTL

(* A timer that was started and not stopped is served within MaxLate ticks *)
(* of its time, however the others are started and stopped.                *)
THEOREM ListOnTime == ListSpec => []OnTime
<1>1. ListInv => OnTime
  BY DEF ListInv
<1> QED
  BY <1>1, ListAlways, PTL

(* No handler is called before the interval of its timer is over. *)
THEOREM ListNeverEarly == ListSpec => NeverEarly
<1>1. ListInv /\ [ListNext]_listVars => [\A t \in DOMAIN left : Fire(t) => left[t] <= 0]_listVars
  <2> SUFFICES ASSUME ListInv, NEW t \in DOMAIN left, Fire(t) PROVE left[t] <= 0
    OBVIOUS
  <2>1. ListTypeOK /\ Sound /\ Deep
    BY DEF ListInv, Fire, Pass
  <2>2. t \in Timers
    BY <2>1 DEF ListTypeOK
  <2> QED
    BY <2>1, <2>2, FireFacts
<1> QED
  BY <1>1, ListAlways, PTL DEF ListSpec, NeverEarly

-----------------------------------------------------------------------------
(***************************************************************************)
(* Without its ticks, the list is that of TimerQueue.                      *)
(***************************************************************************)
Waiting == {restart[i].timer : i \in DOMAIN restart}

Looking == {due[i] : i \in DOMAIN due}

Phase == IF swi = "insert" THEN "insert" ELSE "idle"

(* What TimerQueue sees, in a step that leaves it alone. *)
LEMMA QueueFrame ==
  /\ UNCHANGED <<list, elapsed>> => NodesOf(list)' = NodesOf(list) /\ CoveredNodes' = CoveredNodes
  /\ UNCHANGED restart => Waiting' = Waiting
  /\ UNCHANGED due => Looking' = Looking
  /\ UNCHANGED swi => Phase' = Phase
  /\ UNCHANGED ring => AskOf(ring)' = AskOf(ring)
BY DEF NodesOf, CoveredNodes, Waiting, Looking, Phase, AskOf

(* app_timer_start is that of TimerQueue ... *)
LEMMA StartRefines ==
  ASSUME ListInv, NEW t \in Timers, ClientStart(t)
  PROVE  Queue!StartTimer(t)
<1> DEFINE r == [op |-> "start", timer |-> t, at |-> counter]
<1>1. /\ Len(ring) < OpQueueSize /\ ring' = Append(ring, r) /\ swiPend' = TRUE
      /\ UNCHANGED <<list, running, restart, elapsed, swi, rtc, due, cycle>>
  BY DEF ClientStart, HasRoom
<1>2. ring \in Seq(RingOps) /\ counter \in Counters
  BY Basics DEF ListInv
<1>3. r \in RingOps /\ Plain(r) = [op |-> "start", timer |-> t]
  BY <1>2 DEF RingOps, Plain
<1> HIDE DEF r
<1>4. AskOf(ring') = Append(AskOf(ring), [op |-> "start", timer |-> t])
  BY <1>1, <1>2, <1>3, AskOfAppend
<1>5. Len(AskOf(ring)) + 1 <= OpQueueSize
  BY <1>1, <1>2, AskOfType, ConstantsType
<1>6. /\ NodesOf(list)' = NodesOf(list) /\ CoveredNodes' = CoveredNodes /\ Waiting' = Waiting
      /\ Looking' = Looking /\ Phase' = Phase
  BY <1>1, QueueFrame
<1> QED
  BY <1>1, <1>4, <1>5, <1>6
     DEF Queue!StartTimer, Queue!HasRoom, Queue!Start, AskOf, Waiting, Looking, Phase

(* ... so is app_timer_stop ... *)
LEMMA StopRefines ==
  ASSUME ListInv, NEW t \in Timers, ClientStop(t)
  PROVE  Queue!StopTimer(t)
<1> DEFINE r == [op |-> "stop", timer |-> t]
<1>1. /\ Len(ring) < OpQueueSize /\ ring' = Append(ring, r) /\ swiPend' = TRUE
      /\ running' = running \ {t}
      /\ UNCHANGED <<list, restart, elapsed, swi, rtc, due, cycle>>
  BY DEF ClientStop, StopAsked, HasRoom
<1>2. ring \in Seq(RingOps)
  BY Basics DEF ListInv
<1>3. r \in RingOps /\ Plain(r) = [op |-> "stop", timer |-> t]
  BY DEF RingOps, Plain
<1> HIDE DEF r
<1>4. AskOf(ring') = Append(AskOf(ring), [op |-> "stop", timer |-> t])
  BY <1>1, <1>2, <1>3, AskOfAppend
<1>5. Len(AskOf(ring)) + 1 <= OpQueueSize
  BY <1>1, <1>2, AskOfType, ConstantsType
<1>6. /\ NodesOf(list)' = NodesOf(list) /\ CoveredNodes' = CoveredNodes /\ Waiting' = Waiting
      /\ Looking' = Looking /\ Phase' = Phase
  BY <1>1, QueueFrame
<1> QED
  BY <1>1, <1>4, <1>5, <1>6
     DEF Queue!StopTimer, Queue!HasRoom, Queue!Stop, AskOf, Waiting, Looking, Phase

(* ... also when the ring is full. *)
LEMMA StopRefusedRefines ==
  ASSUME ListInv, NEW t \in Timers, ClientStopRefused(t)
  PROVE  Queue!StopRefused(t)
<1>1. /\ ~(Len(ring) < OpQueueSize) /\ running' = running \ {t}
      /\ UNCHANGED <<ring, list, restart, elapsed, swi, swiPend, rtc, due, cycle>>
  BY DEF ClientStopRefused, HasRoom
<1>2. ring \in Seq(RingOps)
  BY Basics DEF ListInv
<1>3. ~(Len(AskOf(ring)) + 1 <= OpQueueSize)
  BY <1>1, <1>2, AskOfType, ConstantsType
<1>4. /\ NodesOf(list)' = NodesOf(list) /\ CoveredNodes' = CoveredNodes /\ Waiting' = Waiting
      /\ Looking' = Looking /\ Phase' = Phase /\ AskOf(ring)' = AskOf(ring)
  BY <1>1, QueueFrame
<1> QED
  BY <1>1, <1>3, <1>4
     DEF Queue!StopRefused, Queue!HasRoom, AskOf, Waiting, Looking, Phase

(* What expires includes what had expired before. *)
LEMMA RtcEnterRefines ==
  ASSUME ListInv, RtcEnter
  PROVE  \E E \in SUBSET Timers : Queue!RtcExpire(E)
<1>0. ListTypeOK /\ Sound /\ Deep
  BY DEF ListInv, RtcEnter
<1>1. /\ list # <<>> /\ rtc' = TRUE /\ swi = "idle" /\ ~rtc
      /\ UNCHANGED <<ring, list, running, restart, swi, swiPend, cycle>>
  BY <1>0, RtcEnterFacts DEF RtcEnter
<1>2. PICK k \in 0..Len(list) :
        /\ \A i \in 1..Len(list) : i <= k <=> D(i) <= Passed
        /\ due' = [i \in 1..k |-> list[i].timer]
        /\ elapsed' = D(k) /\ Covered(list, D(k)) = k /\ D(k) \in Nat
        /\ Covering => Covered(list, elapsed) <= k
  BY <1>0, RtcEnterFacts
<1>3. list \in NodeSeq /\ Len(list) \in Nat /\ DOMAIN list = 1..Len(list)
  BY <1>0, Basics
<1>4. PICK E \in SUBSET Timers : E = {list[i].timer : i \in 1..k} /\ E \subseteq NodesOf(list)
  <2>1. \A i \in 1..k : i \in DOMAIN list
    BY <1>2, <1>3
  <2>2. \A i \in DOMAIN list : list[i].timer \in Timers
    BY <1>3, NodeSeqType
  <2> QED
    BY <2>1, <2>2 DEF NodesOf
<1>5. CoveredNodes \subseteq E
  <2>1. CASE Covering
    <3>1. elapsed \in Int
      BY <1>0, <2>1, CountersInt DEF ListTypeOK, Covering
    <3>2. Covered(list, elapsed) \in 0..Len(list) /\ Covered(list, elapsed) <= k
      BY <1>2, <1>3, <2>1, <3>1, CoveredDef
    <3>3. \A i \in 1..Covered(list, elapsed) : i \in 1..k
      BY <1>2, <1>3, <3>2
    <3> QED
      BY <1>4, <2>1, <3>3 DEF CoveredNodes, Covering
  <2>2. CASE ~Covering
    BY <2>2 DEF CoveredNodes, Covering
  <2> QED
    BY <2>1, <2>2
<1>6. CoveredNodes' = E
  <2>1. elapsed' # None
    BY <1>2 DEF None
  <2>2. CoveredNodes' = {list'[i].timer : i \in 1..Covered(list', elapsed')}
    BY <2>1 DEF CoveredNodes
  <2>3. Covered(list', elapsed') = k
    BY <1>1, <1>2
  <2> QED
    BY <1>1, <1>4, <2>2, <2>3
<1>7. Looking' = E
  <2>1. DOMAIN due' = 1..k /\ \A i \in 1..k : due'[i] = list[i].timer
    BY <1>2
  <2> QED
    BY <1>4, <2>1 DEF Looking
<1>8. NodesOf(list) # {}
  BY <1>1, <1>3, ListHead DEF NodesOf
<1>9. /\ NodesOf(list)' = NodesOf(list) /\ Waiting' = Waiting /\ Phase' = Phase
      /\ AskOf(ring)' = AskOf(ring) /\ Phase = "idle"
  BY <1>1, QueueFrame DEF NodesOf, Phase
<1>10. Queue!RtcExpire(E)
  BY <1>1, <1>4, <1>5, <1>6, <1>7, <1>8, <1>9 DEF Queue!RtcExpire, AskOf, Waiting, Looking, Phase
<1> QED
  BY <1>4, <1>10

(* The next node that is due. *)
LEMMA PassDue ==
  ASSUME ListInv, NEW t, Pass(t)
  PROVE  /\ t \in Looking /\ Looking' = Looking \ {t} /\ NodesOf(list)' = NodesOf(list)
         /\ CoveredNodes' = CoveredNodes /\ Waiting' = Waiting /\ Phase' = Phase
         /\ AskOf(ring)' = AskOf(ring) /\ UNCHANGED <<ring, rtc, swiPend, cycle>>
<1>1. /\ due # <<>> /\ t = Head(due) /\ due' = Tail(due)
      /\ UNCHANGED <<ring, list, restart, elapsed, swi, rtc, swiPend, cycle>>
      /\ ListTypeOK /\ Deep
  BY DEF Pass, ListInv
<1>2. due \in Seq(Timers) /\ Injective(due)
  BY <1>1 DEF ListTypeOK, Deep, Nodes
<1>3. Looking' = Looking \ {t} /\ t \in Looking
  BY <1>1, <1>2, TailImage DEF Looking
<1> QED
  BY <1>1, <1>3, QueueFrame

(* A node that is passed over. *)
LEMMA SkipRefines ==
  ASSUME ListInv, NEW t \in Timers, Skip(t)
  PROVE  Queue!RtcSkip(t)
<1>1. Pass(t) /\ t \notin running /\ running' = running
  BY DEF Skip
<1> QED
  BY <1>1, PassDue DEF Queue!RtcSkip, AskOf, Waiting, Looking, Phase

(* A handler that is called. *)
LEMMA FireRefines ==
  ASSUME ListInv, NEW t \in Timers, Fire(t)
  PROVE  Queue!RtcClear(t) /\ UNCHANGED <<ring, swiPend>>
<1>1. Pass(t) /\ t \in running /\ running' = running \ {t}
  BY DEF Fire
<1> QED
  BY <1>1, PassDue DEF Queue!RtcClear, AskOf, Waiting, Looking, Phase

(* The end of timer_timeouts_check. *)
LEMMA RtcLeaveRefines ==
  ASSUME ListInv, RtcLeave
  PROVE  Queue!RtcEnd
<1>1. /\ rtc /\ due = <<>> /\ rtc' = FALSE /\ swiPend' = TRUE
      /\ UNCHANGED <<ring, list, running, restart, elapsed, swi, due, cycle>>
  BY DEF RtcLeave, history
<1>2. Looking = {}
  BY <1>1 DEF Looking
<1>3. /\ NodesOf(list)' = NodesOf(list) /\ CoveredNodes' = CoveredNodes /\ Waiting' = Waiting
      /\ Looking' = Looking /\ Phase' = Phase /\ AskOf(ring)' = AskOf(ring)
  BY <1>1, QueueFrame
<1> QED
  BY <1>1, <1>2, <1>3 DEF Queue!RtcEnd, AskOf, Waiting, Looking, Phase

(* list_deletions_handler and expired_timers_handler leave what TimerQueue *)
(* leaves.                                                                 *)
LEMMA DeleteNodesOf ==
  ASSUME ListTypeOK, Sound, Deep, SwiDelete
  PROVE  /\ NodesOf(list') = NodesOf(Kept) \ (CoveredNodes \cap NodesOf(Kept))
         /\ Waiting' = (CoveredNodes \cap NodesOf(Kept)) \cap Repeating
<1>1. /\ Cut \in 0..Len(Kept) /\ Gone \in Nat /\ Len(list') = Len(Kept) - Cut
      /\ DOMAIN list' = 1..Len(list')
      /\ (Covering => elapsed = Gone)
      /\ Covering => \A k \in DOMAIN Kept : k <= Cut <=> Until(Kept, k) <= Gone
      /\ \A i \in DOMAIN list' :
           i \in Nat /\ Cut + i \in DOMAIN Kept /\ list'[i].timer = Kept[Cut + i].timer
  BY DeleteFacts
<1>2. /\ Len(Kept) \in Nat /\ DOMAIN Kept = 1..Len(Kept)
      /\ NodesOf(Kept) = {t \in NodesOf(list) : ~StopWaits(t)}
      /\ \A k \in DOMAIN Kept : \E i \in DOMAIN list :
           list[i].timer = Kept[k].timer /\ Until(Kept, k) = D(i)
      /\ \A i, j \in DOMAIN Kept : Kept[i].timer = Kept[j].timer => i = j
  BY KeptIndex DEF Unique
<1>3. \A i, j \in DOMAIN list : list[i].timer = list[j].timer => i = j
  BY DEF Deep, Nodes
<1>4. list \in NodeSeq /\ Len(list) \in Nat /\ DOMAIN list = 1..Len(list)
      /\ \A i \in DOMAIN list : D(i) \in Nat
  BY Basics
<1>5. ASSUME NEW k \in DOMAIN Kept
      PROVE  k <= Cut <=> Kept[k].timer \in CoveredNodes
  <2>1. PICK i \in DOMAIN list : list[i].timer = Kept[k].timer /\ Until(Kept, k) = D(i)
    BY <1>2
  <2>2. CASE Covering
    <3>1. elapsed = Gone /\ Gone \in Int
      BY <1>1, <2>2
    <3>2. Covered(list, Gone) \in 0..Len(list)
          /\ \A m \in 1..Len(list) : m <= Covered(list, Gone) <=> D(m) <= Gone
      BY <1>4, <3>1, CoveredDef DEF D
    <3>3. CoveredNodes = {list[m].timer : m \in 1..Covered(list, Gone)}
      BY <2>2, <3>1 DEF CoveredNodes, Covering
    <3>4. k <= Cut <=> D(i) <= Gone
      BY <1>1, <2>1, <2>2
    <3>5. D(i) <= Gone <=> i \in 1..Covered(list, Gone)
      BY <1>4, <3>2
    <3>6. ASSUME Kept[k].timer \in CoveredNodes PROVE i \in 1..Covered(list, Gone)
      <4>1. PICK m \in 1..Covered(list, Gone) : Kept[k].timer = list[m].timer
        BY <3>3, <3>6
      <4>2. m \in DOMAIN list
        BY <1>4, <3>2
      <4> QED
        BY <1>3, <2>1, <4>1, <4>2
    <3> QED
      BY <2>1, <3>3, <3>4, <3>5, <3>6
  <2>3. CASE ~Covering
    <3>1. Cut = 0 /\ CoveredNodes = {}
      BY <2>3 DEF Cut, CoveredNodes, Covering
    <3> QED
      BY <1>2, <3>1
  <2> QED
    BY <2>2, <2>3
<1>6. ASSUME NEW u PROVE u \in NodesOf(list') <=> u \in NodesOf(Kept) /\ u \notin CoveredNodes
  <2>1. ASSUME NEW i \in DOMAIN list', u = list'[i].timer
        PROVE  u \in NodesOf(Kept) /\ u \notin CoveredNodes
    <3>1. Cut + i \in DOMAIN Kept /\ u = Kept[Cut + i].timer /\ ~(Cut + i <= Cut)
      BY <1>1, <1>2, <2>1
    <3> QED
      BY <1>5, <3>1 DEF NodesOf
  <2>2. ASSUME NEW k \in DOMAIN Kept, u = Kept[k].timer, u \notin CoveredNodes
        PROVE  \E i \in DOMAIN list' : u = list'[i].timer
    <3>1. ~(k <= Cut)
      BY <1>5, <2>2
    <3>2. k - Cut \in DOMAIN list' /\ Cut + (k - Cut) = k
      BY <1>1, <1>2, <3>1
    <3>3. list'[k - Cut].timer = Kept[Cut + (k - Cut)].timer
      BY <1>1, <3>2
    <3> QED
      BY <2>2, <3>2, <3>3
  <2> QED
    BY <2>1, <2>2 DEF NodesOf
<1>7. ASSUME NEW u
      PROVE  u \in Waiting' <=> u \in CoveredNodes /\ u \in NodesOf(Kept) /\ u \in Repeating
  <2>1. Waiting' = {restart'[j].timer : j \in DOMAIN restart'}
    BY DEF Waiting
  <2>2. ASSUME NEW j \in DOMAIN restart', u = restart'[j].timer
        PROVE  u \in CoveredNodes /\ u \in NodesOf(Kept) /\ u \in Repeating
    <3>1. restart' # <<>>
      OBVIOUS
    <3>2. Covering
      BY <3>1, DeleteAgain
    <3>3. PICK g \in DOMAIN list :
            /\ list[g].timer = u /\ u \in Repeating /\ ~StopWaits(u)
            /\ g <= Covered(list, elapsed)
      BY <2>2, DeleteAgain
    <3>4. elapsed \in Int
      BY <1>1, <3>2
    <3>5. g \in 1..Covered(list, elapsed)
      BY <1>4, <3>3, <3>4, CoveredDef
    <3>6. u \in CoveredNodes
      BY <3>2, <3>3, <3>5 DEF CoveredNodes, Covering
    <3>7. u \in NodesOf(Kept)
      BY <1>2, <3>3 DEF NodesOf
    <3> QED
      BY <3>3, <3>6, <3>7
  <2>3. ASSUME u \in CoveredNodes, u \in NodesOf(Kept), u \in Repeating
        PROVE  \E j \in DOMAIN restart' : u = restart'[j].timer
    <3>1. Covering
      BY <2>3 DEF CoveredNodes, Covering
    <3>2. PICK g \in 1..Covered(list, elapsed) : list[g].timer = u
      BY <2>3, <3>1 DEF CoveredNodes, Covering
    <3>3. elapsed \in Int
      BY <1>1, <3>1
    <3>4. g \in DOMAIN list /\ g <= Covered(list, elapsed)
      BY <1>4, <3>3, CoveredDef
    <3>5. ~StopWaits(u)
      BY <1>2, <2>3
    <3> QED
      BY <2>3, <3>1, <3>2, <3>4, <3>5, DeleteAgain
  <2> QED
    BY <2>1, <2>2, <2>3
<1>8. NodesOf(list') = NodesOf(Kept) \ (CoveredNodes \cap NodesOf(Kept))
  BY <1>6
<1>9. Waiting' = (CoveredNodes \cap NodesOf(Kept)) \cap Repeating
  BY <1>7
<1> QED
  BY <1>8, <1>9

(* The nodes a stop waits for. *)
LEMMA QueueStopped ==
  ASSUME ListTypeOK
  PROVE  Queue!Stopped = {t \in Timers : StopWaits(t)}
<1>1. ring \in Seq(RingOps)
  BY Basics
<1>2. /\ DOMAIN AskOf(ring) = DOMAIN ring
      /\ \A i \in DOMAIN ring : AskOf(ring)[i].op = ring[i].op
                                /\ AskOf(ring)[i].timer = ring[i].timer
  BY DEF AskOf
<1>3. \A i \in DOMAIN ring : ring[i].timer \in Timers
  <2> SUFFICES ASSUME NEW i \in DOMAIN ring PROVE ring[i].timer \in Timers
    OBVIOUS
  <2>1. ring[i] \in RingOps
    BY <1>1
  <2> QED
    BY <2>1 DEF RingOps
<1>4. Queue!Stopped = {AskOf(ring)[i].timer : i \in {j \in DOMAIN AskOf(ring) : AskOf(ring)[j].op = "stop"}}
  BY DEF Queue!Stopped, AskOf
<1> QED
  BY <1>2, <1>3, <1>4 DEF StopWaits

(* The first step of timer_list_handler. *)
LEMMA SwiDeleteRefines ==
  ASSUME ListInv, SwiDelete
  PROVE  Queue!SwiDelete
<1>0. ListTypeOK /\ Sound /\ Deep
  BY DEF ListInv, SwiDelete
<1>1. /\ swi = "idle" /\ ~rtc /\ swiPend /\ swi' = "insert" /\ swiPend' = FALSE /\ elapsed' = None
      /\ UNCHANGED <<ring, running, rtc, due, cycle>>
  BY <1>0, DeleteFacts DEF SwiDelete
<1>2. NodesOf(Kept) = NodesOf(list) \ Queue!Stopped
  <2>1. NodesOf(Kept) = {t \in NodesOf(list) : ~StopWaits(t)}
    BY <1>0, KeptIndex
  <2>2. NodesOf(list) \subseteq Timers
    <3>1. \A i \in 1..Len(list) : list[i].timer \in Timers
      BY <1>0, Basics, NodeSeqType
    <3>2. DOMAIN list = 1..Len(list)
      BY <1>0, Basics
    <3> QED
      BY <3>1, <3>2 DEF NodesOf
  <2>3. Queue!Stopped = {t \in Timers : StopWaits(t)}
    BY <1>0, QueueStopped
  <2> QED
    BY <2>1, <2>2, <2>3
<1>3. CoveredNodes' = {}
  BY <1>1 DEF CoveredNodes
<1>4. /\ NodesOf(list)' = NodesOf(Kept) \ (CoveredNodes \cap NodesOf(Kept))
      /\ Waiting' = (CoveredNodes \cap NodesOf(Kept)) \cap Repeating
  <2>1. NodesOf(list)' = NodesOf(list')
    BY DEF NodesOf
  <2> QED
    BY <1>0, <2>1, DeleteNodesOf
<1>5. AskOf(ring)' = AskOf(ring) /\ Looking' = Looking /\ Phase = "idle" /\ Phase' = "insert"
  BY <1>1, QueueFrame DEF Phase
<1> QED
  BY <1>1, <1>2, <1>3, <1>4, <1>5 DEF Queue!SwiDelete, AskOf, Waiting, Looking, Phase

(* An insertion adds its node, also one that is there. *)
LEMMA InsertNodesOf ==
  ASSUME ListTypeOK, NEW t \in Timers, NEW at \in Counters, Insert(t, at)
  PROVE  NodesOf(list)' = NodesOf(list) \cup {t}
<1>1. NewWait(at, t) \in Nat
  BY WaitFacts
<1>2. PICK n \in Nat : n = NewWait(at, t)
  BY <1>1
<1>3. list' = Inserted(list, t, n)
  BY <1>2 DEF Insert, NewWait
<1>4. PICK b : Inserts(b, t, n)
  BY <1>3, InsertsExists
<1>5. DOMAIN list = 1..Len(list) /\ Len(list) \in Nat
  BY Basics
<1>6. ASSUME NEW u PROVE u \in NodesOf(list') <=> u \in NodesOf(list) \cup {t}
  <2>1. ASSUME NEW j \in DOMAIN list', u = list'[j].timer
        PROVE  u = t \/ \E i \in DOMAIN list : u = list[i].timer
    <3>1. CASE j \in 1..b /\ j \in 1..Len(list)
      BY <1>4, <1>5, <2>1, <3>1 DEF Inserts
    <3>2. CASE j = b + 1
      BY <1>4, <2>1, <3>2 DEF Inserts
    <3>3. CASE j > b + 1 /\ j - 1 \in 1..Len(list) /\ ~(j - 1 <= b)
      <4>1. list'[(j - 1) + 1].timer = list[j - 1].timer
        BY <1>4, <3>3 DEF Inserts
      <4>2. (j - 1) + 1 = j
        <5>1. list' \in NodeSeq
          BY <1>4 DEF Inserts
        <5>2. j \in Int
          BY <5>1, NodeSeqType
        <5> QED
          BY <5>2
      <4> QED
        BY <1>5, <2>1, <3>3, <4>1, <4>2
    <3> QED
      BY <1>4, <3>1, <3>2, <3>3 DEF Inserts
  <2>2. ASSUME NEW i \in DOMAIN list, u = list[i].timer
        PROVE  \E j \in DOMAIN list' : u = list'[j].timer
    BY <1>4, <1>5, <2>2 DEF Inserts
  <2>3. b + 1 \in DOMAIN list' /\ list'[b + 1].timer = t
    BY <1>4 DEF Inserts
  <2> QED
    BY <2>1, <2>2, <2>3 DEF NodesOf
<1>7. NodesOf(list)' = NodesOf(list')
  BY DEF NodesOf
<1> QED
  BY <1>6, <1>7

(* The insertion of a node that starts again. *)
LEMMA SwiRestartRefines ==
  ASSUME ListInv, SwiRestart
  PROVE  Queue!SwiRestart
<1>0. ListTypeOK /\ Sound /\ Deep
  BY DEF ListInv, SwiRestart
<1>1. /\ swi = "insert" /\ restart # <<>> /\ restart' = Tail(restart)
      /\ UNCHANGED <<ring, elapsed, swi, rtc, due, swiPend>>
      /\ Insert(Head(restart).timer, Head(restart).at)
  BY DEF SwiRestart
<1>2. restart \in Seq(Restarts)
      /\ \A i, j \in DOMAIN restart : restart[i].timer = restart[j].timer => i = j
  BY <1>0, Basics DEF Deep, Nodes
<1>3. Head(restart) \in Restarts
  BY <1>1, <1>2, TailFacts
<1>4. PICK t \in Timers : t = Head(restart).timer /\ Head(restart).at \in Counters
  BY <1>3, ConstantFacts DEF Restarts
<1>5. NodesOf(list)' = NodesOf(list) \cup {t}
  BY <1>0, <1>1, <1>4, InsertNodesOf
<1>6. running' = running \cup {t} /\ cycle' = (cycle \/ t \in NodesOf(list))
  BY <1>1, <1>4 DEF Insert
<1>7. Waiting' = Waiting \ {t} /\ t \in Waiting
  BY <1>1, <1>2, <1>4, TailTimers DEF Waiting
<1>8. ~Covering
  BY <1>0, <1>1 DEF Deep, Turns
<1>9. CoveredNodes = {} /\ CoveredNodes' = {}
  BY <1>1, <1>8 DEF CoveredNodes, Covering
<1>10. Looking' = Looking /\ Phase' = Phase /\ AskOf(ring)' = AskOf(ring) /\ Phase = "insert"
  BY <1>1, QueueFrame DEF Phase
<1>11. cycle' = (cycle \/ {t} \cap NodesOf(list) # {})
  BY <1>6
<1> QED
  BY <1>1, <1>5, <1>6, <1>7, <1>9, <1>10, <1>11
     DEF Queue!SwiRestart, Queue!Insert, AskOf, Waiting, Looking, Phase

(* Taking a request. *)
LEMMA SwiPopRefines ==
  ASSUME ListInv, SwiPop
  PROVE  Queue!SwiPop
<1>0. ListTypeOK /\ Sound /\ Deep
  BY DEF ListInv, SwiPop
<1> DEFINE r == Head(ring)
<1>1. /\ swi = "insert" /\ restart = <<>> /\ ring # <<>> /\ ring' = Tail(ring)
      /\ UNCHANGED <<restart, elapsed, swi, rtc, due, swiPend>>
      /\ IF r.op = "start" /\ r.timer \notin running
         THEN Insert(r.timer, IF reset THEN 0 ELSE r.at)
         ELSE UNCHANGED <<list, running, cycle>>
  BY DEF SwiPop
<1>2. ring \in Seq(RingOps)
  BY <1>0, Basics
<1>3. /\ AskOf(ring) # <<>> /\ AskOf(Tail(ring)) = Tail(AskOf(ring))
      /\ Head(AskOf(ring)) = Plain(r) /\ r \in RingOps
  BY <1>1, <1>2, AskOfTail
<1>4. AskOf(ring)' = Tail(AskOf(ring))
  BY <1>1, <1>3 DEF AskOf
<1>5. Head(AskOf(ring)).op = r.op /\ Head(AskOf(ring)).timer = r.timer
  BY <1>3 DEF Plain
<1>6. ~Covering
  BY <1>0, <1>1 DEF Deep, Turns
<1>7. CoveredNodes = {} /\ CoveredNodes' = {}
  BY <1>1, <1>6 DEF CoveredNodes, Covering
<1>8. /\ Looking' = Looking /\ Phase' = Phase /\ Phase = "insert" /\ Waiting' = Waiting
      /\ Waiting = {}
  BY <1>1, QueueFrame DEF Phase, Waiting
<1> HIDE DEF r
<1>9. CASE r.op = "start" /\ r.timer \notin running
  <2>1. PICK t \in Timers : t = r.timer /\ r.at \in Counters
    BY <1>3, <1>9 DEF RingOps
  <2>2. PICK at \in Counters : Insert(t, at)
    <3>1. 0 \in Counters
      BY ConstantsType DEF Counters
    <3>2. CASE reset
      BY <1>1, <1>9, <2>1, <3>1, <3>2
    <3>3. CASE ~reset
      BY <1>1, <1>9, <2>1, <3>3
    <3> QED
      BY <3>2, <3>3
  <2>3. NodesOf(list)' = NodesOf(list) \cup {t}
    BY <1>0, <2>2, InsertNodesOf
  <2>4. running' = running \cup {t} /\ cycle' = (cycle \/ t \in NodesOf(list))
    BY <2>2 DEF Insert
  <2>5. cycle' = (cycle \/ {t} \cap NodesOf(list) # {})
    BY <2>4
  <2>6. Queue!Taken(Head(AskOf(ring))) /\ Head(AskOf(ring)).timer = t
    BY <1>5, <1>9, <2>1 DEF Queue!Taken
  <2>7. (IF Queue!Taken(Head(AskOf(ring))) THEN {Head(AskOf(ring)).timer} ELSE {}) = {t}
    BY <2>6
  <2>8. Queue!Insert({t})
    BY <2>3, <2>4, <2>5 DEF Queue!Insert
  <2>9. Queue!Insert(IF Queue!Taken(Head(AskOf(ring))) THEN {Head(AskOf(ring)).timer} ELSE {})
    BY <2>3, <2>4, <2>5, <2>7 DEF Queue!Insert
  <2> QED
    BY <1>1, <1>3, <1>4, <1>7, <1>8, <2>9 DEF Queue!SwiPop, AskOf, Waiting, Looking, Phase
<1>10. CASE ~(r.op = "start" /\ r.timer \notin running)
  <2>1. UNCHANGED <<list, running, cycle>>
    BY <1>1, <1>10
  <2>2. NodesOf(list)' = NodesOf(list)
    BY <2>1 DEF NodesOf
  <2>3. ~Queue!Taken(Head(AskOf(ring)))
    BY <1>5, <1>10 DEF Queue!Taken
  <2>4. cycle \in BOOLEAN
    BY <1>0 DEF ListTypeOK
  <2>5. cycle' = (cycle \/ {} \cap NodesOf(list) # {})
    BY <2>1, <2>4
  <2>6. (IF Queue!Taken(Head(AskOf(ring))) THEN {Head(AskOf(ring)).timer} ELSE {}) = {}
    BY <2>3
  <2>7. Queue!Insert(IF Queue!Taken(Head(AskOf(ring))) THEN {Head(AskOf(ring)).timer} ELSE {})
    BY <2>1, <2>2, <2>5, <2>6 DEF Queue!Insert
  <2> QED
    BY <1>1, <1>3, <1>4, <1>7, <1>8, <2>7 DEF Queue!SwiPop, AskOf, Waiting, Looking, Phase
<1> QED
  BY <1>9, <1>10

(* The end of the insertions. *)
LEMMA SwiLeaveRefines ==
  ASSUME ListInv, SwiLeave
  PROVE  Queue!SwiEnd
<1>1. /\ swi = "insert" /\ restart = <<>> /\ ring = <<>> /\ swi' \in {"update", "idle"}
      /\ UNCHANGED <<ring, list, running, restart, elapsed, rtc, due, swiPend, cycle>>
  BY DEF SwiLeave, history
<1>2. ring \in Seq(RingOps)
  BY Basics DEF ListInv
<1>3. AskOf(ring) = <<>>
  BY <1>1, <1>2, AskOfEmpty
<1>4. /\ NodesOf(list)' = NodesOf(list) /\ CoveredNodes' = CoveredNodes /\ Waiting' = Waiting
      /\ Looking' = Looking /\ AskOf(ring)' = AskOf(ring) /\ Waiting = {}
      /\ Phase = "insert" /\ Phase' = "idle"
  BY <1>1, QueueFrame DEF Phase, Waiting
<1> QED
  BY <1>1, <1>3, <1>4 DEF Queue!SwiEnd, AskOf, Waiting, Looking, Phase

(* The other steps change only ticks. *)
LEMMA OnlyTicks ==
  ASSUME UNCHANGED <<ring, list, running, restart, elapsed, rtc, due, swiPend, cycle>>,
         swi = "insert" <=> swi' = "insert"
  PROVE  UNCHANGED Queue!timerVars
<1>1. /\ NodesOf(list)' = NodesOf(list) /\ CoveredNodes' = CoveredNodes /\ Waiting' = Waiting
      /\ Looking' = Looking /\ AskOf(ring)' = AskOf(ring) /\ Phase' = Phase
  BY QueueFrame DEF Phase
<1> QED
  BY <1>1 DEF Queue!timerVars, AskOf, Waiting, Looking, Phase

(* Every step is one of TimerQueue, or leaves what it sees alone. *)
LEMMA StepRefines ==
  ListInv /\ [ListNext]_listVars => [QueueNext]_(Queue!timerVars)
<1> SUFFICES ASSUME ListInv, [ListNext]_listVars PROVE [QueueNext]_(Queue!timerVars)
  OBVIOUS
<1>1. ASSUME NEW t \in Timers, ClientStart(t) \/ ClientStop(t) \/ ClientStopRefused(t)
      PROVE  QueueNext
  BY <1>1, StartRefines, StopRefines, StopRefusedRefines DEF QueueNext
<1>2. CASE RtcEnter
  BY <1>2, RtcEnterRefines DEF QueueNext
<1>3. CASE RtcLeave
  BY <1>3, RtcLeaveRefines DEF QueueNext
<1>4. ASSUME NEW t \in Timers, Skip(t) \/ Fire(t)
      PROVE  QueueNext
  BY <1>4, SkipRefines, FireRefines DEF QueueNext
<1>5. CASE SwiDelete \/ SwiRestart \/ SwiPop \/ SwiLeave
  BY <1>5, SwiDeleteRefines, SwiRestartRefines, SwiPopRefines, SwiLeaveRefines DEF QueueNext
<1>6. CASE SwiRead
  BY <1>6, OnlyTicks DEF SwiRead
<1>7. CASE SwiSet
  BY <1>7, OnlyTicks DEF SwiSet, history
<1>8. CASE SwiCheck
  BY <1>8, OnlyTicks DEF SwiCheck, history
<1>9. CASE SwiStop
  BY <1>9, OnlyTicks DEF SwiStop, history
<1>10. CASE SwiClear
  BY <1>10, OnlyTicks DEF SwiClear, history
<1>11. CASE Tick
  BY <1>11, OnlyTicks DEF Tick, codeVars
<1>12. CASE UNCHANGED listVars
  BY <1>12, OnlyTicks DEF listVars, codeVars, rtc1Vars, history
<1> QED
  BY <1>1, <1>2, <1>3, <1>4, <1>5, <1>6, <1>7, <1>8, <1>9, <1>10, <1>11, <1>12
     DEF ListNext, Swi

(* app_timer.c with its ticks does what TimerQueue says: every step is one *)
(* of TimerQueue, or changes only ticks.                                   *)
THEOREM ListImplementsQueue == ListSpec => ImplementsQueue
<1>1. ListInit => Queue!TimerInit
  <2> SUFFICES ASSUME ListInit PROVE Queue!TimerInit
    OBVIOUS
  <2>1. /\ ring = <<>> /\ list = <<>> /\ restart = <<>> /\ due = <<>> /\ running = {}
        /\ elapsed = None /\ swi = "idle" /\ rtc = FALSE /\ swiPend = FALSE /\ cycle = FALSE
    BY DEF ListInit
  <2>2. AskOf(ring) = <<>>
    <3>1. ring \in Seq(RingOps)
      BY <2>1
    <3> QED
      BY <2>1, <3>1, AskOfEmpty
  <2>3. NodesOf(list) = {} /\ CoveredNodes = {} /\ Waiting = {} /\ Looking = {} /\ Phase = "idle"
    BY <2>1 DEF NodesOf, CoveredNodes, Waiting, Looking, Phase
  <2> QED
    BY <2>1, <2>2, <2>3 DEF Queue!TimerInit, AskOf, Waiting, Looking, Phase
<1>2. ListInv /\ [ListNext]_listVars => [QueueNext]_(Queue!timerVars)
  BY StepRefines
<1> QED
  BY <1>1, <1>2, ListAlways, PTL DEF ListSpec, ImplementsQueue
=============================================================================
