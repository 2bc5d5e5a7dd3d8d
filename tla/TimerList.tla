------------------------------ MODULE TimerList ------------------------------
(***************************************************************************)
(* app_timer.c with its ticks: the list of armed timers holds differences  *)
(* of ticks, a start request carries the counter RTC1 had when it was      *)
(* made, RTC1's COMPARE register is set from the head of the list, and the *)
(* counter wraps around, stops and is cleared.  Clients start and stop     *)
(* timers between any two steps, as code of a higher priority does.        *)
(***************************************************************************)
EXTENDS Integers, Sequences, FiniteSets

CONSTANTS
  Timers,         \* the timer nodes of the firmware
  Repeating,      \* those created with APP_TIMER_MODE_REPEATED
  OpQueueSize,    \* requests the ring holds
  Interval,       \* ticks from the start of a timer to its expiry
  CounterSize,    \* values of RTC1's counter, MAX_RTC_COUNTER_VAL + 1
  CompareOffset,  \* RTC_COMPARE_OFFSET_MIN
  Slack,          \* ticks that pass at most while interrupts wait or run
  Wait            \* those until the handler of a timer is called, if it is

ASSUME TimerListAssumption ==
  /\ Repeating \subseteq Timers
  /\ OpQueueSize \in Nat /\ Slack \in Nat /\ Wait \in [Timers -> 0..Slack]
  /\ CompareOffset \in Nat /\ CounterSize \in Nat \ {0}
  /\ Interval \in [Timers -> 1..(CounterSize - 1)]

Half == (CounterSize - 1) \div 2

(* What COMPARE may be set behind a timer's time because stops of other    *)
(* timers have it set again and again, each time an offset ahead.          *)
Offsets == Cardinality(Timers) * (CompareOffset - 1)

(* The intervals are short against the counter.  A timer that repeats, or  *)
(* whose own handler is what keeps the processor so long, is not due again *)
(* before the interrupts have had their time.                              *)
ASSUME TimingAssumption ==
  /\ IsFiniteSet(Timers)
  /\ CompareOffset >= 2 /\ CounterSize > 2
  /\ \A t \in Timers : Half + Interval[t] + Offsets + 2 * Slack <= CounterSize
  /\ \A t \in Timers :
       t \in Repeating \/ Wait[t] < Slack => Interval[t] > Wait[t] + Offsets + Slack

(* The ticks the handler of a timer may be late: those it waits for when   *)
(* COMPARE is set and when it matches, and the slack once, when a stop in  *)
(* front of its start had the counter cleared.                             *)
MaxLate(t) == 2 * Wait[t] + Offsets + Slack

VARIABLES
  \* what the code keeps
  ring,      \* m_op_queue
  list,      \* the linked list: its nodes with their ticks_to_expire
  running,   \* nodes whose is_running flag is set
  restart,   \* p_restart_list_head: nodes with their new ticks_at_start
  elapsed,   \* m_ticks_elapsed, or None
  latest,    \* m_ticks_latest
  reset,     \* m_rtc1_reset
  swi,       \* progress of timer_list_handler
  head,      \* the head of the list when the insertions began, if any
  update,    \* compare_update
  pre,       \* pre_counter_val
  rtc,       \* timer_timeouts_check is in progress
  due,       \* expired nodes it has not looked at yet
  \* the interrupts and the RTC1 peripheral
  swiPend, rtcPend,
  counter,   \* COUNTER
  compare,   \* CC[0], or None when the value written does not trigger
  ticking,   \* RTC1 is started
  clearing,  \* TASKS_CLEAR was triggered and has not been executed yet
  busy,      \* ticks since an interrupt is pending or running
  served,    \* the timers whose handlers were called since
  \* history
  cycle,     \* a node is linked twice
  left,      \* ticks until it is due, for each timer that is timed
  misread    \* the counter was read while it was to be cleared

codeVars == <<ring, list, running, restart, elapsed, latest, reset, swi, head,
              update, pre, rtc, due, swiPend>>
rtc1Vars == <<rtcPend, counter, compare, ticking, clearing, busy, served>>
history == <<cycle, left, misread>>
listVars == <<codeVars, rtc1Vars, history>>

None == -1

Counters == 0..(CounterSize - 1)

ListTypeOK ==
  /\ ring \in Seq([op : {"start"}, timer : Timers, at : Counters]
                  \cup [op : {"stop"}, timer : Timers])
  /\ Len(ring) <= OpQueueSize
  /\ list \in Seq([timer : Timers, wait : 0..(2 * CounterSize)])
  /\ running \subseteq Timers
  /\ restart \in Seq([timer : Repeating, at : Counters])
  /\ elapsed \in Counters \cup {None} /\ latest \in Counters
  /\ swi \in {"idle", "insert", "update", "set", "check", "stop"}
  /\ head \subseteq Timers /\ pre \in Counters
  /\ due \in Seq(Timers)
  /\ counter \in Counters /\ compare \in Counters \cup {None}
  /\ {reset, update, rtc, swiPend, rtcPend, ticking, clearing, cycle,
      misread} \subseteq BOOLEAN
  /\ busy \in 0..Slack /\ served \subseteq Timers
  /\ DOMAIN left \subseteq Timers
  /\ \A t \in DOMAIN left : left[t] \in -(MaxLate(t) + 1)..(2 * CounterSize)

ListInit ==
  /\ ring = <<>> /\ list = <<>> /\ restart = <<>> /\ due = <<>>
  /\ running = {} /\ elapsed = None /\ latest = 0 /\ reset = FALSE
  /\ swi = "idle" /\ head = {} /\ update = FALSE /\ pre = 0
  /\ rtc = FALSE /\ swiPend = FALSE /\ rtcPend = FALSE
  /\ counter = 0 /\ compare = None /\ ticking = FALSE /\ clearing = FALSE
  /\ busy = 0 /\ served = {}
  /\ cycle = FALSE
  /\ left = <<>> /\ misread = FALSE

Idle == ~rtc /\ swi = "idle" /\ ~swiPend /\ ~rtcPend

(* The module stops at a circular list, and when the counter was misread:  *)
(* from then on timers may be early, or late by what it had counted.       *)
Sound == ~cycle /\ ~misread

-----------------------------------------------------------------------------
(***************************************************************************)
(* The list.  Until(l, i) is the time from m_ticks_latest to the expiry of *)
(* the i-th node.                                                          *)
(***************************************************************************)
Diff(now, old) == (now - old) % CounterSize

Times(l) ==
  LET until[i \in 0..Len(l)] == IF i = 0 THEN 0 ELSE until[i - 1] + l[i].wait
  IN  until

Until(l, i) == Times(l)[i]

(* The number of nodes at the front that n ticks cover. *)
Covered(l, n) == Cardinality({i \in DOMAIN l : Until(l, i) <= n})

NodesOf(l) == {l[i].timer : i \in DOMAIN l}

Node(t, n) == [timer |-> t, wait |-> n]

(* timer_list_insert: the new node comes before one of the same time, and  *)
(* the node behind it keeps its time.                                      *)
Inserted(l, t, n) ==
  LET before == Cardinality({i \in DOMAIN l : Until(l, i) < n})
      rest   == n - Until(l, before)
  IN  [i \in 1..(Len(l) + 1) |->
         IF i <= before          THEN l[i]
         ELSE IF i = before + 1  THEN Node(t, rest)
         ELSE IF i = before + 2  THEN Node(l[i - 1].timer, l[i - 1].wait - rest)
         ELSE l[i - 1]]

Bug_Removed(l, t) == SelectSeq(l, LAMBDA node : node.timer # t)

(* timer_list_remove: the node behind inherits the ticks. *)
Removed(l, t) ==
  IF t \notin NodesOf(l) THEN l
  ELSE LET k == CHOOSE i \in DOMAIN l : l[i].timer = t
       IN  [i \in 1..(Len(l) - 1) |->
              IF i < k THEN l[i]
              ELSE IF i = k THEN Node(l[i + 1].timer, l[i + 1].wait + l[k].wait)
              ELSE l[i + 1]]

(* The nodes left of l by n elapsed ticks, and the ticks of the first. *)
Advanced(l, n) ==
  LET k == Covered(l, n)
  IN  [i \in 1..(Len(l) - k) |->
         IF i = 1 THEN Node(l[k + 1].timer, Until(l, k + 1) - n) ELSE l[k + i]]

HeadOf(l) == IF l = <<>> THEN {} ELSE {l[1].timer}

(* The ticks_to_expire of a node that was started when the counter was at: *)
(* after base, unless that is more than half of the counter's range away.  *)
ToExpire(at, base, n) ==
  IF Diff(at, base) < Half
  THEN Diff(at, base) + n
  ELSE IF n > Diff(base, at) THEN n - Diff(base, at) ELSE 0

-----------------------------------------------------------------------------
(***************************************************************************)
(* Requests.                                                               *)
(***************************************************************************)
Bug_RoomOffByOne == Len(ring) <= OpQueueSize

HasRoom == Len(ring) < OpQueueSize

StartWaits(t) == \E i \in DOMAIN ring : ring[i].op = "start" /\ ring[i].timer = t
StopWaits(t) == \E i \in DOMAIN ring : ring[i].op = "stop" /\ ring[i].timer = t

CoveredNodes ==
  IF elapsed = None THEN {} ELSE {list[i].timer : i \in 1..Covered(list, elapsed)}

(* A start of t has nothing to do: t runs, or is about to. *)
Active(t) == \/ t \in running \/ StartWaits(t)
             \/ t \in Repeating /\ t \in CoveredNodes /\ ~StopWaits(t)
             \/ \E i \in DOMAIN restart : restart[i].timer = t

Rested == IF Idle THEN 0 ELSE busy
Served == IF Idle THEN {} ELSE served

Untimed(t) == [u \in DOMAIN left \ {t} |-> left[u]]

Timed(t) ==
  [u \in DOMAIN left \cup {t} |-> IF u = t THEN Interval[t] ELSE left[u]]

(* Bound: m_ticks_latest moves when a timer expires; the firmware's poll or *)
(* LED timer does so long before half of the counter's range has passed.   *)
Fresh == Diff(counter, latest) < Half

(* TASKS_CLEAR takes up to two ticks, and rtc1_stop is still to come when  *)
(* the list is empty: a start keeps a count that means nothing any more.   *)
Unsteady == clearing \/ (swi \in {"update", "stop"} /\ list = <<>>)

(* A start is timed unless it comes during the insertions and its count is *)
(* replaced by 0, or finds the node of a stop that came too late or was    *)
(* refused.  A node that RTC1 has found expired, as it is for a start from *)
(* the timer's own handler, or whose stop waits goes before the insertion. *)
Timely(t) ==
  IF swi = "insert" THEN ~reset /\ t \notin NodesOf(list)
  ELSE t \in NodesOf(list) => StopWaits(t) \/ t \in CoveredNodes

ClientStart(t) ==
  /\ Sound /\ HasRoom /\ Fresh
  /\ ring' = Append(ring, [op |-> "start", timer |-> t, at |-> counter])
  /\ swiPend' = TRUE /\ busy' = Rested /\ served' = Served
  /\ left' = IF Active(t) THEN left
             ELSE IF Timely(t) THEN Timed(t)
             ELSE Untimed(t)
  /\ misread' = Unsteady
  /\ UNCHANGED <<list, running, restart, elapsed, latest, reset, swi, head,
                 update, pre, rtc, due, rtcPend, counter, compare, ticking,
                 clearing, cycle>>

StopAsked(t) ==
  /\ Sound /\ HasRoom
  /\ ring' = Append(ring, [op |-> "stop", timer |-> t])
  /\ swiPend' = TRUE /\ busy' = Rested /\ served' = Served
  /\ left' = Untimed(t)
  /\ UNCHANGED <<list, restart, elapsed, latest, reset, swi, head, update,
                 pre, rtc, due, rtcPend, counter, compare, ticking, clearing,
                 cycle, misread>>

Bug_StopLater(t) == StopAsked(t) /\ UNCHANGED running

ClientStop(t) == StopAsked(t) /\ running' = running \ {t}

ClientStopRefused(t) ==
  /\ Sound /\ ~HasRoom
  /\ running' = running \ {t}
  /\ left' = Untimed(t)
  /\ UNCHANGED <<ring, list, restart, elapsed, latest, reset, swi, head,
                 update, pre, rtc, due, swiPend, rtc1Vars, cycle, misread>>

-----------------------------------------------------------------------------
(***************************************************************************)
(* RTC1, which goes before SWI0 when both are pending.                     *)
(***************************************************************************)
RtcEnter ==
  /\ Sound /\ rtcPend /\ ~rtc /\ swi = "idle"
  /\ rtcPend' = FALSE
  /\ IF list = <<>> THEN UNCHANGED <<rtc, due, elapsed, misread>>
     ELSE LET k == Covered(list, Diff(counter, latest))
          IN  /\ rtc' = TRUE
              /\ due' = [i \in 1..k |-> list[i].timer]
              /\ elapsed' = Until(list, k)
              /\ misread' = clearing
  /\ UNCHANGED <<ring, list, running, restart, latest, reset, swi, head,
                 update, pre, swiPend, counter, compare, ticking, clearing,
                 busy, served, cycle, left>>

Pass(t) ==
  /\ Sound /\ rtc /\ due # <<>> /\ Head(due) = t
  /\ due' = Tail(due)
  /\ UNCHANGED <<ring, list, restart, elapsed, latest, reset, swi, head,
                 update, pre, rtc, swiPend, rtcPend, counter, compare,
                 ticking, clearing, busy, cycle, misread>>

Skip(t) ==
  /\ Pass(t) /\ t \notin running
  /\ UNCHANGED <<running, served, left>>

Fire(t) ==
  /\ Pass(t) /\ t \in running
  /\ running' = running \ {t}
  /\ served' = served \cup {t}
  /\ left' = IF t \notin DOMAIN left THEN left
             ELSE IF t \in Repeating THEN [left EXCEPT ![t] = @ + Interval[t]]
             ELSE Untimed(t)

RtcLeave ==
  /\ Sound /\ rtc /\ due = <<>>
  /\ rtc' = FALSE
  /\ swiPend' = TRUE
  /\ UNCHANGED <<ring, list, running, restart, elapsed, latest, reset, swi,
                 head, update, pre, due, rtc1Vars, history>>

-----------------------------------------------------------------------------
(***************************************************************************)
(* SWI0: timer_list_handler.                                               *)
(***************************************************************************)
(* list_deletions_handler: the list after the stops among the first k      *)
(* requests, and after all of them.                                        *)
Deleted ==
  LET after[k \in 0..Len(ring)] ==
        IF k = 0 THEN list
        ELSE IF ring[k].op = "stop" THEN Removed(after[k - 1], ring[k].timer)
        ELSE after[k - 1]
  IN  after

Kept == Deleted[Len(ring)]

(* expired_timers_handler: repeating nodes, the last one first. *)
Again(l, n) ==
  LET again[i \in 0..Covered(l, n)] ==
        IF i = 0 THEN <<>>
        ELSE IF l[i].timer \in Repeating
        THEN <<[timer |-> l[i].timer, at |-> (latest + Until(l, i)) % CounterSize]>>
               \o again[i - 1]
        ELSE again[i - 1]
  IN  again[Covered(l, n)]

(* The counter is cleared when the stops have emptied the list. *)
Emptied == list # <<>> /\ Kept = <<>>

SwiDelete ==
  /\ Sound /\ swiPend /\ ~rtcPend /\ ~rtc /\ swi = "idle"
  /\ swiPend' = FALSE /\ swi' = "insert"
  /\ elapsed' = None
  /\ list' = IF elapsed = None THEN Kept ELSE Advanced(Kept, elapsed)
  /\ restart' = IF elapsed = None THEN <<>> ELSE Again(Kept, elapsed)
  /\ latest' = IF Emptied THEN 0
               ELSE IF elapsed = None THEN latest
               ELSE (latest + elapsed) % CounterSize
  /\ reset' = Emptied
  /\ clearing' = (clearing \/ Emptied)
  /\ update' = (elapsed # None \/ HeadOf(Kept) # HeadOf(list))
  /\ head' = HeadOf(list')
  /\ UNCHANGED <<ring, running, pre, rtc, due, rtcPend, counter, compare,
                 ticking, busy, served, history>>

(* list_insertions_handler: a node is prepared and inserted. *)
Insert(t, at) ==
  /\ list' = Inserted(list, t, ToExpire(at, latest, Interval[t]))
  /\ running' = running \cup {t}
  /\ cycle' = (cycle \/ t \in NodesOf(list))

SwiRestart ==
  /\ Sound /\ swi = "insert" /\ restart # <<>>
  /\ Insert(Head(restart).timer, Head(restart).at)
  /\ restart' = Tail(restart)
  /\ UNCHANGED <<ring, elapsed, latest, reset, swi, head, update, pre, rtc,
                 due, swiPend, rtc1Vars, left, misread>>

SwiPop ==
  /\ Sound /\ swi = "insert" /\ restart = <<>> /\ ring # <<>>
  /\ ring' = Tail(ring)
  /\ LET r == Head(ring)
     IN  IF r.op = "start" /\ r.timer \notin running
         THEN Insert(r.timer, IF reset THEN 0 ELSE r.at)
         ELSE UNCHANGED <<list, running, cycle>>
  /\ UNCHANGED <<restart, elapsed, latest, reset, swi, head, update, pre, rtc,
                 due, swiPend, rtc1Vars, left, misread>>

SwiLeave ==
  /\ Sound /\ swi = "insert" /\ restart = <<>> /\ ring = <<>>
  /\ IF update \/ HeadOf(list) # head
     THEN swi' = "update" /\ UNCHANGED reset
     ELSE swi' = "idle" /\ reset' = FALSE
  /\ head' = {} /\ update' = FALSE
  /\ UNCHANGED <<ring, list, running, restart, elapsed, latest, pre, rtc, due,
                 swiPend, rtc1Vars, history>>

(* compare_reg_update, up to its first look at the counter; RTC1 is        *)
(* started if it does not run ...                                          *)
SwiRead ==
  /\ Sound /\ swi = "update" /\ list # <<>>
  /\ swi' = "set"
  /\ pre' = counter
  /\ ticking' = TRUE
  /\ rtcPend' = (rtcPend /\ ticking)
  /\ misread' = clearing
  /\ UNCHANGED <<ring, list, running, restart, elapsed, latest, reset, head,
                 update, rtc, due, swiPend, counter, compare, clearing, busy,
                 served, cycle, left>>

(* ... the register is set, which has no effect when the counter is there  *)
(* or one tick before ...                                                  *)
Target ==
  LET passed == Diff(pre, latest) + CompareOffset
  IN  (latest + IF passed < list[1].wait THEN list[1].wait ELSE passed)
        % CounterSize

SwiSet ==
  /\ Sound /\ swi = "set"
  /\ swi' = "check"
  /\ compare' \in {Target} \cup (IF Diff(Target, counter) <= 1 THEN {None} ELSE {})
  /\ UNCHANGED <<ring, list, running, restart, elapsed, latest, reset, head,
                 update, pre, rtc, due, swiPend, rtcPend, counter, ticking,
                 clearing, busy, served, history>>

(* ... and if the counter may have been there, RTC1 is pended. *)
Bug_Missed == FALSE

Missed == Diff(counter, pre) + CompareOffset > Diff(Target, pre)

SwiCheck ==
  /\ Sound /\ swi = "check"
  /\ swi' = "idle" /\ reset' = FALSE /\ pre' = 0
  /\ IF Missed THEN compare' = counter /\ rtcPend' = TRUE
     ELSE UNCHANGED <<compare, rtcPend>>
  /\ UNCHANGED <<ring, list, running, restart, elapsed, latest, head, update,
                 rtc, due, swiPend, counter, ticking, clearing, busy, served,
                 history>>

(* With no timer left RTC1 is stopped, and then cleared. *)
SwiStop ==
  /\ Sound /\ swi = "update" /\ list = <<>>
  /\ swi' = "stop"
  /\ ticking' = FALSE /\ rtcPend' = FALSE /\ compare' = None
  /\ UNCHANGED <<ring, list, running, restart, elapsed, latest, reset, head,
                 update, pre, rtc, due, swiPend, counter, clearing, busy,
                 served, history>>

SwiClear ==
  /\ Sound /\ swi = "stop"
  /\ swi' = "idle" /\ reset' = FALSE
  /\ counter' = 0 /\ latest' = 0 /\ clearing' = FALSE
  /\ UNCHANGED <<ring, list, running, restart, elapsed, head, update, pre,
                 rtc, due, swiPend, rtcPend, compare, ticking, busy, served,
                 history>>

-----------------------------------------------------------------------------
(* A tick of the low-frequency clock (external).  The interrupts keep the  *)
(* processor for at most Slack ticks in a row, and for more than Wait[t]   *)
(* only when the handler of t is among what they did.                      *)
Tick ==
  /\ Sound
  /\ \/ Idle
     \/ busy < Slack /\ \A t \in Timers \ served : busy < Wait[t]
  /\ busy' = IF Idle THEN 0 ELSE busy + 1
  /\ served' = Served
  /\ counter' = IF clearing THEN 0
                ELSE IF ticking THEN (counter + 1) % CounterSize ELSE counter
  /\ clearing' = FALSE
  /\ rtcPend' = (rtcPend \/ (ticking /\ counter' = compare))
  /\ left' = [t \in DOMAIN left |->
                IF left[t] > -(MaxLate(t) + 1) THEN left[t] - 1 ELSE left[t]]
  /\ UNCHANGED <<codeVars, compare, ticking, cycle, misread>>

Swi == \/ SwiDelete \/ SwiRestart \/ SwiPop \/ SwiLeave
       \/ SwiRead \/ SwiSet \/ SwiCheck
       \/ SwiStop \/ SwiClear

ListNext ==
  \/ \E t \in Timers : ClientStart(t) \/ ClientStop(t) \/ ClientStopRefused(t)
  \/ RtcEnter \/ RtcLeave
  \/ \E t \in Timers : Skip(t) \/ Fire(t)
  \/ Swi
  \/ Tick

ListSpec == ListInit /\ [][ListNext]_listVars

-----------------------------------------------------------------------------
(***************************************************************************)
(* Without its ticks, the list is that of TimerQueue.                      *)
(***************************************************************************)
Queue == INSTANCE TimerQueue WITH
  opq     <- [i \in DOMAIN ring |-> [op |-> ring[i].op, timer |-> ring[i].timer]],
  listed  <- NodesOf(list),
  expired <- CoveredNodes,
  restart <- {restart[i].timer : i \in DOMAIN restart},
  swi     <- IF swi = "insert" THEN "insert" ELSE "idle",
  due     <- {due[i] : i \in DOMAIN due}

QueueNext ==
  \/ \E t \in Timers :
       \/ Queue!StartTimer(t) \/ Queue!StopTimer(t) \/ Queue!StopRefused(t)
       \/ Queue!RtcSkip(t)
       \/ Queue!RtcClear(t) /\ UNCHANGED <<ring, swiPend>>
  \/ \E E \in SUBSET Timers : Queue!RtcExpire(E)
  \/ Queue!SwiDelete \/ Queue!SwiRestart \/ Queue!SwiPop \/ Queue!SwiEnd
  \/ Queue!RtcEnd

(* Every step is one of TimerQueue's, or changes only ticks. *)
ImplementsQueue == Queue!TimerInit /\ [][QueueNext]_(Queue!timerVars)

-----------------------------------------------------------------------------
(* However the other timer is started and stopped, and wherever the        *)
(* counter wraps around, no handler is called before its interval is over: *)
(* the differences in the list, the ticks at the start and COMPARE agree.  *)
NeverEarly ==
  [][\A t \in DOMAIN left : Fire(t) => left[t] <= 0]_listVars

(* A timer that was started and not stopped, also by its own handler, is   *)
(* served within MaxLate ticks of its time, however long the handlers of   *)
(* the others and its own of before take: neither a COMPARE value the      *)
(* counter has already passed, nor an expiry while SWI0 is at work, nor    *)
(* the removal of a node before it in the list loses it.                   *)
OnTime == \A t \in DOMAIN left : left[t] >= -MaxLate(t)
=============================================================================
