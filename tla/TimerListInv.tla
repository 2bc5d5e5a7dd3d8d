---------------------------- MODULE TimerListInv ----------------------------
(***************************************************************************)
(* The inductive invariant of TimerList.  All times are distances from     *)
(* m_ticks_latest: c is what the counter has passed since, D(i) when the   *)
(* i-th node is due, a when RTC1's COMPARE will match, x when a request    *)
(* was made.  The line is what had passed when the interrupts that are     *)
(* pending or running took the processor: c is at most Slack beyond it.    *)
(***************************************************************************)
EXTENDS TimerList

D(i) == Until(list, i)

Passed == IF clearing THEN 0 ELSE Diff(counter, latest)

Line == Passed - Rested

Ahead == Diff(compare, latest)

Aim == LET passed == Diff(pre, latest) + CompareOffset
       IN  IF passed < D(1) THEN D(1) ELSE passed

(* How far behind the time of t, the i-th node, COMPARE may be.  Each node *)
(* before it may be stopped, and COMPARE then set again.                   *)
Allow(t, i) == Wait[t] + (Cardinality(Timers) + 1 - i) * (CompareOffset - 1)

Allowed(i) == Allow(list[i].timer, i)

(* No allowance is more. *)
Behind == Offsets + Slack

Longest == CounterSize - 1 - Behind - Slack

(* The distance of a request from m_ticks_latest, as timer_list_insert     *)
(* takes it.                                                               *)
Since(at) == IF Diff(at, latest) < Half THEN Diff(at, latest)
             ELSE Diff(at, latest) - CounterSize

NewWait(at, t) == ToExpire(at, latest, Interval[t])

Covering == elapsed # None

Injective(s) == \A i, j \in DOMAIN s : s[i] = s[j] => i = j

(* Who may be at work when. *)
Turns ==
  /\ rtc => swi = "idle" /\ Covering
  /\ due # <<>> => rtc
  /\ Covering => rtc \/ swiPend
  /\ swi # "idle" => ~Covering
  /\ swi # "insert" => restart = <<>>
  /\ ring # <<>> => swiPend \/ swi = "insert"
  /\ reset => swi # "idle" /\ latest = 0
  /\ clearing => swi \in {"insert", "update", "stop"} /\ reset
  /\ clearing /\ swi = "insert" => update
  /\ rtcPend => ticking

(* What each node is in. *)
Nodes ==
  /\ \A i, j \in DOMAIN list : list[i].timer = list[j].timer => i = j
  /\ Injective(due)
  /\ \A i \in DOMAIN due : due[i] \in CoveredNodes
  /\ \A t \in running \cap CoveredNodes : \E i \in DOMAIN due : due[i] = t
  /\ \A i, j \in DOMAIN restart : restart[i].timer = restart[j].timer => i = j
  /\ swi = "insert" => head \subseteq NodesOf(list)

(* RTC1 runs while a timer is armed. *)
Clock ==
  /\ ~ticking /\ swi # "stop" => counter = 0 /\ latest = 0
  /\ swi = "idle" => (ticking <=> list # <<>>)
  /\ swi = "insert" /\ ~update /\ HeadOf(list) = head => (ticking <=> list # <<>>)
  /\ swi \in {"set", "check"} => list # <<>> /\ ticking
  /\ swi = "stop" => list = <<>> /\ ~ticking
  /\ restart # <<>> => ticking /\ ~reset
  /\ swi = "stop" \/ (swi = "update" /\ list = <<>>) =>
       \A i \in DOMAIN ring : ring[i].op # "start"

(* The counter does not come round, and no node is overdue by more than    *)
(* its allowance.                                                          *)
NoWrap ==
  /\ ticking => Line <= CounterSize - 1 - Slack
  /\ \A i \in DOMAIN list : D(i) <= Longest /\ Line <= D(i) + Allowed(i)

(* COMPARE will match in time. *)
Set ==
  /\ compare # None
  /\ Passed < Ahead
  /\ \A i \in DOMAIN list : Ahead <= D(i) + Allowed(i)
  /\ Ahead <= D(1) \/ Ahead <= Passed + CompareOffset

(* It is to be set anew, and nothing is lost yet. *)
Unset ==
  \A i \in DOMAIN list :
    \/ Line < D(i)
    \/ /\ compare # None
       /\ Passed < Ahead
       /\ Ahead + (CompareOffset - 1) <= D(i) + Allowed(i)

HeadKept == ~update /\ HeadOf(list) = head

Armed ==
  list # <<>> /\ ~rtcPend =>
    /\ swi = "idle" /\ ~Covering => Set
    /\ swi = "insert" /\ HeadKept => Set
    /\ swi = "insert" /\ ~HeadKept => Unset
    /\ swi = "update" => Unset
    /\ swi \in {"set", "check"} => \A i \in DOMAIN list : Aim <= D(i) + Allowed(i)
    /\ swi = "check" => compare = Target \/ (compare = None /\ Aim <= Passed + 1)

Reading == swi \in {"set", "check"} => Diff(pre, latest) <= Passed

(* What m_ticks_elapsed covers. *)
Covers ==
  Covering =>
    /\ list # <<>>
    /\ 0 <= elapsed /\ elapsed <= Passed
    /\ elapsed = D(Covered(list, elapsed))
    /\ \A i \in DOMAIN list : i > Covered(list, elapsed) => Line < D(i)

(* When requests were made. *)
Requests ==
  /\ \A i \in DOMAIN ring : ring[i].op = "start" =>
       \/ swi = "insert" /\ reset
       \/ /\ Line <= Since(ring[i].at) /\ Since(ring[i].at) <= Passed
          /\ swi # "insert" => Since(ring[i].at) >= 0
  /\ swi = "insert" /\ reset => Line <= 0
  /\ \A i \in DOMAIN restart :
       /\ Line + Slack < NewWait(restart[i].at, restart[i].timer)
       /\ NewWait(restart[i].at, restart[i].timer) <= Longest

(* While the interrupts run, each timer may still have to wait for them,   *)
(* or is one whose handler was called and that is not due again before     *)
(* they have had their time.                                               *)
Pausing ==
  /\ \A t \in Timers \ Served : Rested <= Wait[t]
  /\ \A i \in DOMAIN list :
       list[i].timer \in Served /\ Wait[list[i].timer] < Slack =>
         \/ /\ Covering /\ i <= Covered(list, elapsed)
            /\ list[i].timer \notin running
         \/ D(i) > Line + Slack

(* What is left of a timer's time. *)
Steady == ticking /\ ~clearing

Within(e) == e >= 0 /\ e <= Slack /\ (Steady \/ e <= Rested)

InList(t) ==
  /\ ~StopWaits(t)
  /\ \E i \in DOMAIN list :
       /\ list[i].timer = t
       /\ \/ t \in running /\ Within(D(i) - Passed - left[t])
          \/ /\ t \notin running /\ t \in Repeating
             /\ Covering /\ i <= Covered(list, elapsed)
             /\ Within(D(i) + Interval[t] - Passed - left[t])

InRestart(t) ==
  /\ ~StopWaits(t) /\ t \notin running
  /\ \E i \in DOMAIN restart :
       /\ restart[i].timer = t
       /\ Within(NewWait(restart[i].at, t) - Passed - left[t])

InRing(t) ==
  /\ t \notin running
  /\ \A i \in DOMAIN restart : restart[i].timer # t
  /\ StartWaits(t)
  /\ t \in NodesOf(list) =>
       /\ swi # "insert"
       /\ StopWaits(t) \/ (t \in CoveredNodes /\ t \notin Repeating)
  /\ \A i, j \in DOMAIN ring :
       ring[i].op = "start" /\ ring[i].timer = t
         /\ ring[j].op = "stop" /\ ring[j].timer = t => j < i
  /\ left[t] >= Interval[t] - Rested
  /\ \A i \in DOMAIN ring : ring[i].op = "start" /\ ring[i].timer = t =>
       left[t] <= Interval[t] - Passed
                    + (IF swi = "insert" /\ reset THEN 0 ELSE Since(ring[i].at))

Lefts == \A t \in DOMAIN left : InList(t) \/ InRestart(t) \/ InRing(t)

Deep == /\ Turns /\ Nodes /\ Clock /\ NoWrap /\ Armed /\ Reading /\ Covers
        /\ Requests /\ Pausing /\ Lefts

ListInv == ListTypeOK /\ OnTime /\ (Sound => Deep)
=============================================================================
