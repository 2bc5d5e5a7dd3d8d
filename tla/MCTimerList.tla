---------------------------- MODULE MCTimerList ----------------------------
(* Two timers of different intervals, on a counter of a few values. *)
EXTENDS TimerList

MCInterval == [t \in Timers |-> IF t = "poll" THEN 6 ELSE 3]

MCWait == [t \in Timers |-> IF t = "poll" THEN 1 ELSE Slack]

(* Only distances from m_ticks_latest matter while the module goes on, so  *)
(* states that differ by a rotation of the counter are checked once, and   *)
(* so are those that differ in what no later step looks at: the count of a *)
(* request that is about to be replaced, the counter that is about to be   *)
(* cleared, a COMPARE value that is set anew before the counter gets there.*)
Rotated(n) == IF n = None THEN None ELSE Diff(n, latest)

Replaced == swi = "insert" /\ reset

Requested ==
  [i \in DOMAIN ring |->
     <<ring[i].timer,
       IF ring[i].op = "stop" THEN None ELSE IF Replaced THEN 0 ELSE Rotated(ring[i].at)>>]

Match ==
  IF /\ elapsed # None \/ swi \in {"update", "set"} \/ (swi = "insert" /\ update)
     /\ Diff(compare, counter) \notin 1..Slack
  THEN None ELSE Rotated(compare)

Distances ==
  IF ~Sound THEN <<ListTypeOK, OnTime>>
  ELSE <<Requested, Replaced, Match,
         IF clearing THEN Fresh ELSE Rotated(counter),
         IF swi \in {"set", "check"} THEN Rotated(pre) ELSE None,
         IF update THEN {} ELSE head,
         {t \in Served : Wait[t] < Slack},
         [i \in DOMAIN restart |-> <<restart[i].timer, Rotated(restart[i].at)>>],
         list, running, elapsed, swi, update, rtc, due, swiPend \/ rtc, rtcPend,
         ticking, clearing, Rested, left>>
=============================================================================
