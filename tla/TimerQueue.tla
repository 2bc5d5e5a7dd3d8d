----------------------------- MODULE TimerQueue -----------------------------
(***************************************************************************)
(* app_timer.c: the timers of the firmware share a linked list of armed    *)
(* timers and a ring of start and stop requests.  Any context may call     *)
(* app_timer_start or app_timer_stop, which only queue a request and pend  *)
(* the software interrupt SWI0.  SWI0 and RTC1 run at the lowest           *)
(* application priority: they do not preempt each other, and the handler   *)
(* of SoftDevice events preempts both between any two of their steps.      *)
(*                                                                         *)
(* Ticks are abstracted: any set of listed timers may expire together, and *)
(* only the contents of the list are kept, not its order.                  *)
(***************************************************************************)
EXTENDS Naturals, Sequences

CONSTANTS
  Timers,      \* the timer nodes of the firmware
  Repeating,   \* those created with APP_TIMER_MODE_REPEATED
  OpQueueSize  \* requests the ring holds (APP_TIMER_OP_QUEUE_SIZE)

ASSUME TimersAssumption ==
  /\ Repeating \subseteq Timers
  /\ OpQueueSize \in Nat

VARIABLES
  opq,      \* m_op_queue: requests not yet taken by SWI0
  listed,   \* nodes linked in the list headed by mp_timer_id_head
  running,  \* nodes whose is_running flag is set
  expired,  \* nodes covered by the elapsed ticks RTC1 left for SWI0
  restart,  \* p_restart_list_head: repeating nodes SWI0 is to link again
  swi,      \* progress of timer_list_handler: "idle" or "insert"
  swiPend,  \* SWI0 is pending in the interrupt controller
  rtc,      \* timer_timeouts_check is in progress
  due,      \* expired nodes timer_timeouts_check has not looked at yet
  cycle     \* a node was linked while already in the list

timerVars == <<opq, listed, running, expired, restart, swi, swiPend, rtc, due,
               cycle>>

Ops == [op : {"start", "stop"}, timer : Timers]

TimerTypeOK ==
  /\ opq \in Seq(Ops)
  /\ Len(opq) <= OpQueueSize
  /\ listed \subseteq Timers
  /\ running \subseteq Timers
  /\ expired \subseteq Timers
  /\ restart \subseteq Repeating
  /\ swi \in {"idle", "insert"}
  /\ swiPend \in BOOLEAN
  /\ rtc \in BOOLEAN
  /\ due \subseteq Timers
  /\ cycle \in BOOLEAN

TimerInit ==
  /\ opq = <<>>
  /\ listed = {} /\ running = {} /\ expired = {} /\ restart = {} /\ due = {}
  /\ swi = "idle"
  /\ swiPend = FALSE
  /\ rtc = FALSE
  /\ cycle = FALSE

-----------------------------------------------------------------------------
(***************************************************************************)
(* Requests.  user_op_alloc refuses when the ring is full, and the caller  *)
(* gets NRF_ERROR_NO_MEM.                                                  *)
(***************************************************************************)
Bug_RoomOffByOne(q, n) == Len(q) + n <= OpQueueSize + 1

Bug_RoomLosesASlot(q, n) == Len(q) + n < OpQueueSize

HasRoom(q, n) == Len(q) + n <= OpQueueSize

Start(q, t) == Append(q, [op |-> "start", timer |-> t])
Stop(q, t) == Append(q, [op |-> "stop", timer |-> t])

Pending(op, t) == \E i \in 1..Len(opq) : opq[i] = [op |-> op, timer |-> t]

(* app_timer_start succeeded. *)
StartTimer(t) ==
  /\ HasRoom(opq, 1)
  /\ opq' = Start(opq, t)
  /\ swiPend' = TRUE
  /\ UNCHANGED <<listed, running, expired, restart, swi, rtc, due, cycle>>

Bug_StopKeepsRunning(t) ==
  /\ HasRoom(opq, 1)
  /\ opq' = Stop(opq, t)
  /\ swiPend' = TRUE
  /\ UNCHANGED <<running, listed, expired, restart, swi, rtc, due, cycle>>

(* app_timer_stop succeeded: the flag is cleared at once, the node is      *)
(* unlinked later.                                                         *)
StopTimer(t) ==
  /\ HasRoom(opq, 1)
  /\ running' = running \ {t}
  /\ opq' = Stop(opq, t)
  /\ swiPend' = TRUE
  /\ UNCHANGED <<listed, expired, restart, swi, rtc, due, cycle>>

(* app_timer_stop found the ring full: it returns NRF_ERROR_NO_MEM, but    *)
(* the flag is cleared already.                                            *)
StopRefused(t) ==
  /\ ~HasRoom(opq, 1)
  /\ running' = running \ {t}
  /\ UNCHANGED <<opq, listed, expired, restart, swi, swiPend, rtc, due, cycle>>

-----------------------------------------------------------------------------
(***************************************************************************)
(* SWI0: timer_list_handler.  The first step unlinks the nodes of every    *)
(* queued stop and the expired nodes; the next ones link the repeating     *)
(* nodes again and then take the requests one by one, a start of a node    *)
(* that is running and any stop being passed over.                         *)
(***************************************************************************)
Stopped == {opq[i].timer : i \in {j \in DOMAIN opq : opq[j].op = "stop"}}

Bug_SwiDeleteDropsRepeating ==
  /\ swi = "idle" /\ ~rtc /\ swiPend
  /\ swi' = "insert"
  /\ swiPend' = FALSE
  /\ listed' = (listed \ Stopped) \ expired
  /\ expired' = {}
  /\ UNCHANGED <<opq, running, restart, rtc, due, cycle>>

SwiDelete ==
  /\ swi = "idle" /\ ~rtc /\ swiPend
  /\ swi' = "insert"
  /\ swiPend' = FALSE
  /\ LET kept == listed \ Stopped
         gone == expired \cap kept
     IN  /\ listed' = kept \ gone
         /\ restart' = gone \cap Repeating
  /\ expired' = {}
  /\ UNCHANGED <<opq, running, rtc, due, cycle>>

(* timer_list_insert on the nodes of T.  A node that is already linked     *)
(* ends up reachable from itself.                                          *)
Insert(T) ==
  /\ listed' = listed \cup T
  /\ running' = running \cup T
  /\ cycle' = (cycle \/ T \cap listed # {})

SwiRestart ==
  /\ swi = "insert"
  /\ \E t \in restart : Insert({t}) /\ restart' = restart \ {t}
  /\ UNCHANGED <<opq, expired, swi, swiPend, rtc, due>>

Bug_TakesAnyStart(o) == o.op = "start"

Taken(o) == o.op = "start" /\ o.timer \notin running

SwiPop ==
  /\ swi = "insert" /\ restart = {} /\ opq # <<>>
  /\ opq' = Tail(opq)
  /\ Insert(IF Taken(Head(opq)) THEN {Head(opq).timer} ELSE {})
  /\ UNCHANGED <<expired, restart, swi, swiPend, rtc, due>>

Bug_SwiEndsEarly ==
  /\ swi = "insert" /\ restart = {}
  /\ swi' = "idle"
  /\ UNCHANGED <<opq, listed, running, expired, restart, swiPend, rtc, due,
                 cycle>>

SwiEnd ==
  /\ swi = "insert" /\ restart = {} /\ opq = <<>>
  /\ swi' = "idle"
  /\ UNCHANGED <<opq, listed, running, expired, restart, swiPend, rtc, due,
                 cycle>>

-----------------------------------------------------------------------------
(***************************************************************************)
(* RTC1: timer_timeouts_check walks the expired nodes, clears is_running   *)
(* of each that has it set and calls its handler, then leaves the elapsed  *)
(* ticks to SWI0.  The interrupt may come again before SWI0 has had its    *)
(* turn, and may find no node expired.                                     *)
(***************************************************************************)
RtcExpire(E) ==
  /\ swi = "idle" /\ ~rtc /\ listed # {}
  /\ expired \subseteq E /\ E \subseteq listed
  /\ rtc' = TRUE
  /\ due' = E
  /\ expired' = E
  /\ UNCHANGED <<opq, listed, running, restart, swi, swiPend, cycle>>

(* An expired node that was stopped in the meantime is passed over. *)
RtcSkip(t) ==
  /\ t \in due \ running
  /\ due' = due \ {t}
  /\ UNCHANGED <<opq, listed, running, expired, restart, swi, swiPend, rtc,
                 cycle>>

(* The part of calling t's handler that concerns this module. *)
RtcClear(t) ==
  /\ t \in due \cap running
  /\ due' = due \ {t}
  /\ running' = running \ {t}
  /\ UNCHANGED <<listed, expired, restart, swi, rtc, cycle>>

RtcEnd ==
  /\ rtc /\ due = {}
  /\ rtc' = FALSE
  /\ swiPend' = TRUE
  /\ UNCHANGED <<opq, listed, running, expired, restart, swi, due, cycle>>
=============================================================================
