---------------------------- MODULE TimerClients ----------------------------
(***************************************************************************)
(* app_timer under arbitrary clients: any timer may be started or stopped  *)
(* between any two steps of SWI0 and RTC1, as code of a higher priority    *)
(* does.  The module says on what terms app_timer_stop keeps its word.     *)
(***************************************************************************)
EXTENDS TimerQueue

VARIABLES
  silenced,  \* history: timers stopped in time and not started since
  late       \* history: some timer was stopped while SWI0 was inserting

clientVars == <<timerVars, silenced, late>>

ClientsTypeOK ==
  /\ TimerTypeOK
  /\ silenced \subseteq Timers
  /\ late \in BOOLEAN

ClientsInit ==
  /\ TimerInit
  /\ silenced = {}
  /\ late = FALSE

(* The list can still be walked. *)
Sound == ~cycle

ClientStart(t) ==
  /\ Sound /\ StartTimer(t)
  /\ silenced' = silenced \ {t}
  /\ UNCHANGED late

(* A stop comes in time when SWI0 is not at work on the list and no start  *)
(* of the timer is waiting in front of it.                                 *)
ClientStop(t) ==
  /\ Sound /\ StopTimer(t)
  /\ silenced' = IF swi = "idle" /\ ~Pending("start", t)
                 THEN silenced \cup {t} ELSE silenced
  /\ late' = (late \/ swi = "insert")

ClientStopRefused(t) ==
  /\ Sound /\ StopRefused(t)
  /\ late' = TRUE
  /\ UNCHANGED silenced

Fire(t) ==
  /\ Sound /\ RtcClear(t)
  /\ UNCHANGED <<opq, swiPend, silenced, late>>

TimerInterrupts ==
  /\ Sound
  /\ \/ SwiDelete \/ SwiRestart \/ SwiPop \/ SwiEnd
     \/ \E E \in SUBSET listed : RtcExpire(E)
     \/ \E t \in Timers : RtcSkip(t)
     \/ RtcEnd
  /\ UNCHANGED <<silenced, late>>

ClientsNext ==
  \/ \E t \in Timers : ClientStart(t) \/ ClientStop(t) \/ ClientStopRefused(t)
  \/ \E t \in Timers : Fire(t)
  \/ TimerInterrupts

ClientsSpec == ClientsInit /\ [][ClientsNext]_clientVars

-----------------------------------------------------------------------------
(* No call of a handler follows a stop that came in time, until the timer  *)
(* is started again: neither an expiry that RTC1 has already noticed nor   *)
(* the restart of a repeating timer gets past it.                          *)
StopSticks == [][\A t \in Timers : Fire(t) => t \notin silenced]_clientVars

(* A node is linked twice only after a stop that came while SWI0 was       *)
(* inserting or that was refused.                                          *)
CycleNeedsLateStop == cycle => late

(***************************************************************************)
(* The inductive invariant behind the two.  RTC1 and SWI0 work in turns,   *)
(* and what SWI0 is to link again is not in the list meanwhile ...         *)
(***************************************************************************)
TurnsTaken ==
  /\ rtc => swi = "idle"
  /\ due \subseteq expired
  /\ due # {} => rtc
  /\ swi = "insert" => expired = {}
  /\ swi = "idle" => restart = {}
  /\ restart \cap listed = {}

(* ... a stop that came in time has cleared the flag; no start follows it  *)
(* in the ring, and what it has not unlinked yet it is about to unlink ... *)
StopHolds ==
  \A t \in silenced :
    /\ t \notin running
    /\ ~Pending("start", t)
    /\ t \notin restart
    /\ t \in listed => swi = "idle" /\ Pending("stop", t)

(* ... and without a late stop a listed node has its flag set, unless it   *)
(* is about to leave the list.                                             *)
FlagsFollowList ==
  ~late =>
    /\ ~cycle
    /\ swi = "insert" => listed \subseteq running
    /\ \A t \in listed \ running : t \in expired \/ Pending("stop", t)

ClientsInv == TurnsTaken /\ StopHolds /\ FlagsFollowList

(* A request in the ring always has SWI0 pending or at work. *)
RequestsServed == opq # <<>> => swiPend \/ swi = "insert"
=============================================================================
