------------------------- MODULE TimerClientsProofs -------------------------
(***************************************************************************)
(* Proofs about those that use app_timer, for any set of timers, any of    *)
(* them repeating, and a ring of any size: on what terms app_timer_stop    *)
(* keeps its word to a client, and what the buttons do with their timer.   *)
(***************************************************************************)
EXTENDS TimerClients, ButtonSleep, TimerQueueProofs

LEMMA ClientsInitType ==
  ASSUME ClientsInit
  PROVE  ClientsTypeOK /\ ClientsInv
<1>1. TimerTypeOK
  BY TimerInitType DEF ClientsInit
<1> QED
  BY <1>1 DEF ClientsInit, TimerInit, ClientsTypeOK, ClientsInv, TurnsTaken,
     StopHolds, FlagsFollowList

LEMMA ClientsType ==
  ASSUME ClientsTypeOK, [ClientsNext]_clientVars
  PROVE  ClientsTypeOK'
<1> USE DEF ClientsTypeOK
<1>1. ASSUME NEW t \in Timers, ClientStart(t)
      PROVE  ClientsTypeOK'
  BY <1>1, RequestType DEF ClientStart
<1>2. ASSUME NEW t \in Timers, ClientStop(t)
      PROVE  ClientsTypeOK'
  <2>1. TimerTypeOK' /\ silenced' \subseteq Timers
    BY <1>2, RequestType DEF ClientStop
  <2>2. late' \in BOOLEAN
    BY <1>2 DEF ClientStop
  <2> QED
    BY <2>1, <2>2
<1>3. ASSUME NEW t \in Timers, ClientStopRefused(t)
      PROVE  ClientsTypeOK'
  <2>1. TimerTypeOK' /\ silenced' \subseteq Timers
    BY <1>3 DEF ClientStopRefused, StopRefused, TimerTypeOK
  <2>2. late' \in BOOLEAN
    BY <1>3 DEF ClientStopRefused
  <2> QED
    BY <2>1, <2>2
<1>4. ASSUME NEW t \in Timers, Fire(t)
      PROVE  ClientsTypeOK'
  BY <1>4 DEF Fire, RtcClear, TimerTypeOK
<1>5. CASE TimerInterrupts
  BY <1>5, SwiType, RtcType DEF TimerInterrupts
<1>6. CASE UNCHANGED clientVars
  BY <1>6 DEF clientVars, timerVars, TimerTypeOK
<1> QED
  BY <1>1, <1>2, <1>3, <1>4, <1>5, <1>6 DEF ClientsNext

-----------------------------------------------------------------------------
LEMMA StartKeepsInv ==
  ASSUME ClientsTypeOK, ClientsInv, NEW t \in Timers, ClientStart(t)
  PROVE  ClientsInv'
<1> USE DEF ClientsTypeOK, ClientsInv
<1>1. /\ UNCHANGED <<listed, running, expired, restart, swi, rtc, due, cycle, late>>
      /\ silenced' = silenced \ {t}
      /\ opq' = Append(opq, Request("start", t))
  BY DEF ClientStart, StartTimer, Start, Request
<1>2. Request("start", t) \in Ops
  BY DEF Request, Ops
<1>3. \A op, u : Pending(op, u)' <=> Pending(op, u) \/ Request("start", t) = Request(op, u)
  BY <1>1, <1>2, PendingMore
<1>4. \A u : Pending("stop", u)' <=> Pending("stop", u)
  BY <1>3 DEF Request
<1>5. \A u : u # t => (Pending("start", u)' <=> Pending("start", u))
  BY <1>3 DEF Request
<1>6. TurnsTaken'
  BY <1>1 DEF TurnsTaken
<1>7. StopHolds'
  BY <1>1, <1>4, <1>5 DEF StopHolds
<1>8. FlagsFollowList'
  BY <1>1, <1>4 DEF FlagsFollowList
<1> QED
  BY <1>6, <1>7, <1>8

LEMMA StopKeepsInv ==
  ASSUME ClientsTypeOK, ClientsInv, NEW t \in Timers, ClientStop(t)
  PROVE  ClientsInv'
<1> USE DEF ClientsTypeOK, ClientsInv
<1>1. /\ UNCHANGED <<listed, expired, restart, swi, rtc, due, cycle>>
      /\ running' = running \ {t}
      /\ opq' = Append(opq, Request("stop", t))
  BY DEF ClientStop, StopTimer, Stop, Request
<1>2. silenced' = IF swi = "idle" /\ ~Pending("start", t) THEN silenced \cup {t} ELSE silenced
  BY DEF ClientStop
<1>3. ~late' => ~late /\ swi = "idle"
  BY DEF ClientStop, TimerTypeOK
<1>4. Request("stop", t) \in Ops
  BY DEF Request, Ops
<1>5. \A op, u : Pending(op, u)' <=> Pending(op, u) \/ Request("stop", t) = Request(op, u)
  BY <1>1, <1>4, PendingMore
<1>6. /\ \A u : Pending("start", u)' <=> Pending("start", u)
      /\ \A u : Pending("stop", u) => Pending("stop", u)'
      /\ Pending("stop", t)'
  BY <1>5 DEF Request
<1>7. TurnsTaken'
  BY <1>1 DEF TurnsTaken
<1>8. StopHolds'
  <2>1. SUFFICES ASSUME NEW u \in silenced'
                 PROVE  /\ u \notin running' /\ ~Pending("start", u)' /\ u \notin restart'
                        /\ u \in listed' => swi' = "idle" /\ Pending("stop", u)'
    BY DEF StopHolds
  <2>2. CASE u \in silenced
    BY <1>1, <1>6, <2>2 DEF StopHolds
  <2>3. CASE u = t /\ swi = "idle" /\ ~Pending("start", t)
    BY <1>1, <1>6, <2>3 DEF TurnsTaken
  <2> QED
    BY <1>2, <2>1, <2>2, <2>3
<1>9. FlagsFollowList'
  BY <1>1, <1>3, <1>6 DEF FlagsFollowList
<1> QED
  BY <1>7, <1>8, <1>9

(* A refused stop and the call of a handler only clear a flag; the latter  *)
(* is of an expired node.                                                  *)
LEMMA ClearKeepsInv ==
  ASSUME ClientsTypeOK, ClientsInv, NEW t \in Timers, ClientStopRefused(t) \/ Fire(t)
  PROVE  ClientsInv'
<1> USE DEF ClientsInv
<1>1. /\ UNCHANGED <<opq, listed, expired, restart, swi, rtc, cycle, silenced>>
      /\ running' = running \ {t}
      /\ due' \subseteq due
  BY DEF ClientStopRefused, StopRefused, Fire, RtcClear
<1>2. ~late' => ~late /\ t \in expired /\ swi = "idle"
  BY DEF ClientStopRefused, StopRefused, Fire, RtcClear, TurnsTaken
<1>3. \A op, u : Pending(op, u)' <=> Pending(op, u)
  BY <1>1 DEF Pending
<1>4. TurnsTaken'
  BY <1>1 DEF TurnsTaken
<1>5. StopHolds'
  BY <1>1, <1>3 DEF StopHolds
<1>6. FlagsFollowList'
  BY <1>1, <1>2, <1>3 DEF FlagsFollowList
<1> QED
  BY <1>4, <1>5, <1>6

LEMMA SwiKeepsInv ==
  ASSUME ClientsTypeOK, ClientsInv, SwiDelete \/ SwiRestart \/ SwiPop \/ SwiEnd,
         UNCHANGED <<silenced, late>>
  PROVE  ClientsInv'
<1> USE DEF ClientsTypeOK, ClientsInv
<1>1. CASE SwiDelete
  <2>1. /\ swi = "idle" /\ swi' = "insert" /\ ~rtc
        /\ listed' = (listed \ Stopped) \ expired
        /\ restart' \subseteq listed \cap expired /\ restart' \cap Stopped = {}
        /\ expired' = {}
        /\ UNCHANGED <<opq, running, rtc, due, cycle>>
    BY <1>1 DEF SwiDelete
  <2>2. \A u : u \in Stopped <=> Pending("stop", u)
    BY StoppedIsPending
  <2>3. \A op, u : Pending(op, u)' <=> Pending(op, u)
    BY <2>1 DEF Pending
  <2>4. TurnsTaken'
    BY <2>1 DEF TurnsTaken
  <2>5. StopHolds'
    BY <2>1, <2>2, <2>3 DEF StopHolds
  <2>6. FlagsFollowList'
    BY <2>1, <2>2, <2>3 DEF FlagsFollowList
  <2> QED
    BY <2>4, <2>5, <2>6
<1>2. CASE SwiRestart
  <2>1. PICK t \in restart : Insert({t}) /\ restart' = restart \ {t}
    BY <1>2 DEF SwiRestart
  <2>2. /\ swi = "insert"
        /\ listed' = listed \cup {t} /\ running' = running \cup {t}
        /\ cycle' = (cycle \/ {t} \cap listed # {})
        /\ UNCHANGED <<opq, expired, swi, rtc, due>>
    BY <1>2, <2>1 DEF SwiRestart, Insert
  <2>3. \A op, u : Pending(op, u)' <=> Pending(op, u)
    BY <2>2 DEF Pending
  <2>4. TurnsTaken'
    BY <2>1, <2>2 DEF TurnsTaken
  <2>5. StopHolds'
    BY <2>1, <2>2, <2>3 DEF StopHolds
  <2>6. FlagsFollowList'
    BY <2>1, <2>2, <2>3 DEF FlagsFollowList, TurnsTaken
  <2> QED
    BY <2>4, <2>5, <2>6
<1>3. CASE SwiPop
  <2> DEFINE new == IF Taken(Head(opq)) THEN {Head(opq).timer} ELSE {}
  <2>1. /\ swi = "insert" /\ restart = {} /\ opq # <<>> /\ opq' = Tail(opq)
        /\ listed' = listed \cup new /\ running' = running \cup new
        /\ cycle' = (cycle \/ new \cap listed # {})
        /\ UNCHANGED <<expired, restart, swi, rtc, due>>
    BY <1>3 DEF SwiPop, Insert
  <2>2. \A op, u : Pending(op, u)' => Pending(op, u)
    BY <2>1, PendingLess
  <2>3. \A u \in new : Pending("start", u) /\ u \notin running
    BY <2>1, PendingLess DEF Taken
  <2> HIDE DEF new
  <2>4. \A u \in new : u \notin silenced
    BY <2>3 DEF StopHolds
  <2>5. ~late => listed \subseteq running
    BY <2>1 DEF FlagsFollowList
  <2>6. TurnsTaken'
    BY <2>1 DEF TurnsTaken
  <2>7. StopHolds'
    BY <2>1, <2>2, <2>4 DEF StopHolds
  <2>8. FlagsFollowList'
    <3>1. ~late => new \cap listed = {} /\ listed' \subseteq running'
      BY <2>1, <2>3, <2>5
    <3> QED
      BY <2>1, <3>1 DEF FlagsFollowList
  <2> QED
    BY <2>6, <2>7, <2>8
<1>4. CASE SwiEnd
  <2>1. /\ swi = "insert" /\ swi' = "idle" /\ restart = {}
        /\ UNCHANGED <<opq, listed, running, expired, restart, rtc, due, cycle>>
    BY <1>4 DEF SwiEnd
  <2>2. \A op, u : Pending(op, u)' <=> Pending(op, u)
    BY <2>1 DEF Pending
  <2>3. TurnsTaken'
    BY <2>1 DEF TurnsTaken
  <2>4. StopHolds'
    BY <2>1, <2>2 DEF StopHolds
  <2>5. FlagsFollowList'
    BY <2>1, <2>2 DEF FlagsFollowList
  <2> QED
    BY <2>3, <2>4, <2>5
<1> QED
  BY <1>1, <1>2, <1>3, <1>4

LEMMA RtcKeepsInv ==
  ASSUME ClientsTypeOK, ClientsInv, UNCHANGED <<silenced, late>>,
         \/ \E E \in SUBSET listed : RtcExpire(E)
         \/ \E t \in Timers : RtcSkip(t)
         \/ RtcEnd
  PROVE  ClientsInv'
<1> USE DEF ClientsInv
<1>1. /\ UNCHANGED <<opq, listed, running, restart, swi, cycle>>
      /\ expired \subseteq expired'
  BY DEF RtcExpire, RtcSkip, RtcEnd
<1>2. \A op, u : Pending(op, u)' <=> Pending(op, u)
  BY <1>1 DEF Pending
<1>3. TurnsTaken'
  BY DEF TurnsTaken, RtcExpire, RtcSkip, RtcEnd
<1>4. StopHolds' /\ FlagsFollowList'
  BY <1>1, <1>2 DEF StopHolds, FlagsFollowList
<1> QED
  BY <1>3, <1>4

LEMMA ClientsStep ==
  ASSUME ClientsTypeOK, ClientsInv, [ClientsNext]_clientVars
  PROVE  ClientsInv'
<1>1. CASE \E t \in Timers : ClientStart(t)
  BY <1>1, StartKeepsInv
<1>2. CASE \E t \in Timers : ClientStop(t)
  BY <1>2, StopKeepsInv
<1>3. CASE \E t \in Timers : ClientStopRefused(t) \/ Fire(t)
  BY <1>3, ClearKeepsInv
<1>4. CASE TimerInterrupts
  BY <1>4, SwiKeepsInv, RtcKeepsInv DEF TimerInterrupts
<1>5. CASE UNCHANGED clientVars
  BY <1>5 DEF clientVars, timerVars, ClientsInv, TurnsTaken, StopHolds, FlagsFollowList,
     Pending
<1> QED
  BY <1>1, <1>2, <1>3, <1>4, <1>5 DEF ClientsNext

-----------------------------------------------------------------------------
(* The timers keep their types, and the invariant holds, whatever the      *)
(* clients of app_timer do.                                                *)
THEOREM ClientsInvariant == ClientsSpec => [](ClientsTypeOK /\ ClientsInv)
<1>1. ClientsInit => ClientsTypeOK /\ ClientsInv
  BY ClientsInitType
<1>2. ClientsTypeOK /\ ClientsInv /\ [ClientsNext]_clientVars => (ClientsTypeOK /\ ClientsInv)'
  BY ClientsType, ClientsStep
<1> QED
  BY <1>1, <1>2, PTL DEF ClientsSpec

(* timer_timeouts_check never calls the handler of a timer whose stop came *)
(* in time and that was not started since.                                 *)
THEOREM StopKeepsItsWord == ClientsSpec => StopSticks
<1>1. ClientsInv /\ [ClientsNext]_clientVars =>
        [\A t \in Timers : Fire(t) => t \notin silenced]_clientVars
  <2>1. SUFFICES ASSUME ClientsInv, NEW t \in Timers, Fire(t)
                 PROVE  t \notin silenced
    OBVIOUS
  <2> QED
    BY <2>1 DEF ClientsInv, StopHolds, Fire, RtcClear
<1> QED
  BY <1>1, ClientsInvariant, PTL DEF ClientsSpec, StopSticks

(* A request in the ring always has SWI0 pending or at work: none is left  *)
(* behind when SWI0 returns.                                               *)
THEOREM RequestsAreServed == ClientsSpec => []RequestsServed
<1>1. ClientsInit => RequestsServed
  BY DEF ClientsInit, TimerInit, RequestsServed
<1>2. ClientsTypeOK /\ RequestsServed /\ [ClientsNext]_clientVars => RequestsServed'
  <2> SUFFICES ASSUME ClientsTypeOK, RequestsServed, [ClientsNext]_clientVars
               PROVE  RequestsServed'
    OBVIOUS
  <2>1. ASSUME NEW t \in Timers, ClientStart(t) \/ ClientStop(t)
        PROVE  RequestsServed'
    <3>1. swiPend' = TRUE
      BY <2>1 DEF ClientStart, StartTimer, ClientStop, StopTimer
    <3> QED
      BY <3>1 DEF RequestsServed
  <2>2. ASSUME NEW t \in Timers, ClientStopRefused(t) \/ Fire(t)
        PROVE  RequestsServed'
    BY <2>2 DEF ClientStopRefused, StopRefused, Fire, RtcClear, RequestsServed
  <2>3. CASE TimerInterrupts
    <3>1. CASE SwiDelete \/ SwiRestart \/ SwiPop \/ SwiEnd
      BY <3>1 DEF SwiDelete, SwiRestart, SwiPop, SwiEnd, RequestsServed
    <3>2. CASE \E E \in SUBSET listed : RtcExpire(E)
      BY <3>2 DEF RtcExpire, RequestsServed
    <3>3. CASE \E t \in Timers : RtcSkip(t)
      BY <3>3 DEF RtcSkip, RequestsServed
    <3>4. CASE RtcEnd
      BY <3>4 DEF RtcEnd, RequestsServed
    <3> QED
      BY <2>3, <3>1, <3>2, <3>3, <3>4 DEF TimerInterrupts
  <2>4. CASE UNCHANGED clientVars
    BY <2>4 DEF clientVars, timerVars, RequestsServed
  <2> QED
    BY <2>1, <2>2, <2>3, <2>4 DEF ClientsNext
<1> QED
  BY <1>1, <1>2, ClientsInvariant, PTL DEF ClientsSpec

(* timer_list_insert links a node twice only after a stop that was too     *)
(* late or refused.                                                        *)
THEOREM ListNeedsLateStop == ClientsSpec => []CycleNeedsLateStop
<1>1. ClientsInv => CycleNeedsLateStop
  BY DEF ClientsInv, FlagsFollowList, CycleNeedsLateStop
<1> QED
  BY <1>1, ClientsInvariant, PTL

-----------------------------------------------------------------------------
(***************************************************************************)
(* ButtonSleep: the press that wakes the chip does not put it to sleep     *)
(* again, and a detection in progress keeps its timer, whatever the        *)
(* contact and the other users of app_timer do.                            *)
(***************************************************************************)
(* What is left of the waking press can only look like a release: while    *)
(* the button has not gone down since the boot, every level that was read  *)
(* or is to be read after an edge is "up".                                 *)
WakingPress ==
  ~pressed /\ power # "off" =>
    /\ ~atPush
    /\ sensed = "up" \/ edge = SleepButton => pin = "up"
    /\ SleepButton \in transition => pinState = "up"

(* System off has erased everything. *)
Erased == power = "off" => ~atPush /\ transition = {} /\ edge = 0

ButtonInv ==
  /\ pin \in Levels /\ sensed \in Levels
  /\ WakingPress /\ Erased /\ SleepNeedsPress

-----------------------------------------------------------------------------
(* No button has the number that stands for none. *)
LEMMA ButtonNumbers == SleepButton # 0 /\ \A b \in Buttons : b \in 0..ButtonCount /\ b # 0
BY ButtonAssumption DEF Buttons

LEMMA ButtonInitInv ==
  ASSUME ButtonInit
  PROVE  ButtonInv
BY ButtonNumbers DEF ButtonInit, ButtonInv, Levels, WakingPress, Erased, SleepNeedsPress

(* The actions that touch neither the pin nor what was read from it. *)
LEMMA UntouchedKeepsInv ==
  ASSUME ButtonInv, UNCHANGED <<pin, sensed, edge, pinState, transition, atPush, pressed>>,
         power' = power \/ (power' = "halted" /\ power # "off")
  PROVE  ButtonInv'
BY DEF ButtonInv, WakingPress, Erased, SleepNeedsPress

LEMMA EdgeKeepsInv ==
  ASSUME ButtonInv, NEW b \in Buttons, Edge(b)
  PROVE  ButtonInv'
<1> USE DEF ButtonInv, WakingPress, Erased, SleepNeedsPress, Working, Levels
<1>1. CASE EdgeStop(b)
  BY <1>1 DEF EdgeStop, EdgeNoticed, Turn
<1>2. CASE EdgeCancel(b)
  BY <1>2, ButtonNumbers DEF EdgeCancel
<1>3. CASE EdgeDetect(b)
  BY <1>3, ButtonNumbers DEF EdgeDetect
<1> QED
  BY <1>1, <1>2, <1>3 DEF Edge, EdgeEnds

LEMMA DetectionKeepsInv ==
  ASSUME ButtonInv, Detection
  PROVE  ButtonInv'
<1>1. CASE DetectionBegins
  BY <1>1, UntouchedKeepsInv DEF DetectionBegins
<1> USE DEF ButtonInv, WakingPress, Erased, SleepNeedsPress, Working, Levels, LookAt,
            Detected, Reported
<1>2. ASSUME NEW b \in Buttons, PassOver(b)
      PROVE  ButtonInv'
  BY <1>2 DEF PassOver
<1>3. ASSUME NEW b \in Buttons, Nothing(b)
      PROVE  ButtonInv'
  BY <1>3 DEF Nothing
<1>4. ASSUME NEW b \in Buttons, Push(b)
      PROVE  ButtonInv'
  <2>1. b = SleepButton => pressed
    BY <1>4 DEF Push
  <2> QED
    BY <1>4, <2>1 DEF Push
<1>5. ASSUME NEW b \in Buttons, Release(b)
      PROVE  ButtonInv'
  <2>1. atPush => pressed
    BY <1>5 DEF Release
  <2> QED
    BY <1>5, <2>1 DEF Release, Sleeps
<1> QED
  BY <1>1, <1>2, <1>3, <1>4, <1>5 DEF Detection, Look

LEMMA ButtonStep ==
  ASSUME ButtonInv, [ButtonNext]_buttonVars
  PROVE  ButtonInv'
<1>1. CASE PinChanges
  BY <1>1 DEF PinChanges, ButtonInv, WakingPress, Erased, SleepNeedsPress, Levels
<1>2. CASE OtherStarts \/ TimerSteps \/ Elapse \/ UNCHANGED buttonVars
  BY <1>2, UntouchedKeepsInv DEF OtherStarts, TimerSteps, Elapse, untimed, buttonVars
<1>3. CASE DrawUnpowered
  BY <1>3, UntouchedKeepsInv DEF DrawUnpowered
<1>4. CASE SystemOff \/ Wake
  BY <1>4, ButtonNumbers DEF SystemOff, Wake, ButtonInv, WakingPress, Erased, SleepNeedsPress, Levels
<1> QED
  BY <1>1, <1>2, <1>3, <1>4, EdgeKeepsInv, DetectionKeepsInv DEF ButtonNext

(* bsp_button_event_handler raises the sleep event only after a press that *)
(* began with the chip awake.                                              *)
THEOREM SleepIsMeant == ButtonSpec => []SleepNeedsPress
<1>1. ButtonInit => ButtonInv
  BY ButtonInitInv
<1>2. ButtonInv /\ [ButtonNext]_buttonVars => ButtonInv'
  BY ButtonStep
<1>3. ButtonInv => SleepNeedsPress
  BY DEF ButtonInv
<1> QED
  BY <1>1, <1>2, <1>3, PTL DEF ButtonSpec

-----------------------------------------------------------------------------
(* The timer of a detection, for any other users of the ring, any set of   *)
(* timers and a ring of any size.                                          *)
LEMMA ArmedInit ==
  ASSUME ButtonInit
  PROVE  ButtonTypeOK /\ ArmedInv
<1>1. TimerTypeOK
  BY TimerInitType DEF ButtonInit
<1>2. 0 \in 0..ButtonCount
  BY ButtonAssumption
<1>3. ButtonTypeOK
  BY <1>1, <1>2 DEF ButtonInit, TimerInit, ButtonTypeOK, Levels
<1> QED
  BY <1>3 DEF ButtonInit, TimerInit, ArmedInv, DetectionArmed, Pending

(* The ring after one more request of the module's own timers. *)
LEMMA RingMore ==
  ASSUME TimerTypeOK, NEW op \in {"start", "stop"}, NEW t \in Timers,
         opq' = Append(opq, Request(op, t))
  PROVE  \A o, u : Pending(o, u)' <=> Pending(o, u) \/ Request(op, t) = Request(o, u)
<1>1. Request(op, t) \in Ops
  BY DEF Request, Ops
<1> QED
  BY <1>1, PendingMore

(* app_timer_stop of "button" by an edge, if there was room. *)
LEMMA EdgeStopArmed ==
  ASSUME ButtonTypeOK, ArmedInv, NEW b \in Buttons, EdgeStop(b)
  PROVE  ButtonTypeOK' /\ ArmedInv'
<1> USE DEF ButtonTypeOK
<1>0. "button" \in Timers
  BY ButtonAssumption
<1>1. /\ power = "on" /\ ~rtc /\ swi = "idle" /\ edge = 0
      /\ sensed' = IF b = SleepButton THEN pin ELSE sensed
      /\ running' = running \ {"button"}
      /\ UNCHANGED <<power, pin, looking, pinState, transition, atPush, pressed,
                     listed, expired, restart, swi, rtc, due, cycle>>
  BY DEF EdgeStop, EdgeNoticed, Turn, Working
<1>2. CASE HasRoom(opq, 1)
  <2>1. /\ edge' = b /\ opq' = Stop(opq, "button") /\ swiPend' = TRUE
        /\ UNCHANGED <<lost, stranded>>
    BY <1>2 DEF EdgeStop, EdgeNoticed
  <2>2. opq' \in Seq(Ops) /\ Len(opq') <= OpQueueSize
    BY <1>0, <1>2, <2>1, TypeRequest DEF TimerTypeOK
  <2>3. swiPend' \in BOOLEAN
    BY <2>1
  <2>4. TimerTypeOK'
    BY <1>1, <2>2, <2>3 DEF TimerTypeOK
  <2>5. edge' \in 0..ButtonCount /\ edge' # 0
    BY <2>1, ButtonNumbers
  <2>6. ButtonTypeOK'
    BY <1>1, <2>1, <2>4, <2>5
  <2>7. DetectionArmed'
    BY <2>5 DEF DetectionArmed
  <2> QED
    BY <1>1, <2>6, <2>7 DEF ArmedInv
<1>3. CASE ~HasRoom(opq, 1)
  <2>1. /\ lost' = (lost \/ b = SleepButton) /\ stranded' = transition
        /\ UNCHANGED <<edge, opq, swiPend>>
    BY <1>3 DEF EdgeStop, EdgeNoticed
  <2>2. lost' \in BOOLEAN
    BY <2>1
  <2>3. TimerTypeOK'
    BY <1>1, <2>1 DEF TimerTypeOK
  <2>4. ButtonTypeOK'
    BY <1>1, <2>1, <2>2, <2>3
  <2>5. DetectionArmed'
    BY <1>1, <2>1 DEF DetectionArmed
  <2> QED
    BY <1>1, <2>4, <2>5 DEF ArmedInv
<1> QED
  BY <1>2, <1>3

LEMMA EdgeCancelArmed ==
  ASSUME ButtonTypeOK, ArmedInv, NEW b \in Buttons, EdgeCancel(b)
  PROVE  ButtonTypeOK' /\ ArmedInv'
<1>1. /\ edge' = 0 /\ transition' = transition \ {b} /\ stranded' = transition'
      /\ UNCHANGED <<power, pin, sensed, looking, pinState, atPush, pressed, lost, opq,
                     listed, running, expired, restart, swi, swiPend, rtc, due, cycle>>
  BY DEF EdgeCancel, timerVars
<1>2. edge' \in 0..ButtonCount
  BY <1>1, ButtonAssumption DEF Buttons
<1>3. \A o, u : Pending(o, u)' <=> Pending(o, u)
  BY <1>1 DEF Pending
<1>4. ButtonTypeOK'
  BY <1>1, <1>2 DEF ButtonTypeOK, TimerTypeOK
<1>5. DetectionArmed'
  BY <1>1 DEF DetectionArmed
<1> QED
  BY <1>1, <1>3, <1>4, <1>5 DEF ArmedInv

(* A start of any timer arms no less than before. *)
LEMMA StartArmed ==
  ASSUME TimerTypeOK, ArmedInv, NEW t \in Timers, StartTimer(t)
  PROVE  /\ TimerTypeOK' /\ Pending("start", t)'
         /\ \A o, u : Pending(o, u) => Pending(o, u)'
         /\ \A u : Pending("stop", u)' <=> Pending("stop", u)
         /\ UNCHANGED <<listed, running, expired, restart, swi, rtc, due, cycle>>
<1>1. /\ opq' = Append(opq, Request("start", t))
      /\ UNCHANGED <<listed, running, expired, restart, swi, rtc, due, cycle>>
  BY DEF StartTimer, Start, Request
<1>2. \A o, u : Pending(o, u)' <=> Pending(o, u) \/ Request("start", t) = Request(o, u)
  BY <1>1, RingMore
<1>3. TimerTypeOK'
  BY RequestType
<1> QED
  BY <1>1, <1>2, <1>3 DEF Request

LEMMA EdgeDetectArmed ==
  ASSUME ButtonTypeOK, ArmedInv, NEW b \in Buttons, EdgeDetect(b)
  PROVE  ButtonTypeOK' /\ ArmedInv'
<1> USE DEF ButtonTypeOK
<1>0. "button" \in Timers
  BY ButtonAssumption
<1>1. /\ edge' = 0 /\ transition' = transition \cup {b}
      /\ pinState' = IF b = SleepButton THEN pin ELSE pinState
      /\ IF HasRoom(opq, 1)
         THEN StartTimer("button") /\ stranded' = {}
         ELSE UNCHANGED timerVars /\ stranded' = transition'
      /\ UNCHANGED <<power, pin, sensed, looking, atPush, pressed>>
  BY DEF EdgeDetect
<1>2. edge' \in 0..ButtonCount /\ transition' \subseteq Buttons
  BY <1>1, ButtonAssumption DEF Buttons
<1>3. lost' \in BOOLEAN
  <2>1. lost' = (lost \/ (b = SleepButton /\ (pin # sensed \/ ~HasRoom(opq, 1))))
    BY DEF EdgeDetect
  <2> QED BY <2>1
<1>4. CASE HasRoom(opq, 1)
  <2>1. /\ TimerTypeOK' /\ Pending("start", "button")'
        /\ \A u : Pending("stop", u)' <=> Pending("stop", u)
        /\ UNCHANGED <<listed, running, expired, restart, swi, rtc, due, cycle>>
    BY <1>0, <1>1, <1>4, StartArmed
  <2>2. ButtonTypeOK'
    BY <1>1, <1>2, <1>3, <1>4, <2>1
  <2>3. DetectionArmed'
    BY <2>1 DEF DetectionArmed
  <2> QED
    BY <2>1, <2>2, <2>3 DEF ArmedInv
<1>5. CASE ~HasRoom(opq, 1)
  <2>1. /\ UNCHANGED <<opq, listed, running, expired, restart, swi, swiPend, rtc, due, cycle>>
        /\ stranded' = transition'
    BY <1>1, <1>5 DEF timerVars
  <2>2. ButtonTypeOK'
    BY <1>1, <1>2, <1>3, <2>1 DEF TimerTypeOK
  <2>3. DetectionArmed'
    BY <2>1 DEF DetectionArmed
  <2>4. \A o, u : Pending(o, u)' <=> Pending(o, u)
    BY <2>1 DEF Pending
  <2> QED
    BY <2>1, <2>2, <2>3, <2>4 DEF ArmedInv
<1> QED
  BY <1>4, <1>5

(* The detection timer's handler: its loop comes to every button. *)
LEMMA DetectionBeginsArmed ==
  ASSUME ButtonTypeOK, ArmedInv, DetectionBegins
  PROVE  ButtonTypeOK' /\ ArmedInv'
<1> USE DEF ButtonTypeOK
<1>1. /\ looking' = 1
      /\ "button" \in due /\ due' = due \ {"button"} /\ running' = running \ {"button"}
      /\ UNCHANGED <<power, pin, sensed, edge, pinState, transition, atPush, pressed,
                     lost, stranded, opq, swiPend, listed, expired, restart, swi, rtc,
                     cycle>>
  BY DEF DetectionBegins, RtcClear
<1>2. TimerTypeOK'
  BY <1>1 DEF TimerTypeOK
<1>3. looking' \in 0..ButtonCount
  BY <1>1, ButtonAssumption DEF Buttons
<1>4. rtc'
  BY <1>1 DEF ArmedInv
<1>5. ButtonTypeOK'
  BY <1>1, <1>2, <1>3, <1>4
<1>6. DetectionArmed'
  <2>1. ASSUME NEW b \in transition'
        PROVE  looking' # 0 /\ looking' <= b
    <3>1. b \in 1..ButtonCount
      BY <1>1, <2>1 DEF Buttons
    <3> QED
      BY <1>1, <3>1, ButtonAssumption
  <2> QED
    BY <2>1 DEF DetectionArmed
<1>7. \A o, u : Pending(o, u)' <=> Pending(o, u)
  BY <1>1 DEF Pending
<1> QED
  BY <1>1, <1>5, <1>6, <1>7 DEF ArmedInv

(* The loop goes on, and the button it has left is not being detected. *)
LEMMA LoopGoesOn ==
  ASSUME ButtonTypeOK, NEW b \in Buttons, LookAt(b),
         transition' \subseteq transition, b \notin transition'
  PROVE  /\ looking' \in 0..ButtonCount
         /\ \A c \in transition' : looking # 0 /\ looking <= c =>
                                    looking' # 0 /\ looking' <= c
<1>1. /\ looking = b /\ b \in 1..ButtonCount /\ ButtonCount \in Nat
      /\ looking' = IF b = ButtonCount THEN 0 ELSE b + 1
  BY ButtonAssumption DEF LookAt, Buttons
<1>2. ASSUME NEW c \in transition', looking <= c
      PROVE  looking' # 0 /\ looking' <= c
  <2>1. c \in 1..ButtonCount /\ c # b
    BY <1>2 DEF ButtonTypeOK, Buttons
  <2> QED
    BY <1>1, <1>2, <2>1
<1> QED
  BY <1>1, <1>2

LEMMA LookArmed ==
  ASSUME ButtonTypeOK, ArmedInv, NEW b \in Buttons, Look(b)
  PROVE  ButtonTypeOK' /\ ArmedInv'
<1> USE DEF ButtonTypeOK
<1>0. "hold" \in Timers
  BY ButtonAssumption
<1>1. /\ power = "on" /\ LookAt(b) /\ looking = b /\ looking # 0 /\ rtc /\ edge = 0
      /\ UNCHANGED <<pin, sensed, edge, pinState, pressed>>
  <2>1. LookAt(b)
    BY DEF Look, PassOver, Nothing, Push, Release, Reported, Detected
  <2>2. looking = b /\ looking # 0 /\ rtc
    BY <2>1, ButtonNumbers DEF LookAt
  <2> QED
    BY <2>1, <2>2 DEF LookAt, Working
<1>2. /\ transition' = transition \ {b} /\ stranded' = stranded \ {b}
  <2>1. CASE PassOver(b)
    BY <2>1 DEF PassOver
  <2>2. CASE Nothing(b) \/ Push(b) \/ Release(b)
    BY <2>2 DEF Nothing, Push, Release, Reported, Detected
  <2> QED
    BY <2>1, <2>2 DEF Look
<1>3. /\ looking' \in 0..ButtonCount
      /\ \A c \in transition' : looking # 0 /\ looking <= c => looking' # 0 /\ looking' <= c
  BY <1>1, <1>2, LoopGoesOn
<1>4. /\ TimerTypeOK'
      /\ running' = running \/ running' = running \ {"hold"}
      /\ \A u : u # "hold" => (Pending("stop", u)' <=> Pending("stop", u))
      /\ \A u : Pending("start", u) => Pending("start", u)'
      /\ UNCHANGED <<listed, expired, restart, swi, rtc, due, cycle>>
  <2>1. CASE UNCHANGED timerVars
    BY <2>1 DEF timerVars, TimerTypeOK, Pending
  <2>2. CASE StopTimer("hold")
    <3>1. /\ opq' = Append(opq, Request("stop", "hold"))
          /\ running' = running \ {"hold"}
          /\ UNCHANGED <<listed, expired, restart, swi, rtc, due, cycle>>
      BY <2>2 DEF StopTimer, Stop, Request
    <3>2. \A o, u : Pending(o, u)' <=> Pending(o, u) \/ Request("stop", "hold") = Request(o, u)
      BY <1>0, <3>1, RingMore
    <3>3. TimerTypeOK'
      BY <1>0, <2>2, RequestType
    <3> QED
      BY <3>1, <3>2, <3>3 DEF Request
  <2>3. CASE StopRefused("hold")
    BY <2>3 DEF StopRefused, TimerTypeOK, Pending
  <2> QED
    BY <2>1, <2>2, <2>3 DEF Look, PassOver, Nothing, Push, Release
<1>5. atPush' \in BOOLEAN /\ lost' \in BOOLEAN
  <2>1. CASE PassOver(b)
    BY <2>1 DEF PassOver
  <2>2. CASE Nothing(b)
    <3>1. lost' = (lost \/ (b = SleepButton /\ pin # sensed)) /\ atPush' = atPush
      BY <2>2 DEF Nothing
    <3> QED BY <3>1
  <2>3. CASE Push(b)
    <3>1. /\ lost' = (lost /\ (b = SleepButton => pin # sensed))
          /\ atPush' = (atPush \/ b = SleepButton)
      BY <2>3 DEF Push, Reported
    <3> QED BY <3>1
  <2>4. CASE Release(b)
    <3>1. lost' = (lost /\ (b = SleepButton => pin # sensed)) /\ atPush' = atPush
      BY <2>4 DEF Release, Reported
    <3> QED BY <3>1
  <2> QED
    BY <2>1, <2>2, <2>3, <2>4 DEF Look
<1>6. power' \in {"on", "delay"} /\ rtc'
  BY <1>1, <1>4 DEF Look, PassOver, Nothing, Push, Release
<1>7. ButtonTypeOK'
  BY <1>1, <1>2, <1>3, <1>4, <1>5, <1>6
<1>8. DetectionArmed'
  <2>1. ASSUME NEW c \in transition' \ stranded'
        PROVE  \/ cycle'
               \/ "button" \in listed' \cap running'
               \/ Pending("start", "button")'
               \/ looking' # 0 /\ looking' <= c
    <3>1. c \in transition \ stranded
      BY <1>2, <2>1
    <3>2. \/ cycle
          \/ "button" \in listed \cap running
          \/ Pending("start", "button")
          \/ looking # 0 /\ looking <= c
      BY <1>1, <3>1 DEF ArmedInv, DetectionArmed
    <3> QED
      BY <1>3, <1>4, <2>1, <3>2
  <2> QED
    BY <2>1 DEF DetectionArmed
<1> QED
  BY <1>1, <1>4, <1>7, <1>8 DEF ArmedInv

(* SWI0 and RTC1 at work on any other timer, or on the list. *)
LEMMA TimerStepsArmed ==
  ASSUME ButtonTypeOK, ArmedInv, TimerSteps \/ Elapse
  PROVE  ButtonTypeOK' /\ ArmedInv'
<1> USE DEF ButtonTypeOK
<1>0. /\ power = "on" /\ edge = 0
      /\ UNCHANGED <<power, pin, sensed, edge, looking, pinState, transition, atPush,
                     pressed, lost, stranded>>
  BY DEF TimerSteps, Elapse, Working, untimed
<1>1. looking = 0
  BY DEF TimerSteps, Elapse, RtcExpire
<1>2. SUFFICES TimerTypeOK' /\ ArmedInv'
  BY <1>0, <1>1
<1>3. CASE SwiDelete
  <2>1. /\ swi = "idle" /\ ~rtc /\ expired' = {}
        /\ listed' = (listed \ Stopped) \ expired
        /\ UNCHANGED <<opq, running, rtc, due, cycle>>
    BY <1>3 DEF SwiDelete
  <2>2. "button" \in Stopped <=> Pending("stop", "button")
    BY StoppedIsPending
  <2>3. "button" \in running => "button" \in listed'
    BY <2>1, <2>2 DEF ArmedInv
  <2>4. \A o, u : Pending(o, u)' <=> Pending(o, u)
    BY <2>1 DEF Pending
  <2>5. DetectionArmed'
    BY <1>0, <2>1, <2>3, <2>4 DEF DetectionArmed, ArmedInv
  <2>6. swi' = "insert"
    BY <1>3 DEF SwiDelete
  <2>7. TimerTypeOK'
    BY <1>3, SwiType
  <2> QED
    BY <2>1, <2>3, <2>5, <2>6, <2>7 DEF ArmedInv
<1>4. CASE SwiRestart
  <2>1. PICK t \in restart : Insert({t}) /\ restart' = restart \ {t}
    BY <1>4 DEF SwiRestart
  <2>2. /\ swi = "insert"
        /\ listed' = listed \cup {t} /\ running' = running \cup {t}
        /\ cycle' = (cycle \/ {t} \cap listed # {})
        /\ UNCHANGED <<opq, expired, swi, rtc, due>>
    BY <1>4, <2>1 DEF SwiRestart, Insert
  <2>3. \A o, u : Pending(o, u)' <=> Pending(o, u)
    BY <2>2 DEF Pending
  <2>4. ~cycle' => ~cycle
    BY <2>2
  <2>5. DetectionArmed'
    BY <1>0, <2>2, <2>3, <2>4 DEF DetectionArmed, ArmedInv
  <2>6. TimerTypeOK'
    BY <1>4, SwiType
  <2> QED
    BY <2>2, <2>5, <2>6 DEF ArmedInv
<1>5. CASE SwiPop
  <2> DEFINE new == IF Taken(Head(opq)) THEN {Head(opq).timer} ELSE {}
  <2>1. /\ swi = "insert" /\ opq # <<>> /\ opq' = Tail(opq)
        /\ listed' = listed \cup new /\ running' = running \cup new
        /\ cycle' = (cycle \/ new \cap listed # {})
        /\ UNCHANGED <<expired, swi, rtc, due>>
    BY <1>5 DEF SwiPop, Insert
  <2>2. Pending("start", "button") =>
          Pending("start", "button")' \/ Head(opq) = Request("start", "button")
    BY <2>1, PendingLess
  <2>3. Head(opq) = Request("start", "button") => "button" \in running \cup new
    BY DEF Request, Taken
  <2> HIDE DEF new
  <2>4. "button" \in running => "button" \in listed
    BY DEF ArmedInv
  <2>5. ~cycle' => ~cycle
    BY <2>1
  <2>6. DetectionArmed'
    BY <1>0, <2>1, <2>2, <2>3, <2>4, <2>5 DEF DetectionArmed, ArmedInv
  <2>7. TimerTypeOK'
    BY <1>5, SwiType
  <2>8. "button" \in running' =>
          "button" \in listed' /\ "button" \notin expired' /\ swi' # "idle"
    BY <2>1, <2>4 DEF ArmedInv
  <2> QED
    BY <2>1, <2>6, <2>7, <2>8 DEF ArmedInv
<1>6. CASE SwiEnd
  <2>1. /\ swi = "insert" /\ swi' = "idle" /\ opq = <<>>
        /\ UNCHANGED <<opq, listed, running, expired, restart, rtc, due, cycle>>
    BY <1>6 DEF SwiEnd
  <2>2. \A o, u : ~Pending(o, u) /\ ~Pending(o, u)'
    BY <2>1 DEF Pending
  <2>3. DetectionArmed'
    BY <1>0, <2>1, <2>2 DEF DetectionArmed, ArmedInv
  <2>4. TimerTypeOK'
    BY <1>6, SwiType
  <2> QED
    BY <2>1, <2>2, <2>3, <2>4 DEF ArmedInv
<1>7. CASE \/ \E E \in SUBSET listed : RtcExpire(E)
           \/ \E t \in Timers : RtcSkip(t)
           \/ RtcEnd
  <2>1. TimerTypeOK'
    BY <1>7, RtcType
  <2>2. /\ UNCHANGED <<opq, listed, running, restart, swi, cycle>>
        /\ "button" \in due' => rtc'
        /\ "button" \in expired' => swi = "idle"
        /\ "button" \in running /\ "button" \in expired' => "button" \in due'
    BY <1>7 DEF RtcExpire, RtcSkip, RtcEnd, ArmedInv
  <2>3. \A o, u : Pending(o, u)' <=> Pending(o, u)
    BY <2>2 DEF Pending
  <2>4. DetectionArmed'
    BY <1>0, <2>2, <2>3 DEF DetectionArmed, ArmedInv
  <2> QED
    BY <2>1, <2>2, <2>3, <2>4 DEF ArmedInv
<1>8. ASSUME NEW t \in Timers \ {"button"}, RtcClear(t), UNCHANGED <<opq, swiPend>>
      PROVE  TimerTypeOK' /\ ArmedInv'
  <2>1. /\ due' = due \ {t} /\ running' = running \ {t}
        /\ UNCHANGED <<opq, swiPend, listed, expired, restart, swi, rtc, cycle>>
    BY <1>8 DEF RtcClear
  <2>2. TimerTypeOK'
    BY <2>1 DEF TimerTypeOK
  <2>3. \A o, u : Pending(o, u)' <=> Pending(o, u)
    BY <2>1 DEF Pending
  <2>4. DetectionArmed'
    BY <1>0, <1>8, <2>1, <2>3 DEF DetectionArmed, ArmedInv
  <2> QED
    BY <1>8, <2>1, <2>2, <2>3, <2>4 DEF ArmedInv
<1> QED
  BY <1>3, <1>4, <1>5, <1>6, <1>7, <1>8 DEF TimerSteps, Elapse

LEMMA OtherArmed ==
  ASSUME ButtonTypeOK, ArmedInv, OtherStarts
  PROVE  ButtonTypeOK' /\ ArmedInv'
<1> USE DEF ButtonTypeOK
<1>0. "other" \in Timers
  BY ButtonAssumption
<1>1. UNCHANGED <<power, pin, sensed, edge, looking, pinState, transition, atPush,
                  pressed, lost, stranded>>
  BY DEF OtherStarts
<1>2. CASE StartTimer("other")
  <2>1. /\ TimerTypeOK'
        /\ \A o, u : Pending(o, u) => Pending(o, u)'
        /\ \A u : Pending("stop", u)' <=> Pending("stop", u)
        /\ UNCHANGED <<listed, running, expired, restart, swi, rtc, due, cycle>>
    BY <1>0, <1>2, StartArmed
  <2>2. ButtonTypeOK'
    BY <1>1, <2>1
  <2>3. DetectionArmed'
    BY <1>1, <2>1 DEF DetectionArmed, ArmedInv
  <2> QED
    BY <2>1, <2>2, <2>3 DEF ArmedInv
<1>3. CASE StopTimer("other")
  <2>1. /\ opq' = Append(opq, Request("stop", "other"))
        /\ running' = running \ {"other"}
        /\ UNCHANGED <<listed, expired, restart, swi, rtc, due, cycle>>
    BY <1>3 DEF StopTimer, Stop, Request
  <2>2. \A o, u : Pending(o, u)' <=> Pending(o, u) \/ Request("stop", "other") = Request(o, u)
    BY <1>0, <2>1, RingMore
  <2>3. /\ Pending("start", "button") => Pending("start", "button")'
        /\ Pending("stop", "button")' => Pending("stop", "button")
    BY <2>2 DEF Request
  <2>4. TimerTypeOK'
    BY <1>0, <1>3, RequestType
  <2>5. ButtonTypeOK'
    BY <1>1, <2>1, <2>4
  <2>6. DetectionArmed'
    BY <1>1, <2>1, <2>3 DEF DetectionArmed, ArmedInv
  <2> QED
    BY <2>1, <2>3, <2>5, <2>6 DEF ArmedInv
<1> QED
  BY <1>2, <1>3 DEF OtherStarts

(* The steps that leave the timers alone, and the reset. *)
LEMMA UntimedArmed ==
  ASSUME ButtonTypeOK, ArmedInv,
         PinChanges \/ DrawUnpowered \/ Wake \/ UNCHANGED buttonVars
  PROVE  ButtonTypeOK' /\ ArmedInv'
<1> USE DEF ButtonTypeOK
<1>1. /\ UNCHANGED <<opq, listed, running, expired, restart, swi, swiPend, rtc, due, cycle>>
      /\ UNCHANGED <<edge, looking, pinState, transition, atPush, lost, stranded>>
  BY DEF PinChanges, DrawUnpowered, Wake, buttonVars, timerVars
<1>2. \A o, u : Pending(o, u)' <=> Pending(o, u)
  BY <1>1 DEF Pending
<1>3. ArmedInv'
  BY <1>1, <1>2 DEF ArmedInv, DetectionArmed
<1>4. TimerTypeOK'
  BY <1>1 DEF TimerTypeOK
<1>5. pin' \in Levels /\ sensed' \in Levels
  BY DEF PinChanges, DrawUnpowered, Wake, buttonVars, Levels
<1>6. pressed' \in BOOLEAN
  <2>1. CASE PinChanges
    <3>1. pressed' = (pressed \/ (pin = "up" /\ power # "off"))
      BY <2>1 DEF PinChanges
    <3> QED BY <3>1
  <2>2. CASE DrawUnpowered \/ Wake \/ UNCHANGED buttonVars
    BY <2>2 DEF DrawUnpowered, Wake, buttonVars
  <2> QED
    BY <2>1, <2>2
<1>7. power' = power \/ (power = "delay" /\ power' = "halted") \/ (power = "off" /\ power' = "on")
  BY DEF PinChanges, DrawUnpowered, Wake, buttonVars
<1>8. edge # 0 => power' = "on"
  BY <1>7
<1> QED
  BY <1>1, <1>3, <1>4, <1>5, <1>6, <1>7, <1>8

LEMMA OffArmed ==
  ASSUME ButtonTypeOK, ArmedInv, SystemOff
  PROVE  ButtonTypeOK' /\ ArmedInv'
<1>1. /\ opq' = <<>> /\ Len(opq') = 0
      /\ listed' = {} /\ running' = {} /\ expired' = {} /\ restart' = {} /\ due' = {}
      /\ swi' = "idle" /\ swiPend' = FALSE /\ rtc' = FALSE /\ cycle' = FALSE
  BY DEF SystemOff
<1>2. /\ power' = "off" /\ pin' = pin /\ sensed' = pin /\ edge' = 0 /\ looking' = 0
      /\ pinState' = "down" /\ transition' = {} /\ atPush' = FALSE
      /\ pressed' = FALSE /\ lost' = FALSE /\ stranded' = {}
  BY DEF SystemOff
<1>3. opq' \in Seq(Ops) /\ Len(opq') <= OpQueueSize
  BY <1>1, TimersAssumption
<1>4. swiPend' \in BOOLEAN /\ rtc' \in BOOLEAN /\ cycle' \in BOOLEAN
  BY <1>1
<1>5. TimerTypeOK'
  BY <1>1, <1>3, <1>4 DEF TimerTypeOK
<1>6. atPush' \in BOOLEAN /\ pressed' \in BOOLEAN /\ lost' \in BOOLEAN
  BY <1>2
<1>7. edge' \in 0..ButtonCount /\ looking' \in 0..ButtonCount
  BY <1>2, ButtonAssumption
<1>8. ButtonTypeOK'
  BY <1>2, <1>5, <1>6, <1>7 DEF ButtonTypeOK, Levels
<1>9. DetectionArmed'
  BY <1>2 DEF DetectionArmed
<1> QED
  BY <1>1, <1>8, <1>9 DEF ArmedInv

LEMMA ArmedStep ==
  ASSUME ButtonTypeOK, ArmedInv, [ButtonNext]_buttonVars
  PROVE  ButtonTypeOK' /\ ArmedInv'
<1>1. CASE PinChanges \/ DrawUnpowered \/ Wake \/ UNCHANGED buttonVars
  BY <1>1, UntimedArmed
<1>2. CASE TimerSteps \/ Elapse
  BY <1>2, TimerStepsArmed
<1>3. ASSUME NEW b \in Buttons, Edge(b)
      PROVE  ButtonTypeOK' /\ ArmedInv'
  BY <1>3, EdgeStopArmed, EdgeCancelArmed, EdgeDetectArmed DEF Edge, EdgeEnds
<1>4. CASE Detection
  BY <1>4, DetectionBeginsArmed, LookArmed DEF Detection
<1> QED
  BY <1>1, <1>2, <1>3, <1>4, OtherArmed, OffArmed DEF ButtonNext

(* The types, and the invariant behind the next theorem. *)
THEOREM ButtonInvariant == ButtonSpec => [](ButtonTypeOK /\ ArmedInv)
<1>1. ButtonInit => ButtonTypeOK /\ ArmedInv
  BY ArmedInit
<1>2. ButtonTypeOK /\ ArmedInv /\ [ButtonNext]_buttonVars => (ButtonTypeOK /\ ArmedInv)'
  BY ArmedStep
<1> QED
  BY <1>1, <1>2, PTL DEF ButtonSpec

(* app_button.c never waits for a detection that nobody will end: its      *)
(* timer runs or is about to, or its handler is looking, whatever the      *)
(* number of buttons, unless an edge was refused or another button's edge  *)
(* has stopped the timer and started none.                                 *)
THEOREM DetectionStaysArmed == ButtonSpec => []DetectionArmed
<1>1. ArmedInv => DetectionArmed
  BY DEF ArmedInv
<1> QED
  BY <1>1, ButtonInvariant, PTL
=============================================================================
