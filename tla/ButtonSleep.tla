----------------------------- MODULE ButtonSleep -----------------------------
(***************************************************************************)
(* The buttons: app_button.c debounces their edges with one timer of       *)
(* TimerQueue that all of them share, bsp.c makes push and release events  *)
(* of them, and main.c puts the chip to sleep on a release of one.         *)
(*                                                                         *)
(* GPIOTE, RTC1 and SWI0 have the same priority and run in turns; handlers *)
(* of SoftDevice events come in between any two steps, use the same ring   *)
(* of requests for the timer "other", and draw.  The long-push timer       *)
(* "hold" is stopped at each release but never started.                    *)
(*                                                                         *)
(* The levels are those of the sleep button.  Nobody uses the events of    *)
(* the others; their contacts may bounce between any two looks at them, so *)
(* that their edges come at any time and a look finds any level.           *)
(***************************************************************************)
EXTENDS TimerQueue

CONSTANTS
  ButtonCount,  \* BUTTONS_NUMBER
  SleepButton   \* its place in app_buttons: BTN_ID_SLEEP and BTN_ID_WAKEUP

Buttons == 1..ButtonCount

ASSUME ButtonAssumption ==
  /\ {"button", "hold", "other"} \subseteq Timers
  /\ {"button", "hold"} \cap Repeating = {}
  /\ ButtonCount \in Nat
  /\ SleepButton \in Buttons

VARIABLES
  power,      \* "on", "delay" (in ssd1306_power_off), "off" or "halted"
  pin,        \* level of the sleep button: "up" or "down"
  sensed,     \* the level of it the GPIOTE driver has seen last
  edge,       \* gpiote_event_handler: the button it has stopped the timer
              \* for, or 0
  looking,    \* detection_delay_timeout_handler: the button its loop comes
              \* to, or 0
  pinState,   \* m_pin_state of the sleep button
  transition, \* m_pin_transition: the buttons whose bit is set
  atPush,     \* release_event_at_push is the sleep event
  pressed,    \* history: the sleep button went down since the chip booted
  lost,       \* history: it lost an edge since its last event (see below)
  stranded    \* history: detections whose timer was stopped or refused by
              \* an edge that started none

buttonVars == <<power, pin, sensed, edge, looking, pinState, transition, atPush,
                pressed, lost, stranded, timerVars>>

Levels == {"up", "down"}

ButtonTypeOK ==
  /\ TimerTypeOK
  /\ power \in {"on", "delay", "off", "halted"}
  /\ pin \in Levels /\ sensed \in Levels /\ pinState \in Levels
  /\ edge \in 0..ButtonCount /\ looking \in 0..ButtonCount
  /\ transition \subseteq Buttons /\ stranded \subseteq transition
  /\ atPush \in BOOLEAN /\ pressed \in BOOLEAN /\ lost \in BOOLEAN
  /\ edge # 0 => ~rtc /\ swi = "idle" /\ power = "on"
  /\ looking # 0 => rtc
  /\ power = "delay" => rtc

(* bsp_init has enabled the buttons; a pin state of 0 stands for "down". *)
ButtonInit ==
  /\ TimerInit
  /\ power = "on"
  /\ pin \in Levels /\ sensed = pin
  /\ edge = 0 /\ looking = 0
  /\ pinState = "down" /\ transition = {} /\ atPush = FALSE
  /\ pressed = FALSE /\ lost = FALSE /\ stranded = {}

Working == power = "on" /\ ~cycle

-----------------------------------------------------------------------------
(* The user and the bounces of the contact (external). *)
PinChanges ==
  /\ power # "halted"
  /\ pin' = IF pin = "up" THEN "down" ELSE "up"
  /\ pressed' = (pressed \/ (pin = "up" /\ power # "off"))
  /\ UNCHANGED <<power, sensed, edge, looking, pinState, transition, atPush,
                 lost, stranded, timerVars>>

(* The handlers of SoftDevice events use the ring and draw; without supply *)
(* the display may not answer, and the check on the transfer halts.        *)
OtherStarts ==
  /\ power \in {"on", "delay"} /\ ~cycle
  /\ StartTimer("other") \/ StopTimer("other")
  /\ UNCHANGED <<power, pin, sensed, edge, looking, pinState, transition,
                 atPush, pressed, lost, stranded>>

DrawUnpowered ==
  /\ power = "delay"
  /\ power' = "halted"
  /\ UNCHANGED <<pin, sensed, edge, looking, pinState, transition, atPush,
                 pressed, lost, stranded, timerVars>>

-----------------------------------------------------------------------------
(* gpiote_event_handler up to app_timer_stop, which clears is_running even *)
(* when the ring is full.                                                  *)
Turn == Working /\ ~rtc /\ swi = "idle" /\ edge = 0

EdgeNoticed(b, unarmed) ==
  /\ Turn
  /\ b = SleepButton => pin # sensed
  /\ sensed' = IF b = SleepButton THEN pin ELSE sensed
  /\ running' = unarmed
  /\ IF HasRoom(opq, 1)
     THEN /\ edge' = b
          /\ opq' = Stop(opq, "button") /\ swiPend' = TRUE
          /\ UNCHANGED <<lost, stranded>>
     ELSE /\ lost' = (lost \/ b = SleepButton)
          /\ stranded' = transition
          /\ UNCHANGED <<edge, opq, swiPend>>
  /\ UNCHANGED <<power, pin, looking, pinState, transition, atPush, pressed,
                 listed, expired, restart, swi, rtc, due, cycle>>

Bug_EdgeKeepsRunning(b) == EdgeNoticed(b, running)

EdgeStop(b) == EdgeNoticed(b, running \ {"button"})

(* A detection in progress is given up, and nothing is started ... *)
EdgeCancel(b) ==
  /\ Working /\ edge = b /\ b \in transition
  /\ edge' = 0
  /\ transition' = transition \ {b}
  /\ stranded' = transition \ {b}
  /\ UNCHANGED <<power, pin, sensed, looking, pinState, atPush, pressed, lost,
                 timerVars>>

(* ... or one is begun, and app_timer_start, if it finds room, serves all. *)
EdgeDetect(b) ==
  /\ Working /\ edge = b /\ b \notin transition
  /\ edge' = 0
  /\ pinState' = IF b = SleepButton THEN pin ELSE pinState
  /\ transition' = transition \cup {b}
  /\ IF HasRoom(opq, 1)
     THEN StartTimer("button") /\ stranded' = {}
     ELSE UNCHANGED timerVars /\ stranded' = transition'
  /\ lost' = (lost \/ (b = SleepButton /\ (pin # sensed \/ ~HasRoom(opq, 1))))
  /\ UNCHANGED <<power, pin, sensed, looking, atPush, pressed>>

-----------------------------------------------------------------------------
(***************************************************************************)
(* detection_delay_timeout_handler looks at one button after the other.    *)
(* An edge is lost when app_timer refuses a request for it, and it may be  *)
(* when a handler reads another level than the GPIOTE driver saw last:     *)
(* should the contact go back before the driver looks again, nobody tells  *)
(* app_button.c.  The next event of the button makes up for it.            *)
(***************************************************************************)
DetectionBegins ==
  /\ Working /\ edge = 0 /\ looking = 0
  /\ RtcClear("button")
  /\ looking' = 1
  /\ UNCHANGED <<opq, swiPend, power, pin, sensed, edge, pinState, transition,
                 atPush, pressed, lost, stranded>>

LookAt(b) ==
  /\ Working /\ looking = b
  /\ looking' = IF b = ButtonCount THEN 0 ELSE b + 1
  /\ UNCHANGED <<pin, sensed, edge, pinState, pressed>>

PassOver(b) ==
  /\ LookAt(b) /\ b \notin transition
  /\ UNCHANGED <<power, transition, atPush, lost, stranded, timerVars>>

Bug_Uncleared(b) ==
  /\ LookAt(b) /\ b \in transition
  /\ stranded' = stranded \ {b}
  /\ UNCHANGED transition

Detected(b) ==
  /\ LookAt(b) /\ b \in transition
  /\ stranded' = stranded \ {b}
  /\ transition' = transition \ {b}

Nothing(b) ==
  /\ Detected(b)
  /\ b = SleepButton => pinState # pin
  /\ lost' = (lost \/ (b = SleepButton /\ pin # sensed))
  /\ UNCHANGED <<power, atPush, timerVars>>

Reported(b, level) ==
  /\ Detected(b)
  /\ b = SleepButton => pinState = pin /\ pin = level
  /\ lost' = (lost /\ (b = SleepButton => pin # sensed))

(* A push: bsp_button_event_handler notes what a release will mean. *)
Push(b) ==
  /\ Reported(b, "down")
  /\ atPush' = (atPush \/ b = SleepButton)
  /\ UNCHANGED <<power, timerVars>>

Bug_Sleeps == TRUE

(* A release without a push since the boot is not the sleep event. *)
Sleeps == atPush

(* It stops the long-push timer, refusal or not. *)
Release(b) ==
  /\ Reported(b, "up")
  /\ StopTimer("hold") \/ StopRefused("hold")
  /\ power' = IF b = SleepButton /\ Sleeps THEN "delay" ELSE power
  /\ UNCHANGED atPush

(* The end of sleep_mode_enter, which leaves the other buttons sensed too; *)
(* RAM is lost.                                                            *)
SystemOff ==
  /\ power = "delay"
  /\ power' = "off"
  /\ sensed' = pin /\ edge' = 0 /\ looking' = 0
  /\ pinState' = "down" /\ transition' = {} /\ atPush' = FALSE
  /\ pressed' = FALSE /\ lost' = FALSE /\ stranded' = {}
  /\ opq' = <<>>
  /\ listed' = {} /\ running' = {} /\ expired' = {} /\ restart' = {} /\ due' = {}
  /\ swi' = "idle" /\ swiPend' = FALSE /\ rtc' = FALSE /\ cycle' = FALSE
  /\ UNCHANGED pin

(* The pressed sleep button, or an edge of another one, wakes the chip by  *)
(* a reset; by the time bsp_init has enabled the buttons the contact may   *)
(* have moved.                                                             *)
Wake ==
  /\ power = "off"
  /\ \E b \in Buttons : b = SleepButton => pin = "down"
  /\ power' = "on"
  /\ pin' \in Levels /\ sensed' = pin'
  /\ UNCHANGED <<edge, looking, pinState, transition, atPush, pressed, lost,
                 stranded, timerVars>>

-----------------------------------------------------------------------------
untimed == <<power, pin, sensed, edge, looking, pinState, transition, atPush,
             pressed, lost, stranded>>

TimerSteps ==
  /\ Working /\ edge = 0 /\ looking = 0
  /\ \/ SwiDelete \/ SwiRestart \/ SwiPop \/ SwiEnd
     \/ \E t \in Timers : RtcSkip(t)
     \/ \E t \in Timers \ {"button"} : RtcClear(t) /\ UNCHANGED <<opq, swiPend>>
     \/ RtcEnd
  /\ UNCHANGED untimed

Elapse ==
  /\ Working /\ edge = 0
  /\ \E E \in SUBSET listed : RtcExpire(E)
  /\ UNCHANGED untimed

EdgeEnds(b) == EdgeCancel(b) \/ EdgeDetect(b)

Edge(b) == EdgeStop(b) \/ EdgeEnds(b)

Look(b) == PassOver(b) \/ Nothing(b) \/ Push(b) \/ Release(b)

Detection == DetectionBegins \/ \E b \in Buttons : Look(b)

ButtonNext ==
  \/ PinChanges \/ OtherStarts \/ DrawUnpowered
  \/ \E b \in Buttons : Edge(b)
  \/ Detection
  \/ SystemOff \/ Wake
  \/ TimerSteps \/ Elapse

ButtonSpec == ButtonInit /\ [][ButtonNext]_buttonVars

ElapseAll == Elapse /\ due' = listed

SwiTurn == TimerSteps /\ SwiDelete

(***************************************************************************)
(* Fairness: interrupts that are pending are taken, the GPIOTE driver asks *)
(* for every pin, timers expire, and SoftDevice events leave SWI0 the time *)
(* to empty the ring and end.  RTC1 cannot keep SWI0 from its turn for     *)
(* ever: only SWI0 arms COMPARE again.  The other buttons need not move.   *)
(***************************************************************************)
ButtonFairness ==
  /\ SF_buttonVars(Edge(SleepButton))
  /\ WF_buttonVars(\E b \in Buttons : EdgeEnds(b))
  /\ SF_buttonVars(Detection)
  /\ SF_buttonVars(TimerSteps) /\ SF_buttonVars(SwiTurn)
  /\ SF_buttonVars(ElapseAll)
  /\ []<>(swi = "idle")

FairButtonSpec == ButtonSpec /\ ButtonFairness

-----------------------------------------------------------------------------
(* A release puts the chip to sleep only after a press of the sleep button *)
(* with the chip awake: the release of the press that woke it does not,    *)
(* however the contacts bounce.                                            *)
SleepNeedsPress == power = "delay" => pressed

(* A detection in progress has its timer armed, its start still in the     *)
(* ring, or the loop of the handler coming to it: neither the stop in      *)
(* front of the start nor an expiry that was already noticed takes it      *)
(* away.  What does is an edge the ring refused, or one of another button  *)
(* that gave up a detection of its own: its stop, app_button.c line 105,   *)
(* ends the timer of all, and line 134 starts none, although app_button.h  *)
(* says that an edge restarts the timer.                                   *)
DetectionArmed ==
  \A b \in transition \ stranded :
    \/ cycle
    \/ "button" \in listed \cap running
    \/ Pending("start", "button")
    \/ edge # 0
    \/ looking # 0 /\ looking <= b

(* The inductive invariant behind it: when SWI0 unlinks the button's timer *)
(* the flag of the timer is cleared.  A stop clears it before SWI0 has its *)
(* turn, and RTC1 leaves no flag of an expired timer behind.               *)
ArmedInv ==
  /\ "button" \in due => rtc
  /\ "button" \in expired => swi = "idle"
  /\ "button" \in running =>
       /\ "button" \in listed
       /\ "button" \in expired => "button" \in due
       /\ swi = "idle" => ~Pending("stop", "button")
  /\ DetectionArmed

(* After a push, a sleep button that is let go puts the chip to sleep,     *)
(* unless it is pressed again, an edge was lost since the push or another  *)
(* button has left its detection without a timer.  What an edge lost       *)
(* before the push has left in m_pin_transition does not swallow the       *)
(* release.                                                                *)
ReleaseSleeps ==
  power = "on" /\ atPush /\ pin = "up" ~>
    power # "on" \/ pin = "down" \/ lost \/ SleepButton \in stranded \/ cycle
=============================================================================
