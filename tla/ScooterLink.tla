----------------------------- MODULE ScooterLink -----------------------------
(***************************************************************************)
(* The dashboard's BLE central: ble_module.c, the NUS client ble_nus_c.c   *)
(* and the connection and polling half of ninebot_module.c, on the timers  *)
(* of TimerQueue.                                                          *)
(*                                                                         *)
(* Three application contexts share the state.  The handler of SoftDevice  *)
(* events (priority 6) preempts the RTC1 and SWI0 interrupts (priority 7), *)
(* which preempt main.  The SoftDevice itself is external and runs above   *)
(* all of them: the link may drop between any two steps, also while an     *)
(* event handler is in its 30 ms delay, and the handler then works on a    *)
(* link that is gone.                                                      *)
(***************************************************************************)
EXTENDS TimerQueue

CONSTANTS
  MaxEvents,   \* bound: SoftDevice events waiting to be pulled
  PollPeriod,  \* the 100 of polling_timer_handler
  Retries      \* the 3 of the request loops

ASSUME LinkAssumption ==
  /\ {"poll", "leds"} \subseteq Timers
  /\ Repeating = {"poll"}
  /\ MaxEvents \in Nat
  /\ PollPeriod \in Nat
  /\ Retries \in Nat

VARIABLES
  link,        \* GAP state of the SoftDevice
  gatt,        \* GATT client procedure of the current link
  evq,         \* events the SoftDevice holds for the application
  boot,        \* what main has still to do
  sdh,         \* progress of the event handler: "idle" or "settle"
  discovering, \* m_ble_db_discovery.discovery_in_progress
  nusConn,     \* m_ble_nus_c.conn_handle is valid
  cccd,        \* m_ble_nus_c.handles.nus_rx_cccd_handle is valid
  connected,   \* m_ninebot_data.connected
  screen,      \* what the last drawing put on the display
  stable,      \* m_stable_state of the LED indication
  poll,        \* progress of polling_timer_handler
  counter,     \* its static counter
  halted,      \* the APP_ERROR_CHECK that stopped the firmware, or "no"
  known        \* history: NUS was discovered on the current link

linkVars == <<link, gatt, evq, boot, sdh, discovering, nusConn, cccd, connected,
              screen, stable, poll, counter, halted, known>>

vars == <<linkVars, timerVars>>

-----------------------------------------------------------------------------
Adverts == {"adv_nus", "adv_other"}
Found == {"disc_found", "disc_partial"}
Answers == Found \cup {"disc_more", "disc_absent"}
GattEvents == Answers \cup {"hvx", "request", "gatt_timeout"}
Events == Adverts \cup GattEvents \cup {"connected", "disconnected"}

Registers == {"speed", "batt", "dist"}
PollIdle == [pc |-> "idle", reg |-> "speed", retries |-> 0]

Stops == {"timer_op", "scan_start", "busy", "discovery", "notify", "reply",
          "disconnect"}

LinkTypeOK ==
  /\ link \in {"idle", "scanning", "connecting", "connected", "closing"}
  /\ gatt \in {"none", "discovering", "subscribing", "subscribed", "timedout"}
  /\ evq \in Seq(Events)
  /\ Len(evq) <= MaxEvents
  /\ known \in BOOLEAN

HandlerTypeOK ==
  /\ boot \in {"scan", "indicate", "loop"}
  /\ sdh \in {"idle", "settle"}
  /\ discovering \in BOOLEAN /\ nusConn \in BOOLEAN /\ cccd \in BOOLEAN
  /\ connected \in BOOLEAN
  /\ screen \in {"searching", "data"}
  /\ stable \in {"idle", "scanning", "connected"}
  /\ halted \in {"no"} \cup Stops

PollTypeOK ==
  /\ poll \in [pc : {"idle", "check", "send"}, reg : Registers,
               retries : 0..Retries]
  /\ counter \in 0..PollPeriod

TypeOK == TimerTypeOK /\ LinkTypeOK /\ HandlerTypeOK /\ PollTypeOK

(* main has called ninebot_init and is about to call scan_start. *)
Init ==
  /\ TimerInit
  /\ link = "idle" /\ gatt = "none" /\ evq = <<>>
  /\ boot = "scan" /\ sdh = "idle"
  /\ discovering = FALSE /\ nusConn = FALSE /\ cccd = FALSE
  /\ connected = FALSE /\ known = FALSE
  /\ screen = "searching" /\ stable = "idle"
  /\ poll = PollIdle /\ counter = PollPeriod
  /\ halted = "no"

(* The firmware still runs: no APP_ERROR_CHECK failed and the timer list   *)
(* can be walked.                                                          *)
Up == halted = "no" /\ ~cycle

(* Nothing at priority 6 is running or pending. *)
Quiet == Up /\ evq = <<>> /\ sdh = "idle"

(* Nothing at priority 7 is running or pending either. *)
ThreadRuns == Quiet /\ ~rtc /\ swi = "idle" /\ ~swiPend

-----------------------------------------------------------------------------
(***************************************************************************)
(* The SoftDevice and the peers (external).  An event is queued together   *)
(* with the change it reports.  No event follows "disconnected" until the  *)
(* application scans again.                                                *)
(***************************************************************************)
appVars == <<boot, sdh, discovering, nusConn, cccd, connected, screen, stable,
             poll, counter, halted>>

Post(e) ==
  /\ Up /\ Len(evq) < MaxEvents
  /\ evq' = Append(evq, e)
  /\ UNCHANGED <<appVars, timerVars>>

Advertise(e) ==
  /\ link = "scanning"
  /\ Post(e)
  /\ UNCHANGED <<link, gatt, known>>

(* Timing: a new link takes at least an advertising interval.  Priority 7  *)
(* needs microseconds for anything but the two 100 ms delays of the        *)
(* polling handler, so a link never comes up within its other work.        *)
Prompt == \/ ~rtc /\ swi = "idle" /\ ~swiPend
          \/ poll.pc = "check" /\ poll.reg # "speed"

Establish ==
  /\ link = "connecting" /\ Prompt
  /\ Post("connected")
  /\ link' = "connected" /\ gatt' = "none" /\ known' = FALSE

Answer(e) ==
  /\ link = "connected" /\ gatt = "discovering"
  /\ Post(e)
  /\ gatt' = "none"
  /\ UNCHANGED <<link, known>>

(* The peer accepts the CCCD write; the application ignores the response. *)
Subscribed ==
  /\ Up /\ link = "connected" /\ gatt = "subscribing"
  /\ gatt' = "subscribed"
  /\ UNCHANGED <<link, evq, known, appVars, timerVars>>

Notify ==
  /\ link = "connected" /\ gatt \in {"subscribing", "subscribed"}
  /\ Post("hvx")
  /\ UNCHANGED <<link, gatt, known>>

(* A connection parameter update or an MTU exchange. *)
PeerRequest ==
  /\ link = "connected"
  /\ Post("request")
  /\ UNCHANGED <<link, gatt, known>>

GattTimeout ==
  /\ link = "connected" /\ gatt \in {"discovering", "subscribing"}
  /\ Post("gatt_timeout")
  /\ gatt' = "timedout"
  /\ UNCHANGED <<link, known>>

LinkDown ==
  /\ link \in {"connected", "closing"}
  /\ Post("disconnected")
  /\ link' = "idle" /\ gatt' = "none" /\ known' = FALSE

SoftDevice ==
  \/ \E e \in Adverts : Advertise(e)
  \/ Establish
  \/ \E e \in Answers : Answer(e)
  \/ Subscribed
  \/ Notify
  \/ PeerRequest
  \/ GattTimeout
  \/ LinkDown

-----------------------------------------------------------------------------
(***************************************************************************)
(* scan_start: the SoftDevice refuses unless it is idle; the SCANNING      *)
(* indication then starts the LED timer.  q is the ring as the calls       *)
(* before it left it.                                                      *)
(***************************************************************************)
IndicateScanning(q) ==
  /\ stable' = "scanning"
  /\ opq' = IF HasRoom(q, 1) THEN Start(q, "leds") ELSE q
  /\ halted' = IF HasRoom(q, 1) THEN halted ELSE "timer_op"

ScanStart(q) ==
  IF link = "idle"
  THEN link' = "scanning" /\ IndicateScanning(q)
  ELSE opq' = q /\ halted' = "scan_start" /\ UNCHANGED <<link, stable>>

(* What ninebot_data_updated_handler draws. *)
Drawing(c) == IF c THEN "data" ELSE "searching"

(* main, up to the call of scan_start's SoftDevice function ... *)
BootScan ==
  /\ boot = "scan" /\ ThreadRuns
  /\ boot' = "indicate"
  /\ link' = "scanning"
  /\ UNCHANGED <<gatt, evq, sdh, discovering, nusConn, cccd, connected, screen,
                 stable, poll, counter, halted, known, timerVars>>

(* ... and from there to the endless loop. *)
BootIndicate ==
  /\ boot = "indicate" /\ ThreadRuns
  /\ boot' = "loop"
  /\ IndicateScanning(opq)
  /\ swiPend' = (swiPend \/ HasRoom(opq, 1))
  /\ UNCHANGED <<link, gatt, evq, sdh, discovering, nusConn, cccd, connected,
                 screen, poll, counter, known, listed, running, expired,
                 restart, swi, rtc, due, cycle>>

-----------------------------------------------------------------------------
(***************************************************************************)
(* The SoftDevice event interrupt: ble_evt_dispatch hands each event to    *)
(* on_ble_evt, then to the discovery module, then to the NUS client.       *)
(***************************************************************************)
Take(e) ==
  /\ Up /\ sdh = "idle"
  /\ evq # <<>> /\ Head(evq) = e
  /\ evq' = Tail(evq)
  /\ UNCHANGED <<boot, poll, counter>>

(* A peer that advertises NUS.  sd_ble_gap_connect fails, and the report   *)
(* is dropped, when a connection is already being made.                    *)
OnAdvNus ==
  /\ Take("adv_nus")
  /\ link' = IF link = "scanning" THEN "connecting" ELSE link
  /\ stable' = IF link = "scanning" THEN "idle" ELSE stable
  /\ UNCHANGED <<gatt, sdh, discovering, nusConn, cccd, connected, screen,
                 halted, known, timerVars>>

OnAdvOther ==
  /\ Take("adv_other")
  /\ UNCHANGED <<link, gatt, sdh, discovering, nusConn, cccd, connected, screen,
                 stable, halted, known, timerVars>>

(* ble_db_discovery_start refuses while a discovery is in progress, and    *)
(* fails when the link is already gone.                                    *)
OnConnected ==
  /\ Take("connected")
  /\ stable' = "connected"
  /\ halted' = IF discovering THEN "busy"
               ELSE IF link # "connected" THEN "discovery" ELSE halted
  /\ discovering' = (discovering \/ link = "connected")
  /\ gatt' = IF ~discovering /\ link = "connected" THEN "discovering" ELSE gatt
  /\ UNCHANGED <<link, sdh, nusConn, cccd, connected, screen, known, timerVars>>

(* A response that calls for another request.  When that request fails the *)
(* discovery is given up and the error event has no taker.                 *)
OnDiscMore ==
  /\ Take("disc_more")
  /\ gatt' = IF link = "connected" THEN "discovering" ELSE gatt
  /\ discovering' = (discovering /\ link = "connected")
  /\ UNCHANGED <<link, sdh, nusConn, cccd, connected, screen, stable, halted,
                 known, timerVars>>

Bug_OnDiscAbsentScans ==
  /\ Take("disc_absent")
  /\ discovering' = FALSE
  /\ swiPend' = TRUE
  /\ ScanStart(opq)
  /\ UNCHANGED <<gatt, sdh, nusConn, cccd, connected, screen, known, listed,
                 running, expired, restart, swi, rtc, due, cycle>>

(* The peer has no NUS, or a further request is refused: nobody is told,   *)
(* and the link stays.                                                     *)
OnDiscAbsent ==
  /\ Take("disc_absent")
  /\ discovering' = FALSE
  /\ UNCHANGED <<link, gatt, sdh, nusConn, cccd, connected, screen, stable,
                 halted, known, timerVars>>

(* The last response: the NUS client is told, takes the handles and waits  *)
(* 30 ms.  A peer may lack the RX characteristic or its CCCD.              *)
OnDiscFound(e) ==
  /\ Take(e)
  /\ nusConn' = TRUE
  /\ cccd' = (e = "disc_found")
  /\ sdh' = "settle"
  /\ known' = (link # "idle")
  /\ UNCHANGED <<link, gatt, discovering, connected, screen, stable, halted,
                 timerVars>>

(* After the delay: enable notifications, start polling, and return into   *)
(* the discovery module, which clears its flag.                            *)
NotifEnabled == nusConn /\ cccd /\ link = "connected"

StartPolling ==
  /\ gatt' = "subscribing"
  /\ connected' = TRUE
  /\ screen' = Drawing(TRUE)
  /\ IF HasRoom(opq, 1)
     THEN StartTimer("poll") /\ discovering' = FALSE /\ UNCHANGED halted
     ELSE halted' = "timer_op" /\ UNCHANGED <<discovering, timerVars>>

Settle ==
  /\ Up /\ sdh = "settle"
  /\ sdh' = "idle"
  /\ IF NotifEnabled
     THEN StartPolling
     ELSE /\ halted' = "notify"
          /\ UNCHANGED <<gatt, connected, screen, discovering, timerVars>>
  /\ UNCHANGED <<link, evq, boot, nusConn, cccd, stable, poll, counter, known>>

(* A notification; only a pack of one of the three registers is drawn. *)
OnHvx ==
  /\ Take("hvx")
  /\ \E update \in BOOLEAN :
       screen' = IF update THEN Drawing(connected) ELSE screen
  /\ UNCHANGED <<link, gatt, sdh, discovering, nusConn, cccd, connected, stable,
                 halted, known, timerVars>>

OnRequest ==
  /\ Take("request")
  /\ halted' = IF link = "connected" THEN halted ELSE "reply"
  /\ UNCHANGED <<link, gatt, sdh, discovering, nusConn, cccd, connected, screen,
                 stable, known, timerVars>>

OnGattTimeout ==
  /\ Take("gatt_timeout")
  /\ link' = IF link = "connected" THEN "closing" ELSE link
  /\ halted' = IF link = "connected" THEN halted ELSE "disconnect"
  /\ UNCHANGED <<gatt, sdh, discovering, nusConn, cccd, connected, screen,
                 stable, known, timerVars>>

Bug_EndSessionForgetsScan ==
  /\ connected' = FALSE
  /\ screen' = Drawing(FALSE)
  /\ running' = running \ {"poll"}
  /\ swiPend' = (swiPend \/ HasRoom(opq, 1))
  /\ IF HasRoom(opq, 1)
     THEN opq' = Stop(opq, "poll") /\ UNCHANGED <<link, stable, halted>>
     ELSE halted' = "timer_op" /\ UNCHANGED <<opq, link, stable>>
  /\ UNCHANGED <<listed, expired, restart, swi, rtc, due, cycle>>

Bug_EndSessionDrawsFirst ==
  /\ connected' = FALSE
  /\ screen' = Drawing(connected)
  /\ running' = running \ {"poll"}
  /\ swiPend' = (swiPend \/ HasRoom(opq, 1))
  /\ IF HasRoom(opq, 1)
     THEN ScanStart(Stop(opq, "poll"))
     ELSE halted' = "timer_op" /\ UNCHANGED <<opq, link, stable>>
  /\ UNCHANGED <<listed, expired, restart, swi, rtc, due, cycle>>

Bug_EndSessionKeepsFlag ==
  /\ screen' = Drawing(FALSE)
  /\ running' = running \ {"poll"}
  /\ swiPend' = (swiPend \/ HasRoom(opq, 1))
  /\ IF HasRoom(opq, 1)
     THEN ScanStart(Stop(opq, "poll"))
     ELSE halted' = "timer_op" /\ UNCHANGED <<opq, link, stable>>
  /\ UNCHANGED <<connected, listed, expired, restart, swi, rtc, due, cycle>>

(* The NUS client knew the connection: polling stops, and scanning starts  *)
(* unless the stop found no room in the ring.                              *)
EndSession ==
  /\ connected' = FALSE
  /\ screen' = Drawing(FALSE)
  /\ running' = running \ {"poll"}
  /\ swiPend' = (swiPend \/ HasRoom(opq, 1))
  /\ IF HasRoom(opq, 1)
     THEN ScanStart(Stop(opq, "poll"))
     ELSE halted' = "timer_op" /\ UNCHANGED <<opq, link, stable>>
  /\ UNCHANGED <<listed, expired, restart, swi, rtc, due, cycle>>

(* It did not, because discovery had not completed: nothing follows. *)
NoSession ==
  UNCHANGED <<link, connected, screen, stable, halted, timerVars>>

Bug_OnDisconnectedBypassesModules ==
  /\ Take("disconnected")
  /\ nusConn' = FALSE
  /\ EndSession
  /\ UNCHANGED <<discovering, gatt, sdh, cccd, known>>

OnDisconnected ==
  /\ Take("disconnected")
  /\ discovering' = FALSE
  /\ nusConn' = FALSE
  /\ IF nusConn THEN EndSession ELSE NoSession
  /\ UNCHANGED <<gatt, sdh, cccd, known>>

EventHandler ==
  \/ OnAdvNus \/ OnAdvOther
  \/ OnConnected
  \/ OnDiscMore \/ OnDiscAbsent
  \/ \E e \in Found : OnDiscFound(e)
  \/ Settle
  \/ OnHvx \/ OnRequest \/ OnGattTimeout
  \/ OnDisconnected

-----------------------------------------------------------------------------
(***************************************************************************)
(* Priority 7.  RTC1 visits the expired timers; polling_timer_handler runs *)
(* inside it and can be preempted between any two of its steps, above all  *)
(* in its two delays of 100 ms.                                            *)
(***************************************************************************)
Visiting == Quiet /\ poll.pc = "idle"

linkOnly == <<link, gatt, evq, boot, sdh, discovering, nusConn, cccd, connected,
              screen, stable, halted, known>>

(* The LED handler repeats the stable indication; SCANNING asks for the    *)
(* next blink, and nobody looks at a refusal.                              *)
LedsFire ==
  /\ Visiting
  /\ RtcClear("leds")
  /\ IF stable = "scanning" /\ HasRoom(opq, 1)
     THEN opq' = Start(opq, "leds") /\ swiPend' = TRUE
     ELSE UNCHANGED <<opq, swiPend>>
  /\ UNCHANGED linkVars

PollFire ==
  /\ Visiting
  /\ RtcClear("poll")
  /\ poll' = [pc |-> "check", reg |-> "speed", retries |-> 0]
  /\ UNCHANGED <<linkOnly, counter, opq, swiPend>>

SkipTimer ==
  /\ Visiting
  /\ \E t \in Timers : RtcSkip(t)
  /\ UNCHANGED linkVars

RtcStart ==
  /\ Quiet
  /\ \E E \in SUBSET listed : RtcExpire(E)
  /\ UNCHANGED linkVars

RtcReturn ==
  /\ Visiting
  /\ RtcEnd
  /\ UNCHANGED linkVars

(* The register to request after reg, or the end of the handler: battery   *)
(* and distance follow the speed once every PollPeriod + 1 expiries.       *)
NextRegister(reg, n) ==
  IF reg = "speed" /\ n = PollPeriod
  THEN [pc |-> "check", reg |-> "batt", retries |-> 0]
  ELSE IF reg = "batt"
  THEN [pc |-> "check", reg |-> "dist", retries |-> 0]
  ELSE PollIdle

NextCounter(reg, n) ==
  IF reg # "speed" THEN n ELSE IF n = PollPeriod THEN 0 ELSE n + 1

PollAdvance ==
  /\ poll' = NextRegister(poll.reg, counter)
  /\ counter' = NextCounter(poll.reg, counter)

Bug_ChecksOnce ==
  /\ Quiet /\ poll.pc = "check"
  /\ IF connected \/ poll.reg # "speed"
     THEN /\ poll' = [pc |-> "send", reg |-> poll.reg, retries |-> Retries]
          /\ UNCHANGED counter
     ELSE PollAdvance
  /\ UNCHANGED <<linkOnly, timerVars>>

(* Each request looks at the connection flag before its loop. *)
PollCheck ==
  /\ Quiet /\ poll.pc = "check"
  /\ IF connected
     THEN /\ poll' = [pc |-> "send", reg |-> poll.reg, retries |-> Retries]
          /\ UNCHANGED counter
     ELSE PollAdvance
  /\ UNCHANGED <<linkOnly, timerVars>>

(* One turn of the loop.  The SoftDevice takes the packet only on a link   *)
(* that is up, and may be out of buffers.                                  *)
PollSend(sent) ==
  /\ Quiet /\ poll.pc = "send"
  /\ sent => link = "connected" /\ gatt # "timedout"
  /\ IF ~sent /\ poll.retries > 0
     THEN /\ poll' = [poll EXCEPT !.retries = @ - 1]
          /\ UNCHANGED counter
     ELSE PollAdvance
  /\ UNCHANGED <<linkOnly, timerVars>>

SwiStep ==
  /\ Quiet
  /\ SwiDelete \/ SwiRestart \/ SwiPop \/ SwiEnd
  /\ UNCHANGED linkVars

Handlers ==
  \/ SkipTimer \/ LedsFire \/ PollFire \/ RtcReturn
  \/ PollCheck \/ (\E sent \in BOOLEAN : PollSend(sent))
  \/ SwiStep

-----------------------------------------------------------------------------
Next == SoftDevice \/ EventHandler \/ RtcStart \/ Handlers \/ BootScan
        \/ BootIndicate

Spec == Init /\ [][Next]_vars

(* Every listed timer expires sooner or later. *)
ExpireAll == Quiet /\ RtcExpire(listed) /\ UNCHANGED linkVars

(***************************************************************************)
(* Fairness.  The processor runs what is pending; timers expire; and the   *)
(* few events a link produces in a connection interval are handled well    *)
(* within it, so the lower priorities run again and again.                 *)
(***************************************************************************)
Fairness ==
  /\ WF_vars(EventHandler)
  /\ SF_vars(Handlers) /\ SF_vars(SwiStep) /\ SF_vars(ExpireAll)
  /\ SF_vars(BootScan) /\ SF_vars(BootIndicate)
  /\ []<>(Quiet \/ ~Up)

FairSpec == Spec /\ Fairness

-----------------------------------------------------------------------------
(***************************************************************************)
(* Safety.                                                                 *)
(***************************************************************************)
Queued(e) == \E i \in DOMAIN evq : evq[i] = e

(* scan_start is only called when the SoftDevice is idle, so its           *)
(* APP_ERROR_CHECK (ble_module.c:157) never stops the firmware.            *)
ScanNeverRefused == halted # "scan_start"

(* ble_db_discovery_start never finds an earlier discovery in progress:    *)
(* every link that ends, ends its discovery before the next one is made.   *)
DiscoveryNeverBusy == halted # "busy"

(* m_ninebot_data.connected vouches for a link on which the NUS was found, *)
(* or for one whose end has been reported and is about to be handled.      *)
SessionBacked ==
  connected =>
    /\ nusConn
    /\ \/ known /\ link \in {"connected", "closing"} /\ ~Queued("disconnected")
       \/ link = "idle" /\ Queued("disconnected")

(* The display shows data exactly while the session lasts. *)
ScreenFollowsSession == screen = Drawing(connected)

(* While a session lasts the polling timer is armed, about to be linked    *)
(* again, or its start is still in the ring: a start that app_timer passes *)
(* over, or a late stop, would leave a connected dashboard frozen.         *)
PollingArmed ==
  Up /\ connected =>
    \/ "poll" \in listed \cup restart
    \/ \E i \in DOMAIN opq : opq[i] = [op |-> "start", timer |-> "poll"]

(* While SCANNING is indicated the LED timer is running or its start is in *)
(* the ring: its handler drops the result of the restart, but when the     *)
(* ring is full then one of the requests in it is that very start.         *)
Blinking ==
  Up /\ stable = "scanning" => "leds" \in running \/ Pending("start", "leds")

(* A request in the ring always has SWI0 pending or at work. *)
NoRequestStranded == opq # <<>> => swiPend \/ swi = "insert"

(* A request reaches the air only on a link on which the NUS was found,    *)
(* although the handler sends after delays in which the link may have been *)
(* lost and another one made.                                              *)
RequestsOnlyToKnownLink == [][PollSend(TRUE) => known]_vars

(***************************************************************************)
(* Abstraction.  The session as its user sees it: the link and the session *)
(* flag tell the phase, whatever events and requests are still on the way. *)
(***************************************************************************)
Phase ==
  CASE ~Up                              -> "halted"
    [] Up /\ connected                  -> "session"
    [] Up /\ ~connected /\ boot = "scan" -> "boot"
    [] OTHER ->
         CASE link = "scanning"              -> "searching"
           [] link = "connecting"            -> "connecting"
           [] link \in {"connected", "closing"} -> "linked"
           [] link = "idle"                  -> "lost"

LinkAlive == link \in {"connected", "closing"}

Life == INSTANCE Session WITH phase <- Phase, alive <- LinkAlive,
                              shown <- screen

(* Every behaviour of the firmware is one of Session: above all, a session *)
(* begins on a link that is there, no stale event ends it before its link  *)
(* is gone, and it ends in a search or a failed check, never in "lost".    *)
ImplementsSession == Life!Spec

(***************************************************************************)
(* Liveness.                                                               *)
(***************************************************************************)
(* The end of a session leads back to scanning. *)
SessionEndsInScan == connected /\ link = "idle" ~> link = "scanning" \/ ~Up

(* While a session lasts the scooter is asked again and again. *)
SessionPolls == connected ~> poll.pc = "send" \/ ~connected \/ ~Up

-----------------------------------------------------------------------------
(***************************************************************************)
(* What the code and its comments promise and does not hold; each of these *)
(* is refuted by a run.                                                    *)
(***************************************************************************)
(* main.c:396 "Start scanning for peripherals and initiate connection with *)
(* devices that advertise NUS UUID": without a link the dashboard looks    *)
(* for one.                                                                *)
ScanResumes == boot = "loop" /\ link = "idle" ~> link = "scanning" \/ ~Up

(* ble_module.c:182, 298, 322, 330 and 346 APP_ERROR_CHECK: what an event  *)
(* handler asks of the link the event came from succeeds; enabling the     *)
(* notifications of a complete NUS, 30 ms later, included.                 *)
LinkCallsSucceed ==
  /\ halted \notin {"discovery", "reply", "disconnect"}
  /\ cccd => halted # "notify"

(* ninebot_module.c:145 and ble_module.c:160 APP_ERROR_CHECK: the ring of  *)
(* timer requests has room.                                                *)
TimerRequestsSucceed == halted # "timer_op"

(* app_timer.h:262 "the second start operation is ignored": no start links *)
(* a timer that is in the list.                                            *)
ListStaysAcyclic == ~cycle
=============================================================================
