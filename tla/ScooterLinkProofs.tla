-------------------------- MODULE ScooterLinkProofs --------------------------
(***************************************************************************)
(* Proofs about ScooterLink, for every size of the queues, every polling   *)
(* period and every number of retries: its invariants, and what it         *)
(* promises to the rider.                                                  *)
(***************************************************************************)
EXTENDS ScooterLinkInv, TimerQueueProofs

-----------------------------------------------------------------------------
(***************************************************************************)
(* Type correctness, one lemma per group of actions.                       *)
(***************************************************************************)
LEMMA TypeInit ==
  ASSUME Init
  PROVE  TypeOK
<1>1. TimerTypeOK
  <2>1. TimerInit
    BY DEF Init
  <2>2. opq \in Seq(Ops) /\ Len(opq) <= OpQueueSize
    BY <2>1, TimersAssumption DEF TimerInit
  <2> QED
    BY <2>1, <2>2 DEF TimerInit, TimerTypeOK
<1>2. poll \in [pc : {"idle", "check", "send"}, reg : Registers, retries : 0..Retries]
  BY LinkAssumption DEF Init, PollIdle, Registers
<1>3. evq \in Seq(Events) /\ Len(evq) <= MaxEvents
  BY LinkAssumption DEF Init
<1>4. counter \in 0..PollPeriod
  BY LinkAssumption DEF Init
<1> QED
  BY <1>1, <1>2, <1>3, <1>4
     DEF Init, TypeOK, LinkTypeOK, HandlerTypeOK, PollTypeOK

(* Posting an event disturbs the queue only. *)
LEMMA TypePost ==
  ASSUME TypeOK, NEW e \in Events, Post(e)
  PROVE  /\ evq' \in Seq(Events)
         /\ Len(evq') <= MaxEvents
         /\ Len(evq') = Len(evq) + 1
         /\ UNCHANGED <<appVars, timerVars>>
BY AppendFacts, LinkAssumption DEF TypeOK, LinkTypeOK, Post

LEMMA TypeSoftDevice ==
  ASSUME TypeOK, SoftDevice
  PROVE  TypeOK'
<1>1. /\ Adverts \subseteq Events /\ Answers \subseteq Events
      /\ {"connected", "disconnected", "hvx", "request", "gatt_timeout"} \subseteq Events
  BY DEF Adverts, Answers, Found, Events, GattEvents
<1>2. CASE Subscribed
  BY <1>2 DEF TypeOK, TimerTypeOK, LinkTypeOK, HandlerTypeOK, PollTypeOK, Subscribed,
     appVars, timerVars
<1>3. SUFFICES ASSUME NEW e \in Events, Post(e),
                      link' \in {"idle", "scanning", "connecting", "connected", "closing"},
                      gatt' \in {"none", "discovering", "subscribing", "subscribed", "timedout"},
                      known' \in BOOLEAN
               PROVE  TypeOK'
  BY <1>1, <1>2 DEF TypeOK, LinkTypeOK, SoftDevice, Advertise, Establish, Answer, Notify,
     PeerRequest, GattTimeout, LinkDown
<1>4. LinkTypeOK'
  BY <1>3, TypePost DEF LinkTypeOK
<1>5. UNCHANGED <<appVars, timerVars>>
  BY <1>3, TypePost
<1> QED
  BY <1>4, <1>5 DEF TypeOK, TimerTypeOK, HandlerTypeOK, PollTypeOK, appVars, timerVars

LEMMA TypeTake ==
  ASSUME TypeOK, NEW e, Take(e)
  PROVE  /\ evq' \in Seq(Events)
         /\ Len(evq') <= MaxEvents
         /\ boot' \in {"scan", "indicate", "loop"}
         /\ PollTypeOK'
BY TailFacts, LinkAssumption DEF TypeOK, LinkTypeOK, HandlerTypeOK, PollTypeOK, Take

LEMMA TypeIndicate ==
  ASSUME NEW q \in Seq(Ops), Len(q) <= OpQueueSize, IndicateScanning(q),
         halted \in {"no"} \cup Stops
  PROVE  /\ opq' \in Seq(Ops) /\ Len(opq') <= OpQueueSize
         /\ stable' = "scanning"
         /\ halted' \in {"no"} \cup Stops
BY TypeRequest, LinkAssumption DEF IndicateScanning, Stops

LEMMA TypeBoot ==
  ASSUME TypeOK, BootScan \/ BootIndicate
  PROVE  TypeOK'
<1>1. CASE BootScan
  BY <1>1 DEF TypeOK, TimerTypeOK, LinkTypeOK, HandlerTypeOK, PollTypeOK, BootScan,
     timerVars
<1>2. CASE BootIndicate
  <2>1. IndicateScanning(opq)
    BY <1>2 DEF BootIndicate
  <2>2. /\ opq' \in Seq(Ops) /\ Len(opq') <= OpQueueSize
        /\ stable' = "scanning"
        /\ halted' \in {"no"} \cup Stops
    BY <2>1, TypeIndicate DEF TypeOK, TimerTypeOK, HandlerTypeOK
  <2> QED
    BY <1>2, <2>2 DEF TypeOK, TimerTypeOK, LinkTypeOK, HandlerTypeOK, PollTypeOK,
       BootIndicate
<1> QED
  BY <1>1, <1>2

(* The handlers that leave the timers alone. *)
Untimed ==
  \/ OnAdvNus \/ OnAdvOther \/ OnConnected \/ OnDiscMore \/ OnDiscAbsent
  \/ (\E e \in Found : OnDiscFound(e))
  \/ OnHvx \/ OnRequest \/ OnGattTimeout

LEMMA TypeUntimed ==
  ASSUME TypeOK, Untimed
  PROVE  TypeOK'
<1>1. PICK e : Take(e)
  BY DEF Untimed, OnAdvNus, OnAdvOther, OnConnected, OnDiscMore, OnDiscAbsent,
     OnDiscFound, OnHvx, OnRequest, OnGattTimeout
<1>2. /\ evq' \in Seq(Events)
      /\ Len(evq') <= MaxEvents
      /\ boot' \in {"scan", "indicate", "loop"}
      /\ PollTypeOK'
  BY <1>1, TypeTake
<1>3. UNCHANGED timerVars
  BY DEF Untimed, OnAdvNus, OnAdvOther, OnConnected, OnDiscMore, OnDiscAbsent,
     OnDiscFound, OnHvx, OnRequest, OnGattTimeout
<1>4. TimerTypeOK'
  BY <1>3 DEF TypeOK, TimerTypeOK, timerVars
<1>5. CASE OnAdvNus
  BY <1>2, <1>4, <1>5 DEF TypeOK, LinkTypeOK, HandlerTypeOK, OnAdvNus
<1>6. CASE OnAdvOther
  BY <1>2, <1>4, <1>6 DEF TypeOK, LinkTypeOK, HandlerTypeOK, OnAdvOther
<1>7. CASE OnConnected
  BY <1>2, <1>4, <1>7 DEF TypeOK, LinkTypeOK, HandlerTypeOK, OnConnected, Stops
<1>8. CASE OnDiscMore
  BY <1>2, <1>4, <1>8 DEF TypeOK, LinkTypeOK, HandlerTypeOK, OnDiscMore
<1>9. CASE OnDiscAbsent
  <2>1. discovering' \in BOOLEAN
    BY <1>9 DEF OnDiscAbsent
  <2>2. HandlerTypeOK'
    BY <1>2, <1>9, <2>1 DEF TypeOK, HandlerTypeOK, OnDiscAbsent
  <2> QED
    BY <1>2, <1>4, <1>9, <2>2 DEF TypeOK, LinkTypeOK, OnDiscAbsent
<1>10. CASE \E found \in Found : OnDiscFound(found)
  BY <1>2, <1>4, <1>10 DEF TypeOK, LinkTypeOK, HandlerTypeOK, OnDiscFound
<1>11. CASE OnHvx
  BY <1>2, <1>4, <1>11 DEF TypeOK, LinkTypeOK, HandlerTypeOK, OnHvx, Drawing
<1>12. CASE OnRequest
  BY <1>2, <1>4, <1>12 DEF TypeOK, LinkTypeOK, HandlerTypeOK, OnRequest, Stops
<1>13. CASE OnGattTimeout
  BY <1>2, <1>4, <1>13 DEF TypeOK, LinkTypeOK, HandlerTypeOK, OnGattTimeout, Stops
<1> QED
  BY <1>5, <1>6, <1>7, <1>8, <1>9, <1>10, <1>11, <1>12, <1>13 DEF Untimed

LEMMA TypeEnd ==
  ASSUME TypeOK, Settle \/ OnDisconnected
  PROVE  TypeOK'
<1>1. "poll" \in Timers /\ "leds" \in Timers
  BY LinkAssumption
<1>2. CASE Settle
  <2>1. HasRoom(opq, 1) => Start(opq, "poll") \in Seq(Ops) /\ Len(Start(opq, "poll")) <= OpQueueSize
    BY <1>1, TypeRequest DEF TypeOK, TimerTypeOK
  <2>2. TimerTypeOK'
    <3>1. CASE UNCHANGED timerVars
      BY <3>1 DEF TypeOK, TimerTypeOK, timerVars
    <3>2. CASE StartTimer("poll")
      BY <2>1, <3>2 DEF TypeOK, TimerTypeOK, StartTimer
    <3> QED
      BY <1>2, <3>1, <3>2 DEF Settle, StartPolling
  <2>3. /\ UNCHANGED <<link, evq, known, boot, nusConn, cccd, stable, poll, counter>>
        /\ sdh' = "idle"
    BY <1>2 DEF Settle
  <2>4. gatt' \in {gatt, "subscribing"} /\ screen' \in {screen, "data"}
    BY <1>2 DEF Settle, StartPolling, Drawing
  <2>5. halted' \in {halted, "timer_op", "notify"}
    BY <1>2 DEF Settle, StartPolling
  <2>6. connected' \in BOOLEAN
    BY <1>2 DEF Settle, StartPolling, TypeOK, HandlerTypeOK
  <2>7. discovering' \in BOOLEAN
    BY <1>2 DEF Settle, StartPolling, TypeOK, HandlerTypeOK
  <2>8. LinkTypeOK' /\ PollTypeOK'
    BY <2>3, <2>4 DEF TypeOK, LinkTypeOK, PollTypeOK
  <2>9. HandlerTypeOK'
    BY <2>3, <2>4, <2>5, <2>6, <2>7 DEF TypeOK, HandlerTypeOK, Stops
  <2> QED
    BY <2>2, <2>8, <2>9 DEF TypeOK
<1>3. CASE OnDisconnected
  <2>1. /\ evq' \in Seq(Events)
        /\ Len(evq') <= MaxEvents
        /\ boot' \in {"scan", "indicate", "loop"}
      /\ PollTypeOK'
    BY <1>3, TypeTake DEF OnDisconnected
  <2>2. HasRoom(opq, 1) => Stop(opq, "poll") \in Seq(Ops) /\ Len(Stop(opq, "poll")) <= OpQueueSize
    BY <1>1, TypeRequest DEF TypeOK, TimerTypeOK
  <2>3. CASE NoSession
    <3>1. TimerTypeOK'
      BY <2>3 DEF TypeOK, TimerTypeOK, NoSession, timerVars
    <3>2. discovering' \in BOOLEAN /\ nusConn' \in BOOLEAN
      BY <1>3 DEF OnDisconnected
    <3>3. HandlerTypeOK'
      BY <1>3, <2>1, <2>3, <3>2 DEF TypeOK, HandlerTypeOK, OnDisconnected, NoSession
    <3> QED
      BY <1>3, <2>1, <2>3, <3>1, <3>3 DEF TypeOK, LinkTypeOK, OnDisconnected, NoSession
  <2>4. CASE EndSession
    <3>1. /\ opq' \in Seq(Ops) /\ Len(opq') <= OpQueueSize
          /\ stable' \in {"idle", "scanning", "connected"}
          /\ halted' \in {"no"} \cup Stops
          /\ link' \in {"idle", "scanning", "connecting", "connected", "closing"}
      <4>1. CASE HasRoom(opq, 1) /\ link = "idle"
        BY <2>4, <4>1, <2>2, TypeIndicate
        DEF EndSession, ScanStart, TypeOK, LinkTypeOK, HandlerTypeOK
      <4>2. CASE HasRoom(opq, 1) /\ link # "idle"
        BY <2>4, <4>2, <2>2
        DEF EndSession, ScanStart, TypeOK, LinkTypeOK, HandlerTypeOK, Stops
      <4>3. CASE ~HasRoom(opq, 1)
        BY <2>4, <4>3
        DEF EndSession, TypeOK, TimerTypeOK, LinkTypeOK, HandlerTypeOK, Stops
      <4> QED
        BY <4>1, <4>2, <4>3
    <3>2. screen' \in {"searching", "data"} /\ connected' \in BOOLEAN
      BY <2>4 DEF EndSession, Drawing
    <3>3. TimerTypeOK'
      BY <2>4, <3>1 DEF EndSession, TypeOK, TimerTypeOK
    <3> QED
      BY <1>3, <2>1, <3>1, <3>2, <3>3
      DEF OnDisconnected, TypeOK, LinkTypeOK, HandlerTypeOK
  <2> QED
    BY <1>3, <2>3, <2>4 DEF OnDisconnected
<1> QED
  BY <1>2, <1>3

LEMMA TypeEventHandler ==
  ASSUME TypeOK, EventHandler
  PROVE  TypeOK'
BY TypeUntimed, TypeEnd DEF EventHandler, Untimed

LEMMA TypeTimers ==
  ASSUME TypeOK, RtcStart \/ SkipTimer \/ RtcReturn \/ SwiStep
  PROVE  TypeOK'
<1>1. UNCHANGED linkVars
  BY DEF RtcStart, SkipTimer, RtcReturn, SwiStep
<1>2. LinkTypeOK' /\ HandlerTypeOK' /\ PollTypeOK'
  BY <1>1 DEF TypeOK, LinkTypeOK, HandlerTypeOK, PollTypeOK, linkVars
<1>3. TimerTypeOK'
  <2>1. CASE RtcStart \/ SkipTimer \/ RtcReturn
    BY <2>1 DEF TypeOK, TimerTypeOK, RtcStart, SkipTimer, RtcReturn, RtcExpire, RtcSkip, RtcEnd
  <2>2. CASE SwiDelete
    <3>1. swiPend' \in BOOLEAN
      BY <2>2 DEF SwiDelete
    <3>2. /\ listed' \subseteq Timers /\ restart' \subseteq Repeating
      BY <2>2 DEF TypeOK, TimerTypeOK, SwiDelete
    <3> QED
      BY <2>2, <3>1, <3>2 DEF TypeOK, TimerTypeOK, SwiDelete
  <2>3. CASE SwiRestart
    BY <2>3, TimersAssumption DEF TypeOK, TimerTypeOK, SwiRestart, Insert
  <2>4. CASE SwiPop
    <3>1. /\ opq \in Seq(Ops) /\ opq # <<>> /\ Len(opq) <= OpQueueSize
          /\ opq' = Tail(opq)
      BY <2>4 DEF TypeOK, TimerTypeOK, SwiPop
    <3>2. opq' \in Seq(Ops) /\ Len(opq') <= OpQueueSize /\ Head(opq) \in Ops
      BY <3>1, TailFacts, TimersAssumption
    <3>3. Head(opq).timer \in Timers
      BY <3>2 DEF Ops
    <3> QED
      BY <2>4, <3>2, <3>3 DEF TypeOK, TimerTypeOK, SwiPop, Insert
  <2>5. CASE SwiEnd
    BY <2>5 DEF TypeOK, TimerTypeOK, SwiEnd
  <2> QED
    BY <2>1, <2>2, <2>3, <2>4, <2>5 DEF SwiStep
<1> QED
  BY <1>2, <1>3 DEF TypeOK

LEMMA TypeLeds ==
  ASSUME TypeOK, LedsFire
  PROVE  TypeOK'
<1>1. opq' \in Seq(Ops) /\ Len(opq') <= OpQueueSize /\ swiPend' \in BOOLEAN
  BY TypeRequest, LinkAssumption DEF TypeOK, TimerTypeOK, LedsFire
<1>2. TimerTypeOK'
  BY <1>1 DEF TypeOK, TimerTypeOK, LedsFire, RtcClear
<1> QED
  BY <1>2 DEF LedsFire, TypeOK, LinkTypeOK, HandlerTypeOK, PollTypeOK, linkVars

LEMMA TypePoll ==
  ASSUME TypeOK, PollFire \/ PollCheck \/ (\E sent \in BOOLEAN : PollSend(sent))
  PROVE  TypeOK'
<1>1. UNCHANGED linkOnly
  BY DEF PollFire, PollCheck, PollSend
<1>2. LinkTypeOK' /\ HandlerTypeOK'
  BY <1>1 DEF TypeOK, LinkTypeOK, HandlerTypeOK, linkOnly
<1>3. TimerTypeOK'
  BY DEF TypeOK, TimerTypeOK, PollFire, PollCheck, PollSend, RtcClear, timerVars
<1>4. /\ poll.pc \in {"idle", "check", "send"} /\ poll.reg \in Registers
      /\ poll.retries \in 0..Retries
      /\ poll = [pc |-> poll.pc, reg |-> poll.reg, retries |-> poll.retries]
      /\ counter \in 0..PollPeriod
  BY DEF TypeOK, PollTypeOK
<1>5. PollAdvance => PollTypeOK'
  BY <1>4, LinkAssumption
     DEF PollAdvance, NextRegister, NextCounter, PollIdle, PollTypeOK, Registers
<1>6. CASE PollFire
  BY <1>2, <1>3, <1>4, <1>6, LinkAssumption DEF TypeOK, PollFire, PollTypeOK, Registers
<1>7. CASE PollCheck
  <2>1. [pc |-> "send", reg |-> poll.reg, retries |-> Retries]
          \in [pc : {"idle", "check", "send"}, reg : Registers, retries : 0..Retries]
    BY <1>4, LinkAssumption DEF TypeOK, PollTypeOK
  <2> QED
    <3>1. ASSUME connected PROVE PollTypeOK'
      BY <1>4, <1>7, <2>1, <3>1 DEF PollCheck, PollTypeOK
    <3>2. ASSUME ~connected PROVE PollTypeOK'
      BY <1>5, <1>7, <3>2 DEF PollCheck
    <3> QED
      BY <1>2, <1>3, <3>1, <3>2 DEF TypeOK
<1>8. ASSUME NEW sent \in BOOLEAN, PollSend(sent) PROVE TypeOK'
  <2>1. poll.retries > 0 => [poll EXCEPT !.retries = @ - 1]
          \in [pc : {"idle", "check", "send"}, reg : Registers, retries : 0..Retries]
    BY <1>4, LinkAssumption DEF TypeOK, PollTypeOK
  <2>2. ASSUME ~sent, poll.retries > 0 PROVE PollTypeOK'
    BY <1>4, <1>8, <2>1, <2>2 DEF PollSend, PollTypeOK
  <2>3. ASSUME sent \/ ~(poll.retries > 0) PROVE PollTypeOK'
    BY <1>5, <1>8, <2>3 DEF PollSend
  <2>4. PollTypeOK'
    BY <2>2, <2>3
  <2> QED
    BY <1>2, <1>3, <2>4 DEF TypeOK
<1> QED
  BY <1>6, <1>7, <1>8

LEMMA TypeStep ==
  ASSUME TypeOK, [Next]_vars
  PROVE  TypeOK'
<1>1. CASE UNCHANGED vars
  BY <1>1 DEF TypeOK, TimerTypeOK, LinkTypeOK, HandlerTypeOK, PollTypeOK, vars, linkVars,
     timerVars
<1> QED
  BY <1>1, TypeSoftDevice, TypeEventHandler, TypeTimers, TypeLeds, TypePoll, TypeBoot
     DEF Next, Handlers

(* The queues of the SoftDevice and of app_timer never outgrow their       *)
(* storage, and every variable keeps to the values the code gives it.      *)
THEOREM TypeCorrect == Spec => []TypeOK
  BY TypeInit, TypeStep, PTL DEF Spec

-----------------------------------------------------------------------------
(***************************************************************************)
(* The interrupts of priority 7 work in turns.                             *)
(***************************************************************************)
(* The event handler leaves the timer list and the polling handler alone:  *)
(* all it does to the timers is to queue requests and to stop them.        *)
LEMMA HandlerFrame ==
  ASSUME EventHandler
  PROVE  UNCHANGED <<poll, counter, boot, listed, expired, restart, swi, rtc, due, cycle>>
<1>1. CASE Untimed
  BY <1>1 DEF Untimed, OnAdvNus, OnAdvOther, OnConnected, OnDiscMore, OnDiscAbsent,
     OnDiscFound, OnHvx, OnRequest, OnGattTimeout, Take, timerVars
<1>2. CASE Settle
  BY <1>2 DEF Settle, StartPolling, StartTimer, timerVars
<1>3. CASE OnDisconnected
  BY <1>3 DEF OnDisconnected, Take, EndSession, NoSession, timerVars
<1> QED
  BY <1>1, <1>2, <1>3 DEF EventHandler, Untimed

LEMMA SoftDeviceFrame ==
  ASSUME SoftDevice
  PROVE  UNCHANGED <<appVars, timerVars>>
BY DEF SoftDevice, Advertise, Establish, Answer, Subscribed, Notify, PeerRequest,
   GattTimeout, LinkDown, Post

LEMMA TurnStep ==
  ASSUME TypeOK, TurnInv, [Next]_vars
  PROVE  TurnInv'
<1> USE DEF TurnInv
<1>1. CASE SoftDevice
  BY <1>1, SoftDeviceFrame DEF appVars, timerVars
<1>2. CASE EventHandler
  BY <1>2, HandlerFrame
<1>3. CASE BootScan \/ BootIndicate
  BY <1>3 DEF BootScan, BootIndicate, timerVars
<1>4. CASE RtcStart \/ SkipTimer \/ RtcReturn
  BY <1>4 DEF RtcStart, SkipTimer, RtcReturn, RtcExpire, RtcSkip, RtcEnd, Visiting, linkVars
<1>5. CASE LedsFire
  BY <1>5 DEF LedsFire, RtcClear, linkVars
<1>6. CASE PollFire
  BY <1>6 DEF PollFire, RtcClear, linkOnly
<1>7. CASE PollCheck \/ \E sent \in BOOLEAN : PollSend(sent)
  BY <1>7 DEF PollCheck, PollSend, timerVars
<1>8. CASE SwiStep
  BY <1>8 DEF SwiStep, SwiDelete, SwiRestart, SwiPop, SwiEnd, Insert, linkVars, TypeOK, TimerTypeOK
<1>9. CASE UNCHANGED vars
  BY <1>9 DEF vars, linkVars, timerVars
<1> QED
  BY <1>1, <1>2, <1>3, <1>4, <1>5, <1>6, <1>7, <1>8, <1>9 DEF Next, Handlers

-----------------------------------------------------------------------------
(***************************************************************************)
(* The SoftDevice's queue, the link and what the handlers recorded.        *)
(***************************************************************************)
LEMMA PostFacts ==
  ASSUME TypeOK, NEW e \in Events, Post(e)
  PROVE  /\ Len(evq) \in Nat
         /\ Len(evq') = Len(evq) + 1
         /\ \A i \in 1..Len(evq) : evq'[i] = evq[i]
         /\ evq'[Len(evq) + 1] = e
         /\ evq' # <<>>
         /\ evq = <<>> <=> Len(evq) = 0
         /\ UNCHANGED appVars
<1>1. evq \in Seq(Events) /\ evq' = Append(evq, e)
  BY DEF TypeOK, LinkTypeOK, Post
<1> QED
  BY <1>1, AppendFacts DEF Post

LEMMA TakeFacts ==
  ASSUME TypeOK, NEW e, Take(e)
  PROVE  /\ Len(evq) \in Nat \ {0}
         /\ evq[1] = e
         /\ Len(evq') = Len(evq) - 1
         /\ \A i \in 1..(Len(evq) - 1) : evq'[i] = evq[i + 1]
         /\ evq' = <<>> <=> Len(evq) = 1
         /\ sdh = "idle" /\ boot' = boot /\ poll' = poll
<1>1. evq \in Seq(Events) /\ evq # <<>> /\ evq' = Tail(evq) /\ Head(evq) = e
  BY DEF TypeOK, LinkTypeOK, Take
<1>2. /\ evq' \in Seq(Events) /\ Len(evq) \in Nat \ {0}
      /\ Len(evq') = Len(evq) - 1
      /\ \A i \in 1..(Len(evq) - 1) : evq'[i] = evq[i + 1]
      /\ evq[1] = e
  BY <1>1, TailFacts
<1>3. evq' = <<>> <=> Len(evq') = 0
  BY <1>2
<1>4. sdh = "idle" /\ boot' = boot /\ poll' = poll
  BY DEF Take
<1> QED
  BY <1>2, <1>3, <1>4

LEMMA EventInit ==
  ASSUME Init
  PROVE  EventInv
BY DEF Init, EventInv, BootInv, SearchInv, DisconnectedInv, ConnectedInv, IdleInv, NusInv,
   SendInv, Fresh, PollIdle

(* Posting the event e takes the link to the state l. *)
LEMMA EventSoftDevice ==
  ASSUME TypeOK, EventInv, TurnInv, SoftDevice
  PROVE  EventInv'
<1> USE DEF EventInv, Fresh
<1>1. CASE Subscribed
  BY <1>1 DEF Subscribed, BootInv, SearchInv, DisconnectedInv, ConnectedInv, IdleInv, NusInv,
     SendInv, appVars
<1>2. ASSUME NEW e \in Adverts, Advertise(e)
      PROVE  EventInv'
  <2>1. e \in Events /\ e \notin {"connected", "disconnected"}
    BY <1>2 DEF Events, Adverts
  <2>2. Post(e) /\ link = "scanning" /\ link' = link /\ known' = known
    BY <1>2 DEF Advertise
  <2>3. UNCHANGED appVars /\ Len(evq) \in Nat /\ Len(evq') = Len(evq) + 1
    BY <2>1, <2>2, PostFacts
  <2>4. BootInv' /\ SearchInv'
    BY <2>1, <2>2, <2>3, PostFacts
       DEF BootInv, SearchInv, appVars
  <2>5. DisconnectedInv' /\ IdleInv'
    BY <2>1, <2>2, <2>3, PostFacts
       DEF BootInv, SearchInv, DisconnectedInv, IdleInv, appVars
  <2>6. ConnectedInv'
    BY <2>1, <2>2, <2>3, PostFacts
       DEF BootInv, SearchInv, DisconnectedInv, ConnectedInv, IdleInv, appVars
  <2>7. NusInv' /\ SendInv'
    BY <2>1, <2>2, <2>3, PostFacts
       DEF SearchInv, NusInv, SendInv, appVars
  <2> QED
    BY <2>4, <2>5, <2>6, <2>7
<1>3. CASE Establish
  <2>1. "connected" \in Events /\ "connected" \notin Adverts
    BY DEF Events, Adverts
  <2>2. Post("connected") /\ link = "connecting" /\ link' = "connected" /\ ~known'
    BY <1>3 DEF Establish
  <2>3. poll.pc # "send"
    BY <1>3 DEF Establish, Prompt, TurnInv
  <2>4. UNCHANGED appVars /\ Len(evq) \in Nat /\ Len(evq') = Len(evq) + 1
    BY <2>1, <2>2, <2>3, PostFacts
  <2>5. BootInv' /\ SearchInv'
    BY <2>1, <2>2, <2>3, <2>4, PostFacts
       DEF BootInv, SearchInv, appVars
  <2>6. DisconnectedInv' /\ IdleInv'
    BY <2>1, <2>2, <2>3, <2>4, PostFacts
       DEF BootInv, SearchInv, DisconnectedInv, IdleInv, appVars
  <2>7. ConnectedInv'
    BY <2>1, <2>2, <2>3, <2>4, PostFacts
       DEF BootInv, SearchInv, DisconnectedInv, ConnectedInv, IdleInv, appVars
  <2>8. NusInv' /\ SendInv'
    BY <2>1, <2>2, <2>3, <2>4, PostFacts
       DEF SearchInv, NusInv, SendInv, appVars
  <2> QED
    BY <2>5, <2>6, <2>7, <2>8
<1>4. ASSUME NEW e \in GattEvents, Post(e), link = "connected", link' = link, known' = known
      PROVE  EventInv'
  <2>1. e \in Events /\ e \notin {"connected", "disconnected"}
    BY <1>4 DEF Events, GattEvents, Answers, Found
  <2>2. UNCHANGED appVars /\ Len(evq) \in Nat /\ Len(evq') = Len(evq) + 1
    BY <1>4, <2>1, PostFacts
  <2>3. BootInv' /\ SearchInv'
    BY <1>4, <2>1, <2>2, PostFacts
       DEF BootInv, SearchInv, appVars
  <2>4. DisconnectedInv' /\ IdleInv'
    BY <1>4, <2>1, <2>2, PostFacts
       DEF BootInv, SearchInv, DisconnectedInv, IdleInv, appVars
  <2>5. ConnectedInv'
    BY <1>4, <2>1, <2>2, PostFacts
       DEF BootInv, SearchInv, DisconnectedInv, ConnectedInv, IdleInv, appVars
  <2>6. NusInv' /\ SendInv'
    BY <1>4, <2>1, <2>2, PostFacts
       DEF SearchInv, NusInv, SendInv, appVars
  <2> QED
    BY <2>3, <2>4, <2>5, <2>6
<1>5. CASE LinkDown
  <2>1. "disconnected" \in Events /\ "disconnected" \notin Adverts
    BY DEF Events, Adverts
  <2>2. Post("disconnected") /\ link \in {"connected", "closing"} /\ link' = "idle"
    BY <1>5 DEF LinkDown
  <2>3. UNCHANGED appVars /\ Len(evq) \in Nat /\ Len(evq') = Len(evq) + 1
    BY <2>1, <2>2, PostFacts
  <2>4. BootInv' /\ SearchInv'
    BY <2>1, <2>2, <2>3, PostFacts
       DEF BootInv, SearchInv, appVars
  <2>5. DisconnectedInv' /\ IdleInv'
    BY <2>1, <2>2, <2>3, PostFacts
       DEF BootInv, SearchInv, DisconnectedInv, IdleInv, appVars
  <2>6. ConnectedInv'
    BY <2>1, <2>2, <2>3, PostFacts
       DEF BootInv, SearchInv, DisconnectedInv, ConnectedInv, IdleInv, appVars
  <2>7. NusInv' /\ SendInv'
    BY <2>1, <2>2, <2>3, PostFacts
       DEF SearchInv, NusInv, SendInv, appVars
  <2> QED
    BY <2>4, <2>5, <2>6, <2>7
<1> QED
  BY <1>1, <1>2, <1>3, <1>4, <1>5 DEF SoftDevice, Answer, Notify, PeerRequest, GattTimeout,
     GattEvents

(* Boot: the first scan starts from a SoftDevice with nothing to report. *)
LEMMA EventBoot ==
  ASSUME TypeOK, EventInv, BootScan \/ BootIndicate
  PROVE  EventInv'
<1> USE DEF EventInv, Fresh, BootInv, SearchInv, DisconnectedInv, ConnectedInv, IdleInv, NusInv,
     SendInv
<1>1. CASE BootScan
  BY <1>1 DEF BootScan, TypeOK, LinkTypeOK
<1>2. CASE BootIndicate
  BY <1>2 DEF BootIndicate
<1> QED
  BY <1>1, <1>2

(* What is left of the queue when an event other than the last is taken. *)
Rest(e) ==
  /\ boot' # "scan" /\ sdh = "idle" /\ poll' = poll
  /\ \A i \in 1..Len(evq') :
       evq'[i] = "disconnected" => i = Len(evq') /\ link = "idle"
  /\ link \in {"scanning", "connecting"} =>
       e \in Adverts /\ \A i \in 1..Len(evq') : evq'[i] \in Adverts
  /\ \A i \in 1..Len(evq') : evq'[i] = "connected" =>
       /\ e \in Adverts /\ Fresh
       /\ \A j \in 1..(i - 1) : evq'[j] \in Adverts
       /\ \A j \in (i + 1)..Len(evq') : evq'[j] # "connected"
  /\ e = "connected" => Fresh /\ \A i \in 1..Len(evq') : evq'[i] # "connected"
  /\ link = "idle" => evq' # <<>> /\ evq'[Len(evq')] = "disconnected"

LEMMA TakeOrder ==
  ASSUME TypeOK, EventInv, NEW e, Take(e), e # "disconnected"
  PROVE  Rest(e)
<1>1. /\ Len(evq) \in Nat \ {0}
      /\ evq[1] = e
      /\ Len(evq') = Len(evq) - 1
      /\ \A i \in 1..Len(evq') : i + 1 \in 1..Len(evq) /\ evq'[i] = evq[i + 1]
      /\ evq' = <<>> <=> Len(evq) = 1
      /\ sdh = "idle" /\ boot' = boot /\ poll' = poll
  BY TakeFacts
<1>2. evq # <<>>
  BY DEF Take
<1>3. boot' # "scan"
  BY <1>1, <1>2 DEF EventInv, BootInv
<1>4. \A i \in 1..Len(evq') :
        evq'[i] = "disconnected" => i = Len(evq') /\ link = "idle"
  BY <1>1 DEF EventInv, DisconnectedInv
<1>5. link \in {"scanning", "connecting"} =>
        e \in Adverts /\ \A i \in 1..Len(evq') : evq'[i] \in Adverts
  BY <1>1 DEF EventInv, SearchInv
<1>6. ASSUME NEW i \in 1..Len(evq'), evq'[i] = "connected"
      PROVE  /\ e \in Adverts /\ Fresh
             /\ \A j \in 1..(i - 1) : evq'[j] \in Adverts
             /\ \A j \in (i + 1)..Len(evq') : evq'[j] # "connected"
  <2>1. i + 1 \in 1..Len(evq) /\ evq[i + 1] = "connected"
    BY <1>1, <1>6
  <2>2. /\ Fresh
        /\ \A j \in 1..i : evq[j] \in Adverts
        /\ \A j \in (i + 2)..Len(evq) : evq[j] # "connected"
    BY <2>1 DEF EventInv, ConnectedInv
  <2> QED
    BY <1>1, <2>2
<1>7. e = "connected" => Fresh /\ \A i \in 1..Len(evq') : evq'[i] # "connected"
  BY <1>1 DEF EventInv, ConnectedInv
<1>8. link = "idle" => evq' # <<>> /\ evq'[Len(evq')] = "disconnected"
  BY <1>1, <1>2 DEF EventInv, IdleInv
<1> QED
  BY <1>1, <1>3, <1>4, <1>5, <1>6, <1>7, <1>8 DEF Rest

(* An event that is neither the first nor the last of its link. *)
LEMMA EventUntimed ==
  ASSUME TypeOK, EventInv, Untimed
  PROVE  EventInv'
<1>1. CASE OnAdvNus \/ OnAdvOther
  <2>1. PICK e \in Adverts : Take(e)
    BY <1>1 DEF OnAdvNus, OnAdvOther, Adverts
  <2>2. Rest(e)
    BY <2>1, TakeOrder DEF Adverts
  <2>3. UNCHANGED <<sdh, discovering, nusConn, connected, known>>
    BY <1>1 DEF OnAdvNus, OnAdvOther
  <2>4. link' = link \/ (link = "scanning" /\ link' = "connecting")
    BY <1>1 DEF OnAdvNus, OnAdvOther
  <2> QED
    BY <2>2, <2>3, <2>4 DEF EventInv, Fresh, BootInv, SearchInv, DisconnectedInv, ConnectedInv,
       IdleInv, NusInv, SendInv, Rest
<1>2. CASE OnConnected
  <2>1. Rest("connected")
    BY <1>2, TakeOrder DEF OnConnected
  <2>2. UNCHANGED <<sdh, nusConn, connected, known, link>>
    BY <1>2 DEF OnConnected
  <2>3. "connected" \notin Adverts
    BY DEF Adverts
  <2> QED
    BY <2>1, <2>2, <2>3 DEF EventInv, Fresh, BootInv, SearchInv, DisconnectedInv, ConnectedInv,
       IdleInv, NusInv, SendInv, Rest
<1>3. CASE OnDiscMore \/ OnDiscAbsent \/ OnHvx \/ OnRequest \/ OnGattTimeout
  <2>1. PICK e \in GattEvents : Take(e)
    BY <1>3 DEF OnDiscMore, OnDiscAbsent, OnHvx, OnRequest, OnGattTimeout, GattEvents, Answers
  <2>2. e \notin Adverts /\ e # "disconnected"
    BY <2>1 DEF Adverts, GattEvents, Answers, Found
  <2>3. Rest(e)
    BY <2>1, <2>2, TakeOrder
  <2>4. /\ UNCHANGED <<sdh, nusConn, connected, known>>
        /\ link' = link \/ (link = "connected" /\ link' = "closing")
    BY <1>3 DEF OnDiscMore, OnDiscAbsent, OnHvx, OnRequest, OnGattTimeout
  <2>5. discovering' => discovering
    BY <1>3 DEF OnDiscMore, OnDiscAbsent, OnHvx, OnRequest, OnGattTimeout, TypeOK, HandlerTypeOK
  <2> QED
    BY <2>2, <2>3, <2>4, <2>5 DEF EventInv, Fresh, BootInv, SearchInv, DisconnectedInv,
       ConnectedInv, IdleInv, NusInv, SendInv, Rest
<1>4. ASSUME NEW e \in Found, OnDiscFound(e)
      PROVE  EventInv'
  <2>1. e \notin Adverts /\ e # "disconnected"
    BY <1>4 DEF Adverts, Found
  <2>2. Rest(e)
    BY <1>4, <2>1, TakeOrder DEF OnDiscFound
  <2>3. /\ nusConn' /\ sdh' = "settle" /\ known' = (link # "idle")
        /\ UNCHANGED <<link, discovering, connected>>
    BY <1>4 DEF OnDiscFound
  <2> QED
    BY <2>1, <2>2, <2>3 DEF EventInv, Fresh, BootInv, SearchInv, DisconnectedInv, ConnectedInv,
       IdleInv, NusInv, SendInv, Rest
<1> QED
  BY <1>1, <1>2, <1>3, <1>4 DEF Untimed

(* The end of the delay, and the end of the link. *)
LEMMA EventEnd ==
  ASSUME TypeOK, EventInv, Settle \/ OnDisconnected
  PROVE  EventInv'
<1> USE DEF EventInv, Fresh
<1>1. CASE Settle
  <2>1. /\ sdh = "settle" /\ sdh' = "idle"
        /\ connected' => connected \/ NotifEnabled
        /\ discovering' => discovering
        /\ UNCHANGED <<link, evq, boot, nusConn, poll, known>>
    BY <1>1 DEF Settle, StartPolling, TypeOK, HandlerTypeOK
  <2> QED
    BY <2>1 DEF BootInv, SearchInv, DisconnectedInv, ConnectedInv, IdleInv, NusInv, SendInv,
       NotifEnabled
<1>2. CASE OnDisconnected
  <2>1. /\ Take("disconnected")
        /\ ~discovering' /\ ~nusConn' /\ UNCHANGED <<sdh, known>>
    BY <1>2 DEF OnDisconnected
  <2>2. evq' = <<>> /\ Len(evq') = 0 /\ link = "idle" /\ boot # "scan"
    BY <2>1, TakeFacts DEF DisconnectedInv, BootInv
  <2>3. ~connected'
    BY <1>2 DEF OnDisconnected, EndSession, NoSession, NusInv
  <2>4. link' \in {"idle", "scanning"}
    BY <1>2, <2>2 DEF OnDisconnected, EndSession, ScanStart, NoSession
  <2> QED
    BY <2>1, <2>2, <2>3, <2>4, TakeFacts DEF BootInv, SearchInv, DisconnectedInv, ConnectedInv,
       IdleInv, NusInv, SendInv
<1> QED
  BY <1>1, <1>2

(* The polling handler takes the session's word for the link. *)
LEMMA EventInterrupts ==
  ASSUME TypeOK, EventInv, RtcStart \/ Handlers
  PROVE  EventInv'
<1> USE DEF EventInv, Fresh, BootInv, SearchInv, DisconnectedInv, ConnectedInv, IdleInv, NusInv,
     SendInv
<1>1. CASE UNCHANGED linkVars
  BY <1>1 DEF linkVars
<1>2. CASE PollFire
  BY <1>2 DEF PollFire, linkOnly
<1>3. CASE PollCheck
  <2>1. connected /\ evq = <<>> => nusConn /\ known
    BY DEF TypeOK
  <2>2. UNCHANGED linkOnly /\ evq = <<>>
    BY <1>3 DEF PollCheck, Quiet
  <2>3. poll'.pc = "send" => connected
    BY <1>3 DEF PollCheck, PollAdvance, NextRegister, PollIdle
  <2> QED
    BY <2>1, <2>2, <2>3 DEF linkOnly
<1>4. ASSUME NEW sent \in BOOLEAN, PollSend(sent)
      PROVE  EventInv'
  <2>1. poll.pc = "send" /\ UNCHANGED linkOnly
    BY <1>4 DEF PollSend
  <2> QED
    BY <2>1 DEF linkOnly
<1> QED
  BY <1>1, <1>2, <1>3, <1>4 DEF Handlers, RtcStart, SkipTimer, LedsFire, RtcReturn, SwiStep

LEMMA EventStep ==
  ASSUME TypeOK, EventInv, TurnInv, [Next]_vars
  PROVE  EventInv'
<1>1. CASE UNCHANGED vars
  BY <1>1 DEF vars, linkVars, EventInv, Fresh, BootInv, SearchInv, DisconnectedInv,
     ConnectedInv, IdleInv, NusInv, SendInv
<1> QED
  BY <1>1, EventSoftDevice, EventUntimed, EventEnd, EventBoot, EventInterrupts
     DEF Next, EventHandler, Untimed

-----------------------------------------------------------------------------
(***************************************************************************)
(* The ring of timer requests and the list.                                *)
(***************************************************************************)
(* Nothing but SWI0 takes a request out of the ring, and what others add   *)
(* is one of four kinds of suffix.                                         *)
Requested ==
  \/ opq' = opq
  \/ opq' = Start(opq, "poll") \/ opq' = Start(opq, "leds")
  \/ opq' = Stop(opq, "poll") \/ opq' = Start(Stop(opq, "poll"), "leds")

LEMMA RequestFrame ==
  ASSUME SoftDevice \/ EventHandler \/ BootScan \/ BootIndicate \/ RtcStart \/ SkipTimer
         \/ LedsFire \/ PollFire \/ RtcReturn \/ PollCheck \/ (\E sent \in BOOLEAN : PollSend(sent))
  PROVE  /\ UNCHANGED <<listed, swi, restart, cycle>>
         /\ running' \subseteq running
         /\ Requested
         /\ swiPend => swiPend'
         /\ opq' # opq => swiPend'
<1> USE DEF Requested
<1>1. CASE SoftDevice
  BY <1>1, SoftDeviceFrame DEF timerVars
<1>2. CASE Untimed
  BY <1>2 DEF Untimed, OnAdvNus, OnAdvOther, OnConnected, OnDiscMore, OnDiscAbsent,
     OnDiscFound, OnHvx, OnRequest, OnGattTimeout, timerVars
<1>3. CASE Settle
  BY <1>3 DEF Settle, StartPolling, StartTimer, timerVars
<1>4. CASE OnDisconnected
  <2>1. CASE NoSession
    BY <2>1 DEF NoSession, timerVars
  <2>2. CASE EndSession
    <3>1. /\ UNCHANGED <<listed, swi, restart, cycle>>
          /\ running' \subseteq running
      BY <2>2 DEF EndSession
    <3>2. CASE HasRoom(opq, 1)
      <4>1. swiPend'
        BY <2>2, <3>2 DEF EndSession
      <4> QED
        BY <2>2, <3>1, <3>2, <4>1 DEF EndSession, ScanStart, IndicateScanning
    <3>3. CASE ~HasRoom(opq, 1)
      BY <2>2, <3>1, <3>3 DEF EndSession
    <3> QED
      BY <3>2, <3>3
  <2> QED
    BY <1>4, <2>1, <2>2 DEF OnDisconnected
<1>5. CASE BootScan \/ BootIndicate
  <2>1. CASE BootScan
    BY <2>1 DEF BootScan, timerVars
  <2>2. CASE BootIndicate
    <3>1. /\ UNCHANGED <<listed, swi, restart, cycle, running>>
          /\ swiPend' = (swiPend \/ HasRoom(opq, 1))
      BY <2>2 DEF BootIndicate
    <3>2. CASE HasRoom(opq, 1)
      <4>1. swiPend'
        BY <3>1, <3>2
      <4> QED
        BY <2>2, <3>1, <3>2, <4>1 DEF BootIndicate, IndicateScanning
    <3>3. CASE ~HasRoom(opq, 1)
      BY <2>2, <3>1, <3>3 DEF BootIndicate, IndicateScanning
    <3> QED
      BY <3>2, <3>3
  <2> QED
    BY <1>5, <2>1, <2>2
<1>6. CASE RtcStart \/ SkipTimer \/ RtcReturn
  BY <1>6 DEF RtcStart, SkipTimer, RtcReturn, RtcExpire, RtcSkip, RtcEnd
<1>7. CASE LedsFire
  BY <1>7 DEF LedsFire, RtcClear
<1>8. CASE PollFire \/ PollCheck \/ \E sent \in BOOLEAN : PollSend(sent)
  BY <1>8 DEF PollFire, PollCheck, PollSend, RtcClear, timerVars
<1> QED
  BY <1>1, <1>2, <1>3, <1>4, <1>5, <1>6, <1>7, <1>8 DEF EventHandler, Untimed

(* The request that is accepted while a session lasts, or begins one. *)
NoStop == opq' = opq \/ opq' = Start(opq, "poll") \/ opq' = Start(opq, "leds")

(* Who stops the polling timer ends the session and silences it at once. *)
LEMMA StopFrame ==
  ASSUME TypeOK,
         SoftDevice \/ EventHandler \/ BootScan \/ BootIndicate \/ RtcStart \/ SkipTimer
         \/ LedsFire \/ PollFire \/ RtcReturn \/ PollCheck \/ (\E sent \in BOOLEAN : PollSend(sent))
  PROVE  /\ NoStop \/ "poll" \notin running'
         /\ connected' /\ halted' = "no" =>
              halted = "no" /\ (opq' = Start(opq, "poll") \/ (connected /\ NoStop))
         /\ expired \cap running \subseteq due => expired' \cap running' \subseteq due'
<1> USE DEF NoStop
<1>1. CASE SoftDevice
  BY <1>1, SoftDeviceFrame DEF appVars, timerVars
<1>2. CASE Untimed
  <2>1. UNCHANGED <<connected, timerVars>>
    BY <1>2 DEF Untimed, OnAdvNus, OnAdvOther, OnConnected, OnDiscMore, OnDiscAbsent,
       OnDiscFound, OnHvx, OnRequest, OnGattTimeout
  <2>2. halted' = "no" => halted = "no"
    BY <1>2 DEF Untimed, OnAdvNus, OnAdvOther, OnConnected, OnDiscMore, OnDiscAbsent,
       OnDiscFound, OnHvx, OnRequest, OnGattTimeout
  <2> QED
    BY <2>1, <2>2 DEF timerVars
<1>3. CASE Settle
  <2>1. UNCHANGED <<running, expired, due>>
    BY <1>3 DEF Settle, StartPolling, StartTimer, timerVars
  <2>2. halted = "no" /\ NoStop
    BY <1>3 DEF Settle, StartPolling, StartTimer, timerVars, Up
  <2>3. halted' = "no" => opq' = Start(opq, "poll")
    BY <1>3 DEF Settle, StartPolling, StartTimer
  <2> QED
    BY <2>1, <2>2, <2>3
<1>4. CASE OnDisconnected
  <2>1. CASE NoSession
    BY <1>4, <2>1 DEF NoSession, timerVars
  <2>2. CASE EndSession
    BY <2>2 DEF EndSession
  <2> QED
    BY <1>4, <2>1, <2>2 DEF OnDisconnected
<1>5. CASE BootScan
  BY <1>5 DEF BootScan, timerVars
<1>6. CASE BootIndicate
  BY <1>6 DEF BootIndicate, IndicateScanning
<1>7. CASE RtcStart \/ SkipTimer \/ RtcReturn
  BY <1>7 DEF RtcStart, SkipTimer, RtcReturn, RtcExpire, RtcSkip, RtcEnd, linkVars
<1>8. CASE LedsFire
  BY <1>8 DEF LedsFire, RtcClear, linkVars
<1>9. CASE PollFire \/ PollCheck \/ \E sent \in BOOLEAN : PollSend(sent)
  BY <1>9 DEF PollFire, PollCheck, PollSend, RtcClear, timerVars, linkOnly
<1> QED
  BY <1>1, <1>2, <1>3, <1>4, <1>5, <1>6, <1>7, <1>8, <1>9 DEF EventHandler, Untimed

(* What the four suffixes do to the ring. *)
LEMMA RequestFacts ==
  ASSUME TypeOK, Requested
  PROVE  /\ Len(opq) \in Nat /\ Len(opq') \in Nat /\ Len(opq') >= Len(opq)
         /\ \A i \in 1..Len(opq) : opq'[i] = opq[i]
         /\ \A i \in (Len(opq) + 1)..Len(opq') :
              opq'[i].op = "stop" => opq'[i] = PollStop
<1>1. opq \in Seq(Ops)
  BY DEF TypeOK, TimerTypeOK
<1>2. /\ [op |-> "start", timer |-> "poll"] \in Ops /\ [op |-> "stop", timer |-> "poll"] \in Ops
      /\ [op |-> "start", timer |-> "leds"] \in Ops
  BY LinkAssumption DEF Ops
<1>3. CASE opq' = opq
  BY <1>1, <1>3
<1>4. CASE opq' = Start(opq, "poll") \/ opq' = Start(opq, "leds") \/ opq' = Stop(opq, "poll")
  BY <1>1, <1>2, <1>4, AppendFacts DEF Start, Stop, PollStop
<1>5. CASE opq' = Start(Stop(opq, "poll"), "leds")
  <2> DEFINE q == Stop(opq, "poll")
  <2>1. /\ q \in Seq(Ops) /\ Len(q) = Len(opq) + 1
        /\ \A i \in 1..Len(opq) : q[i] = opq[i]
        /\ q[Len(opq) + 1] = PollStop
    BY <1>1, <1>2, AppendFacts DEF Stop, PollStop
  <2>2. opq' = Append(q, [op |-> "start", timer |-> "leds"])
    BY <1>5 DEF Start
  <2> HIDE DEF q
  <2>3. /\ Len(opq') = Len(q) + 1
        /\ \A i \in 1..Len(q) : opq'[i] = q[i]
        /\ opq'[Len(q) + 1] = [op |-> "start", timer |-> "leds"]
    BY <1>2, <2>1, <2>2, AppendFacts
  <2> QED
    BY <1>1, <2>1, <2>3
<1> QED
  BY <1>3, <1>4, <1>5 DEF Requested

LEMMA NoStopFacts ==
  ASSUME TypeOK, NoStop
  PROVE  /\ \A i \in (Len(opq) + 1)..Len(opq') : opq'[i].op = "start"
         /\ opq' = Start(opq, "poll") =>
              Len(opq') = Len(opq) + 1 /\ opq'[Len(opq')] = PollStart
<1>1. opq \in Seq(Ops) /\ PollStart \in Ops /\ [op |-> "start", timer |-> "leds"] \in Ops
  BY LinkAssumption DEF TypeOK, TimerTypeOK, Ops, PollStart
<1>2. CASE opq' = opq
  BY <1>1, <1>2, AppendFacts DEF Start, PollStart
<1>3. CASE opq' = Start(opq, "poll") \/ opq' = Start(opq, "leds")
  BY <1>1, <1>3, AppendFacts DEF Start, PollStart
<1> QED
  BY <1>2, <1>3 DEF NoStop

LEMMA OpForm ==
  ASSUME NEW o \in Ops
  PROVE  o = [op |-> o.op, timer |-> o.timer]
BY DEF Ops

(* Everything but SWI0: requests arrive. *)
LEMMA TimerOutside ==
  ASSUME TypeOK, RunningInv, StopInv, RestartInv, NoRequestStranded, PollingArmed,
         SoftDevice \/ EventHandler \/ BootScan \/ BootIndicate \/ RtcStart \/ SkipTimer
         \/ LedsFire \/ PollFire \/ RtcReturn \/ PollCheck \/ (\E sent \in BOOLEAN : PollSend(sent))
  PROVE  (RunningInv /\ StopInv /\ RestartInv /\ NoRequestStranded /\ PollingArmed)'
<1>1. /\ UNCHANGED <<listed, swi, restart, cycle>>
      /\ running' \subseteq running
      /\ Requested
      /\ swiPend => swiPend'
      /\ opq' # opq => swiPend'
  BY RequestFrame
<1>2. /\ NoStop \/ "poll" \notin running'
      /\ connected' /\ halted' = "no" =>
           halted = "no" /\ (opq' = Start(opq, "poll") \/ (connected /\ NoStop))
      /\ expired \cap running \subseteq due => expired' \cap running' \subseteq due'
  BY StopFrame
<1>3. /\ Len(opq) \in Nat /\ Len(opq') \in Nat /\ Len(opq') >= Len(opq)
      /\ \A i \in 1..Len(opq) : opq'[i] = opq[i]
      /\ \A i \in (Len(opq) + 1)..Len(opq') :
           opq'[i].op = "stop" => opq'[i] = PollStop
  BY <1>1, RequestFacts
<1>4. /\ NoStop => \A i \in (Len(opq) + 1)..Len(opq') : opq'[i].op = "start"
      /\ opq' = Start(opq, "poll") =>
           Len(opq') = Len(opq) + 1 /\ opq'[Len(opq')] = PollStart
  BY NoStopFacts DEF NoStop
<1>5. RunningInv'
  BY <1>1, <1>2 DEF RunningInv
<1>6. StopInv'
  <2>1. SUFFICES ASSUME swi' = "idle", NEW i \in 1..Len(opq'), opq'[i].op = "stop"
                 PROVE  opq'[i].timer \notin running'
    BY DEF StopInv
  <2>2. CASE i \in 1..Len(opq)
    BY <1>1, <1>3, <2>1, <2>2 DEF StopInv
  <2>3. CASE i \in (Len(opq) + 1)..Len(opq')
    BY <1>2, <1>3, <1>4, <2>1, <2>3 DEF PollStop
  <2> QED
    BY <1>3, <2>2, <2>3
<1>7. RestartInv'
  <2>1. SUFFICES ASSUME connected', halted' = "no", NEW i \in 1..Len(opq'), opq'[i] = PollStop
                 PROVE  \E j \in (i + 1)..Len(opq') : opq'[j] = PollStart
    BY DEF RestartInv
  <2>2. NoStop /\ i \in 1..Len(opq)
    BY <1>2, <1>3, <1>4, <2>1 DEF NoStop, PollStop
  <2>3. CASE opq' = Start(opq, "poll")
    BY <1>3, <1>4, <2>2, <2>3
  <2>4. CASE connected /\ halted = "no"
    BY <1>3, <2>1, <2>2, <2>4 DEF RestartInv
  <2> QED
    BY <1>2, <2>1, <2>3, <2>4
<1>8. NoRequestStranded'
  BY <1>1 DEF NoRequestStranded
<1>9. PollingArmed'
  <2>1. SUFFICES ASSUME Up', connected'
                 PROVE  \/ "poll" \in listed' \cup restart'
                        \/ \E i \in DOMAIN opq' : opq'[i] = PollStart
    BY DEF PollingArmed, PollStart
  <2>2. opq \in Seq(Ops) /\ opq' \in Seq(Ops)
    <3>1. opq \in Seq(Ops)
      BY DEF TypeOK, TimerTypeOK
    <3>2. Start(opq, "poll") \in Seq(Ops) /\ Start(opq, "leds") \in Seq(Ops)
      BY <3>1, LinkAssumption, RequestTyped
    <3>3. Stop(opq, "poll") \in Seq(Ops)
      BY <3>1, LinkAssumption, RequestTyped
    <3>4. Start(Stop(opq, "poll"), "leds") \in Seq(Ops)
      BY <3>3, LinkAssumption, RequestTyped
    <3> QED
      BY <1>1, <3>1, <3>2, <3>3, <3>4 DEF Requested
  <2>3. DOMAIN opq = 1..Len(opq) /\ DOMAIN opq' = 1..Len(opq')
    BY <2>2
  <2>4. CASE opq' = Start(opq, "poll")
    BY <1>3, <1>4, <2>3, <2>4
  <2>5. CASE connected /\ halted = "no"
    BY <1>1, <1>3, <2>1, <2>3, <2>5 DEF PollingArmed, PollStart, Up
  <2> QED
    BY <1>2, <2>1, <2>4, <2>5 DEF Up
<1> QED
  BY <1>5, <1>6, <1>7, <1>8, <1>9

(* SWI0: the requests take effect. *)
LEMMA TimerInside ==
  ASSUME TypeOK, TurnInv, RunningInv, StopInv, RestartInv, NoRequestStranded, PollingArmed,
         SwiStep
  PROVE  (RunningInv /\ StopInv /\ RestartInv /\ NoRequestStranded /\ PollingArmed)'
<1>1. opq \in Seq(Ops) /\ DOMAIN opq = 1..Len(opq) /\ Len(opq) \in Nat
  BY DEF TypeOK, TimerTypeOK
<1>2. UNCHANGED <<connected, halted>>
  BY DEF SwiStep, linkVars
<1>3. CASE SwiDelete
  <2>1. \A t \in Stopped : t \notin running
    BY <1>1, <1>3 DEF Stopped, StopInv, SwiDelete
  <2>2. due = {} /\ expired \cap running = {}
    BY <1>3 DEF SwiDelete, TurnInv, RunningInv
  <2>3. RunningInv'
    BY <1>3, <2>1, <2>2 DEF SwiDelete, RunningInv
  <2>4. StopInv' /\ NoRequestStranded'
    BY <1>3 DEF SwiDelete, StopInv, NoRequestStranded
  <2>5. RestartInv'
    BY <1>2, <1>3 DEF SwiDelete, RestartInv
  <2>6. "poll" \in Stopped /\ connected /\ halted = "no" =>
          \E i \in DOMAIN opq : opq[i] = PollStart
    <3>1. SUFFICES ASSUME "poll" \in Stopped, connected, halted = "no"
                   PROVE  \E i \in DOMAIN opq : opq[i] = PollStart
      OBVIOUS
    <3>2. PICK i \in 1..Len(opq) : opq[i].op = "stop" /\ opq[i].timer = "poll"
      BY <1>1, <3>1 DEF Stopped
    <3>3. opq[i] = PollStop
      <4>1. opq[i] \in Ops
        BY <1>1, <3>2
      <4>2. opq[i] = [op |-> opq[i].op, timer |-> opq[i].timer]
        BY <4>1, OpForm
      <4> QED
        BY <3>2, <4>2 DEF PollStop
    <3>4. PICK j \in (i + 1)..Len(opq) : opq[j] = PollStart
      BY <3>1, <3>2, <3>3 DEF RestartInv
    <3> QED
      BY <1>1, <3>2, <3>4
  <2>7. PollingArmed'
    <3>1. restart = {} /\ "poll" \in Repeating
      BY <1>3, LinkAssumption DEF SwiDelete, TurnInv
    <3>2. "poll" \in listed \ Stopped => "poll" \in listed' \cup restart'
      BY <1>3, <3>1 DEF SwiDelete
    <3>3. UNCHANGED <<opq, cycle>>
      BY <1>3 DEF SwiDelete
    <3> QED
      BY <1>2, <2>6, <3>1, <3>2, <3>3 DEF PollingArmed, PollStart, Up
  <2> QED
    BY <2>3, <2>4, <2>5, <2>7
<1>4. CASE SwiRestart
  <2>1. UNCHANGED <<opq, expired, due, swi, swiPend>> /\ swi = "insert"
    BY <1>4 DEF SwiRestart
  <2> PICK t \in restart : Insert({t}) /\ restart' = restart \ {t}
    BY <1>4 DEF SwiRestart
  <2>2. /\ listed' = listed \cup {t} /\ running' = running \cup {t}
        /\ restart' = restart \ {t}
        /\ cycle' = (cycle \/ {t} \cap listed # {})
    BY DEF Insert
  <2>3. RunningInv' /\ StopInv' /\ RestartInv' /\ NoRequestStranded'
    BY <1>2, <2>1, <2>2 DEF RunningInv, StopInv, RestartInv, NoRequestStranded
  <2>4. PollingArmed'
    BY <1>2, <2>1, <2>2 DEF PollingArmed, Up
  <2> QED
    BY <2>3, <2>4
<1>5. CASE SwiPop
  <2> DEFINE T == IF Taken(Head(opq)) THEN {Head(opq).timer} ELSE {}
  <2>1. swi' = "insert" /\ opq # <<>> /\ opq' = Tail(opq) /\ swi = "insert"
    BY <1>5 DEF SwiPop
  <2>2. /\ listed' = listed \cup T /\ running' = running \cup T
        /\ cycle' = (cycle \/ T \cap listed # {})
        /\ restart' = restart
    BY <1>5 DEF SwiPop, Insert
  <2>3. /\ Len(opq) \in Nat \ {0} /\ Len(opq') = Len(opq) - 1
        /\ \A i \in 1..(Len(opq) - 1) : opq'[i] = opq[i + 1]
        /\ Head(opq) = opq[1]
        /\ DOMAIN opq' = 1..Len(opq')
    BY <1>1, <2>1, TailFacts
  <2>4. RunningInv' /\ StopInv' /\ NoRequestStranded'
    BY <2>1, <2>2 DEF RunningInv, StopInv, NoRequestStranded
  <2>5. RestartInv'
    <3>1. SUFFICES ASSUME connected, halted = "no", NEW i \in 1..Len(opq'), opq'[i] = PollStop
                   PROVE  \E j \in (i + 1)..Len(opq') : opq'[j] = PollStart
      BY <1>2 DEF RestartInv
    <3>2. i + 1 \in 1..Len(opq) /\ opq[i + 1] = PollStop
      BY <2>3, <3>1
    <3>3. PICK j \in (i + 2)..Len(opq) : opq[j] = PollStart
      BY <3>1, <3>2 DEF RestartInv
    <3>4. j - 1 \in (i + 1)..Len(opq') /\ opq'[j - 1] = opq[j]
      BY <2>3, <3>3
    <3> QED
      BY <3>3, <3>4
  <2>6. PollingArmed'
    <3>1. SUFFICES ASSUME Up', connected
                   PROVE  \/ "poll" \in listed' \cup restart'
                          \/ \E i \in DOMAIN opq' : opq'[i] = PollStart
      BY <1>2 DEF PollingArmed, PollStart
    <3>2. \/ "poll" \in listed \cup restart
          \/ \E i \in 1..Len(opq) : opq[i] = PollStart
      BY <1>1, <1>2, <2>2, <3>1 DEF PollingArmed, PollStart, Up
    <3>3. CASE "poll" \in listed \cup restart
      BY <2>2, <3>3
    <3>4. CASE opq[1] = PollStart
      <4>1. "poll" \in running \/ T = {"poll"}
        BY <2>3, <3>4 DEF Taken, PollStart
      <4> QED
        BY <2>2, <4>1 DEF RunningInv
    <3>5. CASE \E i \in 2..Len(opq) : opq[i] = PollStart
      <4>1. PICK i \in 2..Len(opq) : opq[i] = PollStart
        BY <3>5
      <4>2. i - 1 \in DOMAIN opq' /\ opq'[i - 1] = opq[i]
        BY <2>3, <4>1
      <4> QED
        BY <4>1, <4>2
    <3> QED
      BY <2>3, <3>2, <3>3, <3>4, <3>5
  <2> QED
    BY <2>4, <2>5, <2>6
<1>6. CASE SwiEnd
  <2>1. /\ opq = <<>> /\ Len(opq) = 0 /\ expired = {}
        /\ UNCHANGED <<opq, listed, running, expired, restart, due, cycle>>
    BY <1>6 DEF SwiEnd, TurnInv
  <2> QED
    BY <1>2, <2>1 DEF RunningInv, StopInv, RestartInv, NoRequestStranded, PollingArmed, Up
<1> QED
  BY <1>3, <1>4, <1>5, <1>6 DEF SwiStep

(* The two APP_ERROR_CHECKs that never fail, and the drawing. *)
LEMMA OutcomeStep ==
  ASSUME TypeOK, EventInv, ScanNeverRefused, DiscoveryNeverBusy, ScreenFollowsSession, [Next]_vars
  PROVE  (ScanNeverRefused /\ DiscoveryNeverBusy /\ ScreenFollowsSession)'
<1> USE DEF ScanNeverRefused, DiscoveryNeverBusy, ScreenFollowsSession
<1>1. CASE SoftDevice
  BY <1>1, SoftDeviceFrame DEF appVars, Drawing
<1>2. CASE BootScan \/ BootIndicate
  BY <1>2 DEF BootScan, BootIndicate, IndicateScanning, Drawing
<1>3. CASE OnAdvNus \/ OnAdvOther \/ OnDiscMore \/ OnDiscAbsent \/ OnRequest \/ OnGattTimeout
           \/ \E e \in Found : OnDiscFound(e)
  BY <1>3 DEF OnAdvNus, OnAdvOther, OnDiscMore, OnDiscAbsent, OnRequest, OnGattTimeout,
     OnDiscFound, Drawing
<1>4. CASE OnConnected
  <2>1. Take("connected") /\ UNCHANGED <<screen, connected>>
    BY <1>4 DEF OnConnected
  <2>2. ~discovering
    BY <2>1, TakeFacts DEF EventInv, ConnectedInv, Fresh
  <2> QED
    BY <1>4, <2>1, <2>2 DEF OnConnected, Drawing
<1>5. CASE OnHvx
  BY <1>5 DEF OnHvx, Drawing
<1>6. CASE Settle
  BY <1>6 DEF Settle, StartPolling, Drawing
<1>7. CASE OnDisconnected
  <2>1. link = "idle"
    BY <1>7, TakeFacts DEF OnDisconnected, EventInv, DisconnectedInv
  <2>2. CASE NoSession
    BY <2>2 DEF NoSession, Drawing
  <2>3. CASE EndSession
    BY <2>1, <2>3 DEF EndSession, ScanStart, IndicateScanning, Drawing
  <2> QED
    BY <1>7, <2>2, <2>3 DEF OnDisconnected
<1>8. CASE RtcStart \/ SkipTimer \/ RtcReturn \/ LedsFire \/ SwiStep
  BY <1>8 DEF RtcStart, SkipTimer, RtcReturn, LedsFire, SwiStep, linkVars, Drawing
<1>9. CASE PollFire \/ PollCheck \/ \E sent \in BOOLEAN : PollSend(sent)
  BY <1>9 DEF PollFire, PollCheck, PollSend, linkOnly, Drawing
<1>10. CASE UNCHANGED vars
  BY <1>10 DEF vars, linkVars, Drawing
<1> QED
  BY <1>1, <1>2, <1>3, <1>4, <1>5, <1>6, <1>7, <1>8, <1>9, <1>10
     DEF Next, EventHandler, Handlers

-----------------------------------------------------------------------------
LEMMA LinkInvInit ==
  ASSUME Init
  PROVE  LinkInv
<1>1. TypeOK
  BY TypeInit
<1>2. EventInv
  BY EventInit
<1>3. TimerInv
  BY DEF Init, TimerInit, TimerInv, TurnInv, RunningInv, StopInv, RestartInv, PollIdle
<1>4. OutcomeInv
  BY DEF Init, TimerInit, OutcomeInv, ScanNeverRefused, DiscoveryNeverBusy,
     ScreenFollowsSession, NoRequestStranded, PollingArmed, Drawing
<1> QED
  BY <1>1, <1>2, <1>3, <1>4 DEF LinkInv

LEMMA LinkInvStep ==
  ASSUME LinkInv, [Next]_vars
  PROVE  LinkInv'
<1> USE DEF LinkInv, TimerInv, OutcomeInv
<1>1. TypeOK' /\ TurnInv' /\ EventInv'
  BY TypeStep, TurnStep, EventStep
<1>2. (ScanNeverRefused /\ DiscoveryNeverBusy /\ ScreenFollowsSession)'
  BY OutcomeStep
<1>3. (RunningInv /\ StopInv /\ RestartInv /\ NoRequestStranded /\ PollingArmed)'
  <2>1. CASE UNCHANGED vars
    BY <2>1 DEF vars, linkVars, timerVars, RunningInv, StopInv, RestartInv, NoRequestStranded,
       PollingArmed, Up
  <2> QED
    BY <2>1, TimerOutside, TimerInside DEF Next, Handlers
<1> QED
  BY <1>1, <1>2, <1>3

LEMMA LinkInvariant == Spec => []LinkInv
  BY LinkInvInit, LinkInvStep, PTL DEF Spec

(* Whatever the timing of the link, scan_start finds the SoftDevice idle   *)
(* and ble_db_discovery_start finds no discovery in progress: the two      *)
(* APP_ERROR_CHECKs behind them never stop the firmware.                   *)
THEOREM ChecksThatHold == Spec => [](ScanNeverRefused /\ DiscoveryNeverBusy)
<1>1. LinkInv => ScanNeverRefused /\ DiscoveryNeverBusy
  BY DEF LinkInv, OutcomeInv
<1> QED
  BY <1>1, LinkInvariant, PTL

(* The connected flag vouches for a discovered link, or for one whose end  *)
(* is about to be handled, and the display follows the flag.               *)
THEOREM SessionIsBacked == Spec => [](SessionBacked /\ ScreenFollowsSession)
<1>1. LinkInv => SessionBacked /\ ScreenFollowsSession
  <2> SUFFICES ASSUME LinkInv, connected
               PROVE  SessionBacked
    BY DEF LinkInv, OutcomeInv, SessionBacked
  <2>1. nusConn /\ (link # "idle" => known)
    BY DEF LinkInv, EventInv, NusInv
  <2>2. evq \in Seq(Events) /\ DOMAIN evq = 1..Len(evq) /\ Len(evq) \in Nat
    BY DEF LinkInv, TypeOK, LinkTypeOK
  <2>3. CASE link = "idle"
    <3>1. evq # <<>> /\ evq[Len(evq)] = "disconnected"
      BY <2>3 DEF LinkInv, EventInv, IdleInv
    <3>2. Len(evq) \in DOMAIN evq
      BY <2>2, <3>1
    <3> QED
      BY <2>1, <2>3, <3>1, <3>2 DEF SessionBacked, Queued
  <2>4. CASE link # "idle"
    <3>1. link \in {"connected", "closing"}
      BY <2>4 DEF LinkInv, TypeOK, LinkTypeOK, EventInv, SearchInv, Fresh
    <3>2. ~Queued("disconnected")
      BY <2>2, <2>4 DEF LinkInv, EventInv, DisconnectedInv, Queued
    <3> QED
      BY <2>1, <2>4, <3>1, <3>2 DEF SessionBacked
  <2> QED
    BY <2>3, <2>4
<1> QED
  BY <1>1, LinkInvariant, PTL

(* A session never loses its polling timer: the start is in the ring or    *)
(* the node is in the list, and the ring is never left without SWI0.       *)
THEOREM SessionStaysArmed == Spec => [](PollingArmed /\ NoRequestStranded)
<1>1. LinkInv => PollingArmed /\ NoRequestStranded
  BY DEF LinkInv, OutcomeInv
<1> QED
  BY <1>1, LinkInvariant, PTL

(* The events the SoftDevice holds are those its link has left to handle,  *)
(* and the requests in app_timer's ring are those its list has to follow.  *)
THEOREM QueuesAreTrue == Spec => [](EventInv /\ TimerInv)
<1>1. LinkInv => EventInv /\ TimerInv
  BY DEF LinkInv
<1> QED
  BY <1>1, LinkInvariant, PTL

(* No request is sent over a link whose NUS has not been discovered.       *)
THEOREM RequestsReachKnownLinks == Spec => RequestsOnlyToKnownLink
<1>1. LinkInv => (PollSend(TRUE) => known)
  BY DEF LinkInv, EventInv, SendInv, PollSend
<1>2. LinkInv /\ [Next]_vars => [PollSend(TRUE) => known]_vars
  BY <1>1
<1> QED
  BY <1>2, LinkInvariant, PTL DEF Spec, RequestsOnlyToKnownLink

-----------------------------------------------------------------------------
(***************************************************************************)
(* What the link promises: it implements Session, and the status LED keeps *)
(* blinking while SCANNING is indicated.                                   *)
(***************************************************************************)
LEMMA SettledStep ==
  ASSUME TypeOK, EventInv, SettledInv, [Next]_vars
  PROVE  SettledInv'
<1> SUFFICES ASSUME Up', nusConn'
             PROVE  connected' \/ sdh' = "settle"
  BY DEF SettledInv
<1>1. CASE UNCHANGED <<halted, cycle, nusConn, connected, sdh>>
  BY <1>1 DEF SettledInv, Up
<1>2. CASE SoftDevice
  BY <1>1, <1>2, SoftDeviceFrame DEF appVars, timerVars
<1>3. CASE \E e \in Found : OnDiscFound(e)
  BY <1>3 DEF OnDiscFound
<1>4. CASE Untimed /\ ~\E e \in Found : OnDiscFound(e)
  <2>1. Up /\ UNCHANGED <<cycle, nusConn, connected, sdh>>
    BY <1>4 DEF Untimed, OnAdvNus, OnAdvOther, OnConnected, OnDiscMore, OnDiscAbsent,
       OnHvx, OnRequest, OnGattTimeout, timerVars, Take
  <2> QED
    BY <2>1 DEF SettledInv
<1>5. CASE Settle
  BY <1>5 DEF Settle, StartPolling, Up
<1>6. CASE OnDisconnected
  BY <1>6 DEF OnDisconnected
<1>7. CASE BootScan \/ BootIndicate
  BY <1>7 DEF BootScan, BootIndicate, ThreadRuns, Quiet, timerVars, SettledInv
<1>8. CASE RtcStart \/ Handlers
  <2>1. UNCHANGED <<nusConn, connected, sdh>>
    BY <1>8 DEF RtcStart, Handlers, SkipTimer, LedsFire, PollFire, RtcReturn, PollCheck, PollSend,
       SwiStep, linkOnly, linkVars
  <2>2. Up
    BY <1>8 DEF RtcStart, Handlers, SkipTimer, LedsFire, PollFire, RtcReturn, PollCheck, PollSend,
       SwiStep, Quiet, Visiting
  <2> QED
    BY <2>1, <2>2 DEF SettledInv
<1>9. CASE UNCHANGED vars
  BY <1>1, <1>9 DEF vars, linkVars, timerVars
<1> QED
  BY <1>2, <1>3, <1>4, <1>5, <1>6, <1>7, <1>8, <1>9 DEF Next, EventHandler, Untimed

-----------------------------------------------------------------------------
(* The phases, one implication each. *)
LEMMA PhaseFacts ==
  ASSUME LinkTypeOK
  PROVE  /\ ~Up => Phase = "halted"
         /\ Up /\ connected => Phase = "session"
         /\ Up /\ ~connected /\ boot = "scan" => Phase = "boot"
         /\ Up /\ ~connected /\ boot # "scan" =>
              /\ link = "scanning" => Phase = "searching"
              /\ link = "connecting" => Phase = "connecting"
              /\ link \in {"connected", "closing"} => Phase = "linked"
              /\ link = "idle" => Phase = "lost"
BY DEF Phase, LinkTypeOK

LEMMA PhaseAfter ==
  ASSUME LinkTypeOK'
  PROVE  /\ ~Up' => Phase' = "halted"
         /\ Up' /\ connected' => Phase' = "session"
         /\ Up' /\ ~connected' /\ boot' = "scan" => Phase' = "boot"
         /\ Up' /\ ~connected' /\ boot' # "scan" =>
              /\ link' = "scanning" => Phase' = "searching"
              /\ link' = "connecting" => Phase' = "connecting"
              /\ link' \in {"connected", "closing"} => Phase' = "linked"
              /\ link' = "idle" => Phase' = "lost"
BY DEF Phase, LinkTypeOK

(* What the session rests on. *)
LEMMA SessionFacts ==
  ASSUME LinkInv
  PROVE  /\ TypeOK /\ EventInv
         /\ boot = "scan" => link = "idle" /\ ~connected /\ evq = <<>> /\ sdh = "idle"
         /\ link \in {"scanning", "connecting"} => ~connected
         /\ screen = Drawing(connected)
         /\ Take("disconnected") => link = "idle"
<1>1. TypeOK /\ EventInv /\ screen = Drawing(connected)
  BY DEF LinkInv, OutcomeInv, ScreenFollowsSession
<1>2. Take("disconnected") => link = "idle"
  BY <1>1, TakeFacts DEF EventInv, DisconnectedInv
<1> QED
  BY <1>1, <1>2 DEF EventInv, BootInv, SearchInv, Fresh

(* A step that leaves the phase, the link and the screen alone. *)
LEMMA Stutters ==
  ASSUME UNCHANGED <<halted, cycle, connected, boot, screen>>,
         link' = link \/ (link = "connected" /\ link' = "closing"),
         LinkTypeOK, LinkTypeOK'
  PROVE  UNCHANGED Life!sessionVars
<1>1. Up' = Up
  BY DEF Up
<1>2. LinkAlive' = LinkAlive
  BY DEF LinkAlive
<1>3. Phase' = Phase
  BY <1>1, PhaseFacts, PhaseAfter DEF LinkTypeOK
<1> QED
  BY <1>2, <1>3 DEF Life!sessionVars

(* A check that fails, or a list that turns into a cycle. *)
LEMMA Halts ==
  ASSUME LinkTypeOK, LinkTypeOK', HandlerTypeOK', Up, ~Up', LinkAlive' = LinkAlive
  PROVE  Life!Next
<1>1. Phase' = "halted"
  BY PhaseAfter
<1>2. Phase # "halted"
  BY PhaseFacts DEF LinkTypeOK
<1>3. screen' \in {"searching", "data"}
  BY DEF HandlerTypeOK
<1> QED
  BY <1>1, <1>2, <1>3 DEF Life!Next, Life!Halt

(* Only a running firmware takes a step. *)
LEMMA OnlyUpMoves ==
  ASSUME Next
  PROVE  Up
BY DEF Next, SoftDevice, Advertise, Establish, Answer, Subscribed, Notify, PeerRequest,
   GattTimeout, LinkDown, Post, EventHandler, OnAdvNus, OnAdvOther, OnConnected, OnDiscMore,
   OnDiscAbsent, OnDiscFound, Settle, OnHvx, OnRequest, OnGattTimeout, OnDisconnected, Take,
   RtcStart, Handlers, SkipTimer, LedsFire, PollFire, RtcReturn, PollCheck, PollSend, SwiStep,
   Visiting, Quiet, BootScan, BootIndicate, ThreadRuns

LEMMA SoftDeviceImplements ==
  ASSUME LinkInv, LinkInv', SoftDevice
  PROVE  [Life!Next]_(Life!sessionVars)
<1>1. UNCHANGED <<appVars, timerVars>>
  BY SoftDeviceFrame
<1>2. UNCHANGED <<halted, cycle, connected, boot, screen>> /\ Up /\ Up'
  BY <1>1, OnlyUpMoves DEF appVars, timerVars, Up, Next
<1>3. LinkTypeOK /\ LinkTypeOK'
  BY DEF LinkInv, TypeOK
<1>4. CASE link' = link
  BY <1>2, <1>3, <1>4, Stutters
<1>5. CASE Establish
  <2>1. link = "connecting" /\ link' = "connected"
    BY <1>5 DEF Establish
  <2>2. ~connected /\ boot # "scan"
    BY <2>1, SessionFacts
  <2>3. Phase = "connecting" /\ Phase' = "linked"
    BY <1>2, <1>3, <2>1, <2>2, PhaseFacts, PhaseAfter
  <2>4. LinkAlive' = TRUE
    BY <2>1 DEF LinkAlive
  <2> QED
    BY <1>2, <2>3, <2>4 DEF Life!Next, Life!Meet
<1>6. CASE LinkDown
  <2>1. link \in {"connected", "closing"} /\ link' = "idle"
    BY <1>6 DEF LinkDown
  <2>2. boot # "scan"
    BY <2>1, SessionFacts
  <2>3. LinkAlive /\ LinkAlive' = FALSE
    BY <2>1 DEF LinkAlive
  <2>4. CASE connected
    <3>1. Phase = "session" /\ Phase' = "session"
      BY <1>2, <1>3, <2>4, PhaseFacts, PhaseAfter
    <3> QED
      BY <1>2, <2>3, <3>1 DEF Life!Next, Life!LoseLink
  <2>5. CASE ~connected
    <3>1. Phase = "linked" /\ Phase' = "lost"
      BY <1>2, <1>3, <2>1, <2>2, <2>5, PhaseFacts, PhaseAfter
    <3> QED
      BY <1>2, <2>3, <3>1 DEF Life!Next, Life!LoseLink
  <2> QED
    BY <2>4, <2>5
<1> QED
  BY <1>4, <1>5, <1>6 DEF SoftDevice, Advertise, Answer, Subscribed, Notify, PeerRequest,
     GattTimeout

LEMMA HandlersImplement ==
  ASSUME LinkInv, LinkInv', Untimed
  PROVE  [Life!Next]_(Life!sessionVars)
<1>1. LinkTypeOK /\ LinkTypeOK' /\ HandlerTypeOK'
  BY DEF LinkInv, TypeOK
<1>2. Up /\ cycle' = cycle
  BY OnlyUpMoves DEF Next, EventHandler, Untimed, OnAdvNus, OnAdvOther, OnConnected, OnDiscMore,
     OnDiscAbsent, OnDiscFound, OnHvx, OnRequest, OnGattTimeout, timerVars
<1>3. UNCHANGED <<boot, connected>>
  BY DEF Untimed, OnAdvNus, OnAdvOther, OnConnected, OnDiscMore, OnDiscAbsent, OnDiscFound,
     OnHvx, OnRequest, OnGattTimeout, Take
<1>4. screen' = screen
  BY SessionFacts DEF Untimed, OnAdvNus, OnAdvOther, OnConnected, OnDiscMore, OnDiscAbsent,
     OnDiscFound, OnHvx, OnRequest, OnGattTimeout
<1>5. CASE OnAdvNus /\ link = "scanning"
  <2>1. link' = "connecting" /\ halted' = halted
    BY <1>5 DEF OnAdvNus
  <2>2. ~connected /\ boot # "scan"
    BY <1>5, SessionFacts
  <2>3. Phase = "searching" /\ Phase' = "connecting"
    BY <1>1, <1>2, <1>3, <1>5, <2>1, <2>2, PhaseFacts, PhaseAfter DEF Up
  <2>4. LinkAlive' = LinkAlive
    BY <1>5, <2>1 DEF LinkAlive
  <2> QED
    BY <1>4, <2>3, <2>4 DEF Life!Next, Life!Find
<1>6. CASE ~(OnAdvNus /\ link = "scanning")
  <2>1. link' = link \/ (link = "connected" /\ link' = "closing" /\ halted' = halted)
    BY <1>6 DEF Untimed, OnAdvNus, OnAdvOther, OnConnected, OnDiscMore, OnDiscAbsent, OnDiscFound,
       OnHvx, OnRequest, OnGattTimeout
  <2>2. CASE halted' = halted
    BY <1>1, <1>2, <1>3, <1>4, <2>1, <2>2, Stutters
  <2>3. CASE halted' # halted
    <3>1. ~Up' /\ link' = link
      BY <1>2, <2>1, <2>3 DEF Up
    <3>2. LinkAlive' = LinkAlive
      BY <3>1 DEF LinkAlive
    <3> QED
      BY <1>1, <1>2, <3>1, <3>2, Halts
  <2> QED
    BY <2>2, <2>3
<1> QED
  BY <1>5, <1>6

LEMMA SettleImplements ==
  ASSUME LinkInv, LinkInv', Settle
  PROVE  [Life!Next]_(Life!sessionVars)
<1>1. LinkTypeOK /\ LinkTypeOK' /\ HandlerTypeOK'
  BY DEF LinkInv, TypeOK
<1>2. Up /\ cycle' = cycle /\ UNCHANGED <<link, boot>>
  BY DEF Settle, StartPolling, StartTimer, timerVars
<1>3. LinkAlive' = LinkAlive
  BY <1>2 DEF LinkAlive
<1>4. CASE ~Up'
  BY <1>1, <1>2, <1>3, <1>4, Halts
<1>5. CASE Up'
  <2>1. NotifEnabled /\ connected' = TRUE /\ screen' = "data"
    BY <1>5 DEF Settle, StartPolling, Up, Drawing
  <2>2. link = "connected" /\ LinkAlive /\ boot # "scan"
    BY <2>1, SessionFacts DEF NotifEnabled, LinkAlive
  <2>3. Phase' = "session"
    BY <1>1, <1>5, <2>1, PhaseAfter
  <2>4. CASE connected
    <3>1. Phase = "session" /\ screen = "data"
      BY <1>1, <1>2, <2>4, PhaseFacts, SessionFacts DEF Drawing
    <3> QED
      BY <1>3, <2>1, <2>3, <3>1 DEF Life!sessionVars
  <2>5. CASE ~connected
    <3>1. Phase = "linked"
      BY <1>1, <1>2, <2>2, <2>5, PhaseFacts
    <3> QED
      BY <1>3, <2>1, <2>2, <2>3, <3>1 DEF Life!Next, Life!Begin
  <2> QED
    BY <2>4, <2>5
<1> QED
  BY <1>4, <1>5

LEMMA DisconnectedImplements ==
  ASSUME LinkInv, LinkInv', SettledInv, OnDisconnected
  PROVE  [Life!Next]_(Life!sessionVars)
<1>1. LinkTypeOK /\ LinkTypeOK' /\ HandlerTypeOK'
  BY DEF LinkInv, TypeOK
<1>2. Up /\ link = "idle" /\ sdh = "idle" /\ boot' = boot /\ ~LinkAlive
  BY SessionFacts DEF OnDisconnected, Take, LinkAlive
<1>3. CASE NoSession
  <2>1. UNCHANGED <<halted, cycle, connected, boot, screen, link>>
    BY <1>2, <1>3 DEF NoSession, timerVars
  <2> QED
    BY <1>1, <2>1, Stutters
<1>4. CASE nusConn /\ EndSession
  <2>1. link' \in {"idle", "scanning"} /\ ~connected' /\ screen' = "searching"
    BY <1>2, <1>4 DEF EndSession, ScanStart, Drawing
  <2>2. LinkAlive' = LinkAlive
    BY <1>2, <2>1 DEF LinkAlive
  <2>3. connected /\ boot # "scan"
    BY <1>2, <1>4, SessionFacts DEF SettledInv
  <2>4. CASE ~Up'
    BY <1>1, <1>2, <2>2, <2>4, Halts
  <2>5. CASE Up'
    <3>1. link' = "scanning"
      BY <1>2, <1>4, <2>5 DEF EndSession, ScanStart, Up
    <3>2. Phase = "session" /\ Phase' = "searching"
      BY <1>1, <1>2, <2>1, <2>3, <2>5, <3>1, PhaseFacts, PhaseAfter
    <3> QED
      BY <1>2, <2>1, <2>2, <3>2 DEF Life!Next, Life!End
  <2> QED
    BY <2>4, <2>5
<1> QED
  BY <1>3, <1>4 DEF OnDisconnected

LEMMA BootImplements ==
  ASSUME LinkInv, LinkInv', BootScan \/ BootIndicate
  PROVE  [Life!Next]_(Life!sessionVars)
<1>1. LinkTypeOK /\ LinkTypeOK' /\ HandlerTypeOK'
  BY DEF LinkInv, TypeOK
<1>2. Up /\ UNCHANGED <<cycle, connected, screen>>
  BY DEF BootScan, BootIndicate, ThreadRuns, Quiet, timerVars
<1>3. CASE BootScan
  <2>1. /\ link = "idle" /\ ~connected /\ boot = "scan"
        /\ link' = "scanning" /\ boot' = "indicate" /\ halted' = halted
    BY <1>3, SessionFacts DEF BootScan
  <2>2. Phase = "boot" /\ Phase' = "searching"
    BY <1>1, <1>2, <2>1, PhaseFacts, PhaseAfter DEF Up
  <2>3. LinkAlive' = LinkAlive
    BY <2>1 DEF LinkAlive
  <2> QED
    BY <1>2, <2>2, <2>3 DEF Life!Next, Life!StartSearch
<1>4. CASE BootIndicate
  <2>1. link' = link /\ boot # "scan" /\ boot' # "scan"
    BY <1>4 DEF BootIndicate
  <2>2. LinkAlive' = LinkAlive
    BY <2>1 DEF LinkAlive
  <2>3. CASE ~Up'
    BY <1>1, <1>2, <2>2, <2>3, Halts
  <2>4. CASE Up'
    <3>1. Phase' = Phase
      BY <1>1, <1>2, <2>1, <2>4, PhaseFacts, PhaseAfter DEF LinkTypeOK
    <3> QED
      BY <1>2, <2>2, <3>1 DEF Life!sessionVars
  <2> QED
    BY <2>3, <2>4
<1> QED
  BY <1>3, <1>4

LEMMA InterruptsImplement ==
  ASSUME LinkInv, LinkInv', RtcStart \/ Handlers
  PROVE  [Life!Next]_(Life!sessionVars)
<1>1. LinkTypeOK /\ LinkTypeOK' /\ HandlerTypeOK'
  BY DEF LinkInv, TypeOK
<1>2. UNCHANGED linkOnly
  BY DEF RtcStart, Handlers, SkipTimer, LedsFire, PollFire, RtcReturn, PollCheck, PollSend,
     SwiStep, linkOnly, linkVars
<1>3. Up /\ UNCHANGED <<halted, connected, boot, screen, link>> /\ LinkAlive' = LinkAlive
  BY <1>2, OnlyUpMoves DEF Next, linkOnly, LinkAlive
<1>4. CASE Up'
  <2>1. cycle' = cycle
    BY <1>3, <1>4 DEF Up, LinkInv, TypeOK, TimerTypeOK
  <2> QED
    BY <1>1, <1>3, <2>1, Stutters
<1>5. CASE ~Up'
  BY <1>1, <1>3, <1>5, Halts
<1> QED
  BY <1>4, <1>5

(* Every behaviour of the firmware, seen from its user, is one of Session. *)
THEOREM LinkImplementsSession == Spec => ImplementsSession
<1>1. Init => Life!Init
  <2> SUFFICES ASSUME Init
               PROVE  Life!Init
    OBVIOUS
  <2>1. LinkTypeOK
    BY TypeInit DEF TypeOK
  <2>2. Phase = "boot"
    BY <2>1, PhaseFacts DEF Init, TimerInit, Up
  <2> QED
    BY <2>2 DEF Init, Life!Init, LinkAlive
<1>2. Init => SettledInv
  BY DEF Init, SettledInv
<1>3. LinkInv /\ SettledInv /\ [Next]_vars => SettledInv'
  BY SettledStep DEF LinkInv
<1>4. LinkInv /\ LinkInv' /\ SettledInv /\ [Next]_vars => [Life!Next]_(Life!sessionVars)
  <2> SUFFICES ASSUME LinkInv, LinkInv', SettledInv, [Next]_vars
               PROVE  [Life!Next]_(Life!sessionVars)
    OBVIOUS
  <2>1. CASE UNCHANGED vars
    <3>1. /\ UNCHANGED <<halted, cycle, connected, boot, screen, link>>
          /\ LinkTypeOK /\ LinkTypeOK'
      BY <2>1 DEF vars, linkVars, timerVars, LinkInv, TypeOK
    <3> QED
      BY <3>1, Stutters
  <2> QED
    BY <2>1, SoftDeviceImplements, HandlersImplement, SettleImplements, DisconnectedImplements,
       BootImplements, InterruptsImplement DEF Next, EventHandler, Untimed
<1> QED
  BY <1>1, <1>2, <1>3, <1>4, LinkInvariant, PTL DEF Spec, ImplementsSession, Life!Spec

-----------------------------------------------------------------------------
(***************************************************************************)
(* The blinking LED.  One discovery per link means one start of the        *)
(* polling timer per session; so one request at most stands in the ring    *)
(* without a start of the LED timer behind it.                             *)
(***************************************************************************)

-----------------------------------------------------------------------------
(***************************************************************************)
(* The answers of the discovery.                                           *)
(***************************************************************************)
(* The queue without its first event. *)
LEMMA TakeAnswers ==
  ASSUME TypeOK, EventInv, AnswerInv, NEW e, Take(e)
  PROVE  /\ \A i \in 1..Len(evq') : evq'[i] \in Answers =>
              /\ ~connected /\ gatt # "discovering" /\ e \notin Answers /\ e # "connected"
              /\ \A j \in 1..Len(evq') : evq'[j] \in Answers => i = j
         /\ \A i \in 1..Len(evq') : evq'[i] = "connected" =>
              /\ gatt = "none" /\ e # "connected" /\ e \notin Answers
              /\ \A j \in 1..Len(evq') : evq'[j] \notin Answers
         /\ e \in Answers => ~connected /\ gatt # "discovering"
         /\ e = "connected" => ~connected
         /\ sdh = "idle"
<1>1. /\ Len(evq) \in Nat \ {0}
      /\ evq[1] = e
      /\ Len(evq') = Len(evq) - 1
      /\ \A i \in 1..Len(evq') : i + 1 \in 1..Len(evq) /\ evq'[i] = evq[i + 1]
      /\ sdh = "idle"
  BY TakeFacts
<1>2. 1 \in 1..Len(evq)
  BY <1>1
<1>3. \A i \in 1..Len(evq') : evq'[i] \in Answers =>
        /\ ~connected /\ gatt # "discovering" /\ e \notin Answers /\ e # "connected"
        /\ \A j \in 1..Len(evq') : evq'[j] \in Answers => i = j
  <2>1. SUFFICES ASSUME NEW i \in 1..Len(evq'), evq'[i] \in Answers
                 PROVE  /\ ~connected /\ gatt # "discovering" /\ e \notin Answers
                        /\ e # "connected"
                        /\ \A j \in 1..Len(evq') : evq'[j] \in Answers => i = j
    OBVIOUS
  <2>2. i + 1 \in 1..Len(evq) /\ evq[i + 1] \in Answers
    BY <1>1, <2>1
  <2>3. /\ ~connected /\ gatt # "discovering"
        /\ \A j \in 1..Len(evq) : evq[j] \in Answers => i + 1 = j
    BY <2>2 DEF AnswerInv
  <2>4. e \notin Answers
    BY <1>1, <1>2, <2>1, <2>3
  <2>5. e # "connected"
    BY <1>1, <1>2, <2>2 DEF AnswerInv
  <2>6. ASSUME NEW j \in 1..Len(evq'), evq'[j] \in Answers
        PROVE  i = j
    <3>1. j + 1 \in 1..Len(evq) /\ evq[j + 1] \in Answers
      BY <1>1, <2>6
    <3>2. i + 1 = j + 1
      BY <2>3, <3>1
    <3>3. i \in Nat /\ j \in Nat
      BY <1>1, <2>1, <2>6
    <3> QED
      BY <3>2, <3>3
  <2> QED
    BY <2>3, <2>4, <2>5, <2>6
<1>4. \A i \in 1..Len(evq') : evq'[i] = "connected" =>
        /\ gatt = "none" /\ e \notin Answers
        /\ \A j \in 1..Len(evq') : evq'[j] \notin Answers
  BY <1>1, <1>2 DEF AnswerInv
<1>5. e = "connected" => ~connected /\ \A i \in 1..Len(evq') : evq'[i] # "connected"
  BY <1>1, <1>2 DEF EventInv, ConnectedInv, Fresh
<1>6. e \in Answers => ~connected /\ gatt # "discovering"
  BY <1>1, <1>2 DEF AnswerInv
<1> QED
  BY <1>1, <1>3, <1>4, <1>5, <1>6

LEMMA AnswerSoftDevice ==
  ASSUME TypeOK, EventInv, AnswerInv, SoftDevice
  PROVE  AnswerInv'
<1>1. CASE Subscribed
  BY <1>1 DEF Subscribed, AnswerInv, appVars
<1>2. ASSUME NEW e \in Events \ (Answers \cup {"connected"}), Post(e),
             gatt' = gatt \/ (gatt' # "discovering" /\ gatt # "none") \/ gatt' = "none"
      PROVE  AnswerInv'
  BY <1>2, PostFacts DEF AnswerInv, appVars
<1>3. CASE Establish
  <2>1. /\ "connected" \in Events \ Answers /\ "connected" \notin Adverts
        /\ Adverts \cap Answers = {}
    BY DEF Events, Adverts, Answers, Found
  <2>2. Post("connected") /\ link = "connecting" /\ gatt' = "none"
    BY <1>3 DEF Establish
  <2>3. \A i \in 1..Len(evq) : evq[i] \in Adverts
    BY <2>2 DEF EventInv, SearchInv
  <2>4. ~connected /\ UNCHANGED appVars
    BY <2>1, <2>2, PostFacts DEF EventInv, SearchInv, Fresh
  <2>5. \A i \in 1..Len(evq') : evq'[i] \notin Answers
    BY <2>1, <2>2, <2>3, PostFacts
  <2> QED
    BY <2>2, <2>4, <2>5 DEF AnswerInv, appVars
<1>4. ASSUME NEW e \in Answers, Answer(e)
      PROVE  AnswerInv'
  <2>1. e \in Events /\ e # "connected"
    BY <1>4 DEF Events, GattEvents, Answers, Found
  <2>2. Post(e) /\ gatt = "discovering" /\ gatt' = "none"
    BY <1>4 DEF Answer
  <2>3. ~connected /\ sdh = "idle" /\ \A i \in 1..Len(evq) : evq[i] \notin Answers \cup {"connected"}
    BY <2>2 DEF AnswerInv
  <2>4. /\ UNCHANGED appVars /\ Len(evq) \in Nat
        /\ \A i \in 1..Len(evq') : evq'[i] \in Answers => i = Len(evq')
        /\ \A i \in 1..Len(evq') : evq'[i] # "connected"
    BY <2>1, <2>2, <2>3, PostFacts
  <2> QED
    BY <2>2, <2>3, <2>4 DEF AnswerInv, appVars
<1>5. {"adv_nus", "adv_other", "hvx", "request", "gatt_timeout", "disconnected"}
        \subseteq Events \ (Answers \cup {"connected"})
  BY DEF Events, Adverts, GattEvents, Answers, Found
<1>6. CASE \E e \in Adverts : Advertise(e)
  BY <1>2, <1>5, <1>6 DEF Advertise, Adverts
<1>7. CASE Notify \/ PeerRequest
  BY <1>2, <1>5, <1>7 DEF Notify, PeerRequest
<1>8. CASE GattTimeout
  BY <1>2, <1>5, <1>8 DEF GattTimeout
<1>9. CASE LinkDown
  BY <1>2, <1>5, <1>9 DEF LinkDown
<1> QED
  BY <1>1, <1>3, <1>4, <1>6, <1>7, <1>8, <1>9 DEF SoftDevice

LEMMA AnswerHandler ==
  ASSUME TypeOK, EventInv, AnswerInv, EventHandler
  PROVE  AnswerInv'
<1>1. CASE OnAdvNus \/ OnAdvOther \/ OnDiscAbsent \/ OnHvx \/ OnRequest \/ OnGattTimeout
  <2>1. PICK e : Take(e)
    BY <1>1 DEF OnAdvNus, OnAdvOther, OnDiscAbsent, OnHvx, OnRequest, OnGattTimeout
  <2>2. UNCHANGED <<gatt, sdh, connected>>
    BY <1>1 DEF OnAdvNus, OnAdvOther, OnDiscAbsent, OnHvx, OnRequest, OnGattTimeout
  <2> QED
    BY <2>1, <2>2, TakeAnswers DEF AnswerInv
<1>2. CASE OnConnected
  <2>1. Take("connected") /\ gatt' \in {gatt, "discovering"} /\ UNCHANGED <<sdh, connected>>
    BY <1>2 DEF OnConnected
  <2> QED
    BY <2>1, TakeAnswers DEF AnswerInv
<1>3. CASE OnDiscMore
  <2>1. Take("disc_more") /\ gatt' \in {gatt, "discovering"} /\ UNCHANGED <<sdh, connected>>
    BY <1>3 DEF OnDiscMore
  <2>2. "disc_more" \in Answers
    BY DEF Answers
  <2> QED
    BY <2>1, <2>2, TakeAnswers DEF AnswerInv
<1>4. ASSUME NEW e \in Found, OnDiscFound(e)
      PROVE  AnswerInv'
  <2>1. Take(e) /\ e \in Answers /\ UNCHANGED <<gatt, connected>>
    BY <1>4 DEF OnDiscFound, Answers
  <2> QED
    BY <2>1, TakeAnswers DEF AnswerInv
<1>5. CASE Settle
  <2>1. sdh = "settle" /\ sdh' = "idle" /\ evq' = evq /\ gatt' \in {gatt, "subscribing"}
    BY <1>5 DEF Settle, StartPolling
  <2>2. \A i \in 1..Len(evq) : evq[i] \notin Answers \cup {"connected"}
    BY <2>1 DEF AnswerInv, EventInv, ConnectedInv, Fresh
  <2> QED
    BY <2>1, <2>2 DEF AnswerInv
<1>6. CASE OnDisconnected
  <2>1. Take("disconnected") /\ UNCHANGED <<gatt, sdh>> /\ (connected' => connected)
    BY <1>6 DEF OnDisconnected, EndSession, NoSession, TypeOK, HandlerTypeOK
  <2> QED
    BY <2>1, TakeAnswers DEF AnswerInv
<1> QED
  BY <1>1, <1>2, <1>3, <1>4, <1>5, <1>6 DEF EventHandler

LEMMA AnswerStep ==
  ASSUME TypeOK, EventInv, AnswerInv, [Next]_vars
  PROVE  AnswerInv'
<1>1. CASE UNCHANGED <<gatt, sdh, connected, evq>>
  BY <1>1 DEF AnswerInv
<1>2. RtcStart \/ Handlers \/ BootScan \/ BootIndicate \/ UNCHANGED vars =>
        UNCHANGED <<gatt, sdh, connected, evq>>
  BY DEF RtcStart, Handlers, BootScan, BootIndicate, SkipTimer, LedsFire, PollFire, RtcReturn,
     PollCheck, PollSend, SwiStep, linkOnly, linkVars, vars
<1> QED
  BY <1>1, <1>2, AnswerSoftDevice, AnswerHandler DEF Next

-----------------------------------------------------------------------------
(***************************************************************************)
(* The requests in the ring.                                               *)
(***************************************************************************)
LEMMA LedsRequest == LedsStart \in Ops /\ PollStart \in Ops /\ PollStop \in Ops
  BY LinkAssumption DEF LedsStart, PollStart, PollStop, Ops

(* A start of the LED timer takes care of whatever stands before it. *)
LEMMA LedsFollow ==
  ASSUME NEW q \in Seq(Ops), Followed(q) \/ FollowedButOne(q)
  PROVE  Followed(Append(q, LedsStart)) /\ FollowedButOne(Append(q, LedsStart))
<1> DEFINE r == Append(q, LedsStart)
<1>1. /\ Len(r) = Len(q) + 1 /\ Len(q) \in Nat
      /\ \A i \in 1..Len(q) : r[i] = q[i]
      /\ r[Len(q) + 1] = LedsStart
  BY LedsRequest, AppendFacts
<1>2. LedsStart.timer # "poll"
  BY DEF LedsStart
<1> HIDE DEF r
<1>3. \A i \in 1..Len(r) : r[i].timer = "poll" => LedsAfter(r, i)
  BY <1>1, <1>2 DEF LedsAfter
<1>4. Followed(r) /\ FollowedButOne(r)
  BY <1>3 DEF Followed, FollowedButOne
<1> QED
  BY <1>4 DEF r

(* A request about the polling timer stands alone behind requests that are *)
(* all followed.                                                           *)
LEMMA PollFollows ==
  ASSUME NEW q \in Seq(Ops), Followed(q), NEW o \in {PollStart, PollStop}
  PROVE  FollowedButOne(Append(q, o))
<1> DEFINE r == Append(q, o)
<1>1. /\ Len(r) = Len(q) + 1 /\ Len(q) \in Nat
      /\ \A i \in 1..Len(q) : r[i] = q[i]
  BY LedsRequest, AppendFacts
<1> HIDE DEF r
<1>2. \A i \in 1..Len(q) : r[i].timer = "poll" => LedsAfter(r, i)
  BY <1>1 DEF Followed, LedsAfter
<1>3. FollowedButOne(r)
  BY <1>1, <1>2 DEF FollowedButOne
<1> QED
  BY <1>3 DEF r

(* The stop of the polling timer is only ever queued with a start of the   *)
(* LED timer.                                                              *)
LEMMA StopFollowed ==
  ASSUME NEW q \in Seq(Ops)
  PROVE  LET r == Start(Stop(q, "poll"), "leds")
         IN  Followed(r) /\ FollowedButOne(r)
<1> DEFINE s == Stop(q, "poll")
           r == Start(s, "leds")
<1>1. /\ s \in Seq(Ops) /\ r = Append(s, LedsStart)
  BY LinkAssumption, RequestTyped DEF Start, LedsStart
<1>2. /\ Len(r) = Len(s) + 1 /\ Len(s) \in Nat
      /\ r[Len(s) + 1] = LedsStart
  BY <1>1, LedsRequest, AppendFacts
<1>3. LedsStart.timer # "poll"
  BY DEF LedsStart
<1> HIDE DEF r, s
<1>4. \A i \in 1..Len(r) : r[i].timer = "poll" => LedsAfter(r, i)
  BY <1>2, <1>3 DEF LedsAfter
<1>5. Followed(r) /\ FollowedButOne(r)
  BY <1>4 DEF Followed, FollowedButOne
<1> QED
  BY <1>5 DEF r, s

(* SWI0 takes the head of the ring. *)
LEMMA TailFollowed ==
  ASSUME NEW q \in Seq(Ops), q # <<>>
  PROVE  /\ Followed(q) => Followed(Tail(q))
         /\ FollowedButOne(q) => FollowedButOne(Tail(q))
<1> DEFINE r == Tail(q)
<1>1. /\ Len(q) \in Nat \ {0} /\ Len(r) = Len(q) - 1
      /\ \A i \in 1..(Len(q) - 1) : r[i] = q[i + 1]
  BY TailFacts
<1> HIDE DEF r
<1>2. ASSUME NEW i \in 1..Len(r), LedsAfter(q, i + 1)
      PROVE  LedsAfter(r, i)
  <2>1. PICK j \in (i + 2)..Len(q) : q[j] = LedsStart
    BY <1>2 DEF LedsAfter
  <2>2. j - 1 \in (i + 1)..Len(r) /\ r[j - 1] = LedsStart
    BY <1>1, <2>1
  <2> QED
    BY <2>2 DEF LedsAfter
<1>3. Followed(q) => Followed(r)
  BY <1>1, <1>2 DEF Followed
<1>4. FollowedButOne(q) => FollowedButOne(r)
  <2>1. SUFFICES ASSUME FollowedButOne(q), NEW i \in 1..Len(r), NEW k \in (i + 1)..Len(r),
                        r[i].timer = "poll", r[k].timer = "poll"
                 PROVE  LedsAfter(r, i)
    BY DEF FollowedButOne
  <2>2. i + 1 \in 1..Len(q) /\ k + 1 \in (i + 2)..Len(q) /\ q[i + 1] = r[i] /\ q[k + 1] = r[k]
    BY <1>1, <2>1
  <2>3. LedsAfter(q, i + 1)
    BY <2>1, <2>2 DEF FollowedButOne
  <2> QED
    BY <1>2, <2>3
<1> QED
  BY <1>3, <1>4 DEF r

Outside ==
  \/ SoftDevice \/ EventHandler \/ BootScan \/ BootIndicate \/ RtcStart \/ SkipTimer
  \/ LedsFire \/ PollFire \/ RtcReturn \/ PollCheck \/ \E sent \in BOOLEAN : PollSend(sent)

(* Every request about the polling timer begins a session, or ends one and *)
(* asks for the LED timer too.                                             *)
LEMMA RingFrame ==
  ASSUME TypeOK, AnswerInv, Outside, Up'
  PROVE  /\ Up
         /\ \/ opq' = opq /\ connected' = connected
            \/ opq' = Start(opq, "leds")
            \/ opq' = Start(opq, "poll") /\ connected' /\ ~connected
            \/ opq' = Start(Stop(opq, "poll"), "leds")
<1>1. CASE SoftDevice
  BY <1>1, SoftDeviceFrame DEF appVars, timerVars, Up
<1>2. CASE Untimed
  BY <1>2 DEF Untimed, OnAdvNus, OnAdvOther, OnConnected, OnDiscMore, OnDiscAbsent,
     OnDiscFound, OnHvx, OnRequest, OnGattTimeout, timerVars, Up, Take
<1>3. CASE Settle
  <2>1. Up /\ halted' = "no" /\ ~connected
    BY <1>3 DEF Settle, Up, AnswerInv
  <2>2. NotifEnabled /\ HasRoom(opq, 1)
    BY <1>3, <2>1 DEF Settle, StartPolling
  <2> QED
    BY <1>3, <2>1, <2>2 DEF Settle, StartPolling, StartTimer
<1>4. CASE OnDisconnected
  <2>1. Up /\ halted' = "no"
    BY <1>4 DEF OnDisconnected, Take, Up
  <2>2. CASE NoSession
    BY <2>1, <2>2 DEF NoSession, timerVars
  <2>3. CASE EndSession
    <3>1. HasRoom(opq, 1) /\ link = "idle"
      BY <2>1, <2>3 DEF EndSession, ScanStart
    <3> QED
      BY <2>1, <2>3, <3>1 DEF EndSession, ScanStart, IndicateScanning
  <2> QED
    BY <1>4, <2>2, <2>3 DEF OnDisconnected
<1>5. CASE BootScan \/ BootIndicate
  BY <1>5 DEF BootScan, BootIndicate, IndicateScanning, timerVars, Up, ThreadRuns, Quiet
<1>6. CASE RtcStart \/ SkipTimer \/ RtcReturn
  BY <1>6 DEF RtcStart, SkipTimer, RtcReturn, RtcExpire, RtcSkip, RtcEnd, linkVars, Up
<1>7. CASE LedsFire
  BY <1>7 DEF LedsFire, RtcClear, linkVars, Up
<1>8. CASE PollFire \/ PollCheck \/ \E sent \in BOOLEAN : PollSend(sent)
  BY <1>8 DEF PollFire, PollCheck, PollSend, RtcClear, timerVars, linkOnly, Up
<1> QED
  BY <1>1, <1>2, <1>3, <1>4, <1>5, <1>6, <1>7, <1>8 DEF Outside, EventHandler, Untimed

Kinds(q) == \A i \in 1..Len(q) : q[i].timer = "poll" \/ q[i] = LedsStart

LEMMA KindsFacts ==
  ASSUME NEW q \in Seq(Ops), Kinds(q)
  PROVE  /\ \A o \in {PollStart, PollStop, LedsStart} : Kinds(Append(q, o))
         /\ q # <<>> => Kinds(Tail(q))
<1>1. ASSUME NEW o \in {PollStart, PollStop, LedsStart}
      PROVE  Kinds(Append(q, o))
  <2>1. o \in Ops
    BY LedsRequest
  <2>2. o.timer = "poll" \/ o = LedsStart
    BY DEF PollStart, PollStop
  <2> DEFINE r == Append(q, o)
  <2>3. /\ Len(r) = Len(q) + 1 /\ Len(q) \in Nat
        /\ \A i \in 1..Len(q) : r[i] = q[i]
        /\ r[Len(q) + 1] = o
    BY <2>1, AppendFacts
  <2> HIDE DEF r
  <2>4. Kinds(r)
    BY <2>2, <2>3 DEF Kinds
  <2> QED
    BY <2>4 DEF r
<1>2. ASSUME q # <<>>
      PROVE  Kinds(Tail(q))
  BY <1>2, TailFacts DEF Kinds
<1> QED
  BY <1>1, <1>2

LEMMA RingStep ==
  ASSUME TypeOK, AnswerInv, RingInv, [Next]_vars
  PROVE  RingInv'
<1> SUFFICES ASSUME Up'
             PROVE  Kinds(opq') /\ FollowedButOne(opq') /\ (~connected' => Followed(opq'))
  BY DEF RingInv, Kinds, Up
<1>1. opq \in Seq(Ops) /\ (Up => Kinds(opq) /\ FollowedButOne(opq) /\ (~connected => Followed(opq)))
  BY DEF RingInv, Kinds, TypeOK, TimerTypeOK
<1>2. CASE Outside
  <2>1. /\ Up
        /\ \/ opq' = opq /\ connected' = connected
           \/ opq' = Start(opq, "leds")
           \/ opq' = Start(opq, "poll") /\ connected' /\ ~connected
           \/ opq' = Start(Stop(opq, "poll"), "leds")
    BY <1>2, RingFrame
  <2>2. CASE opq' = opq /\ connected' = connected
    BY <1>1, <2>1, <2>2
  <2>3. CASE opq' = Start(opq, "leds")
    <3>1. opq' = Append(opq, LedsStart)
      BY <2>3 DEF Start, LedsStart
    <3> QED
      BY <1>1, <2>1, <3>1, KindsFacts, LedsFollow
  <2>4. CASE opq' = Start(opq, "poll") /\ connected' /\ ~connected
    <3>1. opq' = Append(opq, PollStart)
      BY <2>4 DEF Start, PollStart
    <3> QED
      BY <1>1, <2>1, <2>4, <3>1, KindsFacts, PollFollows
  <2>5. CASE opq' = Start(Stop(opq, "poll"), "leds")
    <3>1. Stop(opq, "poll") = Append(opq, PollStop)
      BY DEF Stop, PollStop
    <3>2. opq' = Append(Stop(opq, "poll"), LedsStart) /\ Stop(opq, "poll") \in Seq(Ops)
      BY <1>1, <2>5, LinkAssumption, RequestTyped DEF Start, LedsStart
    <3>3. Kinds(opq')
      BY <1>1, <2>1, <3>1, <3>2, KindsFacts
    <3> QED
      BY <1>1, <2>5, <3>3, StopFollowed
  <2> QED
    BY <2>1, <2>2, <2>3, <2>4, <2>5
<1>3. CASE SwiStep
  <2>1. connected' = connected /\ halted' = halted
    BY <1>3 DEF SwiStep, linkVars
  <2>2. Up
    BY <1>3 DEF SwiStep, Quiet
  <2>3. opq' = opq \/ (opq # <<>> /\ opq' = Tail(opq))
    BY <1>3 DEF SwiStep, SwiDelete, SwiRestart, SwiPop, SwiEnd
  <2> QED
    BY <1>1, <2>1, <2>2, <2>3, KindsFacts, TailFollowed
<1>4. CASE UNCHANGED vars
  BY <1>1, <1>4 DEF vars, linkVars, timerVars, Up
<1> QED
  BY <1>2, <1>3, <1>4 DEF Next, Handlers, Outside

-----------------------------------------------------------------------------
(***************************************************************************)
(* The LED timer.                                                          *)
(***************************************************************************)
(* A full ring holds a start of the LED timer. *)
LEMMA FullRing ==
  ASSUME TypeOK, RingInv, Up, OpQueueSize >= 2, ~HasRoom(opq, 1)
  PROVE  \E i \in 1..Len(opq) : opq[i] = LedsStart
<1>1. Len(opq) \in Nat /\ Len(opq) >= 2
  BY TimersAssumption DEF TypeOK, TimerTypeOK, HasRoom
<1>2. 1 \in 1..Len(opq) /\ 2 \in (1 + 1)..Len(opq) /\ 2 \in 1..Len(opq)
  BY <1>1
<1>3. CASE opq[1].timer = "poll" /\ opq[2].timer = "poll"
  <2>1. LedsAfter(opq, 1)
    BY <1>2, <1>3 DEF RingInv, FollowedButOne
  <2> QED
    BY <1>1, <2>1 DEF LedsAfter
<1> QED
  BY <1>2, <1>3 DEF RingInv

(* SCANNING is indicated together with a start of the LED timer, and the   *)
(* flag of the LED timer is cleared by its own expiry only.                *)
LEMMA IndicationFrame ==
  ASSUME TypeOK, Outside, Up', stable' = "scanning"
  PROVE  \/ opq' = Start(opq, "leds") \/ opq' = Start(Stop(opq, "poll"), "leds")
         \/ stable = "scanning" /\ ("leds" \in running => "leds" \in running')
         \/ ~HasRoom(opq, 1) /\ UNCHANGED opq
<1>1. CASE SoftDevice
  BY <1>1, SoftDeviceFrame DEF appVars, timerVars
<1>2. CASE Untimed
  BY <1>2 DEF Untimed, OnAdvNus, OnAdvOther, OnConnected, OnDiscMore, OnDiscAbsent,
     OnDiscFound, OnHvx, OnRequest, OnGattTimeout, timerVars
<1>3. CASE Settle
  BY <1>3 DEF Settle, StartPolling, StartTimer, timerVars
<1>4. CASE OnDisconnected
  <2>1. CASE NoSession
    BY <2>1 DEF NoSession, timerVars
  <2>2. CASE EndSession
    <3>1. halted' = "no"
      BY DEF Up
    <3>2. HasRoom(opq, 1) /\ link = "idle"
      BY <2>2, <3>1 DEF EndSession, ScanStart
    <3> QED
      BY <2>2, <3>1, <3>2 DEF EndSession, ScanStart, IndicateScanning
  <2> QED
    BY <1>4, <2>1, <2>2 DEF OnDisconnected
<1>5. CASE BootScan \/ BootIndicate
  BY <1>5 DEF BootScan, BootIndicate, IndicateScanning, timerVars
<1>6. CASE RtcStart \/ SkipTimer \/ RtcReturn
  BY <1>6 DEF RtcStart, SkipTimer, RtcReturn, RtcExpire, RtcSkip, RtcEnd, linkVars
<1>7. CASE LedsFire
  BY <1>7 DEF LedsFire, RtcClear, linkVars
<1>8. CASE PollFire \/ PollCheck \/ \E sent \in BOOLEAN : PollSend(sent)
  BY <1>8 DEF PollFire, PollCheck, PollSend, RtcClear, timerVars, linkOnly
<1> QED
  BY <1>1, <1>2, <1>3, <1>4, <1>5, <1>6, <1>7, <1>8 DEF Outside, EventHandler, Untimed

LEMMA BlinkStep ==
  ASSUME TypeOK, AnswerInv, RingInv, Blinking, [Next]_vars, OpQueueSize >= 2
  PROVE  Blinking'
<1> DEFINE Waits(q) == \E i \in 1..Len(q) : q[i] = LedsStart
<1>1. opq \in Seq(Ops) /\ DOMAIN opq = 1..Len(opq) /\ Len(opq) \in Nat
  BY DEF TypeOK, TimerTypeOK
<1>2. opq' \in Seq(Ops) /\ DOMAIN opq' = 1..Len(opq')
  BY TypeStep DEF TypeOK, TimerTypeOK
<1>3. SUFFICES ASSUME Up', stable' = "scanning"
               PROVE  "leds" \in running' \/ Waits(opq')
  BY <1>2 DEF Blinking, Pending, LedsStart
<1>4. Up /\ stable = "scanning" => "leds" \in running \/ Waits(opq)
  BY <1>1 DEF Blinking, Pending, LedsStart
<1>5. \A q \in Seq(Ops) : Waits(Append(q, LedsStart))
  <2>1. SUFFICES ASSUME NEW q \in Seq(Ops) PROVE Waits(Append(q, LedsStart))
    OBVIOUS
  <2>2. Len(q) + 1 \in 1..Len(Append(q, LedsStart)) /\ Append(q, LedsStart)[Len(q) + 1] = LedsStart
    BY LedsRequest, AppendFacts
  <2> QED
    BY <2>2
<1>6. CASE Outside
  <2>1. Up
    BY <1>3, <1>6, RingFrame
  <2>2. CASE opq' = Start(opq, "leds") \/ opq' = Start(Stop(opq, "poll"), "leds")
    BY <1>1, <1>5, <2>2, LinkAssumption, RequestTyped DEF Start, LedsStart
  <2>3. CASE ~HasRoom(opq, 1) /\ UNCHANGED opq
    BY <2>1, <2>3, FullRing
  <2>4. CASE stable = "scanning" /\ ("leds" \in running => "leds" \in running')
    <3>1. CASE "leds" \in running
      BY <2>4, <3>1
    <3>2. CASE Waits(opq)
      <4>1. Requested
        BY <1>6, RequestFrame DEF Outside
      <4> QED
        BY <3>2, <4>1, RequestFacts
    <3> QED
      BY <1>4, <2>1, <2>4, <3>1, <3>2
  <2> QED
    BY <1>3, <1>6, <2>2, <2>3, <2>4, IndicationFrame
<1>7. CASE SwiStep
  <2>1. stable' = stable /\ Up
    BY <1>7 DEF SwiStep, Quiet, linkVars
  <2>2. running \subseteq running'
    BY <1>7 DEF SwiStep, SwiDelete, SwiRestart, SwiPop, SwiEnd, Insert
  <2>3. CASE opq' = opq
    BY <1>3, <1>4, <2>1, <2>2, <2>3
  <2>4. CASE SwiPop
    <3>1. opq # <<>> /\ opq' = Tail(opq)
      BY <2>4 DEF SwiPop
    <3>2. /\ Len(opq) \in Nat \ {0} /\ Len(opq') = Len(opq) - 1
          /\ \A i \in 1..(Len(opq) - 1) : opq'[i] = opq[i + 1]
          /\ Head(opq) = opq[1]
      BY <1>1, <3>1, TailFacts
    <3>3. CASE opq[1] = LedsStart
      BY <2>4, <3>2, <3>3 DEF SwiPop, Insert, Taken, LedsStart
    <3>4. CASE \E i \in 2..Len(opq) : opq[i] = LedsStart
      <4>1. PICK i \in 2..Len(opq) : opq[i] = LedsStart
        BY <3>4
      <4>2. i - 1 \in 1..Len(opq') /\ opq'[i - 1] = LedsStart
        BY <3>2, <4>1
      <4> QED
        BY <4>2
    <3>5. Waits(opq) => opq[1] = LedsStart \/ \E i \in 2..Len(opq) : opq[i] = LedsStart
      BY <3>2
    <3> QED
      BY <1>3, <1>4, <2>1, <2>2, <3>3, <3>4, <3>5
  <2> QED
    BY <1>7, <2>3, <2>4 DEF SwiStep, SwiDelete, SwiRestart, SwiEnd
<1>8. CASE UNCHANGED vars
  BY <1>3, <1>4, <1>8 DEF vars, linkVars, timerVars, Up
<1> QED
  BY <1>6, <1>7, <1>8 DEF Next, Handlers, Outside

(* The answers the SoftDevice owes, the requests in the ring and the LED   *)
(* timer fit together in every state: LedsInv is inductive relative to     *)
(* LinkInv.  The ring has to hold two requests.                            *)
THEOREM LedsInvariant == OpQueueSize >= 2 => (Spec => []LedsInv)
<1> SUFFICES ASSUME OpQueueSize >= 2
             PROVE  Spec => []LedsInv
  OBVIOUS
<1>1. Init => LedsInv
  BY DEF Init, TimerInit, LedsInv, AnswerInv, RingInv, FollowedButOne, Followed, Blinking
<1>2. LinkInv /\ LedsInv /\ [Next]_vars => LedsInv'
  BY AnswerStep, RingStep, BlinkStep DEF LedsInv, LinkInv
<1> QED
  BY <1>1, <1>2, LinkInvariant, PTL DEF Spec

(* While SCANNING is indicated the LED timer runs or is about to, although *)
(* its handler drops the result of its restart, given a ring that holds    *)
(* two requests.                                                           *)
THEOREM LedKeepsBlinking == OpQueueSize >= 2 => (Spec => []Blinking)
<1> SUFFICES ASSUME OpQueueSize >= 2
             PROVE  Spec => []Blinking
  OBVIOUS
<1>1. Spec => []LedsInv
  BY LedsInvariant
<1>2. LedsInv => Blinking
  BY DEF LedsInv
<1> QED
  BY <1>1, <1>2, PTL
=============================================================================
