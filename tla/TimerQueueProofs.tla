-------------------------- MODULE TimerQueueProofs --------------------------
(***************************************************************************)
(* Facts about the ring of app_timer that hold whoever uses it.            *)
(***************************************************************************)
EXTENDS TimerQueue, TLAPS

(* Appending leaves the earlier elements where they are. *)
LEMMA AppendFacts ==
  ASSUME NEW S, NEW s \in Seq(S), NEW e \in S
  PROVE  /\ Append(s, e) \in Seq(S)
         /\ Len(Append(s, e)) = Len(s) + 1
         /\ \A i \in 1..Len(s) : Append(s, e)[i] = s[i]
         /\ Append(s, e)[Len(s) + 1] = e
  OBVIOUS

(* Taking the head shifts the others by one. *)
LEMMA TailFacts ==
  ASSUME NEW S, NEW s \in Seq(S), s # <<>>
  PROVE  /\ Tail(s) \in Seq(S)
         /\ Len(s) \in Nat \ {0}
         /\ Len(Tail(s)) = Len(s) - 1
         /\ \A i \in 1..(Len(s) - 1) : Tail(s)[i] = s[i + 1]
         /\ Head(s) = s[1]
         /\ Head(s) \in S
  OBVIOUS

(* A request is a value of the ring's type. *)
LEMMA RequestTyped ==
  ASSUME NEW q \in Seq(Ops), NEW t \in Timers
  PROVE  Start(q, t) \in Seq(Ops) /\ Stop(q, t) \in Seq(Ops)
<1>1. [op |-> "start", timer |-> t] \in Ops /\ [op |-> "stop", timer |-> t] \in Ops
  BY DEF Ops
<1> QED
  BY <1>1, AppendFacts DEF Start, Stop

(* The ring after a request that found room. *)
LEMMA TypeRequest ==
  ASSUME NEW q \in Seq(Ops), HasRoom(q, 1), NEW t \in Timers
  PROVE  /\ Start(q, t) \in Seq(Ops) /\ Len(Start(q, t)) <= OpQueueSize
         /\ Stop(q, t) \in Seq(Ops) /\ Len(Stop(q, t)) <= OpQueueSize
<1>1. Start(q, t) \in Seq(Ops) /\ Stop(q, t) \in Seq(Ops)
  BY RequestTyped
<1>2. Len(Start(q, t)) = Len(q) + 1 /\ Len(Stop(q, t)) = Len(q) + 1
  BY DEF Start, Stop
<1> QED
  BY <1>1, <1>2 DEF HasRoom

(* A queued stop, as SWI0 looks for it. *)
LEMMA StoppedFacts ==
  ASSUME TimerTypeOK, NEW t
  PROVE  t \in Stopped <=> \E i \in 1..Len(opq) : opq[i] = [op |-> "stop", timer |-> t]
<1>1. /\ DOMAIN opq = 1..Len(opq)
      /\ \A i \in 1..Len(opq) : opq[i] \in Ops
  BY DEF TimerTypeOK
<1>2. \A o \in Ops : o = [op |-> o.op, timer |-> o.timer]
  BY DEF Ops
<1> QED
  BY <1>1, <1>2 DEF Stopped

-----------------------------------------------------------------------------
Request(op, t) == [op |-> op, timer |-> t]

(* The requests in the ring after one more, and after one less. *)
LEMMA PendingMore ==
  ASSUME TimerTypeOK, NEW r \in Ops, opq' = Append(opq, r), NEW op, NEW t
  PROVE  Pending(op, t)' <=> Pending(op, t) \/ r = Request(op, t)
<1>1. /\ Len(opq) \in Nat /\ Len(opq') = Len(opq) + 1
      /\ \A i \in 1..Len(opq) : opq'[i] = opq[i]
      /\ opq'[Len(opq) + 1] = r
  BY AppendFacts DEF TimerTypeOK
<1>2. \A i \in 1..Len(opq') : i \in 1..Len(opq) \/ i = Len(opq) + 1
  BY <1>1
<1> QED
  BY <1>1, <1>2 DEF Pending, Request

LEMMA PendingLess ==
  ASSUME TimerTypeOK, opq # <<>>, opq' = Tail(opq), NEW op, NEW t
  PROVE  /\ Pending(op, t)' => Pending(op, t)
         /\ Pending(op, t) => Pending(op, t)' \/ Head(opq) = Request(op, t)
         /\ Pending(Head(opq).op, Head(opq).timer)
<1>1. /\ Len(opq) \in Nat \ {0} /\ Len(opq') = Len(opq) - 1
      /\ \A i \in 1..(Len(opq) - 1) : opq'[i] = opq[i + 1]
      /\ Head(opq) = opq[1] /\ Head(opq) \in Ops
  BY TailFacts DEF TimerTypeOK
<1>2. \A i \in 1..Len(opq') : i + 1 \in 1..Len(opq) /\ opq'[i] = opq[i + 1]
  BY <1>1
<1>3. Head(opq) = [op |-> Head(opq).op, timer |-> Head(opq).timer]
  BY <1>1 DEF Ops
<1>4. 1 \in 1..Len(opq)
  BY <1>1
<1>5. \A i \in 1..Len(opq) :
        i = 1 \/ (i - 1 \in 1..Len(opq') /\ opq'[i - 1] = opq[i])
  BY <1>1
<1>6. Pending(op, t) => Pending(op, t)' \/ Head(opq) = Request(op, t)
  BY <1>1, <1>5 DEF Pending, Request
<1> QED
  BY <1>1, <1>2, <1>3, <1>4, <1>6 DEF Pending

LEMMA StoppedIsPending ==
  ASSUME TimerTypeOK, NEW t
  PROVE  t \in Stopped <=> Pending("stop", t)
BY StoppedFacts DEF Pending

-----------------------------------------------------------------------------
(* Every step of the timers keeps their types. *)
LEMMA TimerInitType ==
  ASSUME TimerInit
  PROVE  TimerTypeOK
<1>1. opq \in Seq(Ops) /\ Len(opq) <= OpQueueSize
  BY TimersAssumption DEF TimerInit
<1> QED
  BY <1>1 DEF TimerInit, TimerTypeOK

LEMMA RequestType ==
  ASSUME TimerTypeOK, NEW t \in Timers, StartTimer(t) \/ StopTimer(t)
  PROVE  TimerTypeOK'
<1>1. CASE StartTimer(t)
  <2>1. opq' \in Seq(Ops) /\ Len(opq') <= OpQueueSize
    BY <1>1, TypeRequest DEF TimerTypeOK, StartTimer
  <2> QED
    BY <1>1, <2>1 DEF TimerTypeOK, StartTimer
<1>2. CASE StopTimer(t)
  <2>1. opq' \in Seq(Ops) /\ Len(opq') <= OpQueueSize
    BY <1>2, TypeRequest DEF TimerTypeOK, StopTimer
  <2> QED
    BY <1>2, <2>1 DEF TimerTypeOK, StopTimer
<1> QED
  BY <1>1, <1>2

LEMMA SwiType ==
  ASSUME TimerTypeOK, SwiDelete \/ SwiRestart \/ SwiPop \/ SwiEnd
  PROVE  TimerTypeOK'
<1>1. CASE SwiDelete
  BY <1>1 DEF TimerTypeOK, SwiDelete
<1>2. CASE SwiRestart
  BY <1>2, TimersAssumption DEF TimerTypeOK, SwiRestart, Insert
<1>3. CASE SwiPop
  <2>1. /\ opq' \in Seq(Ops) /\ Len(opq') <= OpQueueSize
        /\ Head(opq) \in Ops
    BY <1>3, TailFacts, TimersAssumption DEF TimerTypeOK, SwiPop
  <2>2. Head(opq).timer \in Timers
    BY <2>1 DEF Ops
  <2> QED
    BY <1>3, <2>1, <2>2 DEF TimerTypeOK, SwiPop, Insert
<1>4. CASE SwiEnd
  BY <1>4 DEF TimerTypeOK, SwiEnd
<1> QED
  BY <1>1, <1>2, <1>3, <1>4

LEMMA RtcType ==
  ASSUME TimerTypeOK,
         \/ \E E \in SUBSET listed : RtcExpire(E)
         \/ \E t \in Timers : RtcSkip(t)
         \/ RtcEnd
  PROVE  TimerTypeOK'
BY DEF TimerTypeOK, RtcExpire, RtcSkip, RtcEnd
=============================================================================
