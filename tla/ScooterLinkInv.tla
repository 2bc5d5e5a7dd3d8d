---------------------------- MODULE ScooterLinkInv ----------------------------
(***************************************************************************)
(* The inductive invariant behind the safety properties of ScooterLink.    *)
(* Its first half says how the events in the SoftDevice's queue relate to  *)
(* the state of the link and to what the handlers have already recorded;   *)
(* its second half says how the requests in app_timer's ring relate to the *)
(* list.                                                                   *)
(***************************************************************************)
EXTENDS ScooterLink

(* No session and no discovery is on record. *)
Fresh == ~discovering /\ ~connected /\ ~nusConn /\ sdh = "idle"

(* Before main scans there is nothing to handle. *)
BootInv == boot = "scan" => link = "idle" /\ evq = <<>> /\ Fresh

(* While no link exists the queue holds advertising reports only. *)
SearchInv ==
  link \in {"scanning", "connecting"} =>
    /\ Fresh
    /\ \A i \in 1..Len(evq) : evq[i] \in Adverts

(* "disconnected" is the last event of its link ... *)
DisconnectedInv ==
  \A i \in 1..Len(evq) : evq[i] = "disconnected" => i = Len(evq) /\ link = "idle"

(* ... and "connected" the first, with only reports before it. *)
ConnectedInv ==
  \A i \in 1..Len(evq) : evq[i] = "connected" =>
    /\ Fresh
    /\ \A j \in 1..(i - 1) : evq[j] \in Adverts
    /\ \A j \in (i + 1)..Len(evq) : evq[j] # "connected"

(* A link that is gone still has its end in the queue, or left no session. *)
IdleInv ==
  link = "idle" => \/ evq = <<>> /\ ~connected /\ sdh = "idle"
                   \/ evq # <<>> /\ evq[Len(evq)] = "disconnected"

(* The NUS of a link is on record from its discovery on. *)
NusInv ==
  /\ connected => nusConn /\ (link # "idle" => known)
  /\ sdh = "settle" => nusConn /\ (link # "idle" => known)

(* A request loop that found the session alive sends to its link. *)
SendInv == poll.pc = "send" /\ link \in {"connected", "closing"} => known

EventInv ==
  /\ BootInv /\ SearchInv /\ DisconnectedInv /\ ConnectedInv /\ IdleInv
  /\ NusInv /\ SendInv

-----------------------------------------------------------------------------
(* RTC1 and SWI0 work in turns. *)
TurnInv ==
  /\ rtc => swi = "idle"
  /\ due \subseteq expired
  /\ due # {} \/ poll.pc # "idle" => rtc
  /\ swi = "insert" => expired = {}
  /\ swi = "idle" => restart = {}

(* The is_running flag is set of listed nodes only, and has been cleared   *)
(* of every expired node RTC1 has dealt with.                              *)
RunningInv ==
  /\ running \subseteq listed
  /\ swi = "idle" => expired \cap running \subseteq due

(* A stop that SWI0 has yet to see silenced its timer. *)
StopInv ==
  swi = "idle" =>
    \A i \in 1..Len(opq) : opq[i].op = "stop" => opq[i].timer \notin running

(* A stop of the polling timer that is still in the ring during a session  *)
(* belongs to an earlier one: a start follows it.                          *)
PollStart == [op |-> "start", timer |-> "poll"]
PollStop == [op |-> "stop", timer |-> "poll"]

RestartInv ==
  connected /\ halted = "no" =>
    \A i \in 1..Len(opq) : opq[i] = PollStop =>
      \E j \in (i + 1)..Len(opq) : opq[j] = PollStart

TimerInv == TurnInv /\ RunningInv /\ StopInv /\ RestartInv

-----------------------------------------------------------------------------
(* One discovery per link, before its session: its answers come one at a   *)
(* time, and none is on the way when a session lasts or a link is new.     *)
AnswerInv ==
  /\ gatt = "discovering" \/ sdh = "settle" => ~connected
  /\ gatt = "discovering" => sdh = "idle"
  /\ \A i \in 1..Len(evq) : evq[i] \in Answers =>
       /\ ~connected /\ gatt # "discovering" /\ sdh = "idle"
       /\ \A j \in 1..Len(evq) : evq[j] \in Answers => i = j
  /\ \A i \in 1..Len(evq) : evq[i] = "connected" =>
       /\ gatt = "none"
       /\ \A j \in 1..Len(evq) : evq[j] \notin Answers

(* The polling timer's requests in the ring are followed by a start of the *)
(* LED timer, but for the one that began the session.                      *)
LedsStart == [op |-> "start", timer |-> "leds"]

LedsAfter(q, i) == \E j \in (i + 1)..Len(q) : q[j] = LedsStart

Followed(q) ==
  \A i \in 1..Len(q) : q[i].timer = "poll" => LedsAfter(q, i)

FollowedButOne(q) ==
  \A i \in 1..Len(q) : \A k \in (i + 1)..Len(q) :
    q[i].timer = "poll" /\ q[k].timer = "poll" => LedsAfter(q, i)

RingInv ==
  Up => /\ \A i \in 1..Len(opq) : opq[i].timer = "poll" \/ opq[i] = LedsStart
        /\ FollowedButOne(opq)
        /\ ~connected => Followed(opq)

LedsInv == AnswerInv /\ RingInv /\ Blinking

-----------------------------------------------------------------------------
(* A connection the NUS client knows has its session, or is about to get it. *)
SettledInv == Up /\ nusConn => connected \/ sdh = "settle"

-----------------------------------------------------------------------------
(* What the properties add to it. *)
OutcomeInv ==
  /\ ScanNeverRefused /\ DiscoveryNeverBusy
  /\ ScreenFollowsSession
  /\ NoRequestStranded
  /\ PollingArmed

LinkInv == TypeOK /\ EventInv /\ TimerInv /\ OutcomeInv
=============================================================================
