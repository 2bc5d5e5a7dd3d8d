------------------------------- MODULE Session -------------------------------
(***************************************************************************)
(* What the dashboard makes of a scooter, without events, rings or delays: *)
(* it searches, connects, starts a session, and searches again when the    *)
(* session has lost its link.  A link lost before its session leads        *)
(* nowhere, and a failed check ends everything.                            *)
(***************************************************************************)
EXTENDS Naturals

VARIABLES
  phase,   \* where the dashboard stands
  alive,   \* a link to a scooter exists
  shown    \* the screen it shows: "searching" or "data"

sessionVars == <<phase, alive, shown>>

Phases == {"boot", "searching", "connecting", "linked", "session", "lost",
           "halted"}

Init ==
  /\ phase = "boot"
  /\ alive = FALSE
  /\ shown = "searching"

(* main calls scan_start. *)
StartSearch ==
  /\ phase = "boot"
  /\ phase' = "searching"
  /\ UNCHANGED <<alive, shown>>

(* A report of a NUS peer is answered with a connection request ... *)
Find ==
  /\ phase = "searching"
  /\ phase' = "connecting"
  /\ UNCHANGED <<alive, shown>>

(* ... which the peer meets. *)
Meet ==
  /\ phase = "connecting"
  /\ phase' = "linked"
  /\ alive' = TRUE
  /\ UNCHANGED shown

(* Notifications are enabled on a link that is there, and polling starts. *)
Begin ==
  /\ phase = "linked" /\ alive
  /\ phase' = "session"
  /\ shown' = "data"
  /\ UNCHANGED alive

(* The link goes.  A session does not know yet. *)
LoseLink ==
  /\ phase \in {"linked", "session"} /\ alive
  /\ alive' = FALSE
  /\ phase' = IF phase = "session" THEN "session" ELSE "lost"
  /\ UNCHANGED shown

(* A session ends only when its link is gone, and only in a search. *)
End ==
  /\ phase = "session" /\ ~alive
  /\ phase' = "searching"
  /\ shown' = "searching"
  /\ UNCHANGED alive

(* A check fails, in a handler that may have drawn already; or the timer   *)
(* list is corrupt.                                                        *)
Halt ==
  /\ phase # "halted"
  /\ phase' = "halted"
  /\ shown' \in {"searching", "data"}
  /\ UNCHANGED alive

Next == StartSearch \/ Find \/ Meet \/ Begin \/ LoseLink \/ End \/ Halt

Spec == Init /\ [][Next]_sessionVars
=============================================================================
