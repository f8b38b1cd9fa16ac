----------------------------- MODULE JobPromise -----------------------------
(***************************************************************************)
(* What GitFetch promises about a job, whatever tasks, ports and signals   *)
(* it uses for it: one job at a time, each ends, with one outcome; it ends *)
(* as aborted only when that was asked for; the program does not go while  *)
(* one is running.                                                         *)
(***************************************************************************)
CONSTANTS Outcomes, Ok, Aborted

VARIABLES
  phase,    \* "idle", "busy" or "gone"
  asked,    \* the user wants the running job to stop
  outcome   \* of the last job; "none" while one is running

vars == <<phase, asked, outcome>>

Init == phase = "idle" /\ asked = FALSE /\ outcome = Ok

Begin == /\ phase = "idle" /\ phase' = "busy"
         /\ asked' = FALSE /\ outcome' = "none"

\* No process could be had: there is no job, and nothing is left of the last.
Refuse == phase = "idle" /\ outcome' = Ok /\ UNCHANGED <<phase, asked>>

AskStop == phase = "busy" /\ asked' = TRUE /\ UNCHANGED <<phase, outcome>>

End == /\ phase = "busy" /\ phase' = "idle"
       /\ outcome' \in Outcomes
       /\ outcome' = Aborted => asked
       /\ UNCHANGED asked

Leave == phase = "idle" /\ phase' = "gone" /\ UNCHANGED <<asked, outcome>>

Next == Begin \/ Refuse \/ AskStop \/ End \/ Leave

Spec == Init /\ [][Next]_vars /\ WF_vars(End)
=============================================================================
