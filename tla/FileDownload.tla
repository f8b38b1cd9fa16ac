---------------------------- MODULE FileDownload ----------------------------
(***************************************************************************)
(* What a download promises about the file it was asked for: at the end it *)
(* is there whole and reported as such, or it failed and was deleted; only *)
(* a file system that will not delete it keeps a part of it.  A download   *)
(* that never got as far as opening the file leaves an older one alone.    *)
(* Jobs follow one another; another program may use the same directory.    *)
(***************************************************************************)
VARIABLES
  state,    \* "absent", "old", "part", "whole", or "left": part of it, undeletable
  outcome   \* "none", "ok" or "failed"

vars == <<state, outcome>>

Init == state \in {"absent", "old"} /\ outcome = "none"

Start == outcome = "none" /\ state' = "part" /\ UNCHANGED outcome

Succeed == /\ outcome = "none" /\ state = "part"
           /\ outcome' = "ok" /\ state' = "whole"

Fail == /\ outcome = "none" /\ outcome' = "failed"
        /\ state' \in IF state = "part" THEN {"absent", "left"} ELSE {state}

\* Another program makes a file of that name, or takes it away.
Appear == outcome = "none" /\ state = "absent" /\ state' = "old" /\ UNCHANGED outcome
Vanish == outcome = "none" /\ state = "old" /\ state' = "absent" /\ UNCHANGED outcome

\* The next file.
Again == outcome # "none" /\ outcome' = "none" /\ state' \in {"absent", "old"}

Next == Start \/ Succeed \/ Fail \/ Appear \/ Vanish \/ Again

Promise == Init /\ [][Next]_vars
=============================================================================
