------------------------------- MODULE Notify -------------------------------
(***************************************************************************)
(* notify.c: notifications are messages put on the public port of a        *)
(* notification server, which replies early, late or never, and may come   *)
(* and go.  gf_notify runs in the GUI task and waits two seconds at most.  *)
(***************************************************************************)
EXTENDS Integers, Sequences

CONSTANTS
  Servers,     \* the ports in the order of servers[]
  Polls,       \* how often the reply port is looked at (REPLY_TICKS / 2)
  MaxNotes     \* bound: notifications in one session

ASSUME NotifyAssumption == Polls \in Nat \ {0} /\ MaxNotes \in Nat

VARIABLES
  pc,          \* "idle", "register", "note": to be sent; "wait"; "gone"
  target,      \* the server of this notification: an index, 0 for none
  sending,     \* "register" or "note": what is being waited for
  msg,         \* the message being waited for; 0 for none
  polls,       \* looks at the reply port left
  wedged, registered,
  port,        \* reply_port: "signal", "ignore" or "deleted"
  alive,       \* messages whose memory has not been freed
  notes,       \* notifications so far
  up,          \* servers whose port exists
  held,        \* messages on a server's port or in its hands
  queue        \* messages on the reply port

client  == <<pc, target, sending, msg, polls, wedged, registered, port, alive, notes>>
vars    == <<client, up, held, queue>>

Index    == 1 .. Len(Servers)
Messages == 1 .. 2 * MaxNotes
Fresh    == CHOOSE m \in Messages : m \notin alive /\ \A n \in Messages \ alive : m <= n

TypeOK ==
  /\ pc \in {"idle", "register", "note", "wait", "gone"}
  /\ target \in {0} \cup Index /\ sending \in {"register", "note"}
  /\ msg \in {0} \cup Messages /\ polls \in 0 .. Polls
  /\ wedged \in BOOLEAN /\ registered \subseteq Index
  /\ port \in {"signal", "ignore", "deleted"}
  /\ alive \subseteq Messages /\ notes \in 0 .. MaxNotes
  /\ up \subseteq Index
  /\ held \subseteq Messages
  /\ queue \in Seq(Messages)

-----------------------------------------------------------------------------
(* The GUI task. *)

\* Mutant: after a missing answer the next notification is tried all the same.
GfNotify_Again ==
  /\ pc = "idle" /\ notes < MaxNotes
  /\ notes' = notes + 1
  /\ \/ \E s \in up :
          /\ \A u \in up : s <= u
          /\ target' = s
          /\ pc' = IF s \in registered THEN "note" ELSE "register"
     \/ up = {} /\ UNCHANGED <<target, pc>>
  /\ UNCHANGED <<sending, msg, polls, wedged, registered, port, alive, up, held, queue>>

\* The first server that runs gets it; a server not yet used, after REGISTERAPP.
GfNotify ==
  /\ pc = "idle" /\ notes < MaxNotes /\ ~wedged
  /\ notes' = notes + 1
  /\ \/ \E s \in up :
          /\ \A u \in up : s <= u
          /\ target' = s
          /\ pc' = IF s \in registered THEN "note" ELSE "register"
     \/ up = {} /\ UNCHANGED <<target, pc>>
  /\ UNCHANGED <<sending, msg, polls, wedged, registered, port, alive, up, held, queue>>

\* gf_notify goes on after send_command for what.
Continue(what) ==
  IF what = "register" THEN pc' = "note" /\ registered' = registered \cup {target}
  ELSE pc' = "idle" /\ UNCHANGED registered

\* The part of send_command under Forbid: the port may have gone since, then
\* the message is freed at once.
SendCommand ==
  /\ pc \in {"register", "note"}
  /\ IF target \in up
     THEN /\ msg' = Fresh /\ alive' = alive \cup {Fresh}
          /\ held' = held \cup {Fresh}
          /\ sending' = pc /\ polls' = Polls /\ pc' = "wait"
          /\ UNCHANGED registered
     ELSE Continue(pc) /\ UNCHANGED <<msg, alive, held, sending, polls>>
  /\ UNCHANGED <<target, wedged, port, notes, up, queue>>

\* No memory for the message or its text.
NoMessage ==
  /\ pc \in {"register", "note"}
  /\ Continue(pc)
  /\ UNCHANGED <<target, sending, msg, polls, wedged, port, alive, notes, up, held, queue>>

\* GetMsg found the answer: message and text are freed.
GetAnswer ==
  /\ pc = "wait" /\ polls > 0 /\ queue # <<>>
  /\ queue' = Tail(queue)
  /\ alive' = alive \ {msg} /\ msg' = 0
  /\ Continue(sending)
  /\ UNCHANGED <<target, sending, polls, wedged, port, notes, up, held>>

\* Mutant: there is no end to the waiting.
DelayTicks_NoEnd ==
  /\ pc = "wait" /\ polls > 0 /\ queue = <<>>
  /\ polls' \in {polls, 1}
  /\ UNCHANGED <<pc, target, sending, msg, wedged, registered, port, alive, notes,
                 up, held, queue>>

DelayTicks ==
  /\ pc = "wait" /\ polls > 0 /\ queue = <<>>
  /\ polls' = polls - 1
  /\ UNCHANGED <<pc, target, sending, msg, wedged, registered, port, alive, notes,
                 up, held, queue>>

\* Mutant: the message is freed, as nobody waits for it any more.
GiveUp_Frees ==
  /\ pc = "wait" /\ polls = 0
  /\ port' = "ignore" /\ wedged' = TRUE /\ pc' = "idle"
  /\ alive' = alive \ {msg}
  /\ UNCHANGED <<target, sending, msg, polls, registered, notes, up, held, queue>>

\* No answer in time: the port and the message stay behind, and the port
\* signals nobody any more.
GiveUp ==
  /\ pc = "wait" /\ polls = 0
  /\ port' = "ignore" /\ wedged' = TRUE /\ pc' = "idle"
  /\ UNCHANGED <<target, sending, msg, polls, registered, alive, notes, up, held, queue>>

\* Mutant: the port is deleted whatever is still out.
GfNotifyClose_Always ==
  /\ pc = "idle"
  /\ pc' = "gone" /\ port' = "deleted"
  /\ UNCHANGED <<target, sending, msg, polls, wedged, registered, alive, notes,
                 up, held, queue>>

\* After this the program ends and its task is no more.
GfNotifyClose ==
  /\ pc = "idle"
  /\ pc' = "gone" /\ port' = IF wedged THEN port ELSE "deleted"
  /\ UNCHANGED <<target, sending, msg, polls, wedged, registered, alive, notes,
                 up, held, queue>>

Step == SendCommand \/ NoMessage \/ GetAnswer \/ DelayTicks \/ GiveUp

-----------------------------------------------------------------------------
(* The servers. *)

ServerReply(m) ==
  /\ m \in held
  /\ held' = held \ {m}
  /\ queue' = Append(queue, m)
  /\ UNCHANGED <<client, up>>

ServerStart(s) == s \notin up /\ up' = up \cup {s} /\ UNCHANGED <<client, held, queue>>

\* A server that quits need not answer any more.
ServerQuit(s) == s \in up /\ up' = up \ {s} /\ UNCHANGED <<client, held, queue>>

Init ==
  /\ pc = "idle" /\ target = 0 /\ sending = "note" /\ msg = 0 /\ polls = 0
  /\ wedged = FALSE /\ registered = {} /\ port = "signal" /\ alive = {} /\ notes = 0
  /\ up \in SUBSET Index /\ held = {} /\ queue = <<>>

Next == \/ GfNotify \/ Step \/ GfNotifyClose
        \/ \E m \in held : ServerReply(m)
        \/ \E s \in Index : ServerStart(s) \/ ServerQuit(s)

\* Delay() comes back; servers need not do anything.
Spec == Init /\ [][Next]_vars /\ WF_vars(Step)

-----------------------------------------------------------------------------
\* While a message is waited for it is the only one there is: it is on its way
\* or it is the only one on the reply port.
OneMessage ==
  pc = "wait" => /\ ~wedged /\ port = "signal"
                 /\ msg \in Messages /\ alive = {msg} /\ queue \in {<<>>, <<msg>>}
                 /\ held # {} => held = {msg} /\ queue = <<>>

\* Without such a message, and without one given up, there is none.
Tidy ==
  pc # "wait" /\ ~wedged => /\ alive = {} /\ held = {} /\ queue = <<>>
                            /\ port = IF pc = "gone" THEN "deleted" ELSE "signal"

\* One given up stays, on a port that signals nobody, and no other follows.
GivenUp ==
  wedged => /\ pc \in {"idle", "gone"} /\ port = "ignore"
            /\ alive = {msg} /\ held \subseteq {msg}

\* A server has been chosen.
Chosen == pc \in {"register", "note", "wait"} => target \in Index /\ notes > 0

\* The inductive invariant.
NInv == TypeOK /\ OneMessage /\ Tidy /\ GivenUp /\ Chosen

\* Whenever a server may still reply, the message it has and the port it will
\* put it on exist, and that port does not signal a task that is gone (the
\* comments at wedged and in send_command).
LateReplyIsSafe ==
  \A m \in held : m \in alive /\ port # "deleted" /\ (pc = "gone" => port = "ignore")

\* What GetMsg returns is the answer to the message being waited for: that one
\* is freed without looking at what was returned.
AnswerIsOurs == pc = "wait" /\ queue # <<>> => queue = <<msg>>

\* One message at most is ever given up; without such a one everything is
\* freed by the time the program ends.
LeftBehind ==
  /\ pc \in {"idle", "gone"} => alive = IF wedged THEN {msg} ELSE {}
  /\ pc = "gone" /\ ~wedged => port = "deleted" /\ queue = <<>>

\* A notification never keeps the GUI task, whatever the servers do.
NotifyReturns == pc = "wait" ~> pc = "idle"
=============================================================================
