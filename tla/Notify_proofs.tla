---------------------------- MODULE Notify_proofs ----------------------------
(***************************************************************************)
(* Proofs about Notify, for any servers, any length of the wait and any    *)
(* number of notifications: its types, the inductive invariant NInv, and   *)
(* that a late answer does no harm.                                        *)
(***************************************************************************)
EXTENDS Notify, TLAPS

USE NotifyAssumption DEF Messages, Index

\* A fresh message is there to be had when none is alive.
LEMMA FreshMessage ==
  ASSUME NEW n \in 1 .. MaxNotes, alive = {}
  PROVE  Fresh \in Messages
<1>1. 1 \in Messages /\ \A m \in Messages : 1 <= m
  BY DEF Messages
<1>2. \E m \in Messages : m \notin alive /\ \A k \in Messages \ alive : m <= k
  BY <1>1
<1> QED
  BY <1>2 DEF Fresh

LEMMA InitInv == Init => NInv
<1> SUFFICES ASSUME Init PROVE NInv
  OBVIOUS
<1>1. queue \in Seq(Messages)
  BY DEF Init
<1>2. /\ polls \in 0 .. Polls /\ notes \in 0 .. MaxNotes
      /\ held \subseteq Messages
  BY DEF Init
<1>3. TypeOK
  BY <1>1, <1>2 DEF Init, TypeOK
<1> QED
  BY <1>3 DEF Init, NInv, OneMessage, Tidy, GivenUp, Chosen

\* Each action keeps each part of the invariant; a reply can only be that to
\* the one message there is.
LEMMA StepInv == NInv /\ [Next]_vars => NInv'
<1> SUFFICES ASSUME NInv, [Next]_vars
             PROVE  NInv'
  OBVIOUS
<1> USE DEF NInv, TypeOK, client
<1>1. CASE GfNotify
  BY <1>1 DEF GfNotify, OneMessage, Tidy, GivenUp, Chosen
<1>2. CASE SendCommand
  <2>1. /\ ~wedged /\ alive = {} /\ held = {} /\ queue = <<>> /\ port = "signal"
        /\ target \in 1 .. Len(Servers) /\ notes > 0
    BY <1>2 DEF SendCommand, Tidy, GivenUp, Chosen
  <2>2. Fresh \in Messages
    BY <2>1, FreshMessage
  <2>3. CASE target \in up
    <3>1. /\ msg' = Fresh /\ alive' = {Fresh} /\ pc' = "wait" /\ polls' = Polls
          /\ held' = {Fresh} /\ sending' = pc
          /\ UNCHANGED <<registered, target, wedged, port, notes, up, queue>>
      BY <1>2, <2>1, <2>3 DEF SendCommand
    <3>2. TypeOK'
      BY <1>2, <2>1, <2>2, <3>1 DEF SendCommand
    <3> QED
      BY <2>1, <2>2, <3>1, <3>2 DEF OneMessage, Tidy, GivenUp, Chosen
  <2>4. CASE target \notin up
    BY <1>2, <2>1, <2>4 DEF SendCommand, Continue, OneMessage, Tidy, GivenUp, Chosen
  <2> QED
    BY <2>3, <2>4
<1>3. CASE NoMessage
  BY <1>3 DEF NoMessage, Continue, OneMessage, Tidy, GivenUp, Chosen
<1>4. CASE GetAnswer
  <2>1. /\ queue = <<msg>> /\ alive = {msg} /\ held = {} /\ ~wedged /\ port = "signal"
    BY <1>4 DEF GetAnswer, OneMessage
  <2>2. queue' = <<>> /\ alive' = {}
    BY <1>4, <2>1 DEF GetAnswer
  <2>3. queue' \in Seq(Messages)
    BY <2>2
  <2>4. target \in Index /\ notes > 0
    BY <1>4 DEF GetAnswer, Chosen
  <2>5. /\ UNCHANGED <<target, sending, polls, wedged, port, notes, up, held>>
        /\ msg' = 0 /\ registered' \subseteq Index /\ pc' \in {"note", "idle"}
    BY <1>4, <2>4 DEF GetAnswer, Continue
  <2>6. TypeOK'
    BY <2>2, <2>3, <2>5
  <2> QED
    BY <2>1, <2>2, <2>4, <2>5, <2>6 DEF OneMessage, Tidy, GivenUp, Chosen
<1>5. CASE DelayTicks
  BY <1>5 DEF DelayTicks, OneMessage, Tidy, GivenUp, Chosen
<1>6. CASE GiveUp
  BY <1>6 DEF GiveUp, OneMessage, Tidy, GivenUp, Chosen
<1>7. CASE GfNotifyClose
  BY <1>7 DEF GfNotifyClose, OneMessage, Tidy, GivenUp, Chosen
<1>8. ASSUME NEW m \in held, ServerReply(m) PROVE NInv'
  <2>1. queue' = Append(queue, m) /\ held' = held \ {m} /\ UNCHANGED <<client, up>>
    BY <1>8 DEF ServerReply
  <2>2. TypeOK'
    <3>1. m \in Messages
      BY <1>8
    <3>2. queue' \in Seq(Messages)
      BY <2>1, <3>1
    <3> QED
      BY <2>1, <3>2
  <2>3. OneMessage'
    <3>1. CASE pc = "wait"
      <4>1. queue = <<>> /\ held = {msg} /\ m = msg
        BY <3>1 DEF OneMessage
      <4>2. queue' = <<msg>> /\ held' = {}
        BY <2>1, <4>1
      <4> QED
        BY <2>1, <3>1, <4>2 DEF OneMessage
    <3> QED
      BY <2>1, <3>1 DEF OneMessage
  <2>4. Tidy'
    BY <1>8, <2>1 DEF Tidy
  <2>5. GivenUp' /\ Chosen'
    BY <2>1 DEF GivenUp, Chosen
  <2> QED
    BY <2>2, <2>3, <2>4, <2>5
<1>9. ASSUME NEW s \in Index, ServerStart(s) \/ ServerQuit(s) PROVE NInv'
  <2>1. up' \subseteq Index /\ UNCHANGED <<client, held, queue>>
    BY <1>9 DEF ServerStart, ServerQuit
  <2> QED
    BY <2>1 DEF OneMessage, Tidy, GivenUp, Chosen
<1>10. CASE UNCHANGED vars
  BY <1>10 DEF vars, OneMessage, Tidy, GivenUp, Chosen
<1> QED
  BY <1>1, <1>2, <1>3, <1>4, <1>5, <1>6, <1>7, <1>8, <1>9, <1>10 DEF Next, Step

\* The inductive invariant holds throughout: at most one message of GitFetch is
\* out, and after one was given up no other follows.
THEOREM Invariance == Spec => []NInv
BY InitInv, StepInv, PTL DEF Spec

\* The variables keep their types; in particular the wait ends at zero.
THEOREM TypeCorrect == Spec => []TypeOK
<1>1. NInv => TypeOK
  BY DEF NInv
<1> QED
  BY Invariance, <1>1, PTL

\* A late reply finds its message and the port, and wakes no task that is gone.
THEOREM LateReplies == Spec => []LateReplyIsSafe
<1>1. NInv => LateReplyIsSafe
  BY DEF NInv, TypeOK, OneMessage, Tidy, GivenUp, LateReplyIsSafe
<1> QED
  BY Invariance, <1>1, PTL

\* The message freed after GetMsg is the one that was answered.
THEOREM Answers == Spec => []AnswerIsOurs
<1>1. NInv => AnswerIsOurs
  BY DEF NInv, OneMessage, AnswerIsOurs
<1> QED
  BY Invariance, <1>1, PTL

\* What stays behind is at most the one message that was given up.
THEOREM Leftovers == Spec => []LeftBehind
<1>1. NInv => LeftBehind
  BY DEF NInv, OneMessage, Tidy, GivenUp, LeftBehind
<1> QED
  BY Invariance, <1>1, PTL
=============================================================================
