------------------------- MODULE GitFetchJob_proofs -------------------------
(***************************************************************************)
(* Proofs about GitFetchJob: its types, the inductive invariant IInv and   *)
(* what follows from it, for any set of processes, any repositories and    *)
(* any number of blocks; that every step is a step of JobPromise; what the *)
(* window shows.                                                           *)
(***************************************************************************)
EXTENDS GitFetchJob, TLAPS

USE DEF view, winState, shared

-----------------------------------------------------------------------------
(* The records the actions build have the types TypeOK asks for.            *)

LEMMA StatusTypes ==
  /\ \A t \in {"info", "working", "aborting"} : Text(t) \in Statuses
  /\ \A e \in Results \cup {"NOCA"} : Blame(e) \in Statuses
BY DEF Text, Blame, Statuses, Results, Errors

LEMMA FreshTypes ==
  /\ FreshJob \in Jobs /\ FreshXfer \in Xfers
  /\ Nothing \in Lists /\ NoRelease \in Items
BY DEF FreshJob, FreshXfer, Nothing, NoRelease, Jobs, Xfers, Lists, Items, Names,
       Tasks, Results, Errors

LEMMA JobTypes ==
  ASSUME NEW j \in Jobs, NEW p \in Procs, NEW n \in Nat, NEW m \in Nat, NEW e \in Results,
         NEW i \in Items, NEW ty \in {"fetch", "download"},
         NEW k \in Nat
  PROVE  /\ [j EXCEPT !.workerTask = p, !.sofar = 0, !.total = 0] \in Jobs
         /\ [j EXCEPT !.sofar = n, !.total = m, !.lastSignalled = k] \in Jobs
         /\ [j EXCEPT !.result = e, !.running = FALSE] \in Jobs
         /\ [j EXCEPT !.running = TRUE] \in Jobs
         /\ [j EXCEPT !.type = ty, !.item = i] \in Jobs
BY DEF Jobs, Tasks

LEMMA XferTypes ==
  ASSUME NEW x \in Xfers, NEW e \in Results, NEW n \in Nat, NEW b \in {"proxy", "native"}
  PROVE  /\ [x EXCEPT !.err = e] \in Xfers
         /\ [FreshXfer EXCEPT !.err = e, !.blocks = x.blocks] \in Xfers
         /\ [x EXCEPT !.length = n, !.backend = b] \in Xfers
         /\ [x EXCEPT !.ready = TRUE] \in Xfers
         /\ [x EXCEPT !.ready = FALSE, !.blocks = @ + 1] \in Xfers
<1>1. x.blocks + 1 \in Nat
  BY DEF Xfers
<1>2. ASSUME NEW m \in Nat PROVE [x EXCEPT !.ready = FALSE, !.blocks = m] \in Xfers
  BY DEF Xfers
<1>3. [x EXCEPT !.err = e] \in Xfers /\ [x EXCEPT !.length = n, !.backend = b] \in Xfers
  BY DEF Xfers
<1>4. [FreshXfer EXCEPT !.err = e, !.blocks = x.blocks] \in Xfers /\ [x EXCEPT !.ready = TRUE] \in Xfers
  BY FreshTypes DEF Xfers
<1>5. QED
  BY <1>1, <1>2, <1>3, <1>4

-----------------------------------------------------------------------------
(* Type correctness, one lemma per shared part of the handlers. *)

LEMMA StartTypes ==
  ASSUME TypeOK, NEW ty \in {"fetch", "download"}, NEW it \in Items, StartJob(ty, it)
  PROVE  /\ status' \in Statuses /\ jobActive' \in BOOLEAN /\ stopAsked' \in BOOLEAN
         /\ gauge' \in Nat /\ buttons' \in {"idle", "busy"}
         /\ job' \in Jobs /\ mail' \in {"home", "port", "worker", "reply"}
         /\ pc' \in [Procs -> WorkerStates] /\ ctrlC' \in [Procs -> BOOLEAN]
<1>1. LET j == [FreshJob EXCEPT !.type = ty, !.item = it] IN
        \/ \E p \in Procs :
             /\ pc[p] = "none"
             /\ pc' = [pc EXCEPT ![p] = "waitport"]
             /\ ctrlC' = [ctrlC EXCEPT ![p] = FALSE]
             /\ job' = [j EXCEPT !.running = TRUE]
             /\ mail' = "port"
             /\ jobActive' = TRUE
             /\ stopAsked' = FALSE
             /\ UpdateButtons(TRUE)
             /\ gauge' = IF ty = "download" THEN 0 ELSE gauge
             /\ SetStatus(Text("working"))
        \/ /\ job' = j
           /\ SetStatus(Text("info"))
           /\ UNCHANGED <<pc, ctrlC, mail, jobActive, stopAsked, buttons, gauge>>
  BY DEF StartJob
<1> DEFINE j == [FreshJob EXCEPT !.type = ty, !.item = it]
<1>2. j \in Jobs /\ [j EXCEPT !.running = TRUE] \in Jobs
  <2>1. j \in Jobs
    BY FreshTypes DEF Jobs
  <2>2. QED
    BY <2>1 DEF Jobs
<1>3. Text("working") \in Statuses /\ Text("info") \in Statuses
  BY StatusTypes
<1>4. job' \in Jobs
  BY <1>1, <1>2
<1>5. status' \in Statuses /\ buttons' \in {"idle", "busy"}
  BY <1>1, <1>3 DEF SetStatus, UpdateButtons, TypeOK
<1>6. "waitport" \in WorkerStates
  BY DEF WorkerStates
<1>7. pc' \in [Procs -> WorkerStates] /\ ctrlC' \in [Procs -> BOOLEAN]
  BY <1>1, <1>6 DEF TypeOK
<1>8. /\ (jobActive' = TRUE /\ stopAsked' = FALSE) \/ UNCHANGED <<jobActive, stopAsked>>
      /\ gauge' = 0 \/ gauge' = gauge
      /\ mail' = "port" \/ mail' = mail
  BY <1>1, Zenon
<1>9. gauge' \in Nat /\ mail' \in {"home", "port", "worker", "reply"}
  BY <1>8 DEF TypeOK
<1>10. jobActive' \in BOOLEAN /\ stopAsked' \in BOOLEAN
  BY <1>8, Zenon DEF TypeOK
<1>11. QED
  BY <1>4, <1>5, <1>7, <1>9, <1>10

LEMMA FetchTypes ==
  ASSUME TypeOK, NEW r \in Names, ActionFetch(r)
  PROVE  /\ status' \in Statuses /\ jobActive' \in BOOLEAN /\ stopAsked' \in BOOLEAN
         /\ gauge' \in Nat /\ buttons' \in {"idle", "busy"}
         /\ job' \in Jobs /\ mail' \in {"home", "port", "worker", "reply"}
         /\ pc' \in [Procs -> WorkerStates] /\ ctrlC' \in [Procs -> BOOLEAN]
<1>1. CASE jobActive \/ r = NoRepo
  <2>1. UNCHANGED <<job, mail, pc, ctrlC, jobActive, stopAsked, buttons, gauge>>
    BY <1>1 DEF ActionFetch
  <2>2. status' = status \/ SetStatus(Text("info"))
    BY <1>1 DEF ActionFetch
  <2>3. status' \in Statuses
    BY <2>2, StatusTypes DEF SetStatus, TypeOK
  <2>4. QED
    BY <2>1, <2>3 DEF TypeOK
<1>2. CASE ~(jobActive \/ r = NoRepo)
  <2>1. StartJob("fetch", [of |-> r, release |-> -1])
    BY <1>2 DEF ActionFetch
  <2>2. [of |-> r, release |-> -1] \in Items
    BY DEF Items
  <2>3. QED
    BY <2>1, <2>2, StartTypes
<1>3. QED
  BY <1>1, <1>2

LEMMA ReplyTypes ==
  ASSUME TypeOK, HandleReply
  PROVE  /\ mail' \in {"home", "port", "worker", "reply"} /\ jobActive' \in BOOLEAN
         /\ status' \in Statuses /\ list' \in Lists /\ selected' \in Int
         /\ rows' \in Lists /\ files' \in Items /\ gauge' \in Nat
         /\ buttons' \in {"idle", "busy"}
<1> DEFINE failed  == job.result # "OK"
           newList == IF job.type = "fetch" /\ failed THEN Nothing ELSE list
           first   == IF newList.n > 0 THEN 0 ELSE -1
<1>1. newList \in Lists /\ first \in Int
  BY FreshTypes DEF TypeOK
<1>2. Blame(serverMsg) \in Statuses \/ serverMsg = "none"
  BY StatusTypes DEF TypeOK, Results
<1>3. Blame(job.result) \in Statuses /\ Text("info") \in Statuses
  BY StatusTypes DEF TypeOK, Jobs
<1>4. status' \in Statuses
  BY <1>2, <1>3 DEF HandleReply, SetStatus, TypeOK
<1>5. newList.n \in Nat /\ newList.of \in Names
  BY <1>1 DEF Lists
<1>6. list' = newList /\ (job.type = "fetch" =>
         /\ selected' = first /\ rows' = newList
         /\ files' = IF 0 <= first /\ first < newList.n
                     THEN [of |-> newList.of, release |-> first] ELSE NoRelease)
      /\ (job.type # "fetch" => selected' = selected /\ rows' = rows /\ files' = files)
  BY DEF HandleReply, FillReleaseList, FillAssetList
<1>7. [of |-> newList.of, release |-> first] \in Items /\ NoRelease \in Items
  BY <1>1, <1>5, FreshTypes DEF Items
<1>8. list' \in Lists /\ selected' \in Int /\ rows' \in Lists /\ files' \in Items
  BY <1>1, <1>6, <1>7 DEF TypeOK
<1>9. QED
  BY <1>4, <1>8 DEF HandleReply, ClearGauge, UpdateButtons, TypeOK

-----------------------------------------------------------------------------
(* Type correctness of the three kinds of steps. *)

LEMMA GuiTypes == TypeOK /\ GuiStep => TypeOK'
<1> SUFFICES ASSUME TypeOK, GuiStep PROVE TypeOK'
  OBVIOUS
<1> USE DEF GuiStates
<1>1. CASE GuiStart
  <2>1. CASE \E r \in Names : ActionFetch(r)
    BY <1>1, <2>1, FetchTypes DEF GuiStart, StartFrame, TypeOK
  <2>2. CASE UNCHANGED <<job, mail, pc, ctrlC, jobActive, stopAsked, buttons, gauge, status>>
    BY <1>1, <2>2 DEF GuiStart, StartFrame, TypeOK
  <2>3. QED
    BY <1>1, <2>1, <2>2 DEF GuiStart
<1>2. CASE GuiWake
  BY <1>2 DEF GuiWake, TypeOK, procVars
<1>3. CASE GuiProgress
  <2>1. job.sofar \in Nat /\ job.total \in Nat
    BY DEF TypeOK, Jobs
  <2>2. QED
    BY <1>3, <2>1 DEF GuiProgress, TypeOK, procVars
<1>4. CASE GuiReply
  <2>1. CASE HandleReply /\ UNCHANGED <<guiPc, taken>>
    BY <1>4, <2>1, ReplyTypes DEF GuiReply, TypeOK, procVars
  <2>2. CASE UNCHANGED <<mail, jobActive, status, list, selected, rows, files, gauge, buttons>>
             /\ guiPc' = "input" /\ taken' = taken \ {"port"}
    BY <1>4, <2>2 DEF GuiReply, TypeOK, procVars
  <2>3. QED
    BY <1>4, <2>1, <2>2 DEF GuiReply
<1>5. CASE GuiInputEnd
  BY <1>5 DEF GuiInputEnd, TypeOK, procVars
<1>6. CASE GuiSignal
  BY <1>6 DEF GuiSignal, TypeOK, Tasks
<1>7. CASE GuiLeave
  <2>1. status' \in Statuses
    BY <1>7, StatusTypes DEF GuiLeave, SetStatus, TypeOK
  <2>2. sigTarget' \in Tasks /\ guiPc' \in GuiStates
    BY <1>7 DEF GuiLeave, AbortTest, TypeOK, Jobs
  <2>3. QED
    BY <1>7, <2>1, <2>2 DEF GuiLeave, TypeOK, procVars
<1>8. CASE GuiDrain
  BY <1>8, ReplyTypes DEF GuiDrain, TypeOK, procVars
<1>9. CASE GuiCleanup
  BY <1>9, FreshTypes DEF GuiCleanup, TypeOK, procVars
<1>10. QED
  BY <1>1, <1>2, <1>3, <1>4, <1>5, <1>6, <1>7, <1>8, <1>9 DEF GuiStep

LEMMA InputTypes == TypeOK /\ OnInput => TypeOK'
<1> SUFFICES ASSUME TypeOK, OnInput PROVE TypeOK'
  OBVIOUS
<1> USE DEF GuiStates, InputFrame, procVars
<1>1. ASSUME NEW r \in Names, OnFetch(r) PROVE TypeOK'
  BY <1>1, FetchTypes DEF OnFetch, StartFrame, TypeOK
<1>2. ASSUME NEW i \in 0 .. MaxBlocks, OnRelease(i) PROVE TypeOK'
  <2>1. MaxBlocks \in Nat /\ i \in Int
    BY JobAssumption
  <2>2. list.of \in Names /\ [of |-> list.of, release |-> i] \in Items /\ NoRelease \in Items
    BY <2>1, FreshTypes DEF TypeOK, Lists, Items
  <2>3. status' \in Statuses /\ files' \in Items /\ selected' \in Int
    BY <1>2, <2>1, <2>2, StatusTypes DEF OnRelease, FillAssetList, SetStatus, TypeOK
  <2>4. QED
    BY <1>2, <2>3 DEF OnRelease, TypeOK
<1>3. CASE OnDownload
  <2>1. CASE StartJob("download", [of |-> list.of, release |-> selected])
    <3>1. [of |-> list.of, release |-> selected] \in Items
      BY DEF TypeOK, Lists, Items
    <3>2. QED
      BY <1>3, <2>1, <3>1, StartTypes DEF OnDownload, StartFrame, TypeOK
  <2>2. CASE /\ IF jobActive THEN UNCHANGED status ELSE SetStatus(Text("info"))
             /\ UNCHANGED <<job, mail, pc, ctrlC, jobActive, stopAsked, buttons, gauge>>
    <3>1. status' \in Statuses
      BY <2>2, StatusTypes DEF SetStatus, TypeOK
    <3>2. QED
      BY <1>3, <2>2, <3>1 DEF OnDownload, StartFrame, TypeOK
  <2>3. QED
    BY <1>3, <2>1, <2>2 DEF OnDownload
<1>4. CASE OnStop
  <2>1. status' \in Statuses
    BY <1>4, StatusTypes DEF OnStop, SetStatus, TypeOK
  <2>2. sigTarget' \in Tasks /\ guiPc' \in GuiStates
    BY <1>4 DEF OnStop, AbortTest, TypeOK, Jobs
  <2>3. stopAsked' \in BOOLEAN
    BY <1>4 DEF OnStop, TypeOK
  <2>4. QED
    BY <1>4, <2>1, <2>2, <2>3 DEF OnStop, TypeOK
<1>5. CASE OnClose
  BY <1>5 DEF OnClose, TypeOK
<1>6. CASE OnIconify
  BY <1>6 DEF OnIconify, TypeOK
<1>7. CASE OnUniconify
  BY <1>7 DEF OnUniconify, TypeOK
<1>8. QED
  BY <1>1, <1>2, <1>3, <1>4, <1>5, <1>6, <1>7 DEF OnInput

\* Return(p, e) moves the process to "close" with a typed error.
LEMMA ReturnTypes ==
  ASSUME TypeOK, NEW p \in Procs, NEW e \in Results, Return(p, e)
  PROVE  pc' \in [Procs -> WorkerStates] /\ xfer' \in Xfers
BY XferTypes DEF Return, Goto, TypeOK, WorkerStates, Holding

LEMMA GotoTypes ==
  ASSUME TypeOK, NEW p \in Procs, NEW q \in WorkerStates, Goto(p, q)
  PROVE  pc' \in [Procs -> WorkerStates]
BY DEF Goto, TypeOK

LEMMA WorkerTypes ==
  ASSUME TypeOK, NEW p \in Procs, WorkerStep(p) \/ WaitFails(p) \/ NetworkAnswers(p)
  PROVE  TypeOK'
<1> USE DEF WorkerFrame, guiVars
<1>a. {"none", "exit", "open", "call", "read", "sink", "close", "result", "reply"}
        \subseteq WorkerStates
  BY DEF WorkerStates, Holding
<1>b. xfer \in Xfers /\ job \in Jobs /\ list \in Lists /\ p \in Tasks /\ NoTask \in Tasks
  BY DEF TypeOK, Tasks
<1>c. xfer.blocks \in Nat /\ xfer.length \in Nat /\ xfer.err \in Results /\ job.item \in Items
  BY <1>b DEF Xfers, Jobs
<1>d. {"SOCKET", "SERVER", "RECV", "ABORTED", "OK"} \subseteq Results /\ 0 \in Nat
      /\ MaxBlocks \in Nat
  BY JobAssumption DEF Results, Errors
<1>1. CASE GetJob(p)
  <2>1. job' \in Jobs
    BY <1>1, <1>b DEF GetJob, Jobs, Tasks
  <2>2. QED
    BY <1>1, <1>a, <2>1, FreshTypes, GotoTypes DEF GetJob, TypeOK
<1>2. CASE NetOpen(p)
  <2>1. xfer' \in Xfers
    BY <1>2, <1>b, <1>d, XferTypes DEF NetOpen
  <2>2. pc' \in [Procs -> WorkerStates]
    BY <1>2, <1>a, GotoTypes DEF NetOpen
  <2>3. socketBase' \in Tasks
    BY <1>2, <1>b DEF NetOpen, TypeOK
  <2>4. QED
    BY <1>2, <2>1, <2>2, <2>3 DEF NetOpen, TypeOK
<1>3. CASE Dispatch(p)
  <2>1. list' \in Lists
    BY <1>3, <1>b, FreshTypes DEF Dispatch, BundleMissing, Cleared
  <2>2. serverMsg' \in Errors \cup {"none", "NOCA"} /\ job' \in Jobs
    BY <1>3, <1>b DEF Dispatch, BundleMissing, Cleared, Errors, Jobs
  <2>3. pc' \in [Procs -> WorkerStates] /\ xfer' \in Xfers
    <3>1. ASSUME Goto(p, "read"), NEW n \in {0, MaxBlocks}, NEW b \in Backends,
                 xfer' = [xfer EXCEPT !.length = n, !.backend = b]
          PROVE  pc' \in [Procs -> WorkerStates] /\ xfer' \in Xfers
      BY <3>1, <1>a, <1>b, <1>d, XferTypes, GotoTypes, JobAssumption
    <3>2. ASSUME NEW e \in {"SERVER", "RECV"}, Return(p, e)
          PROVE  pc' \in [Procs -> WorkerStates] /\ xfer' \in Xfers
      BY <3>2, <1>d, ReturnTypes
    <3>3. QED
      BY <1>3, <3>1, <3>2 DEF Dispatch, BundleMissing, Cleared
  <2>4. QED
    BY <1>3, <2>1, <2>2, <2>3 DEF Dispatch, BundleMissing, Cleared, TypeOK
<1>4. CASE NetworkAnswers(p)
  BY <1>4, <1>b, XferTypes, <1>d DEF NetworkAnswers, TypeOK
<1>5. CASE WaitFails(p) \/ ReadAborted(p)
  BY <1>5, <1>d, ReturnTypes DEF WaitFails, ReadAborted, TypeOK
<1>6. CASE ReadTimesOut(p)
  BY <1>6, <1>d, ReturnTypes DEF ReadTimesOut, TypeOK
<1>7. CASE ReadReturns(p)
  <2>1. pc' \in [Procs -> WorkerStates] /\ xfer' \in Xfers
    BY <1>7, <1>a, <1>b, <1>d, XferTypes, GotoTypes, ReturnTypes DEF ReadReturns, ReadData
  <2>2. serverMsg' \in Errors \cup {"none", "NOCA"}
    BY <1>7 DEF ReadReturns, ReadData, Errors, TypeOK
  <2>3. QED
    BY <1>7, <2>1, <2>2 DEF ReadReturns, ReadData, TypeOK
<1>8. CASE SinkFetch(p)
  <2>1. pc' \in [Procs -> WorkerStates] /\ xfer' \in Xfers
    BY <1>8, <1>a, <1>b, <1>d, GotoTypes, ReturnTypes DEF SinkFetch, WholeBody
  <2>2. list' \in Lists
    BY <1>8, <1>b, <1>c DEF SinkFetch, WholeBody, Lists, Items
  <2>3. serverMsg' \in Errors \cup {"none", "NOCA"}
    BY <1>8 DEF SinkFetch, Errors, TypeOK
  <2>4. QED
    BY <1>8, <2>1, <2>2, <2>3 DEF SinkFetch, TypeOK
<1>9. CASE SinkDownload(p)
  <2>1. pc' \in [Procs -> WorkerStates] /\ xfer' \in Xfers
    BY <1>9, <1>a, <1>b, <1>d, GotoTypes, ReturnTypes DEF SinkDownload, WholeBody
  <2>2. job' \in Jobs /\ signals' \subseteq Signals
    <3>1. CASE UNCHANGED <<job, signals>>
      BY <3>1 DEF TypeOK
    <3>2. CASE Progress
      BY <3>2, <1>b, <1>c DEF Progress, Jobs, TypeOK, Signals
    <3>3. QED
      BY <1>9, <3>1, <3>2 DEF SinkDownload, WholeBody
  <2>3. QED
    BY <1>9, <2>1, <2>2 DEF SinkDownload, WholeBody, TypeOK
<1>10. CASE NetClose(p)
  BY <1>10, <1>a, <1>b, GotoTypes DEF NetClose, TypeOK
<1>11. CASE SetResult(p)
  <2>1. job' \in Jobs
    BY <1>11, <1>b, <1>c DEF SetResult, Jobs
  <2>2. QED
    BY <1>11, <2>1, <1>a, FreshTypes, GotoTypes DEF SetResult, TypeOK
<1>12. CASE Reply(p)
  BY <1>12, <1>a, GotoTypes DEF Reply, TypeOK, Signals
<1>13. CASE Exit(p)
  BY <1>13, <1>a, GotoTypes DEF Exit, TypeOK
<1>14. QED
  BY <1>1, <1>2, <1>3, <1>4, <1>5, <1>6, <1>7, <1>8, <1>9, <1>10, <1>11, <1>12, <1>13
     DEF WorkerStep

LEMMA InitTypes == Init => TypeOK
<1> SUFFICES ASSUME Init PROVE TypeOK
  OBVIOUS
<1>1. pc \in [Procs -> WorkerStates] /\ ctrlC \in [Procs -> BOOLEAN]
  BY DEF Init, WorkerStates
<1>2. status \in Statuses /\ job \in Jobs /\ xfer \in Xfers /\ list \in Lists
      /\ rows \in Lists /\ files \in Items
  BY FreshTypes, StatusTypes DEF Init
<1>3. done \in BOOLEAN /\ jobActive \in BOOLEAN /\ window \in BOOLEAN
      /\ iconified \in BOOLEAN /\ stopAsked \in BOOLEAN
  BY DEF Init
<1>4. QED
  BY <1>1, <1>2, <1>3 DEF Init, TypeOK, GuiStates, Tasks

LEMMA StepTypes == TypeOK /\ [Next]_vars => TypeOK'
<1> SUFFICES ASSUME TypeOK, [Next]_vars PROVE TypeOK'
  OBVIOUS
<1>1. ASSUME NEW s \in {"win", "break"}, UserSignal(s) PROVE TypeOK'
  BY <1>1 DEF UserSignal, TypeOK, guiVars, procVars, Signals
<1>2. ASSUME NEW p \in Procs, WorkerStep(p) \/ WaitFails(p) \/ NetworkAnswers(p) PROVE TypeOK'
  BY <1>2, WorkerTypes
<1>3. CASE UNCHANGED vars
  BY <1>3 DEF vars, guiVars, procVars, TypeOK
<1>4. QED
  BY <1>1, <1>2, <1>3, GuiTypes, InputTypes DEF Next, Terminated

\* Every variable keeps its type in every behaviour of the program.
THEOREM TypeCorrect == Spec => []TypeOK
BY InitTypes, StepTypes, PTL DEF Spec

-----------------------------------------------------------------------------
(* The inductive invariant. *)

\* All that OneOwner, LibraryOwned and AbortTraced need to know of a start.
StartEffect ==
  \/ \E p \in Procs : /\ pc[p] = "none" /\ pc' = [pc EXCEPT ![p] = "waitport"]
                      /\ ctrlC' = [ctrlC EXCEPT ![p] = FALSE]
                      /\ mail' = "port" /\ jobActive' = TRUE /\ stopAsked' = FALSE
                      /\ job'.result = "OK"
  \/ /\ UNCHANGED <<pc, ctrlC, mail, jobActive, stopAsked>>
     /\ job' = job \/ job'.result = "OK"

LEMMA StartEffects ==
  ASSUME TypeOK, NEW ty \in {"fetch", "download"}, NEW it \in Items, StartJob(ty, it)
  PROVE  StartEffect
<1>1. LET j == [FreshJob EXCEPT !.type = ty, !.item = it] IN
        \/ \E p \in Procs :
             /\ pc[p] = "none"
             /\ pc' = [pc EXCEPT ![p] = "waitport"]
             /\ ctrlC' = [ctrlC EXCEPT ![p] = FALSE]
             /\ job' = [j EXCEPT !.running = TRUE]
             /\ mail' = "port"
             /\ jobActive' = TRUE
             /\ stopAsked' = FALSE
        \/ /\ job' = j
           /\ UNCHANGED <<pc, ctrlC, mail, jobActive, stopAsked>>
  BY DEF StartJob
<1> DEFINE j == [FreshJob EXCEPT !.type = ty, !.item = it]
<1>2. j.result = "OK" /\ [j EXCEPT !.running = TRUE].result = "OK"
  BY DEF FreshJob
<1>3. QED
  BY <1>1, <1>2, Zenon DEF StartEffect

LEMMA FetchEffects ==
  ASSUME TypeOK, NEW r \in Names, ActionFetch(r)
  PROVE  StartEffect /\ (jobActive => UNCHANGED <<pc, ctrlC, mail, jobActive, stopAsked, job>>)
<1>1. CASE jobActive \/ r = NoRepo
  BY <1>1 DEF ActionFetch, StartEffect
<1>2. CASE ~(jobActive \/ r = NoRepo)
  <2>1. StartJob("fetch", [of |-> r, release |-> -1])
    BY <1>2 DEF ActionFetch
  <2>2. [of |-> r, release |-> -1] \in Items
    BY DEF Items
  <2>3. QED
    BY <1>2, <2>1, <2>2, StartEffects
<1>3. QED
  BY <1>1, <1>2

\* A start from an idle GUI keeps everything but the first clause on guiPc.
LEMMA StartInvariant ==
  ASSUME IInv, StartEffect, ~jobActive, xfer' = xfer, socketBase' = socketBase,
         sigTarget' = sigTarget, sigTarget = NoTask,
         guiPc' \in {"start", "cleanup", "freed"} => ~jobActive'
  PROVE  OneOwner' /\ LibraryOwned' /\ AbortTraced'
<1> USE DEF IInv, TypeOK
<1>1. CASE UNCHANGED <<pc, ctrlC, mail, jobActive, stopAsked>> /\ (job' = job \/ job'.result = "OK")
  BY <1>1 DEF OneOwner, LibraryOwned, OneTaskPerBase, AbortTraced, AbortedOnlyIfAsked
<1>2. ASSUME NEW p \in Procs, pc[p] = "none", pc' = [pc EXCEPT ![p] = "waitport"],
             ctrlC' = [ctrlC EXCEPT ![p] = FALSE],
             mail' = "port", jobActive' = TRUE, stopAsked' = FALSE, job'.result = "OK"
      PROVE  OneOwner' /\ LibraryOwned' /\ AbortTraced'
  <2>1. mail = "home"
    BY DEF OneOwner
  <2>2. \A q \in Procs : pc[q] \notin Engaged
    BY <2>1 DEF OneOwner, Engaged
  <2>3. \A q \in Procs : q # p => pc'[q] = pc[q] /\ ctrlC'[q] = ctrlC[q]
    BY <1>2
  <2>4. pc'[p] = "waitport" /\ ctrlC'[p] = FALSE
    BY <1>2
  <2>5. OneOwner'
    BY <1>2, <2>2, <2>3, <2>4 DEF OneOwner, Engaged, Holding
  <2>6. LibraryOwned'
    BY <2>2, <2>3, <2>4 DEF LibraryOwned, OneTaskPerBase, OnNet, Engaged, Holding, Tasks
  <2>7. AbortTraced'
    BY <1>2, <2>1, <2>2, <2>3, <2>4 DEF AbortTraced, AbortedOnlyIfAsked
  <2>8. QED
    BY <2>5, <2>6, <2>7
<1>3. QED
  BY <1>1, <1>2 DEF StartEffect

LEMMA GuiInvariant == IInv /\ GuiStep => OneOwner' /\ LibraryOwned' /\ AbortTraced'
<1> SUFFICES ASSUME IInv, GuiStep PROVE OneOwner' /\ LibraryOwned' /\ AbortTraced'
  OBVIOUS
<1> USE DEF GuiStates, procVars
<1>q. sigTarget # NoTask => guiPc \in {"signal", "leavesignal"}
  BY DEF IInv, AbortTraced
<1>1. CASE GuiStart
  <2>1. ~jobActive /\ sigTarget = NoTask
    BY <1>1, <1>q DEF GuiStart, IInv, OneOwner
  <2>2. CASE guiPc' = "wait" /\ \E r \in Names : ActionFetch(r)
    BY <1>1, <2>1, <2>2, FetchEffects, StartInvariant DEF GuiStart, StartFrame, IInv
  <2>3. CASE /\ UNCHANGED <<job, mail, pc, ctrlC, jobActive, stopAsked, buttons, gauge, status>>
    <3>1. StartEffect
      BY <2>3 DEF StartEffect
    <3>2. QED
      BY <1>1, <2>1, <2>3, <3>1, StartInvariant DEF GuiStart, StartFrame
  <2>4. QED
    BY <1>1, <2>2, <2>3 DEF GuiStart
<1>2. CASE GuiWake \/ GuiProgress \/ GuiInputEnd
  BY <1>2, <1>q DEF GuiWake, GuiProgress, GuiInputEnd, IInv, OneOwner, LibraryOwned,
     OneTaskPerBase, AbortTraced, AbortedOnlyIfAsked
<1>3. CASE GuiReply \/ GuiDrain
  <2>1. CASE HandleReply
    <3>1. /\ mail = "reply" /\ mail' = "home" /\ ~jobActive'
          /\ UNCHANGED <<pc, ctrlC, xfer, socketBase, job, stopAsked, sigTarget>>
      BY <1>3, <2>1 DEF GuiReply, GuiDrain, HandleReply
    <3>2. OneOwner'
      BY <3>1 DEF IInv, OneOwner
    <3>3. LibraryOwned'
      BY <3>1 DEF IInv, LibraryOwned, OneTaskPerBase
    <3>4. AbortTraced'
      BY <1>3, <1>q, <3>1 DEF IInv, AbortTraced, AbortedOnlyIfAsked, GuiReply, GuiDrain
    <3>5. QED
      BY <3>2, <3>3, <3>4
  <2>2. CASE ~HandleReply
    BY <1>3, <1>q, <2>2 DEF GuiReply, GuiDrain, IInv, OneOwner, LibraryOwned,
       OneTaskPerBase, AbortTraced, AbortedOnlyIfAsked
  <2>3. QED
    BY <2>1, <2>2
<1>4. CASE GuiSignal
  <2>1. OneOwner' /\ LibraryOwned'
    BY <1>4 DEF GuiSignal, IInv, OneOwner, LibraryOwned, OneTaskPerBase
  <2>2. \A p \in Procs : ctrlC'[p] => ctrlC[p] \/ p = sigTarget
    BY <1>4 DEF GuiSignal
  <2>3. AbortTraced'
    BY <1>4, <2>2, JobAssumption DEF GuiSignal, IInv, AbortTraced, AbortedOnlyIfAsked
  <2>4. QED
    BY <2>1, <2>3
<1>5. CASE GuiLeave
  BY <1>5, <1>q DEF GuiLeave, AbortTest, IInv, OneOwner, LibraryOwned, OneTaskPerBase,
     AbortTraced, AbortedOnlyIfAsked
<1>6. CASE GuiCleanup
  BY <1>6, <1>q DEF GuiCleanup, IInv, OneOwner, LibraryOwned, OneTaskPerBase,
     AbortTraced, AbortedOnlyIfAsked
<1>7. QED
  BY <1>1, <1>2, <1>3, <1>4, <1>5, <1>6 DEF GuiStep

LEMMA InputInvariant == IInv /\ OnInput => OneOwner' /\ LibraryOwned' /\ AbortTraced'
<1> SUFFICES ASSUME IInv, OnInput PROVE OneOwner' /\ LibraryOwned' /\ AbortTraced'
  OBVIOUS
<1> USE DEF InputFrame, procVars
<1>q. guiPc = "input" => sigTarget = NoTask
  BY DEF IInv, AbortTraced
<1>1. ASSUME NEW r \in Names, OnFetch(r) PROVE OneOwner' /\ LibraryOwned' /\ AbortTraced'
  <2>1. StartEffect /\ (jobActive => UNCHANGED <<pc, ctrlC, mail, jobActive, stopAsked, job>>)
    BY <1>1, FetchEffects DEF OnFetch, IInv
  <2>2. CASE jobActive
    BY <1>1, <1>q, <2>1, <2>2 DEF OnFetch, StartFrame, IInv, OneOwner, LibraryOwned,
       OneTaskPerBase, AbortTraced, AbortedOnlyIfAsked
  <2>3. CASE ~jobActive
    BY <1>1, <1>q, <2>1, <2>3, StartInvariant DEF OnFetch, StartFrame, Input
  <2>4. QED
    BY <2>2, <2>3
<1>2. CASE OnDownload
  <2>1. CASE ~jobActive /\ StartJob("download", [of |-> list.of, release |-> selected])
    <3>1. [of |-> list.of, release |-> selected] \in Items
      BY DEF IInv, TypeOK, Lists, Items
    <3>2. StartEffect
      BY <2>1, <3>1, StartEffects DEF IInv
    <3>3. QED
      BY <1>2, <1>q, <2>1, <3>2, StartInvariant DEF OnDownload, StartFrame, Input
  <2>2. CASE UNCHANGED <<job, mail, pc, ctrlC, jobActive, stopAsked, buttons, gauge>>
    BY <1>2, <1>q, <2>2 DEF OnDownload, StartFrame, IInv, OneOwner, LibraryOwned,
       OneTaskPerBase, AbortTraced, AbortedOnlyIfAsked
  <2>3. QED
    BY <1>2, <2>1, <2>2 DEF OnDownload
<1>3. ASSUME NEW i \in 0 .. MaxBlocks, OnRelease(i)
      PROVE  OneOwner' /\ LibraryOwned' /\ AbortTraced'
  BY <1>3, <1>q DEF OnRelease, IInv, OneOwner, LibraryOwned, OneTaskPerBase, AbortTraced,
     AbortedOnlyIfAsked
<1>4. CASE OnStop
  BY <1>4, <1>q DEF OnStop, Input, AbortTest, IInv, OneOwner, LibraryOwned,
     OneTaskPerBase, AbortTraced, AbortedOnlyIfAsked
<1>5. CASE OnClose \/ OnIconify \/ OnUniconify
  BY <1>5, <1>q DEF OnClose, OnIconify, OnUniconify, IInv, OneOwner, LibraryOwned,
     OneTaskPerBase, AbortTraced, AbortedOnlyIfAsked
<1>6. QED
  BY <1>1, <1>2, <1>3, <1>4, <1>5 DEF OnInput

\* A worker step moves one process; that process is the only one engaged with
\* the job, or it was not and is not.
LEMMA WorkerInvariant ==
  ASSUME IInv, NEW p \in Procs, WorkerStep(p) \/ WaitFails(p) \/ NetworkAnswers(p)
  PROVE  OneOwner' /\ LibraryOwned' /\ AbortTraced'
<1> USE DEF WorkerFrame, guiVars, Goto, Return
<1>a. /\ pc \in [Procs -> WorkerStates] /\ ctrlC \in [Procs -> BOOLEAN]
      /\ xfer \in Xfers /\ job \in Jobs
  BY DEF IInv, TypeOK
<1>b. \A q \in Procs : q # p /\ pc[p] \in Engaged => pc[q] \notin Engaged
  BY DEF IInv, OneOwner
<1>c. OnNet \subseteq Holding /\ Holding \subseteq Engaged /\ p # NoTask
  BY JobAssumption DEF OnNet, Holding, Engaged
<1>1. CASE GetJob(p)
  <2>1. OneOwner'
    BY <1>1, <1>a, <1>b DEF GetJob, IInv, OneOwner, Engaged, Holding
  <2>2. LibraryOwned'
    BY <1>1, <1>a DEF GetJob, IInv, LibraryOwned, OneTaskPerBase, OnNet
  <2>3. job'.result = job.result
    BY <1>1, <1>a DEF GetJob, Jobs
  <2>4. AbortTraced'
    BY <1>1, <1>a, <2>3 DEF GetJob, IInv, AbortTraced, AbortedOnlyIfAsked, Engaged,
       Holding, FreshXfer
  <2>5. QED
    BY <2>1, <2>2, <2>4
<1>2. CASE NetOpen(p)
  <2>1. pc[p] = "open" /\ mail = "worker" /\ socketBase = NoTask
    <3>1. pc[p] = "open" /\ mail = "worker"
      BY <1>2 DEF NetOpen, IInv, OneOwner, Holding
    <3>2. socketBase # NoTask => socketBase \in Procs /\ pc[socketBase] \in OnNet
      BY DEF IInv, TypeOK, Tasks, LibraryOwned
    <3>3. QED
      BY <3>1, <3>2, <1>b, <1>c DEF OnNet, Holding, Engaged
  <2>2. OneOwner'
    BY <1>2, <2>1, <1>a, <1>b DEF NetOpen, IInv, OneOwner, Engaged, Holding
  <2>3. LibraryOwned'
    BY <1>2, <2>1, <1>a, <1>b, <1>c DEF NetOpen, IInv, LibraryOwned, OneTaskPerBase,
       OnNet, Engaged, Holding
  <2>4. xfer'.err # "ABORTED" \/ xfer' = xfer
    BY <1>2, <1>a DEF NetOpen, Xfers
  <2>5. AbortTraced'
    BY <1>2, <2>1, <2>4, <1>a, <1>b DEF NetOpen, IInv, AbortTraced, AbortedOnlyIfAsked,
       Engaged, Holding
  <2>6. QED
    BY <2>2, <2>3, <2>5
<1>3. ASSUME pc[p] \in OnNet, pc' = pc \/ (\E q \in OnNet : pc' = [pc EXCEPT ![p] = q]),
             mail' = mail, socketBase' = socketBase, job'.result = job.result,
             ctrlC' = ctrlC \/ ctrlC' = [ctrlC EXCEPT ![p] = FALSE],
             xfer'.err = "ABORTED" => ctrlC[p] \/ xfer.err = "ABORTED",
             UNCHANGED guiVars
      PROVE  OneOwner' /\ LibraryOwned' /\ AbortTraced'
  <2>1. pc'[p] \in OnNet /\ \A q \in Procs : q # p => pc'[q] = pc[q]
    BY <1>3, <1>a
  <2>2. mail = "worker"
    BY <1>3, <1>c DEF IInv, OneOwner
  <2>3. OneOwner'
    BY <1>3, <2>1, <2>2, <1>b, <1>c DEF IInv, OneOwner, Engaged, Holding, OnNet
  <2>4. LibraryOwned'
    BY <1>3, <2>1 DEF IInv, LibraryOwned, OneTaskPerBase
  <2>5. \A q \in Procs : ctrlC'[q] => ctrlC[q]
    BY <1>3, <1>a
  <2>6. \A q \in Procs : pc'[q] \in Engaged => pc[q] \in Engaged
    BY <1>3, <2>1, <1>c
  <2>7. AbortTraced'
    <3>1. \A q \in Procs : pc'[q] # "reply"
      BY <2>1, <1>3, <1>b, <1>c DEF OnNet, Holding, Engaged
    <3>2. QED
      BY <1>3, <2>2, <2>5, <2>6, <3>1, <1>c DEF IInv, AbortTraced, AbortedOnlyIfAsked
  <2>8. QED
    BY <2>3, <2>4, <2>7
<1>4. CASE Dispatch(p) \/ NetworkAnswers(p) \/ WaitFails(p) \/ ReadAborted(p) \/ ReadTimesOut(p)
           \/ ReadReturns(p) \/ SinkFetch(p) \/ SinkDownload(p)
  <2>1. pc[p] \in OnNet /\ mail' = mail /\ socketBase' = socketBase
    BY <1>4 DEF Dispatch, BundleMissing, Cleared, NetworkAnswers, WaitFails, ReadAborted, ReadTimesOut,
       ReadReturns, ReadData, SinkFetch, WholeBody, SinkDownload, OnNet
  <2>2. pc' = pc \/ (\E q \in OnNet : pc' = [pc EXCEPT ![p] = q])
    BY <1>4 DEF Dispatch, BundleMissing, Cleared, NetworkAnswers, WaitFails, ReadAborted, ReadTimesOut,
       ReadReturns, ReadData, SinkFetch, WholeBody, SinkDownload, OnNet
  <2>3. job'.result = job.result
    BY <1>4, <1>a DEF Dispatch, BundleMissing, Cleared, NetworkAnswers, WaitFails, ReadAborted,
       ReadTimesOut, ReadReturns, ReadData, SinkFetch, WholeBody, SinkDownload, Progress,
       Jobs
  <2>4. ctrlC' = ctrlC \/ ctrlC' = [ctrlC EXCEPT ![p] = FALSE]
    BY <1>4 DEF Dispatch, BundleMissing, Cleared, NetworkAnswers, WaitFails, ReadAborted, ReadTimesOut,
       ReadReturns, ReadData, SinkFetch, WholeBody, SinkDownload
  <2>5. xfer'.err = "ABORTED" => ctrlC[p] \/ xfer.err = "ABORTED"
    BY <1>4, <1>a DEF Dispatch, BundleMissing, Cleared, NetworkAnswers, WaitFails, ReadAborted,
       ReadTimesOut, ReadReturns, ReadData, SinkFetch, WholeBody, SinkDownload, Xfers, FreshXfer
  <2>6. QED
    BY <1>3, <1>4, <2>1, <2>2, <2>3, <2>4, <2>5 DEF Dispatch, BundleMissing, Cleared, NetworkAnswers,
       WaitFails, ReadAborted, ReadTimesOut, ReadReturns, ReadData, SinkFetch, WholeBody,
       SinkDownload
<1>5. CASE NetClose(p)
  <2>1. OneOwner'
    BY <1>5, <1>a, <1>b DEF NetClose, IInv, OneOwner, Engaged, Holding
  <2>2. LibraryOwned'
    BY <1>5, <1>a, <1>b, <1>c DEF NetClose, IInv, LibraryOwned, OneTaskPerBase, OnNet,
       Engaged, Holding
  <2>3. AbortTraced'
    BY <1>5, <1>a DEF NetClose, IInv, AbortTraced, AbortedOnlyIfAsked, Engaged, Holding
  <2>4. QED
    BY <2>1, <2>2, <2>3
<1>6. CASE SetResult(p)
  <2>1. OneOwner'
    BY <1>6, <1>a, <1>b DEF SetResult, IInv, OneOwner, Engaged, Holding
  <2>2. LibraryOwned'
    BY <1>6, <1>a DEF SetResult, IInv, LibraryOwned, OneTaskPerBase, OnNet
  <2>3. job'.result = xfer.err /\ xfer'.err = "OK"
    BY <1>6, <1>a DEF SetResult, Jobs, FreshXfer
  <2>4. AbortTraced'
    BY <1>6, <1>a, <2>3 DEF SetResult, IInv, AbortTraced, AbortedOnlyIfAsked, Engaged,
       Holding
  <2>5. QED
    BY <2>1, <2>2, <2>4
<1>7. CASE Reply(p) \/ Exit(p)
  <2>1. OneOwner'
    BY <1>7, <1>a, <1>b DEF Reply, Exit, IInv, OneOwner, Engaged, Holding
  <2>2. LibraryOwned'
    <3>1. pc[p] \notin OnNet /\ pc'[p] \notin OnNet /\ socketBase' = socketBase
          /\ \A q \in Procs : q # p => pc'[q] = pc[q]
      BY <1>7, <1>a DEF Reply, Exit, OnNet
    <3>2. socketBase # NoTask => socketBase \in Procs
      BY DEF IInv, TypeOK, Tasks
    <3>3. QED
      BY <3>1, <3>2 DEF IInv, LibraryOwned, OneTaskPerBase
  <2>3. Reply(p) => xfer.err = "OK"
    BY DEF IInv, AbortTraced, Reply
  <2>4. AbortTraced'
    BY <1>7, <1>a, <2>3 DEF Reply, Exit, IInv, AbortTraced, AbortedOnlyIfAsked, Engaged,
       Holding
  <2>5. QED
    BY <2>1, <2>2, <2>4
<1>8. QED
  BY <1>1, <1>2, <1>4, <1>5, <1>6, <1>7 DEF WorkerStep

-----------------------------------------------------------------------------
(* The theorems. *)

\* The job message, the library and every abort keep the discipline IInv
\* describes, whatever the order of the steps of the GUI and the workers.
THEOREM Invariance == Spec => []IInv
<1>1. Init => IInv
  <2> SUFFICES ASSUME Init PROVE OneOwner /\ LibraryOwned /\ AbortTraced
    BY FreshTypes, StatusTypes, InitTypes DEF IInv
  <2>1. job.result = "OK" /\ xfer.err = "OK"
    BY DEF Init, FreshJob, FreshXfer
  <2>2. \A p \in Procs : pc[p] = "none"
    BY DEF Init
  <2>3. QED
    BY <2>1, <2>2 DEF Init, OneOwner, LibraryOwned, OneTaskPerBase, AbortTraced,
       AbortedOnlyIfAsked, Engaged, Holding, OnNet
<1>2. IInv /\ [Next]_vars => IInv'
  <2> SUFFICES ASSUME IInv, [Next]_vars PROVE IInv'
    OBVIOUS
  <2>1. TypeOK'
    BY StepTypes DEF IInv
  <2>2. CASE GuiStep
    BY <2>1, <2>2, GuiInvariant DEF IInv
  <2>3. CASE OnInput
    BY <2>1, <2>3, InputInvariant DEF IInv
  <2>4. ASSUME NEW s \in {"win", "break"}, UserSignal(s) PROVE IInv'
    BY <2>1, <2>4 DEF UserSignal, guiVars, procVars, IInv, OneOwner, LibraryOwned,
       OneTaskPerBase, AbortTraced, AbortedOnlyIfAsked
  <2>5. ASSUME NEW p \in Procs, WorkerStep(p) \/ WaitFails(p) \/ NetworkAnswers(p) PROVE IInv'
    BY <2>1, <2>5, WorkerInvariant DEF IInv
  <2>6. CASE UNCHANGED vars
    BY <2>1, <2>6 DEF vars, guiVars, procVars, IInv, OneOwner, LibraryOwned,
       OneTaskPerBase, AbortTraced, AbortedOnlyIfAsked
  <2>7. QED
    BY <2>2, <2>3, <2>4, <2>5, <2>6 DEF Next, Terminated
<1>3. QED
  BY <1>1, <1>2, PTL DEF Spec

\* No memory a worker still uses is freed: gf_gui_run waits for the reply.
THEOREM MemoryOutlivesWorker == Spec => []WorkerMemoryAlive
<1>1. IInv => WorkerMemoryAlive
  <2> SUFFICES ASSUME IInv, NEW p \in Procs, pc[p] \notin {"none", "exit"}
               PROVE  guiPc \notin {"cleanup", "freed"}
    BY DEF WorkerMemoryAlive
  <2>1. pc[p] = "waitport" \/ pc[p] \in Holding
    BY DEF IInv, TypeOK, WorkerStates
  <2>2. mail # "home"
    BY <2>1 DEF IInv, OneOwner
  <2>3. QED
    BY <2>2 DEF IInv, OneOwner
<1>2. QED
  BY <1>1, Invariance, PTL

\* bsdsocket.library is used by the task that opened it and by no other.
THEOREM LibraryPerTask == Spec => []OneTaskPerBase
<1>1. IInv => OneTaskPerBase
  BY DEF IInv, LibraryOwned
<1>2. QED
  BY <1>1, Invariance, PTL

\* A job that ends as aborted was asked to.
THEOREM AbortWasAsked == Spec => []AbortedOnlyIfAsked
<1>1. IInv => AbortedOnlyIfAsked
  BY DEF IInv, AbortTraced
<1>2. QED
  BY <1>1, Invariance, PTL

-----------------------------------------------------------------------------
(* The refinement of JobPromise. *)

\* Steps that leave guiPc's end, jobActive, stopAsked and the shown result alone.
LEMMA Stutter ==
  ASSUME jobActive' = jobActive, stopAsked' = stopAsked,
         ~jobActive => job' = job, (guiPc' = "freed") <=> (guiPc = "freed")
  PROVE  UNCHANGED Promise!vars
BY DEF Promise!vars

LEMMA StartRefines ==
  ASSUME StartEffect, ~jobActive, guiPc # "freed", guiPc' # "freed"
  PROVE  [Promise!Next]_(Promise!vars)
BY DEF StartEffect, Promise!Next, Promise!vars, Promise!Begin, Promise!Refuse

LEMMA ReplyRefines ==
  ASSUME IInv, HandleReply, stopAsked' = stopAsked, job' = job,
         guiPc # "freed", guiPc' # "freed"
  PROVE  Promise!Next
<1>1. jobActive /\ ~jobActive'
  BY DEF IInv, OneOwner, HandleReply
<1>2. job.result \in Results /\ (job.result = "ABORTED" => stopAsked)
  BY DEF IInv, TypeOK, Jobs, AbortTraced, AbortedOnlyIfAsked
<1>3. QED
  BY <1>1, <1>2 DEF Promise!Next, Promise!End

LEMMA StepRefines ==
  ASSUME IInv, [Next]_vars
  PROVE  [Promise!Next]_(Promise!vars)
<1> USE DEF procVars, InputFrame
<1>1. CASE GuiStart
  <2>1. ~jobActive
    BY <1>1 DEF GuiStart, IInv, OneOwner
  <2>2. StartEffect
    BY <1>1, FetchEffects DEF GuiStart, StartEffect, IInv
  <2>3. QED
    BY <1>1, <2>1, <2>2, StartRefines DEF GuiStart
<1>2. CASE GuiWake \/ GuiProgress \/ GuiInputEnd \/ GuiSignal
  BY <1>2, Stutter DEF GuiWake, GuiProgress, GuiInputEnd, GuiSignal
<1>3. CASE GuiReply \/ GuiDrain
  <2>1. CASE HandleReply
    BY <1>3, <2>1, ReplyRefines DEF GuiReply, GuiDrain
  <2>2. CASE ~HandleReply
    BY <1>3, <2>2, Stutter DEF GuiReply, GuiDrain
  <2>3. QED
    BY <2>1, <2>2
<1>4. CASE GuiLeave
  <2>1. CASE jobActive
    BY <1>4, <2>1 DEF GuiLeave, AbortTest, Promise!Next, Promise!AskStop
  <2>2. CASE ~jobActive
    BY <1>4, <2>2, Stutter DEF GuiLeave
  <2>3. QED
    BY <2>1, <2>2
<1>5. CASE GuiCleanup
  <2>1. ~jobActive
    BY <1>5 DEF GuiCleanup, IInv, OneOwner
  <2>2. QED
    BY <1>5, <2>1 DEF GuiCleanup, Promise!Next, Promise!Leave
<1>6. ASSUME NEW r \in Names, OnFetch(r) PROVE [Promise!Next]_(Promise!vars)
  <2>1. StartEffect /\ (jobActive => UNCHANGED <<pc, ctrlC, mail, jobActive, stopAsked, job>>)
    BY <1>6, FetchEffects DEF OnFetch, IInv
  <2>2. guiPc = "input" /\ guiPc' = "input"
    BY <1>6 DEF OnFetch, Input
  <2>3. CASE jobActive
    BY <2>1, <2>2, <2>3, Stutter
  <2>4. CASE ~jobActive
    BY <2>1, <2>2, <2>4, StartRefines
  <2>5. QED
    BY <2>3, <2>4
<1>7. CASE OnDownload
  <2>1. guiPc = "input" /\ guiPc' = "input"
    BY <1>7 DEF OnDownload, Input
  <2>2. CASE ~jobActive /\ StartJob("download", [of |-> list.of, release |-> selected])
    <3>1. [of |-> list.of, release |-> selected] \in Items
      BY DEF IInv, TypeOK, Lists, Items
    <3>2. StartEffect
      BY <2>2, <3>1, StartEffects DEF IInv
    <3>3. QED
      BY <2>1, <2>2, <3>2, StartRefines
  <2>3. CASE UNCHANGED <<job, mail, pc, ctrlC, jobActive, stopAsked, buttons, gauge>>
    BY <2>1, <2>3, Stutter
  <2>4. QED
    BY <1>7, <2>2, <2>3 DEF OnDownload
<1>8. CASE OnStop
  <2>1. guiPc = "input" /\ guiPc' \in {"input", "signal"} /\ jobActive' = jobActive /\ job' = job
    BY <1>8 DEF OnStop, Input, AbortTest
  <2>2. CASE jobActive
    BY <1>8, <2>1, <2>2 DEF OnStop, Promise!Next, Promise!AskStop
  <2>3. CASE ~jobActive
    BY <1>8, <2>1, <2>3, Stutter DEF OnStop
  <2>4. QED
    BY <2>2, <2>3
<1>9. ASSUME NEW i \in 0 .. MaxBlocks, OnRelease(i) PROVE [Promise!Next]_(Promise!vars)
  BY <1>9, Stutter DEF OnRelease
<1>10. CASE OnClose \/ OnIconify \/ OnUniconify
  BY <1>10, Stutter DEF OnClose, OnIconify, OnUniconify
<1>11. ASSUME NEW s \in {"win", "break"}, UserSignal(s) PROVE [Promise!Next]_(Promise!vars)
  BY <1>11, Stutter DEF UserSignal, guiVars
<1>12. ASSUME NEW p \in Procs, WorkerStep(p) \/ WaitFails(p) \/ NetworkAnswers(p)
       PROVE  [Promise!Next]_(Promise!vars)
  <2>1. UNCHANGED guiVars
    BY <1>12 DEF WorkerStep, NetworkAnswers, GetJob, NetOpen, Dispatch, BundleMissing, WaitFails,
       ReadAborted, ReadTimesOut, ReadReturns, ReadData, SinkFetch, WholeBody,
       SinkDownload, NetClose, SetResult, Reply, Exit, WorkerFrame
  <2>2. ~jobActive => job' = job
    <3>1. ASSUME ~jobActive PROVE mail = "home" /\ pc[p] \notin Holding
      BY <3>1 DEF IInv, OneOwner
    <3>2. QED
      BY <1>12, <3>1 DEF Holding, WorkerStep, NetworkAnswers, GetJob, NetOpen, Dispatch, BundleMissing,
         WaitFails, ReadAborted, ReadTimesOut, ReadReturns, ReadData, SinkFetch,
         WholeBody, SinkDownload, NetClose, SetResult, Reply, Exit
  <2>3. QED
    BY <2>1, <2>2, Stutter DEF guiVars
<1>13. CASE UNCHANGED vars
  BY <1>13, Stutter DEF vars, guiVars
<1>14. QED
  BY <1>1, <1>2, <1>3, <1>4, <1>5, <1>6, <1>7, <1>8, <1>9, <1>10, <1>11, <1>12, <1>13
     DEF Next, GuiStep, OnInput, Terminated

\* The program implements JobPromise as far as safety goes: one job at a time,
\* ended once, aborted only when asked, and never left behind at exit.
THEOREM ImplementsPromise == Spec => PromiseSafety
<1>1. Init => Promise!Init
  BY DEF Init, Promise!Init, FreshJob
<1>2. IInv /\ [Next]_vars => [Promise!Next]_(Promise!vars)
  BY StepRefines
<1>3. QED
  BY <1>1, <1>2, Invariance, PTL DEF Spec, PromiseSafety

-----------------------------------------------------------------------------
(* What the window shows agrees with the list, the job and the server      *)
(* message whenever no worker changes them, and a download is of what is   *)
(* shown.  It rests on IInv, which says who may change what and when.      *)

-----------------------------------------------------------------------------
(* What the shared parts of the handlers do to what is drawn. *)

\* What is drawn when a job of type ty for item it is started, or was refused.
StartDraws(ty, it) ==
  /\ job'.type = ty /\ job'.item = it /\ job'.result = "OK"
  /\ job'.total = 0 /\ job'.sofar = 0
  /\ status'.text # "error"
  /\ \/ /\ jobActive' = TRUE /\ mail' = "port" /\ buttons' = "busy"
        /\ gauge' = 0 \/ gauge' = gauge
        /\ \E p \in Procs : pc[p] = "none" /\ pc' = [pc EXCEPT ![p] = "waitport"]
     \/ UNCHANGED <<pc, mail, jobActive, buttons, gauge>>

LEMMA StartDrawn ==
  ASSUME window, NEW ty \in {"fetch", "download"}, NEW it \in Items, StartJob(ty, it)
  PROVE  StartDraws(ty, it)
<1>1. LET j == [FreshJob EXCEPT !.type = ty, !.item = it] IN
        \/ \E p \in Procs :
             /\ pc[p] = "none"
             /\ pc' = [pc EXCEPT ![p] = "waitport"]
             /\ job' = [j EXCEPT !.running = TRUE]
             /\ mail' = "port"
             /\ jobActive' = TRUE
             /\ UpdateButtons(TRUE)
             /\ gauge' = IF ty = "download" THEN 0 ELSE gauge
             /\ SetStatus(Text("working"))
        \/ /\ job' = j
           /\ SetStatus(Text("info"))
           /\ UNCHANGED <<pc, mail, jobActive, buttons, gauge>>
  BY DEF StartJob
<1> DEFINE j == [FreshJob EXCEPT !.type = ty, !.item = it]
<1> DEFINE Fresh(k) == /\ k.type = ty /\ k.item = it /\ k.result = "OK"
                       /\ k.total = 0 /\ k.sofar = 0
<1>2. Fresh(j) /\ Fresh([j EXCEPT !.running = TRUE])
  BY DEF FreshJob
<1>3. Fresh(job')
  BY <1>1, <1>2, Zenon
<1>4. status'.text # "error"
  <2>1. SetStatus(Text("working")) \/ SetStatus(Text("info"))
    BY <1>1, Zenon
  <2>2. QED
    BY <2>1 DEF SetStatus, Text
<1>5. \/ /\ jobActive' = TRUE /\ mail' = "port" /\ buttons' = "busy"
         /\ gauge' = 0 \/ gauge' = gauge
         /\ \E p \in Procs : pc[p] = "none" /\ pc' = [pc EXCEPT ![p] = "waitport"]
      \/ UNCHANGED <<pc, mail, jobActive, buttons, gauge>>
  BY <1>1 DEF UpdateButtons
<1>6. QED
  BY <1>3, <1>4, <1>5 DEF StartDraws

\* A text in the field starts a fetch, or nothing but the status line changes.
LEMMA FetchDrawn ==
  ASSUME window, NEW r \in Names, ActionFetch(r)
  PROVE  \/ ~jobActive /\ \E it \in Items : StartDraws("fetch", it)
         \/ /\ UNCHANGED <<job, mail, pc, jobActive, buttons, gauge>>
            /\ status' = status \/ status'.text = "info"
<1>1. CASE jobActive \/ r = NoRepo
  BY <1>1 DEF ActionFetch, SetStatus, Text
<1>2. CASE ~(jobActive \/ r = NoRepo)
  <2>1. StartJob("fetch", [of |-> r, release |-> -1])
    BY <1>2 DEF ActionFetch
  <2>2. [of |-> r, release |-> -1] \in Items
    BY DEF Items
  <2>3. QED
    BY <1>2, <2>1, <2>2, StartDrawn
<1>3. QED
  BY <1>1, <1>2

\* A reply brings columns, status line and gauge up to date, or with a download
\* leaves the columns as they are.
LEMMA ReplyDrawn ==
  ASSUME TypeOK, HandleReply
  PROVE  /\ mail = "reply" /\ mail' = "home" /\ ~jobActive' /\ gauge' = 0
         /\ job.type = "fetch" => ListShown'
         /\ job.type # "fetch" => UNCHANGED <<list, rows, files, selected>>
         /\ \/ status' = status
            \/ status'.text = "info"
            \/ /\ job.result # "OK"
               /\ status' = Blame(IF serverMsg # "none" THEN serverMsg ELSE job.result)
<1> DEFINE failed  == job.result # "OK"
           newList == IF job.type = "fetch" /\ failed THEN Nothing ELSE list
           first   == IF newList.n > 0 THEN 0 ELSE -1
<1>1. newList.n \in Nat
  BY FreshTypes DEF TypeOK, Lists
<1>2. ASSUME job.type = "fetch" PROVE ListShown'
  <2>1. list' = newList /\ rows' = newList /\ selected' = first
        /\ files' = IF 0 <= first /\ first < newList.n
                    THEN [of |-> newList.of, release |-> first] ELSE NoRelease
    BY <1>2 DEF HandleReply, FillReleaseList, FillAssetList
  <2>2. CASE newList.n > 0
    BY <1>1, <2>1, <2>2 DEF ListShown
  <2>3. CASE ~(newList.n > 0)
    BY <1>1, <2>1, <2>3 DEF ListShown
  <2>4. QED
    BY <2>2, <2>3
<1>3. job.type # "fetch" => UNCHANGED <<list, rows, files, selected>>
  BY DEF HandleReply
<1>4. QED
  BY <1>2, <1>3 DEF HandleReply, ClearGauge, SetStatus, Text

\* What a worker's step may do to what the window shows: nothing, but to the list
\* behind it when the job is a fetch.
LEMMA WorkerDraws ==
  ASSUME IInv, NEW p \in Procs, WorkerStep(p) \/ WaitFails(p) \/ NetworkAnswers(p)
  PROVE  /\ UNCHANGED guiVars
         /\ job'.type = job.type
         /\ list' = list \/ (jobActive /\ job.type = "fetch")
<1>1. UNCHANGED guiVars
  BY DEF WorkerStep, NetworkAnswers, GetJob, NetOpen, Dispatch, BundleMissing, WaitFails, ReadAborted,
     ReadTimesOut, ReadReturns, ReadData, SinkFetch, WholeBody, SinkDownload, NetClose,
     SetResult, Reply, Exit, WorkerFrame
<1>2. job \in Jobs
  BY DEF IInv, TypeOK
<1>3. job'.type = job.type
  <2>1. CASE GetJob(p) \/ SetResult(p) \/ Dispatch(p)
    BY <1>2, <2>1 DEF Jobs, GetJob, SetResult, Dispatch, BundleMissing
  <2>2. CASE SinkDownload(p)
    <3>1. job' = job \/ Progress
      BY <2>2 DEF SinkDownload, WholeBody
    <3>2. QED
      BY <1>2, <3>1 DEF Jobs, Progress
  <2>3. CASE ~(GetJob(p) \/ SetResult(p) \/ Dispatch(p) \/ SinkDownload(p))
    BY <2>3 DEF WorkerStep, NetworkAnswers, NetOpen, WaitFails, ReadAborted,
       ReadTimesOut, ReadReturns, ReadData, SinkFetch, WholeBody, NetClose, Reply, Exit
  <2>4. QED
    BY <2>1, <2>2, <2>3
<1>4. pc[p] \in Holding => jobActive
  BY DEF IInv, OneOwner
<1>5. list' = list \/ (pc[p] \in Holding /\ job.type = "fetch")
  <2>1. CASE Dispatch(p) \/ SinkFetch(p)
    BY <2>1 DEF Dispatch, BundleMissing, SinkFetch, WholeBody, Holding
  <2>2. CASE ~(Dispatch(p) \/ SinkFetch(p))
    BY <2>2 DEF WorkerStep, NetworkAnswers, GetJob, NetOpen, WaitFails, ReadAborted,
       ReadTimesOut, ReadReturns, ReadData, SinkDownload, WholeBody, NetClose, SetResult,
       Reply, Exit
  <2>3. QED
    BY <2>1, <2>2
<1>6. QED
  BY <1>1, <1>3, <1>4, <1>5

-----------------------------------------------------------------------------
(* The window agrees with the job and the list. *)

LEMMA StartKeepsWindow ==
  ASSUME WindowAgrees, ~jobActive, guiPc # "freed",
         NEW ty \in {"fetch", "download"}, NEW it \in Items, StartDraws(ty, it),
         UNCHANGED <<window, list, rows, files, selected>>, guiPc' # "start"
  PROVE  WindowAgrees'
<1>1. ListShown /\ ListShown'
  BY DEF WindowAgrees, ListShown
<1>2. jobActive' => buttons' = "busy" /\ status'.text # "error"
  BY DEF StartDraws
<1>3. QED
  BY <1>1, <1>2 DEF WindowAgrees

LEMMA WindowStep ==
  ASSUME IInv, WindowAgrees, [Next]_vars
  PROVE  WindowAgrees'
<1> USE DEF procVars, InputFrame
<1>1. CASE GuiStart
  <2>1. window /\ ~jobActive /\ guiPc = "start" /\ guiPc' \in {"wait", "cleanup"}
    BY <1>1 DEF GuiStart, WindowAgrees, IInv, OneOwner
  <2>2. CASE \E it \in Items : StartDraws("fetch", it)
    BY <1>1, <2>1, <2>2, StartKeepsWindow DEF GuiStart, StartFrame
  <2>3. CASE UNCHANGED <<job, mail, pc, jobActive, buttons, gauge>>
    BY <1>1, <2>1, <2>3 DEF GuiStart, StartFrame, WindowAgrees, ListShown
  <2>4. QED
    BY <1>1, <2>1, <2>2, <2>3, FetchDrawn DEF GuiStart
<1>2. CASE GuiWake \/ GuiProgress \/ GuiInputEnd \/ GuiSignal
  BY <1>2 DEF GuiWake, GuiProgress, GuiInputEnd, GuiSignal, WindowAgrees, ListShown
<1>3. CASE GuiReply \/ GuiDrain
  <2>1. CASE HandleReply
    <3>1. ListShown'
      <4>1. CASE job.type = "fetch"
        BY <2>1, <4>1, ReplyDrawn DEF IInv
      <4>2. CASE job.type # "fetch"
        <5>1. UNCHANGED <<list, rows, files, selected>>
          BY <2>1, <4>2, ReplyDrawn DEF IInv
        <5>2. guiPc # "freed"
          BY <1>3 DEF GuiReply, GuiDrain
        <5>3. QED
          BY <4>2, <5>1, <5>2 DEF WindowAgrees, ListShown
      <4>3. QED
        BY <4>1, <4>2
    <3>2. ~jobActive' /\ guiPc' # "start"
      BY <1>3, <2>1 DEF GuiReply, GuiDrain, HandleReply
    <3>3. QED
      BY <3>1, <3>2 DEF WindowAgrees
  <2>2. CASE ~HandleReply
    BY <1>3, <2>2 DEF GuiReply, GuiDrain, WindowAgrees, ListShown
  <2>3. QED
    BY <2>1, <2>2
<1>4. CASE GuiLeave
  BY <1>4 DEF GuiLeave, AbortTest, SetStatus, Text, WindowAgrees, ListShown
<1>5. CASE GuiCleanup
  BY <1>5 DEF GuiCleanup, WindowAgrees, IInv, OneOwner
<1>6. ASSUME NEW r \in Names, OnFetch(r) PROVE WindowAgrees'
  <2>1. window /\ guiPc = "input" /\ guiPc' = "input" /\ UNCHANGED <<window, list, rows, files, selected>>
    BY <1>6 DEF OnFetch, Input, StartFrame
  <2>2. CASE ~jobActive /\ \E it \in Items : StartDraws("fetch", it)
    BY <2>1, <2>2, StartKeepsWindow
  <2>3. CASE /\ UNCHANGED <<job, mail, pc, jobActive, buttons, gauge>>
             /\ status' = status \/ status'.text = "info"
    BY <2>1, <2>3 DEF WindowAgrees, ListShown
  <2>4. QED
    BY <1>6, <2>1, <2>2, <2>3, FetchDrawn DEF OnFetch
<1>7. CASE OnDownload
  <2>1. window /\ guiPc = "input" /\ guiPc' = "input" /\ UNCHANGED <<window, list, rows, files, selected>>
    BY <1>7 DEF OnDownload, Input, StartFrame
  <2>2. CASE ~jobActive /\ StartJob("download", [of |-> list.of, release |-> selected])
    <3>1. [of |-> list.of, release |-> selected] \in Items
      BY DEF IInv, TypeOK, Lists, Items
    <3>2. QED
      BY <2>1, <2>2, <3>1, StartDrawn, StartKeepsWindow
  <2>3. CASE /\ IF jobActive THEN UNCHANGED status ELSE SetStatus(Text("info"))
             /\ UNCHANGED <<job, mail, pc, ctrlC, jobActive, stopAsked, buttons, gauge>>
    BY <2>1, <2>3 DEF WindowAgrees, ListShown
  <2>4. QED
    BY <1>7, <2>2, <2>3 DEF OnDownload
<1>8. CASE OnStop
  BY <1>8 DEF OnStop, Input, AbortTest, SetStatus, Text, WindowAgrees, ListShown
<1>9. ASSUME NEW i \in 0 .. MaxBlocks, OnRelease(i) PROVE WindowAgrees'
  <2>1. CASE i < list.n
    <3>1. i \in Int /\ 0 <= i
      BY JobAssumption
    <3>2. list' = list /\ rows' = rows /\ selected' = i
          /\ files' = [of |-> list.of, release |-> i]
      BY <1>9, <2>1, <3>1 DEF OnRelease, FillAssetList
    <3>3. ListShown => ListShown'
      BY <2>1, <3>1, <3>2 DEF ListShown
    <3>4. QED
      BY <1>9, <3>3 DEF OnRelease, Input, SetStatus, Text, WindowAgrees
  <2>2. CASE ~(i < list.n)
    BY <1>9, <2>2 DEF OnRelease, Input, WindowAgrees, ListShown
  <2>3. QED
    BY <2>1, <2>2
<1>10. CASE OnClose \/ OnIconify \/ OnUniconify
  BY <1>10 DEF OnClose, OnIconify, OnUniconify, Input, WindowAgrees, ListShown
<1>11. ASSUME NEW s \in {"win", "break"}, UserSignal(s) PROVE WindowAgrees'
  BY <1>11 DEF UserSignal, guiVars, WindowAgrees, ListShown
<1>12. ASSUME NEW p \in Procs, WorkerStep(p) \/ WaitFails(p) \/ NetworkAnswers(p) PROVE WindowAgrees'
  <2>1. /\ UNCHANGED guiVars /\ job'.type = job.type
        /\ list' = list \/ (jobActive /\ job.type = "fetch")
    BY <1>12, WorkerDraws
  <2>2. QED
    BY <2>1 DEF guiVars, WindowAgrees, ListShown
<1>13. CASE UNCHANGED vars
  BY <1>13 DEF vars, guiVars, WindowAgrees, ListShown
<1>14. QED
  BY <1>1, <1>2, <1>3, <1>4, <1>5, <1>6, <1>7, <1>8, <1>9, <1>10, <1>11, <1>12, <1>13
     DEF Next, GuiStep, OnInput, Terminated

-----------------------------------------------------------------------------
(* The gauge follows the download. *)

LEMMA StartKeepsGauge ==
  ASSUME IInv, GaugeFollows, ~jobActive,
         NEW ty \in {"fetch", "download"}, NEW it \in Items, StartDraws(ty, it),
         UNCHANGED xfer
  PROVE  GaugeFollows'
<1>1. gauge = 0 /\ gauge' = 0
  <2>1. gauge = 0
    BY DEF GaugeFollows, GaugeOfThisJob, IInv, TypeOK
  <2>2. QED
    BY <2>1 DEF StartDraws
<1>2. \A p \in Procs : pc[p] \notin Holding
  BY DEF IInv, OneOwner
<1>3. \A p \in Procs : pc'[p] \notin Holding
  BY <1>2 DEF StartDraws, IInv, TypeOK, Holding
<1>4. job'.total = 0
  BY DEF StartDraws
<1>5. QED
  BY <1>1, <1>3, <1>4 DEF GaugeFollows, GaugeOfThisJob

LEMMA WorkerKeepsGauge ==
  ASSUME IInv, GaugeFollows, NEW p \in Procs, WorkerStep(p) \/ WaitFails(p) \/ NetworkAnswers(p)
  PROVE  GaugeFollows'
<1> USE DEF WorkerFrame, guiVars, Goto, Return
<1>a. /\ pc \in [Procs -> WorkerStates] /\ xfer \in Xfers /\ job \in Jobs /\ gauge \in Nat
      /\ job.sofar \in Nat /\ xfer.blocks \in Nat
  BY DEF IInv, TypeOK, Jobs, Xfers
<1>b. \A q \in Procs : q # p /\ pc[p] \in Engaged => pc[q] \notin Holding
  BY DEF IInv, OneOwner, Engaged
<1>c. gauge' = gauge /\ jobActive' = jobActive /\ job'.type = job.type
  BY WorkerDraws
<1>1. CASE GetJob(p)
  <2>1. gauge = 0
    BY <1>1 DEF GetJob, GaugeFollows
  <2>2. job'.total = 0 /\ job'.sofar = 0 /\ xfer'.blocks = 0
    BY <1>1, <1>a DEF GetJob, Jobs, FreshXfer
  <2>3. QED
    BY <1>1, <1>c, <2>1, <2>2 DEF GetJob, GaugeFollows, GaugeOfThisJob
<1>2. CASE SinkDownload(p) /\ job' # job
  <2>1. job.type = "download" /\ job'.sofar = xfer.blocks /\ pc[p] = "sink"
    BY <1>2, <1>a DEF SinkDownload, WholeBody, Progress, Jobs
  <2>2. job.sofar <= job'.sofar /\ xfer'.blocks = xfer.blocks /\ mail' = mail /\ mail # "port"
    BY <1>2, <1>a, <2>1 DEF SinkDownload, WholeBody, GaugeFollows, Xfers, FreshXfer, Holding,
       IInv, OneOwner
  <2>3. gauge > 0 => gauge <= job'.sofar
    BY <1>a, <2>1, <2>2 DEF GaugeFollows, GaugeOfThisJob
  <2>4. QED
    BY <1>a, <1>c, <2>1, <2>2, <2>3 DEF GaugeFollows, GaugeOfThisJob
<1>3. ASSUME job'.sofar = job.sofar, job'.total = job.total, pc[p] \in Holding, mail' # "port",
             xfer'.blocks >= xfer.blocks \/ pc'[p] \notin Holding \ {"reply"},
             xfer'.blocks \in Nat,
             pc[p] # "reply" \/ pc'[p] \notin Holding,
             \A q \in Procs : q # p => pc'[q] = pc[q]
      PROVE  GaugeFollows'
  <2>1. \A q \in Procs : pc'[q] \in Holding \ {"reply"} => job'.sofar <= xfer'.blocks
    <3> SUFFICES ASSUME NEW q \in Procs, pc'[q] \in Holding \ {"reply"}
                 PROVE  job'.sofar <= xfer'.blocks
      OBVIOUS
    <3>1. q = p
      BY <1>3, <1>b DEF Engaged
    <3>2. job.sofar <= xfer.blocks
      BY <1>3, <3>1 DEF GaugeFollows
    <3>3. QED
      BY <1>3, <1>a, <3>1, <3>2
  <2>2. QED
    BY <1>3, <1>c, <2>1 DEF GaugeFollows, GaugeOfThisJob
<1>4. CASE SetResult(p)
  <2>1. job'.sofar = job.sofar /\ job'.total = job.total /\ xfer'.blocks \in Nat
    BY <1>4, <1>a DEF SetResult, Jobs, FreshXfer
  <2>2. pc[p] \in Holding /\ pc[p] # "reply" /\ pc'[p] = "reply" /\ mail' = "worker"
        /\ \A q \in Procs : q # p => pc'[q] = pc[q]
    BY <1>4, <1>a DEF SetResult, Holding, IInv, OneOwner
  <2>3. QED
    BY <1>3, <2>1, <2>2
<1>5. CASE \/ NetOpen(p) \/ Dispatch(p) \/ WaitFails(p) \/ ReadAborted(p) \/ ReadTimesOut(p) \/ ReadReturns(p)
           \/ SinkFetch(p) \/ (SinkDownload(p) /\ job' = job) \/ NetClose(p)
           \/ NetworkAnswers(p)
  <2>0. job'.sofar = job.sofar /\ job'.total = job.total
    BY <1>5, <1>a DEF NetOpen, Dispatch, BundleMissing, WaitFails, ReadAborted, ReadTimesOut,
       ReadReturns, ReadData, SinkFetch, NetClose, NetworkAnswers, Jobs
  <2>1. pc[p] \in Holding /\ pc[p] # "reply" /\ mail' = mail
    BY <1>5 DEF NetOpen, Dispatch, BundleMissing, WaitFails, ReadAborted, ReadTimesOut, ReadReturns,
       ReadData, SinkFetch, WholeBody, SinkDownload, WholeBody, NetClose, NetworkAnswers,
       Holding
  <2>2. \A q \in Procs : q # p => pc'[q] = pc[q]
    BY <1>5, <1>a DEF NetOpen, Dispatch, BundleMissing, WaitFails, ReadAborted, ReadTimesOut,
       ReadReturns, ReadData, SinkFetch, WholeBody, SinkDownload, WholeBody, NetClose,
       NetworkAnswers
  <2>3. xfer'.blocks \in Nat /\ xfer'.blocks >= xfer.blocks
    <3>1. \/ xfer' = xfer
          \/ xfer' = [xfer EXCEPT !.err = "SOCKET"]
          \/ \E n \in {0, MaxBlocks}, b \in Backends :
               xfer' = [xfer EXCEPT !.length = n, !.backend = b]
          \/ \E e \in Results : xfer' = [FreshXfer EXCEPT !.err = e, !.blocks = xfer.blocks]
          \/ xfer' = [xfer EXCEPT !.ready = TRUE]
          \/ xfer' = [xfer EXCEPT !.ready = FALSE, !.blocks = @ + 1]
      BY <1>5 DEF NetOpen, Dispatch, BundleMissing, WaitFails, ReadAborted, ReadTimesOut, ReadReturns,
         ReadData, SinkFetch, WholeBody, SinkDownload, WholeBody, NetClose,
         NetworkAnswers, Results, Errors
    <3>2. xfer'.blocks = xfer.blocks \/ xfer'.blocks = xfer.blocks + 1
      BY <1>a, <3>1 DEF Xfers, FreshXfer
    <3>3. QED
      BY <1>a, <3>2
  <2>4. mail # "port"
    BY <2>1 DEF IInv, OneOwner
  <2>5. QED
    BY <1>3, <2>0, <2>1, <2>2, <2>3, <2>4
<1>6. CASE Reply(p)
  <2>1. job' = job /\ xfer' = xfer /\ pc[p] = "reply" /\ pc'[p] = "exit" /\ mail' = "reply"
        /\ \A q \in Procs : q # p => pc'[q] = pc[q]
    BY <1>6, <1>a DEF Reply
  <2>2. QED
    BY <1>3, <1>a, <2>1 DEF Holding
<1>7. CASE Exit(p)
  <2>1. \A q \in Procs : pc'[q] \in Holding => pc'[q] = pc[q]
    BY <1>7, <1>a DEF Exit, Holding
  <2>2. QED
    BY <1>7, <1>c, <2>1 DEF Exit, GaugeFollows, GaugeOfThisJob
<1>8. QED
  BY <1>1, <1>2, <1>4, <1>5, <1>6, <1>7 DEF WorkerStep

LEMMA GaugeStep ==
  ASSUME IInv, VInv, [Next]_vars
  PROVE  GaugeFollows'
<1> USE DEF procVars, InputFrame
<1>a. GaugeFollows /\ WindowAgrees
  BY DEF VInv
<1>b. gauge \in Nat /\ job.sofar \in Nat /\ job.total \in Nat
  BY DEF IInv, TypeOK, Jobs
<1>f. ASSUME UNCHANGED <<gauge, jobActive, job, mail, pc, xfer>> PROVE GaugeFollows'
  BY <1>a, <1>f DEF GaugeFollows, GaugeOfThisJob
<1>1. CASE GuiStart
  <2>1. window /\ ~jobActive /\ UNCHANGED xfer
    BY <1>1, <1>a DEF GuiStart, WindowAgrees, IInv, OneOwner, StartFrame
  <2>2. CASE \E it \in Items : StartDraws("fetch", it)
    BY <1>a, <2>1, <2>2, StartKeepsGauge
  <2>3. CASE UNCHANGED <<job, mail, pc, jobActive, buttons, gauge>>
    BY <1>f, <2>1, <2>3
  <2>4. QED
    BY <1>1, <2>1, <2>2, <2>3, FetchDrawn DEF GuiStart
<1>2. CASE GuiProgress
  <2>1. CASE jobActive /\ job.total # 0
    <3>1. job.type = "download" /\ mail # "port"
      BY <1>a, <2>1 DEF GaugeFollows
    <3>2. gauge' <= job.sofar \/ gauge' = gauge
      BY <1>2, <1>b DEF GuiProgress
    <3>3. QED
      BY <1>2, <1>a, <1>b, <2>1, <3>1, <3>2 DEF GuiProgress, GaugeFollows, GaugeOfThisJob
  <2>2. CASE ~(jobActive /\ job.total # 0)
    BY <1>2, <1>f, <2>2 DEF GuiProgress
  <2>3. QED
    BY <2>1, <2>2
<1>3. CASE GuiReply \/ GuiDrain
  <2>1. CASE HandleReply
    <3>1. gauge' = 0 /\ mail' = "home" /\ job' = job /\ pc' = pc /\ xfer' = xfer
      BY <1>3, <2>1, ReplyDrawn DEF GuiReply, GuiDrain, IInv
    <3>2. QED
      BY <1>a, <3>1 DEF GaugeFollows, GaugeOfThisJob
  <2>2. CASE ~HandleReply
    BY <1>3, <1>f, <2>2 DEF GuiReply, GuiDrain
  <2>3. QED
    BY <2>1, <2>2
<1>4. CASE GuiWake \/ GuiInputEnd \/ GuiSignal \/ GuiLeave \/ GuiCleanup
  BY <1>4, <1>f DEF GuiWake, GuiInputEnd, GuiSignal, GuiLeave, GuiCleanup
<1>5. ASSUME NEW r \in Names, OnFetch(r) PROVE GaugeFollows'
  <2>1. window /\ UNCHANGED xfer
    BY <1>5 DEF OnFetch, StartFrame
  <2>2. CASE ~jobActive /\ \E it \in Items : StartDraws("fetch", it)
    BY <1>a, <2>1, <2>2, StartKeepsGauge
  <2>3. CASE UNCHANGED <<job, mail, pc, jobActive, buttons, gauge>>
    BY <1>f, <2>1, <2>3
  <2>4. QED
    BY <1>5, <2>1, <2>2, <2>3, FetchDrawn DEF OnFetch
<1>6. CASE OnDownload
  <2>1. window /\ UNCHANGED xfer
    BY <1>6 DEF OnDownload, StartFrame
  <2>2. CASE ~jobActive /\ StartJob("download", [of |-> list.of, release |-> selected])
    <3>1. [of |-> list.of, release |-> selected] \in Items
      BY DEF IInv, TypeOK, Lists, Items
    <3>2. QED
      BY <1>a, <2>1, <2>2, <3>1, StartDrawn, StartKeepsGauge
  <2>3. CASE UNCHANGED <<job, mail, pc, ctrlC, jobActive, stopAsked, buttons, gauge>>
    BY <1>f, <2>1, <2>3
  <2>4. QED
    BY <1>6, <2>2, <2>3 DEF OnDownload
<1>7. CASE OnStop \/ OnClose \/ OnIconify \/ OnUniconify \/ \E i \in 0 .. MaxBlocks : OnRelease(i)
  BY <1>7, <1>f DEF OnStop, OnClose, OnIconify, OnUniconify, OnRelease
<1>8. ASSUME NEW s \in {"win", "break"}, UserSignal(s) PROVE GaugeFollows'
  BY <1>8, <1>f DEF UserSignal, guiVars
<1>9. ASSUME NEW p \in Procs, WorkerStep(p) \/ WaitFails(p) \/ NetworkAnswers(p) PROVE GaugeFollows'
  BY <1>9, <1>a, WorkerKeepsGauge
<1>10. CASE UNCHANGED vars
  BY <1>10, <1>f DEF vars, guiVars
<1>11. QED
  BY <1>1, <1>2, <1>3, <1>4, <1>5, <1>6, <1>7, <1>8, <1>9, <1>10
     DEF Next, GuiStep, OnInput, Terminated

-----------------------------------------------------------------------------
(* The server message is one this job left itself. *)

\* A job that is started has no result yet, and no error is shown any more.
LEMMA StartKeepsMessage ==
  ASSUME IInv, MessageExplains, ~jobActive,
         NEW ty \in {"fetch", "download"}, NEW it \in Items, StartDraws(ty, it),
         UNCHANGED <<serverMsg, xfer>>
  PROVE  MessageExplains'
<1>1. \A p \in Procs : pc[p] \notin Holding
  BY DEF IInv, OneOwner
<1>2. \A p \in Procs : pc'[p] \notin Holding
  BY <1>1 DEF StartDraws, IInv, TypeOK, Holding
<1>3. mail' # "reply"
  BY DEF StartDraws, IInv, OneOwner
<1>4. ErrorIsOfThisJob'
  BY DEF StartDraws, ErrorIsOfThisJob
<1>5. QED
  BY <1>2, <1>3, <1>4 DEF MessageExplains, Holding

LEMMA WorkerKeepsMessage ==
  ASSUME IInv, WindowAgrees, MessageExplains, NEW p \in Procs,
         WorkerStep(p) \/ WaitFails(p) \/ NetworkAnswers(p)
  PROVE  MessageExplains'
<1> USE DEF WorkerFrame, guiVars, Goto, Return
<1>a. pc \in [Procs -> WorkerStates] /\ xfer \in Xfers /\ job \in Jobs
  BY DEF IInv, TypeOK
<1>b. \A q \in Procs : q # p /\ pc[p] \in Engaged => pc[q] \notin Holding
  BY DEF IInv, OneOwner, Engaged
<1>c. status' = status /\ (pc[p] # "exit" => jobActive)
  <2>1. pc[p] # "exit" => pc[p] \in Engaged
    BY DEF WorkerStep, NetworkAnswers, GetJob, NetOpen, Dispatch, BundleMissing, WaitFails, ReadAborted,
       ReadTimesOut, ReadReturns, ReadData, SinkFetch, WholeBody, SinkDownload, NetClose,
       SetResult, Reply, Exit, Engaged, Holding
  <2>2. QED
    BY <2>1, WorkerDraws DEF IInv, OneOwner, Engaged
<1>d. pc[p] # "exit" => ErrorIsOfThisJob'
  BY <1>c DEF WindowAgrees, ErrorIsOfThisJob
\* Only p is in a backend, and it says what its next state has to satisfy.
<1>e. ASSUME pc[p] \in Engaged, pc[p] # "reply", mail' # "reply",
             \A q \in Procs : q # p => pc'[q] = pc[q],
             pc'[p] \in {"read", "sink"} => MessageFor("OK")',
             pc'[p] \in {"close", "result"} => MessageFor(xfer.err)',
             pc'[p] = "reply" => MessageFor(job.result)'
      PROVE  MessageExplains'
  <2>1. \A q \in Procs : q # p => pc'[q] \notin Holding
    BY <1>b, <1>e
  <2>2. QED
    BY <1>d, <1>e, <2>1 DEF MessageExplains, Holding, Engaged
<1>1. CASE GetJob(p)
  <2>1. \A q \in Procs : q # p => pc'[q] = pc[q]
    BY <1>1, <1>a DEF GetJob
  <2>2. pc[p] \in Engaged /\ pc[p] # "reply" /\ pc'[p] = "open" /\ mail' # "reply"
    BY <1>1, <1>a DEF GetJob, Engaged
  <2>3. QED
    BY <1>e, <2>1, <2>2
<1>2. CASE NetOpen(p) \/ Dispatch(p) \/ WaitFails(p) \/ ReadAborted(p) \/ ReadTimesOut(p) \/ ReadReturns(p)
           \/ SinkFetch(p) \/ SinkDownload(p) \/ NetClose(p) \/ NetworkAnswers(p)
  <2>1. pc[p] \in Engaged /\ pc[p] # "reply" /\ mail' = mail /\ mail # "reply"
        /\ \A q \in Procs : q # p => pc'[q] = pc[q]
    <3>1. pc[p] \in Holding /\ pc[p] # "reply" /\ mail' = mail
      BY <1>2 DEF NetOpen, Dispatch, BundleMissing, WaitFails, ReadAborted, ReadTimesOut, ReadReturns,
         ReadData, SinkFetch, WholeBody, SinkDownload, WholeBody, NetClose,
         NetworkAnswers, Holding
    <3>2. \A q \in Procs : q # p => pc'[q] = pc[q]
      BY <1>2, <1>a DEF NetOpen, Dispatch, BundleMissing, WaitFails, ReadAborted, ReadTimesOut,
         ReadReturns, ReadData, SinkFetch, WholeBody, SinkDownload, WholeBody, NetClose,
         NetworkAnswers
    <3>3. QED
      BY <3>1, <3>2 DEF Engaged, IInv, OneOwner
  <2>2. pc'[p] # "reply"
    BY <1>2, <1>a DEF NetOpen, Dispatch, BundleMissing, WaitFails, ReadAborted, ReadTimesOut,
       ReadReturns, ReadData, SinkFetch, WholeBody, SinkDownload, WholeBody, NetClose,
       NetworkAnswers
  <2>3. CASE NetOpen(p)
    <3>1. pc'[p] = "call" \/ (pc'[p] = "result" /\ xfer'.err = "SOCKET")
      BY <1>a, <2>3 DEF NetOpen, Xfers
    <3>2. QED
      BY <1>e, <2>1, <3>1 DEF MessageFor
  <2>4. CASE Dispatch(p)
    <3>1. CASE serverMsg' = "SERVER"
      <4>1. pc'[p] = "close" /\ xfer'.err = "SERVER"
        BY <1>a, <2>4, <3>1 DEF Dispatch, BundleMissing, Cleared, Xfers, FreshXfer
      <4>2. QED
        BY <1>e, <2>1, <3>1, <4>1 DEF MessageFor
    <3>2. CASE serverMsg' # "SERVER"
      <4>1. serverMsg' = IF job'.noCa THEN "NOCA" ELSE "none"
        BY <1>a, <2>4, <3>2 DEF Dispatch, BundleMissing, Cleared, Jobs
      <4>2. pc'[p] = "read" \/ (pc'[p] = "close" /\ xfer'.err = "RECV")
        BY <1>a, <2>4, <3>2 DEF Dispatch, BundleMissing, Xfers, FreshXfer
      <4>3. QED
        BY <1>e, <2>1, <4>1, <4>2 DEF MessageFor
    <3>3. QED
      BY <3>1, <3>2
  <2>5. CASE ReadReturns(p) \/ SinkFetch(p) \/ WaitFails(p) \/ ReadAborted(p) \/ ReadTimesOut(p)
             \/ SinkDownload(p) \/ NetworkAnswers(p)
    <3>1. pc[p] \in {"read", "sink"} /\ job'.noCa = job.noCa
      BY <1>a, <2>5 DEF ReadReturns, ReadData, SinkFetch, WaitFails, ReadAborted,
         ReadTimesOut, SinkDownload, Progress, NetworkAnswers, Jobs
    <3>2. MessageFor("OK")
      BY <3>1 DEF MessageExplains
    <3>3. \/ pc'[p] \in {"read", "sink"} /\ serverMsg' = serverMsg
          \/ pc'[p] = "close" /\ xfer'.err # "SERVER" /\ serverMsg' = serverMsg
          \/ pc'[p] = "close" /\ xfer'.err = "SERVER" /\ serverMsg' = "SERVER"
      BY <1>a, <2>5 DEF ReadReturns, ReadData, SinkFetch, WaitFails, ReadAborted,
         ReadTimesOut, SinkDownload, NetworkAnswers, Xfers, FreshXfer
    <3>4. QED
      BY <1>e, <2>1, <3>1, <3>2, <3>3 DEF MessageFor
  <2>6. CASE NetClose(p)
    <3>1. pc[p] = "close" /\ pc'[p] = "result" /\ serverMsg' = serverMsg /\ xfer' = xfer
      BY <1>a, <2>6 DEF NetClose
    <3>2. job' = job
      BY <2>6 DEF NetClose
    <3>3. MessageFor(xfer.err)'
      BY <3>1, <3>2 DEF MessageExplains, MessageFor
    <3>4. QED
      BY <1>e, <2>1, <3>1, <3>3
  <2>7. QED
    BY <1>2, <2>3, <2>4, <2>5, <2>6
<1>3. CASE SetResult(p)
  <2>1. pc[p] = "result" /\ pc'[p] = "reply" /\ serverMsg' = serverMsg /\ job'.result = xfer.err
        /\ job'.noCa = job.noCa
        /\ \A q \in Procs : q # p => pc'[q] = pc[q]
    BY <1>3, <1>a DEF SetResult, Jobs
  <2>2. mail' = "worker"
    BY <1>3 DEF SetResult, IInv, OneOwner, Holding
  <2>3. MessageFor(job.result)'
    BY <2>1 DEF MessageExplains, MessageFor
  <2>4. QED
    BY <1>e, <2>1, <2>2, <2>3 DEF Engaged, Holding
<1>4. CASE Reply(p)
  <2>1. pc[p] = "reply" /\ pc'[p] = "exit" /\ serverMsg' = serverMsg /\ job' = job /\ xfer' = xfer
        /\ \A q \in Procs : q # p => pc'[q] = pc[q]
    BY <1>4, <1>a DEF Reply
  <2>2. MessageFor(job.result)'
    BY <2>1 DEF MessageExplains, MessageFor
  <2>3. \A q \in Procs : pc'[q] \notin Holding
    BY <1>b, <2>1 DEF Engaged, Holding
  <2>4. QED
    BY <1>d, <2>1, <2>2, <2>3 DEF MessageExplains, Holding
<1>5. CASE Exit(p)
  <2>1. \A q \in Procs : pc'[q] \in Holding => pc'[q] = pc[q]
    BY <1>5, <1>a DEF Exit, Holding
  <2>2. QED
    <3>1. UNCHANGED <<job, mail, serverMsg, xfer, status>>
      BY <1>5 DEF Exit
    <3>2. ErrorIsOfThisJob'
      BY <3>1 DEF MessageExplains, ErrorIsOfThisJob
    <3>3. /\ MessageFor("OK") => MessageFor("OK")'
          /\ MessageFor(xfer.err) => MessageFor(xfer.err)'
          /\ MessageFor(job.result) => MessageFor(job.result)'
      BY <3>1 DEF MessageFor
    <3>4. \A q \in Procs : pc'[q] \in {"read", "sink"} => MessageFor("OK")'
      BY <2>1, <3>3 DEF MessageExplains, Holding
    <3>5. \A q \in Procs : pc'[q] \in {"close", "result"} => MessageFor(xfer.err)'
      BY <2>1, <3>3 DEF MessageExplains, Holding
    <3>6. mail' = "reply" \/ (\E q \in Procs : pc'[q] = "reply") => MessageFor(job.result)'
      BY <2>1, <3>1, <3>3 DEF MessageExplains, Holding
    <3>7. QED
      BY <3>2, <3>4, <3>5, <3>6 DEF MessageExplains
<1>6. QED
  BY <1>1, <1>2, <1>3, <1>4, <1>5 DEF WorkerStep

LEMMA MessageStep ==
  ASSUME IInv, VInv, [Next]_vars
  PROVE  MessageExplains'
<1> USE DEF procVars, InputFrame
<1>a. MessageExplains /\ WindowAgrees
  BY DEF VInv
<1>f. ASSUME UNCHANGED <<job, mail, serverMsg, pc, xfer>>,
             status' = status \/ status'.text # "error"
      PROVE  MessageExplains'
  BY <1>a, <1>f DEF MessageExplains, MessageFor, ErrorIsOfThisJob
<1>1. CASE GuiStart
  <2>1. window /\ ~jobActive /\ UNCHANGED <<serverMsg, xfer>>
    BY <1>1, <1>a DEF GuiStart, WindowAgrees, IInv, OneOwner, StartFrame
  <2>2. CASE \E it \in Items : StartDraws("fetch", it)
    BY <1>a, <2>1, <2>2, StartKeepsMessage
  <2>3. CASE /\ UNCHANGED <<job, mail, pc, jobActive, buttons, gauge>>
             /\ status' = status \/ status'.text = "info"
    BY <1>f, <2>1, <2>3
  <2>4. QED
    BY <1>1, <2>1, <2>2, <2>3, FetchDrawn DEF GuiStart
<1>2. CASE GuiReply \/ GuiDrain
  <2>1. CASE HandleReply
    <3>1. mail = "reply" /\ mail' = "home" /\ UNCHANGED <<job, serverMsg, pc, xfer>>
          /\ \/ status' = status
             \/ status'.text = "info"
             \/ status' = Blame(IF serverMsg # "none" THEN serverMsg ELSE job.result)
      BY <1>2, <2>1, ReplyDrawn DEF GuiReply, GuiDrain, IInv
    <3>2. MessageFor(job.result)
      BY <1>a, <3>1 DEF MessageExplains
    <3>3. ErrorIsOfThisJob'
      BY <1>a, <3>1, <3>2 DEF MessageExplains, MessageFor, ErrorIsOfThisJob, Blame
    <3>4. QED
      BY <1>a, <3>1, <3>3 DEF MessageExplains, MessageFor
  <2>2. CASE ~HandleReply
    BY <1>2, <1>f, <2>2 DEF GuiReply, GuiDrain
  <2>3. QED
    BY <2>1, <2>2
<1>3. CASE GuiLeave \/ OnStop \/ \E i \in 0 .. MaxBlocks : OnRelease(i)
  BY <1>3, <1>f DEF GuiLeave, OnStop, OnRelease, SetStatus, Text
<1>4. CASE GuiWake \/ GuiProgress \/ GuiInputEnd \/ GuiSignal \/ GuiCleanup
  BY <1>4, <1>f DEF GuiWake, GuiProgress, GuiInputEnd, GuiSignal, GuiCleanup
<1>5. ASSUME NEW r \in Names, OnFetch(r) PROVE MessageExplains'
  <2>1. window /\ UNCHANGED <<serverMsg, xfer>>
    BY <1>5 DEF OnFetch, StartFrame
  <2>2. CASE ~jobActive /\ \E it \in Items : StartDraws("fetch", it)
    BY <1>a, <2>1, <2>2, StartKeepsMessage
  <2>3. CASE /\ UNCHANGED <<job, mail, pc, jobActive, buttons, gauge>>
             /\ status' = status \/ status'.text = "info"
    BY <1>f, <2>1, <2>3
  <2>4. QED
    BY <1>5, <2>1, <2>2, <2>3, FetchDrawn DEF OnFetch
<1>6. CASE OnDownload
  <2>1. window /\ UNCHANGED <<serverMsg, xfer>>
    BY <1>6 DEF OnDownload, StartFrame
  <2>2. CASE ~jobActive /\ StartJob("download", [of |-> list.of, release |-> selected])
    <3>1. [of |-> list.of, release |-> selected] \in Items
      BY DEF IInv, TypeOK, Lists, Items
    <3>2. QED
      BY <1>a, <2>1, <2>2, <3>1, StartDrawn, StartKeepsMessage
  <2>3. CASE /\ IF jobActive THEN UNCHANGED status ELSE SetStatus(Text("info"))
             /\ UNCHANGED <<job, mail, pc, ctrlC, jobActive, stopAsked, buttons, gauge>>
    BY <1>f, <2>1, <2>3 DEF SetStatus, Text
  <2>4. QED
    BY <1>6, <2>2, <2>3 DEF OnDownload
<1>7. CASE OnClose \/ OnIconify \/ OnUniconify
  BY <1>7, <1>f DEF OnClose, OnIconify, OnUniconify
<1>8. ASSUME NEW s \in {"win", "break"}, UserSignal(s) PROVE MessageExplains'
  BY <1>8, <1>f DEF UserSignal, guiVars
<1>9. ASSUME NEW p \in Procs, WorkerStep(p) \/ WaitFails(p) \/ NetworkAnswers(p) PROVE MessageExplains'
  BY <1>9, <1>a, WorkerKeepsMessage
<1>10. CASE UNCHANGED vars
  BY <1>10, <1>f DEF vars, guiVars
<1>11. QED
  BY <1>1, <1>2, <1>3, <1>4, <1>5, <1>6, <1>7, <1>8, <1>9, <1>10
     DEF Next, GuiStep, OnInput, Terminated

-----------------------------------------------------------------------------
(* The theorems. *)

\* What the window shows and what a job and its worker may have done to it stay
\* in the agreement VInv describes.
THEOREM ViewInvariance == Spec => [](IInv /\ VInv)
<1>1. Init => VInv
  <2> SUFFICES ASSUME Init PROVE VInv
    OBVIOUS
  <2>1. ListShown
    BY DEF Init, ListShown, Nothing, NoRelease
  <2>2. WindowAgrees
    BY <2>1 DEF Init, WindowAgrees
  <2>3. GaugeFollows
    BY DEF Init, GaugeFollows, GaugeOfThisJob, FreshJob, Holding
  <2>4. MessageExplains
    BY DEF Init, MessageExplains, ErrorIsOfThisJob, Text
  <2>5. QED
    BY <2>2, <2>3, <2>4 DEF VInv
<1>2. IInv /\ VInv /\ [Next]_vars => VInv'
  BY WindowStep, GaugeStep, MessageStep DEF VInv
<1>3. QED
  BY <1>1, <1>2, Invariance, PTL DEF Spec

\* Once a job has ended, however it ended, the columns show the shared list, and
\* the row a download would take is the one the user sees (handle_worker_reply).
THEOREM ListIsShown == Spec => []IdleShowsList
<1>1. VInv => IdleShowsList
  BY DEF VInv, WindowAgrees, IdleShowsList
<1>2. QED
  BY <1>1, ViewInvariance, PTL

\* No progress of one job, nor a late progress signal, shows in the gauge of
\* another (update_progress).
THEOREM GaugeIsOfThisJob == Spec => []GaugeOfThisJob
<1>1. VInv => GaugeOfThisJob
  BY DEF VInv, GaugeFollows
<1>2. QED
  BY <1>1, ViewInvariance, PTL

\* A running job can be stopped whenever there is a window (update_button_states).
THEOREM StopIsOffered == Spec => []StopAvailable
<1>1. VInv => StopAvailable
  BY DEF VInv, WindowAgrees, StopAvailable
<1>2. QED
  BY <1>1, ViewInvariance, PTL

\* The text of an error is one the job it is shown for left itself, its cause or
\* the note of a missing CA bundle, but when the library could not be opened
\* (gui.c 745).
THEOREM ErrorsExplained == Spec => []ErrorIsOfThisJob
<1>1. VInv => ErrorIsOfThisJob
  BY DEF VInv, MessageExplains
<1>2. QED
  BY <1>1, ViewInvariance, PTL

\* A download that starts is of the release whose files are shown (action_download).
THEOREM DownloadIsShown == Spec => DownloadsWhatIsShown
<1> DEFINE D == ~jobActive /\ jobActive' /\ job'.type = "download" => job'.item = files
<1>1. IInv /\ VInv /\ [Next]_vars => [D]_vars
  <2> SUFFICES ASSUME IInv, VInv, [Next]_vars, ~jobActive, jobActive', job'.type = "download"
               PROVE  job'.item = files
    OBVIOUS
  <2> USE DEF procVars, InputFrame
  <2>1. CASE GuiStart \/ \E r \in Names : OnFetch(r)
    <3>1. window
      BY <2>1 DEF GuiStart, OnFetch, VInv, WindowAgrees
    <3>2. (\E r \in Names : ActionFetch(r)) \/ UNCHANGED jobActive
      BY <2>1 DEF GuiStart, OnFetch
    <3>3. job'.type = "fetch"
      BY <3>1, <3>2, FetchDrawn DEF StartDraws
    <3>4. QED
      BY <3>3
  <2>2. CASE OnDownload
    <3>1. [of |-> list.of, release |-> selected] \in Items
      BY DEF IInv, TypeOK, Lists, Items
    <3>2. /\ window /\ guiPc = "input" /\ 0 <= selected
          /\ StartJob("download", [of |-> list.of, release |-> selected])
      BY <2>2 DEF OnDownload, Input
    <3>3. job'.item = [of |-> list.of, release |-> selected]
      BY <3>1, <3>2, StartDrawn DEF StartDraws
    <3>4. files = [of |-> list.of, release |-> selected]
      BY <3>2 DEF VInv, WindowAgrees, ListShown
    <3>5. QED
      BY <3>3, <3>4
  <2>3. CASE GuiReply \/ GuiDrain
    BY <2>3 DEF GuiReply, GuiDrain, HandleReply
  <2>4. ASSUME NEW p \in Procs, WorkerStep(p) \/ WaitFails(p) \/ NetworkAnswers(p) PROVE FALSE
    BY <2>4, WorkerDraws DEF guiVars
  <2>5. CASE UNCHANGED jobActive
    BY <2>5
  <2>6. QED
    BY <2>1, <2>2, <2>3, <2>4, <2>5 DEF Next, GuiStep, OnInput, Terminated, vars,
       guiVars, GuiWake, GuiProgress, GuiInputEnd, GuiSignal, GuiLeave, GuiCleanup,
       OnRelease, OnStop, OnClose, OnIconify, OnUniconify, UserSignal
<1>2. QED
  BY <1>1, ViewInvariance, PTL DEF Spec, DownloadsWhatIsShown
=============================================================================
