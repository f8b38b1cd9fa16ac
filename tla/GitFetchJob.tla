---------------------------- MODULE GitFetchJob ----------------------------
(***************************************************************************)
(* The GUI task of GitFetch and the worker processes it starts (gui.c,     *)
(* worker.c, backend.c).  They share one GFJob, one ReleaseList and the    *)
(* server message; they talk through the job message (sent to the worker's *)
(* port, replied to the GUI's reply port), one progress signal and         *)
(* SIGBREAKF_CTRL_C.  Nothing is locked.                                   *)
(*                                                                         *)
(* What a transfer does inside a backend is abstracted to blocks of data   *)
(* that arrive or do not.  Names follow the code.                          *)
(***************************************************************************)
EXTENDS Integers, FiniteSets

CONSTANTS
  Procs,        \* processes CreateNewProc can hand out
  Repos,        \* repositories the user may ask for
  Backends,     \* subset of {"proxy", "native"}: values prefs.backend takes
  MaxBlocks,    \* bound: blocks of data one transfer delivers
  ProgressStep, \* PROGRESS_STEP, in blocks
  NoTask,       \* NULL task pointer, NULL library base
  NoRepo        \* empty repository name

ASSUME JobAssumption ==
  /\ NoTask \notin Procs
  /\ NoRepo \notin Repos
  /\ Backends \subseteq {"proxy", "native"}
  /\ MaxBlocks \in Nat \ {0}
  /\ ProgressStep \in Nat \ {0}

VARIABLES
  guiPc,        \* where the GUI task is in gf_gui_run
  taken,        \* "sigs": what the last Wait() returned and is not yet looked at
  signals,      \* signals pending for the GUI task
  done,         \* app->done
  jobActive,    \* app->job_active
  window,       \* app->window # NULL
  iconified,    \* app->iconified
  buttons,      \* gadgets as drawn: "idle" (Fetch, Download on), "busy" (Stop on)
  status,       \* status line as drawn: text, and for an error what it blames
  gauge,        \* fuel gauge, in blocks
  rows,         \* release column as drawn
  files,        \* file column as drawn: the release whose files it lists
  selected,     \* app->selected_release
  sigTarget,    \* task a Signal() call is about to be made on
  job,          \* app->job
  mail,         \* where the job message is
  list,         \* *app->list: whose releases, how many
  serverMsg,    \* server_message: the error it explains, "none", or "NOCA"
  socketBase,   \* SocketBase: the process that opened the library
  pc,           \* where each worker process is
  ctrlC,        \* SIGBREAKF_CTRL_C pending per process
  xfer,         \* locals of the transfer in progress
  stopAsked     \* history: an abort was requested for this job

view     == <<buttons, status, gauge, rows, files, selected>>
winState == <<window, iconified>>
shared   == <<job, mail, list, serverMsg>>
guiVars  == <<guiPc, taken, done, jobActive, winState, view, sigTarget, stopAsked>>
procVars == <<pc, ctrlC, xfer, socketBase>>
vars     == <<guiVars, signals, shared, procVars>>

-----------------------------------------------------------------------------
\* Result codes as far as a property tells them apart: no socket library, an
\* error with an explanation of its own, one without, stopped.
Errors  == {"SOCKET", "SERVER", "RECV", "ABORTED"}
Results == Errors \cup {"OK"}
Tasks   == Procs \cup {NoTask}
Names   == Repos \cup {NoRepo}
Index   == -1 .. MaxBlocks

Nothing   == [of |-> NoRepo, n |-> 0]
NoRelease == [of |-> NoRepo, release |-> -1]

\* A process that has taken the job message and not yet replied it.
Holding == {"open", "call", "read", "sink", "close", "result", "reply"}
\* A process that is inside a backend, between gf_net_open and gf_net_close.
OnNet   == {"call", "read", "sink", "close"}
WorkerStates == {"none", "waitport", "exit"} \cup Holding
GuiStates == {"start", "wait", "progress", "reply", "input", "test", "signal",
              "leave", "leavesignal", "drain", "cleanup", "freed"}

Text(t)  == [text |-> t, why |-> "OK"]
Blame(e) == [text |-> "error", why |-> e]

\* A memset job: nothing in it survives from the previous one.  noCa is history:
\* the TLS context of this job was made without a CA bundle.
FreshJob == [type |-> "none", item |-> NoRelease,
             running |-> FALSE, workerTask |-> NoTask, result |-> "OK",
             sofar |-> 0, total |-> 0, lastSignalled |-> 0, noCa |-> FALSE]
FreshXfer == [backend |-> "proxy", err |-> "OK", blocks |-> 0, ready |-> FALSE, length |-> 0]

Signals  == {"progress", "port", "win", "break"}
Statuses == [text : {"info", "working", "aborting", "error"},
             why : Results \cup {"NOCA"}]
Lists    == [of : Names, n : Nat]
Items    == [of : Names, release : Int]
Jobs     == [type : {"none", "fetch", "download"}, item : Items, running : BOOLEAN, workerTask : Tasks, result : Results,
             sofar : Nat, total : Nat, lastSignalled : Nat, noCa : BOOLEAN]
Xfers    == [backend : {"proxy", "native"}, err : Results, blocks : Nat, ready : BOOLEAN,
             length : Nat]

TypeOK ==
  /\ guiPc \in GuiStates
  /\ taken \subseteq Signals /\ signals \subseteq Signals
  /\ done \in BOOLEAN /\ jobActive \in BOOLEAN /\ window \in BOOLEAN
  /\ iconified \in BOOLEAN /\ stopAsked \in BOOLEAN
  /\ buttons \in {"idle", "busy"}
  /\ status \in Statuses
  /\ gauge \in Nat
  /\ rows \in Lists /\ list \in Lists
  /\ files \in Items
  /\ selected \in Int
  /\ sigTarget \in Tasks
  /\ job \in Jobs
  /\ mail \in {"home", "port", "worker", "reply"}
  /\ serverMsg \in Errors \cup {"none", "NOCA"}
  /\ socketBase \in Tasks
  /\ pc \in [Procs -> WorkerStates]
  /\ ctrlC \in [Procs -> BOOLEAN]
  /\ xfer \in Xfers

-----------------------------------------------------------------------------
(* What the handlers share. *)

\* set_status and enable_gadget do nothing without a window.
SetStatus(s)        == status' = IF window THEN s ELSE status
\* Mutant: the buttons are refreshed before job_active has its new value.
UpdateButtons_Early(busy) == buttons' = IF window THEN (IF jobActive THEN "busy" ELSE "idle")
                                        ELSE buttons
UpdateButtons(busy) == buttons' = IF window THEN (IF busy THEN "busy" ELSE "idle")
                                  ELSE buttons

\* fill_release_list and fill_asset_list copy out of the shared list l.
\* Mutants: the column is filled before the list is emptied; row 0 is missed.
FillReleaseList_Early(l) == rows' = list
FillAssetList_NotFirst(l, i) == files' = IF 0 < i /\ i < l.n
                                         THEN [of |-> l.of, release |-> i]
                                         ELSE NoRelease
FillReleaseList(l)  == rows' = l
FillAssetList(l, i) == files' = IF 0 <= i /\ i < l.n
                                THEN [of |-> l.of, release |-> i]
                                ELSE NoRelease

\* gf_worker_start, with what action_fetch and action_download do around it.
StartJob(type, item) ==
  LET j == [FreshJob EXCEPT !.type = type, !.item = item] IN
    \/ \E p \in Procs :
         /\ pc[p] = "none"
         /\ pc' = [pc EXCEPT ![p] = "waitport"]
         /\ ctrlC' = [ctrlC EXCEPT ![p] = FALSE]
         /\ job' = [j EXCEPT !.running = TRUE]
         /\ mail' = "port"
         /\ jobActive' = TRUE
         /\ stopAsked' = FALSE
         /\ UpdateButtons(TRUE)
         /\ gauge' = IF type = "download" THEN 0 ELSE gauge
         /\ SetStatus(Text("working"))
    \/ /\ job' = j                        \* CreateNewProc failed
       /\ SetStatus(Text("info"))
       /\ UNCHANGED <<pc, ctrlC, mail, jobActive, stopAsked, buttons, gauge>>

StartFrame == UNCHANGED <<signals, taken, done, winState, rows, files, selected,
                          sigTarget, list, serverMsg, socketBase, xfer>>

\* action_fetch for the text r of the repository field; NoRepo stands for a
\* text that is empty or that gf_normalize_repo refuses.
ActionFetch(r) ==
  IF jobActive
  THEN UNCHANGED <<job, mail, pc, ctrlC, jobActive, stopAsked, buttons, gauge, status>>
  ELSE IF r = NoRepo
  THEN /\ SetStatus(Text("info"))
       /\ UNCHANGED <<job, mail, pc, ctrlC, jobActive, stopAsked, buttons, gauge>>
  ELSE StartJob("fetch", [of |-> r, release |-> -1])

\* The gauge is emptied after every job.  Mutant: only after one that failed.
ClearGauge_Failed == gauge' = IF job.result = "OK" THEN gauge ELSE 0
ClearGauge == gauge' = 0

\* handle_worker_reply: the body of its loop, for the one message there can be.
HandleReply ==
  LET failed  == job.result # "OK"
      newList == IF job.type = "fetch" /\ failed THEN Nothing ELSE list
      first   == IF newList.n > 0 THEN 0 ELSE -1
  IN /\ mail = "reply"
     /\ mail' = "home"
     /\ jobActive' = FALSE
     /\ SetStatus(IF ~failed THEN Text("info")
                  ELSE Blame(IF serverMsg # "none" THEN serverMsg ELSE job.result))
     /\ list' = newList
     /\ IF job.type = "fetch"
        THEN /\ selected' = first
             /\ FillReleaseList(newList)
             /\ FillAssetList(newList, first)
        ELSE UNCHANGED <<selected, rows, files>>
     /\ ClearGauge
     /\ UpdateButtons(FALSE)

\* gf_worker_abort: the test; the Signal() call is the next step of the task.
AbortTest(next, otherwise) ==
  IF job.running /\ job.workerTask # NoTask
  THEN sigTarget' = job.workerTask /\ guiPc' = next
  ELSE UNCHANGED sigTarget /\ guiPc' = otherwise

-----------------------------------------------------------------------------
(* The GUI task: gf_gui_run. *)

\* Opening everything; a repository on the command line is fetched at once.
GuiStart ==
  /\ guiPc = "start"
  /\ \/ /\ guiPc' = "wait"
        /\ \/ \E r \in Names : ActionFetch(r)
           \/ UNCHANGED <<job, mail, pc, ctrlC, jobActive, stopAsked, buttons, gauge,
                          status>>
     \/ /\ guiPc' = "cleanup"           \* memory, a class or the window failed
        /\ UNCHANGED <<job, mail, pc, ctrlC, jobActive, stopAsked, buttons, gauge,
                       status>>
  /\ StartFrame

\* Wait(): returns the pending signals and clears them.
GuiWake ==
  /\ guiPc = "wait"
  /\ signals # {}
  /\ taken' = signals
  /\ signals' = {}
  /\ guiPc' = "progress"
  /\ UNCHANGED <<done, jobActive, winState, view, sigTarget, stopAsked, shared,
                 procVars>>

\* update_progress; the gauge is kept in blocks instead of percents.
GuiProgress ==
  /\ guiPc = "progress"
  /\ guiPc' = "reply"
  /\ taken' = taken \ {"progress"}
  /\ gauge' = IF "progress" \in taken /\ jobActive /\ job.total # 0
              THEN IF job.sofar > job.total THEN job.total ELSE job.sofar
              ELSE gauge
  /\ UNCHANGED <<done, jobActive, winState, buttons, status, rows, files, selected,
                 sigTarget, stopAsked, signals, shared, procVars>>

\* while ((job = GetMsg(app->replyport)) != NULL)
GuiReply ==
  /\ guiPc = "reply"
  /\ \/ /\ "port" \in taken
        /\ HandleReply
        /\ UNCHANGED <<guiPc, taken>>
     \/ /\ "port" \notin taken \/ mail # "reply"
        /\ guiPc' = "input"
        /\ taken' = taken \ {"port"}
        /\ UNCHANGED <<mail, jobActive, list, view>>
  /\ UNCHANGED <<done, winState, sigTarget, stopAsked, signals, job, serverMsg,
                 procVars>>

\* handle_window_input returns, and Ctrl-C is looked at last.
GuiInputEnd ==
  /\ guiPc = "input"
  /\ done' = (done \/ "break" \in taken)
  /\ guiPc' = IF done' THEN "leave" ELSE "wait"
  /\ taken' = {}
  /\ UNCHANGED <<jobActive, winState, view, sigTarget, stopAsked, signals, shared,
                 procVars>>

\* The Signal() call of gf_worker_abort.  On a process that is gone it
\* reaches nobody.
GuiSignal ==
  /\ guiPc \in {"signal", "leavesignal"}
  /\ guiPc' = IF guiPc = "signal" THEN "input" ELSE "drain"
  /\ ctrlC' = [p \in Procs |-> ctrlC[p] \/ (p = sigTarget /\ pc[p] # "none")]
  /\ sigTarget' = NoTask
  /\ UNCHANGED <<taken, done, jobActive, winState, view, stopAsked, signals, shared, pc,
                 xfer, socketBase>>

\* Mutants: the job is stopped but not waited for; a reply is always waited for.
GuiLeave_NoWait ==
  /\ guiPc = "leave"
  /\ IF jobActive
     THEN /\ SetStatus(Text("aborting"))
          /\ stopAsked' = TRUE
          /\ AbortTest("leavesignal", "cleanup")
     ELSE /\ guiPc' = "cleanup"
          /\ UNCHANGED <<status, stopAsked, sigTarget>>
  /\ UNCHANGED <<taken, done, jobActive, winState, buttons, gauge, rows, files,
                 selected, signals, shared, procVars>>
GuiLeave_AlwaysWaits ==
  /\ guiPc = "leave"
  /\ SetStatus(Text("aborting"))
  /\ stopAsked' = TRUE
  /\ AbortTest("leavesignal", "drain")
  /\ UNCHANGED <<taken, done, jobActive, winState, buttons, gauge, rows, files,
                 selected, signals, shared, procVars>>

\* After the loop: stop a running job and wait for it.
GuiLeave ==
  /\ guiPc = "leave"
  /\ IF jobActive
     THEN /\ SetStatus(Text("aborting"))
          /\ stopAsked' = TRUE
          /\ AbortTest("leavesignal", "drain")
     ELSE /\ guiPc' = "cleanup"
          /\ UNCHANGED <<status, stopAsked, sigTarget>>
  /\ UNCHANGED <<taken, done, jobActive, winState, buttons, gauge, rows, files,
                 selected, signals, shared, procVars>>

\* WaitPort blocks until a reply is there, whatever signals are set.
GuiDrain ==
  /\ guiPc = "drain"
  /\ HandleReply
  /\ guiPc' = "cleanup"
  /\ UNCHANGED <<taken, done, winState, sigTarget, stopAsked, signals, job, serverMsg,
                 procVars>>

\* cleanup: the window, the port, *app->list and *app are freed.
GuiCleanup ==
  /\ guiPc = "cleanup"
  /\ guiPc' = "freed"
  /\ window' = FALSE
  /\ rows' = Nothing
  /\ files' = NoRelease
  /\ UNCHANGED <<taken, done, jobActive, iconified, buttons, status, gauge, selected,
                 sigTarget, stopAsked, signals, shared, procVars>>

GuiStep == \/ GuiStart \/ GuiWake \/ GuiProgress \/ GuiReply \/ GuiInputEnd
           \/ GuiSignal \/ GuiLeave \/ GuiDrain \/ GuiCleanup

-----------------------------------------------------------------------------
(* What handle_window_input does for one event of the user.  A disabled     *)
(* button sends none; the repository field and the bookmarks always can.    *)

Input == guiPc = "input" /\ "win" \in taken

InputFrame == UNCHANGED <<taken, signals, mail, job, serverMsg, procVars>>

\* GID_FETCH, Enter in GID_REPO, or a double click in GID_MARKS.
OnFetch(r) == Input /\ window /\ ActionFetch(r) /\ UNCHANGED guiPc /\ StartFrame

\* GID_DOWNLOAD: action_download with file column entry picked or not, the
\* user going through with it or not.
OnDownload ==
  /\ Input /\ window /\ buttons = "idle"
  /\ \/ /\ ~jobActive
        /\ 0 <= selected /\ selected < list.n
        /\ StartJob("download", [of |-> list.of, release |-> selected])
     \/ /\ IF jobActive THEN UNCHANGED status ELSE SetStatus(Text("info"))
        /\ UNCHANGED <<job, mail, pc, ctrlC, jobActive, stopAsked, buttons, gauge>>
  /\ UNCHANGED guiPc
  /\ StartFrame

\* GID_STOP: action_stop.
OnStop ==
  /\ Input /\ window /\ buttons = "busy"
  /\ IF jobActive
     THEN /\ SetStatus(Text("aborting"))
          /\ stopAsked' = TRUE
          /\ AbortTest("signal", "input")
     ELSE UNCHANGED <<status, stopAsked, sigTarget, guiPc>>
  /\ UNCHANGED <<done, jobActive, winState, buttons, gauge, rows, files, selected,
                 list>>
  /\ InputFrame

\* GID_RELEASES: the row clicked is looked up in the shared list.
OnRelease(i) ==
  /\ Input /\ window /\ 0 <= i /\ i < rows.n
  /\ IF i < list.n
     THEN /\ selected' = i
          /\ FillAssetList(list, i)
          /\ SetStatus(Text("info"))
     ELSE UNCHANGED <<selected, files, status>>
  /\ UNCHANGED <<guiPc, done, jobActive, winState, buttons, gauge, rows, sigTarget,
                 stopAsked, list>>
  /\ InputFrame

\* WMHI_CLOSEWINDOW and MID_QUIT: the rest of the input is still handled.
OnClose ==
  /\ Input /\ window
  /\ done' = TRUE
  /\ UNCHANGED <<guiPc, jobActive, winState, view, sigTarget, stopAsked, list>>
  /\ InputFrame

OnIconify ==
  /\ Input /\ window
  /\ window' = FALSE
  /\ iconified' = TRUE
  /\ UNCHANGED <<guiPc, done, jobActive, view, sigTarget, stopAsked, list>>
  /\ InputFrame

\* WM_OPEN may fail; then the program runs on without a window.
OnUniconify ==
  /\ Input /\ iconified
  /\ window' \in BOOLEAN
  /\ iconified' = FALSE
  /\ UNCHANGED <<guiPc, done, jobActive, view, sigTarget, stopAsked, list>>
  /\ InputFrame

OnInput == \/ \E r \in Names : OnFetch(r)
           \/ \E i \in 0 .. MaxBlocks : OnRelease(i)
           \/ OnDownload \/ OnStop \/ OnClose \/ OnIconify \/ OnUniconify

\* The user touches the window or the icon, or breaks the program.
UserSignal(s) ==
  /\ guiPc # "freed"
  /\ s = "win" => window \/ iconified
  /\ s \notin signals
  /\ signals' = signals \cup {s}
  /\ UNCHANGED <<guiVars, shared, procVars>>

-----------------------------------------------------------------------------
(* A worker process: worker_entry and the backend it calls. *)

WorkerFrame == UNCHANGED guiVars
Goto(p, q) == pc' = [pc EXCEPT ![p] = q]
\* The backend returns e; its locals are gone.
Return(p, e) == Goto(p, "close") /\ xfer' = [FreshXfer EXCEPT !.err = e, !.blocks = xfer.blocks]

\* WaitPort, GetMsg and the three fields set before the work starts.
GetJob(p) ==
  /\ pc[p] = "waitport" /\ mail = "port"
  /\ mail' = "worker"
  /\ job' = [job EXCEPT !.workerTask = p, !.sofar = 0, !.total = 0]
  /\ xfer' = FreshXfer
  /\ Goto(p, "open")
  /\ UNCHANGED <<signals, list, serverMsg, ctrlC, socketBase>> /\ WorkerFrame

\* gf_net_open: a base that is already there is used as it is.
NetOpen(p) ==
  /\ pc[p] = "open"
  /\ \/ /\ socketBase' = IF socketBase = NoTask THEN p ELSE socketBase
        /\ Goto(p, "call")
        /\ UNCHANGED xfer
     \/ /\ socketBase = NoTask
        /\ xfer' = [xfer EXCEPT !.err = "SOCKET"]
        /\ Goto(p, "result")
        /\ UNCHANGED socketBase
  /\ UNCHANGED <<signals, shared, ctrlC>> /\ WorkerFrame

\* Mutant: the message is not cleared.
Cleared_Not == serverMsg
\* gf_set_server_message(NULL).
Cleared == "none"

\* amissl_open: whether the TLS context was made without a CA bundle.  Not with
\* the proxy, and not where nothing is to be checked.
BundleMissing(backend) == {FALSE, backend = "native"}

\* gf_fetch_releases and gf_download_asset up to the first read: the message
\* is cleared, and the backend of the settings in the job is called (nothing
\* looks at it before).  Then TLS, memory or the file may fail before the parser
\* empties the list; the length of the body may be unknown (0).  Without a CA
\* bundle the job goes on, with a note of that in the message.
Dispatch(p) ==
  /\ pc[p] = "call"
  /\ \E b \in Backends :
     \/ \E noCa \in BundleMissing(b) :
          /\ serverMsg' = IF noCa THEN "NOCA" ELSE Cleared
          /\ job' = [job EXCEPT !.noCa = noCa]
          /\ \/ /\ list' = IF job.type = "fetch" THEN Nothing ELSE list
                /\ \E n \in {0, MaxBlocks} : xfer' = [xfer EXCEPT !.length = n, !.backend = b]
                /\ Goto(p, "read")
             \/ Return(p, "RECV") /\ UNCHANGED list
     \/ /\ b = "native"
        /\ serverMsg' = "SERVER"
        /\ Return(p, "SERVER")
        /\ UNCHANGED <<job, list>>
  /\ UNCHANGED <<signals, mail, ctrlC, socketBase>> /\ WorkerFrame

\* The other side sends something, or closes the connection.
NetworkAnswers(p) ==
  /\ pc[p] = "read" /\ ~xfer.ready
  /\ xfer' = [xfer EXCEPT !.ready = TRUE]
  /\ UNCHANGED <<signals, shared, pc, ctrlC, socketBase>> /\ WorkerFrame

\* wait_readable: WaitSelect itself fails.  That is looked at first, before a
\* signal that is pending.
WaitFails(p) ==
  /\ pc[p] = "read" /\ xfer.backend = "proxy"
  /\ Return(p, "RECV")
  /\ UNCHANGED <<signals, shared, ctrlC, socketBase>> /\ WorkerFrame

\* wait_readable: WaitSelect returns for the signal, and consumes it.
ReadAborted(p) ==
  /\ pc[p] = "read" /\ xfer.backend = "proxy" /\ ctrlC[p]
  /\ ctrlC' = [ctrlC EXCEPT ![p] = FALSE]
  /\ Return(p, "ABORTED")
  /\ UNCHANGED <<signals, shared, socketBase>> /\ WorkerFrame

\* Mutants: a timeout is reported as an abort; only when there is something to
\* read.
ReadTimesOut_AsAbort(p) ==
  /\ pc[p] = "read" /\ xfer.backend = "proxy" /\ ~ctrlC[p] /\ ~xfer.ready
  /\ Return(p, "ABORTED")
  /\ UNCHANGED <<signals, shared, ctrlC, socketBase>> /\ WorkerFrame
ReadTimesOut_IfReady(p) ==
  /\ pc[p] = "read" /\ xfer.backend = "proxy" /\ ~ctrlC[p] /\ xfer.ready
  /\ Return(p, "RECV")
  /\ UNCHANGED <<signals, shared, ctrlC, socketBase>> /\ WorkerFrame

\* wait_readable: nothing came within timeout_secs.  BIO_read has no timeout.
ReadTimesOut(p) ==
  /\ pc[p] = "read" /\ xfer.backend = "proxy" /\ ~ctrlC[p] /\ ~xfer.ready
  /\ Return(p, "RECV")
  /\ UNCHANGED <<signals, shared, ctrlC, socketBase>> /\ WorkerFrame

\* What comes of a read that returns: a block, the end of the body, or an error.
\* The native backend fails only while it connects (OSSL_HTTP_get) and then has
\* an explanation, or is out of memory; to it every end of the data is GF_OK.
\* The proxy takes an early end of a body of known length for an error, and
\* explains one that it finds in the body of a fetch.
ReadData(p) ==
  LET bodyEnds == xfer.backend = "proxy" => xfer.length = 0 IN
  /\ \/ /\ xfer.blocks < MaxBlocks
        /\ xfer' = [xfer EXCEPT !.ready = FALSE, !.blocks = @ + 1]
        /\ Goto(p, "sink")
        /\ UNCHANGED serverMsg
     \/ bodyEnds /\ Return(p, "OK") /\ UNCHANGED serverMsg
     \/ /\ xfer.backend = "native" => xfer.blocks = 0
        /\ Return(p, "RECV")
        /\ UNCHANGED serverMsg
     \/ /\ IF xfer.backend = "native" THEN xfer.blocks = 0
           ELSE job.type = "fetch" /\ bodyEnds
        /\ Return(p, "SERVER")
        /\ serverMsg' = "SERVER"
  /\ UNCHANGED <<signals, job, mail, list, ctrlC, socketBase>> /\ WorkerFrame

\* Mutant: data is taken before the signal is looked at.
ReadReturns_DataFirst(p) == pc[p] = "read" /\ xfer.ready /\ ReadData(p)
\* conn_fill: wait_readable has seen no signal; the native backend does not wait.
ReadReturns(p) ==
  /\ pc[p] = "read" /\ xfer.ready
  /\ xfer.backend = "proxy" => ~ctrlC[p]
  /\ ReadData(p)

\* worker_progress, once it has seen no Ctrl-C.
Progress ==
  LET sofar == xfer.blocks
      tell  == \/ sofar - job.lastSignalled >= ProgressStep
               \/ xfer.length # 0 /\ sofar >= xfer.length
  IN /\ job' = [job EXCEPT !.sofar = sofar, !.total = xfer.length,
                           !.lastSignalled = IF tell THEN sofar ELSE @]
     /\ signals' = IF tell THEN signals \cup {"progress"} ELSE signals

\* The proxy's loop is left once all of a body of known length is in.
WholeBody == xfer.backend = "proxy" /\ xfer.length # 0 /\ xfer.blocks >= xfer.length

\* The sink of a fetch: the parser completes a release or not.  After the last
\* block gf_parser_finish has the last word.
SinkFetch(p) ==
  /\ pc[p] = "sink" /\ job.type = "fetch"
  /\ \/ /\ xfer.backend = "native" /\ ctrlC[p]
        /\ Return(p, "ABORTED")
        /\ UNCHANGED <<list, serverMsg>>
     \/ /\ ~(xfer.backend = "native" /\ ctrlC[p])
        /\ \E k \in {0, 1} :
             list' = IF list.n + k = 0 THEN list
                     ELSE [of |-> job.item.of, n |-> list.n + k]
        /\ IF WholeBody
           THEN \E e \in {"OK", "RECV", "SERVER"} :
                  /\ Return(p, e)
                  /\ serverMsg' = IF e = "SERVER" THEN "SERVER" ELSE serverMsg
           ELSE Goto(p, "read") /\ UNCHANGED <<xfer, serverMsg>>
  /\ UNCHANGED <<signals, job, mail, ctrlC, socketBase>> /\ WorkerFrame

\* The sink of a download: Write, then the progress callback, which is also
\* where both backends look for Ctrl-C.
SinkDownload(p) ==
  /\ pc[p] = "sink" /\ job.type = "download"
  /\ \/ Return(p, "RECV") /\ UNCHANGED <<job, signals>>
     \/ ctrlC[p] /\ Return(p, "ABORTED") /\ UNCHANGED <<job, signals>>
     \/ /\ ~ctrlC[p]
        /\ Progress
        /\ IF WholeBody
           THEN Return(p, "OK")
           ELSE Goto(p, "read") /\ UNCHANGED xfer
  /\ UNCHANGED <<mail, list, serverMsg, ctrlC, socketBase>> /\ WorkerFrame

NetClose(p) ==
  /\ pc[p] = "close"
  /\ socketBase' = NoTask
  /\ Goto(p, "result")
  /\ UNCHANGED <<signals, shared, ctrlC, xfer>> /\ WorkerFrame

SetResult(p) ==
  /\ pc[p] = "result"
  /\ job' = [job EXCEPT !.result = xfer.err, !.running = FALSE]
  /\ xfer' = FreshXfer
  /\ Goto(p, "reply")
  /\ UNCHANGED <<signals, mail, list, serverMsg, ctrlC, socketBase>> /\ WorkerFrame

\* Mutant: the job is replied before the library is closed.
Reply_BeforeClose(p) ==
  /\ \/ /\ pc[p] = "close" /\ mail = "worker"
        /\ mail' = "reply" /\ signals' = signals \cup {"port"}
        /\ UNCHANGED pc
     \/ /\ pc[p] = "reply" /\ Goto(p, "exit")
        /\ UNCHANGED <<mail, signals>>
  /\ UNCHANGED <<job, list, serverMsg, ctrlC, xfer, socketBase>> /\ WorkerFrame

\* ReplyMsg puts the job on the GUI's port and signals it.
Reply(p) ==
  /\ pc[p] = "reply"
  /\ mail' = "reply"
  /\ signals' = signals \cup {"port"}
  /\ Goto(p, "exit")
  /\ UNCHANGED <<job, list, serverMsg, ctrlC, xfer, socketBase>> /\ WorkerFrame

Exit(p) ==
  /\ pc[p] = "exit"
  /\ Goto(p, "none")
  /\ ctrlC' = [ctrlC EXCEPT ![p] = FALSE]
  /\ UNCHANGED <<signals, shared, xfer, socketBase>> /\ WorkerFrame

WorkerStep(p) == \/ GetJob(p) \/ NetOpen(p) \/ Dispatch(p) \/ ReadAborted(p)
                 \/ ReadTimesOut(p) \/ ReadReturns(p) \/ SinkFetch(p) \/ SinkDownload(p)
                 \/ NetClose(p) \/ SetResult(p) \/ Reply(p) \/ Exit(p)

-----------------------------------------------------------------------------
Init ==
  /\ guiPc = "start" /\ taken = {} /\ signals = {} /\ done = FALSE
  /\ jobActive = FALSE /\ window = TRUE /\ iconified = FALSE /\ buttons = "idle"
  /\ status = Text("info") /\ gauge = 0 /\ rows = Nothing /\ files = NoRelease
  /\ selected = -1 /\ sigTarget = NoTask /\ stopAsked = FALSE
  /\ job = FreshJob /\ mail = "home" /\ list = Nothing /\ serverMsg = "none"
  /\ socketBase = NoTask /\ xfer = FreshXfer
  /\ pc = [p \in Procs |-> "none"] /\ ctrlC = [p \in Procs |-> FALSE]

\* The program has ended and so have its workers.
Terminated == /\ guiPc = "freed" /\ \A p \in Procs : pc[p] = "none"
              /\ UNCHANGED vars

Next == \/ GuiStep
        \/ OnInput
        \/ \E s \in {"win", "break"} : UserSignal(s)
        \/ \E p \in Procs : WorkerStep(p) \/ WaitFails(p) \/ NetworkAnswers(p)
        \/ Terminated

\* Exec keeps scheduling both tasks; nothing obliges the user, the network, or
\* WaitSelect to fail.
Fairness == WF_vars(GuiStep) /\ \A p \in Procs : WF_vars(WorkerStep(p))

Spec == Init /\ [][Next]_vars /\ Fairness

-----------------------------------------------------------------------------
(* Safety. *)

\* From the moment the job message is on its way to a process until that
\* process has replied it, what the message and the job point to is not freed
\* (gui.c, the loop before cleanup).
WorkerMemoryAlive ==
  \A p \in Procs : pc[p] \notin {"none", "exit"} => guiPc \notin {"cleanup", "freed"}

\* A process uses only a socket library base it opened itself, even when the
\* previous worker has not exited yet (gfworker.h: two tasks must not share one).
OneTaskPerBase == \A p \in Procs : pc[p] \in OnNet => socketBase = p

\* The two columns show exactly what is in the shared list, and
\* selected_release is a row of it or none.
ListShown ==
  /\ rows = list
  /\ selected = -1 \/ (0 <= selected /\ selected < list.n)
  /\ files = IF selected = -1 THEN NoRelease ELSE [of |-> list.of, release |-> selected]

\* With no job running, what action_download indexes is what the user sees,
\* also after failed and aborted fetches.
IdleShowsList == ~jobActive /\ guiPc # "freed" => ListShown

\* The gauge moves only for the download that is running and never ahead of
\* it, although a progress signal can be taken after its job has ended.
GaugeOfThisJob ==
  gauge > 0 => jobActive /\ job.type = "download" /\ gauge <= job.sofar

\* While a job runs and there is a window, its Stop button is on, whatever
\* was iconified and reopened meanwhile (update_button_states).
StopAvailable == jobActive /\ window => buttons = "busy"

\* The text shown for an error is one the job that ended left itself, never one
\* of an earlier job (gui.c 745): it is about the error, or is the note that
\* this very job had no CA bundle, which then stands in place of the cause
\* (backend_native.c 155).  Not so when the worker could not open its library:
\* then no backend was called to clear server_message.
ErrorIsOfThisJob ==
  status.text = "error" /\ job.result # "SOCKET" =>
    status.why = job.result \/ (status.why = "NOCA" /\ job.noCa)

\* A job ends as aborted only when an abort was requested for this very job;
\* a late Ctrl-C for the previous worker does not hit the next one.
AbortedOnlyIfAsked == job.result = "ABORTED" => stopAsked

\* What a download fetches is the entry of the release whose files the file
\* column shows (action_download).
DownloadsWhatIsShown ==
  [][~jobActive /\ jobActive' /\ job'.type = "download" => job'.item = files]_vars

-----------------------------------------------------------------------------
(* What makes the safety properties inductive. *)

\* Processes that have been given the job and have not replied it.
Engaged == {"waitport"} \cup Holding

\* The job message is in one place, and only one process is engaged with it.
OneOwner ==
  /\ jobActive <=> mail # "home"
  /\ \A p \in Procs : pc[p] = "waitport" => mail = "port"
  /\ \A p \in Procs : pc[p] \in Holding => mail = "worker"
  /\ \A p, q \in Procs : pc[p] \in Engaged /\ pc[q] \in Engaged => p = q
  /\ guiPc \in {"start", "cleanup", "freed"} => ~jobActive

\* The library is open exactly while its opener is between open and close.
LibraryOwned ==
  /\ OneTaskPerBase
  /\ socketBase # NoTask => pc[socketBase] \in OnNet

\* Every trace an abort leaves behind is newer than the request for it.
AbortTraced ==
  /\ AbortedOnlyIfAsked
  /\ xfer.err = "ABORTED" => stopAsked
  /\ mail # "worker" => xfer.err = "OK"
  /\ \A p \in Procs : pc[p] = "reply" => xfer.err = "OK"
  /\ \A p \in Procs : pc[p] \in Engaged /\ ctrlC[p] => stopAsked
  /\ sigTarget # NoTask => stopAsked /\ guiPc \in {"signal", "leavesignal"}

\* The inductive invariant behind the three safety theorems: the job has one
\* owner, the library one opener, and every abort was asked for.
IInv == TypeOK /\ OneOwner /\ LibraryOwned /\ AbortTraced

\* What is drawn agrees with the job and, unless a fetch is filling it, the list.
\* Reopening the window redraws nothing, so this holds without a window as well.
WindowAgrees ==
  /\ ~(jobActive /\ job.type = "fetch") /\ guiPc # "freed" => ListShown
  /\ jobActive => buttons = "busy" /\ status.text # "error"
  /\ guiPc = "start" => window

\* Only the sink of a download moves the counters, and they start at nothing.
GaugeFollows ==
  /\ GaugeOfThisJob
  /\ job.total # 0 => job.type = "download"
  /\ mail = "port" => gauge = 0 /\ job.total = 0
  /\ \A p \in Procs : pc[p] \in Holding \ {"reply"} => job.sofar <= xfer.blocks

\* What server_message says once a backend has been called and the job has come
\* to e: the explanation of e if e has one, or else the note of this job, if any.
MessageFor(e) ==
  \/ e = "SOCKET"
  \/ serverMsg = IF e = "SERVER" THEN e ELSE IF job.noCa THEN "NOCA" ELSE "none"

\* From the first read on the message is this job's own.
MessageExplains ==
  /\ ErrorIsOfThisJob
  /\ \A p \in Procs : pc[p] \in {"read", "sink"} => MessageFor("OK")
  /\ \A p \in Procs : pc[p] \in {"close", "result"} => MessageFor(xfer.err)
  /\ mail = "reply" \/ (\E p \in Procs : pc[p] = "reply") => MessageFor(job.result)

\* The inductive invariant behind what the window shows, on top of IInv.
VInv == WindowAgrees /\ GaugeFollows /\ MessageExplains

-----------------------------------------------------------------------------
(* Liveness, where the backend has a timeout. *)

\* Closing the window ends the program, also while a job is running.
QuitEnds == done ~> guiPc = "freed"

\* A Ctrl-C that reaches a worker waiting for data ends its job there, however
\* much data keeps coming: as aborted, or as a failed read if WaitSelect itself
\* fails, which is looked at first (net.c 111); never as a success.
DeliveredStopEnds ==
  \A p \in Procs :
    (pc[p] = "read" /\ ctrlC[p]) ~> job.result \in {"ABORTED", "RECV"}

\* The user's view of the job (JobPromise).
Promise == INSTANCE JobPromise
  WITH Outcomes <- Results, Ok <- "OK", Aborted <- "ABORTED",
       phase    <- IF guiPc = "freed" THEN "gone" ELSE IF jobActive THEN "busy" ELSE "idle",
       asked    <- stopAsked,
       outcome  <- IF jobActive THEN "none" ELSE job.result

\* Every step of the GUI task and of its workers is a step the promise allows,
\* with either backend.
PromiseSafety == Promise!Init /\ [][Promise!Next]_(Promise!vars)

\* They keep the whole promise, liveness included, where reads have a timeout.
KeepsPromise == Promise!Spec

-----------------------------------------------------------------------------
(* What the comments and the guide say, and the code does not do. *)

\* worker.c: a stop requested before the worker has filled in worker_task
\* still breaks it off at its next check.
StopReachesWorker ==
  stopAsked /\ guiPc \notin {"signal", "leavesignal"} =>
    \A p \in Procs : pc[p] = "read" => ctrlC[p]

\* worker.c: only after the reply may the GUI touch the job: the file column
\* never shows files of another repository than the release column.
FilesOfRowsShown == files # NoRelease => files.of = rows.of
=============================================================================
