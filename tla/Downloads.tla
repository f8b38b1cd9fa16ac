----------------------------- MODULE Downloads ------------------------------
(***************************************************************************)
(* A download from the click to the file: the questions of action_download *)
(* (gui.c), then one of the two backends.  Both share what both have: pc,  *)
(* err, ioError, ctrlC, file and late.  The other backend is at rest.      *)
(***************************************************************************)
EXTENDS Integers, Sequences

CONSTANTS
  Backends,                   \* of {"proxy", "native"}
  Answers, RecvBuf, HdrBuf,   \* HttpGet
  Kinds, Full, MaxJobs        \* NativeDownload

VARIABLES
  backend,
  place,     \* in action_download, or "job" when the worker has been started
  pc, err, ioError, ctrlC, file, late,
  answer, arrived, hungUp, stage, sock, pos, len, eof, hdrLen, nlRun, received, out,
  jobs, kind, verify, base, isOpen, checked, message, came, put

Proxy  == INSTANCE HttpGet
Native == INSTANCE NativeDownload

ASSUME DownloadsAssumption ==
  /\ Backends \subseteq {"proxy", "native"}
  /\ Proxy!HttpConstants
  /\ Native!NativeConstants

both     == <<pc, err, ioError, ctrlC, file, late>>
http     == <<answer, arrived, hungUp, stage, sock, pos, len, eof, hdrLen, nlRun, received,
              out>>
native   == <<jobs, kind, verify, base, isOpen, checked, message, came, put>>
vars     == <<backend, place, both, http, native>>

ProxyAtRest ==
  /\ answer = CHOOSE a \in Answers : TRUE
  /\ arrived = 0 /\ hungUp = FALSE /\ stage = "head" /\ sock = FALSE
  /\ pos = 0 /\ len = 0 /\ eof = FALSE /\ hdrLen = 0 /\ nlRun = 0 /\ received = 0
  /\ out = <<>>

NativeAtRest ==
  /\ jobs = 1 /\ kind = "download" /\ verify = FALSE
  /\ base = [p \in Native!Parts |-> FALSE] /\ isOpen = base /\ checked = FALSE
  /\ message = "none" /\ came = 0 /\ put = 0

-----------------------------------------------------------------------------
(* The questions.  They are put before there is a job; a fetch has none.   *)

Asking(p) == place = p /\ UNCHANGED <<backend, both, http, native>>

\* Lock fails too for a file another program is writing.
LookForFile ==
  /\ Asking("look")
  /\ \/ place' = "room"
     \/ file = "old" /\ place' = "ask"

\* Overwrite it or not.
AskOverwrite == Asking("ask") /\ place' \in {"room", "cancelled"}

\* Enough room, or it is not known, or the user wants to go on; or not.
CheckSpace == Asking("room") /\ place' \in {"job", "cancelled"}

\* Between the question and the opening another program makes a file of that
\* name or takes it away.  (Should it hold the file, OpenFile and
\* PrepareDownload fail.)
BeforeOpen == {"start", "clock", "master", "ssl", "ctx", "paths", "prepare"}
OtherProgram ==
  /\ pc \in BeforeOpen /\ place # "cancelled" /\ kind = "download"
  /\ UNCHANGED <<backend, place, pc, err, ioError, ctrlC, late, http, native>>
Appear == OtherProgram /\ file = "absent" /\ file' = "old"
Vanish == OtherProgram /\ file = "old" /\ file' = "absent"

Cancelled == place = "cancelled" /\ UNCHANGED vars

-----------------------------------------------------------------------------
FirstPlace(k) == IF k = "download" THEN "look" ELSE "job"

InProxy == backend = "proxy" /\ place = "job" /\ UNCHANGED <<backend, place, native>>
ProxyStep == InProxy /\ Proxy!Next

\* A job that follows another begins with the questions.
InNative ==
  /\ backend = "native" /\ place = "job"
  /\ UNCHANGED <<backend, http>>
NativeStep ==
  /\ InNative /\ Native!Next
  /\ place' = IF jobs' = jobs THEN place ELSE FirstPlace(kind')

Init ==
  /\ backend \in Backends
  /\ \/ backend = "proxy" /\ Proxy!Init /\ NativeAtRest
     \/ backend = "native" /\ Native!Init /\ ProxyAtRest
  /\ place = FirstPlace(kind)

Next == \/ LookForFile \/ AskOverwrite \/ CheckSpace \/ Appear \/ Vanish \/ Cancelled
        \/ ProxyStep \/ NativeStep

\* Where a task waits for the network without a timeout: OSSL_HTTP_get is
\* called with none, BIO_read has none.
Waiting == backend = "native" /\ pc \in {"get", "read"}

\* The worker runs; network, server and user need not do anything.
Spec == /\ Init /\ [][Next]_vars
        /\ WF_vars(InProxy /\ Proxy!Client)
        /\ WF_vars(~Waiting /\ InNative /\ Native!Backend /\ UNCHANGED place)

-----------------------------------------------------------------------------
\* What reaches the file is the body of a good answer and nothing else.
FileIsBody == backend = "proxy" => Proxy!FileIsBody

\* Stop lets at most one more block through, with either backend.
StopIsPrompt == late <= 1

\* When a job is over nothing of it is left open: file, socket, and with the
\* native backend the libraries, which the next job opens in another task.
NothingLeftOpen ==
  /\ backend = "proxy" => Proxy!NothingLeftOpen
  /\ backend = "native" => Native!NothingLeftOpen

\* The native backend only uses what is open, also after a start that failed
\* half-way (amissl_open).
UsesOnlyOpen == backend = "native" => Native!UsesOnlyOpen

\* Both backends keep the promise of FileDownload: all of the file, as far as
\* its length is known, and success; or an error and what there is of it
\* deleted, if the file system will (nobody looks, backend_proxy.c 173).
Over    == place = "cancelled" \/ pc \in {"shut", "done"}
AllOfIt == IF backend = "proxy" THEN Proxy!Complete \/ answer.length = 0 ELSE put = came
State   == IF file \in {"absent", "old", "left"} THEN file
           ELSE IF Over /\ AllOfIt THEN "whole" ELSE "part"
Outcome == IF ~Over THEN "none"
           ELSE IF place = "job" /\ kind = "download" /\ err = "OK" THEN "ok"
           ELSE "failed"
Download == INSTANCE FileDownload WITH state <- State, outcome <- Outcome
KeepsDownload == Download!Promise

\* Every job ends, or its worker waits where the native backend has no timeout
\* (gf_http_get has one for every read).
DownloadEnds == place = "job" ~> pc = "done" \/ Waiting

-----------------------------------------------------------------------------
\* Where action_download is.
Asked ==
  /\ place \in {"look", "ask", "room", "job", "cancelled"}
  /\ place # "job" => pc = "start" /\ kind = "download"

\* The inductive invariant: of the backend at work that of its own, the other at rest.
DInv ==
  /\ Asked
  /\ \/ backend = "proxy" /\ Proxy!HttpInv /\ NativeAtRest
     \/ backend = "native" /\ Native!NativeInv /\ ProxyAtRest

\* net.c: a transfer that was cut short may not pass as a success.
ShortIsError == backend = "proxy" => Proxy!ShortIsError
=============================================================================
