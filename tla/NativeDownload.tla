--------------------------- MODULE NativeDownload ---------------------------
(***************************************************************************)
(* The native backend: gf_native_fetch_releases and                        *)
(* gf_native_download_asset, one job after the other, each opening and     *)
(* closing AmiSSL for itself.  worker_entry calls them only with           *)
(* bsdsocket.library open.                                                 *)
(***************************************************************************)
EXTENDS Integers

CONSTANTS
  Kinds,     \* subset of {"fetch", "download"}: what a job may be
  Full,      \* blocks a transfer has when it is complete
  MaxJobs    \* bound: jobs one after the other

NativeConstants ==
  /\ Kinds \subseteq {"fetch", "download"} /\ Full \in Nat
  /\ MaxJobs \in Nat \ {0}

VARIABLES
  pc, jobs, kind,
  verify,    \* prefs->verify_cert
  base,      \* AmiSSLMasterBase, AmiSSLBase and ssl_ctx are not NULL
  isOpen,    \* what they point to really is open
  checked,   \* SSL_VERIFY_PEER is set
  message,   \* server_message: what it is about, or "none"
  err, ioError,
  ctrlC,
  came,      \* blocks BIO_read has returned
  put,       \* blocks the sink has taken
  file,      \* as in HttpGet
  late       \* history: blocks taken while a stop was pending

lib  == <<base, isOpen, checked>>
disk == <<file, put>>
vars == <<pc, jobs, kind, verify, lib, message, err, ioError, ctrlC, came, disk, late>>

Parts  == {"master", "ssl", "ctx"}
Errors == {"URL", "CLOCK", "TLS", "NOMEM", "FILE", "CONNECT", "ABORTED"}
Steps  == {"start", "clock", "master", "ssl", "ctx", "paths", "prepare", "get", "read",
           "check", "sink", "finish", "shut", "done"}

TypeOK ==
  /\ pc \in Steps /\ jobs \in 1 .. MaxJobs /\ kind \in Kinds
  /\ verify \in BOOLEAN /\ checked \in BOOLEAN
  /\ base \in [Parts -> BOOLEAN] /\ isOpen \in [Parts -> BOOLEAN]
  /\ message \in {"none", "noCA"} \cup Errors
  /\ err \in {"OK"} \cup Errors /\ ioError \in BOOLEAN /\ ctrlC \in BOOLEAN
  /\ came \in 0 .. Full /\ put \in 0 .. came
  /\ file \in {"absent", "old", "writing", "closed", "left"}
  /\ late \in Nat

-----------------------------------------------------------------------------
(* amissl_open. *)

Opened(part) == /\ base' = [base EXCEPT ![part] = TRUE]
                /\ isOpen' = [isOpen EXCEPT ![part] = TRUE]

\* The call fails for lack of e; nothing is left open by it.
GiveUp(e) == pc' = "done" /\ err' = e /\ message' = e

\* An asset without a path is refused before anything is opened.
Enter ==
  /\ pc = "start"
  /\ \/ pc' = (IF base["ctx"] THEN "prepare" ELSE "clock") /\ UNCHANGED err
     \/ kind = "download" /\ pc' = "done" /\ err' = "URL"
  /\ UNCHANGED <<jobs, kind, verify, lib, message, ioError, ctrlC, came, disk, late>>

CheckClock ==
  /\ pc = "clock"
  /\ \/ pc' = "master" /\ UNCHANGED <<err, message>>
     \/ verify /\ GiveUp("CLOCK")
  /\ UNCHANGED <<jobs, kind, verify, lib, ioError, ctrlC, came, disk, late>>

OpenMaster ==
  /\ pc = "master"
  /\ \/ Opened("master") /\ pc' = "ssl" /\ UNCHANGED <<err, message>>
     \/ GiveUp("TLS") /\ UNCHANGED <<base, isOpen>>
  /\ UNCHANGED <<jobs, kind, verify, checked, ioError, ctrlC, came, disk, late>>

OpenSsl ==
  /\ pc = "ssl"
  /\ \/ Opened("ssl") /\ pc' = "ctx" /\ UNCHANGED <<err, message>>
     \/ /\ GiveUp("TLS")
        /\ base' = [base EXCEPT !["master"] = FALSE]
        /\ isOpen' = [isOpen EXCEPT !["master"] = FALSE]
  /\ UNCHANGED <<jobs, kind, verify, checked, ioError, ctrlC, came, disk, late>>

\* Mutant: AmiSSLMasterBase keeps its value too when there is no context.
NewContext_LeavesBase ==
  /\ pc = "ctx"
  /\ \/ Opened("ctx") /\ pc' = "paths" /\ UNCHANGED <<err, message>>
     \/ /\ GiveUp("TLS")
        /\ isOpen' = [isOpen EXCEPT !["master"] = FALSE, !["ssl"] = FALSE]
        /\ UNCHANGED base
  /\ UNCHANGED <<jobs, kind, verify, checked, ioError, ctrlC, came, disk, late>>

\* SSL_CTX_new.  When it fails AmiSSL is closed, but AmiSSLBase keeps its value.
NewContext ==
  /\ pc = "ctx"
  /\ \/ Opened("ctx") /\ pc' = "paths" /\ UNCHANGED <<err, message>>
     \/ /\ GiveUp("TLS")
        /\ base' = [base EXCEPT !["master"] = FALSE]
        /\ isOpen' = [isOpen EXCEPT !["master"] = FALSE, !["ssl"] = FALSE]
  /\ UNCHANGED <<jobs, kind, verify, checked, ioError, ctrlC, came, disk, late>>

\* Without a CA bundle nothing is verified, and a note about it is left.
SetVerify ==
  /\ pc = "paths"
  /\ pc' = "prepare"
  /\ \/ checked' = verify /\ UNCHANGED message
     \/ verify /\ checked' = FALSE /\ message' = "noCA"
  /\ UNCHANGED <<jobs, kind, verify, base, isOpen, err, ioError, ctrlC, came, disk, late>>

-----------------------------------------------------------------------------
(* The two functions around fetch_url, and fetch_url. *)

Stop(e) == pc' = "shut" /\ err' = e

\* The parser and its memory; the list is emptied.
PrepareFetch ==
  /\ pc = "prepare" /\ kind = "fetch"
  /\ (pc' = "get" /\ UNCHANGED err) \/ Stop("NOMEM")
  /\ UNCHANGED <<jobs, kind, verify, lib, message, ioError, ctrlC, came, disk, late>>

\* The name of the file, and Open(MODE_NEWFILE).
PrepareDownload ==
  /\ pc = "prepare" /\ kind = "download"
  /\ \/ pc' = "get" /\ file' = "writing" /\ UNCHANGED err
     \/ Stop("FILE") /\ UNCHANGED file
  /\ UNCHANGED <<jobs, kind, verify, lib, message, ioError, ctrlC, came, put, late>>

\* OSSL_HTTP_get; a failure is explained by OpenSSL or by a text of our own.
Get ==
  /\ pc = "get"
  /\ \/ pc' = "read" /\ UNCHANGED <<err, message>>
     \/ pc' = "finish" /\ err' = "NOMEM" /\ UNCHANGED message
     \/ pc' = "finish" /\ err' = "CONNECT" /\ message' = "CONNECT"
  /\ UNCHANGED <<jobs, kind, verify, lib, ioError, ctrlC, came, disk, late>>

\* BIO_read: a block, or 0 or less, which ends the loop without an error.
Read ==
  /\ pc = "read"
  /\ \/ came < Full /\ came' = came + 1 /\ pc' = "check"
     \/ pc' = "finish" /\ UNCHANGED came
  /\ UNCHANGED <<jobs, kind, verify, lib, message, err, ioError, ctrlC, disk, late>>

\* Mutant: only the progress callback looks for the signal.
CheckAbort_Never ==
  /\ pc = "check"
  /\ pc' = "sink" /\ UNCHANGED err
  /\ UNCHANGED <<jobs, kind, verify, lib, message, ioError, ctrlC, came, disk, late>>
CheckAbort ==
  /\ pc = "check"
  /\ IF ctrlC THEN pc' = "finish" /\ err' = "ABORTED"
     ELSE pc' = "sink" /\ UNCHANGED err
  /\ UNCHANGED <<jobs, kind, verify, lib, message, ioError, ctrlC, came, disk, late>>

Take == put' = put + 1 /\ late' = IF ctrlC THEN late + 1 ELSE late

\* gf_json_feed takes anything.
JsonSink ==
  /\ pc = "sink" /\ kind = "fetch"
  /\ Take
  /\ pc' = "read"
  /\ UNCHANGED <<jobs, kind, verify, lib, message, err, ioError, ctrlC, came, file>>

\* Write, then the progress callback, which looks for the signal too.
DownloadSink ==
  /\ pc = "sink" /\ kind = "download"
  /\ \/ /\ Take
        /\ IF ctrlC THEN pc' = "finish" /\ err' = "ABORTED" ELSE pc' = "read" /\ UNCHANGED err
        /\ UNCHANGED ioError
     \/ /\ ioError' = TRUE /\ err' = "FILE" /\ pc' = "finish"
        /\ UNCHANGED <<put, late>>
  /\ UNCHANGED <<jobs, kind, verify, lib, message, ctrlC, came, file>>

\* gf_json_finish never fails.
FinishFetch ==
  /\ pc = "finish" /\ kind = "fetch"
  /\ pc' = "shut"
  /\ UNCHANGED <<jobs, kind, verify, lib, message, err, ioError, ctrlC, came, disk, late>>

\* Mutant: what an abort leaves is kept.
FinishDownload_KeepsAborted ==
  /\ pc = "finish" /\ kind = "download"
  /\ pc' = "shut"
  /\ err' = IF ioError THEN "FILE" ELSE err
  /\ file' \in IF err' \in {"OK", "ABORTED"} THEN {"closed"} ELSE {"absent", "left"}
  /\ UNCHANGED <<jobs, kind, verify, lib, message, ioError, ctrlC, came, put, late>>

\* The file is closed and, after an error, deleted; whether that worked is not
\* looked at.
FinishDownload ==
  /\ pc = "finish" /\ kind = "download"
  /\ pc' = "shut"
  /\ err' = IF ioError THEN "FILE" ELSE err
  /\ file' \in IF err' = "OK" THEN {"closed"} ELSE {"absent", "left"}
  /\ UNCHANGED <<jobs, kind, verify, lib, message, ioError, ctrlC, came, put, late>>

\* Mutant: amissl_close leaves AmiSSL open when the job failed.
CloseAll_OkOnly ==
  /\ pc = "shut"
  /\ pc' = "done"
  /\ base' = [p \in Parts |-> FALSE]
  /\ isOpen' = [p \in Parts |-> isOpen[p] /\ (err # "OK" \/ ~base[p])]
  /\ UNCHANGED <<jobs, kind, verify, checked, message, err, ioError, ctrlC, came, disk, late>>

\* amissl_close closes whatever is not NULL.
CloseAll ==
  /\ pc = "shut"
  /\ pc' = "done"
  /\ base' = [p \in Parts |-> FALSE]
  /\ isOpen' = [p \in Parts |-> isOpen[p] /\ ~base[p]]
  /\ UNCHANGED <<jobs, kind, verify, checked, message, err, ioError, ctrlC, came, disk, late>>

Backend == \/ Enter \/ CheckClock \/ OpenMaster \/ OpenSsl \/ NewContext \/ SetVerify
           \/ PrepareFetch \/ PrepareDownload \/ Get \/ Read \/ CheckAbort
           \/ JsonSink \/ DownloadSink \/ FinishFetch \/ FinishDownload \/ CloseAll

-----------------------------------------------------------------------------
UserStop ==
  /\ ~ctrlC /\ pc # "done"
  /\ ctrlC' = TRUE
  /\ UNCHANGED <<pc, jobs, kind, verify, lib, message, err, ioError, came, disk, late>>

Fresh == /\ pc' = "start" /\ kind' \in Kinds /\ verify' \in BOOLEAN
         /\ err' = "OK" /\ ioError' = FALSE /\ ctrlC' = FALSE
         /\ came' = 0 /\ put' = 0 /\ late' = 0
         /\ file' \in {"absent", "old"}
         /\ message' = "none"      \* gf_set_server_message(NULL)

\* The next job, in another process: gf_fetch_releases or gf_download_asset.
NextJob ==
  /\ pc = "done" /\ jobs < MaxJobs
  /\ jobs' = jobs + 1
  /\ Fresh
  /\ UNCHANGED lib

Init ==
  /\ pc = "start" /\ jobs = 1 /\ kind \in Kinds /\ verify \in BOOLEAN
  /\ base = [p \in Parts |-> FALSE] /\ isOpen = base /\ checked = FALSE
  /\ message = "none" /\ err = "OK" /\ ioError = FALSE /\ ctrlC = FALSE
  /\ came = 0 /\ put = 0 /\ late = 0 /\ file \in {"absent", "old"}

Finished == pc = "done" /\ jobs = MaxJobs /\ UNCHANGED vars

Next == Backend \/ UserStop \/ NextJob \/ Finished

Spec == Init /\ [][Next]_vars

-----------------------------------------------------------------------------
\* After a job, however far it got, both libraries and the context are closed:
\* the next job runs in another task and may not find them (the comment above
\* amissl_open).
LibrariesBalanced == pc = "done" => \A p \in Parts : ~isOpen[p]

\* The same of the file (gf_native_download_asset).
NothingLeftOpen == LibrariesBalanced /\ (pc = "done" => file # "writing")

\* amissl_close and the calls of AmiSSL only use what is open, although a
\* failed start leaves AmiSSLBase behind for the next job.
UsesOnlyOpen ==
  /\ base["master"] => isOpen["master"]
  /\ base["ctx"] => isOpen["ctx"]
  /\ pc \in {"ctx", "paths", "prepare", "get", "read", "check", "sink", "finish", "shut"}
       => \A p \in {"master", "ssl"} : base[p] /\ isOpen[p]
  /\ pc \in {"paths", "prepare", "get", "read", "check", "sink", "finish", "shut"}
       => base["ctx"]

\* Once a stop is pending at most one more block reaches the list or the file.
StopIsPrompt == late <= 1

-----------------------------------------------------------------------------
(* What makes these inductive. *)

Outside == {"start", "clock", "master", "done"}
Loop    == {"get", "read", "check", "sink", "finish"}

\* Before amissl_open has begun and when a job is over nothing is open; only
\* AmiSSLBase may look as if it were.
Opening ==
  /\ pc \in Outside => ~base["master"] /\ ~base["ctx"] /\ \A p \in Parts : ~isOpen[p]
  /\ pc = "ssl" => base["master"] /\ ~isOpen["ssl"]
  /\ pc \in {"ssl", "ctx"} => ~base["ctx"] /\ ~isOpen["ctx"]

\* The block that was read last is on its way to the file.
Counted ==
  /\ pc \in {"start", "clock", "master", "ssl", "ctx", "paths", "prepare", "get"} =>
       came = 0 /\ err = "OK"
  /\ pc \in {"read", "check", "sink"} => err = "OK"
  /\ pc \in {"check", "sink"} => came = put + 1
  /\ pc \notin {"check", "sink"} /\ err = "OK" => came = put
  /\ ioError => err = "FILE"

FileOpen ==
  /\ file = "writing" <=> kind = "download" /\ pc \in Loop
  /\ file = "closed" => kind = "download" /\ pc \in {"shut", "done"} /\ err = "OK"
  /\ file = "left" => kind = "download" /\ pc \in {"shut", "done"}
  /\ kind = "download" /\ pc \in {"shut", "done"} /\ err = "OK" => file = "closed"

StopSeen == late > 0 => pc # "sink" /\ (ctrlC \/ pc \in {"finish", "shut", "done"})

\* The inductive invariant.
NativeInv ==
  /\ TypeOK /\ Opening /\ UsesOnlyOpen /\ Counted /\ FileOpen
  /\ StopSeen /\ StopIsPrompt
=============================================================================
