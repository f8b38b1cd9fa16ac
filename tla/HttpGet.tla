------------------------------ MODULE HttpGet ------------------------------
(***************************************************************************)
(* A download through the proxy: gf_proxy_download_asset, gf_http_get with *)
(* its read buffer, and worker_progress as the sink's callback.  Around it *)
(* the server, whose answer arrives in pieces of any size and may stop at  *)
(* any point, and the user, who may ask to stop.                           *)
(*                                                                         *)
(* The answer is a run of units: those of the headers ("r", "n" or "x" for *)
(* any other character), then the bytes of the body.  A unit is known by   *)
(* its place in that run, so that the file tells which ones reached it.    *)
(***************************************************************************)
EXTENDS Integers, Sequences

CONSTANTS
  Answers,   \* answers the server may give: records of Answer below
  RecvBuf,   \* RECV_BUF
  HdrBuf     \* HDR_BUF

\* head: the headers; kind: what they say; length: Content-Length, 0 if there
\* is none; full: the size of the file; body: how much of it the server sends
\* before it closes the connection.
Answer == [head : Seq({"x", "r", "n"}), kind : {"ok", "refused", "chunked", "nohttp"},
           length : Nat, full : Nat, body : Nat]

\* A newline, and another one since the last character but carriage returns.
LineEnd(h, i) == \E j \in 1 .. i : h[j] = "n" /\ \A k \in j + 1 .. i : h[k] = "r"
BlankLine(h, i) == h[i] = "n" /\ LineEnd(h, i - 1)

\* What comes after the first blank line is the body, not the headers.
HttpConstants ==
  /\ Answers # {}
  /\ \A a \in Answers : a \in Answer /\ a.body <= a.full /\ a.length \in {0, a.full}
  /\ \A a \in Answers : \A i \in 1 .. Len(a.head) : BlankLine(a.head, i) => i = Len(a.head)
  /\ RecvBuf \in Nat \ {0}
  /\ HdrBuf \in Nat \ {0}

VARIABLES
  answer,    \* the answer of the server
  arrived,   \* units of it that are at the socket, or have been read from it
  hungUp,    \* the server has closed the connection
  ctrlC,     \* SIGBREAKF_CTRL_C pending
  pc, stage, \* where the worker is; what conn_fill was called for
  err, ioError,
  sock,      \* c->sock >= 0
  pos, len,  \* c->pos and c->len, counted from the start of the answer
  eof,       \* c->eof
  hdrLen, nlRun,
  received,
  file,      \* "absent", "old", "writing", "closed", or "left": a part of it that
             \* could not be deleted
  out,       \* what has been written, as places in the answer
  late       \* history: reads done while a stop was pending

world  == <<answer, arrived, hungUp, ctrlC>>
conn   == <<sock, pos, len, eof>>
header == <<hdrLen, nlRun>>
disk   == <<file, out>>
vars   == <<world, pc, stage, err, ioError, conn, header, received, disk, late>>

-----------------------------------------------------------------------------
\* The answer as it goes over the wire.
HeadLen(a) == Len(a.head)
Wire(a) == HeadLen(a) + a.body
Unit(i) == IF i <= HeadLen(answer) THEN answer.head[i] ELSE "x"

Errors == {"URL", "FILE", "NOMEM", "DNS", "SOCKET", "CONNECT", "SEND", "RECV", "PROTO",
           "HTTP", "ABORTED"}
Steps  == {"start", "request", "connect", "fill", "wait", "recv", "head",
           "parse", "body", "end", "cleanup", "close", "done"}

TypeOK ==
  /\ answer \in Answers
  /\ arrived \in 0 .. Wire(answer) /\ hungUp \in BOOLEAN /\ ctrlC \in BOOLEAN
  /\ pc \in Steps /\ stage \in {"head", "body"}
  /\ err \in Errors \cup {"OK"} /\ ioError \in BOOLEAN
  /\ sock \in BOOLEAN /\ eof \in BOOLEAN
  /\ pos \in 0 .. len /\ len \in 0 .. arrived
  /\ hdrLen \in 0 .. HdrBuf - 1 /\ nlRun \in 0 .. 2
  /\ received \in Nat
  /\ file \in {"absent", "old", "writing", "closed", "left"}
  /\ out \in Seq(Nat)
  /\ late \in Nat

Fail(e) == err' = e /\ pc' = "cleanup"

-----------------------------------------------------------------------------
(* The caller: gf_proxy_download_asset. *)

\* An asset without a path, or a destination that does not fit.
Refuse ==
  /\ pc = "start"
  /\ \E e \in {"URL", "FILE"} : err' = e
  /\ pc' = "done"
  /\ UNCHANGED <<world, stage, ioError, conn, header, received, disk, late>>

\* Open(MODE_NEWFILE): what was there is gone.  It fails, for one thing, when
\* another program has that file open.
OpenFile ==
  /\ pc = "start"
  /\ \/ pc' = "request" /\ file' = "writing" /\ UNCHANGED err
     \/ pc' = "done" /\ err' = "FILE" /\ UNCHANGED file
  /\ UNCHANGED <<world, stage, ioError, conn, header, received, out, late>>

\* Close, and DeleteFile unless all went well.  Whether that worked is not looked
\* at.
CloseFile ==
  /\ pc = "close"
  /\ pc' = "done"
  /\ err' = IF ioError THEN "FILE" ELSE err
  /\ file' \in IF err' = "OK" THEN {"closed"} ELSE {"absent", "left"}
  /\ UNCHANGED <<world, stage, ioError, conn, header, received, out, late>>

-----------------------------------------------------------------------------
(* gf_http_get. *)

\* Memory, the address and a socket.
Prepare ==
  /\ pc = "request"
  /\ \/ (\E e \in {"NOMEM", "DNS", "SOCKET"} : Fail(e)) /\ UNCHANGED sock
     \/ pc' = "connect" /\ sock' = TRUE /\ UNCHANGED err
  /\ UNCHANGED <<world, stage, ioError, pos, len, eof, header, received, disk, late>>

ConnectAndSend ==
  /\ pc = "connect"
  /\ \/ \E e \in {"CONNECT", "SEND"} : Fail(e)
     \/ pc' = "fill" /\ UNCHANGED err
  /\ UNCHANGED <<world, stage, ioError, conn, header, received, disk, late>>

\* Mutant: the buffer is refilled although it has not been used up.
Fill_Always ==
  /\ pc = "fill"
  /\ pc' = IF eof THEN stage ELSE "wait"
  /\ pos' = len
  /\ UNCHANGED <<world, stage, err, ioError, sock, len, eof, header, received, disk, late>>

\* conn_fill: nothing is read as long as the buffer holds something.
Fill ==
  /\ pc = "fill"
  /\ pc' = IF pos < len \/ eof THEN stage ELSE "wait"
  /\ UNCHANGED <<world, stage, err, ioError, conn, header, received, disk, late>>

Readable == arrived > len \/ hungUp

\* wait_readable: the signal is looked at before the data, the timeout last.
\* Mutant: data first.
WaitReadable_DataFirst ==
  /\ pc = "wait"
  /\ \/ Fail("RECV") /\ UNCHANGED ctrlC
     \/ Readable /\ pc' = "recv" /\ UNCHANGED <<err, ctrlC>>
     \/ ~Readable /\ ctrlC /\ Fail("ABORTED") /\ ctrlC' = FALSE
  /\ UNCHANGED <<answer, arrived, hungUp, stage, ioError, conn, header, received, disk,
                 late>>
\* Mutant: a timeout or an error is no reason to stop waiting.
WaitReadable_Retries ==
  /\ pc = "wait"
  /\ \/ ctrlC /\ Fail("ABORTED") /\ ctrlC' = FALSE
     \/ ~ctrlC /\ Readable /\ pc' = "recv" /\ UNCHANGED <<err, ctrlC>>
  /\ UNCHANGED <<answer, arrived, hungUp, stage, ioError, conn, header, received, disk,
                 late>>
WaitReadable ==
  /\ pc = "wait"
  /\ \/ Fail("RECV") /\ UNCHANGED ctrlC         \* WaitSelect failed
     \/ ctrlC /\ Fail("ABORTED") /\ ctrlC' = FALSE
     \/ ~ctrlC /\ ~Readable /\ Fail("RECV") /\ UNCHANGED ctrlC
     \/ ~ctrlC /\ Readable /\ pc' = "recv" /\ UNCHANGED <<err, ctrlC>>
  /\ UNCHANGED <<answer, arrived, hungUp, stage, ioError, conn, header, received, disk,
                 late>>

\* recv: some of what has arrived, or the end, or an error.
Recv ==
  /\ pc = "recv"
  /\ \/ \E n \in 1 .. RecvBuf :
          /\ len + n <= arrived
          /\ len' = len + n
          /\ pc' = stage
          /\ UNCHANGED <<eof, err>>
     \/ /\ hungUp /\ arrived = len
        /\ eof' = TRUE
        /\ pc' = stage
        /\ UNCHANGED <<len, err>>
     \/ Fail("RECV") /\ UNCHANGED <<len, eof>>
  /\ late' = IF ctrlC THEN late + 1 ELSE late
  /\ UNCHANGED <<world, stage, ioError, sock, pos, header, received, disk>>

\* read_headers, one character; a newline right after a newline ends them.
HeadUnit ==
  LET ch == Unit(pos + 1)
      nl == IF ch = "n" THEN nlRun + 1 ELSE IF ch = "r" THEN nlRun ELSE 0
  IN /\ pc = "head"
     /\ \/ pos = len /\ Fail("PROTO") /\ UNCHANGED <<pos, header>>
        \/ /\ pos < len /\ hdrLen = HdrBuf - 1
           /\ pos' = pos + 1
           /\ Fail("PROTO") /\ UNCHANGED header
        \/ /\ pos < len /\ hdrLen < HdrBuf - 1
           /\ pos' = pos + 1 /\ hdrLen' = hdrLen + 1 /\ nlRun' = nl
           /\ pc' = IF nl = 2 THEN "parse" ELSE "fill"
           /\ UNCHANGED err
     /\ UNCHANGED <<world, stage, ioError, sock, len, eof, received, disk, late>>

\* Status line, Transfer-Encoding and Content-Length.
ParseHeaders ==
  /\ pc = "parse"
  /\ \/ answer.kind = "ok" /\ pc' = "fill" /\ stage' = "body" /\ UNCHANGED err
     \/ answer.kind = "refused" /\ Fail("HTTP") /\ UNCHANGED stage
     \/ answer.kind \in {"nohttp", "chunked"} /\ Fail("PROTO") /\ UNCHANGED stage
  /\ UNCHANGED <<world, ioError, conn, header, received, disk, late>>

\* One turn of the body loop, with download_sink and worker_progress in it.
BodyBlock ==
  /\ pc = "body"
  /\ \/ pos = len /\ pc' = "end" /\ UNCHANGED <<err, ioError, pos, received, out>>
     \/ /\ pos < len
        /\ received' = received + (len - pos)
        /\ \/ Fail("FILE") /\ ioError' = TRUE /\ UNCHANGED <<out, pos>>
           \/ /\ out' = out \o [i \in 1 .. len - pos |-> pos + i]
              /\ IF ctrlC THEN Fail("ABORTED") /\ UNCHANGED pos
                 ELSE /\ pos' = len
                      /\ pc' = IF answer.length # 0 /\ received' >= answer.length
                               THEN "end" ELSE "fill"
                      /\ UNCHANGED err
              /\ UNCHANGED ioError
  /\ UNCHANGED <<world, stage, sock, len, eof, header, file, late>>

\* A body shorter than Content-Length is an error.
BodyEnd ==
  /\ pc = "end"
  /\ IF answer.length # 0 /\ received < answer.length
     THEN Fail("RECV") ELSE pc' = "cleanup" /\ UNCHANGED err
  /\ UNCHANGED <<world, stage, ioError, conn, header, received, disk, late>>

Cleanup ==
  /\ pc = "cleanup"
  /\ pc' = "close"
  /\ sock' = FALSE
  /\ UNCHANGED <<world, stage, err, ioError, pos, len, eof, header, received, disk, late>>

Client == \/ Refuse \/ OpenFile \/ Prepare \/ ConnectAndSend \/ Fill \/ WaitReadable
          \/ Recv \/ HeadUnit \/ ParseHeaders \/ BodyBlock \/ BodyEnd \/ Cleanup
          \/ CloseFile

-----------------------------------------------------------------------------
(* The server and the user. *)

ClientVars == <<pc, stage, err, ioError, conn, header, received, disk, late>>
OnLine == sock /\ pc # "connect"

Arrive ==
  /\ OnLine /\ ~hungUp /\ arrived < Wire(answer)
  /\ arrived' = arrived + 1
  /\ UNCHANGED <<answer, hungUp, ctrlC, ClientVars>>

\* The server closes once it has sent what it sends.
HangUp ==
  /\ OnLine /\ ~hungUp /\ arrived = Wire(answer)
  /\ hungUp' = TRUE
  /\ UNCHANGED <<answer, arrived, ctrlC, ClientVars>>

UserStop ==
  /\ ~ctrlC /\ pc # "done" /\ err # "ABORTED"
  /\ ctrlC' = TRUE
  /\ UNCHANGED <<answer, arrived, hungUp, ClientVars>>

Done == pc = "done" /\ UNCHANGED vars

Init ==
  /\ answer \in Answers
  /\ arrived = 0 /\ hungUp = FALSE /\ ctrlC = FALSE
  /\ pc = "start" /\ stage = "head" /\ err = "OK" /\ ioError = FALSE
  /\ sock = FALSE /\ pos = 0 /\ len = 0 /\ eof = FALSE
  /\ hdrLen = 0 /\ nlRun = 0 /\ received = 0
  /\ file \in {"absent", "old"} /\ out = <<>> /\ late = 0

Next == Client \/ Arrive \/ HangUp \/ UserStop \/ Done

Spec == Init /\ [][Next]_vars

-----------------------------------------------------------------------------
\* The file is the body of a 200 answer from its first byte, in order and
\* without gaps, however headers and body were cut into blocks: what the buffer
\* held after the blank line is neither lost nor written twice (struct Conn),
\* and no header, page of an error or chunk size is among it (gf_http_get).
FileIsBody ==
  /\ out = [i \in 1 .. Len(out) |-> HeadLen(answer) + i]
  /\ out # <<>> => answer.kind = "ok"

\* Once a stop is pending at most one more block is read: the wait looks at
\* the signal first, only a wait that was already over can still read.
StopIsPrompt == late <= 1

\* However it ends, no socket and no file handle is left open (cleanup label,
\* gf_proxy_download_asset).
NothingLeftOpen == pc = "done" => ~sock /\ file # "writing"

Complete == Len(out) = answer.full

\* net.c: a transfer that was cut short may not pass as a success.
ShortIsError == pc = "done" /\ err = "OK" => Complete

-----------------------------------------------------------------------------
(* What makes these inductive. *)

Leaving == {"cleanup", "close", "done"}

\* The count of newlines is that of the headers read so far, so that the body begins
\* where the server says; what has been written is what the buffer has given.
InOrder ==
  /\ stage = "head" =>
       /\ out = <<>> /\ received = 0
       /\ pc \notin {"body", "end"}
       /\ pc = "parse" => pos = HeadLen(answer)
       /\ pc \in {"fill", "wait", "recv", "head"} /\ nlRun # 0 =>
            nlRun = 1 /\ pos <= HeadLen(answer) /\ LineEnd(answer.head, pos)
       /\ pc \in {"start", "request", "connect"} => nlRun = 0
  /\ stage = "body" =>
       /\ answer.kind = "ok"
       /\ pc \in {"fill", "wait", "recv", "body", "end"} \cup Leaving
       /\ HeadLen(answer) + Len(out) <= len
       /\ pc \notin Leaving => pos = HeadLen(answer) + Len(out) /\ received = Len(out)

\* A transfer that is over without an error has got all that was announced.
Ending ==
  /\ err # "OK" => pc \in Leaving
  /\ ioError => err = "FILE"
  /\ pc \in Leaving /\ err = "OK" =>
       stage = "body" /\ (answer.length = 0 \/ Len(out) >= answer.length)
  /\ file = "closed" => pc = "done" /\ err = "OK"
  /\ file = "left" => pc = "done"
  /\ pc = "done" /\ err = "OK" => file = "closed"

Handles ==
  /\ sock => pc \notin {"start", "request", "close", "done"}
  /\ file = "writing" <=> pc \notin {"start", "done"}

\* The one block that may still be read has been read.
StopSeen == late > 0 => pc # "recv" /\ (ctrlC \/ pc \in Leaving)

\* The inductive invariant.
HttpInv == TypeOK /\ InOrder /\ Ending /\ Handles /\ StopSeen /\ FileIsBody /\ StopIsPrompt
=============================================================================
