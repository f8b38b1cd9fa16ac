-------------------------- MODULE Downloads_proofs --------------------------
(***************************************************************************)
(* Proofs about Downloads: for any answers of the server, sizes of the     *)
(* buffers, blocks and number of jobs, what reaches the file, what is left *)
(* open, and that both backends keep the promise of FileDownload.          *)
(***************************************************************************)
EXTENDS Downloads, TLAPS

USE DEF both, http, native,
        Proxy!world, Proxy!conn, Proxy!header, Proxy!disk, Proxy!ClientVars,
        Native!lib, Native!disk

-----------------------------------------------------------------------------
(* Answers and files. *)

LEMMA AnswerFacts ==
  ASSUME NEW a \in Answers
  PROVE  /\ a.head \in Seq({"x", "r", "n"}) /\ Len(a.head) \in Nat
         /\ a.kind \in {"ok", "refused", "chunked", "nohttp"}
         /\ a.length \in Nat /\ a.full \in Nat /\ a.body \in Nat
         /\ a.body <= a.full /\ a.length \in {0, a.full}
         /\ \A i \in 1 .. Len(a.head) : Proxy!BlankLine(a.head, i) => i = Len(a.head)
<1>1. a \in Proxy!Answer /\ a.body <= a.full /\ a.length \in {0, a.full}
  BY DownloadsAssumption DEF Proxy!HttpConstants
<1>2. \A i \in 1 .. Len(a.head) : Proxy!BlankLine(a.head, i) => i = Len(a.head)
  BY DownloadsAssumption DEF Proxy!HttpConstants
<1>3. QED
  BY <1>1, <1>2 DEF Proxy!Answer

\* What follows what is there.
LEMMA Onwards ==
  ASSUME NEW h \in Nat, NEW m \in Nat, NEW n \in Nat
  PROVE  /\ [i \in 1 .. m |-> h + i] \in Seq(Nat)
         /\ Len([i \in 1 .. m |-> h + i]) = m
         /\ [i \in 1 .. m |-> h + i] \o [i \in 1 .. n |-> (h + m) + i]
              = [i \in 1 .. m + n |-> h + i]
OBVIOUS

-----------------------------------------------------------------------------
(* Each step of the HTTP client and of the server preserves HttpInv. *)

LEMMA ProxyRefuse ==
  ASSUME Proxy!HttpInv, Proxy!Refuse
  PROVE  Proxy!HttpInv'
<1>1. Proxy!TypeOK'
  BY DEF Proxy!HttpInv, Proxy!Refuse, Proxy!TypeOK, Proxy!Steps, Proxy!Errors, Proxy!Wire
<1>2. Proxy!InOrder'
  BY DEF Proxy!HttpInv, Proxy!Refuse, Proxy!InOrder, Proxy!Leaving, Proxy!HeadLen
<1>3. Proxy!Ending'
  BY DEF Proxy!HttpInv, Proxy!Refuse, Proxy!Ending, Proxy!Leaving, Proxy!Handles
<1>4. Proxy!Handles' /\ Proxy!StopSeen'
  BY DEF Proxy!HttpInv, Proxy!Refuse, Proxy!Handles, Proxy!StopSeen, Proxy!Leaving
<1>5. Proxy!FileIsBody' /\ Proxy!StopIsPrompt'
  BY DEF Proxy!HttpInv, Proxy!Refuse, Proxy!FileIsBody, Proxy!StopIsPrompt, Proxy!HeadLen
<1>6. QED
  BY <1>1, <1>2, <1>3, <1>4, <1>5 DEF Proxy!HttpInv

LEMMA ProxyOpenFile ==
  ASSUME Proxy!HttpInv, Proxy!OpenFile
  PROVE  Proxy!HttpInv'
<1>1. Proxy!TypeOK'
  BY AnswerFacts DEF Proxy!HttpInv, Proxy!OpenFile, Proxy!TypeOK, Proxy!Steps, Proxy!Errors,
     Proxy!Wire, Proxy!HeadLen
<1>2. Proxy!InOrder'
  BY AnswerFacts DEF Proxy!HttpInv, Proxy!OpenFile, Proxy!InOrder, Proxy!Leaving,
     Proxy!HeadLen
<1>3. Proxy!Ending'
  BY AnswerFacts DEF Proxy!HttpInv, Proxy!OpenFile, Proxy!Ending, Proxy!Leaving,
     Proxy!Handles, Proxy!InOrder, Proxy!HeadLen
<1>4. Proxy!Handles' /\ Proxy!StopSeen'
  BY DEF Proxy!HttpInv, Proxy!OpenFile, Proxy!Handles, Proxy!StopSeen, Proxy!Leaving,
     Proxy!TypeOK
<1>5. Proxy!FileIsBody' /\ Proxy!StopIsPrompt'
  BY DEF Proxy!HttpInv, Proxy!OpenFile, Proxy!FileIsBody, Proxy!StopIsPrompt, Proxy!HeadLen,
     Proxy!InOrder, Proxy!StopSeen
<1>6. QED
  BY <1>1, <1>2, <1>3, <1>4, <1>5 DEF Proxy!HttpInv

LEMMA ProxyCloseFile ==
  ASSUME Proxy!HttpInv, Proxy!CloseFile
  PROVE  Proxy!HttpInv'
<1>1. Proxy!TypeOK'
  BY AnswerFacts DEF Proxy!HttpInv, Proxy!CloseFile, Proxy!TypeOK, Proxy!Steps,
     Proxy!Errors, Proxy!Wire, Proxy!HeadLen
<1>2. Proxy!InOrder'
  BY AnswerFacts DEF Proxy!HttpInv, Proxy!CloseFile, Proxy!InOrder, Proxy!Leaving,
     Proxy!HeadLen
<1>3. Proxy!Ending'
  BY AnswerFacts DEF Proxy!HttpInv, Proxy!CloseFile, Proxy!Ending, Proxy!Leaving,
     Proxy!Handles, Proxy!InOrder, Proxy!HeadLen
<1>4. Proxy!Handles' /\ Proxy!StopSeen'
  BY DEF Proxy!HttpInv, Proxy!CloseFile, Proxy!Handles, Proxy!StopSeen, Proxy!Leaving,
     Proxy!TypeOK
<1>5. Proxy!FileIsBody' /\ Proxy!StopIsPrompt'
  BY DEF Proxy!HttpInv, Proxy!CloseFile, Proxy!FileIsBody, Proxy!StopIsPrompt,
     Proxy!HeadLen, Proxy!InOrder, Proxy!StopSeen
<1>6. QED
  BY <1>1, <1>2, <1>3, <1>4, <1>5 DEF Proxy!HttpInv

LEMMA ProxyPrepare ==
  ASSUME Proxy!HttpInv, Proxy!Prepare
  PROVE  Proxy!HttpInv'
<1>1. Proxy!TypeOK'
  BY AnswerFacts DEF Proxy!HttpInv, Proxy!Prepare, Proxy!Fail, Proxy!TypeOK, Proxy!Steps,
     Proxy!Errors, Proxy!Wire, Proxy!HeadLen
<1>2. Proxy!InOrder'
  BY AnswerFacts DEF Proxy!HttpInv, Proxy!Prepare, Proxy!Fail, Proxy!InOrder, Proxy!Leaving,
     Proxy!HeadLen
<1>3. Proxy!Ending'
  BY AnswerFacts DEF Proxy!HttpInv, Proxy!Prepare, Proxy!Fail, Proxy!Ending, Proxy!Leaving,
     Proxy!Handles, Proxy!InOrder, Proxy!HeadLen
<1>4. Proxy!Handles' /\ Proxy!StopSeen'
  BY DEF Proxy!HttpInv, Proxy!Prepare, Proxy!Fail, Proxy!Handles, Proxy!StopSeen,
     Proxy!Leaving, Proxy!TypeOK
<1>5. Proxy!FileIsBody' /\ Proxy!StopIsPrompt'
  BY DEF Proxy!HttpInv, Proxy!Prepare, Proxy!Fail, Proxy!FileIsBody, Proxy!StopIsPrompt,
     Proxy!HeadLen, Proxy!InOrder, Proxy!StopSeen
<1>6. QED
  BY <1>1, <1>2, <1>3, <1>4, <1>5 DEF Proxy!HttpInv

LEMMA ProxyConnectAndSend ==
  ASSUME Proxy!HttpInv, Proxy!ConnectAndSend
  PROVE  Proxy!HttpInv'
<1>1. Proxy!TypeOK'
  BY AnswerFacts DEF Proxy!HttpInv, Proxy!ConnectAndSend, Proxy!Fail, Proxy!TypeOK,
     Proxy!Steps, Proxy!Errors, Proxy!Wire, Proxy!HeadLen
<1>2. Proxy!InOrder'
  BY AnswerFacts DEF Proxy!HttpInv, Proxy!ConnectAndSend, Proxy!Fail, Proxy!InOrder,
     Proxy!Leaving, Proxy!HeadLen
<1>3. Proxy!Ending'
  BY AnswerFacts DEF Proxy!HttpInv, Proxy!ConnectAndSend, Proxy!Fail, Proxy!Ending,
     Proxy!Leaving, Proxy!Handles, Proxy!InOrder, Proxy!HeadLen
<1>4. Proxy!Handles' /\ Proxy!StopSeen'
  BY DEF Proxy!HttpInv, Proxy!ConnectAndSend, Proxy!Fail, Proxy!Handles, Proxy!StopSeen,
     Proxy!Leaving, Proxy!TypeOK
<1>5. Proxy!FileIsBody' /\ Proxy!StopIsPrompt'
  BY DEF Proxy!HttpInv, Proxy!ConnectAndSend, Proxy!Fail, Proxy!FileIsBody,
     Proxy!StopIsPrompt, Proxy!HeadLen, Proxy!InOrder, Proxy!StopSeen
<1>6. QED
  BY <1>1, <1>2, <1>3, <1>4, <1>5 DEF Proxy!HttpInv

LEMMA ProxyFill ==
  ASSUME Proxy!HttpInv, Proxy!Fill
  PROVE  Proxy!HttpInv'
<1>1. Proxy!TypeOK'
  BY AnswerFacts DEF Proxy!HttpInv, Proxy!Fill, Proxy!TypeOK, Proxy!Steps, Proxy!Errors,
     Proxy!Wire, Proxy!HeadLen
<1>2. Proxy!InOrder'
  BY AnswerFacts DEF Proxy!HttpInv, Proxy!Fill, Proxy!InOrder, Proxy!Leaving, Proxy!HeadLen
<1>3. Proxy!Ending'
  <2>1. pc = "fill" /\ err = "OK" /\ ~ioError /\ file = "writing" /\ stage \in {"head", "body"}
    BY DEF Proxy!HttpInv, Proxy!Fill, Proxy!Ending, Proxy!Leaving, Proxy!Handles,
       Proxy!TypeOK
  <2>2. pc' \in {"head", "body", "wait"} /\ UNCHANGED <<err, ioError, file, answer, out, stage>>
    BY <2>1 DEF Proxy!Fill
  <2>3. QED
    BY <2>1, <2>2 DEF Proxy!Ending, Proxy!Leaving
<1>4. Proxy!Handles' /\ Proxy!StopSeen'
  BY DEF Proxy!HttpInv, Proxy!Fill, Proxy!Handles, Proxy!StopSeen, Proxy!Leaving,
     Proxy!TypeOK
<1>5. Proxy!FileIsBody' /\ Proxy!StopIsPrompt'
  BY DEF Proxy!HttpInv, Proxy!Fill, Proxy!FileIsBody, Proxy!StopIsPrompt, Proxy!HeadLen,
     Proxy!InOrder, Proxy!StopSeen
<1>6. QED
  BY <1>1, <1>2, <1>3, <1>4, <1>5 DEF Proxy!HttpInv

LEMMA ProxyWaitReadable ==
  ASSUME Proxy!HttpInv, Proxy!WaitReadable
  PROVE  Proxy!HttpInv'
<1>1. Proxy!TypeOK'
  BY AnswerFacts DEF Proxy!HttpInv, Proxy!WaitReadable, Proxy!Fail, Proxy!Readable,
     Proxy!TypeOK, Proxy!Steps, Proxy!Errors, Proxy!Wire, Proxy!HeadLen
<1>2. Proxy!InOrder'
  BY AnswerFacts DEF Proxy!HttpInv, Proxy!WaitReadable, Proxy!Fail, Proxy!Readable,
     Proxy!InOrder, Proxy!Leaving, Proxy!HeadLen
<1>3. Proxy!Ending'
  BY AnswerFacts DEF Proxy!HttpInv, Proxy!WaitReadable, Proxy!Fail, Proxy!Readable,
     Proxy!Ending, Proxy!Leaving, Proxy!Handles, Proxy!InOrder, Proxy!HeadLen
<1>4. Proxy!Handles' /\ Proxy!StopSeen'
  BY DEF Proxy!HttpInv, Proxy!WaitReadable, Proxy!Fail, Proxy!Readable, Proxy!Handles,
     Proxy!StopSeen, Proxy!Leaving, Proxy!TypeOK
<1>5. Proxy!FileIsBody' /\ Proxy!StopIsPrompt'
  BY DEF Proxy!HttpInv, Proxy!WaitReadable, Proxy!Fail, Proxy!Readable, Proxy!FileIsBody,
     Proxy!StopIsPrompt, Proxy!HeadLen, Proxy!InOrder, Proxy!StopSeen
<1>6. QED
  BY <1>1, <1>2, <1>3, <1>4, <1>5 DEF Proxy!HttpInv

\* The buffer is empty when there is something to receive.
LEMMA ProxyRecv ==
  ASSUME Proxy!HttpInv, Proxy!Recv
  PROVE  Proxy!HttpInv'
<1>1. Proxy!TypeOK'
  <2>1. /\ len \in Nat /\ pos \in 0 .. len /\ arrived \in Nat /\ len <= arrived /\ late \in Nat
    BY AnswerFacts DEF Proxy!HttpInv, Proxy!TypeOK, Proxy!Wire, Proxy!HeadLen
  <2>2. len' \in len .. arrived /\ late' \in Nat
    BY <2>1, DownloadsAssumption DEF Proxy!Recv, Proxy!HttpConstants
  <2>3. /\ UNCHANGED <<answer, arrived, hungUp, ctrlC, stage, ioError, sock, pos, hdrLen, nlRun,
                     received, file, out>>
        /\ eof' \in BOOLEAN /\ pc' \in {stage, "cleanup"} /\ err' \in {err, "RECV"}
    BY DEF Proxy!HttpInv, Proxy!TypeOK, Proxy!Recv, Proxy!Fail
  <2>4. pos' \in 0 .. len' /\ len' \in 0 .. arrived'
    BY <2>1, <2>2, <2>3
  <2>5. QED
    BY <2>2, <2>3, <2>4 DEF Proxy!HttpInv, Proxy!TypeOK, Proxy!Steps, Proxy!Errors
<1>2. /\ pc = "recv" /\ stage \in {"head", "body"} /\ pc' \in {stage, "cleanup"}
      /\ pc' = stage => err' = err
      /\ pc' = "cleanup" => err' = "RECV"
      /\ len \in Nat /\ len' \in Nat /\ len' >= len
      /\ UNCHANGED <<answer, ctrlC, stage, ioError, sock, pos, nlRun, received, file, out>>
  BY DEF Proxy!HttpInv, Proxy!TypeOK, Proxy!Recv, Proxy!Fail
<1>3. /\ err = "OK" /\ ~ioError /\ file = "writing" /\ late = 0
      /\ late' \in {0, 1} /\ (late' > 0 => ctrlC)
  BY <1>2 DEF Proxy!HttpInv, Proxy!Ending, Proxy!Handles, Proxy!StopSeen, Proxy!Leaving,
     Proxy!TypeOK, Proxy!Recv
<1>4. Proxy!InOrder'
  <2>1. Proxy!HeadLen(answer) \in Nat /\ out \in Seq(Nat)
    BY AnswerFacts DEF Proxy!HttpInv, Proxy!TypeOK, Proxy!HeadLen
  <2>2. CASE stage = "head"
    BY <1>2, <2>2 DEF Proxy!HttpInv, Proxy!InOrder, Proxy!HeadLen
  <2>3. CASE stage = "body"
    BY <1>2, <2>1, <2>3 DEF Proxy!HttpInv, Proxy!InOrder, Proxy!HeadLen, Proxy!Leaving
  <2>4. QED
    BY <1>2, <2>2, <2>3
<1>5. Proxy!FileIsBody'
  BY <1>2 DEF Proxy!HttpInv, Proxy!FileIsBody, Proxy!HeadLen
<1>6. Proxy!Ending' /\ Proxy!Handles' /\ Proxy!StopSeen' /\ Proxy!StopIsPrompt'
  BY <1>2, <1>3 DEF Proxy!HttpInv, Proxy!Ending, Proxy!Handles, Proxy!StopSeen,
     Proxy!StopIsPrompt, Proxy!Leaving
<1>7. QED
  BY <1>1, <1>4, <1>5, <1>6 DEF Proxy!HttpInv

\* One character of the headers: a second newline is a blank line, and thus their end.
LEMMA ProxyHeadUnit ==
  ASSUME Proxy!HttpInv, Proxy!HeadUnit
  PROVE  Proxy!HttpInv'
<1> DEFINE a == answer.head
           ch == Proxy!Unit(pos + 1)
           nl == IF ch = "n" THEN nlRun + 1 ELSE IF ch = "r" THEN nlRun ELSE 0
<1>1. /\ answer \in Answers /\ a \in Seq({"x", "r", "n"}) /\ Len(a) \in Nat
      /\ pos \in Nat /\ len \in Nat /\ pos <= len /\ nlRun \in 0 .. 2 /\ hdrLen \in 0 .. HdrBuf - 1
      /\ HdrBuf \in Nat \ {0}
  BY AnswerFacts, DownloadsAssumption DEF Proxy!HttpInv, Proxy!TypeOK, Proxy!HttpConstants
<1>2. /\ pc = "head" /\ stage = "head" /\ out = <<>> /\ received = 0
      /\ nlRun # 0 => nlRun = 1 /\ pos <= Len(a) /\ Proxy!LineEnd(a, pos)
  BY DEF Proxy!HttpInv, Proxy!InOrder, Proxy!HeadUnit, Proxy!Leaving, Proxy!TypeOK,
     Proxy!HeadLen
<1>3. /\ err = "OK" /\ ~ioError /\ file = "writing"
  BY <1>2 DEF Proxy!HttpInv, Proxy!Ending, Proxy!Handles, Proxy!Leaving
<1>4. /\ UNCHANGED <<answer, arrived, hungUp, ctrlC, stage, ioError, sock, len, eof, received,
                     file, out, late>>
      /\ \/ pc' = "cleanup" /\ err' = "PROTO" /\ pos' = pos /\ UNCHANGED <<hdrLen, nlRun>>
         \/ /\ pos < len /\ pos' = pos + 1
            /\ pc' = "cleanup" /\ err' = "PROTO" /\ UNCHANGED <<hdrLen, nlRun>>
         \/ /\ pos < len /\ hdrLen < HdrBuf - 1
            /\ pos' = pos + 1 /\ hdrLen' = hdrLen + 1 /\ nlRun' = nl
            /\ pc' = IF nl = 2 THEN "parse" ELSE "fill"
            /\ UNCHANGED err
  BY DEF Proxy!HeadUnit, Proxy!Fail
<1>5. /\ nl \in 0 .. 2
      /\ nl = 1 => pos + 1 <= Len(a) /\ Proxy!LineEnd(a, pos + 1)
      /\ nl = 2 => pos + 1 = Len(a)
  <2>1. ch = IF pos + 1 <= Len(a) THEN a[pos + 1] ELSE "x"
    BY DEF Proxy!Unit, Proxy!HeadLen
  <2>2. CASE ch = "n"
    <3>1. pos + 1 <= Len(a) /\ a[pos + 1] = "n" /\ nl = nlRun + 1
      BY <2>1, <2>2
    <3>2. Proxy!LineEnd(a, pos + 1)
      BY <1>1, <3>1 DEF Proxy!LineEnd
    <3>3. ASSUME nlRun = 1 PROVE pos + 1 = Len(a)
      <4>1. Proxy!LineEnd(a, pos)
        BY <1>2, <3>3
      <4>2. Proxy!BlankLine(a, pos + 1)
        <5>1. (pos + 1) - 1 = pos
          BY <1>1
        <5>2. QED
          BY <3>1, <4>1, <5>1 DEF Proxy!BlankLine
      <4>3. pos + 1 \in 1 .. Len(a)
        BY <1>1, <3>1
      <4>4. QED
        BY <1>1, <4>2, <4>3, AnswerFacts
    <3>4. QED
      BY <1>1, <1>2, <3>1, <3>2, <3>3
  <2>3. CASE ch = "r"
    <3>1. pos + 1 <= Len(a) /\ a[pos + 1] = "r" /\ nl = nlRun
      BY <2>1, <2>3
    <3>2. ASSUME Proxy!LineEnd(a, pos) PROVE Proxy!LineEnd(a, pos + 1)
      <4>1. PICK j \in 1 .. pos : a[j] = "n" /\ \A k \in j + 1 .. pos : a[k] = "r"
        BY <3>2 DEF Proxy!LineEnd
      <4>2. \A k \in j + 1 .. pos + 1 : k \in j + 1 .. pos \/ k = pos + 1
        BY <1>1
      <4>3. j \in 1 .. pos + 1 /\ \A k \in j + 1 .. pos + 1 : a[k] = "r"
        BY <1>1, <3>1, <4>1, <4>2
      <4>4. QED
        BY <4>1, <4>3 DEF Proxy!LineEnd
    <3>3. QED
      BY <1>1, <1>2, <3>1, <3>2
  <2>4. CASE ch \notin {"n", "r"}
    BY <2>4
  <2>5. QED
    BY <2>2, <2>3, <2>4
<1> HIDE DEF nl, ch
<1>6. Proxy!TypeOK'
  BY <1>1, <1>4, <1>5 DEF Proxy!HttpInv, Proxy!TypeOK, Proxy!Steps, Proxy!Errors
<1>7. Proxy!InOrder' /\ Proxy!FileIsBody'
  <2>1. Proxy!HeadLen(answer) = Len(a)
    BY DEF Proxy!HeadLen
  <2>2. Proxy!InOrder'
    BY <1>1, <1>2, <1>4, <1>5, <2>1 DEF Proxy!InOrder, Proxy!HeadLen
  <2>3. Proxy!FileIsBody'
    BY <1>4 DEF Proxy!HttpInv, Proxy!FileIsBody, Proxy!HeadLen
  <2>4. QED
    BY <2>2, <2>3
<1>8. Proxy!Ending' /\ Proxy!Handles' /\ Proxy!StopSeen' /\ Proxy!StopIsPrompt'
  BY <1>2, <1>3, <1>4 DEF Proxy!HttpInv, Proxy!Ending, Proxy!Handles, Proxy!StopSeen,
     Proxy!StopIsPrompt, Proxy!Leaving
<1>9. QED
  BY <1>6, <1>7, <1>8 DEF Proxy!HttpInv

LEMMA ProxyParseHeaders ==
  ASSUME Proxy!HttpInv, Proxy!ParseHeaders
  PROVE  Proxy!HttpInv'
<1>1. Proxy!TypeOK'
  BY AnswerFacts DEF Proxy!HttpInv, Proxy!ParseHeaders, Proxy!Fail, Proxy!TypeOK,
     Proxy!Steps, Proxy!Errors, Proxy!Wire, Proxy!HeadLen
<1>2. Proxy!InOrder'
  <2>1. answer.head \in Seq({"x", "r", "n"}) /\ pos <= len
    BY AnswerFacts DEF Proxy!HttpInv, Proxy!TypeOK
  <2>2. Proxy!HeadLen(answer) \in Nat
    BY <2>1 DEF Proxy!HeadLen
  <2>3. stage = "head" /\ out = <<>> /\ received = 0 /\ pos = Proxy!HeadLen(answer)
    BY DEF Proxy!HttpInv, Proxy!InOrder, Proxy!ParseHeaders, Proxy!TypeOK, Proxy!Leaving
  <2>4. QED
    BY <2>1, <2>2, <2>3 DEF Proxy!ParseHeaders, Proxy!Fail, Proxy!InOrder, Proxy!Leaving,
       Proxy!HeadLen
<1>3. Proxy!Ending'
  BY AnswerFacts DEF Proxy!HttpInv, Proxy!ParseHeaders, Proxy!Fail, Proxy!Ending,
     Proxy!Leaving, Proxy!Handles, Proxy!InOrder, Proxy!HeadLen
<1>4. Proxy!Handles' /\ Proxy!StopSeen'
  BY DEF Proxy!HttpInv, Proxy!ParseHeaders, Proxy!Fail, Proxy!Handles, Proxy!StopSeen,
     Proxy!Leaving, Proxy!TypeOK
<1>5. Proxy!FileIsBody' /\ Proxy!StopIsPrompt'
  BY DEF Proxy!HttpInv, Proxy!ParseHeaders, Proxy!Fail, Proxy!FileIsBody,
     Proxy!StopIsPrompt, Proxy!HeadLen, Proxy!InOrder, Proxy!StopSeen
<1>6. QED
  BY <1>1, <1>2, <1>3, <1>4, <1>5 DEF Proxy!HttpInv

\* One turn of the body loop: what is written is what the buffer held, after what was
\* written before.
LEMMA ProxyBodyBlock ==
  ASSUME Proxy!HttpInv, Proxy!BodyBlock
  PROVE  Proxy!HttpInv'
<1> DEFINE h == Proxy!HeadLen(answer)
<1>1. /\ answer \in Answers /\ h \in Nat /\ answer.length \in Nat
      /\ pos \in Nat /\ len \in Nat /\ pos <= len /\ len <= arrived /\ arrived \in Nat
      /\ received \in Nat /\ out \in Seq(Nat)
  BY AnswerFacts DEF Proxy!HttpInv, Proxy!TypeOK, Proxy!HeadLen, Proxy!Wire
<1>2. /\ pc = "body" /\ stage = "body" /\ answer.kind = "ok"
      /\ pos = h + Len(out) /\ received = Len(out)
      /\ out = [i \in 1 .. Len(out) |-> h + i]
  BY DEF Proxy!HttpInv, Proxy!InOrder, Proxy!BodyBlock, Proxy!Leaving, Proxy!FileIsBody,
     Proxy!TypeOK
<1>3. /\ err = "OK" /\ ~ioError /\ file = "writing" /\ late \in Nat /\ late <= 1
      /\ late > 0 => ctrlC
  BY <1>2 DEF Proxy!HttpInv, Proxy!Ending, Proxy!Handles, Proxy!StopSeen,
     Proxy!StopIsPrompt, Proxy!Leaving, Proxy!TypeOK
<1>4. UNCHANGED <<answer, arrived, hungUp, ctrlC, stage, sock, len, eof, hdrLen, nlRun, file, late>>
  BY DEF Proxy!BodyBlock
<1>5. ASSUME pos < len PROVE received' = received + (len - pos)
  <2>1. pos # len
    BY <1>1, <1>5
  <2>2. QED
    BY <2>1 DEF Proxy!BodyBlock
<1> HIDE DEF h
<1>6. ASSUME out' = out \o [i \in 1 .. len - pos |-> pos + i]
      PROVE  /\ out' \in Seq(Nat) /\ Len(out') = len - h /\ h <= len
             /\ out' = [i \in 1 .. Len(out') |-> h + i]
  <2>1. Len(out) \in Nat /\ len - pos \in Nat /\ Len(out) + (len - pos) = len - h /\ len - h \in Nat
    BY <1>1, <1>2
  <2>2. out' = [i \in 1 .. len - h |-> h + i]
    <3>1. out' = [i \in 1 .. Len(out) |-> h + i] \o [i \in 1 .. len - pos |-> (h + Len(out)) + i]
      BY <1>2, <1>6
    <3>2. QED
      BY <1>1, <2>1, <3>1, Onwards
  <2>3. QED
    BY <1>1, <2>1, <2>2, Onwards
<1>7. CASE pos = len /\ pc' = "end" /\ UNCHANGED <<err, ioError, pos, received, out>>
  <2>1. Proxy!TypeOK'
    BY <1>4, <1>7 DEF Proxy!HttpInv, Proxy!TypeOK, Proxy!Steps
  <2>2. Proxy!InOrder' /\ Proxy!FileIsBody'
    BY <1>1, <1>2, <1>4, <1>7 DEF Proxy!InOrder, Proxy!FileIsBody, Proxy!Leaving, h,
       Proxy!HeadLen
  <2>3. Proxy!Ending' /\ Proxy!Handles' /\ Proxy!StopSeen' /\ Proxy!StopIsPrompt'
    BY <1>2, <1>3, <1>4, <1>7 DEF Proxy!HttpInv, Proxy!Ending, Proxy!Handles,
       Proxy!StopSeen, Proxy!StopIsPrompt, Proxy!Leaving
  <2>4. QED
    BY <2>1, <2>2, <2>3 DEF Proxy!HttpInv
<1>8. CASE pos < len /\ Proxy!Fail("FILE") /\ ioError' = TRUE /\ UNCHANGED <<out, pos>>
  <2>1. received' \in Nat
    <3>1. received' = received + (len - pos)
      BY <1>8, <1>5
    <3>2. QED
      BY <1>1, <3>1
  <2>2. Proxy!TypeOK'
    BY <1>4, <1>8, <2>1 DEF Proxy!HttpInv, Proxy!TypeOK, Proxy!Steps, Proxy!Errors,
       Proxy!Fail
  <2>3. Proxy!InOrder' /\ Proxy!FileIsBody'
    BY <1>1, <1>2, <1>4, <1>8 DEF Proxy!InOrder, Proxy!FileIsBody, Proxy!Leaving,
       Proxy!Fail, h, Proxy!HeadLen
  <2>4. Proxy!Ending' /\ Proxy!Handles' /\ Proxy!StopSeen' /\ Proxy!StopIsPrompt'
    BY <1>2, <1>3, <1>4, <1>8 DEF Proxy!HttpInv, Proxy!Ending, Proxy!Handles,
       Proxy!StopSeen, Proxy!StopIsPrompt, Proxy!Leaving, Proxy!Fail
  <2>5. QED
    BY <2>2, <2>3, <2>4 DEF Proxy!HttpInv
<1>9. CASE /\ pos < len
           /\ out' = out \o [i \in 1 .. len - pos |-> pos + i]
           /\ UNCHANGED ioError
  <2>1. received' = len - h /\ received' \in Nat
    <3>1. received' = received + (len - pos)
      BY <1>9, <1>5
    <3>2. QED
      BY <1>1, <1>2, <3>1
  <2>2. \/ ctrlC /\ err' = "ABORTED" /\ pc' = "cleanup" /\ pos' = pos
        \/ /\ ~ctrlC /\ pos' = len /\ err' = err
           /\ pc' = "end" \/ pc' = "fill"
    BY <1>1, <1>9 DEF Proxy!BodyBlock, Proxy!Fail
  <2>3. /\ out' \in Seq(Nat) /\ Len(out') = len - h /\ h <= len
        /\ out' = [i \in 1 .. Len(out') |-> h + i]
    BY <1>6, <1>9
  <2>4. Proxy!TypeOK'
    BY <1>1, <1>4, <1>9, <2>1, <2>2, <2>3 DEF Proxy!HttpInv, Proxy!TypeOK, Proxy!Steps,
       Proxy!Errors
  <2>5. Proxy!InOrder' /\ Proxy!FileIsBody'
    BY <1>1, <1>2, <1>4, <2>1, <2>2, <2>3 DEF Proxy!InOrder, Proxy!FileIsBody,
       Proxy!Leaving, h, Proxy!HeadLen
  <2>6. Proxy!Ending' /\ Proxy!Handles' /\ Proxy!StopSeen' /\ Proxy!StopIsPrompt'
    BY <1>2, <1>3, <1>4, <1>9, <2>2 DEF Proxy!HttpInv, Proxy!Ending, Proxy!Handles,
       Proxy!StopSeen, Proxy!StopIsPrompt, Proxy!Leaving
  <2>7. QED
    BY <2>4, <2>5, <2>6 DEF Proxy!HttpInv
<1>10. QED
  BY <1>7, <1>8, <1>9 DEF Proxy!BodyBlock

LEMMA ProxyBodyEnd ==
  ASSUME Proxy!HttpInv, Proxy!BodyEnd
  PROVE  Proxy!HttpInv'
<1>1. Proxy!TypeOK'
  BY AnswerFacts DEF Proxy!HttpInv, Proxy!BodyEnd, Proxy!Fail, Proxy!TypeOK, Proxy!Steps,
     Proxy!Errors, Proxy!Wire, Proxy!HeadLen
<1>2. Proxy!InOrder'
  BY AnswerFacts DEF Proxy!HttpInv, Proxy!BodyEnd, Proxy!Fail, Proxy!InOrder, Proxy!Leaving,
     Proxy!HeadLen
<1>3. Proxy!Ending'
  <2>1. answer.length \in Nat /\ received \in Nat
    BY AnswerFacts DEF Proxy!HttpInv, Proxy!TypeOK
  <2>2. stage = "body" /\ received = Len(out)
    BY DEF Proxy!HttpInv, Proxy!InOrder, Proxy!BodyEnd, Proxy!TypeOK, Proxy!Leaving
  <2>3. err = "OK" /\ ~ioError /\ file \notin {"closed", "left"}
    BY DEF Proxy!HttpInv, Proxy!Ending, Proxy!BodyEnd, Proxy!Leaving
  <2>4. QED
    BY <2>1, <2>2, <2>3 DEF Proxy!BodyEnd, Proxy!Fail, Proxy!Ending, Proxy!Leaving
<1>4. Proxy!Handles' /\ Proxy!StopSeen'
  BY DEF Proxy!HttpInv, Proxy!BodyEnd, Proxy!Fail, Proxy!Handles, Proxy!StopSeen,
     Proxy!Leaving, Proxy!TypeOK
<1>5. Proxy!FileIsBody' /\ Proxy!StopIsPrompt'
  BY DEF Proxy!HttpInv, Proxy!BodyEnd, Proxy!Fail, Proxy!FileIsBody, Proxy!StopIsPrompt,
     Proxy!HeadLen, Proxy!InOrder, Proxy!StopSeen
<1>6. QED
  BY <1>1, <1>2, <1>3, <1>4, <1>5 DEF Proxy!HttpInv

LEMMA ProxyCleanup ==
  ASSUME Proxy!HttpInv, Proxy!Cleanup
  PROVE  Proxy!HttpInv'
<1>1. Proxy!TypeOK'
  BY AnswerFacts DEF Proxy!HttpInv, Proxy!Cleanup, Proxy!TypeOK, Proxy!Steps, Proxy!Errors,
     Proxy!Wire, Proxy!HeadLen
<1>2. Proxy!InOrder'
  BY AnswerFacts DEF Proxy!HttpInv, Proxy!Cleanup, Proxy!InOrder, Proxy!Leaving,
     Proxy!HeadLen
<1>3. Proxy!Ending'
  BY AnswerFacts DEF Proxy!HttpInv, Proxy!Cleanup, Proxy!Ending, Proxy!Leaving,
     Proxy!Handles, Proxy!InOrder, Proxy!HeadLen
<1>4. Proxy!Handles' /\ Proxy!StopSeen'
  BY DEF Proxy!HttpInv, Proxy!Cleanup, Proxy!Handles, Proxy!StopSeen, Proxy!Leaving,
     Proxy!TypeOK
<1>5. Proxy!FileIsBody' /\ Proxy!StopIsPrompt'
  BY DEF Proxy!HttpInv, Proxy!Cleanup, Proxy!FileIsBody, Proxy!StopIsPrompt, Proxy!HeadLen,
     Proxy!InOrder, Proxy!StopSeen
<1>6. QED
  BY <1>1, <1>2, <1>3, <1>4, <1>5 DEF Proxy!HttpInv

LEMMA ProxyArrive ==
  ASSUME Proxy!HttpInv, Proxy!Arrive
  PROVE  Proxy!HttpInv'
<1>1. Proxy!TypeOK'
  BY AnswerFacts DEF Proxy!HttpInv, Proxy!Arrive, Proxy!OnLine, Proxy!TypeOK, Proxy!Steps,
     Proxy!Errors, Proxy!Wire, Proxy!HeadLen
<1>2. Proxy!InOrder'
  BY AnswerFacts DEF Proxy!HttpInv, Proxy!Arrive, Proxy!OnLine, Proxy!InOrder,
     Proxy!Leaving, Proxy!HeadLen
<1>3. Proxy!Ending'
  BY AnswerFacts DEF Proxy!HttpInv, Proxy!Arrive, Proxy!OnLine, Proxy!Ending, Proxy!Leaving,
     Proxy!Handles, Proxy!InOrder, Proxy!HeadLen
<1>4. Proxy!Handles' /\ Proxy!StopSeen'
  BY DEF Proxy!HttpInv, Proxy!Arrive, Proxy!OnLine, Proxy!Handles, Proxy!StopSeen,
     Proxy!Leaving, Proxy!TypeOK
<1>5. Proxy!FileIsBody' /\ Proxy!StopIsPrompt'
  BY DEF Proxy!HttpInv, Proxy!Arrive, Proxy!OnLine, Proxy!FileIsBody, Proxy!StopIsPrompt,
     Proxy!HeadLen, Proxy!InOrder, Proxy!StopSeen
<1>6. QED
  BY <1>1, <1>2, <1>3, <1>4, <1>5 DEF Proxy!HttpInv

LEMMA ProxyHangUp ==
  ASSUME Proxy!HttpInv, Proxy!HangUp
  PROVE  Proxy!HttpInv'
<1>1. Proxy!TypeOK'
  BY AnswerFacts DEF Proxy!HttpInv, Proxy!HangUp, Proxy!OnLine, Proxy!TypeOK, Proxy!Steps,
     Proxy!Errors, Proxy!Wire, Proxy!HeadLen
<1>2. Proxy!InOrder'
  BY AnswerFacts DEF Proxy!HttpInv, Proxy!HangUp, Proxy!OnLine, Proxy!InOrder,
     Proxy!Leaving, Proxy!HeadLen
<1>3. Proxy!Ending'
  BY AnswerFacts DEF Proxy!HttpInv, Proxy!HangUp, Proxy!OnLine, Proxy!Ending, Proxy!Leaving,
     Proxy!Handles, Proxy!InOrder, Proxy!HeadLen
<1>4. Proxy!Handles' /\ Proxy!StopSeen'
  BY DEF Proxy!HttpInv, Proxy!HangUp, Proxy!OnLine, Proxy!Handles, Proxy!StopSeen,
     Proxy!Leaving, Proxy!TypeOK
<1>5. Proxy!FileIsBody' /\ Proxy!StopIsPrompt'
  BY DEF Proxy!HttpInv, Proxy!HangUp, Proxy!OnLine, Proxy!FileIsBody, Proxy!StopIsPrompt,
     Proxy!HeadLen, Proxy!InOrder, Proxy!StopSeen
<1>6. QED
  BY <1>1, <1>2, <1>3, <1>4, <1>5 DEF Proxy!HttpInv

LEMMA ProxyUserStop ==
  ASSUME Proxy!HttpInv, Proxy!UserStop
  PROVE  Proxy!HttpInv'
<1>1. Proxy!TypeOK'
  BY AnswerFacts DEF Proxy!HttpInv, Proxy!UserStop, Proxy!TypeOK, Proxy!Steps, Proxy!Errors,
     Proxy!Wire, Proxy!HeadLen
<1>2. Proxy!InOrder'
  BY AnswerFacts DEF Proxy!HttpInv, Proxy!UserStop, Proxy!InOrder, Proxy!Leaving,
     Proxy!HeadLen
<1>3. Proxy!Ending'
  BY AnswerFacts DEF Proxy!HttpInv, Proxy!UserStop, Proxy!Ending, Proxy!Leaving,
     Proxy!Handles, Proxy!InOrder, Proxy!HeadLen
<1>4. Proxy!Handles' /\ Proxy!StopSeen'
  BY DEF Proxy!HttpInv, Proxy!UserStop, Proxy!Handles, Proxy!StopSeen, Proxy!Leaving,
     Proxy!TypeOK
<1>5. Proxy!FileIsBody' /\ Proxy!StopIsPrompt'
  BY DEF Proxy!HttpInv, Proxy!UserStop, Proxy!FileIsBody, Proxy!StopIsPrompt, Proxy!HeadLen,
     Proxy!InOrder, Proxy!StopSeen
<1>6. QED
  BY <1>1, <1>2, <1>3, <1>4, <1>5 DEF Proxy!HttpInv

LEMMA ProxyDone ==
  ASSUME Proxy!HttpInv, Proxy!Done
  PROVE  Proxy!HttpInv'
<1>1. Proxy!TypeOK'
  BY AnswerFacts DEF Proxy!HttpInv, Proxy!Done, Proxy!vars, Proxy!TypeOK, Proxy!Steps,
     Proxy!Errors, Proxy!Wire, Proxy!HeadLen
<1>2. Proxy!InOrder'
  BY AnswerFacts DEF Proxy!HttpInv, Proxy!Done, Proxy!vars, Proxy!InOrder, Proxy!Leaving,
     Proxy!HeadLen
<1>3. Proxy!Ending'
  BY AnswerFacts DEF Proxy!HttpInv, Proxy!Done, Proxy!vars, Proxy!Ending, Proxy!Leaving,
     Proxy!Handles, Proxy!InOrder, Proxy!HeadLen
<1>4. Proxy!Handles' /\ Proxy!StopSeen'
  BY DEF Proxy!HttpInv, Proxy!Done, Proxy!vars, Proxy!Handles, Proxy!StopSeen,
     Proxy!Leaving, Proxy!TypeOK
<1>5. Proxy!FileIsBody' /\ Proxy!StopIsPrompt'
  BY DEF Proxy!HttpInv, Proxy!Done, Proxy!vars, Proxy!FileIsBody, Proxy!StopIsPrompt,
     Proxy!HeadLen, Proxy!InOrder, Proxy!StopSeen
<1>6. QED
  BY <1>1, <1>2, <1>3, <1>4, <1>5 DEF Proxy!HttpInv

LEMMA Sizes ==
  Full \in Nat /\ MaxJobs \in Nat \ {0} /\ Kinds \subseteq {"fetch", "download"}
BY DownloadsAssumption DEF Native!NativeConstants

-----------------------------------------------------------------------------
(* Each step of the native backend preserves NativeInv. *)

LEMMA NativeEnter ==
  ASSUME Native!NativeInv, Native!Enter
  PROVE  Native!NativeInv'
<1>1. Native!TypeOK'
  BY Sizes DEF Native!NativeInv, Native!Enter, Native!TypeOK, Native!Steps, Native!Errors,
     Native!Counted
<1>2. Native!Opening' /\ Native!UsesOnlyOpen'
  BY DEF Native!NativeInv, Native!Enter, Native!Opening, Native!UsesOnlyOpen,
     Native!Outside, Native!Parts, Native!TypeOK
<1>3. Native!Counted'
  BY DEF Native!NativeInv, Native!Enter, Native!Counted,
     Native!Opening, Native!Outside, Native!TypeOK
<1>4. Native!FileOpen' /\ Native!StopSeen' /\ Native!StopIsPrompt'
  BY DEF Native!NativeInv, Native!Enter, Native!FileOpen, Native!Loop, Native!StopSeen,
     Native!StopIsPrompt, Native!TypeOK, Native!Counted, Native!Opening, Native!Outside
<1>5. QED
  BY <1>1, <1>2, <1>3, <1>4 DEF Native!NativeInv

LEMMA NativeCheckClock ==
  ASSUME Native!NativeInv, Native!CheckClock
  PROVE  Native!NativeInv'
<1>1. Native!TypeOK'
  BY Sizes DEF Native!NativeInv, Native!CheckClock, Native!GiveUp, Native!TypeOK,
     Native!Steps, Native!Errors, Native!Counted
<1>2. Native!Opening' /\ Native!UsesOnlyOpen'
  BY DEF Native!NativeInv, Native!CheckClock, Native!GiveUp, Native!Opening,
     Native!UsesOnlyOpen, Native!Outside, Native!Parts, Native!TypeOK
<1>3. Native!Counted'
  BY DEF Native!NativeInv, Native!CheckClock, Native!GiveUp,
     Native!Counted, Native!Opening, Native!Outside, Native!TypeOK
<1>4. Native!FileOpen' /\ Native!StopSeen' /\ Native!StopIsPrompt'
  BY DEF Native!NativeInv, Native!CheckClock, Native!GiveUp, Native!FileOpen, Native!Loop,
     Native!StopSeen, Native!StopIsPrompt, Native!TypeOK, Native!Counted, Native!Opening,
     Native!Outside
<1>5. QED
  BY <1>1, <1>2, <1>3, <1>4 DEF Native!NativeInv

LEMMA NativeOpenMaster ==
  ASSUME Native!NativeInv, Native!OpenMaster
  PROVE  Native!NativeInv'
<1>1. Native!TypeOK'
  BY Sizes DEF Native!NativeInv, Native!OpenMaster, Native!Opened, Native!GiveUp,
     Native!TypeOK, Native!Steps, Native!Errors, Native!Counted
<1>2. Native!Opening' /\ Native!UsesOnlyOpen'
  BY DEF Native!NativeInv, Native!OpenMaster, Native!Opened, Native!GiveUp, Native!Opening,
     Native!UsesOnlyOpen, Native!Outside, Native!Parts, Native!TypeOK
<1>3. Native!Counted'
  BY DEF Native!NativeInv, Native!OpenMaster, Native!Opened, Native!GiveUp, Native!Counted, Native!Opening, Native!Outside, Native!TypeOK
<1>4. Native!FileOpen' /\ Native!StopSeen' /\ Native!StopIsPrompt'
  BY DEF Native!NativeInv, Native!OpenMaster, Native!Opened, Native!GiveUp, Native!FileOpen,
     Native!Loop, Native!StopSeen, Native!StopIsPrompt, Native!TypeOK, Native!Counted,
     Native!Opening, Native!Outside
<1>5. QED
  BY <1>1, <1>2, <1>3, <1>4 DEF Native!NativeInv

LEMMA NativeOpenSsl ==
  ASSUME Native!NativeInv, Native!OpenSsl
  PROVE  Native!NativeInv'
<1>1. Native!TypeOK'
  BY Sizes DEF Native!NativeInv, Native!OpenSsl, Native!Opened, Native!GiveUp,
     Native!TypeOK, Native!Steps, Native!Errors, Native!Counted
<1>2. Native!Opening' /\ Native!UsesOnlyOpen'
  BY DEF Native!NativeInv, Native!OpenSsl, Native!Opened, Native!GiveUp, Native!Opening,
     Native!UsesOnlyOpen, Native!Outside, Native!Parts, Native!TypeOK
<1>3. Native!Counted'
  BY DEF Native!NativeInv, Native!OpenSsl, Native!Opened, Native!GiveUp, Native!Counted, Native!Opening, Native!Outside, Native!TypeOK
<1>4. Native!FileOpen' /\ Native!StopSeen' /\ Native!StopIsPrompt'
  BY DEF Native!NativeInv, Native!OpenSsl, Native!Opened, Native!GiveUp, Native!FileOpen,
     Native!Loop, Native!StopSeen, Native!StopIsPrompt, Native!TypeOK, Native!Counted,
     Native!Opening, Native!Outside
<1>5. QED
  BY <1>1, <1>2, <1>3, <1>4 DEF Native!NativeInv

LEMMA NativeNewContext ==
  ASSUME Native!NativeInv, Native!NewContext
  PROVE  Native!NativeInv'
<1>1. Native!TypeOK'
  BY Sizes DEF Native!NativeInv, Native!NewContext, Native!Opened, Native!GiveUp,
     Native!TypeOK, Native!Steps, Native!Errors, Native!Counted
<1>2. Native!Opening' /\ Native!UsesOnlyOpen'
  BY DEF Native!NativeInv, Native!NewContext, Native!Opened, Native!GiveUp, Native!Opening,
     Native!UsesOnlyOpen, Native!Outside, Native!Parts, Native!TypeOK
<1>3. Native!Counted'
  BY DEF Native!NativeInv, Native!NewContext, Native!Opened, Native!GiveUp, Native!Counted, Native!Opening, Native!Outside, Native!TypeOK
<1>4. Native!FileOpen' /\ Native!StopSeen' /\ Native!StopIsPrompt'
  BY DEF Native!NativeInv, Native!NewContext, Native!Opened, Native!GiveUp, Native!FileOpen,
     Native!Loop, Native!StopSeen, Native!StopIsPrompt, Native!TypeOK, Native!Counted,
     Native!Opening, Native!Outside
<1>5. QED
  BY <1>1, <1>2, <1>3, <1>4 DEF Native!NativeInv

LEMMA NativeSetVerify ==
  ASSUME Native!NativeInv, Native!SetVerify
  PROVE  Native!NativeInv'
<1>1. Native!TypeOK'
  BY Sizes DEF Native!NativeInv, Native!SetVerify, Native!TypeOK, Native!Steps,
     Native!Errors, Native!Counted
<1>2. Native!Opening' /\ Native!UsesOnlyOpen'
  BY DEF Native!NativeInv, Native!SetVerify, Native!Opening, Native!UsesOnlyOpen,
     Native!Outside, Native!Parts, Native!TypeOK
<1>3. Native!Counted'
  BY DEF Native!NativeInv, Native!SetVerify, Native!Counted,
     Native!Opening, Native!Outside, Native!TypeOK
<1>4. Native!FileOpen' /\ Native!StopSeen' /\ Native!StopIsPrompt'
  BY DEF Native!NativeInv, Native!SetVerify, Native!FileOpen, Native!Loop, Native!StopSeen,
     Native!StopIsPrompt, Native!TypeOK, Native!Counted, Native!Opening, Native!Outside
<1>5. QED
  BY <1>1, <1>2, <1>3, <1>4 DEF Native!NativeInv

LEMMA NativePrepareFetch ==
  ASSUME Native!NativeInv, Native!PrepareFetch
  PROVE  Native!NativeInv'
<1>1. Native!TypeOK'
  BY Sizes DEF Native!NativeInv, Native!PrepareFetch, Native!Stop, Native!TypeOK,
     Native!Steps, Native!Errors, Native!Counted
<1>2. Native!Opening' /\ Native!UsesOnlyOpen'
  BY DEF Native!NativeInv, Native!PrepareFetch, Native!Stop, Native!Opening,
     Native!UsesOnlyOpen, Native!Outside, Native!Parts, Native!TypeOK
<1>3. Native!Counted'
  BY DEF Native!NativeInv, Native!PrepareFetch, Native!Stop,
     Native!Counted, Native!Opening, Native!Outside, Native!TypeOK
<1>4. Native!FileOpen' /\ Native!StopSeen' /\ Native!StopIsPrompt'
  BY DEF Native!NativeInv, Native!PrepareFetch, Native!Stop, Native!FileOpen, Native!Loop,
     Native!StopSeen, Native!StopIsPrompt, Native!TypeOK, Native!Counted, Native!Opening,
     Native!Outside
<1>5. QED
  BY <1>1, <1>2, <1>3, <1>4 DEF Native!NativeInv

LEMMA NativePrepareDownload ==
  ASSUME Native!NativeInv, Native!PrepareDownload
  PROVE  Native!NativeInv'
<1>1. Native!TypeOK'
  BY Sizes DEF Native!NativeInv, Native!PrepareDownload, Native!Stop, Native!TypeOK,
     Native!Steps, Native!Errors, Native!Counted
<1>2. Native!Opening' /\ Native!UsesOnlyOpen'
  BY DEF Native!NativeInv, Native!PrepareDownload, Native!Stop, Native!Opening,
     Native!UsesOnlyOpen, Native!Outside, Native!Parts, Native!TypeOK
<1>3. Native!Counted'
  BY DEF Native!NativeInv, Native!PrepareDownload, Native!Stop,
     Native!Counted, Native!Opening, Native!Outside, Native!TypeOK
<1>4. Native!FileOpen' /\ Native!StopSeen' /\ Native!StopIsPrompt'
  BY DEF Native!NativeInv, Native!PrepareDownload, Native!Stop, Native!FileOpen,
     Native!Loop, Native!StopSeen, Native!StopIsPrompt, Native!TypeOK, Native!Counted,
     Native!Opening, Native!Outside
<1>5. QED
  BY <1>1, <1>2, <1>3, <1>4 DEF Native!NativeInv

LEMMA NativeGet ==
  ASSUME Native!NativeInv, Native!Get
  PROVE  Native!NativeInv'
<1>1. Native!TypeOK'
  BY Sizes DEF Native!NativeInv, Native!Get, Native!TypeOK, Native!Steps, Native!Errors,
     Native!Counted
<1>2. Native!Opening' /\ Native!UsesOnlyOpen'
  BY DEF Native!NativeInv, Native!Get, Native!Opening, Native!UsesOnlyOpen, Native!Outside,
     Native!Parts, Native!TypeOK
<1>3. Native!Counted'
  BY DEF Native!NativeInv, Native!Get, Native!Counted, Native!Opening,
     Native!Outside, Native!TypeOK
<1>4. Native!FileOpen' /\ Native!StopSeen' /\ Native!StopIsPrompt'
  BY DEF Native!NativeInv, Native!Get, Native!FileOpen, Native!Loop, Native!StopSeen,
     Native!StopIsPrompt, Native!TypeOK, Native!Counted, Native!Opening, Native!Outside
<1>5. QED
  BY <1>1, <1>2, <1>3, <1>4 DEF Native!NativeInv

LEMMA NativeRead ==
  ASSUME Native!NativeInv, Native!Read
  PROVE  Native!NativeInv'
<1>1. Native!TypeOK'
  BY Sizes DEF Native!NativeInv, Native!Read, Native!TypeOK, Native!Steps, Native!Errors,
     Native!Counted
<1>2. Native!Opening' /\ Native!UsesOnlyOpen'
  BY DEF Native!NativeInv, Native!Read, Native!Opening, Native!UsesOnlyOpen, Native!Outside,
     Native!Parts, Native!TypeOK
<1>3. Native!Counted'
  BY DEF Native!NativeInv, Native!Read, Native!Counted,
     Native!Opening, Native!Outside, Native!TypeOK
<1>4. Native!FileOpen' /\ Native!StopSeen' /\ Native!StopIsPrompt'
  BY DEF Native!NativeInv, Native!Read, Native!FileOpen, Native!Loop, Native!StopSeen,
     Native!StopIsPrompt, Native!TypeOK, Native!Counted, Native!Opening, Native!Outside
<1>5. QED
  BY <1>1, <1>2, <1>3, <1>4 DEF Native!NativeInv

LEMMA NativeCheckAbort ==
  ASSUME Native!NativeInv, Native!CheckAbort
  PROVE  Native!NativeInv'
<1>1. Native!TypeOK'
  BY Sizes DEF Native!NativeInv, Native!CheckAbort, Native!TypeOK, Native!Steps,
     Native!Errors, Native!Counted
<1>2. Native!Opening' /\ Native!UsesOnlyOpen'
  BY DEF Native!NativeInv, Native!CheckAbort, Native!Opening, Native!UsesOnlyOpen,
     Native!Outside, Native!Parts, Native!TypeOK
<1>3. Native!Counted'
  BY DEF Native!NativeInv, Native!CheckAbort, Native!Counted,
     Native!Opening, Native!Outside, Native!TypeOK
<1>4. Native!FileOpen' /\ Native!StopSeen' /\ Native!StopIsPrompt'
  BY DEF Native!NativeInv, Native!CheckAbort, Native!FileOpen, Native!Loop, Native!StopSeen,
     Native!StopIsPrompt, Native!TypeOK, Native!Counted, Native!Opening, Native!Outside
<1>5. QED
  BY <1>1, <1>2, <1>3, <1>4 DEF Native!NativeInv

LEMMA NativeJsonSink ==
  ASSUME Native!NativeInv, Native!JsonSink
  PROVE  Native!NativeInv'
<1>1. Native!TypeOK'
  BY Sizes DEF Native!NativeInv, Native!JsonSink, Native!Take, Native!TypeOK, Native!Steps,
     Native!Errors, Native!Counted
<1>2. Native!Opening' /\ Native!UsesOnlyOpen'
  BY DEF Native!NativeInv, Native!JsonSink, Native!Take, Native!Opening,
     Native!UsesOnlyOpen, Native!Outside, Native!Parts, Native!TypeOK
<1>3. Native!Counted'
  BY DEF Native!NativeInv, Native!JsonSink, Native!Take,
     Native!Counted, Native!Opening, Native!Outside, Native!TypeOK
<1>4. Native!FileOpen' /\ Native!StopSeen' /\ Native!StopIsPrompt'
  BY DEF Native!NativeInv, Native!JsonSink, Native!Take, Native!FileOpen, Native!Loop,
     Native!StopSeen, Native!StopIsPrompt, Native!TypeOK, Native!Counted, Native!Opening,
     Native!Outside
<1>5. QED
  BY <1>1, <1>2, <1>3, <1>4 DEF Native!NativeInv

LEMMA NativeDownloadSink ==
  ASSUME Native!NativeInv, Native!DownloadSink
  PROVE  Native!NativeInv'
<1>1. Native!TypeOK'
  <2>1. came \in Nat /\ put \in 0 .. came /\ put + 1 <= came /\ late \in Nat
    BY Sizes DEF Native!NativeInv, Native!TypeOK, Native!DownloadSink, Native!Counted
  <2>2. put' \in 0 .. came /\ late' \in Nat
    BY <2>1 DEF Native!DownloadSink, Native!Take
  <2>3. /\ UNCHANGED <<jobs, kind, verify, Native!lib, message, ctrlC, came, file>>
        /\ pc' \in {"finish", "read"} /\ err' \in {err, "ABORTED", "FILE"} /\ ioError' \in BOOLEAN
    BY DEF Native!NativeInv, Native!TypeOK, Native!DownloadSink
  <2>4. QED
    BY <2>2, <2>3 DEF Native!NativeInv, Native!TypeOK, Native!Steps, Native!Errors
<1>2. Native!Opening' /\ Native!UsesOnlyOpen'
  BY DEF Native!NativeInv, Native!DownloadSink, Native!Take, Native!Opening,
     Native!UsesOnlyOpen, Native!Outside, Native!Parts, Native!TypeOK
<1>3. Native!Counted'
  BY DEF Native!NativeInv, Native!DownloadSink, Native!Take,
     Native!Counted, Native!Opening, Native!Outside, Native!TypeOK
<1>4. Native!FileOpen' /\ Native!StopSeen' /\ Native!StopIsPrompt'
  BY DEF Native!NativeInv, Native!DownloadSink, Native!Take, Native!FileOpen, Native!Loop,
     Native!StopSeen, Native!StopIsPrompt, Native!TypeOK, Native!Counted, Native!Opening,
     Native!Outside
<1>5. QED
  BY <1>1, <1>2, <1>3, <1>4 DEF Native!NativeInv

LEMMA NativeFinishFetch ==
  ASSUME Native!NativeInv, Native!FinishFetch
  PROVE  Native!NativeInv'
<1>1. Native!TypeOK'
  BY Sizes DEF Native!NativeInv, Native!FinishFetch, Native!TypeOK, Native!Steps,
     Native!Errors, Native!Counted
<1>2. Native!Opening' /\ Native!UsesOnlyOpen'
  BY DEF Native!NativeInv, Native!FinishFetch, Native!Opening, Native!UsesOnlyOpen,
     Native!Outside, Native!Parts, Native!TypeOK
<1>3. Native!Counted'
  BY DEF Native!NativeInv, Native!FinishFetch, Native!Counted,
     Native!Opening, Native!Outside, Native!TypeOK
<1>4. Native!FileOpen' /\ Native!StopSeen' /\ Native!StopIsPrompt'
  BY DEF Native!NativeInv, Native!FinishFetch, Native!FileOpen, Native!Loop,
     Native!StopSeen, Native!StopIsPrompt, Native!TypeOK, Native!Counted, Native!Opening,
     Native!Outside
<1>5. QED
  BY <1>1, <1>2, <1>3, <1>4 DEF Native!NativeInv

LEMMA NativeFinishDownload ==
  ASSUME Native!NativeInv, Native!FinishDownload
  PROVE  Native!NativeInv'
<1>1. Native!TypeOK'
  BY Sizes DEF Native!NativeInv, Native!FinishDownload, Native!TypeOK, Native!Steps,
     Native!Errors, Native!Counted
<1>2. Native!Opening' /\ Native!UsesOnlyOpen'
  BY DEF Native!NativeInv, Native!FinishDownload, Native!Opening, Native!UsesOnlyOpen,
     Native!Outside, Native!Parts, Native!TypeOK
<1>3. Native!Counted'
  BY DEF Native!NativeInv, Native!FinishDownload, Native!Counted,
     Native!Opening, Native!Outside, Native!TypeOK
<1>4. Native!FileOpen' /\ Native!StopSeen' /\ Native!StopIsPrompt'
  BY DEF Native!NativeInv, Native!FinishDownload, Native!FileOpen, Native!Loop,
     Native!StopSeen, Native!StopIsPrompt, Native!TypeOK, Native!Counted, Native!Opening,
     Native!Outside
<1>5. QED
  BY <1>1, <1>2, <1>3, <1>4 DEF Native!NativeInv

LEMMA NativeCloseAll ==
  ASSUME Native!NativeInv, Native!CloseAll
  PROVE  Native!NativeInv'
<1>1. Native!TypeOK'
  BY Sizes DEF Native!NativeInv, Native!CloseAll, Native!TypeOK, Native!Steps,
     Native!Errors, Native!Counted
<1>2. Native!Opening' /\ Native!UsesOnlyOpen'
  BY DEF Native!NativeInv, Native!CloseAll, Native!Opening, Native!UsesOnlyOpen,
     Native!Outside, Native!Parts, Native!TypeOK
<1>3. Native!Counted'
  BY DEF Native!NativeInv, Native!CloseAll, Native!Counted,
     Native!Opening, Native!Outside, Native!TypeOK
<1>4. Native!FileOpen' /\ Native!StopSeen' /\ Native!StopIsPrompt'
  BY DEF Native!NativeInv, Native!CloseAll, Native!FileOpen, Native!Loop, Native!StopSeen,
     Native!StopIsPrompt, Native!TypeOK, Native!Counted, Native!Opening, Native!Outside
<1>5. QED
  BY <1>1, <1>2, <1>3, <1>4 DEF Native!NativeInv

LEMMA NativeUserStop ==
  ASSUME Native!NativeInv, Native!UserStop
  PROVE  Native!NativeInv'
<1>1. Native!TypeOK'
  BY Sizes DEF Native!NativeInv, Native!UserStop, Native!TypeOK, Native!Steps,
     Native!Errors, Native!Counted
<1>2. Native!Opening' /\ Native!UsesOnlyOpen'
  BY DEF Native!NativeInv, Native!UserStop, Native!Opening, Native!UsesOnlyOpen,
     Native!Outside, Native!Parts, Native!TypeOK
<1>3. Native!Counted'
  BY DEF Native!NativeInv, Native!UserStop, Native!Counted,
     Native!Opening, Native!Outside, Native!TypeOK
<1>4. Native!FileOpen' /\ Native!StopSeen' /\ Native!StopIsPrompt'
  BY DEF Native!NativeInv, Native!UserStop, Native!FileOpen, Native!Loop, Native!StopSeen,
     Native!StopIsPrompt, Native!TypeOK, Native!Counted, Native!Opening, Native!Outside
<1>5. QED
  BY <1>1, <1>2, <1>3, <1>4 DEF Native!NativeInv

LEMMA NativeNextJob ==
  ASSUME Native!NativeInv, Native!NextJob
  PROVE  Native!NativeInv'
<1>1. Native!TypeOK'
  <2>1. jobs' \in 1 .. MaxJobs
    BY Sizes DEF Native!NativeInv, Native!NextJob, Native!TypeOK
  <2>2. UNCHANGED Native!lib
    BY DEF Native!NextJob
  <2>3. /\ pc' = "start" /\ kind' \in Kinds /\ verify' \in BOOLEAN /\ err' = "OK"
        /\ ioError' = FALSE /\ ctrlC' = FALSE /\ message' = "none"
        /\ file' \in {"absent", "old"} /\ came' = 0 /\ put' = 0 /\ late' = 0
    BY DEF Native!NextJob, Native!Fresh
  <2>4. came' \in 0 .. Full /\ put' \in 0 .. came' /\ late' \in Nat
    BY <2>3, Sizes
  <2>5. QED
    BY <2>1, <2>2, <2>3, <2>4 DEF Native!NativeInv, Native!TypeOK, Native!Steps
<1>2. Native!Opening' /\ Native!UsesOnlyOpen'
  BY DEF Native!NativeInv, Native!NextJob, Native!Fresh, Native!Opening,
     Native!UsesOnlyOpen, Native!Outside, Native!Parts, Native!TypeOK
<1>3. Native!Counted'
  BY DEF Native!NativeInv, Native!NextJob, Native!Fresh,
     Native!Counted, Native!Opening, Native!Outside, Native!TypeOK
<1>4. Native!FileOpen' /\ Native!StopSeen' /\ Native!StopIsPrompt'
  BY DEF Native!NativeInv, Native!NextJob, Native!Fresh, Native!FileOpen, Native!Loop,
     Native!StopSeen, Native!StopIsPrompt, Native!TypeOK, Native!Counted, Native!Opening,
     Native!Outside
<1>5. QED
  BY <1>1, <1>2, <1>3, <1>4 DEF Native!NativeInv

LEMMA NativeFinished ==
  ASSUME Native!NativeInv, Native!Finished
  PROVE  Native!NativeInv'
<1>1. Native!TypeOK'
  BY Sizes DEF Native!NativeInv, Native!Finished, Native!vars, Native!TypeOK, Native!Steps,
     Native!Errors, Native!Counted
<1>2. Native!Opening' /\ Native!UsesOnlyOpen'
  BY DEF Native!NativeInv, Native!Finished, Native!vars, Native!Opening,
     Native!UsesOnlyOpen, Native!Outside, Native!Parts, Native!TypeOK
<1>3. Native!Counted'
  BY DEF Native!NativeInv, Native!Finished, Native!vars,
     Native!Counted, Native!Opening, Native!Outside, Native!TypeOK
<1>4. Native!FileOpen' /\ Native!StopSeen' /\ Native!StopIsPrompt'
  BY DEF Native!NativeInv, Native!Finished, Native!vars, Native!FileOpen, Native!Loop,
     Native!StopSeen, Native!StopIsPrompt, Native!TypeOK, Native!Counted, Native!Opening,
     Native!Outside
<1>5. QED
  BY <1>1, <1>2, <1>3, <1>4 DEF Native!NativeInv

-----------------------------------------------------------------------------
(* Both, behind the questions. *)

LEMMA ProxyStill ==
  ASSUME Proxy!HttpInv, UNCHANGED Proxy!vars
  PROVE  Proxy!HttpInv'
<1>1. UNCHANGED <<answer, arrived, hungUp, ctrlC, pc, stage, err, ioError, sock, pos, len, eof,
                  hdrLen, nlRun, received, file, out, late>>
  BY DEF Proxy!vars
<1>2. Proxy!TypeOK' /\ Proxy!Handles' /\ Proxy!StopSeen' /\ Proxy!StopIsPrompt'
  BY <1>1 DEF Proxy!HttpInv, Proxy!TypeOK, Proxy!Handles, Proxy!StopSeen, Proxy!StopIsPrompt
<1>3. Proxy!InOrder' /\ Proxy!Ending' /\ Proxy!FileIsBody'
  BY <1>1 DEF Proxy!HttpInv, Proxy!InOrder, Proxy!Ending, Proxy!FileIsBody
<1>4. QED
  BY <1>2, <1>3 DEF Proxy!HttpInv

LEMMA NativeStill ==
  ASSUME Native!NativeInv, UNCHANGED Native!vars
  PROVE  Native!NativeInv'
<1>1. UNCHANGED <<pc, jobs, kind, verify, base, isOpen, checked, message, err, ioError, ctrlC,
                  came, put, file, late>>
  BY DEF Native!vars
<1>2. Native!TypeOK' /\ Native!Opening' /\ Native!UsesOnlyOpen'
  BY <1>1 DEF Native!NativeInv, Native!TypeOK, Native!Opening, Native!UsesOnlyOpen
<1>3. Native!Counted' /\ Native!FileOpen' /\ Native!StopSeen' /\ Native!StopIsPrompt'
  BY <1>1 DEF Native!NativeInv, Native!Counted, Native!FileOpen, Native!StopSeen,
     Native!StopIsPrompt
<1>4. QED
  BY <1>2, <1>3 DEF Native!NativeInv

LEMMA ProxyNext ==
  ASSUME Proxy!HttpInv, Proxy!Next
  PROVE  Proxy!HttpInv'
BY ProxyRefuse, ProxyOpenFile, ProxyCloseFile, ProxyPrepare, ProxyConnectAndSend, ProxyFill,
   ProxyWaitReadable, ProxyRecv, ProxyHeadUnit, ProxyParseHeaders, ProxyBodyBlock,
   ProxyBodyEnd, ProxyCleanup, ProxyArrive, ProxyHangUp, ProxyUserStop, ProxyDone DEF
   Proxy!Next, Proxy!Client

LEMMA NativeNext ==
  ASSUME Native!NativeInv, Native!Next
  PROVE  Native!NativeInv'
BY NativeEnter, NativeCheckClock, NativeOpenMaster, NativeOpenSsl, NativeNewContext,
   NativeSetVerify, NativePrepareFetch, NativePrepareDownload, NativeGet, NativeRead,
   NativeCheckAbort, NativeJsonSink, NativeDownloadSink, NativeFinishFetch,
   NativeFinishDownload, NativeCloseAll, NativeUserStop, NativeNextJob, NativeFinished DEF
   Native!Next, Native!Backend

LEMMA InitInv ==
  ASSUME Init
  PROVE  DInv
<1>1. ASSUME Proxy!Init, NativeAtRest PROVE Proxy!HttpInv
  <2>1. answer \in Answers /\ Proxy!Wire(answer) \in Nat /\ HdrBuf \in Nat \ {0}
    BY <1>1, AnswerFacts, DownloadsAssumption DEF Proxy!Init, Proxy!Wire, Proxy!HeadLen,
       Proxy!HttpConstants
  <2>2. Proxy!TypeOK
    <3>1. 0 \in 0 .. Proxy!Wire(answer) /\ 0 \in 0 .. HdrBuf - 1 /\ 0 \in 0 .. 0 /\ <<>> \in Seq(Nat)
      BY <2>1
    <3>2. /\ arrived = 0 /\ pos = 0 /\ len = 0 /\ hdrLen = 0 /\ nlRun = 0 /\ received = 0
          /\ late = 0 /\ out = <<>> /\ hungUp = FALSE /\ ctrlC = FALSE /\ sock = FALSE
          /\ eof = FALSE /\ ioError = FALSE /\ pc = "start" /\ stage = "head" /\ err = "OK"
          /\ file \in {"absent", "old"}
      BY <1>1 DEF Proxy!Init
    <3>3. /\ arrived \in 0 .. Proxy!Wire(answer) /\ pos \in 0 .. len /\ len \in 0 .. arrived
          /\ hdrLen \in 0 .. HdrBuf - 1 /\ nlRun \in 0 .. 2 /\ out \in Seq(Nat)
      BY <3>1, <3>2
    <3>4. QED
      BY <2>1, <3>2, <3>3 DEF Proxy!TypeOK, Proxy!Steps
  <2>3. Proxy!InOrder /\ Proxy!Ending /\ Proxy!Handles /\ Proxy!StopSeen /\ Proxy!StopIsPrompt
    BY <1>1 DEF Proxy!Init, Proxy!InOrder, Proxy!Ending, Proxy!Handles, Proxy!StopSeen,
       Proxy!StopIsPrompt, Proxy!Leaving
  <2>4. Proxy!FileIsBody
    BY <1>1 DEF Proxy!Init, Proxy!FileIsBody
  <2>5. QED
    BY <2>2, <2>3, <2>4 DEF Proxy!HttpInv
<1>2. ASSUME Native!Init PROVE Native!NativeInv
  <2>1. Native!TypeOK
    <3>1. 0 \in 0 .. Full /\ 0 \in 0 .. 0 /\ 1 \in 1 .. MaxJobs
      BY Sizes
    <3>2. base \in [Native!Parts -> BOOLEAN] /\ isOpen \in [Native!Parts -> BOOLEAN]
      BY <1>2 DEF Native!Init
    <3>3. QED
      BY <1>2, <3>1, <3>2 DEF Native!Init, Native!TypeOK, Native!Steps
  <2>2. Native!Opening /\ Native!UsesOnlyOpen
    BY <1>2 DEF Native!Init, Native!Opening, Native!UsesOnlyOpen,
       Native!Parts
  <2>3. Native!Counted /\ Native!FileOpen /\ Native!StopSeen /\ Native!StopIsPrompt
    BY <1>2 DEF Native!Init, Native!Counted, Native!FileOpen, Native!StopSeen,
       Native!StopIsPrompt, Native!Loop
  <2>4. QED
    BY <2>1, <2>2, <2>3 DEF Native!NativeInv
<1>3. Asked
  <2>1. pc = "start" /\ kind \in {"fetch", "download"}
    BY Sizes DEF Init, Proxy!Init, Native!Init, NativeAtRest
  <2>2. QED
    BY <2>1 DEF Init, Asked, FirstPlace
<1>4. QED
  BY <1>1, <1>2, <1>3 DEF Init, DInv

\* The questions change nothing the backends know.
LEMMA QuestionSteps ==
  ASSUME DInv, LookForFile \/ AskOverwrite \/ CheckSpace
  PROVE  DInv'
<1>1. UNCHANGED <<backend, both, http, native>> /\ place # "job"
  BY DEF LookForFile, AskOverwrite, CheckSpace, Asking
<1>2. Asked'
  BY <1>1 DEF DInv, Asked, LookForFile, AskOverwrite, CheckSpace, Asking
<1>3. UNCHANGED Proxy!vars /\ UNCHANGED Native!vars
  BY <1>1 DEF Proxy!vars, Native!vars
<1>4. NativeAtRest => NativeAtRest'
  BY <1>1 DEF NativeAtRest
<1>5. ProxyAtRest => ProxyAtRest'
  BY <1>1 DEF ProxyAtRest
<1>6. QED
  BY <1>1, <1>2, <1>3, <1>4, <1>5, ProxyStill, NativeStill DEF DInv

\* Nor does another program before the file has been opened.
LEMMA OtherProgramStep ==
  ASSUME DInv, Appear \/ Vanish
  PROVE  DInv'
<1>1. /\ file \in {"absent", "old"} /\ file' \in {"absent", "old"} /\ pc \in BeforeOpen /\ kind = "download"
      /\ UNCHANGED <<backend, place, pc, err, ioError, ctrlC, late, http, native>>
  BY DEF Appear, Vanish, OtherProgram
<1>2. Asked'
  BY <1>1 DEF DInv, Asked
<1>3. ASSUME Proxy!HttpInv PROVE Proxy!HttpInv'
  <2>1. pc = "start"
    BY <1>1, <1>3 DEF Proxy!HttpInv, Proxy!TypeOK, Proxy!Steps, BeforeOpen
  <2>2. Proxy!TypeOK' /\ Proxy!Handles' /\ Proxy!StopSeen' /\ Proxy!StopIsPrompt'
    BY <1>1, <1>3, <2>1 DEF Proxy!HttpInv, Proxy!TypeOK, Proxy!Handles, Proxy!StopSeen,
       Proxy!StopIsPrompt
  <2>3. Proxy!InOrder' /\ Proxy!Ending' /\ Proxy!FileIsBody'
    BY <1>1, <1>3, <2>1 DEF Proxy!HttpInv, Proxy!InOrder, Proxy!Ending, Proxy!FileIsBody,
       Proxy!Leaving
  <2>4. QED
    BY <2>2, <2>3 DEF Proxy!HttpInv
<1>4. ASSUME Native!NativeInv PROVE Native!NativeInv'
  <2>1. Native!TypeOK' /\ Native!Opening' /\ Native!UsesOnlyOpen'
    BY <1>1, <1>4 DEF Native!NativeInv, Native!TypeOK, Native!Opening, Native!UsesOnlyOpen
  <2>2. Native!Counted' /\ Native!FileOpen' /\ Native!StopSeen' /\ Native!StopIsPrompt'
    BY <1>1, <1>4 DEF Native!NativeInv, Native!Counted, Native!FileOpen, Native!StopSeen,
       Native!StopIsPrompt, BeforeOpen, Native!Loop
  <2>3. QED
    BY <2>1, <2>2 DEF Native!NativeInv
<1>5. NativeAtRest => NativeAtRest'
  BY <1>1 DEF NativeAtRest
<1>6. ProxyAtRest => ProxyAtRest'
  BY <1>1 DEF ProxyAtRest
<1>7. QED
  BY <1>1, <1>2, <1>3, <1>4, <1>5, <1>6 DEF DInv

LEMMA ProxyStepInv ==
  ASSUME DInv, ProxyStep
  PROVE  DInv'
<1>1. backend = "proxy" /\ place = "job" /\ Proxy!Next /\ UNCHANGED <<backend, place, native>>
  BY DEF ProxyStep, InProxy
<1>2. Proxy!HttpInv /\ NativeAtRest
  BY <1>1 DEF DInv
<1>3. Asked'
  BY <1>1 DEF DInv, Asked
<1>4. NativeAtRest'
  BY <1>1, <1>2 DEF NativeAtRest
<1>5. QED
  BY <1>1, <1>2, <1>3, <1>4, ProxyNext DEF DInv

\* The jobs are counted where the next one begins.
LEMMA SameJob ==
  ASSUME Native!Next, jobs' # jobs
  PROVE  Native!NextJob
BY DEF Native!Next, Native!Backend, Native!Enter, Native!CheckClock, Native!OpenMaster,
   Native!OpenSsl, Native!NewContext, Native!SetVerify, Native!PrepareFetch,
   Native!PrepareDownload, Native!Get, Native!Read, Native!CheckAbort, Native!JsonSink,
   Native!DownloadSink, Native!FinishFetch, Native!FinishDownload, Native!CloseAll,
   Native!UserStop, Native!Finished, Native!vars

LEMMA NativeStepInv ==
  ASSUME DInv, NativeStep
  PROVE  DInv'
<1>1. /\ backend = "native" /\ place = "job" /\ Native!Next /\ UNCHANGED <<backend, http>>
      /\ jobs' = jobs => UNCHANGED place
      /\ jobs' # jobs => place' = FirstPlace(kind')
  BY DEF NativeStep, InNative
<1>2. Native!NativeInv /\ ProxyAtRest
  BY <1>1 DEF DInv
<1>3. Native!NativeInv'
  BY <1>1, <1>2, NativeNext
<1>4. Asked'
  <2>1. CASE jobs' = jobs
    BY <1>1, <2>1 DEF DInv, Asked
  <2>2. CASE jobs' # jobs
    <3>1. pc' = "start"
      BY <1>1, <2>2, SameJob DEF Native!NextJob, Native!Fresh
    <3>2. kind' \in {"fetch", "download"}
      BY <1>3, Sizes DEF Native!NativeInv, Native!TypeOK
    <3>3. QED
      BY <1>1, <2>2, <3>1, <3>2 DEF Asked, FirstPlace
  <2>3. QED
    BY <2>1, <2>2
<1>5. ProxyAtRest'
  BY <1>1, <1>2 DEF ProxyAtRest
<1>6. QED
  BY <1>1, <1>3, <1>4, <1>5 DEF DInv

LEMMA StepInv ==
  ASSUME DInv, [Next]_vars
  PROVE  DInv'
<1>1. CASE UNCHANGED vars
  <2>1. UNCHANGED <<backend, place, both, http, native>>
    BY <1>1 DEF vars
  <2>2. UNCHANGED Proxy!vars /\ UNCHANGED Native!vars
    BY <2>1 DEF Proxy!vars, Native!vars
  <2>3. Asked' /\ (NativeAtRest => NativeAtRest') /\ (ProxyAtRest => ProxyAtRest')
    BY <2>1 DEF DInv, Asked, NativeAtRest, ProxyAtRest
  <2>4. QED
    BY <2>1, <2>2, <2>3, ProxyStill, NativeStill DEF DInv
<1>2. CASE Next
  BY <1>1, <1>2, QuestionSteps, OtherProgramStep, ProxyStepInv, NativeStepInv DEF Next, Cancelled
<1>3. QED
  BY <1>1, <1>2

-----------------------------------------------------------------------------
(* The theorems. *)

\* A download never leaves the agreement of buffer, file, libraries and counters that
\* DInv describes: with either backend, whatever server, user and other programs do.
THEOREM Invariance == Spec => []DInv
<1>1. QED
  BY InitInv, StepInv, PTL DEF Spec

\* gf_http_get and download_sink: however the answer is cut into reads, the file gets the
\* body, all of it up to some point, and nothing else.
THEOREM FileGetsBody == Spec => []FileIsBody
<1>1. DInv => FileIsBody
  BY DEF DInv, FileIsBody, Proxy!HttpInv
<1>2. QED
  BY <1>1, Invariance, PTL

\* A stop lets one more block through at most, with either backend.
THEOREM StopsSoon == Spec => []StopIsPrompt
<1>1. DInv => StopIsPrompt
  BY DEF DInv, StopIsPrompt, Proxy!HttpInv, Native!NativeInv, Proxy!StopIsPrompt,
     Native!StopIsPrompt
<1>2. QED
  BY <1>1, Invariance, PTL

\* Socket, file, libraries and context are closed when a job is over, however it ended.
THEOREM AllIsClosed == Spec => []NothingLeftOpen
<1>1. ASSUME DInv PROVE NothingLeftOpen
  <2>1. CASE backend = "proxy" /\ Proxy!HttpInv
    BY <2>1 DEF NothingLeftOpen, Proxy!NothingLeftOpen, Proxy!HttpInv, Proxy!Handles
  <2>2. CASE backend = "native" /\ Native!NativeInv
    BY <2>2 DEF NothingLeftOpen, Native!NothingLeftOpen, Native!LibrariesBalanced,
       Native!NativeInv, Native!Opening, Native!Outside, Native!FileOpen, Native!Loop
  <2>3. QED
    BY <1>1, <2>1, <2>2 DEF DInv
<1>2. QED
  BY <1>1, Invariance, PTL

\* AmiSSL is used only while it is open, after any failed start and in any later job.
THEOREM OpenIsUsed == Spec => []UsesOnlyOpen
<1>1. DInv => UsesOnlyOpen
  BY DEF DInv, UsesOnlyOpen, Native!NativeInv
<1>2. QED
  BY <1>1, Invariance, PTL

-----------------------------------------------------------------------------
(* FileDownload is kept. *)

\* What a state of either backend is in FileDownload.
Shape ==
  /\ backend \in {"proxy", "native"}
  /\ ~Over => /\ Outcome = "none" /\ file \in {"absent", "old", "writing"}
              /\ State = IF file = "writing" THEN "part" ELSE file
  /\ Over => /\ Outcome = IF file = "closed" THEN "ok" ELSE "failed"
             /\ file \in {"absent", "old", "closed", "left"}
             /\ State = IF file = "closed" THEN "whole" ELSE file

LEMMA ShapeHolds == DInv => Shape
<1> SUFFICES ASSUME DInv PROVE Shape
  OBVIOUS
<1>1. Asked
  BY DEF DInv
<1>2. CASE backend = "proxy" /\ Proxy!HttpInv /\ NativeAtRest
  <2>1. /\ kind = "download" /\ pc \in Proxy!Steps
        /\ file \in {"absent", "old", "writing", "closed", "left"}
    BY <1>2 DEF NativeAtRest, Proxy!HttpInv, Proxy!TypeOK
  <2>2. Over <=> place = "cancelled" \/ pc = "done"
    BY <2>1 DEF Over, Proxy!Steps
  <2>3. /\ file = "closed" => pc = "done" /\ err = "OK"
        /\ file = "left" => pc = "done"
        /\ pc = "done" /\ err = "OK" => file = "closed"
        /\ file = "writing" <=> pc \notin {"start", "done"}
    BY <1>2 DEF Proxy!HttpInv, Proxy!Ending, Proxy!Handles
  <2>4. place # "job" => pc = "start"
    BY <1>1 DEF Asked
  <2>5. ASSUME file = "closed" PROVE AllOfIt
    <3>1. pc = "done" /\ err = "OK"
      BY <2>3, <2>5
    <3>2. stage = "body" /\ (answer.length = 0 \/ Len(out) >= answer.length)
      BY <1>2, <3>1 DEF Proxy!HttpInv, Proxy!Ending, Proxy!Leaving
    <3>3. /\ answer \in Answers /\ arrived \in 0 .. Proxy!HeadLen(answer) + answer.body
          /\ len \in 0 .. arrived /\ out \in Seq(Nat)
      BY <1>2 DEF Proxy!HttpInv, Proxy!TypeOK, Proxy!Wire
    <3>4. Proxy!HeadLen(answer) + Len(out) <= len
      BY <1>2, <3>2 DEF Proxy!HttpInv, Proxy!InOrder
    <3>5. /\ Proxy!HeadLen(answer) \in Nat /\ answer.body \in Nat /\ answer.full \in Nat
          /\ answer.body <= answer.full /\ answer.length \in {0, answer.full}
      BY <3>3, AnswerFacts DEF Proxy!HeadLen
    <3>6. answer.length = 0 \/ Len(out) = answer.full
      BY <3>2, <3>3, <3>4, <3>5
    <3>7. QED
      BY <1>2, <3>6 DEF AllOfIt, Proxy!Complete
  <2>6. QED
    BY <1>2, <2>1, <2>2, <2>3, <2>4, <2>5 DEF Shape, State, Outcome
<1>3. CASE backend = "native" /\ Native!NativeInv
  <2>1. /\ kind \in {"fetch", "download"} /\ pc \in Native!Steps
        /\ file \in {"absent", "old", "writing", "closed", "left"}
    BY <1>3, Sizes DEF Native!NativeInv, Native!TypeOK
  <2>2. /\ file = "writing" <=> kind = "download" /\ pc \in Native!Loop
        /\ file = "closed" => kind = "download" /\ pc \in {"shut", "done"} /\ err = "OK"
        /\ file = "left" => kind = "download" /\ pc \in {"shut", "done"}
        /\ kind = "download" /\ pc \in {"shut", "done"} /\ err = "OK" => file = "closed"
    BY <1>3 DEF Native!NativeInv, Native!FileOpen
  <2>3. place # "job" => pc = "start"
    BY <1>1 DEF Asked
  <2>4. file = "closed" => AllOfIt
    BY <1>3, <2>2 DEF Native!NativeInv, Native!Counted, AllOfIt
  <2>5. QED
    BY <1>3, <2>1, <2>2, <2>3, <2>4 DEF Shape, State, Outcome, Over, Native!Loop
<1>4. QED
  BY <1>2, <1>3 DEF DInv

\* What a step does to the file.
Keeps  == file' = file /\ Over' = Over
Begins == ~Over /\ ~Over' /\ file' = "writing"
Fails  == ~Over /\ Over' /\ file' = file /\ file # "writing"
Closes == ~Over /\ Over' /\ file = "writing" /\ file' \in {"closed", "absent", "left"}
Renews == Over /\ ~Over' /\ file' \in {"absent", "old"}
Made   == ~Over /\ ~Over' /\ file = "absent" /\ file' = "old"
Gone   == ~Over /\ ~Over' /\ file = "old" /\ file' = "absent"

LEMMA FileStep ==
  ASSUME Shape, Shape', Keeps \/ Begins \/ Fails \/ Closes \/ Renews \/ Made \/ Gone
  PROVE  [Download!Next]_(Download!vars)
<1>1. Over \in BOOLEAN /\ Over' \in BOOLEAN
  BY DEF Over
<1>2. /\ ~Over => /\ Outcome = "none" /\ file \in {"absent", "old", "writing"}
                  /\ State = IF file = "writing" THEN "part" ELSE file
      /\ Over => /\ Outcome = IF file = "closed" THEN "ok" ELSE "failed"
                 /\ file \in {"absent", "old", "closed", "left"}
                 /\ State = IF file = "closed" THEN "whole" ELSE file
  BY DEF Shape
<1>3. /\ ~Over' => /\ Outcome' = "none" /\ file' \in {"absent", "old", "writing"}
                   /\ State' = IF file' = "writing" THEN "part" ELSE file'
      /\ Over' => /\ Outcome' = IF file' = "closed" THEN "ok" ELSE "failed"
                  /\ file' \in {"absent", "old", "closed", "left"}
                  /\ State' = IF file' = "closed" THEN "whole" ELSE file'
  BY DEF Shape
<1>4. CASE Keeps
  BY <1>1, <1>2, <1>3, <1>4 DEF Keeps, Download!vars
<1>5. CASE Begins
  BY <1>2, <1>3, <1>5 DEF Begins, Download!Next, Download!Start
<1>6. CASE Fails \/ Closes
  BY <1>2, <1>3, <1>6 DEF Fails, Closes, Download!Next, Download!Fail, Download!Succeed
<1>7. CASE Renews
  BY <1>2, <1>3, <1>7 DEF Renews, Download!Next, Download!Again
<1>8. CASE Made \/ Gone
  BY <1>2, <1>3, <1>8 DEF Made, Gone, Download!Next, Download!Appear, Download!Vanish
<1>9. QED
  BY <1>4, <1>5, <1>6, <1>7, <1>8

LEMMA ProxyFile ==
  ASSUME DInv, ProxyStep
  PROVE  Keeps \/ Begins \/ Fails \/ Closes
<1>1. /\ backend = "proxy" /\ place = "job" /\ place' = "job" /\ Proxy!HttpInv
      /\ Proxy!HttpInv' /\ pc \in Proxy!Steps /\ pc' \in Proxy!Steps
  <2>1. backend = "proxy" /\ place = "job" /\ place' = "job" /\ Proxy!Next
    BY DEF ProxyStep, InProxy
  <2>2. Proxy!HttpInv
    BY <2>1 DEF DInv
  <2>3. Proxy!HttpInv'
    BY <2>1, <2>2, ProxyNext
  <2>4. QED
    BY <2>1, <2>2, <2>3 DEF Proxy!HttpInv, Proxy!TypeOK
<1>2. (Over <=> pc = "done") /\ (Over' <=> pc' = "done")
  BY <1>1 DEF Over, Proxy!Steps
<1>3. /\ file = "writing" <=> pc \notin {"start", "done"}
      /\ file' = "writing" <=> pc' \notin {"start", "done"}
  BY <1>1 DEF Proxy!HttpInv, Proxy!Handles
<1>4. CASE Proxy!Refuse \/ Proxy!OpenFile
  BY <1>2, <1>3, <1>4 DEF Proxy!Refuse, Proxy!OpenFile, Fails, Begins
<1>5. CASE Proxy!CloseFile
  BY <1>2, <1>3, <1>5 DEF Proxy!CloseFile, Closes
<1>6. CASE /\ file' = file /\ pc \notin {"start", "done"} /\ pc' \notin {"start", "done"}
  BY <1>2, <1>6 DEF Keeps, Over
<1>7. CASE file' = file /\ pc' = pc
  BY <1>2, <1>7 DEF Keeps, Over
<1>8. \/ Proxy!Refuse \/ Proxy!OpenFile \/ Proxy!CloseFile
      \/ file' = file /\ pc' = pc
      \/ file' = file /\ pc \notin {"start", "done"} /\ pc' \notin {"start", "done"}
  <2>1. Proxy!Next
    BY DEF ProxyStep
  <2>2. stage \in {"head", "body"}
    BY <1>1 DEF Proxy!HttpInv, Proxy!TypeOK
  <2>3. QED
    BY <2>1, <2>2 DEF Proxy!Next, Proxy!Client, Proxy!Prepare, Proxy!ConnectAndSend,
       Proxy!Fill, Proxy!WaitReadable, Proxy!Recv, Proxy!HeadUnit, Proxy!ParseHeaders,
       Proxy!BodyBlock, Proxy!BodyEnd, Proxy!Cleanup, Proxy!Arrive, Proxy!HangUp,
       Proxy!UserStop, Proxy!Done, Proxy!Fail, Proxy!vars
<1>9. QED
  BY <1>4, <1>5, <1>6, <1>7, <1>8

LEMMA NativeFile ==
  ASSUME DInv, NativeStep
  PROVE  Keeps \/ Begins \/ Fails \/ Closes \/ Renews
<1>1. /\ backend = "native" /\ place = "job" /\ Native!NativeInv /\ Native!Next
      /\ jobs' = jobs => place' = "job"
  BY DEF NativeStep, InNative, DInv
<1>2. Native!NativeInv'
  BY <1>1, NativeNext
<1>3. /\ file = "writing" <=> kind = "download" /\ pc \in Native!Loop
      /\ kind \in {"fetch", "download"}
  BY <1>1, Sizes DEF Native!NativeInv, Native!FileOpen, Native!TypeOK
<1>4. Over <=> pc \in {"shut", "done"}
  BY <1>1 DEF Over
<1>5. CASE Native!NextJob
  <2>1. pc = "done" /\ pc' = "start" /\ file' \in {"absent", "old"}
    BY <1>5 DEF Native!NextJob, Native!Fresh
  <2>2. place' # "cancelled"
    <3>1. jobs' # jobs
      BY <1>1, <1>5 DEF Native!NextJob, Native!NativeInv, Native!TypeOK
    <3>2. place' \in {"look", "job"}
      BY <3>1 DEF NativeStep, FirstPlace
    <3>3. QED
      BY <3>2
  <2>3. QED
    BY <1>4, <2>1, <2>2 DEF Renews, Over
<1>6. CASE jobs' = jobs
  <2>1. Over' <=> pc' \in {"shut", "done"}
    BY <1>1, <1>6 DEF Over
  <2>2. \/ file' = file /\ pc' = pc
        \/ file' = file /\ pc \notin {"shut", "done"} /\ pc' \notin {"shut", "done"}
        \/ file' = file /\ pc = "shut" /\ pc' = "done"
        \/ file' = file /\ pc \notin {"shut", "done"} /\ file # "writing" /\ pc' \in {"shut", "done"}
        \/ file' = "writing" /\ pc \notin {"shut", "done"} /\ pc' \notin {"shut", "done"}
        \/ file = "writing" /\ pc = "finish" /\ pc' = "shut" /\ file' \in {"closed", "absent", "left"}
    <3>1. CASE Native!NextJob
      BY <1>1, <1>6, <3>1 DEF Native!NextJob, Native!NativeInv, Native!TypeOK
    <3>2. CASE Native!Finished \/ Native!UserStop
      BY <3>2 DEF Native!Finished, Native!UserStop, Native!vars
    <3>3. CASE Native!Backend
      BY <1>3, <3>3 DEF Native!Backend, Native!Enter, Native!CheckClock, Native!OpenMaster,
         Native!OpenSsl, Native!NewContext, Native!SetVerify, Native!PrepareFetch,
         Native!PrepareDownload, Native!Get, Native!Read, Native!CheckAbort,
         Native!JsonSink, Native!DownloadSink, Native!FinishFetch, Native!FinishDownload,
         Native!CloseAll, Native!GiveUp, Native!Stop, Native!Loop
    <3>4. QED
      BY <1>1, <3>1, <3>2, <3>3 DEF Native!Next
  <2>3. Over \in BOOLEAN /\ Over' \in BOOLEAN
    BY DEF Over
  <2>4. QED
    BY <1>4, <2>1, <2>2, <2>3 DEF Keeps, Begins, Fails, Closes
<1>7. QED
  BY <1>1, <1>5, <1>6, SameJob

LEMMA StepKeeps ==
  ASSUME DInv, [Next]_vars
  PROVE  Keeps \/ Begins \/ Fails \/ Closes \/ Renews \/ Made \/ Gone
<1>1. CASE UNCHANGED vars
  BY <1>1 DEF Keeps, Over, vars
<1>2. CASE LookForFile \/ AskOverwrite \/ CheckSpace
  <2>1. /\ file' = file /\ pc' = pc /\ place \in {"look", "ask", "room"} /\ pc = "start"
    BY <1>2 DEF LookForFile, AskOverwrite, CheckSpace, Asking, DInv, Asked
  <2>2. file # "writing"
    BY <2>1 DEF DInv, Proxy!HttpInv, Proxy!Handles, Native!NativeInv, Native!FileOpen,
       Native!Loop
  <2>3. QED
    BY <2>1, <2>2 DEF Keeps, Fails, Over
<1>3. CASE Appear \/ Vanish
  <2>1. /\ (file = "absent" /\ file' = "old") \/ (file = "old" /\ file' = "absent")
        /\ pc \notin {"shut", "done"} /\ pc' = pc /\ place # "cancelled" /\ place' = place
    BY <1>3 DEF Appear, Vanish, OtherProgram, BeforeOpen
  <2>2. QED
    BY <2>1 DEF Made, Gone, Over
<1>4. QED
  BY <1>1, <1>2, <1>3, ProxyFile, NativeFile DEF Next, Cancelled

\* Both backends implement FileDownload: success with all of the file, as far as its
\* length is known, or an error and what there is of it deleted, if the file system
\* will; and an older file is left alone until the transfer begins.
THEOREM ImplementsDownload == Spec => KeepsDownload
<1>1. ASSUME Init PROVE Download!Init
  <2>1. pc = "start" /\ file \in {"absent", "old"}
    BY <1>1 DEF Init, Proxy!Init, Native!Init
  <2>2. ~Over
    BY <1>1, <2>1 DEF Init, Over, FirstPlace
  <2>3. QED
    BY <2>1, <2>2 DEF Download!Init, State, Outcome
<1>2. (DInv => Shape) /\ (DInv' => Shape')
  BY ShapeHolds, PTL
<1>3. ASSUME DInv, DInv', [Next]_vars PROVE [Download!Next]_(Download!vars)
  BY <1>2, <1>3, StepKeeps, FileStep
<1>4. QED
  BY <1>1, <1>3, Invariance, PTL DEF Spec, KeepsDownload, Download!Promise
=============================================================================
