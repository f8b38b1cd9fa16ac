----------------------------- MODULE LineParser -----------------------------
(***************************************************************************)
(* parse.c: the line parser of the GITFETCH protocol, fed with what        *)
(* build_releases and build_error of the proxy make of GitHub's answer,    *)
(* cut off anywhere.  A line is the sequence of its fields, a path the     *)
(* address it stands for; how lines are gathered from blocks is left out.  *)
(***************************************************************************)
EXTENDS GitHubAnswer

CONSTANTS
  Answers,     \* answers GitHub may give
  Errors,      \* errors the proxy reports: code, as text, and message
  LongPaths    \* paths that do not fit in GF_MAX_PATH

VARIABLES
  sent,        \* what the body was made of
  damaged,     \* one of its lines is longer than GF_MAX_LINE
  rest,        \* lines not fed yet
  p,           \* struct GFParser
  result,      \* of gf_proxy_fetch_releases; NoText before
  serverMessage

vars == <<sent, damaged, rest, p, result, serverMessage>>

Missing == "(no field)"   \* next_field returned NULL
Part    == "(part)"       \* the part of a field before a cut

-----------------------------------------------------------------------------
(* The proxy. *)

ProxyDate(r)  == IF r.published \notin {Null, NoText} THEN r.published ELSE r.created
ProxyTitle(r) == IF r.name \notin {Null, NoText} THEN r.name
                 ELSE IF r.tag # NoText THEN r.tag ELSE "(untitled)"

\* The lines of one release that is the i-th sent.
ReleaseLines(r, i) ==
  LET chosen == SelectAssets(r.assets)
      n      == Len(chosen.kept)
      zip    == r.zip # NoText /\ n < MaxAssets
      lost   == chosen.skipped + IF r.zip # NoText /\ ~zip THEN 1 ELSE 0
  IN <<<<"R", i, r.tag, ProxyDate(r), r.prerelease, ProxyTitle(r)>>>>
       \o [k \in 1 .. n |-> <<"A", i, k - 1, chosen.kept[k].name, chosen.kept[k].size,
                              chosen.kept[k].url>>]
       \o (IF zip THEN <<<<"A", i, n, SourceName[r.tag], "0", r.zip>>>> ELSE <<>>)
       \o (IF lost > 0 THEN <<<<"#MORE", i, lost>>>> ELSE <<>>)

BuildReleases(answer) ==
  LET shown == Published(answer)
      lines == [i \in 1 .. Len(shown) |-> ReleaseLines(shown[i], i - 1)]
  IN <<<<"#GITFETCH">>, <<"#STATUS", "OK">>, <<"#REPO", "owner/repo">>>>
       \o FlattenSeq(lines) \o <<<<"#END">>>>

BuildError(e) ==
  <<<<"#GITFETCH">>, <<"#STATUS", "ERR", e.code, e.message>>, <<"#END">>>>

\* What may answer at the address of the proxy: the proxy, or something else.
Bodies ==
  [kind : {"list"}, of : Answers] \cup [kind : {"error"}, of : Errors]
    \cup {[kind |-> "other", of |-> NoText]}
LinesOf(b) == IF b.kind = "list" THEN BuildReleases(b.of)
              ELSE IF b.kind = "error" THEN BuildError(b.of) ELSE <<<<"<html>">>>>

-----------------------------------------------------------------------------
(* The client. *)

GfParserInit ==
  [sawHeader |-> FALSE, sawEnd |-> FALSE, status |-> "0", message |-> NoText, dropped |-> 0,
   repo |-> NoText, list |-> <<>>]

NextField(line, i) == IF i <= Len(line) THEN line[i] ELSE Missing
Copy(f)     == IF f = Missing THEN NoText ELSE f
CopyPath(f) == IF f \in LongPaths THEN Part ELSE f
Dropped(s)  == [s EXCEPT !.dropped = @ + 1]

HandleRelease(s, line) ==
  LET tag   == NextField(line, 3)
      title == Copy(NextField(line, 6))
  IN IF Len(s.list) >= MaxReleases \/ tag = Missing THEN Dropped(s)
     ELSE [s EXCEPT !.list = Append(@,
             [tag |-> tag, date |-> Copy(NextField(line, 4)),
              prerelease |-> NextField(line, 5) = "true",
              title |-> IF title = NoText THEN tag ELSE title, files |-> <<>>, skipped |-> 0])]

\* Mutant: the index of the release is not looked at.
HandleAsset_AnyRelease(s, line) ==
  LET last == Len(s.list) IN
  IF NextField(line, 4) = Missing \/ NextField(line, 6) = Missing \/ last = 0 THEN Dropped(s)
  ELSE IF Len(s.list[last].files) >= MaxAssets THEN Dropped(s)
  ELSE [s EXCEPT !.list[last].files =
          Append(@, [name |-> NextField(line, 4), size |-> NextField(line, 5),
                     path |-> CopyPath(NextField(line, 6))])]

\* Only for the release read last.
HandleAsset(s, line) ==
  LET last == Len(s.list) IN
  IF \/ Len(line) < 2 \/ NextField(line, 4) = Missing \/ NextField(line, 6) = Missing
     \/ last = 0 \/ line[2] # last - 1
  THEN Dropped(s)
  ELSE IF Len(s.list[last].files) >= MaxAssets THEN Dropped(s)
  ELSE [s EXCEPT !.list[last].files =
          Append(@, [name |-> NextField(line, 4), size |-> NextField(line, 5),
                     path |-> CopyPath(NextField(line, 6))])]

\* Mutant: the number is taken for the message.
HandleStatus_Number(s, line) ==
  IF NextField(line, 2) # "ERR" THEN s
  ELSE [s EXCEPT !.status = NextField(line, 3), !.message = Copy(NextField(line, 3))]

\* A number that is missing, or cut to nothing, counts as an error all the same.
HandleStatus(s, line) ==
  IF NextField(line, 2) # "ERR" THEN s
  ELSE [s EXCEPT !.status = IF NextField(line, 3) \in {Missing, NoText} THEN "-1"
                            ELSE NextField(line, 3),
                 !.message = Copy(NextField(line, 4))]

HandleMore(s, line) ==
  LET last == Len(s.list) IN
  IF Len(line) >= 2 /\ last > 0 /\ line[2] = last - 1
  THEN [s EXCEPT !.list[last].skipped = IF Len(line) < 3 THEN 0 ELSE line[3]] ELSE s

Controls == {"#GITFETCH", "#STATUS", "#REPO", "#END", "#MORE", "#"}

HandleLine(s, line) ==
  LET is(word) == line[1] = word IN
  IF is("#GITFETCH")    THEN [s EXCEPT !.sawHeader = TRUE]
  ELSE IF is("#STATUS") THEN HandleStatus(s, line)
  ELSE IF is("#REPO")   THEN [s EXCEPT !.repo = Copy(NextField(line, 2))]
  ELSE IF is("#END")    THEN [s EXCEPT !.sawEnd = TRUE]
  ELSE IF is("#MORE")   THEN HandleMore(s, line)
  ELSE IF is("#")       THEN s
  ELSE IF is("R")       THEN HandleRelease(s, line)
  ELSE IF is("A")       THEN HandleAsset(s, line)
  ELSE Dropped(s)

\* Mutant: #END is not needed.
FinishCode_NoEnd(s) ==
  IF ~s.sawHeader THEN "PROTO" ELSE IF s.status # "0" THEN "SERVER" ELSE "OK"

FinishCode(s) ==
  IF ~s.sawHeader THEN "PROTO" ELSE IF s.status # "0" THEN "SERVER"
  ELSE IF ~s.sawEnd THEN "PROTO" ELSE "OK"

-----------------------------------------------------------------------------
\* What is left of a line when the body stops in it: whole fields, then a part
\* of one.  Of a number nothing is left (0), of a text nothing or some.
Numeric(line, k) == \/ line[1] \in {"R", "#MORE"} /\ k = 2
                    \/ line[1] = "A" /\ k \in {2, 3}
                    \/ line[1] = "#MORE" /\ k = 3
CutField(line, k) == IF k = 1 THEN {IF line[1] \in Controls THEN "#" ELSE Part}
                     ELSE IF Numeric(line, k) THEN {0} ELSE {NoText, Part}
CutForms(line) ==
  {line} \cup UNION {{Append(SubSeq(line, 1, k - 1), f) : f \in CutField(line, k)} :
                       k \in 1 .. Len(line)}

Init ==
  /\ sent \in Bodies
  /\ \E i \in 0 .. Len(LinesOf(sent)) :
       /\ damaged = (i > 0)
       /\ rest = [k \in 1 .. Len(LinesOf(sent)) |->
                    IF k = i THEN <<"(too long)">> ELSE LinesOf(sent)[k]]
  /\ p = GfParserInit
  /\ result = NoText
  /\ serverMessage = NoText

\* A newline: the line is handled, or dropped if it was too long.
Feed ==
  /\ result = NoText /\ rest # <<>>
  /\ p' = HandleLine(p, Head(rest))
  /\ rest' = Tail(rest)
  /\ UNCHANGED <<sent, damaged, result, serverMessage>>

\* gf_parser_finish and what follows it, for a parser that holds q.
Finished(q) ==
  /\ p' = q
  /\ result' = FinishCode(q)
  /\ serverMessage' = IF FinishCode(q) = "SERVER" /\ q.message # NoText THEN q.message
                      ELSE serverMessage

\* The body ends, at the end of a line or within one.
End ==
  /\ result = NoText
  /\ \/ Finished(p)
     \/ /\ rest # <<>> /\ Head(rest)[1] # "(too long)"
        /\ \E line \in CutForms(Head(rest)) : Finished(HandleLine(p, line))
  /\ UNCHANGED <<sent, damaged, rest>>

\* gf_http_get fails: its error is the result.
Fail ==
  /\ result = NoText
  /\ result' = "NET"
  /\ UNCHANGED <<sent, damaged, rest, p, serverMessage>>

Stopped == result # NoText /\ UNCHANGED vars

Next == Feed \/ End \/ Fail \/ Stopped

Spec == Init /\ [][Next]_vars

-----------------------------------------------------------------------------
\* A file, and a list, with the paths as they fit.
Fitted(f)  == [f EXCEPT !.path = CopyPath(@)]
Listed(rs) == [i \in 1 .. Len(rs) |->
                 [rs[i] EXCEPT !.files = [k \in 1 .. Len(@) |-> Fitted(@[k])]]]

\* Success means the whole list, the same one json.c makes of GitHub's answer,
\* wherever the body was cut off (parse.c 222-225, protocol.md).
OkIsWhole ==
  result = "OK" /\ ~damaged => sent.kind = "list" /\ p.list = Listed(ExpectedList(sent.of))

\* However many lines got lost, a list that is shown has under a release no
\* file of another one (parse.c 99-107).
FilesBelong ==
  result = "OK" /\ sent.kind = "list" =>
    \A i \in 1 .. Len(p.list) : \E r \in ToSet(Published(sent.of)) :
      /\ p.list[i].tag = r.tag
      /\ ToSet(p.list[i].files) \subseteq {Fitted(f) : f \in ToSet(Expected(r).files)}

\* The error the proxy reports reaches the user in its own words, and only then
\* (backend_proxy.c 90-94).
ErrorExplained ==
  /\ serverMessage # NoText => sent.kind = "error" /\ result = "SERVER"
  /\ result = "SERVER" /\ rest = <<>> => serverMessage = sent.of.message
=============================================================================
