---------------------------- MODULE ReleaseLists ----------------------------
(***************************************************************************)
(* A fetch with either backend: the answer of GitHub goes through json.c,  *)
(* or through the proxy and parse.c, into the same struct ReleaseList.     *)
(***************************************************************************)
EXTENDS GitHubAnswer

CONSTANTS
  Inputs,      \* answers GitHub may give to the native backend
  Answers,     \* answers it may give to the proxy
  Errors,      \* errors the proxy reports: code, as text, and message
  LongPaths    \* paths that do not fit in GF_MAX_PATH

\* Of an answer the fields that are read.
ASSUME AnswersAssumption == Inputs \cup Answers \subseteq Seq(Release)

\* GitHub sends releases with a tag and a date of creation, with or without a
\* name and published at any time or not at all, and files with a name and an
\* address.
ASSUME InputsAssumption ==
  \A a \in Inputs : \A r \in ToSet(a) :
    /\ r.tag # NoText /\ r.created # NoText
    /\ \A f \in ToSet(r.assets) : f.name # NoText /\ f.url # NoText

VARIABLES
  backend,                                              \* "native" or "proxy"
  answer, tokens, json, ended,                          \* JsonParser
  sent, damaged, lines, parser, result, serverMessage   \* LineParser

Native == INSTANCE JsonParser WITH rest <- tokens, p <- json
Proxy  == INSTANCE LineParser WITH rest <- lines, p <- parser

\* The proxy has a message for every error, and its codes are those of HTTP.
ASSUME ErrorsAssumption ==
  \A e \in Errors : e.code # "0" /\ e.message \notin {NoText, Proxy!Missing}

\* Every release has a tag, and no text is the word for a field that is not there.
TextsOf(r) == {r.tag, r.name, r.created, r.published, r.zip, SourceName[r.tag]}
                \cup UNION {{a.name, a.url} : a \in ToSet(r.assets)}
ASSUME TextsAssumption ==
  \A a \in Answers : \A r \in ToSet(a) : r.tag # NoText /\ Proxy!Missing \notin TextsOf(r)

nativeVars == <<answer, tokens, json, ended>>
proxyVars  == <<sent, damaged, lines, parser, result, serverMessage>>
vars       == <<backend, nativeVars, proxyVars>>

NativeAtRest == answer = <<>> /\ tokens = <<>> /\ json = Native!GfJsonInit /\ ended = FALSE
ProxyAtRest  == /\ sent = [kind |-> "other", of |-> NoText] /\ damaged = FALSE /\ lines = <<>>
                /\ parser = Proxy!GfParserInit /\ result = NoText /\ serverMessage = NoText

Init == \/ backend = "native" /\ Native!Init /\ ProxyAtRest
        \/ backend = "proxy" /\ Proxy!Init /\ NativeAtRest

Next == \/ backend = "native" /\ Native!Next /\ UNCHANGED <<backend, proxyVars>>
        \/ backend = "proxy" /\ Proxy!Next /\ UNCHANGED <<backend, nativeVars>>

Spec == Init /\ [][Next]_vars

-----------------------------------------------------------------------------
\* json.c never writes outside the arrays of the list, though a place is
\* claimed at an opening brace and counted only at the closing one.
WithinArrays == backend = "native" => Native!WithinArrays

\* At every moment its list is the beginning of the list GitHub's answer stands
\* for: no drafts, no fields of nested objects, the right files in the right
\* order; and all of it when the answer came whole.  Two fields are stated as
\* json.c fills them and not as test/json_reference.py 29-30 has them: the date
\* is that of creation, and a name that is null is the word (NativeEntry).
ListIsPrefix ==
  backend = "native" => Native!ListIsPrefix /\ Native!WholeAnswerWholeList

\* A success of the proxy backend is the list json_reference.py expects, with the
\* paths as they fit: but for the two fields above, one answer gives one list,
\* whichever backend is used (gfjson.h: the GUI does not notice who supplied the
\* data).
OkIsWhole == backend = "proxy" => Proxy!OkIsWhole

\* Whatever lines get lost, no file is shown under another release (parse.c
\* 99-107).
FilesBelong == backend = "proxy" => Proxy!FilesBelong

\* What the proxy says of an error is what the user is told, and nothing is
\* told that it did not say (backend_proxy.c 90-94).
ErrorExplained == backend = "proxy" => Proxy!ErrorExplained
=============================================================================
