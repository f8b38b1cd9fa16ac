----------------------------- MODULE JsonParser -----------------------------
(***************************************************************************)
(* json.c: the streaming parser of GitHub's answer.  It is fed token by    *)
(* token and may be cut off after any of them; what a token is made of,    *)
(* the lengths fields are cut to and Latin-1 are left out.                 *)
(***************************************************************************)
EXTENDS GitHubAnswer

CONSTANTS
  Inputs      \* answers GitHub may give

VARIABLES
  answer,     \* what GitHub was asked for
  rest,       \* tokens not fed yet
  p,          \* struct GFJson
  ended       \* gf_json_finish has been called

vars == <<answer, rest, p, ended>>

NewCur    == [live |-> TRUE, tag |-> NoText, date |-> NoText, title |-> NoText,
              prerelease |-> FALSE, files |-> <<>>, skipped |-> 0]
NoCur     == [NewCur EXCEPT !.live = FALSE]
\* In the slot behind the files so far, or in the spare one.
NewAsset(where) == [where |-> where, name |-> NoText, size |-> "0", path |-> NoText]
NoAsset   == NewAsset("none")

GfJsonInit ==
  [depth |-> 0, readingKey |-> FALSE, collecting |-> FALSE, key |-> NoText, lastKey |-> NoText,
   val |-> NoText, inAssets |-> FALSE, assetsDepth |-> 0, cur |-> NoCur, asset |-> NoAsset,
   isDraft |-> FALSE, zip |-> NoText, dropped |-> 0, list |-> <<>>]

InAsset(s) == s.inAssets /\ s.depth = s.assetsDepth + 1

WantValue(s) ==
  \/ s.depth = 2 /\ s.key \in {"tag_name", "name", "published_at", "created_at",
                               "prerelease", "draft", "zipball_url"}
  \/ InAsset(s) /\ s.key \in {"name", "size", "browser_download_url"}

\* The first of created_at and published_at stays.
StoreReleaseField(s) ==
  LET c == s.cur
      At(key, old) == IF s.key = key THEN s.val ELSE old
      Is(key, old) == IF s.key = key THEN s.val = "true" ELSE old
  IN IF ~c.live THEN s
     ELSE [s EXCEPT !.cur = [c EXCEPT
                      !.tag = At("tag_name", c.tag), !.title = At("name", c.title),
                      !.date = IF c.date = NoText /\ s.key \in {"published_at", "created_at"}
                               THEN s.val ELSE c.date,
                      !.prerelease = Is("prerelease", c.prerelease)],
                    !.isDraft = Is("draft", s.isDraft), !.zip = At("zipball_url", s.zip)]

StoreAssetField(s) ==
  LET a == s.asset
      At(key, old) == IF s.key = key THEN s.val ELSE old
  IN IF a.where = "none" THEN s
     ELSE [s EXCEPT !.asset = [a EXCEPT !.name = At("name", a.name),
                                        !.size = At("size", a.size),
                                        !.path = At("browser_download_url", a.path)]]

ValueDone(s) ==
  LET stored == IF s.depth = 2 THEN StoreReleaseField(s)
                ELSE IF InAsset(s) THEN StoreAssetField(s) ELSE s
  IN [stored EXCEPT !.collecting = FALSE, !.val = NoText, !.key = NoText]
DoneIfCollecting(s) == IF s.collecting THEN ValueDone(s) ELSE s

\* The source zip comes last, if there is room for it.
AddSourceZip(s) ==
  IF s.zip = NoText THEN s
  ELSE IF Len(s.cur.files) >= MaxAssets THEN [s EXCEPT !.cur.skipped = @ + 1]
  ELSE [s EXCEPT !.cur.files = Append(@, [name |-> SourceName[s.cur.tag], size |-> "0",
                                          path |-> s.zip])]

RoomForRelease(s) == Len(s.list) < MaxReleases

\* Mutant: the spare slot is forgotten.
AssetPlace_NoSpare(s) == IF s.cur.live THEN NewAsset("slot") ELSE NoAsset

AssetPlace(s) == IF ~s.cur.live THEN NoAsset
                 ELSE IF Len(s.cur.files) < MaxAssets THEN NewAsset("slot")
                 ELSE NewAsset("spare")

OpenBrace(s) ==
  LET d == [s EXCEPT !.depth = @ + 1] IN
  IF d.depth = 2
  THEN [d EXCEPT !.cur = IF RoomForRelease(s) THEN NewCur ELSE NoCur,
                 !.dropped = IF RoomForRelease(s) THEN @ ELSE @ + 1,
                 !.isDraft = FALSE, !.inAssets = FALSE, !.zip = NoText]
  ELSE IF InAsset(d) THEN [d EXCEPT !.asset = AssetPlace(d)] ELSE d

\* A release that is a draft or has no tag leaves its place to the next one.
EndRelease(s) ==
  LET c == IF s.cur.title = NoText THEN [s EXCEPT !.cur.title = s.cur.tag] ELSE s
      z == AddSourceZip(c)
      r == [f \in DOMAIN z.cur \ {"live"} |-> z.cur[f]]
  IN IF s.cur.live /\ ~s.isDraft /\ s.cur.tag # NoText
     THEN [z EXCEPT !.list = Append(@, r), !.cur = NoCur]
     ELSE [s EXCEPT !.cur = NoCur]

EndAsset(s) ==
  LET a == [name |-> s.asset.name, size |-> s.asset.size, path |-> s.asset.path] IN
  IF s.asset.where = "none" THEN s
  ELSE IF s.asset.name = NoText \/ s.asset.path = NoText THEN [s EXCEPT !.asset = NoAsset]
  ELSE IF s.asset.where = "spare"
  THEN [s EXCEPT !.cur.files = GfAssetOffer(@, a), !.cur.skipped = @ + 1,
                 !.asset = NoAsset]
  ELSE [s EXCEPT !.cur.files = Append(@, a), !.asset = NoAsset]

CloseBrace(s) ==
  LET e == IF s.depth = 2 THEN EndRelease(s) ELSE IF InAsset(s) THEN EndAsset(s) ELSE s
  IN [e EXCEPT !.depth = IF @ > 0 THEN @ - 1 ELSE 0]

OpenBracket(s) ==
  LET d == [s EXCEPT !.depth = @ + 1] IN
  IF d.depth = 3 /\ d.lastKey = "assets"
  THEN [d EXCEPT !.inAssets = TRUE, !.assetsDepth = d.depth] ELSE d

CloseBracket(s) ==
  [s EXCEPT !.inAssets = @ /\ s.depth # s.assetsDepth,
            !.depth = IF @ > 0 THEN @ - 1 ELSE 0]

\* A string is a key, a value or of no use.
StringDone(s, v) == IF s.readingKey THEN [s EXCEPT !.key = v, !.lastKey = v, !.readingKey = FALSE]
                    ELSE IF s.collecting THEN ValueDone([s EXCEPT !.val = v]) ELSE s

\* gf_json_feed for one token.
GfJsonFeed(c) ==
  \/ c.t = "str" /\ p' = StringDone(p, c.v)
  \/ c.t = "lit" /\ p' = IF p.collecting THEN [p EXCEPT !.val = c.v] ELSE p
  \/ c.t = "brace" /\ p' = [OpenBrace(p) EXCEPT !.readingKey = TRUE, !.key = NoText]
  \/ c.t = "end brace" /\ p' = [CloseBrace(DoneIfCollecting(p)) EXCEPT !.readingKey = FALSE]
  \/ c.t = "bracket" /\ p' = OpenBracket(p)
  \/ c.t = "end bracket" /\ p' = CloseBracket(DoneIfCollecting(p))
  \/ c.t = "colon" /\ p' = [p EXCEPT !.collecting = WantValue(p), !.val = NoText]
  \/ c.t = "comma" /\ p' = [DoneIfCollecting(p) EXCEPT !.readingKey = TRUE]

-----------------------------------------------------------------------------
Init ==
  /\ answer \in Inputs
  /\ rest = Json(answer)
  /\ p = GfJsonInit
  /\ ended = FALSE

FeedToken ==
  /\ ~ended /\ rest # <<>>
  /\ GfJsonFeed(Head(rest))
  /\ rest' = Tail(rest)
  /\ UNCHANGED <<answer, ended>>

\* fetch_url stops at the end of the data, wherever that is; gf_json_finish
\* completes a value and reports success.
GfJsonFinish ==
  /\ ~ended
  /\ p' = DoneIfCollecting(p)
  /\ ended' = TRUE
  /\ UNCHANGED <<answer, rest>>

Stopped == ended /\ UNCHANGED vars

Next == FeedToken \/ GfJsonFinish \/ Stopped

Spec == Init /\ [][Next]_vars

-----------------------------------------------------------------------------
\* The arrays of struct ReleaseList and struct Release are never overrun,
\* though a place is claimed at an opening brace and counted at the closing one.
ArraysHold(s) ==
  /\ Len(s.list) <= MaxReleases
  /\ s.cur.live => Len(s.list) < MaxReleases /\ Len(s.cur.files) <= MaxAssets
  /\ \A i \in 1 .. Len(s.list) : Len(s.list[i].files) <= MaxAssets
  /\ s.asset.where = "slot" => s.cur.live /\ Len(s.cur.files) < MaxAssets
  /\ s.asset.where = "spare" => s.cur.live
WithinArrays == ArraysHold(p)

\* A release as json.c shows it.  It is not the one json_reference.py expects in
\* two fields: the date is always that of creation, which comes before that of
\* publication (123-126), and a name that is null is shown as the word (443).
NativeEntry(r) == [Expected(r) EXCEPT !.date = r.created,
                                      !.title = IF r.name = NoText THEN r.tag ELSE r.name]
NativeList(a) ==
  LET shown == Published(a)
      n     == IF Len(shown) < MaxReleases THEN Len(shown) ELSE MaxReleases
  IN [i \in 1 .. n |-> NativeEntry(shown[i])]

\* At every moment the list holds the first releases of the answer and nothing
\* else: no drafts, no fields of nested objects, the right files in the right
\* order, and a release only when it is complete.  In all but those two fields
\* it is the list of json_reference.py.
ListIsPrefix ==
  /\ Len(p.list) <= Len(NativeList(answer))
  /\ p.list = SubSeq(NativeList(answer), 1, Len(p.list))

\* A whole answer gives the whole list.
WholeAnswerWholeList == ended /\ rest = <<>> => Len(p.list) = Len(NativeList(answer))

-----------------------------------------------------------------------------
(* What makes WithinArrays inductive, for a parser s and the braces and    *)
(* brackets that are open, outermost first.                                *)

IsSeq(f) == f \in Seq(ToSet(f))

Shaped(s) ==
  /\ DOMAIN s = DOMAIN GfJsonInit
  /\ DOMAIN s.cur = DOMAIN NewCur /\ IsSeq(s.cur.files)
  /\ DOMAIN s.asset = DOMAIN NoAsset /\ s.asset.where \in {"none", "slot", "spare"}
  /\ IsSeq(s.list) /\ \A i \in 1 .. Len(s.list) : IsSeq(s.list[i].files)
  /\ s.inAssets \in BOOLEAN /\ s.cur.live \in BOOLEAN

\* A release is the object at depth 2, its assets the array at depth 3, a file an
\* object in it.
Placed(s, open) ==
  /\ s.depth \in Nat /\ Len(open) = s.depth
  /\ s.cur.live => s.depth >= 2 /\ open[2] = "brace"
  /\ s.inAssets => s.depth >= 3 /\ open[3] = "bracket" /\ s.assetsDepth = 3
  /\ s.asset.where # "none" => s.inAssets /\ s.depth >= 4 /\ open[4] = "brace"

JsonInv(s, open) == Shaped(s) /\ Placed(s, open) /\ ArraysHold(s)
=============================================================================
