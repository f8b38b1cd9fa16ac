---------------------------- MODULE GitHubAnswer ----------------------------
(***************************************************************************)
(* The answer of GitHub to a request for releases, and the list it stands  *)
(* for.  External: the fields are those json.c and build_releases read, in *)
(* the order in which GitHub sends them.                                   *)
(*                                                                         *)
(* A release: tag, name ("" or "null" if it has none), created, published, *)
(* draft and prerelease ("true" or "false"), assets (each name, size, url) *)
(* and zip (zipball_url, "" if there is none).                             *)
(***************************************************************************)
EXTENDS FileChoice

Null   == "null"
NoText == ""

Asset   == [name : STRING, size : STRING, url : STRING]
Release == [tag : STRING, name : STRING, created : STRING, published : STRING, draft : STRING,
            prerelease : STRING, assets : Seq(Asset), zip : STRING]

\* Tokens of JSON; a string or a literal has a text.
Sym(s) == [t |-> s, v |-> NoText]
Str(v) == [t |-> "str", v |-> v]
Lit(v) == [t |-> "lit", v |-> v]
Text(v) == IF v = Null THEN Lit(v) ELSE Str(v)

Commas(seqs) == FlattenSeq([i \in 1 .. Len(seqs) |->
                              IF i = 1 THEN seqs[i] ELSE <<Sym("comma")>> \o seqs[i]])
Field(k, value) == <<Str(k), Sym("colon")>> \o value
Object(fields)  == <<Sym("brace")>> \o Commas(fields) \o <<Sym("end brace")>>
Array(items)    == <<Sym("bracket")>> \o Commas(items) \o <<Sym("end bracket")>>

\* Nested objects have keys of the same names; they are not to be looked at.
Person == Object(<<Field("name", <<Str("someone")>>), Field("size", <<Lit("1")>>)>>)

AssetJson(a) == Object(<<Field("name", <<Str(a.name)>>), Field("uploader", Person),
                         Field("size", <<Lit(a.size)>>),
                         Field("browser_download_url", <<Str(a.url)>>)>>)

ReleaseJson(r) ==
  Object(<<Field("author", Person), Field("tag_name", <<Str(r.tag)>>),
           Field("name", <<Text(r.name)>>), Field("draft", <<Lit(r.draft)>>),
           Field("prerelease", <<Lit(r.prerelease)>>),
           Field("created_at", <<Str(r.created)>>),
           Field("published_at", <<Text(r.published)>>),
           Field("assets", Array([i \in 1 .. Len(r.assets) |-> AssetJson(r.assets[i])]))>>
         \o IF r.zip = NoText THEN <<>> ELSE <<Field("zipball_url", <<Str(r.zip)>>)>>)

Json(answer) == Array([i \in 1 .. Len(answer) |-> ReleaseJson(answer[i])])

-----------------------------------------------------------------------------
(* The list as json_reference.py and the documents have it. *)

\* All but the drafts.
Published(answer) ==
  FlattenSeq([i \in 1 .. Len(answer) |-> IF answer[i].draft = "true" THEN <<>> ELSE <<answer[i]>>])

Source(r) == [name |-> SourceName[r.tag], size |-> "0", path |-> r.zip]
FileOf(a) == [name |-> a.name, size |-> a.size, path |-> a.url]

Expected(r) ==
  LET best == BestFiles(r.assets)
      fits == r.zip # NoText /\ Len(best) < MaxAssets
  IN [tag   |-> r.tag,
      date  |-> IF r.published \in {Null, NoText} THEN r.created ELSE r.published,
      title |-> IF r.name \in {Null, NoText} THEN r.tag ELSE r.name,
      prerelease |-> r.prerelease = "true",
      files |-> [i \in 1 .. Len(best) |-> FileOf(best[i])]
                  \o IF fits THEN <<Source(r)>> ELSE <<>>,
      skipped |-> Len(r.assets) - Len(best) + IF r.zip # NoText /\ ~fits THEN 1 ELSE 0]

ExpectedList(answer) ==
  LET shown == Published(answer)
      n     == IF Len(shown) < MaxReleases THEN Len(shown) ELSE MaxReleases
  IN [i \in 1 .. n |-> Expected(shown[i])]
=============================================================================
