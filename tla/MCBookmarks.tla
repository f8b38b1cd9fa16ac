----------------------------- MODULE MCBookmarks ----------------------------
(* Small instance of Bookmarks.  Every way a page or a clone address of a   *)
(* repository is written, in every combination, and what is none.           *)
EXTENDS Bookmarks

Repository(owner, repo) == <<owner, "/">> \o repo

MCLowered == ("Some" :> "some") @@ ("One" :> "one") @@ ("HTTPS" :> "https")
               @@ ("GitHub" :> "github") @@ ("GIT" :> "git")

MCRepos == {Repository("Some", <<"One">>), Repository("some", <<"one">>),
            Repository("git", <<"www", ".", "x", "_", "y">>)}

Schemes  == {<<>>, <<" ", " ">>, <<"HTTPS", ":", "/", "/">>, <<"http", ":", "/", "/">>}
Hosts    == {<<>>, <<"github", ".", "com", "/">>, <<"www", ".", "GitHub", ".", "com", "/">>}
Clones   == {<<"git", "@", "github", ".", "com", ":">>, <<"git", "@">>}
Tails    == {<<>>, <<".", "GIT">>, <<"/">>, <<"/", "releases", "/", "tag", "/", "v1">>,
             <<"?", "tab">>, <<" ">>}

Fronts   == {a \o b : a \in Schemes, b \in Hosts} \cup Clones
Page(text, means) == [text |-> text, means |-> means]

NoPages  == {<<>>, <<" ">>, <<"one">>, <<"/", "owner", "/">>, <<"github", ".", "com", "/">>,
             <<"https", ":", "/", "/", "gitlab", ".", "com", "/", "owner", "/", "repo">>,
             <<"aminet", ".", "net", "/", "util", "/", "libs">>,
             <<"file", ":", "/", "/", "a", "/", "b">>, <<"_", "/", "b">>, <<"long", "/", "b">>}

MCPages  == {Page(f \o r \o t, r) : f \in Fronts, r \in MCRepos, t \in Tails}
              \cup {Page(text, NoRepo) : text \in NoPages}

MCHome  == Repository("git", <<"www", ".", "x", "_", "y">>)
MCSaved == {<<MCHome>>, <<Repository("Some", <<"One">>), MCHome>>}
MCTorn  == <<"git", "/">>
=============================================================================
