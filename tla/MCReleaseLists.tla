--------------------------- MODULE MCReleaseLists ---------------------------
EXTENDS ReleaseLists, TLC

MCArchives   == {"a.lha", "b.zip"}
MCSourceName == [t \in {"v1", "v2", ""} |-> t \o "-source.zip"]

F(n, u) == [name |-> n, size |-> "7", url |-> u]
Files   == {F("a.lha", "u1"), F("b.zip", "u2"), F("c.txt", "u3"), F("d.exe", "u4")}
FileLists(n) == UNION {[1 .. k -> Files] : k \in 0 .. n}

R(tag, name, created, published, draft, assets, zip) ==
  [tag |-> tag, name |-> name, created |-> created, published |-> published,
   draft |-> draft, prerelease |-> "true", assets |-> assets, zip |-> zip]

\* One release with up to four files, in all orders, with and without a zip.
ManyFiles == {<<R("v1", "One", "d1", "d1", "false", fs, z)>> : fs \in FileLists(4),
                                                               z \in {"", "z1"}}
\* Up to three releases, each a draft or not, each with or without a name.
Entries == {R(t, n, "d1", "d1", dr, <<F("c.txt", "u3")>>, "z1") :
              t \in {"v1", "v2"}, n \in {"", "Name"}, dr \in {"true", "false"}}
ManyReleases == UNION {[1 .. k -> Entries] : k \in 0 .. 3}

\* Two releases, published later than made, or not; without a source zip, so
\* that there is room for a file of another release.
Dated(t, f) == {R(t, n, "d1", d, dr, <<f>>, "") :
                  n \in {Null, "Name"}, d \in {Null, "d2"}, dr \in {"true", "false"}}
TwoReleases == {<<a, b>> : a \in Dated("v1", F("a.lha", "u1")),
                           b \in Dated("v2", F("c.txt", "u3"))}

MCInputs  == ManyFiles \cup ManyReleases \cup TwoReleases
MCAnswers == ManyFiles \cup TwoReleases
MCErrors  == {[code |-> c, message |-> "message " \o c] : c \in {"404", "502"}}
MCLongPaths == {"u4"}
=============================================================================
