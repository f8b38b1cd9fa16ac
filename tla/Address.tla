------------------------------ MODULE Address -------------------------------
(***************************************************************************)
(* gf_normalize_repo (url.c): what is typed or pasted brought back to      *)
(* owner/repo.  A text is a sequence of signs and of words, the longest    *)
(* runs of letters, digits and hyphens.                                    *)
(***************************************************************************)
EXTENDS Integers, SequencesExt

CONSTANTS
  Lowered,     \* the words with capitals, to the same without
  LongWords    \* words that alone fill GF_MAX_REPO

Signs   == {" ", "/", ":", ".", "@", "_", "?"}
NoRepo  == <<>>                                 \* GF_ERR_URL

\* Only letters have another case.
ASSUME AddressAssumption == DOMAIN Lowered \cap Signs = {}

Folded(s) == [i \in DOMAIN s |-> IF s[i] \in DOMAIN Lowered THEN Lowered[s[i]] ELSE s[i]]

IsSpace(t)   == t = " "
IsSlash(t)   == t = "/"
RepoToken(t) == t \notin Signs \/ t \in {".", "_"}

\* How many tokens at the start of s are In.
Span(s, In(_)) ==
  LET stop == SelectInSeq(s, LAMBDA t : ~In(t)) IN IF stop = 0 THEN Len(s) ELSE stop - 1

Rest(s, n) == SubSeq(s, n + 1, Len(s))

SkipPrefix(s, prefix) == IF IsPrefix(prefix, Folded(s)) THEN Rest(s, Len(prefix)) ELSE s

Https == <<"https", ":", "/", "/">>
Http  == <<"http", ":", "/", "/">>
Www   == <<"www", ".">>
Site  == <<"github", ".", "com", "/">>
Clone == <<"github", ".", "com", ":">>
Git   == <<"git", "@">>

\* What is left of a text when everything before the owner is skipped.
FromOwner(text) ==
  LET s == Rest(text, Span(text, IsSpace))
      t == SkipPrefix(SkipPrefix(SkipPrefix(s, Https), Http), Www)
      u == SkipPrefix(SkipPrefix(t, Site), Clone)
      v == IF IsPrefix(Git, Folded(u)) THEN SkipPrefix(Rest(u, Len(Git)), Clone) ELSE u
  IN Rest(v, Span(v, IsSlash))

\* .git goes if there is something in front of it.
WithoutGit(repo) ==
  IF Len(repo) > 2 /\ IsSuffix(<<".", "git">>, Folded(repo))
  THEN SubSeq(repo, 1, Len(repo) - 2) ELSE repo

\* Mutant: a dot in the owner is allowed, as it is in the repository.
Normalize_DotInOwner(text) ==
  LET s     == FromOwner(text)
      n     == Span(s, RepoToken)
      after == Rest(s, n + 1)
      repo  == WithoutGit(SubSeq(after, 1, Span(after, RepoToken)))
  IN IF n > 0 /\ Len(s) > n /\ s[n + 1] = "/" /\ repo # <<>>
     THEN SubSeq(s, 1, n + 1) \o repo ELSE NoRepo

\* The owner is one word and a slash comes next: after a host name comes a dot.
Normalize(text) ==
  LET s     == FromOwner(text)
      after == Rest(s, 2)
      repo  == WithoutGit(SubSeq(after, 1, Span(after, RepoToken)))
      whole == SubSeq(s, 1, 2) \o repo
  IN IF /\ Len(s) > 1 /\ s[1] \notin Signs /\ s[2] = "/"
        /\ repo # <<>>
        /\ \A i \in DOMAIN whole : whole[i] \notin LongWords
     THEN whole ELSE NoRepo

-----------------------------------------------------------------------------
(* How the address of a repository is written (test_parse.c, the guide).   *)

\* An owner and a repository; GitHub gives out no names that end in .git.
IsName(r) ==
  /\ Len(r) > 2 /\ r[1] \notin Signs /\ r[2] = "/"
  /\ \A i \in 3 .. Len(r) : RepoToken(r[i])
  /\ WithoutGit(Rest(r, 2)) = Rest(r, 2)
TooLong(r)      == \E i \in DOMAIN r : r[i] \in LongWords
IsRepository(r) == IsName(r) /\ ~TooLong(r)

\* Spaces, then any of the beginnings, in this order.
Maybe(part) == {<<>>, part}
IsLead(x) ==
  \E a \in Maybe(Https), b \in Maybe(Http), c \in Maybe(Www), d \in Maybe(Site),
     e \in Maybe(Clone), f \in Maybe(Git) \cup {Git \o Clone} : x = a \o b \o c \o d \o e \o f
SpacesAre(text, k) == \A i \in 1 .. k : IsSpace(text[i])
IsFront(f) == \E k \in 0 .. Len(f) : SpacesAre(f, k) /\ IsLead(Folded(Rest(f, k)))

\* Perhaps .git, then nothing or what cannot be part of a name.
IsTail(t) ==
  \E k \in {0, 2} : /\ k = 2 => Len(t) > 1 /\ Folded(SubSeq(t, 1, 2)) = <<".", "git">>
                    /\ Len(t) > k => ~RepoToken(t[k + 1])

\* A page of, or a clone address of, the repository r.
IsPageOf(text, r) ==
  \E n \in 0 .. Len(text) - Len(r) :
    /\ IsFront(SubSeq(text, 1, n))
    /\ SubSeq(text, n + 1, n + Len(r)) = r
    /\ IsTail(Rest(text, n + Len(r)))

\* The host is another one, or it is no host but a volume or a scheme.
IsElsewhere(text) ==
  \E n \in 0 .. Len(text) - 2, k \in 0 .. Len(text) - 2 :
    /\ SpacesAre(text, k) /\ Folded(SubSeq(text, k + 1, n)) \in {<<>>, Https, Http} /\ k <= n
    /\ text[n + 1] \notin Signs /\ text[n + 2] \in {".", ":"}
    /\ Folded(text)[n + 1] \notin {"https", "http", "www", "github"}

\* Nowhere a word, a slash and the beginning of a name.
HasNoName(text) ==
  \A n \in 1 .. Len(text) - 2 :
    ~(text[n] \notin Signs /\ text[n + 1] = "/" /\ RepoToken(text[n + 2]))
=============================================================================
