----------------------------- MODULE FileChoice -----------------------------
(***************************************************************************)
(* What a release list is made of (gitfetch.h), and which files of a       *)
(* release get a place in it (assets.c; select_assets in the proxy).       *)
(***************************************************************************)
EXTENDS Integers, FiniteSets, Sequences, SequencesExt

CONSTANTS
  MaxReleases,  \* GF_MAX_RELEASES
  MaxAssets,    \* GF_MAX_ASSETS
  Archives,     \* names that end in one of archive_suffixes
  SourceName    \* gf_source_name for a tag

ASSUME ChoiceAssumption == MaxReleases \in Nat \ {0} /\ MaxAssets \in Nat \ {0}

\* gf_asset_rank: GF_RANK_ARCHIVE or GF_RANK_OTHER.
Rank(name) == IF name \in Archives THEN 2 ELSE 1

\* Places in files whose file may be pushed out by one of rank r.
Lower(files, r) == {i \in 1 .. Len(files) : Rank(files[i].name) < r}

\* Mutant: from the front.
GfAssetOffer_First(files, a) ==
  LET lower == Lower(files, Rank(a.name)) IN
  IF lower = {} THEN files
  ELSE Append(RemoveAt(files, CHOOSE i \in lower : \A j \in lower : i <= j), a)

\* gf_asset_offer for a full release: the last file of a lower rank makes room.
GfAssetOffer(files, a) ==
  LET lower == Lower(files, Rank(a.name)) IN
  IF lower = {} THEN files
  ELSE Append(RemoveAt(files, CHOOSE i \in lower : \A j \in lower : j <= i), a)

\* select_assets of the proxy, one file at a time: what is kept, how many not.
Take(acc, a) == IF Len(acc.kept) < MaxAssets
                THEN [kept |-> Append(acc.kept, a), skipped |-> acc.skipped]
                ELSE [kept |-> GfAssetOffer(acc.kept, a), skipped |-> acc.skipped + 1]
SelectAssets(items) ==
  LET first[n \in 0 .. Len(items)] == IF n = 0 THEN [kept |-> <<>>, skipped |-> 0]
                                      ELSE Take(first[n - 1], items[n])
  IN first[Len(items)]

\* What protocol.md says of the choice: archives push other files out, the
\* order stays; of equals, those the author put first stay.
CountUpTo(items, i, rank) == Cardinality({j \in 1 .. i : Rank(items[j].name) = rank})
OthersThatFit(items) ==
  LET archives == CountUpTo(items, Len(items), 2)
  IN IF archives >= MaxAssets THEN 0 ELSE MaxAssets - archives
Stays(items, i) == IF items[i].name \in Archives
                   THEN CountUpTo(items, i, 2) <= MaxAssets
                   ELSE CountUpTo(items, i, 1) <= OthersThatFit(items)
BestFiles(items) ==
  FlattenSeq([i \in 1 .. Len(items) |-> IF Stays(items, i) THEN <<items[i]>> ELSE <<>>])
=============================================================================
