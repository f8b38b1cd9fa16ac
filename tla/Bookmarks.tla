----------------------------- MODULE Bookmarks ------------------------------
(***************************************************************************)
(* The remembered repositories (bookmarks.c, and its two buttons in        *)
(* gui.c): a list in memory, a copy in ENV: for the session and one in     *)
(* ENVARC: that survives a reboot.  Writing may fail, with or without the  *)
(* program noticing, and the machine may be switched off in between.  What *)
(* goes into the list is taken out of the text in the field (url.c).       *)
(***************************************************************************)
EXTENDS Address

CONSTANTS
  Pages,          \* what the user may paste: [text, means], of NoRepo nothing is meant
  Home,           \* GF_HOME_REPO
  MaxBookmarks,   \* GF_MAX_BOOKMARKS
  Saved,          \* lists an earlier session may have left in ENVARC:
  Torn            \* what is left of a name when a file ends in the middle of it

IsList(l) == Len(l) \in 0 .. MaxBookmarks /\ l = [i \in 1 .. Len(l) |-> l[i]]

\* No name is in the list twice, however it is spelled.
Once(l) == \A i, j \in 1 .. Len(l) : Folded(l[i]) = Folded(l[j]) => i = j

ASSUME BookmarksAssumption ==
  /\ MaxBookmarks \in Nat \ {0}
  /\ \A l \in Saved : IsList(l) /\ Once(l)

\* What is meant by a text, and what an earlier session has saved.
ASSUME PagesAssumption ==
  /\ \A page \in Pages :
       /\ page.text \in Seq(STRING) /\ page.means \in Seq(STRING)
       /\ \/ IsRepository(page.means) /\ IsPageOf(page.text, page.means)
          \/ /\ page.means = NoRepo
             /\ \/ HasNoName(page.text) \/ IsElsewhere(page.text)
                \/ \E i, j \in 1 .. Len(page.text) :
                     LET r == SubSeq(page.text, i, j)
                     IN IsName(r) /\ TooLong(r) /\ IsPageOf(page.text, r)
  /\ \A r \in {Home} \cup UNION {ToSet(l) : l \in Saved} : r \in Seq(STRING) /\ IsRepository(r)

VARIABLES
  marks,     \* struct Bookmarks
  env, arc,  \* the files: what is in them, or Absent
  pc,        \* "off", "idle", or the file that is to be written next
  adding,    \* the list is saved for an addition
  okEnv,     \* save_to(BM_PATH_ENV)
  warned,    \* MSG_ENVARC_FAILED was added to the message of the last addition
  meant,     \* history: the repository the user pasted, while it is being saved
  allowed,   \* history: lists a restart may bring back
  worst      \* history: the worst that happened to a write

files == <<env, arc>>
vars  == <<marks, files, pc, adding, okEnv, warned, meant, allowed, worst>>

\* A write that was refused, was cut off, or was so without a word.
Fine == 0
Refused == 1
Cut == 2
Silent == 3
Worse(a, b) == IF a < b THEN b ELSE a

File(l) == [there |-> TRUE, list |-> l]
Absent  == [there |-> FALSE, list |-> <<>>]

TypeOK ==
  /\ IsList(marks)
  /\ \A file \in {env, arc} : IsList(file.list) /\ (file = Absent \/ file = File(file.list))
  /\ pc \in {"off", "idle", "env", "arc"}
  /\ adding \in BOOLEAN /\ okEnv \in BOOLEAN /\ warned \in BOOLEAN
  /\ meant \in {page.means : page \in Pages} \cup {NoRepo}
  /\ \A l \in allowed : IsList(l)
  /\ worst \in 0 .. Silent

-----------------------------------------------------------------------------
\* Mutant: names are compared as they are written.
GfBookmarksFind_Exact(r) == \E i \in 1 .. Len(marks) : marks[i] = r

GfBookmarksFind(r) == \E i \in 1 .. Len(marks) : Folded(marks[i]) = Folded(r)

\* The newest comes first; of a full list the last one goes.
GfBookmarksAdd(r) ==
  <<r>> \o (IF Len(marks) < MaxBookmarks THEN marks ELSE Front(marks))

\* ENV: first, if it is there at all; an empty list becomes the home repository.
Loaded == IF env.there THEN env.list ELSE arc.list
OrHome(l) == IF l = <<>> THEN <<Home>> ELSE l
GfBookmarksLoad == OrHome(Loaded)

\* What a write that breaks off leaves of a list: the names up to there, and the
\* last of them may be torn.
CutOff(l) == {SubSeq(l, 1, k) : k \in 0 .. Len(l)}
               \cup {Append(SubSeq(l, 1, k - 1), Torn) : k \in 1 .. Len(l)}

\* save_to leaves the file as it was (Open failed), or holding the list, or as
\* much of it as there was room for; FPuts may have noticed or, as the result
\* of Close is not looked at, not.
SaveTo(old, new, ok, fault) ==
  \/ new = File(marks) /\ ok = TRUE /\ fault = Fine
  \/ new = old /\ ok = FALSE /\ fault = Refused
  \/ /\ new \in {File(l) : l \in CutOff(marks)}
     /\ \/ ok = FALSE /\ fault = Cut
        \/ ok = TRUE /\ fault = Silent
Outcomes(old) == {old, File(marks)} \cup {File(l) : l \in CutOff(marks)}

-----------------------------------------------------------------------------
Start ==
  /\ pc = "off"
  /\ marks' = GfBookmarksLoad
  /\ pc' = "idle" /\ warned' = FALSE
  /\ UNCHANGED <<files, adding, okEnv, meant, allowed, worst>>

\* The list in memory is changed; saving it begins.
Change(list, add, what) ==
  /\ pc = "idle"
  /\ marks' = list /\ meant' = what
  /\ pc' = "env" /\ adding' = add /\ warned' = FALSE
  /\ allowed' = allowed \cup {list}
  /\ UNCHANGED <<files, okEnv, worst>>

\* current_repo of every page, with what was meant; a text without a repository in it
\* is refused.
CurrentRepos ==
  {c \in {[repo |-> Normalize(page.text), means |-> page.means] : page \in Pages} :
     c.repo # NoRepo}

ActionBookmarkAdd ==
  \E c \in CurrentRepos :
    ~GfBookmarksFind(c.repo) /\ Change(GfBookmarksAdd(c.repo), TRUE, c.means)

ActionBookmarkRemove ==
  \E i \in 1 .. Len(marks) : Change(RemoveAt(marks, i), FALSE, NoRepo)

SaveEnv ==
  /\ pc = "env"
  /\ \E new \in Outcomes(env), ok \in BOOLEAN, fault \in Fine .. Silent :
       /\ SaveTo(env, new, ok, fault)
       /\ env' = new /\ okEnv' = ok /\ worst' = Worse(worst, fault)
  /\ pc' = "arc"
  /\ UNCHANGED <<marks, arc, adding, warned, meant, allowed>>

\* Mutant: what is in ENV: is good enough.
SaveArc_NotIfEnv ==
  /\ pc = "arc"
  /\ \E new \in Outcomes(arc), ok \in BOOLEAN, fault \in Fine .. Silent :
       /\ IF okEnv THEN new = arc /\ ok = TRUE /\ fault = Fine ELSE SaveTo(arc, new, ok, fault)
       /\ arc' = new /\ worst' = Worse(worst, fault)
       /\ warned' = (adding /\ ~ok)
  /\ pc' = "idle"
  /\ allowed' = {marks} /\ meant' = NoRepo /\ okEnv' = FALSE
  /\ UNCHANGED <<marks, env, adding>>

\* ENVARC: after ENV:; the user hears of it only when neither could be
\* written, and never after a removal.
SaveArc ==
  /\ pc = "arc"
  /\ \E new \in Outcomes(arc), ok \in BOOLEAN, fault \in Fine .. Silent :
       /\ SaveTo(arc, new, ok, fault)
       /\ arc' = new /\ worst' = Worse(worst, fault)
       /\ warned' = (adding /\ ~ok /\ ~okEnv)
  /\ pc' = "idle"
  /\ allowed' = {marks} /\ meant' = NoRepo /\ okEnv' = FALSE
  /\ UNCHANGED <<marks, env, adding>>

\* What the program had in memory.
Gone ==
  /\ pc' = "off" /\ marks' = <<>> /\ meant' = NoRepo
  /\ adding' = FALSE /\ okEnv' = FALSE /\ warned' = FALSE

Quit == pc = "idle" /\ Gone /\ UNCHANGED <<files, allowed, worst>>

\* The machine is switched off at any moment; starting up copies ENVARC: to ENV:.
Reboot == Gone /\ env' = arc /\ UNCHANGED <<arc, allowed, worst>>

\* A file that is written when that happens is empty or cut off.
RebootInSave ==
  /\ pc = "arc"
  /\ arc' \in {File(l) : l \in CutOff(marks)}
  /\ Gone /\ env' = arc' /\ worst' = Silent
  /\ UNCHANGED allowed

Init ==
  /\ marks = <<>> /\ meant = NoRepo /\ pc = "off" /\ adding = FALSE /\ okEnv = FALSE /\ warned = FALSE
  /\ arc \in {Absent} \cup {File(l) : l \in Saved} /\ env = arc
  /\ allowed = {arc.list} /\ worst = Fine

Next == \/ Start \/ ActionBookmarkAdd \/ ActionBookmarkRemove \/ SaveEnv \/ SaveArc
        \/ Quit \/ Reboot \/ RebootInSave

Spec == Init /\ [][Next]_vars

-----------------------------------------------------------------------------
\* No repository is in the list twice, however it is spelled and whatever was
\* lost or read back (gf_bookmarks_find); a name that was torn may be another.
NoDuplicates == worst <= Refused => Once(marks)

\* A name that is not torn is still read as itself.
Readable(l) == \A i \in 1 .. Len(l) : l[i] # Torn => Normalize(l[i]) = l[i]

\* gf_normalize_repo with the list: what is saved is the repository of the page or
\* clone address that was pasted, never one of another service; and picked from the
\* list, it goes through gf_normalize_repo again and is still the same one.
SavesWhatWasPasted ==
  /\ pc = "env" /\ adding => marks[1] = meant
  /\ Readable(marks)

\* As long as writes succeed, a restart of the program or the machine at any
\* moment brings back the last list that was saved, or the one that was being
\* saved: no name is lost, none comes back that was removed.  Nothing is said
\* of a list that was emptied, which gf_bookmarks_load takes for none.
KeptOverRestart ==
  [][pc = "off" /\ pc' = "idle" /\ worst = Fine /\ <<>> \notin allowed
       => marks' \in allowed]_vars

-----------------------------------------------------------------------------
(* What makes these inductive. *)

\* The files, too, hold no name twice: they are written from the list and read
\* back into it.
OnceInFiles == worst <= Refused => Once(env.list) /\ Once(arc.list)

\* Between the two writes, ENV: already has what the list in memory is.
Ahead == pc = "arc" /\ worst = Fine => env = File(marks)

\* Whatever file a restart reads, it is an allowed one, as is the list on its way.
Restores ==
  worst = Fine => /\ env.list \in allowed /\ arc.list \in allowed
                  /\ pc \in {"env", "arc"} => marks \in allowed

\* What can be read back is no worse than the list.
ReadableFiles == Readable(env.list) /\ Readable(arc.list)

\* The inductive invariants.
BInv == TypeOK /\ NoDuplicates /\ OnceInFiles /\ Ahead /\ Restores
PasteInv == SavesWhatWasPasted /\ ReadableFiles
=============================================================================
