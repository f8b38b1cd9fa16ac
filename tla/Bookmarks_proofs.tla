-------------------------- MODULE Bookmarks_proofs --------------------------
(***************************************************************************)
(* Proofs about Bookmarks: for lists of any length and texts of any kind,  *)
(* that no name is remembered twice and what is kept over a restart; and   *)
(* that every address of a repository is read as that repository.          *)
(***************************************************************************)
EXTENDS Bookmarks, SequenceTheorems, WellFoundedInduction, TLAPS

USE DEF files

-----------------------------------------------------------------------------
(* Lists. *)

LEMMA Bounds == MaxBookmarks \in Nat /\ MaxBookmarks > 0
BY BookmarksAssumption

LEMMA ListLen ==
  ASSUME NEW l, IsList(l)
  PROVE  Len(l) \in 0 .. MaxBookmarks /\ Len(l) \in Nat /\ Len(l) <= MaxBookmarks
BY Bounds DEF IsList

LEMMA ListIsSeq ==
  ASSUME NEW l, IsList(l), NEW S, \A i \in 1 .. Len(l) : l[i] \in S
  PROVE  l \in Seq(S)
<1>1. Len(l) \in Nat /\ l = [i \in 1 .. Len(l) |-> l[i]]
  BY ListLen DEF IsList
<1>2. l \in [1 .. Len(l) -> S]
  BY <1>1
<1>3. QED
  BY <1>1, <1>2, SeqDef

LEMMA SeqIsList ==
  ASSUME NEW S, NEW l \in Seq(S), Len(l) <= MaxBookmarks
  PROVE  IsList(l)
<1>1. Len(l) \in Nat /\ DOMAIN l = 1 .. Len(l)
  BY LenProperties
<1>2. l = [i \in 1 .. Len(l) |-> l[i]]
  BY <1>1
<1>3. QED
  BY <1>1, <1>2, Bounds DEF IsList

\* The first names of a list are a list.
LEMMA Cropped ==
  ASSUME NEW l, IsList(l), NEW k \in 0 .. Len(l)
  PROVE  /\ IsList(SubSeq(l, 1, k)) /\ Len(SubSeq(l, 1, k)) = k
         /\ \A i \in 1 .. k : SubSeq(l, 1, k)[i] = l[i]
<1> DEFINE S == {l[i] : i \in 1 .. Len(l)}
<1>1. Len(l) \in 0 .. MaxBookmarks /\ k \in Int /\ \A i \in 1 .. k : l[i] \in S
  BY ListLen, Bounds
<1>2. /\ SubSeq(l, 1, k) \in Seq(S) /\ Len(SubSeq(l, 1, k)) = (IF 1 <= k THEN k - 1 + 1 ELSE 0)
      /\ \A i \in 1 .. k - 1 + 1 : SubSeq(l, 1, k)[i] = l[1 + i - 1]
  <2> HIDE DEF S
  <2>1. 1 \in Int /\ k \in Int
    BY <1>1
  <2>2. QED
    BY <1>1, <2>1, SubSeqProperties
<1>3. Len(SubSeq(l, 1, k)) = k /\ k <= MaxBookmarks
  BY <1>1, <1>2, Bounds
<1>4. \A i \in 1 .. k : SubSeq(l, 1, k)[i] = l[i]
  BY <1>1, <1>2
<1>5. IsList(SubSeq(l, 1, k))
  <2> HIDE DEF S
  <2>1. QED
    BY <1>2, <1>3, SeqIsList
<1>6. QED
  BY <1>3, <1>4, <1>5

\* So is what is left of it when its last name is torn.
LEMMA CutIsList ==
  ASSUME NEW l, IsList(l), NEW c \in CutOff(l)
  PROVE  IsList(c)
<1>1. CASE \E k \in 0 .. Len(l) : c = SubSeq(l, 1, k)
  BY <1>1, Cropped
<1>2. CASE \E k \in 1 .. Len(l) : c = Append(SubSeq(l, 1, k - 1), Torn)
  <2>1. PICK k \in 1 .. Len(l) : c = Append(SubSeq(l, 1, k - 1), Torn)
    BY <1>2
  <2> DEFINE p == SubSeq(l, 1, k - 1)
             S == {p[i] : i \in 1 .. Len(p)} \cup {Torn}
  <2>2. Len(l) \in 0 .. MaxBookmarks /\ k - 1 \in 0 .. Len(l) /\ k <= MaxBookmarks
    BY ListLen, Bounds
  <2>3. IsList(p) /\ Len(p) = k - 1
    BY <2>2, Cropped
  <2> HIDE DEF p
  <2>4. p \in Seq(S) /\ Torn \in S
    <3>1. \A i \in 1 .. Len(p) : p[i] \in S
      OBVIOUS
    <3> HIDE DEF S
    <3>2. p \in Seq(S)
      BY <2>3, <3>1, ListIsSeq
    <3>3. QED
      BY <3>2 DEF S
  <2> HIDE DEF S
  <2>5. Append(p, Torn) \in Seq(S) /\ Len(Append(p, Torn)) = Len(p) + 1
    BY <2>4, AppendProperties
  <2>6. IsList(Append(p, Torn))
    <3>1. Len(Append(p, Torn)) <= MaxBookmarks
      BY <2>2, <2>3, <2>5, Bounds
    <3>2. QED
      BY <2>5, <3>1, SeqIsList
  <2>7. QED
    BY <2>1, <2>6 DEF p
<1>3. QED
  BY <1>1, <1>2 DEF CutOff

\* Removing the name at i: those behind it move up.
LEMMA Removed ==
  ASSUME NEW l, IsList(l), NEW i \in 1 .. Len(l)
  PROVE  /\ IsList(RemoveAt(l, i)) /\ Len(RemoveAt(l, i)) = Len(l) - 1
         /\ \A j \in 1 .. Len(l) - 1 : RemoveAt(l, i)[j] = l[IF j < i THEN j ELSE j + 1]
<1> DEFINE S == {l[j] : j \in 1 .. Len(l)}
           a == SubSeq(l, 1, i - 1)
           b == SubSeq(l, i + 1, Len(l))
<1>1. Len(l) \in 0 .. MaxBookmarks /\ i - 1 \in 0 .. Len(l) /\ i \in Int /\ Len(l) \in Int
  BY ListLen, Bounds
<1>2. \A j \in 1 .. Len(l) : l[j] \in S
  OBVIOUS
<1> HIDE DEF S
<1>3. a \in Seq(S) /\ Len(a) = i - 1 /\ \A j \in 1 .. i - 1 : a[j] = l[j]
  <2>1. /\ a \in Seq(S) /\ Len(a) = (IF 1 <= i - 1 THEN i - 1 - 1 + 1 ELSE 0)
        /\ \A j \in 1 .. i - 1 - 1 + 1 : a[j] = l[1 + j - 1]
    <3>1. 1 \in Int /\ i - 1 \in Int /\ \A j \in 1 .. i - 1 : l[j] \in S
      BY <1>1, <1>2
    <3>2. QED
      BY <3>1, SubSeqProperties
  <2>2. QED
    BY <1>1, <2>1
<1>4. b \in Seq(S) /\ Len(b) = Len(l) - i /\ \A j \in 1 .. Len(l) - i : b[j] = l[i + j]
  <2>1. /\ b \in Seq(S) /\ Len(b) = (IF i + 1 <= Len(l) THEN Len(l) - (i + 1) + 1 ELSE 0)
        /\ \A j \in 1 .. Len(l) - (i + 1) + 1 : b[j] = l[i + 1 + j - 1]
    <3>1. i + 1 \in Int /\ Len(l) \in Int /\ \A j \in i + 1 .. Len(l) : l[j] \in S
      BY <1>1, <1>2
    <3>2. QED
      BY <3>1, SubSeqProperties
  <2>2. QED
    BY <1>1, <2>1
<1>5. RemoveAt(l, i) = a \o b
  BY DEF RemoveAt
<1> HIDE DEF a, b
<1>6. /\ a \o b \in Seq(S) /\ Len(a \o b) = Len(a) + Len(b)
      /\ \A j \in 1 .. Len(a) + Len(b) :
           (a \o b)[j] = IF j <= Len(a) THEN a[j] ELSE b[j - Len(a)]
  BY <1>3, <1>4, ConcatProperties
<1>7. Len(a \o b) = Len(l) - 1 /\ Len(a \o b) <= MaxBookmarks
  BY <1>1, <1>3, <1>4, <1>6, Bounds
<1>8. ASSUME NEW j \in 1 .. Len(l) - 1
      PROVE  (a \o b)[j] = l[IF j < i THEN j ELSE j + 1]
  <2>1. CASE j < i
    BY <1>1, <1>3, <1>4, <1>6, <2>1
  <2>2. CASE j >= i
    <3>1. (a \o b)[j] = b[j - (i - 1)] /\ j - (i - 1) \in 1 .. Len(l) - i
      <4>1. ~(j <= Len(a)) /\ j \in 1 .. Len(a) + Len(b)
        BY <1>1, <1>3, <1>4, <2>2
      <4>2. QED
        BY <1>1, <1>3, <1>6, <2>2, <4>1
    <3>2. i + (j - (i - 1)) = j + 1
      BY <1>1
    <3>3. QED
      BY <1>1, <1>4, <2>2, <3>1, <3>2
  <2>3. j < i \/ j >= i
    BY <1>1
  <2>4. QED
    BY <2>1, <2>2, <2>3
<1>9. IsList(a \o b)
  BY <1>6, <1>7, SeqIsList
<1>10. QED
  BY <1>5, <1>7, <1>8, <1>9

LEMMA RemovedOnce ==
  ASSUME NEW l, IsList(l), NEW i \in 1 .. Len(l), Once(l)
  PROVE  Once(RemoveAt(l, i))
<1> DEFINE m == RemoveAt(l, i)
           at(j) == IF j < i THEN j ELSE j + 1
<1>1. Len(l) \in Nat
  BY ListLen
<1>2. Len(m) = Len(l) - 1 /\ \A j \in 1 .. Len(l) - 1 : m[j] = l[at(j)]
  BY Removed
<1>3. \A j \in 1 .. Len(l) - 1 : at(j) \in 1 .. Len(l)
  BY <1>1
<1>4. \A j, k \in 1 .. Len(l) - 1 : at(j) = at(k) => j = k
  BY <1>1
<1> HIDE DEF m, at
<1>5. Once(m)
  BY <1>2, <1>3, <1>4 DEF Once
<1>6. QED
  BY <1>5 DEF m

\* Adding: the new name, and behind it what fits of the old ones.
LEMMA Added ==
  ASSUME NEW l, IsList(l), NEW r,
         NEW rest, rest = IF Len(l) < MaxBookmarks THEN l ELSE Front(l)
  PROVE  /\ IsList(<<r>> \o rest) /\ Len(<<r>> \o rest) \in 1 .. Len(l) + 1
         /\ (<<r>> \o rest)[1] = r
         /\ \A j \in 2 .. Len(<<r>> \o rest) : (<<r>> \o rest)[j] = l[j - 1]
<1>1. Len(l) \in 0 .. MaxBookmarks
  BY ListLen
<1>2. /\ IsList(rest) /\ Len(rest) < MaxBookmarks /\ Len(rest) <= Len(l)
      /\ \A j \in 1 .. Len(rest) : rest[j] = l[j]
  <2>1. CASE Len(l) < MaxBookmarks
    BY <1>1, <2>1
  <2>2. CASE ~(Len(l) < MaxBookmarks)
    <3>1. rest = SubSeq(l, 1, Len(l) - 1) /\ Len(l) - 1 \in 0 .. Len(l)
      BY <1>1, <2>2, Bounds DEF Front
    <3>2. QED
      <4>1. IsList(rest) /\ Len(rest) = Len(l) - 1 /\ \A j \in 1 .. Len(l) - 1 : rest[j] = l[j]
        BY <3>1, Cropped
      <4>2. QED
        BY <1>1, <4>1, Bounds
  <2>3. QED
    BY <2>1, <2>2
<1> DEFINE S == {rest[j] : j \in 1 .. Len(rest)} \cup {r}
<1>3. rest \in Seq(S) /\ <<r>> \in Seq(S) /\ Len(<<r>>) = 1 /\ <<r>>[1] = r /\ Len(rest) \in Nat
  <2>1. (\A j \in 1 .. Len(rest) : rest[j] \in S) /\ r \in S
    OBVIOUS
  <2> HIDE DEF S
  <2>2. rest \in Seq(S)
    BY <1>2, <2>1, ListIsSeq
  <2>3. QED
    BY <2>1, <2>2
<1> HIDE DEF S
<1>4. /\ <<r>> \o rest \in Seq(S) /\ Len(<<r>> \o rest) = 1 + Len(rest)
      /\ \A j \in 1 .. 1 + Len(rest) :
           (<<r>> \o rest)[j] = IF j <= 1 THEN <<r>>[j] ELSE rest[j - 1]
  BY <1>3, ConcatProperties
<1> DEFINE m == <<r>> \o rest
<1>5. m \in Seq(S) /\ Len(m) = 1 + Len(rest) /\ m[1] = r
  BY <1>3, <1>4
<1>6. \A j \in 2 .. Len(m) : m[j] = rest[j - 1]
  BY <1>3, <1>4
<1> HIDE DEF m
<1>7. IsList(m) /\ Len(m) \in 1 .. Len(l) + 1
  BY <1>1, <1>2, <1>3, <1>5, SeqIsList, Bounds
<1>8. \A j \in 2 .. Len(m) : m[j] = l[j - 1]
  BY <1>2, <1>3, <1>5, <1>6
<1>9. QED
  BY <1>5, <1>7, <1>8 DEF m

LEMMA AddedOnce ==
  ASSUME NEW l, IsList(l), Once(l), NEW r, \A i \in 1 .. Len(l) : Folded(l[i]) # Folded(r),
         NEW rest, rest = IF Len(l) < MaxBookmarks THEN l ELSE Front(l)
  PROVE  Once(<<r>> \o rest)
<1> DEFINE m == <<r>> \o rest
<1>1. Len(l) \in Nat
  BY ListLen
<1>2. Len(m) \in 1 .. Len(l) + 1 /\ m[1] = r /\ \A j \in 2 .. Len(m) : m[j] = l[j - 1]
  BY Added
<1> HIDE DEF m
<1>3. \A j \in 2 .. Len(m) : j - 1 \in 1 .. Len(l)
  BY <1>1, <1>2
<1>4. \A j \in 1 .. Len(m) : j = 1 \/ j \in 2 .. Len(m)
  BY <1>1, <1>2
<1>5. \A j, k \in 2 .. Len(m) : j - 1 = k - 1 => j = k
  BY <1>1, <1>2
<1>6. Once(m)
  <2> SUFFICES ASSUME NEW j \in 1 .. Len(m), NEW k \in 1 .. Len(m), Folded(m[j]) = Folded(m[k])
               PROVE  j = k
    BY DEF Once
  <2>1. CASE j = 1 /\ k = 1
    BY <2>1
  <2>2. CASE j = 1 /\ k \in 2 .. Len(m)
    BY <1>2, <1>3, <2>2
  <2>3. CASE j \in 2 .. Len(m) /\ k = 1
    BY <1>2, <1>3, <2>3
  <2>4. CASE j \in 2 .. Len(m) /\ k \in 2 .. Len(m)
    <3>1. Folded(l[j - 1]) = Folded(l[k - 1]) /\ j - 1 \in 1 .. Len(l) /\ k - 1 \in 1 .. Len(l)
      BY <1>2, <1>3, <2>4
    <3>2. j - 1 = k - 1
      BY <3>1 DEF Once
    <3>3. QED
      BY <1>5, <2>4, <3>2
  <2>5. QED
    BY <1>4, <2>1, <2>2, <2>3, <2>4
<1>7. QED
  BY <1>6 DEF m

\* The lists of one name and of none.
LEMMA Small ==
  /\ IsList(<<>>) /\ Once(<<>>)
  /\ \A r : IsList(<<r>>) /\ Once(<<r>>)
<1>1. <<>> \in Seq({}) /\ Len(<<>>) = 0 /\ 0 <= MaxBookmarks
  BY Bounds
<1>2. ASSUME NEW r PROVE <<r>> \in Seq({r}) /\ Len(<<r>>) = 1 /\ 1 <= MaxBookmarks
  BY Bounds
<1>3. IsList(<<>>) /\ Once(<<>>)
  <2>1. IsList(<<>>)
    BY <1>1, SeqIsList
  <2>2. QED
    BY <2>1, <1>1 DEF Once
<1>4. ASSUME NEW r PROVE IsList(<<r>>) /\ Once(<<r>>)
  <2>1. IsList(<<r>>)
    BY <1>2, SeqIsList
  <2>2. Once(<<r>>)
    BY <1>2 DEF Once
  <2>3. QED
    BY <2>1, <2>2
<1>5. QED
  BY <1>3, <1>4

-----------------------------------------------------------------------------
(* Files. *)

LEMMA FileFields ==
  /\ \A l : File(l).list = l /\ File(l).there
  /\ Absent.list = <<>> /\ ~Absent.there
  /\ \A l : File(l) # Absent
BY DEF File, Absent

\* What a write may leave: the list, what was there, or a part of the list.
LEMMA Written ==
  ASSUME IsList(marks), NEW old, NEW new, NEW ok, NEW fault, SaveTo(old, new, ok, fault)
  PROVE  /\ new = old \/ (new = File(new.list) /\ IsList(new.list))
         /\ fault \in Fine .. Silent /\ fault \in Nat
         /\ fault = Fine => new = File(marks)
         /\ fault <= Refused => new = old \/ new = File(marks)
<1>1. CASE new = File(marks) /\ ok = TRUE /\ fault = Fine
  BY <1>1, FileFields DEF Fine, Silent
<1>2. CASE new = old /\ ok = FALSE /\ fault = Refused
  BY <1>2 DEF Fine, Refused, Silent
<1>3. CASE /\ new \in {File(l) : l \in CutOff(marks)}
           /\ \/ ok = FALSE /\ fault = Cut
              \/ ok = TRUE /\ fault = Silent
  <2>1. PICK l \in CutOff(marks) : new = File(l)
    BY <1>3
  <2>2. new = File(new.list) /\ IsList(new.list)
    BY <2>1, CutIsList, FileFields
  <2>3. QED
    BY <1>3, <2>2 DEF Fine, Refused, Cut, Silent
<1>4. QED
  BY <1>1, <1>2, <1>3 DEF SaveTo

LEMMA WorseFacts ==
  ASSUME NEW a \in 0 .. Silent, NEW b \in 0 .. Silent
  PROVE  Worse(a, b) \in 0 .. Silent /\ a <= Worse(a, b) /\ b <= Worse(a, b)
BY DEF Worse, Silent

-----------------------------------------------------------------------------
(* One lemma per operation. *)

LEMMA Grades ==
  /\ Fine \in Nat /\ Refused \in Nat /\ Silent \in Nat
  /\ Fine < Refused /\ Refused < Silent
BY DEF Fine, Refused, Silent

\* What is read back is one of the two files, or the home repository.
LEMMA LoadedList ==
  ASSUME BInv
  PROVE  /\ IsList(GfBookmarksLoad)
         /\ worst <= Refused => Once(GfBookmarksLoad)
         /\ worst = Fine /\ <<>> \notin allowed => GfBookmarksLoad \in allowed
<1>1. Loaded = env.list \/ Loaded = arc.list
  BY DEF Loaded
<1>2. IsList(env.list) /\ IsList(arc.list)
  BY DEF BInv, TypeOK
<1>3. GfBookmarksLoad = OrHome(Loaded) /\ (OrHome(Loaded) = Loaded \/ OrHome(Loaded) = <<Home>>)
  BY DEF GfBookmarksLoad, OrHome
<1>4. worst <= Refused => Once(Loaded)
  BY <1>1 DEF BInv, OnceInFiles
<1>5. worst = Fine => Loaded \in allowed
  BY <1>1 DEF BInv, Restores
<1>6. worst = Fine /\ <<>> \notin allowed => GfBookmarksLoad \in allowed
  BY <1>5 DEF GfBookmarksLoad, OrHome
<1>7. QED
  BY <1>1, <1>2, <1>3, <1>4, <1>6, Small

LEMMA StartStep ==
  ASSUME BInv, Start
  PROVE  BInv'
<1>1. /\ pc = "off" /\ marks' = GfBookmarksLoad /\ pc' = "idle" /\ warned' = FALSE
      /\ UNCHANGED <<env, arc, adding, okEnv, meant, allowed, worst>>
  BY DEF Start
<1>2. TypeOK'
  <2>1. IsList(marks')
    BY <1>1, LoadedList
  <2>2. QED
    BY <1>1, <2>1 DEF BInv, TypeOK, IsList
<1>3. NoDuplicates'
  BY <1>1, LoadedList DEF NoDuplicates, Once, Refused
<1>4. OnceInFiles'
  BY <1>1 DEF BInv, OnceInFiles, Once, Refused
<1>5. Ahead' /\ Restores'
  BY <1>1 DEF BInv, Ahead, Restores, Fine
<1>6. QED
  BY <1>2, <1>3, <1>4, <1>5 DEF BInv

LEMMA ChangeStep ==
  ASSUME BInv, NEW list, NEW add \in BOOLEAN, NEW what, Change(list, add, what),
         IsList(list), worst <= Refused => Once(list),
         what \in {page.means : page \in Pages} \cup {NoRepo}
  PROVE  BInv'
<1>1. /\ pc = "idle" /\ marks' = list /\ meant' = what /\ pc' = "env" /\ adding' = add
      /\ warned' = FALSE /\ allowed' = allowed \cup {list}
      /\ UNCHANGED <<env, arc, okEnv, worst>>
  BY DEF Change
<1>2. TypeOK'
  <2>1. /\ IsList(env.list) /\ (env = Absent \/ env = File(env.list))
        /\ IsList(arc.list) /\ (arc = Absent \/ arc = File(arc.list))
        /\ okEnv \in BOOLEAN /\ worst \in 0 .. Silent /\ \A l \in allowed : IsList(l)
    BY DEF BInv, TypeOK
  <2>2. \A l \in allowed' : IsList(l)
    BY <1>1, <2>1
  <2>3. QED
    BY <1>1, <2>1, <2>2 DEF TypeOK, IsList, Absent, File, Silent
<1>3. NoDuplicates' /\ OnceInFiles'
  BY <1>1 DEF BInv, NoDuplicates, OnceInFiles, Once, Refused
<1>4. Ahead' /\ Restores'
  BY <1>1 DEF BInv, Ahead, Restores, Fine
<1>5. QED
  BY <1>2, <1>3, <1>4 DEF BInv

LEMMA AddStep ==
  ASSUME BInv, ActionBookmarkAdd
  PROVE  BInv'
<1>1. PICK c \in CurrentRepos :
        ~GfBookmarksFind(c.repo) /\ Change(GfBookmarksAdd(c.repo), TRUE, c.means)
  BY DEF ActionBookmarkAdd
<1>2. c.means \in {page.means : page \in Pages}
  BY DEF CurrentRepos
<1>3. IsList(marks) /\ (worst <= Refused => Once(marks))
  BY DEF BInv, TypeOK, NoDuplicates
<1>4. \A i \in 1 .. Len(marks) : Folded(marks[i]) # Folded(c.repo)
  BY <1>1 DEF GfBookmarksFind
<1> DEFINE rest == IF Len(marks) < MaxBookmarks THEN marks ELSE Front(marks)
<1>5. GfBookmarksAdd(c.repo) = <<c.repo>> \o rest
  BY DEF GfBookmarksAdd
<1>6. IsList(<<c.repo>> \o rest) /\ (worst <= Refused => Once(<<c.repo>> \o rest))
  BY <1>3, <1>4, Added, AddedOnce
<1> HIDE DEF rest
<1>7. QED
  BY <1>1, <1>2, <1>5, <1>6, ChangeStep

LEMMA RemoveStep ==
  ASSUME BInv, ActionBookmarkRemove
  PROVE  BInv'
<1>1. PICK i \in 1 .. Len(marks) : Change(RemoveAt(marks, i), FALSE, NoRepo)
  BY DEF ActionBookmarkRemove
<1>2. IsList(marks) /\ (worst <= Refused => Once(marks))
  BY DEF BInv, TypeOK, NoDuplicates
<1>3. IsList(RemoveAt(marks, i)) /\ (worst <= Refused => Once(RemoveAt(marks, i)))
  BY <1>2, Removed, RemovedOnce
<1>4. QED
  BY <1>1, <1>3, ChangeStep

\* What both writes do to the history of faults.
LEMMA WriteFacts ==
  ASSUME BInv, NEW old, IsList(old.list), old = Absent \/ old = File(old.list),
         NEW new, NEW ok, NEW fault, SaveTo(old, new, ok, fault),
         worst' = Worse(worst, fault)
  PROVE  /\ IsList(new.list) /\ (new = Absent \/ new = File(new.list))
         /\ worst' \in 0 .. Silent
         /\ worst' = Fine => worst = Fine /\ new = File(marks)
         /\ worst' <= Refused => worst <= Refused /\ (new = old \/ new = File(marks))
<1>1. IsList(marks) /\ worst \in 0 .. Silent
  BY DEF BInv, TypeOK
<1>2. /\ new = old \/ (new = File(new.list) /\ IsList(new.list))
      /\ fault \in Fine .. Silent /\ fault \in Nat
      /\ fault = Fine => new = File(marks)
      /\ fault <= Refused => new = old \/ new = File(marks)
  BY <1>1, Written
<1>3. worst' \in 0 .. Silent /\ worst <= worst' /\ fault <= worst'
  BY <1>1, <1>2, WorseFacts DEF Fine
<1>4. IsList(new.list) /\ (new = Absent \/ new = File(new.list))
  BY <1>2
<1>5. worst \in Nat /\ fault \in Nat /\ worst' \in Nat
  BY <1>1, <1>2, <1>3 DEF Silent
<1>6. /\ worst' = Fine => worst = Fine /\ fault = Fine
      /\ worst' <= Refused => worst <= Refused /\ fault <= Refused
  BY <1>3, <1>5 DEF Fine, Refused, Silent
<1>7. QED
  BY <1>2, <1>3, <1>4, <1>6

LEMMA SaveEnvStep ==
  ASSUME BInv, SaveEnv
  PROVE  BInv'
<1>1. /\ pc = "env" /\ pc' = "arc"
      /\ UNCHANGED <<marks, arc, adding, warned, meant, allowed>>
  BY DEF SaveEnv
<1>2. PICK new \in Outcomes(env), ok \in BOOLEAN, fault \in Fine .. Silent :
        SaveTo(env, new, ok, fault) /\ env' = new /\ okEnv' = ok /\ worst' = Worse(worst, fault)
  BY DEF SaveEnv
<1>3. /\ IsList(env.list) /\ (env = Absent \/ env = File(env.list))
      /\ IsList(arc.list) /\ (arc = Absent \/ arc = File(arc.list))
  BY DEF BInv, TypeOK
<1>4. /\ IsList(env'.list) /\ (env' = Absent \/ env' = File(env'.list))
      /\ worst' \in 0 .. Silent
      /\ worst' = Fine => worst = Fine /\ env' = File(marks)
      /\ worst' <= Refused => worst <= Refused /\ (env' = env \/ env' = File(marks))
  BY <1>2, <1>3, WriteFacts
<1>5. TypeOK'
  BY <1>1, <1>2, <1>3, <1>4 DEF BInv, TypeOK, IsList, Absent, File, Silent
<1>6. NoDuplicates' /\ OnceInFiles'
  <2>1. worst' <= Refused => Once(marks) /\ Once(env.list) /\ Once(arc.list)
    BY <1>4 DEF BInv, NoDuplicates, OnceInFiles
  <2>2. worst' <= Refused => Once(env'.list)
    BY <1>4, <2>1, FileFields
  <2>3. QED
    BY <1>1, <2>1, <2>2 DEF NoDuplicates, OnceInFiles, Once, Refused
<1>7. Ahead'
  BY <1>1, <1>4 DEF Ahead, File, Fine, Silent
<1>8. Restores'
  <2>1. worst' = Fine => env'.list = marks /\ marks \in allowed /\ arc.list \in allowed
    BY <1>1, <1>4, FileFields DEF BInv, Restores
  <2>2. QED
    BY <1>1, <2>1 DEF Restores, Fine
<1>9. QED
  BY <1>5, <1>6, <1>7, <1>8 DEF BInv

LEMMA SaveArcStep ==
  ASSUME BInv, SaveArc
  PROVE  BInv'
<1>1. /\ pc = "arc" /\ pc' = "idle" /\ allowed' = {marks} /\ meant' = NoRepo /\ okEnv' = FALSE
      /\ UNCHANGED <<marks, env, adding>>
  BY DEF SaveArc
<1>2. PICK new \in Outcomes(arc), ok \in BOOLEAN, fault \in Fine .. Silent :
        /\ SaveTo(arc, new, ok, fault) /\ arc' = new /\ worst' = Worse(worst, fault)
        /\ warned' = (adding /\ ~ok /\ ~okEnv)
  BY DEF SaveArc
<1>3. /\ IsList(env.list) /\ (env = Absent \/ env = File(env.list))
      /\ IsList(arc.list) /\ (arc = Absent \/ arc = File(arc.list)) /\ IsList(marks)
      /\ adding \in BOOLEAN /\ okEnv \in BOOLEAN
  BY DEF BInv, TypeOK
<1>4. /\ IsList(arc'.list) /\ (arc' = Absent \/ arc' = File(arc'.list))
      /\ worst' \in 0 .. Silent
      /\ worst' = Fine => worst = Fine /\ arc' = File(marks)
      /\ worst' <= Refused => worst <= Refused /\ (arc' = arc \/ arc' = File(marks))
  BY <1>2, <1>3, WriteFacts
<1>5. TypeOK'
  <2>1. warned' \in BOOLEAN
    BY <1>2
  <2>2. \A l \in allowed' : IsList(l)
    BY <1>1, <1>3
  <2>3. QED
    BY <1>1, <1>3, <1>4, <2>1, <2>2 DEF TypeOK, IsList, Absent, File, Silent
<1>6. NoDuplicates' /\ OnceInFiles'
  <2>1. worst' <= Refused => Once(marks) /\ Once(env.list) /\ Once(arc.list)
    BY <1>4 DEF BInv, NoDuplicates, OnceInFiles
  <2>2. worst' <= Refused => Once(arc'.list)
    BY <1>4, <2>1, FileFields
  <2>3. QED
    BY <1>1, <2>1, <2>2 DEF NoDuplicates, OnceInFiles, Once, Refused
<1>7. Ahead'
  BY <1>1 DEF Ahead
<1>8. Restores'
  <2>1. worst' = Fine => env.list = marks /\ arc'.list = marks
    BY <1>1, <1>4, FileFields DEF BInv, Ahead
  <2>2. QED
    BY <1>1, <2>1 DEF Restores, Fine
<1>9. QED
  BY <1>5, <1>6, <1>7, <1>8 DEF BInv

\* The program is gone, with the files as they are or as they were cut off.
LEMMA GoneStep ==
  ASSUME BInv, Gone, UNCHANGED allowed,
         IsList(env'.list), env' = Absent \/ env' = File(env'.list),
         IsList(arc'.list), arc' = Absent \/ arc' = File(arc'.list),
         worst' \in 0 .. Silent,
         worst' <= Refused => /\ worst' = worst
                              /\ env' \in {env, arc} /\ arc' \in {env, arc}
  PROVE  BInv'
<1>1. /\ pc' = "off" /\ marks' = <<>> /\ meant' = NoRepo
      /\ adding' = FALSE /\ okEnv' = FALSE /\ warned' = FALSE /\ allowed' = allowed
  BY DEF Gone
<1>2. TypeOK'
  <2>1. IsList(marks') /\ \A l \in allowed' : IsList(l)
    BY <1>1, Small DEF BInv, TypeOK
  <2>2. QED
    BY <1>1, <2>1 DEF TypeOK, IsList, Absent, File, Silent
<1>3. NoDuplicates' /\ OnceInFiles'
  BY <1>1, Small DEF BInv, NoDuplicates, OnceInFiles, Once, Refused
<1>4. Ahead'
  BY <1>1 DEF Ahead
<1>5. Restores'
  <2>1. worst' = Fine => worst = Fine /\ env' \in {env, arc} /\ arc' \in {env, arc}
    BY Grades
  <2>2. QED
    BY <1>1, <2>1 DEF BInv, Restores, Fine
<1>6. QED
  BY <1>1, <1>2, <1>3, <1>4, <1>5 DEF BInv

LEMMA OffSteps ==
  ASSUME BInv, Quit \/ Reboot \/ RebootInSave
  PROVE  BInv'
<1>1. /\ IsList(env.list) /\ (env = Absent \/ env = File(env.list))
      /\ IsList(arc.list) /\ (arc = Absent \/ arc = File(arc.list))
      /\ IsList(marks) /\ worst \in 0 .. Silent
  BY DEF BInv, TypeOK
<1>2. CASE Quit
  <2>1. Gone /\ UNCHANGED <<env, arc, allowed, worst>>
    BY <1>2 DEF Quit
  <2>2. QED
    BY <1>1, <2>1, GoneStep
<1>3. CASE Reboot
  <2>1. Gone /\ env' = arc /\ UNCHANGED <<arc, allowed, worst>>
    BY <1>3 DEF Reboot
  <2>2. QED
    BY <1>1, <2>1, GoneStep
<1>4. CASE RebootInSave
  <2>1. Gone /\ env' = arc' /\ worst' = Silent /\ UNCHANGED allowed
    BY <1>4 DEF RebootInSave
  <2>2. PICK l \in CutOff(marks) : arc' = File(l)
    BY <1>4 DEF RebootInSave
  <2>3. IsList(arc'.list) /\ arc' = File(arc'.list)
    BY <1>1, <2>2, CutIsList, FileFields
  <2>4. worst' \in 0 .. Silent /\ ~(worst' <= Refused)
    BY <2>1, Grades DEF Silent
  <2>5. QED
    BY <2>1, <2>3, <2>4, GoneStep
<1>5. QED
  BY <1>2, <1>3, <1>4

LEMMA NextStep ==
  ASSUME BInv, [Next]_vars
  PROVE  BInv'
<1>1. CASE Next
  BY <1>1, StartStep, AddStep, RemoveStep, SaveEnvStep, SaveArcStep, OffSteps DEF Next
<1>2. CASE UNCHANGED vars
  <2>1. UNCHANGED <<marks, env, arc, pc, adding, okEnv, warned, meant, allowed, worst>>
    BY <1>2 DEF vars
  <2>2. TypeOK' /\ NoDuplicates' /\ OnceInFiles'
    BY <2>1 DEF BInv, TypeOK, NoDuplicates, OnceInFiles
  <2>3. Ahead' /\ Restores'
    BY <2>1 DEF BInv, Ahead, Restores
  <2>4. QED
    BY <2>1, <2>2, <2>3 DEF BInv
<1>3. QED
  BY <1>1, <1>2

-----------------------------------------------------------------------------
(* The theorems. *)

\* The inductive invariant holds whatever happens to the writes.
THEOREM Invariance == Spec => []BInv
<1>1. Init => BInv
  <2> SUFFICES ASSUME Init PROVE BInv
    OBVIOUS
  <2>1. /\ marks = <<>> /\ meant = NoRepo /\ pc = "off" /\ adding = FALSE /\ okEnv = FALSE
        /\ warned = FALSE /\ env = arc /\ allowed = {arc.list} /\ worst = Fine
    BY DEF Init
  <2>2. /\ arc = Absent \/ arc = File(arc.list)
        /\ IsList(arc.list) /\ Once(arc.list)
    <3>1. CASE arc = Absent
      BY <3>1, FileFields, Small
    <3>2. CASE arc \in {File(l) : l \in Saved}
      <4>1. PICK l \in Saved : arc = File(l)
        BY <3>2
      <4>2. IsList(l) /\ Once(l)
        BY BookmarksAssumption
      <4>3. QED
        BY <4>1, <4>2, FileFields
    <3>3. QED
      BY <3>1, <3>2 DEF Init
  <2>3. TypeOK
    <3>1. worst \in 0 .. Silent
      BY <2>1 DEF Fine, Silent
    <3>2. QED
      BY <2>1, <2>2, <3>1, Small DEF TypeOK
  <2>4. NoDuplicates /\ OnceInFiles
    BY <2>1, <2>2, Small DEF NoDuplicates, OnceInFiles
  <2>5. Ahead /\ Restores
    BY <2>1 DEF Ahead, Restores
  <2>6. QED
    BY <2>1, <2>3, <2>4, <2>5 DEF BInv
<1>2. BInv /\ [Next]_vars => BInv'
  BY NextStep
<1>3. QED
  BY <1>1, <1>2, PTL DEF Spec

\* No repository is remembered twice, however it is spelled, as long as no file
\* was cut off: for lists of any length, whatever the texts are brought back to.
THEOREM RememberedOnce == Spec => []NoDuplicates
<1>1. BInv => NoDuplicates
  BY DEF BInv
<1>2. QED
  BY <1>1, Invariance, PTL

\* A restart brings back the last list that was saved or was being saved.
THEOREM RestartRestores == Spec => KeptOverRestart
<1> DEFINE Restored == pc = "off" /\ pc' = "idle" /\ worst = Fine /\ <<>> \notin allowed
                         => marks' \in allowed
<1>1. ASSUME BInv, [Next]_vars PROVE Restored
  <2> SUFFICES ASSUME pc = "off", pc' = "idle", worst = Fine, <<>> \notin allowed
               PROVE  marks' \in allowed
    OBVIOUS
  <2>1. Next
    BY <1>1 DEF vars
  <2>2. Start
    BY <2>1 DEF Next, ActionBookmarkAdd, ActionBookmarkRemove, Change, SaveEnv, SaveArc,
                Quit, Reboot, RebootInSave, Gone
  <2>3. marks' = GfBookmarksLoad
    BY <2>2 DEF Start
  <2>4. QED
    BY <1>1, <2>3, LoadedList
<1>2. BInv /\ [Next]_vars => [Restored]_vars
  BY <1>1
<1>3. QED
  BY <1>2, Invariance, PTL DEF Spec, KeptOverRestart

-----------------------------------------------------------------------------
(* Texts and what is left of them. *)

Tokens == STRING \cup {"https", "http", "www", "github", "com", "git", ":", "/", ".", "@"}
Texts == Seq(Tokens)

\* The end of a text.
LEMMA RestOf ==
  ASSUME NEW s \in Texts, NEW n \in 0 .. Len(s)
  PROVE  /\ Rest(s, n) \in Texts /\ Len(Rest(s, n)) = Len(s) - n /\ Len(s) \in Nat
         /\ DOMAIN Rest(s, n) = 1 .. Len(s) - n
         /\ \A i \in 1 .. Len(s) - n : Rest(s, n)[i] = s[n + i] /\ Rest(s, n)[i] \in Tokens
<1>1. Len(s) \in Nat /\ n \in Nat /\ n <= Len(s)
  BY LenProperties DEF Texts
<1>2. /\ SubSeq(s, n + 1, Len(s)) \in Seq(Tokens)
      /\ Len(SubSeq(s, n + 1, Len(s))) = IF n + 1 <= Len(s) THEN Len(s) - (n + 1) + 1 ELSE 0
      /\ \A i \in 1 .. Len(s) - (n + 1) + 1 : SubSeq(s, n + 1, Len(s))[i] = s[n + 1 + i - 1]
  <2>1. \A i \in n + 1 .. Len(s) : s[i] \in Tokens
    BY <1>1, ElementOfSeq DEF Texts
  <2>2. n + 1 \in Int /\ Len(s) \in Int
    BY <1>1
  <2>3. QED
    BY <2>1, <2>2, SubSeqProperties
<1>3. Len(Rest(s, n)) = Len(s) - n
  BY <1>1, <1>2 DEF Rest
<1>4. DOMAIN Rest(s, n) = 1 .. Len(s) - n
  BY <1>2, <1>3, LenProperties DEF Rest
<1>5. \A i \in 1 .. Len(s) - n : Rest(s, n)[i] = s[n + i] /\ s[n + i] \in Tokens
  BY <1>1, <1>2, ElementOfSeq DEF Rest, Texts
<1>6. QED
  BY <1>1, <1>2, <1>3, <1>4, <1>5 DEF Rest, Texts

\* Two texts with the same words in the same places.
LEMMA SameText ==
  ASSUME NEW s \in Texts, NEW t \in Texts, Len(s) = Len(t),
         \A i \in 1 .. Len(s) : s[i] = t[i]
  PROVE  s = t
BY LenProperties, SeqEqual DEF Texts

\* An end of an end.
LEMMA RestRest ==
  ASSUME NEW s \in Texts, NEW n \in Nat, NEW m \in Nat, n + m <= Len(s)
  PROVE  Rest(Rest(s, n), m) = Rest(s, n + m) /\ Rest(s, 0) = s
<1>1. n \in 0 .. Len(s) /\ n + m \in 0 .. Len(s) /\ 0 \in 0 .. Len(s) /\ Len(s) \in Nat
  BY LenProperties DEF Texts
<1>2. /\ Rest(s, n) \in Texts /\ Len(Rest(s, n)) = Len(s) - n
      /\ \A i \in 1 .. Len(s) - n : Rest(s, n)[i] = s[n + i]
  BY <1>1, RestOf
<1>3. m \in 0 .. Len(Rest(s, n))
  BY <1>1, <1>2
<1>4. /\ Rest(Rest(s, n), m) \in Texts /\ Len(Rest(Rest(s, n), m)) = Len(s) - n - m
      /\ \A i \in 1 .. Len(s) - n - m : Rest(Rest(s, n), m)[i] = Rest(s, n)[m + i]
  BY <1>2, <1>3, RestOf
<1>5. /\ Rest(s, n + m) \in Texts /\ Len(Rest(s, n + m)) = Len(s) - (n + m)
      /\ \A i \in 1 .. Len(s) - (n + m) : Rest(s, n + m)[i] = s[n + m + i]
  BY <1>1, RestOf
<1>6. \A i \in 1 .. Len(s) - n - m : Rest(Rest(s, n), m)[i] = Rest(s, n + m)[i]
  <2> TAKE i \in 1 .. Len(s) - n - m
  <2>1. m + i \in 1 .. Len(s) - n /\ i \in 1 .. Len(s) - (n + m) /\ n + (m + i) = n + m + i
    BY <1>1
  <2>2. QED
    BY <1>2, <1>4, <1>5, <2>1
<1>7. Len(Rest(Rest(s, n), m)) = Len(Rest(s, n + m))
  <2>1. Len(s) \in Int /\ n \in Int /\ m \in Int
    BY <1>1
  <2>2. Len(s) - n - m = Len(s) - (n + m)
    BY <2>1
  <2>3. QED
    BY <1>4, <1>5, <2>2
<1>8. \A i \in 1 .. Len(Rest(Rest(s, n), m)) : Rest(Rest(s, n), m)[i] = Rest(s, n + m)[i]
  BY <1>4, <1>6
<1>9. Rest(Rest(s, n), m) = Rest(s, n + m)
  BY <1>4, <1>5, <1>7, <1>8, SameText
<1>10. /\ Rest(s, 0) \in Texts /\ Len(Rest(s, 0)) = Len(s) - 0
       /\ \A i \in 1 .. Len(s) - 0 : Rest(s, 0)[i] = s[0 + i]
  BY <1>1, RestOf
<1>11. Len(Rest(s, 0)) = Len(s) /\ \A i \in 1 .. Len(Rest(s, 0)) : Rest(s, 0)[i] = s[i]
  BY <1>1, <1>10
<1>12. QED
  BY <1>9, <1>10, <1>11, SameText

\* A text without capitals.
Plain(x) == IF x \in DOMAIN Lowered THEN Lowered[x] ELSE x
Words == {Plain(x) : x \in Tokens}

LEMMA FoldedOf ==
  ASSUME NEW s \in Texts
  PROVE  /\ Folded(s) \in Seq(Words) /\ Len(Folded(s)) = Len(s)
         /\ \A i \in 1 .. Len(s) : Folded(s)[i] = Plain(s[i])
<1>1. Len(s) \in Nat /\ DOMAIN s = 1 .. Len(s) /\ \A i \in 1 .. Len(s) : s[i] \in Tokens
  BY LenProperties, ElementOfSeq DEF Texts
<1>2. /\ DOMAIN Folded(s) = 1 .. Len(s)
      /\ \A i \in 1 .. Len(s) : Folded(s)[i] = Plain(s[i])
      /\ Folded(s) \in [1 .. Len(s) -> Words]
  BY <1>1 DEF Folded, Plain, Words
<1>3. Folded(s) \in Seq(Words)
  BY <1>1, <1>2, SeqDef
<1>4. Len(Folded(s)) \in Nat /\ 1 .. Len(Folded(s)) = 1 .. Len(s)
  BY <1>2, <1>3, LenProperties
<1>5. Len(Folded(s)) = Len(s)
  BY <1>1, <1>4
<1>6. QED
  BY <1>2, <1>3, <1>5

\* Signs have no other case.
LEMMA SignsStay == \A x \in Signs : Plain(x) = x
BY AddressAssumption DEF Plain

\* To go on behind the first words is the same before folding and after.
LEMMA FoldedRest ==
  ASSUME NEW s \in Texts, NEW n \in 0 .. Len(s)
  PROVE  /\ Folded(Rest(s, n)) \in Seq(Words) /\ Len(Folded(Rest(s, n))) = Len(s) - n
         /\ \A i \in 1 .. Len(s) - n : Folded(Rest(s, n))[i] = Folded(s)[n + i]
<1>1. /\ Rest(s, n) \in Texts /\ Len(Rest(s, n)) = Len(s) - n /\ Len(s) \in Nat
      /\ \A i \in 1 .. Len(s) - n : Rest(s, n)[i] = s[n + i]
  BY RestOf
<1>2. /\ Folded(Rest(s, n)) \in Seq(Words) /\ Len(Folded(Rest(s, n))) = Len(s) - n
      /\ \A i \in 1 .. Len(s) - n : Folded(Rest(s, n))[i] = Plain(Rest(s, n)[i])
  BY <1>1, FoldedOf
<1>3. \A i \in 1 .. Len(s) : Folded(s)[i] = Plain(s[i])
  BY FoldedOf
<1>4. \A i \in 1 .. Len(s) - n : n + i \in 1 .. Len(s)
  BY <1>1
<1>5. QED
  BY <1>1, <1>2, <1>3, <1>4

\* A set of naturals that is not empty has a least member.
LEMMA LeastOf == ASSUME NEW T, T \subseteq Nat, T # {}
  PROVE \E x \in T : \A y \in T : x <= y
<1>1. IsWellFoundedOn(OpToRel(<,Nat),Nat)
  BY NatLessThanWellFounded
<1>2. PICK x \in T : \A y \in T : ~(<<y,x>> \in OpToRel(<,Nat))
  BY <1>1, WFMin
<1>3. \A y \in T : ~(y < x)
  BY <1>2 DEF OpToRel
<1>4. \A y \in T : x <= y
  <2> TAKE y \in T
  <2>1. x \in Nat /\ y \in Nat /\ ~(y < x)
    BY <1>3
  <2>2. QED
    BY <2>1
<1>5. QED
  BY <1>4

\* How long a run at the start is.
LEMMA FirstOf ==
  ASSUME NEW N \in Nat, NEW T \in SUBSET (1 .. N), NEW span, NEW m,
         m = Min(T), span = IF (IF T # {} THEN m ELSE 0) = 0 THEN N ELSE (IF T # {} THEN m ELSE 0) - 1
  PROVE  /\ span \in 0 .. N
         /\ \A i \in 1 .. span : i \notin T
         /\ span < N => span + 1 \in T
<1>1. CASE T = {}
  BY <1>1
<1>2. CASE T # {}
  <2>1. \E x \in T : \A y \in T : x <= y
    <3>1. T \subseteq Nat
      OBVIOUS
    <3>2. PICK x \in T : \A y \in T : x <= y
      BY <1>2, <3>1, LeastOf
    <3>3. QED
      BY <3>2
  <2>2. m \in T /\ \A y \in T : m <= y
    BY <2>1 DEF Min
  <2>3. QED
    BY <1>2, <2>2
<1>3. QED
  BY <1>1, <1>2

-----------------------------------------------------------------------------
(* How long a run is, and what skip_prefix leaves. *)

\* The spaces at the start of a text.
LEMMA SpanSpaces ==
  ASSUME NEW s \in Texts
  PROVE  /\ Span(s, IsSpace) \in 0 .. Len(s)
         /\ \A i \in 1 .. Span(s, IsSpace) : IsSpace(s[i])
         /\ Span(s, IsSpace) < Len(s) => ~IsSpace(s[Span(s, IsSpace) + 1])
<1> DEFINE T == {i \in 1 .. Len(s) : ~IsSpace(s[i])}
<1>1. Len(s) \in Nat
  BY LenProperties DEF Texts
<1>2. Span(s, IsSpace) = IF (IF T # {} THEN Min(T) ELSE 0) = 0 THEN Len(s) ELSE (IF T # {} THEN Min(T) ELSE 0) - 1
  BY DEF Span, SelectInSeq
<1>3. /\ Span(s, IsSpace) \in 0 .. Len(s)
      /\ \A i \in 1 .. Span(s, IsSpace) : i \notin T
      /\ Span(s, IsSpace) < Len(s) => Span(s, IsSpace) + 1 \in T
  <2>1. T \in SUBSET (1 .. Len(s))
    OBVIOUS
  <2> HIDE DEF T
  <2>2. QED
    BY <1>1, <1>2, <2>1, FirstOf
<1> DEFINE n == Span(s, IsSpace)
<1>4. /\ n \in Nat /\ n <= Len(s) /\ \A i \in 1 .. n : i \in 1 .. Len(s)
      /\ n < Len(s) => n + 1 \in 1 .. Len(s)
  <2> HIDE DEF T, n
  <2>1. n \in 0 .. Len(s)
    BY <1>3 DEF n
  <2>2. QED
    BY <1>1, <2>1
<1>5. \A i \in 1 .. Len(s) : i \in T <=> ~IsSpace(s[i])
  OBVIOUS
<1> HIDE DEF T
<1>6. QED
  BY <1>3, <1>4, <1>5

\* The slashes.
LEMMA SpanSlashes ==
  ASSUME NEW s \in Texts
  PROVE  /\ Span(s, IsSlash) \in 0 .. Len(s)
         /\ \A i \in 1 .. Span(s, IsSlash) : IsSlash(s[i])
         /\ Span(s, IsSlash) < Len(s) => ~IsSlash(s[Span(s, IsSlash) + 1])
<1> DEFINE T == {i \in 1 .. Len(s) : ~IsSlash(s[i])}
<1>1. Len(s) \in Nat
  BY LenProperties DEF Texts
<1>2. Span(s, IsSlash) = IF (IF T # {} THEN Min(T) ELSE 0) = 0 THEN Len(s) ELSE (IF T # {} THEN Min(T) ELSE 0) - 1
  BY DEF Span, SelectInSeq
<1>3. /\ Span(s, IsSlash) \in 0 .. Len(s)
      /\ \A i \in 1 .. Span(s, IsSlash) : i \notin T
      /\ Span(s, IsSlash) < Len(s) => Span(s, IsSlash) + 1 \in T
  <2>1. T \in SUBSET (1 .. Len(s))
    OBVIOUS
  <2> HIDE DEF T
  <2>2. QED
    BY <1>1, <1>2, <2>1, FirstOf
<1> DEFINE n == Span(s, IsSlash)
<1>4. /\ n \in Nat /\ n <= Len(s) /\ \A i \in 1 .. n : i \in 1 .. Len(s)
      /\ n < Len(s) => n + 1 \in 1 .. Len(s)
  <2> HIDE DEF T, n
  <2>1. n \in 0 .. Len(s)
    BY <1>3 DEF n
  <2>2. QED
    BY <1>1, <2>1
<1>5. \A i \in 1 .. Len(s) : i \in T <=> ~IsSlash(s[i])
  OBVIOUS
<1> HIDE DEF T
<1>6. QED
  BY <1>3, <1>4, <1>5

\* What can be part of a name.
LEMMA SpanTokens ==
  ASSUME NEW s \in Texts
  PROVE  /\ Span(s, RepoToken) \in 0 .. Len(s)
         /\ \A i \in 1 .. Span(s, RepoToken) : RepoToken(s[i])
         /\ Span(s, RepoToken) < Len(s) => ~RepoToken(s[Span(s, RepoToken) + 1])
<1> DEFINE T == {i \in 1 .. Len(s) : ~RepoToken(s[i])}
<1>1. Len(s) \in Nat
  BY LenProperties DEF Texts
<1>2. Span(s, RepoToken) = IF (IF T # {} THEN Min(T) ELSE 0) = 0 THEN Len(s) ELSE (IF T # {} THEN Min(T) ELSE 0) - 1
  BY DEF Span, SelectInSeq
<1>3. /\ Span(s, RepoToken) \in 0 .. Len(s)
      /\ \A i \in 1 .. Span(s, RepoToken) : i \notin T
      /\ Span(s, RepoToken) < Len(s) => Span(s, RepoToken) + 1 \in T
  <2>1. T \in SUBSET (1 .. Len(s))
    OBVIOUS
  <2> HIDE DEF T
  <2>2. QED
    BY <1>1, <1>2, <2>1, FirstOf
<1> DEFINE n == Span(s, RepoToken)
<1>4. /\ n \in Nat /\ n <= Len(s) /\ \A i \in 1 .. n : i \in 1 .. Len(s)
      /\ n < Len(s) => n + 1 \in 1 .. Len(s)
  <2> HIDE DEF T, n
  <2>1. n \in 0 .. Len(s)
    BY <1>3 DEF n
  <2>2. QED
    BY <1>1, <2>1
<1>5. \A i \in 1 .. Len(s) : i \in T <=> ~RepoToken(s[i])
  OBVIOUS
<1> HIDE DEF T
<1>6. QED
  BY <1>3, <1>4, <1>5

\* A text begins with another when the first words are the same.
LEMMA PrefixOf ==
  ASSUME NEW A, NEW B, NEW p \in Seq(A), NEW t \in Seq(B)
  PROVE  IsPrefix(p, t) <=> Len(p) <= Len(t) /\ \A i \in 1 .. Len(p) : p[i] = t[i]
<1>1. Len(p) \in Nat /\ Len(t) \in Nat
  BY LenProperties
<1> SUFFICES ASSUME Len(p) <= Len(t)
             PROVE  SubSeq(p, 1, Len(p)) = SubSeq(t, 1, Len(p))
                      <=> \A i \in 1 .. Len(p) : p[i] = t[i]
  BY DEF IsPrefix
<1> DEFINE n == Len(p)
<1>2. /\ SubSeq(p, 1, n) \in Seq(A) /\ Len(SubSeq(p, 1, n)) = (IF 1 <= n THEN n - 1 + 1 ELSE 0)
      /\ \A i \in 1 .. n - 1 + 1 : SubSeq(p, 1, n)[i] = p[1 + i - 1]
  <2>1. \A i \in 1 .. n : p[i] \in A
    BY <1>1, ElementOfSeq
  <2>2. 1 \in Int /\ n \in Int
    BY <1>1
  <2> HIDE DEF n
  <2>3. QED
    BY <2>1, <2>2, SubSeqProperties
<1>3. /\ SubSeq(t, 1, n) \in Seq(B) /\ Len(SubSeq(t, 1, n)) = (IF 1 <= n THEN n - 1 + 1 ELSE 0)
      /\ \A i \in 1 .. n - 1 + 1 : SubSeq(t, 1, n)[i] = t[1 + i - 1]
  <2>1. \A i \in 1 .. n : t[i] \in B
    <3>1. \A i \in 1 .. n : i \in 1 .. Len(t)
      BY <1>1
    <3>2. QED
      BY <3>1, ElementOfSeq
  <2>2. 1 \in Int /\ n \in Int
    BY <1>1
  <2> HIDE DEF n
  <2>3. QED
    BY <2>1, <2>2, SubSeqProperties
<1>4. /\ Len(SubSeq(p, 1, n)) = n /\ Len(SubSeq(t, 1, n)) = n
      /\ \A i \in 1 .. n : SubSeq(p, 1, n)[i] = p[i] /\ SubSeq(t, 1, n)[i] = t[i]
  BY <1>1, <1>2, <1>3
<1>5. SubSeq(p, 1, n) \in Seq(A \cup B) /\ SubSeq(t, 1, n) \in Seq(A \cup B)
  <2> HIDE DEF n
  <2>1. \A x \in Seq(A) : x \in Seq(A \cup B)
    BY SeqDef
  <2>2. \A x \in Seq(B) : x \in Seq(A \cup B)
    BY SeqDef
  <2>3. QED
    BY <1>2, <1>3, <2>1, <2>2
<1>6. SubSeq(p, 1, n) = SubSeq(t, 1, n) => \A i \in 1 .. n : p[i] = t[i]
  BY <1>4
<1>7. (\A i \in 1 .. n : p[i] = t[i]) => SubSeq(p, 1, n) = SubSeq(t, 1, n)
  <2> HIDE DEF n
  <2>1. QED
    BY <1>4, <1>5, SeqEqual
<1>8. QED
  BY <1>6, <1>7

\* skip_prefix leaves an end of the text.
LEMMA Skipped ==
  ASSUME NEW s \in Texts, NEW p \in Texts
  PROVE  /\ SkipPrefix(s, p) \in Texts
         /\ IsPrefix(p, Folded(s)) => Len(p) \in 0 .. Len(s) /\ SkipPrefix(s, p) = Rest(s, Len(p))
         /\ ~IsPrefix(p, Folded(s)) => SkipPrefix(s, p) = s
         /\ \E n \in 0 .. Len(s) : SkipPrefix(s, p) = Rest(s, n)
<1>1. Len(s) \in Nat /\ Len(p) \in Nat
  BY LenProperties DEF Texts
<1>2. Rest(s, 0) = s
  BY <1>1, RestRest
<1>3. IsPrefix(p, Folded(s)) => Len(p) <= Len(s)
  BY FoldedOf DEF IsPrefix
<1>4. IsPrefix(p, Folded(s)) => Len(p) \in 0 .. Len(s) /\ SkipPrefix(s, p) = Rest(s, Len(p))
  BY <1>1, <1>3 DEF SkipPrefix
<1>5. ~IsPrefix(p, Folded(s)) => SkipPrefix(s, p) = s
  BY DEF SkipPrefix
<1>6. IsPrefix(p, Folded(s)) => SkipPrefix(s, p) \in Texts
  BY <1>4, RestOf
<1>7. 0 \in 0 .. Len(s)
  BY <1>1
<1>8. QED
  BY <1>2, <1>4, <1>5, <1>6, <1>7

-----------------------------------------------------------------------------
(* What comes before the owner. *)

Anything == Tokens \cup Words

\* A concatenation, place by place.
LEMMA Joined ==
  ASSUME NEW x \in Seq(Anything), NEW y \in Seq(Anything)
  PROVE  /\ x \o y \in Seq(Anything) /\ Len(x \o y) = Len(x) + Len(y)
         /\ Len(x) \in Nat /\ Len(y) \in Nat
         /\ \A i \in 1 .. Len(x) : (x \o y)[i] = x[i]
         /\ \A i \in 1 .. Len(y) : (x \o y)[Len(x) + i] = y[i]
         /\ <<>> \o y = y
<1>1. Len(x) \in Nat /\ Len(y) \in Nat
  BY LenProperties
<1>2. /\ x \o y \in Seq(Anything) /\ Len(x \o y) = Len(x) + Len(y)
      /\ \A i \in 1 .. Len(x) + Len(y) : (x \o y)[i] = IF i <= Len(x) THEN x[i] ELSE y[i - Len(x)]
  BY ConcatProperties
<1>3. \A i \in 1 .. Len(y) : /\ Len(x) + i \in 1 .. Len(x) + Len(y) /\ ~(Len(x) + i <= Len(x))
                             /\ Len(x) + i - Len(x) = i
  BY <1>1
<1>4. \A i \in 1 .. Len(x) : i \in 1 .. Len(x) + Len(y) /\ i <= Len(x)
  BY <1>1
<1>5. <<>> \o y = y
  BY ConcatEmptySeq
<1>6. QED
  BY <1>1, <1>2, <1>3, <1>4, <1>5

\* Texts, folded or not, are made of these.
LEMMA OfAnything == \A s : s \in Texts \/ s \in Seq(Words) => s \in Seq(Anything)
BY SeqDef DEF Texts, Anything

\* What is left of a text, and what is left of that.
IsEnd(u, s) == u \in Texts /\ \E n \in 0 .. Len(s) : u = Rest(s, n)

\* skip_prefix takes away a beginning, and leaves anything else alone.
LEMMA SkipTaken ==
  ASSUME NEW s \in Texts, NEW p \in Texts, NEW y \in Seq(Anything), Folded(s) = p \o y
  PROVE  /\ SkipPrefix(s, p) \in Texts /\ Folded(SkipPrefix(s, p)) = y
         /\ IsEnd(SkipPrefix(s, p), s)
<1>1. p \in Seq(Anything)
  BY OfAnything
<1>2. /\ Folded(s) \in Seq(Anything) /\ Len(Folded(s)) = Len(p) + Len(y)
      /\ Len(p) \in Nat /\ Len(y) \in Nat
      /\ \A i \in 1 .. Len(p) : Folded(s)[i] = p[i]
      /\ \A i \in 1 .. Len(y) : Folded(s)[Len(p) + i] = y[i]
  BY <1>1, Joined
<1>3. IsPrefix(p, Folded(s))
  <2>1. Len(p) <= Len(Folded(s))
    BY <1>2
  <2>2. QED
    BY <1>1, <1>2, <2>1, PrefixOf
<1>4. Len(p) \in 0 .. Len(s) /\ SkipPrefix(s, p) = Rest(s, Len(p))
  BY <1>3, Skipped
<1>5. Len(s) - Len(p) = Len(y)
  BY <1>2, FoldedOf
<1>6. /\ Folded(Rest(s, Len(p))) \in Seq(Words) /\ Len(Folded(Rest(s, Len(p)))) = Len(y)
      /\ \A i \in 1 .. Len(y) : Folded(Rest(s, Len(p)))[i] = y[i]
  BY <1>2, <1>4, <1>5, FoldedRest
<1>7. Folded(Rest(s, Len(p))) = y
  BY <1>6, OfAnything, SeqEqual
<1>8. QED
  BY <1>4, <1>7, Skipped DEF IsEnd

\* Or there is none to take away.
LEMMA SkipFolded ==
  ASSUME NEW s \in Texts, NEW p \in Texts, NEW part, NEW y \in Seq(Anything),
         Folded(s) = part \o y, part = p \/ (part = <<>> /\ ~IsPrefix(p, y))
  PROVE  /\ SkipPrefix(s, p) \in Texts /\ Folded(SkipPrefix(s, p)) = y
         /\ IsEnd(SkipPrefix(s, p), s)
<1>1. p \in Seq(Anything)
  BY OfAnything
<1>2. CASE part = p
  BY <1>2, SkipTaken
<1>3. CASE part = <<>> /\ ~IsPrefix(p, y)
  <2>1. Folded(s) = y
    BY <1>1, <1>3, Joined
  <2>2. QED
    BY <1>3, <2>1, Skipped DEF IsEnd
<1>4. QED
  BY <1>2, <1>3

\* Two beginnings that differ in a word.
LEMMA Differ ==
  ASSUME NEW p \in Texts, NEW part \in Texts, NEW y \in Seq(Anything), NEW k \in 1 .. Len(p),
         k \in 1 .. Len(part), p[k] # part[k]
  PROVE  ~IsPrefix(p, part \o y)
<1>1. p \in Seq(Anything) /\ part \in Seq(Anything)
  BY OfAnything
<1>2. part \o y \in Seq(Anything) /\ (part \o y)[k] = part[k]
  BY <1>1, Joined
<1> DEFINE x == part \o y
<1>3. IsPrefix(p, x) => \A i \in 1 .. Len(p) : p[i] = x[i]
  <2> HIDE DEF x
  <2>1. x \in Seq(Anything)
    BY <1>2 DEF x
  <2>2. QED
    BY <1>1, <2>1, PrefixOf
<1>4. QED
  BY <1>2, <1>3

\* The beginnings gf_normalize_repo knows.
LEMMA Leads ==
  /\ Https \in Texts /\ Len(Https) = 4 /\ Https[1] = "https"
  /\ Http \in Texts /\ Len(Http) = 4 /\ Http[1] = "http"
  /\ Www \in Texts /\ Len(Www) = 2 /\ Www[1] = "www"
  /\ Site \in Texts /\ Len(Site) = 4 /\ Site[1] = "github" /\ Site[4] = "/"
  /\ Clone \in Texts /\ Len(Clone) = 4 /\ Clone[1] = "github" /\ Clone[4] = ":"
  /\ Git \in Texts /\ Len(Git) = 2 /\ Git[1] = "git"
<1>1. Https \in Texts /\ Len(Https) = 4 /\ Https[1] = "https"
  BY DEF Https, Texts, Tokens
<1>2. Http \in Texts /\ Len(Http) = 4 /\ Http[1] = "http"
  BY DEF Http, Texts, Tokens
<1>3. Www \in Texts /\ Len(Www) = 2 /\ Www[1] = "www"
  BY DEF Www, Texts, Tokens
<1>4. Site \in Texts /\ Len(Site) = 4 /\ Site[1] = "github" /\ Site[4] = "/"
  BY DEF Site, Texts, Tokens
<1>5. Clone \in Texts /\ Len(Clone) = 4 /\ Clone[1] = "github" /\ Clone[4] = ":"
  BY DEF Clone, Texts, Tokens
<1>6. Git \in Texts /\ Len(Git) = 2 /\ Git[1] = "git"
  BY DEF Git, Texts, Tokens
<1>7. QED
  BY <1>1, <1>2, <1>3, <1>4, <1>5, <1>6

\* None of them.
NoLead(y) == \A p \in {Https, Http, Www, Site, Clone, Git} : ~IsPrefix(p, y)

\* What begins with one of the beginnings begins with no other.
LEMMA LeadsDiffer ==
  ASSUME NEW y \in Seq(Anything)
  PROVE  /\ \A p \in {Https} : ~IsPrefix(p, Http \o y)
         /\ \A p \in {Https, Http} : ~IsPrefix(p, Www \o y)
         /\ \A p \in {Https, Http, Www} : ~IsPrefix(p, Site \o y)
         /\ \A p \in {Https, Http, Www, Site} : ~IsPrefix(p, Clone \o y)
         /\ \A p \in {Https, Http, Www, Site, Clone} : ~IsPrefix(p, Git \o y)
<1>1. ~IsPrefix(Https, Http \o y)
  <2>1. Https \in Texts /\ Http \in Texts /\ 1 \in 1 .. Len(Https) /\ 1 \in 1 .. Len(Http) /\ Https[1] # Http[1]
    BY Leads
  <2>2. QED
    BY <2>1, Differ
<1>2. ~IsPrefix(Https, Www \o y)
  <2>1. Https \in Texts /\ Www \in Texts /\ 1 \in 1 .. Len(Https) /\ 1 \in 1 .. Len(Www) /\ Https[1] # Www[1]
    BY Leads
  <2>2. QED
    BY <2>1, Differ
<1>3. ~IsPrefix(Http, Www \o y)
  <2>1. Http \in Texts /\ Www \in Texts /\ 1 \in 1 .. Len(Http) /\ 1 \in 1 .. Len(Www) /\ Http[1] # Www[1]
    BY Leads
  <2>2. QED
    BY <2>1, Differ
<1>4. ~IsPrefix(Https, Site \o y)
  <2>1. Https \in Texts /\ Site \in Texts /\ 1 \in 1 .. Len(Https) /\ 1 \in 1 .. Len(Site) /\ Https[1] # Site[1]
    BY Leads
  <2>2. QED
    BY <2>1, Differ
<1>5. ~IsPrefix(Http, Site \o y)
  <2>1. Http \in Texts /\ Site \in Texts /\ 1 \in 1 .. Len(Http) /\ 1 \in 1 .. Len(Site) /\ Http[1] # Site[1]
    BY Leads
  <2>2. QED
    BY <2>1, Differ
<1>6. ~IsPrefix(Www, Site \o y)
  <2>1. Www \in Texts /\ Site \in Texts /\ 1 \in 1 .. Len(Www) /\ 1 \in 1 .. Len(Site) /\ Www[1] # Site[1]
    BY Leads
  <2>2. QED
    BY <2>1, Differ
<1>7. ~IsPrefix(Https, Clone \o y)
  <2>1. Https \in Texts /\ Clone \in Texts /\ 1 \in 1 .. Len(Https) /\ 1 \in 1 .. Len(Clone) /\ Https[1] # Clone[1]
    BY Leads
  <2>2. QED
    BY <2>1, Differ
<1>8. ~IsPrefix(Http, Clone \o y)
  <2>1. Http \in Texts /\ Clone \in Texts /\ 1 \in 1 .. Len(Http) /\ 1 \in 1 .. Len(Clone) /\ Http[1] # Clone[1]
    BY Leads
  <2>2. QED
    BY <2>1, Differ
<1>9. ~IsPrefix(Www, Clone \o y)
  <2>1. Www \in Texts /\ Clone \in Texts /\ 1 \in 1 .. Len(Www) /\ 1 \in 1 .. Len(Clone) /\ Www[1] # Clone[1]
    BY Leads
  <2>2. QED
    BY <2>1, Differ
<1>10. ~IsPrefix(Https, Git \o y)
  <2>1. Https \in Texts /\ Git \in Texts /\ 1 \in 1 .. Len(Https) /\ 1 \in 1 .. Len(Git) /\ Https[1] # Git[1]
    BY Leads
  <2>2. QED
    BY <2>1, Differ
<1>11. ~IsPrefix(Http, Git \o y)
  <2>1. Http \in Texts /\ Git \in Texts /\ 1 \in 1 .. Len(Http) /\ 1 \in 1 .. Len(Git) /\ Http[1] # Git[1]
    BY Leads
  <2>2. QED
    BY <2>1, Differ
<1>12. ~IsPrefix(Www, Git \o y)
  <2>1. Www \in Texts /\ Git \in Texts /\ 1 \in 1 .. Len(Www) /\ 1 \in 1 .. Len(Git) /\ Www[1] # Git[1]
    BY Leads
  <2>2. QED
    BY <2>1, Differ
<1>13. ~IsPrefix(Site, Git \o y)
  <2>1. Site \in Texts /\ Git \in Texts /\ 1 \in 1 .. Len(Site) /\ 1 \in 1 .. Len(Git) /\ Site[1] # Git[1]
    BY Leads
  <2>2. QED
    BY <2>1, Differ
<1>14. ~IsPrefix(Clone, Git \o y)
  <2>1. Clone \in Texts /\ Git \in Texts /\ 1 \in 1 .. Len(Clone) /\ 1 \in 1 .. Len(Git) /\ Clone[1] # Git[1]
    BY Leads
  <2>2. QED
    BY <2>1, Differ
<1>15. ~IsPrefix(Site, Clone \o y)
  <2>1. Site \in Texts /\ Clone \in Texts /\ 4 \in 1 .. Len(Site) /\ 4 \in 1 .. Len(Clone) /\ Site[4] # Clone[4]
    BY Leads
  <2>2. QED
    BY <2>1, Differ
<1>16. QED
  BY <1>1, <1>2, <1>3, <1>4, <1>5, <1>6, <1>7, <1>8, <1>9, <1>10, <1>11, <1>12, <1>13, <1>14, <1>15

\* An end of an end is one; ends of the same length are the same.
LEMMA Ends ==
  ASSUME NEW s \in Texts, NEW u, IsEnd(u, s)
  PROVE  /\ u \in Texts /\ IsEnd(s, s)
         /\ \A v : IsEnd(v, u) => IsEnd(v, s)
         /\ \A v : IsEnd(v, s) /\ Len(v) = Len(u) => v = u
<1>1. PICK n \in 0 .. Len(s) : u = Rest(s, n)
  BY DEF IsEnd
<1>2. Len(s) \in Nat /\ Rest(s, 0) = s /\ Len(u) = Len(s) - n /\ n \in Nat /\ n <= Len(s)
  BY <1>1, RestOf, RestRest, LenProperties DEF Texts
<1>3. IsEnd(s, s)
  BY <1>2 DEF IsEnd
<1>4. ASSUME NEW v, IsEnd(v, u) PROVE IsEnd(v, s)
  <2>1. PICK m \in 0 .. Len(u) : v = Rest(u, m)
    BY <1>4 DEF IsEnd
  <2>2. m \in Nat /\ n + m <= Len(s) /\ n + m \in 0 .. Len(s)
    BY <1>2, <2>1
  <2>3. v = Rest(s, n + m)
    BY <1>1, <1>2, <2>1, <2>2, RestRest
  <2>4. QED
    BY <1>4, <2>2, <2>3 DEF IsEnd
<1>5. ASSUME NEW v, IsEnd(v, s), Len(v) = Len(u) PROVE v = u
  <2>1. PICK m \in 0 .. Len(s) : v = Rest(s, m)
    BY <1>5 DEF IsEnd
  <2>2. Len(v) = Len(s) - m
    BY <2>1, RestOf
  <2>3. m = n
    BY <1>2, <1>5, <2>2
  <2>4. QED
    BY <1>1, <2>1, <2>3
<1>6. QED
  BY <1>3, <1>4, <1>5 DEF IsEnd

\* What gf_normalize_repo skips, in two parts.
BeforeGit(s) ==
  SkipPrefix(SkipPrefix(SkipPrefix(SkipPrefix(SkipPrefix(s, Https), Http), Www), Site), Clone)
AfterGit(u) == IF IsPrefix(Git, Folded(u)) THEN SkipPrefix(Rest(u, Len(Git)), Clone) ELSE u

\* Concatenations, one after another.
LEMMA Associative ==
  ASSUME NEW x \in Seq(Anything), NEW y \in Seq(Anything), NEW z \in Seq(Anything)
  PROVE  (x \o y) \o z = x \o (y \o z)
BY ConcatAssociative

\* They are made of the same.
LEMMA Concatenated ==
  ASSUME NEW x \in Seq(Anything), NEW y \in Seq(Anything)
  PROVE  x \o y \in Seq(Anything)
BY ConcatProperties

\* git@, with or without the host behind it.
LEMMA GitSkipped ==
  ASSUME NEW s \in Texts, NEW f \in Maybe(Git) \cup {Git \o Clone}, NEW t \in Seq(Anything), NoLead(t),
         Folded(s) = f \o t
  PROVE  IsEnd(AfterGit(s), s) /\ Folded(AfterGit(s)) = t
<1>1. Git \in Seq(Anything) /\ Clone \in Seq(Anything) /\ Clone \in Texts /\ Git \in Texts
  BY Leads, OfAnything
<1>2. ~IsPrefix(Git, t) /\ ~IsPrefix(Clone, t)
  BY DEF NoLead
<1>3. IsEnd(s, s)
  <2>1. Len(s) \in Nat
    BY LenProperties DEF Texts
  <2>2. 0 \in 0 .. Len(s) /\ s = Rest(s, 0)
    BY <2>1, RestRest
  <2>3. QED
    BY <2>2 DEF IsEnd
<1>4. CASE f = <<>>
  <2>1. Folded(s) = t
    BY <1>1, <1>4, Joined
  <2>2. AfterGit(s) = s
    BY <1>2, <2>1 DEF AfterGit
  <2>3. QED
    BY <1>3, <2>1, <2>2
<1>5. CASE f # <<>>
  <2>1. PICK g \in Maybe(Clone) : Folded(s) = Git \o (g \o t) /\ g \in Seq(Anything)
    <3>1. CASE f = Git
      BY <1>1, <3>1, Joined, EmptySeq DEF Maybe
    <3>2. CASE f = Git \o Clone
      <4>1. (Git \o Clone) \o t = Git \o (Clone \o t)
        BY <1>1, ConcatAssociative
      <4>2. Folded(s) = Git \o (Clone \o t) /\ Clone \in Maybe(Clone)
        BY <3>2, <4>1 DEF Maybe
      <4>3. QED
        BY <1>1, <4>2
    <3>3. QED
      BY <1>5, <3>1, <3>2 DEF Maybe
  <2>2. g \o t \in Seq(Anything)
    BY <2>1, Joined
  <2> DEFINE u == SkipPrefix(s, Git)
             v == SkipPrefix(u, Clone)
  <2>3. u \in Texts /\ Folded(u) = g \o t /\ IsEnd(u, s)
    <3> DEFINE y == g \o t
    <3>1. y \in Seq(Anything) /\ Folded(s) = Git \o y
      BY <2>1, <2>2
    <3> HIDE DEF y
    <3>2. u \in Texts /\ Folded(u) = y /\ IsEnd(u, s)
      BY <1>1, <3>1, SkipTaken
    <3>3. QED
      BY <3>2 DEF y
  <2>4. IsPrefix(Git, Folded(s))
    <3>1. Len(Git) <= Len(Folded(s)) /\ \A i \in 1 .. Len(Git) : Git[i] = Folded(s)[i]
      BY <1>1, <2>1, <2>2, Joined
    <3>2. Folded(s) \in Seq(Anything)
      BY <1>1, <2>1, <2>2, Joined
    <3>3. QED
      BY <1>1, <3>1, <3>2, PrefixOf
  <2>5. AfterGit(s) = v
    BY <2>4, Skipped, <1>1 DEF AfterGit
  <2>6. v \in Texts /\ Folded(v) = t /\ IsEnd(v, u)
    <3>1. g = Clone \/ (g = <<>> /\ ~IsPrefix(Clone, t))
      BY <1>2, <2>1 DEF Maybe
    <3> HIDE DEF u
    <3>2. QED
      BY <1>1, <2>3, <3>1, SkipFolded
  <2>7. QED
    BY <2>3, <2>5, <2>6, Ends
<1>6. QED
  BY <1>4, <1>5

\* All of a front is skipped, and nothing else.
LEMMA FrontSkipped ==
  ASSUME NEW s \in Texts, NEW front, IsLead(front), NEW t \in Seq(Anything), NoLead(t),
         Folded(s) = front \o t
  PROVE  IsEnd(AfterGit(BeforeGit(s)), s) /\ Folded(AfterGit(BeforeGit(s))) = t
<1> DEFINE A == Maybe(Https)
           B == Maybe(Http)
           C == Maybe(Www)
           D == Maybe(Site)
           E == Maybe(Clone)
           F == Maybe(Git) \cup {Git \o Clone}
           S == Seq(Anything)
<1>1. PICK a \in A, b \in B, c \in C, d \in D, e \in E, f \in F :
        front = a \o b \o c \o d \o e \o f
  BY DEF IsLead
<1> DEFINE y5 == f \o t
           y4 == e \o y5
           y3 == d \o y4
           y2 == c \o y3
           y1 == b \o y2
           p2 == a \o b
           p3 == p2 \o c
           p4 == p3 \o d
           p5 == p4 \o e
<1>2. /\ y5 \in S /\ y4 \in S /\ y3 \in S /\ y2 \in S /\ y1 \in S /\ Folded(s) = a \o y1
  <2>1. <<>> \in S /\ Https \in S /\ Http \in S /\ Www \in S /\ Site \in S /\ Clone \in S
    BY Leads, OfAnything, EmptySeq
  <2>2. Git \in S /\ Git \o Clone \in S
    BY Leads, OfAnything, Concatenated
  <2>3. a \in S
    BY <2>1 DEF Maybe
  <2>4. b \in S
    BY <2>1 DEF Maybe
  <2>5. c \in S
    BY <2>1 DEF Maybe
  <2>6. d \in S
    BY <2>1 DEF Maybe
  <2>7. e \in S
    BY <2>1 DEF Maybe
  <2>8. f \in S
    BY <2>1, <2>2 DEF Maybe
  <2> HIDE DEF A, B, C, D, E, F
  <2>9. Folded(s) = (p5 \o f) \o t
    BY <1>1
  <2>10. p2 \in S
    BY <2>3, <2>4, Concatenated
  <2> HIDE DEF p2
  <2>11. p3 \in S
    BY <2>5, <2>10, Concatenated
  <2> HIDE DEF p3
  <2>12. p4 \in S
    BY <2>6, <2>11, Concatenated
  <2> HIDE DEF p4
  <2>13. p5 \in S
    BY <2>7, <2>12, Concatenated
  <2> HIDE DEF p5
  <2>14. (p5 \o f) \o t = p5 \o (f \o t)
    BY <2>8, <2>13, Associative
  <2>15. y5 \in S
    BY <2>8, Concatenated
  <2>16. (p5 \o f) \o t = p5 \o y5
    BY <2>14
  <2> HIDE DEF y5
  <2>17. (p4 \o e) \o y5 = p4 \o (e \o y5)
    BY <2>7, <2>12, <2>15, Associative
  <2>18. y4 \in S
    BY <2>7, <2>15, Concatenated
  <2>19. p5 \o y5 = p4 \o y4
    BY <2>17 DEF p5
  <2> HIDE DEF y4
  <2>20. (p3 \o d) \o y4 = p3 \o (d \o y4)
    BY <2>6, <2>11, <2>18, Associative
  <2>21. y3 \in S
    BY <2>6, <2>18, Concatenated
  <2>22. p4 \o y4 = p3 \o y3
    BY <2>20 DEF p4
  <2> HIDE DEF y3
  <2>23. (p2 \o c) \o y3 = p2 \o (c \o y3)
    BY <2>5, <2>10, <2>21, Associative
  <2>24. y2 \in S
    BY <2>5, <2>21, Concatenated
  <2>25. p3 \o y3 = p2 \o y2
    BY <2>23 DEF p3
  <2> HIDE DEF y2
  <2>26. (a \o b) \o y2 = a \o (b \o y2)
    BY <2>3, <2>4, <2>24, Associative
  <2>27. y1 \in S
    BY <2>4, <2>24, Concatenated
  <2>28. p2 \o y2 = a \o y1
    BY <2>26 DEF p2
  <2> HIDE DEF y1, S
  <2>29. Folded(s) = a \o y1
    BY <2>9, <2>16, <2>19, <2>22, <2>25, <2>28
  <2>30. QED
    BY <2>15, <2>18, <2>21, <2>24, <2>27, <2>29
<1>3. \A y \in Seq(Anything) : <<>> \o y = y
  BY ConcatEmptySeq
<1>4. \A p \in {Https, Http, Www, Site, Clone} : ~IsPrefix(p, y5)
  <2>1. CASE f = <<>>
    BY <1>3, <2>1 DEF NoLead
  <2>2. CASE f = Git
    BY <2>2, LeadsDiffer
  <2>3. CASE f = Git \o Clone
    <3>1. Git \in Seq(Anything) /\ Clone \in Seq(Anything)
      BY Leads, OfAnything
    <3>2. y5 = Git \o (Clone \o t) /\ Clone \o t \in Seq(Anything)
      BY <2>3, <3>1, ConcatAssociative, ConcatProperties
    <3>3. QED
      BY <3>2, LeadsDiffer
  <2>4. QED
    BY <2>1, <2>2, <2>3 DEF Maybe
<1> HIDE DEF y5
<1>5. \A p \in {Https, Http, Www, Site} : ~IsPrefix(p, y4)
  <2>1. CASE e = <<>>
    BY <1>2, <1>3, <1>4, <2>1
  <2>2. CASE e = Clone
    BY <1>2, <2>2, LeadsDiffer
  <2>3. QED
    BY <2>1, <2>2 DEF Maybe
<1> HIDE DEF y4
<1>6. \A p \in {Https, Http, Www} : ~IsPrefix(p, y3)
  <2>1. CASE d = <<>>
    BY <1>2, <1>3, <1>5, <2>1
  <2>2. CASE d = Site
    BY <1>2, <2>2, LeadsDiffer
  <2>3. QED
    BY <2>1, <2>2 DEF Maybe
<1> HIDE DEF y3
<1>7. \A p \in {Https, Http} : ~IsPrefix(p, y2)
  <2>1. CASE c = <<>>
    BY <1>2, <1>3, <1>6, <2>1
  <2>2. CASE c = Www
    BY <1>2, <2>2, LeadsDiffer
  <2>3. QED
    BY <2>1, <2>2 DEF Maybe
<1> HIDE DEF y2
<1>8. ~IsPrefix(Https, y1)
  <2>1. CASE b = <<>>
    BY <1>2, <1>3, <1>7, <2>1
  <2>2. CASE b = Http
    BY <1>2, <2>2, LeadsDiffer
  <2>3. QED
    BY <2>1, <2>2 DEF Maybe
<1> HIDE DEF y1
<1> DEFINE s1 == SkipPrefix(s, Https)
           s2 == SkipPrefix(s1, Http)
           s3 == SkipPrefix(s2, Www)
           s4 == SkipPrefix(s3, Site)
           s5 == SkipPrefix(s4, Clone)
<1>9. Https \in Texts /\ Http \in Texts /\ Www \in Texts /\ Site \in Texts /\ Clone \in Texts
  BY Leads
<1>10. s1 \in Texts /\ Folded(s1) = y1 /\ IsEnd(s1, s)
  <2>1. a = Https \/ (a = <<>> /\ ~IsPrefix(Https, y1))
    BY <1>8 DEF Maybe
  <2>2. QED
    BY <1>2, <1>9, <2>1, SkipFolded
<1> HIDE DEF s1
<1>11. s2 \in Texts /\ Folded(s2) = y2 /\ IsEnd(s2, s1)
  <2>1. b = Http \/ (b = <<>> /\ ~IsPrefix(Http, y2))
    BY <1>7 DEF Maybe
  <2>2. Folded(s1) = b \o y2
    BY <1>10 DEF y1
  <2>3. QED
    BY <1>2, <1>9, <1>10, <2>1, <2>2, SkipFolded
<1> HIDE DEF s2
<1>12. s3 \in Texts /\ Folded(s3) = y3 /\ IsEnd(s3, s2)
  <2>1. c = Www \/ (c = <<>> /\ ~IsPrefix(Www, y3))
    BY <1>6 DEF Maybe
  <2>2. Folded(s2) = c \o y3
    BY <1>11 DEF y2
  <2>3. QED
    BY <1>2, <1>9, <1>11, <2>1, <2>2, SkipFolded
<1> HIDE DEF s3
<1>13. s4 \in Texts /\ Folded(s4) = y4 /\ IsEnd(s4, s3)
  <2>1. d = Site \/ (d = <<>> /\ ~IsPrefix(Site, y4))
    BY <1>5 DEF Maybe
  <2>2. Folded(s3) = d \o y4
    BY <1>12 DEF y3
  <2>3. QED
    BY <1>2, <1>9, <1>12, <2>1, <2>2, SkipFolded
<1> HIDE DEF s4
<1>14. s5 \in Texts /\ Folded(s5) = y5 /\ IsEnd(s5, s4)
  <2>1. e = Clone \/ (e = <<>> /\ ~IsPrefix(Clone, y5))
    BY <1>4 DEF Maybe
  <2>2. Folded(s4) = e \o y5
    BY <1>13 DEF y4
  <2>3. QED
    BY <1>2, <1>9, <1>13, <2>1, <2>2, SkipFolded
<1>15. BeforeGit(s) = s5
  BY DEF BeforeGit, s1, s2, s3, s4
<1> HIDE DEF s5
<1>16. IsEnd(AfterGit(s5), s5) /\ Folded(AfterGit(s5)) = t
  BY <1>14, GitSkipped DEF y5
<1>17. IsEnd(s5, s4) /\ IsEnd(s4, s3) /\ IsEnd(s3, s2) /\ IsEnd(s2, s1) /\ IsEnd(s1, s)
  BY <1>10, <1>11, <1>12, <1>13, <1>14
<1>18. IsEnd(AfterGit(s5), s3)
  BY <1>12, <1>13, <1>16, <1>17, Ends
<1>19. IsEnd(AfterGit(s5), s1)
  BY <1>10, <1>11, <1>17, <1>18, Ends
<1>20. IsEnd(AfterGit(s5), s)
  BY <1>17, <1>19, Ends
<1>21. QED
  BY <1>15, <1>16, <1>20

\* A part of a text.
LEMMA PartOf ==
  ASSUME NEW s \in Texts, NEW n \in Nat, NEW b \in 0 .. Len(s), n <= b
  PROVE  /\ SubSeq(s, n + 1, b) \in Texts /\ Len(SubSeq(s, n + 1, b)) = b - n
         /\ Len(s) \in Nat /\ b \in Nat
         /\ \A i \in 1 .. b - n : SubSeq(s, n + 1, b)[i] = s[n + i]
<1>1. Len(s) \in Nat /\ b \in Nat /\ b <= Len(s)
  BY LenProperties DEF Texts
<1>2. /\ SubSeq(s, n + 1, b) \in Seq(Tokens)
      /\ Len(SubSeq(s, n + 1, b)) = IF n + 1 <= b THEN b - (n + 1) + 1 ELSE 0
      /\ \A i \in 1 .. b - (n + 1) + 1 : SubSeq(s, n + 1, b)[i] = s[n + 1 + i - 1]
  <2>1. \A i \in n + 1 .. b : i \in 1 .. Len(s)
    BY <1>1
  <2>2. \A i \in n + 1 .. b : s[i] \in Tokens
    BY <2>1, ElementOfSeq DEF Texts
  <2>3. n + 1 \in Int /\ b \in Int
    BY <1>1
  <2>4. QED
    BY <2>2, <2>3, SubSeqProperties
<1>3. Len(SubSeq(s, n + 1, b)) = b - n
  BY <1>1, <1>2
<1>4. \A i \in 1 .. b - n : SubSeq(s, n + 1, b)[i] = s[n + i]
  BY <1>1, <1>2
<1>5. QED
  BY <1>1, <1>2, <1>3, <1>4 DEF Texts

\* The beginning of a text.
LEMMA StartOf ==
  ASSUME NEW s \in Texts, NEW b \in 0 .. Len(s)
  PROVE  /\ SubSeq(s, 1, b) \in Texts /\ Len(SubSeq(s, 1, b)) = b /\ Len(s) \in Nat /\ b \in Nat
         /\ \A i \in 1 .. b : SubSeq(s, 1, b)[i] = s[i]
<1> DEFINE n == 0
<1>1. n \in Nat /\ n <= b /\ n + 1 = 1
  OBVIOUS
<1> HIDE DEF n
<1>2. /\ SubSeq(s, n + 1, b) \in Texts /\ Len(SubSeq(s, n + 1, b)) = b - n
      /\ Len(s) \in Nat /\ b \in Nat
      /\ \A i \in 1 .. b - n : SubSeq(s, n + 1, b)[i] = s[n + i]
  BY <1>1, PartOf
<1>3. b - n = b /\ \A i \in Int : n + i = i
  BY <1>2 DEF n
<1>4. QED
  BY <1>1, <1>2, <1>3

\* The words a beginning begins with.
Starts == {"https", "http", "www", "github", "git"}
Begins(x) == x \in Seq(Anything) /\ (Len(x) > 0 => x[1] \in Starts)

LEMMA BeginsJoined ==
  ASSUME NEW x, NEW y, Begins(x), Begins(y)
  PROVE  Begins(x \o y)
<1>1. /\ x \o y \in Seq(Anything) /\ Len(x \o y) = Len(x) + Len(y)
      /\ Len(x) \in Nat /\ Len(y) \in Nat
      /\ \A i \in 1 .. Len(x) : (x \o y)[i] = x[i]
      /\ \A i \in 1 .. Len(y) : (x \o y)[Len(x) + i] = y[i]
  BY Joined DEF Begins
<1>2. CASE Len(x) > 0
  BY <1>1, <1>2 DEF Begins
<1>3. CASE Len(x) = 0
  <2>1. Len(y) > 0 => (x \o y)[1] = y[1]
    BY <1>1, <1>3
  <2>2. QED
    BY <1>1, <1>3, <2>1 DEF Begins
<1>4. QED
  BY <1>1, <1>2, <1>3

LEMMA LeadBegins ==
  ASSUME NEW x, IsLead(x)
  PROVE  Begins(x)
<1>1. PICK a \in Maybe(Https), b \in Maybe(Http), c \in Maybe(Www), d \in Maybe(Site),
           e \in Maybe(Clone), f \in Maybe(Git) \cup {Git \o Clone} :
             x = a \o b \o c \o d \o e \o f
  BY DEF IsLead
<1>2. Begins(<<>>)
  BY EmptySeq DEF Begins
<1>3. Begins(Https) /\ Begins(Http) /\ Begins(Www) /\ Begins(Site) /\ Begins(Clone) /\ Begins(Git)
  BY Leads, OfAnything DEF Begins, Starts
<1>4. Begins(Git \o Clone)
  BY <1>3, BeginsJoined
<1>5. Begins(a) /\ Begins(b) /\ Begins(c) /\ Begins(d) /\ Begins(e) /\ Begins(f)
  BY <1>2, <1>3, <1>4 DEF Maybe
<1>6. Begins(a \o b)
  BY <1>5, BeginsJoined
<1>7. Begins(a \o b \o c)
  BY <1>5, <1>6, BeginsJoined
<1>8. Begins(a \o b \o c \o d)
  BY <1>5, <1>7, BeginsJoined
<1>9. Begins(a \o b \o c \o d \o e)
  BY <1>5, <1>8, BeginsJoined
<1>10. QED
  BY <1>1, <1>5, <1>9, BeginsJoined

\* Nothing, and each of them alone, is a beginning.
LEMMA LeadAlone == IsLead(<<>>) /\ IsLead(Https) /\ IsLead(Http)
<1>1. /\ <<>> \in Maybe(Https) /\ <<>> \in Maybe(Http) /\ <<>> \in Maybe(Www) /\ <<>> \in Maybe(Site)
      /\ <<>> \in Maybe(Clone) /\ <<>> \in Maybe(Git) \cup {Git \o Clone}
      /\ Https \in Maybe(Https) /\ Http \in Maybe(Http)
  BY DEF Maybe
<1>2. ASSUME NEW x \in {<<>>, Https, Http}
      PROVE  <<>> \o x = x /\ x \o <<>> = x
  <2>1. x \in Texts
    BY Leads, EmptySeq DEF Texts
  <2>2. QED
    BY <2>1, ConcatEmptySeq DEF Texts
<1>3. <<>> = <<>> \o <<>> \o <<>> \o <<>> \o <<>> \o <<>>
  <2>1. <<>> \o <<>> = <<>>
    BY <1>2
  <2>2. QED
    BY <2>1
<1>4. Https = Https \o <<>> \o <<>> \o <<>> \o <<>> \o <<>>
  <2>1. Https \o <<>> = Https
    BY <1>2
  <2>2. QED
    BY <2>1
<1>5. Http = <<>> \o Http \o <<>> \o <<>> \o <<>> \o <<>>
  <2>1. Http \o <<>> = Http /\ <<>> \o Http = Http
    BY <1>2
  <2>2. QED
    BY <2>1
<1>6. IsLead(<<>>)
  BY <1>1, <1>3, Zenon DEF IsLead
<1>7. IsLead(Https)
  BY <1>1, <1>4, Zenon DEF IsLead
<1>8. IsLead(Http)
  BY <1>1, <1>5, Zenon DEF IsLead
<1>9. QED
  BY <1>6, <1>7, <1>8

\* What stands before the owner is skipped, and no more.
LEMMA OwnerFound ==
  ASSUME NEW text \in Texts, NEW n \in Nat, n < Len(text), IsFront(SubSeq(text, 1, n)),
         ~IsSpace(text[n + 1]), ~IsSlash(text[n + 1]), NoLead(Folded(Rest(text, n)))
  PROVE  FromOwner(text) = Rest(text, n)
<1> DEFINE front == SubSeq(text, 1, n)
           t == Rest(text, n)
<1>1. Len(text) \in Nat /\ n \in 0 .. Len(text)
  BY LenProperties DEF Texts
<1>2. /\ front \in Texts /\ Len(front) = n /\ \A i \in 1 .. n : front[i] = text[i]
  BY <1>1, StartOf
<1>3. /\ t \in Texts /\ Len(t) = Len(text) - n /\ \A i \in 1 .. Len(text) - n : t[i] = text[n + i]
  BY <1>1, RestOf
<1>4. PICK k \in 0 .. Len(front) : SpacesAre(front, k) /\ IsLead(Folded(Rest(front, k)))
  BY DEF IsFront
<1> DEFINE lead == Folded(Rest(front, k))
           s == Rest(text, k)
<1> HIDE DEF front, t
<1>5. /\ k \in Nat /\ k <= n /\ k \in 0 .. Len(text)
      /\ \A i \in 1 .. k : IsSpace(text[i])
  <2>1. k \in Nat /\ k <= n /\ k \in 0 .. Len(text)
    BY <1>1, <1>2, <1>4
  <2>2. \A i \in 1 .. k : IsSpace(front[i]) /\ i \in 1 .. n
    BY <1>4, <2>1 DEF SpacesAre
  <2>3. QED
    BY <1>2, <2>1, <2>2
<1>6. /\ Len(lead) = n - k /\ lead \in Seq(Anything)
      /\ \A i \in 1 .. n - k : lead[i] = Plain(text[k + i])
  <2>1. /\ Rest(front, k) \in Texts /\ Len(Rest(front, k)) = n - k
        /\ \A i \in 1 .. n - k : Rest(front, k)[i] = front[k + i]
    BY <1>2, <1>4, RestOf
  <2>2. /\ lead \in Seq(Words) /\ Len(lead) = n - k
        /\ \A i \in 1 .. n - k : lead[i] = Plain(Rest(front, k)[i])
    BY <2>1, FoldedOf
  <2>3. \A i \in 1 .. n - k : k + i \in 1 .. n
    BY <1>5
  <2>4. \A i \in 1 .. n - k : lead[i] = Plain(text[k + i])
    BY <1>2, <2>1, <2>2, <2>3
  <2>5. QED
    BY <2>2, <2>4, OfAnything
<1>7. Begins(lead) /\ IsLead(lead)
  BY <1>4, LeadBegins
<1> HIDE DEF lead
<1>8. ~IsSpace(text[k + 1])
  <2>1. CASE k = n
    BY <2>1
  <2>2. CASE k # n
    <3>1. lead[1] \in Starts /\ lead[1] = Plain(text[k + 1])
      BY <1>5, <1>6, <1>7, <2>2 DEF Begins
    <3>2. text[k + 1] # " "
      <4>1. Plain(" ") = " "
        BY SignsStay DEF Signs
      <4>2. QED
        BY <3>1, <4>1 DEF Starts
    <3>3. QED
      BY <3>2 DEF IsSpace
  <2>3. QED
    BY <2>1, <2>2
<1>9. Span(text, IsSpace) = k
  <2> DEFINE sp == Span(text, IsSpace)
  <2>1. /\ sp \in 0 .. Len(text) /\ \A i \in 1 .. sp : IsSpace(text[i])
        /\ sp < Len(text) => ~IsSpace(text[sp + 1])
    BY SpanSpaces
  <2> HIDE DEF sp
  <2>2. ~(sp < k)
    BY <1>1, <1>5, <2>1
  <2>3. ~(k < sp)
    <3>1. k < sp => k + 1 \in 1 .. sp
      BY <1>5, <2>1
    <3>2. QED
      BY <1>8, <2>1, <3>1
  <2>4. sp = k
    BY <1>5, <2>1, <2>2, <2>3
  <2>5. QED
    BY <2>4 DEF sp
<1>10. s \in Texts /\ Len(s) = Len(text) - k /\ IsEnd(s, text) /\ IsEnd(t, text)
  BY <1>1, <1>3, <1>5, RestOf DEF IsEnd, t
<1>11. Folded(t) \in Seq(Anything) /\ Len(Folded(t)) = Len(text) - n
  BY <1>3, FoldedOf, OfAnything
<1>12. Folded(s) = lead \o Folded(t)
  <2>1. /\ lead \o Folded(t) \in Seq(Anything) /\ Len(lead \o Folded(t)) = (n - k) + (Len(text) - n)
        /\ \A i \in 1 .. n - k : (lead \o Folded(t))[i] = lead[i]
        /\ \A i \in 1 .. Len(text) - n : (lead \o Folded(t))[n - k + i] = Folded(t)[i]
    <3> DEFINE y == Folded(t)
    <3>1. lead \in Seq(Anything) /\ y \in Seq(Anything) /\ Len(lead) = n - k /\ Len(y) = Len(text) - n
      BY <1>6, <1>11
    <3> HIDE DEF y
    <3>2. /\ lead \o y \in Seq(Anything) /\ Len(lead \o y) = Len(lead) + Len(y)
          /\ \A i \in 1 .. Len(lead) : (lead \o y)[i] = lead[i]
          /\ \A i \in 1 .. Len(y) : (lead \o y)[Len(lead) + i] = y[i]
      BY <3>1, Joined
    <3>3. QED
      BY <3>1, <3>2 DEF y
  <2>2. /\ Folded(s) \in Seq(Anything) /\ Len(Folded(s)) = Len(text) - k
        /\ \A i \in 1 .. Len(text) - k : Folded(s)[i] = Plain(s[i]) /\ s[i] = text[k + i]
    BY <1>5, <1>10, FoldedOf, OfAnything, RestOf
  <2>3. \A i \in 1 .. n - k : (lead \o Folded(t))[i] = Folded(s)[i]
    <3>1. \A i \in 1 .. n - k : i \in 1 .. Len(text) - k
      BY <1>1, <1>5
    <3>2. QED
      BY <1>6, <2>1, <2>2, <3>1
  <2>4. \A i \in 1 .. Len(text) - n : (lead \o Folded(t))[n - k + i] = Folded(s)[n - k + i]
    <3>1. \A i \in 1 .. Len(text) - n : Folded(t)[i] = Plain(t[i])
      BY <1>3, FoldedOf
    <3>2. \A i \in 1 .. Len(text) - n : n - k + i \in 1 .. Len(text) - k /\ k + (n - k + i) = n + i
      BY <1>1, <1>5
    <3> TAKE i \in 1 .. Len(text) - n
    <3>3. /\ n - k + i \in 1 .. Len(text) - k /\ k + (n - k + i) = n + i
          /\ Folded(t)[i] = Plain(t[i]) /\ t[i] = text[n + i]
      BY <1>3, <3>1, <3>2
    <3>4. PICK j \in 1 .. Len(text) - k : j = n - k + i
      BY <3>3
    <3>5. Folded(s)[j] = Plain(text[k + j])
      BY <2>2
    <3>6. k + j = n + i
      BY <3>3, <3>4
    <3>7. Folded(s)[j] = Folded(t)[i]
      BY <3>3, <3>5, <3>6
    <3>8. (lead \o Folded(t))[n - k + i] = Folded(t)[i]
      BY <2>1
    <3>9. QED
      BY <3>4, <3>7, <3>8
  <2>5. \A i \in 1 .. Len(text) - k : (lead \o Folded(t))[i] = Folded(s)[i]
    <3> TAKE i \in 1 .. Len(text) - k
    <3>1. CASE i <= n - k
      <4>1. i \in 1 .. n - k
        BY <1>1, <1>5, <3>1
      <4>2. QED
        BY <2>3, <4>1
    <3>2. CASE ~(i <= n - k)
      <4>1. PICK j \in Int : j = i - (n - k)
        BY <1>1, <1>5
      <4>2. j \in 1 .. Len(text) - n /\ n - k + j = i
        BY <1>1, <1>5, <3>2, <4>1
      <4>3. QED
        BY <2>4, <4>2
    <3>3. QED
      BY <3>1, <3>2
  <2>6. Len(lead \o Folded(t)) = Len(text) - k
    BY <1>1, <1>5, <2>1
  <2> HIDE DEF s
  <2>7. QED
    BY <2>1, <2>2, <2>5, <2>6, SeqEqual
<1> DEFINE v == AfterGit(BeforeGit(s))
<1>13. IsEnd(v, s) /\ Folded(v) = Folded(t)
  <2>1. NoLead(Folded(t))
    BY DEF t
  <2> HIDE DEF s
  <2>2. QED
    BY <1>7, <1>10, <1>11, <1>12, <2>1, FrontSkipped
<1>14. FromOwner(text) = Rest(v, Span(v, IsSlash))
  BY <1>9 DEF FromOwner, BeforeGit, AfterGit
<1> HIDE DEF v, s
<1>15. v = t
  <2>1. v \in Texts /\ Len(v) = Len(t)
    <3>1. v \in Texts
      BY <1>13 DEF IsEnd
    <3>2. QED
      BY <1>3, <1>13, <3>1, FoldedOf
  <2>2. IsEnd(v, text)
    BY <1>10, <1>13, Ends
  <2>3. QED
    BY <1>10, <2>1, <2>2, Ends
<1>16. Span(t, IsSlash) = 0 /\ Rest(t, 0) = t
  <2>1. t[1] = text[n + 1] /\ Len(t) \in Nat /\ Len(t) > 0
    BY <1>1, <1>3
  <2>2. /\ Span(t, IsSlash) \in 0 .. Len(t) /\ \A i \in 1 .. Span(t, IsSlash) : IsSlash(t[i])
    BY <1>3, SpanSlashes
  <2>3. ~(Span(t, IsSlash) > 0)
    <3>1. Span(t, IsSlash) > 0 => 1 \in 1 .. Span(t, IsSlash)
      BY <2>1, <2>2
    <3>2. QED
      BY <2>1, <2>2, <3>1
  <2>4. QED
    BY <1>3, <2>1, <2>2, <2>3, RestRest
<1>17. QED
  BY <1>14, <1>15, <1>16 DEF t

-----------------------------------------------------------------------------
(* Where the name ends. *)

\* The second sign of every beginning: none is a slash.
LEMMA LeadSigns ==
  \A p \in {Https, Http, Www, Site, Clone, Git} :
    /\ p \in Texts /\ p \in Seq(Anything) /\ Len(p) \in Nat /\ Len(p) > 1
    /\ p[2] # "/" /\ (p = Git => p[2] = "@")
    /\ p # Git => p[1] \in {"https", "http", "www", "github"}
<1>1. /\ Https[2] = ":" /\ Http[2] = ":" /\ Www[2] = "." /\ Site[2] = "." /\ Clone[2] = "."
      /\ Git[2] = "@"
  BY DEF Https, Http, Www, Site, Clone, Git
<1>2. \A p \in {Https, Http, Www, Site, Clone, Git} : p \in Texts /\ Len(p) \in {2, 4}
  BY Leads
<1>3. \A p \in {Https, Http, Www, Site, Clone, Git} :
        p \in Seq(Anything) /\ Len(p) \in Nat /\ Len(p) > 1
  <2> TAKE p \in {Https, Http, Www, Site, Clone, Git}
  <2>1. p \in Texts /\ (Len(p) = 2 \/ Len(p) = 4)
    BY <1>2
  <2>2. Len(p) \in Nat /\ Len(p) > 1
    <3> DEFINE l == Len(p)
    <3>1. l = 2 \/ l = 4
      BY <2>1
    <3> HIDE DEF l
    <3>2. l \in Nat /\ l > 1
      BY <3>1
    <3>3. QED
      BY <3>2 DEF l
  <2>3. QED
    BY <2>1, <2>2, OfAnything
<1>4. QED
  <2>1. \A p \in {Https, Http, Www, Site, Clone, Git} : p[2] # "/" /\ (p = Git => p[2] = "@")
    BY <1>1
  <2>2. \A p \in {Https, Http, Www, Site, Clone, Git} :
          p # Git => p[1] \in {"https", "http", "www", "github"}
    BY Leads
  <2>3. QED
    BY <1>2, <1>3, <2>1, <2>2

\* After an owner comes a slash.
LEMMA OwnerNoLead ==
  ASSUME NEW t \in Texts, Len(t) > 1, t[2] = "/"
  PROVE  NoLead(Folded(t))
<1>1. Folded(t) \in Seq(Words) /\ Len(Folded(t)) = Len(t) /\ Len(t) \in Nat
  BY FoldedOf, LenProperties DEF Texts
<1>2. Folded(t)[2] = "/"
  <2>1. Plain("/") = "/"
    BY SignsStay DEF Signs
  <2>3. 2 \in 1 .. Len(t)
    BY <1>1
  <2>2. QED
    BY <2>1, <2>3, FoldedOf
<1> SUFFICES ASSUME NEW p \in {Https, Http, Www, Site, Clone, Git}
             PROVE  ~IsPrefix(p, Folded(t))
  BY DEF NoLead
<1>3. p \in Seq(Anything) /\ 2 \in 1 .. Len(p) /\ p[2] # "/"
  BY LeadSigns
<1>4. QED
  BY <1>1, <1>2, <1>3, PrefixOf

\* After the name of another service comes a dot or a colon.
LEMMA OtherNoLead ==
  ASSUME NEW t \in Texts, Len(t) > 1, t[2] \in {".", ":"},
         Folded(t)[1] \notin {"https", "http", "www", "github"}
  PROVE  NoLead(Folded(t))
<1>1. Folded(t) \in Seq(Words) /\ Len(Folded(t)) = Len(t) /\ Len(t) \in Nat
  BY FoldedOf, LenProperties DEF Texts
<1>2. Folded(t)[2] # "@"
  <2>1. Plain(".") = "." /\ Plain(":") = ":"
    BY SignsStay DEF Signs
  <2>2. 2 \in 1 .. Len(t)
    BY <1>1
  <2>3. QED
    BY <2>1, <2>2, FoldedOf
<1> SUFFICES ASSUME NEW p \in {Https, Http, Www, Site, Clone, Git}
             PROVE  ~IsPrefix(p, Folded(t))
  BY DEF NoLead
<1>3. p \in Seq(Anything) /\ 2 \in 1 .. Len(p) /\ 1 \in 1 .. Len(p)
  BY LeadSigns
<1>4. IsPrefix(p, Folded(t)) => p[1] = Folded(t)[1] /\ p[2] = Folded(t)[2]
  BY <1>1, <1>3, PrefixOf
<1>5. QED
  BY <1>2, <1>4, LeadSigns

\* A text back to front.
LEMMA Reversed ==
  ASSUME NEW A, NEW s \in Seq(A)
  PROVE  /\ Reverse(s) \in Seq(A) /\ Len(Reverse(s)) = Len(s) /\ Len(s) \in Nat
         /\ \A i \in 1 .. Len(s) : Reverse(s)[i] = s[Len(s) - i + 1]
<1>1. Len(s) \in Nat
  BY LenProperties
<1>2. \A i \in 1 .. Len(s) : Len(s) - i + 1 \in 1 .. Len(s)
  BY <1>1
<1>3. \A i \in 1 .. Len(s) : s[Len(s) - i + 1] \in A
  BY <1>2, ElementOfSeq
<1>4. Reverse(s) \in [1 .. Len(s) -> A]
  BY <1>3 DEF Reverse
<1>5. Reverse(s) \in Seq(A) /\ DOMAIN Reverse(s) = 1 .. Len(s)
  BY <1>1, <1>4, SeqDef
<1>6. Len(Reverse(s)) = Len(s)
  <2>1. Len(Reverse(s)) \in Nat /\ 1 .. Len(Reverse(s)) = 1 .. Len(s)
    BY <1>5, LenProperties
  <2>2. QED
    BY <1>1, <2>1
<1>7. QED
  BY <1>1, <1>5, <1>6 DEF Reverse

\* What ends in .git.
DotGit == <<".", "git">>
LEMMA SuffixOf ==
  ASSUME NEW A, NEW t \in Seq(A), Len(t) > 1
  PROVE  IsSuffix(DotGit, t) <=> t[Len(t) - 1] = "." /\ t[Len(t)] = "git"
<1>1. DotGit \in Seq({".", "git"}) /\ Len(DotGit) = 2 /\ DotGit[1] = "." /\ DotGit[2] = "git"
  BY DEF DotGit
<1> HIDE DEF DotGit
<1>2. /\ Reverse(DotGit) \in Seq({".", "git"}) /\ Len(Reverse(DotGit)) = 2
      /\ Reverse(DotGit)[1] = "git" /\ Reverse(DotGit)[2] = "."
  BY <1>1, Reversed
<1>3. /\ Reverse(t) \in Seq(A) /\ Len(Reverse(t)) = Len(t) /\ Len(t) \in Nat
      /\ \A i \in 1 .. Len(t) : Reverse(t)[i] = t[Len(t) - i + 1]
  BY Reversed
<1>4. Reverse(t)[1] = t[Len(t)] /\ Reverse(t)[2] = t[Len(t) - 1]
  <2>1. /\ 1 \in 1 .. Len(t) /\ 2 \in 1 .. Len(t)
        /\ Len(t) - 1 + 1 = Len(t) /\ Len(t) - 2 + 1 = Len(t) - 1
    BY <1>3
  <2>2. Reverse(t)[1] = t[Len(t) - 1 + 1] /\ Reverse(t)[2] = t[Len(t) - 2 + 1]
    BY <1>3, <2>1
  <2>3. QED
    BY <2>1, <2>2
<1>5. IsPrefix(Reverse(DotGit), Reverse(t))
        <=> \A i \in 1 .. 2 : Reverse(DotGit)[i] = Reverse(t)[i]
  <2>1. 2 <= Len(t) /\ Len(Reverse(DotGit)) <= Len(Reverse(t))
    BY <1>2, <1>3
  <2>2. IsPrefix(Reverse(DotGit), Reverse(t))
          <=> \A i \in 1 .. Len(Reverse(DotGit)) : Reverse(DotGit)[i] = Reverse(t)[i]
    <3> DEFINE p == Reverse(DotGit)
               q == Reverse(t)
               W == {".", "git"}
    <3>1. p \in Seq(W) /\ q \in Seq(A) /\ Len(p) <= Len(q)
      BY <1>2, <1>3, <2>1
    <3> HIDE DEF p, q, W
    <3>2. IsPrefix(p, q) <=> Len(p) <= Len(q) /\ \A i \in 1 .. Len(p) : p[i] = q[i]
      BY <3>1, PrefixOf
    <3>3. QED
      BY <3>1, <3>2 DEF p, q
  <2>3. QED
    BY <1>2, <2>2
<1>6. 1 .. 2 = {1, 2}
  OBVIOUS
<1>7. QED
  BY <1>2, <1>4, <1>5, <1>6 DEF IsSuffix

\* .git goes, once.
LEMMA WithoutDotGit ==
  ASSUME NEW t \in Texts, Len(t) > 2
  PROVE  IF Plain(t[Len(t) - 1]) = "." /\ Plain(t[Len(t)]) = "git"
         THEN WithoutGit(t) = SubSeq(t, 1, Len(t) - 2) ELSE WithoutGit(t) = t
<1>1. /\ Folded(t) \in Seq(Words) /\ Len(Folded(t)) = Len(t) /\ Len(t) \in Nat
      /\ \A i \in 1 .. Len(t) : Folded(t)[i] = Plain(t[i])
  BY FoldedOf, LenProperties DEF Texts
<1>2. Len(t) - 1 \in 1 .. Len(t) /\ Len(t) \in 1 .. Len(t) /\ Len(t) > 1
  BY <1>1
<1>3. IsSuffix(DotGit, Folded(t)) <=> Folded(t)[Len(t) - 1] = "." /\ Folded(t)[Len(t)] = "git"
  BY <1>1, <1>2, SuffixOf
<1>4. IsSuffix(DotGit, Folded(t)) <=> Plain(t[Len(t) - 1]) = "." /\ Plain(t[Len(t)]) = "git"
  BY <1>1, <1>2, <1>3
<1>5. WithoutGit(t) = IF IsSuffix(DotGit, Folded(t)) THEN SubSeq(t, 1, Len(t) - 2) ELSE t
  BY DEF WithoutGit, DotGit
<1>6. QED
  BY <1>4, <1>5

\* .git, however it is spelled, can be part of a name.
LEMMA GitIsName ==
  ASSUME NEW x, Plain(x) \in {".", "git"}
  PROVE  RepoToken(x)
<1>1. CASE x \in DOMAIN Lowered
  <2>1. x \notin Signs
    BY <1>1, AddressAssumption
  <2>2. QED
    BY <2>1 DEF RepoToken
<1>2. CASE x \notin DOMAIN Lowered
  BY <1>2 DEF Plain, RepoToken, Signs
<1>3. QED
  BY <1>1, <1>2

\* A run that stops at m is m long.
LEMMA RunOf ==
  ASSUME NEW s \in Texts, NEW m \in 0 .. Len(s), \A i \in 1 .. m : RepoToken(s[i]),
         m < Len(s) => ~RepoToken(s[m + 1])
  PROVE  Span(s, RepoToken) = m
<1> DEFINE sp == Span(s, RepoToken)
<1>1. /\ sp \in 0 .. Len(s) /\ \A i \in 1 .. sp : RepoToken(s[i])
      /\ sp < Len(s) => ~RepoToken(s[sp + 1])
  BY SpanTokens
<1> HIDE DEF sp
<1>2. Len(s) \in Nat /\ m \in Nat /\ sp \in Nat /\ m <= Len(s) /\ sp <= Len(s)
  BY <1>1, LenProperties DEF Texts
<1>3. ~(sp < m)
  <2>1. sp < m => sp + 1 \in 1 .. m /\ sp < Len(s)
    BY <1>2
  <2>2. QED
    BY <1>1, <2>1
<1>4. ~(m < sp)
  <2>1. m < sp => m + 1 \in 1 .. sp /\ m < Len(s)
    BY <1>2
  <2>2. QED
    BY <1>1, <2>1
<1>5. sp = m
  BY <1>2, <1>3, <1>4
<1>6. QED
  BY <1>5 DEF sp

\* The repository ends where the name does, with or without .git behind it.
LEMMA NameEnds ==
  ASSUME NEW t \in Texts, NEW r \in Texts, IsName(r), Len(r) <= Len(t),
         \A i \in 1 .. Len(r) : t[i] = r[i], IsTail(Rest(t, Len(r)))
  PROVE  WithoutGit(SubSeq(Rest(t, 2), 1, Span(Rest(t, 2), RepoToken))) = Rest(r, 2)
<1> DEFINE after == Rest(t, 2)
           name == Rest(r, 2)
           tail == Rest(t, Len(r))
<1>1. Len(t) \in Nat /\ Len(r) \in Nat /\ Len(r) > 2 /\ Len(r) \in 0 .. Len(t)
      /\ 2 \in 0 .. Len(t) /\ 2 \in 0 .. Len(r)
  BY LenProperties DEF Texts, IsName
<1>2. PICK m \in Nat : m = Len(r) - 2
  BY <1>1
<1>3. /\ after \in Texts /\ Len(after) = Len(t) - 2
      /\ \A i \in 1 .. Len(t) - 2 : after[i] = t[2 + i]
  BY <1>1, RestOf
<1>4. /\ name \in Texts /\ Len(name) = m /\ m > 0
      /\ \A i \in 1 .. m : name[i] = r[2 + i]
  <2>1. /\ name \in Texts /\ Len(name) = Len(r) - 2
        /\ \A i \in 1 .. Len(r) - 2 : name[i] = r[2 + i]
    BY <1>1, RestOf
  <2>2. QED
    BY <1>1, <1>2, <2>1
<1>5. /\ tail \in Texts /\ Len(tail) = Len(after) - m
      /\ \A i \in 1 .. Len(after) - m : tail[i] = after[m + i]
  <2>1. /\ tail \in Texts /\ Len(tail) = Len(t) - Len(r)
        /\ \A i \in 1 .. Len(t) - Len(r) : tail[i] = t[Len(r) + i]
    BY <1>1, RestOf
  <2>2. Len(t) - Len(r) = Len(after) - m
    BY <1>1, <1>2, <1>3
  <2>3. \A i \in 1 .. Len(t) - Len(r) : m + i \in 1 .. Len(t) - 2 /\ 2 + (m + i) = Len(r) + i
    BY <1>1, <1>2
  <2>4. ASSUME NEW i \in 1 .. Len(after) - m PROVE tail[i] = after[m + i]
    <3>1. i \in 1 .. Len(t) - Len(r)
      BY <2>2
    <3>2. PICK j \in 1 .. Len(t) - 2 : j = m + i /\ 2 + j = Len(r) + i
      BY <2>3, <3>1
    <3>3. after[j] = t[2 + j]
      BY <1>3
    <3>4. QED
      BY <2>1, <3>1, <3>2, <3>3
  <2>5. QED
    BY <2>1, <2>2, <2>4
<1>6. \A i \in 1 .. m : after[i] = name[i] /\ RepoToken(name[i])
  <2> TAKE i \in 1 .. m
  <2>1. i \in 1 .. Len(t) - 2
    BY <1>1, <1>2
  <2>2. PICK j \in 3 .. Len(r) : j = 2 + i /\ j \in 1 .. Len(r)
    BY <1>1, <1>2
  <2>3. after[i] = t[j] /\ t[j] = r[j] /\ name[i] = r[j]
    BY <1>3, <1>4, <2>1, <2>2
  <2>4. RepoToken(r[j])
    BY <2>2 DEF IsName
  <2>5. QED
    BY <2>3, <2>4
<1>7. WithoutGit(name) = name
  BY DEF IsName
<1>8. PICK k \in {0, 2} : /\ k = 2 => Len(tail) > 1 /\ Folded(SubSeq(tail, 1, 2)) = <<".", "git">>
                          /\ Len(tail) > k => ~RepoToken(tail[k + 1])
  <2>1. IsTail(tail)
    OBVIOUS
  <2> HIDE DEF tail
  <2>2. QED
    BY <2>1, Zenon DEF IsTail
<1> HIDE DEF after, name, tail
<1>9. Len(after) \in Nat /\ m <= Len(after) /\ Len(tail) \in Nat
  BY <1>1, <1>2, <1>3, <1>5
<1>10. CASE k = 0
  <2>1. m < Len(after) => ~RepoToken(after[m + 1])
    <3> SUFFICES ASSUME m < Len(after) PROVE ~RepoToken(after[m + 1])
      OBVIOUS
    <3>1. 1 \in 1 .. Len(after) - m /\ Len(tail) > 0 /\ k + 1 = 1
      BY <1>5, <1>9, <1>10
    <3>2. tail[1] = after[m + 1]
      BY <1>5, <3>1
    <3>3. QED
      BY <1>8, <1>10, <3>1, <3>2
  <2>2. Span(after, RepoToken) = m
    <3>1. m \in 0 .. Len(after) /\ \A i \in 1 .. m : RepoToken(after[i])
      BY <1>6, <1>9
    <3>2. QED
      BY <1>3, <2>1, <3>1, RunOf
  <2>3. SubSeq(after, 1, m) = name
    <3>1. /\ SubSeq(after, 1, m) \in Texts /\ Len(SubSeq(after, 1, m)) = m
          /\ \A i \in 1 .. m : SubSeq(after, 1, m)[i] = after[i]
      BY <1>3, <1>9, StartOf
    <3>2. QED
      BY <1>4, <1>6, <3>1, SameText
  <2>4. QED
    BY <1>7, <2>2, <2>3 DEF after, name
<1>11. CASE k = 2
  <2>1. Len(tail) > 1 /\ Folded(SubSeq(tail, 1, 2)) = <<".", "git">>
    BY <1>8, <1>11
  <2>2. Plain(tail[1]) = "." /\ Plain(tail[2]) = "git"
    <3>1. /\ SubSeq(tail, 1, 2) \in Texts /\ Len(SubSeq(tail, 1, 2)) = 2
          /\ \A i \in 1 .. 2 : SubSeq(tail, 1, 2)[i] = tail[i]
      <4>1. 2 \in 0 .. Len(tail)
        BY <1>9, <2>1
      <4>2. QED
        BY <1>5, <4>1, StartOf
    <3>2. \A i \in 1 .. 2 : Folded(SubSeq(tail, 1, 2))[i] = Plain(SubSeq(tail, 1, 2)[i])
      BY <3>1, FoldedOf
    <3>3. 1 \in 1 .. 2 /\ 2 \in 1 .. 2
      OBVIOUS
    <3>4. \A i \in 1 .. 2 : <<".", "git">>[i] = Plain(tail[i])
      BY <2>1, <3>1, <3>2
    <3>5. QED
      BY <3>3, <3>4
  <2>3. PICK b \in Nat : b = m + 2
    BY <1>2
  <2>4. b \in 0 .. Len(after) /\ m + 1 \in 1 .. b /\ b - 1 = m + 1 /\ b > 2
    BY <1>4, <1>5, <1>9, <2>1, <2>3
  <2>5. tail[1] = after[m + 1] /\ tail[2] = after[b]
    <3>1. 1 \in 1 .. Len(after) - m /\ 2 \in 1 .. Len(after) - m
      BY <1>5, <1>9, <2>1
    <3>2. tail[1] = after[m + 1] /\ tail[2] = after[m + 2]
      BY <1>5, <3>1
    <3>3. QED
      BY <2>3, <3>2
  <2>6. \A i \in 1 .. b : RepoToken(after[i])
    <3>1. RepoToken(after[m + 1]) /\ RepoToken(after[b])
      BY <2>2, <2>5, GitIsName
    <3>2. \A i \in 1 .. b : i \in 1 .. m \/ i = m + 1 \/ i = b
      BY <2>3
    <3>3. QED
      BY <1>6, <3>1, <3>2
  <2>7. b < Len(after) => ~RepoToken(after[b + 1])
    <3> SUFFICES ASSUME b < Len(after) PROVE ~RepoToken(after[b + 1])
      OBVIOUS
    <3>1. 3 \in 1 .. Len(after) - m /\ Len(tail) > 2 /\ k + 1 = 3 /\ m + 3 = b + 1
      BY <1>5, <1>9, <1>11, <2>3
    <3>2. tail[3] = after[m + 3]
      BY <1>5, <3>1
    <3>3. QED
      BY <1>8, <1>11, <3>1, <3>2
  <2>8. Span(after, RepoToken) = b
    BY <1>3, <2>4, <2>6, <2>7, RunOf
  <2> DEFINE w == SubSeq(after, 1, b)
  <2>9. w \in Texts /\ Len(w) = b /\ \A i \in 1 .. b : w[i] = after[i]
    BY <1>3, <2>4, StartOf
  <2> HIDE DEF w
  <2>10. w[Len(w) - 1] = tail[1] /\ w[Len(w)] = tail[2]
    <3>1. b \in 1 .. b
      BY <2>4
    <3>2. w[b] = tail[2] /\ w[m + 1] = tail[1]
      BY <2>4, <2>5, <2>9, <3>1
    <3>3. QED
      BY <2>4, <2>9, <3>2
  <2>11. WithoutGit(w) = SubSeq(w, 1, Len(w) - 2)
    <3>1. Plain(w[Len(w) - 1]) = "." /\ Plain(w[Len(w)]) = "git"
      BY <2>2, <2>10
    <3>2. Len(w) > 2
      BY <2>4, <2>9
    <3>3. QED
      BY <2>9, <3>1, <3>2, WithoutDotGit
  <2>12. SubSeq(w, 1, m) = name
    <3>1. m \in 0 .. Len(w)
      BY <2>3, <2>9
    <3>2. /\ SubSeq(w, 1, m) \in Texts /\ Len(SubSeq(w, 1, m)) = m
          /\ \A i \in 1 .. m : SubSeq(w, 1, m)[i] = w[i]
      BY <2>9, <3>1, StartOf
    <3>3. \A i \in 1 .. m : i \in 1 .. b
      BY <2>3
    <3>4. QED
      BY <1>4, <1>6, <2>9, <3>2, <3>3, SameText
  <2>13. Len(w) - 2 = m
    BY <2>3, <2>9
  <2>14. WithoutGit(w) = name
    BY <2>11, <2>12, <2>13
  <2>15. QED
    BY <2>8, <2>14 DEF after, name, w
<1>12. QED
  BY <1>10, <1>11

-----------------------------------------------------------------------------
(* What every kind of text is read as. *)

\* A text of words is a text.
LEMMA TextsOfStrings == \A s \in Seq(STRING) : s \in Texts
BY SeqDef DEF Texts, Tokens

\* A page or a clone address of a repository is read as the repository, and as

\* nothing when it does not fit.
THEOREM PageRead ==
  ASSUME NEW text \in Texts, NEW r \in Texts, IsName(r), IsPageOf(text, r)
  PROVE  Normalize(text) = IF TooLong(r) THEN NoRepo ELSE r
<1>1. Len(text) \in Nat /\ Len(r) \in Nat /\ Len(r) > 2 /\ r[1] \notin Signs /\ r[2] = "/"
  BY LenProperties DEF Texts, IsName
<1>2. PICK n \in 0 .. Len(text) - Len(r) :
        /\ IsFront(SubSeq(text, 1, n)) /\ SubSeq(text, n + 1, n + Len(r)) = r
        /\ IsTail(Rest(text, n + Len(r)))
  BY DEF IsPageOf
<1> DEFINE t == Rest(text, n)
<1>3. n \in Nat /\ n \in 0 .. Len(text) /\ n < Len(text) /\ n + Len(r) <= Len(text)
  BY <1>1, <1>2
<1>4. /\ t \in Texts /\ Len(t) = Len(text) - n /\ Len(r) <= Len(t) /\ Len(t) \in Nat
      /\ \A i \in 1 .. Len(text) - n : t[i] = text[n + i]
  <2>1. /\ t \in Texts /\ Len(t) = Len(text) - n
        /\ \A i \in 1 .. Len(text) - n : t[i] = text[n + i]
    BY <1>3, RestOf
  <2>2. QED
    BY <1>1, <1>3, <2>1
<1>5. \A i \in 1 .. Len(r) : t[i] = r[i] /\ r[i] = text[n + i]
  <2>1. PICK b \in 0 .. Len(text) : b = n + Len(r)
    BY <1>1, <1>3
  <2>2. n <= b /\ b - n = Len(r)
    BY <1>1, <1>3, <2>1
  <2>3. \A i \in 1 .. b - n : SubSeq(text, n + 1, b)[i] = text[n + i]
    BY <1>3, <2>1, <2>2, PartOf
  <2>4. \A i \in 1 .. Len(r) : r[i] = text[n + i]
    BY <1>2, <2>1, <2>2, <2>3
  <2>5. \A i \in 1 .. Len(r) : i \in 1 .. Len(text) - n
    BY <1>1, <1>3
  <2>6. QED
    BY <1>4, <2>4, <2>5
<1>6. t[1] = r[1] /\ t[2] = r[2] /\ text[n + 1] = r[1]
  <2>1. 1 \in 1 .. Len(r) /\ 2 \in 1 .. Len(r)
    BY <1>1
  <2>2. QED
    BY <1>5, <2>1
<1>7. IsTail(Rest(t, Len(r)))
  BY <1>1, <1>2, <1>3, RestRest
<1>8. FromOwner(text) = t
  <2>1. ~IsSpace(text[n + 1]) /\ ~IsSlash(text[n + 1])
    BY <1>1, <1>6 DEF IsSpace, IsSlash, Signs
  <2>2. Len(t) > 1
    BY <1>1, <1>4
  <2>3. NoLead(Folded(t))
    BY <1>1, <1>4, <1>6, <2>2, OwnerNoLead
  <2>4. QED
    BY <1>2, <1>3, <2>1, <2>3, OwnerFound
<1> HIDE DEF t
<1> DEFINE after == Rest(t, 2)
           repo  == WithoutGit(SubSeq(after, 1, Span(after, RepoToken)))
           whole == SubSeq(t, 1, 2) \o repo
<1>9. repo = Rest(r, 2)
  BY <1>4, <1>5, <1>7, NameEnds
<1> HIDE DEF repo
<1>10. PICK m \in Nat : m = Len(r) - 2 /\ m > 0
  BY <1>1
<1>11. /\ repo \in Texts /\ Len(repo) = m /\ \A i \in 1 .. m : repo[i] = r[2 + i]
  <2>1. 2 \in 0 .. Len(r)
    BY <1>1
  <2>2. /\ Rest(r, 2) \in Texts /\ Len(Rest(r, 2)) = Len(r) - 2
        /\ \A i \in 1 .. Len(r) - 2 : Rest(r, 2)[i] = r[2 + i]
    BY <2>1, RestOf
  <2>3. QED
    BY <1>9, <1>10, <2>2
<1>12. whole = r
  <2> DEFINE o == SubSeq(t, 1, 2)
  <2>1. o \in Texts /\ Len(o) = 2 /\ \A i \in 1 .. 2 : o[i] = t[i]
    <3>1. 2 \in 0 .. Len(t)
      BY <1>1, <1>4
    <3>2. QED
      BY <1>4, <3>1, StartOf
  <2> HIDE DEF o
  <2>2. /\ o \o repo \in Seq(Tokens) /\ Len(o \o repo) = Len(o) + Len(repo)
        /\ \A i \in 1 .. Len(o) + Len(repo) :
             (o \o repo)[i] = IF i <= Len(o) THEN o[i] ELSE repo[i - Len(o)]
    BY <1>11, <2>1, ConcatProperties DEF Texts
  <2>3. Len(o \o repo) = Len(r)
    BY <1>1, <1>10, <1>11, <2>1, <2>2
  <2>4. ASSUME NEW i \in 1 .. Len(r) PROVE (o \o repo)[i] = r[i]
    <3>1. (o \o repo)[i] = IF i <= 2 THEN o[i] ELSE repo[i - 2]
      BY <1>10, <1>11, <2>1, <2>2, <2>3
    <3>2. CASE i <= 2
      <4>1. i \in 1 .. 2
        BY <3>2
      <4>2. QED
        BY <1>5, <2>1, <3>1, <3>2, <4>1
    <3>3. CASE ~(i <= 2)
      <4>1. PICK j \in 1 .. m : j = i - 2 /\ 2 + j = i
        BY <1>1, <1>10, <3>3
      <4>2. QED
        BY <1>11, <3>1, <3>3, <4>1
    <3>4. QED
      BY <3>2, <3>3
  <2>5. o \o repo = r
    BY <2>2, <2>3, <2>4, SameText DEF Texts
  <2>6. QED
    BY <2>5 DEF o
<1> HIDE DEF whole
<1>13. repo # <<>>
  BY <1>10, <1>11, EmptySeq
<1>14. Len(t) > 1 /\ t[1] \notin Signs /\ t[2] = "/"
  BY <1>1, <1>4, <1>6
<1>15. Normalize(text) = IF /\ Len(t) > 1 /\ t[1] \notin Signs /\ t[2] = "/"
                            /\ repo # <<>>
                            /\ \A i \in DOMAIN whole : whole[i] \notin LongWords
                         THEN whole ELSE NoRepo
  BY <1>8 DEF Normalize, whole, repo, after
<1>16. Normalize(text) = IF \A i \in DOMAIN whole : whole[i] \notin LongWords THEN whole ELSE NoRepo
  BY <1>13, <1>14, <1>15, Zenon
<1>17. QED
  BY <1>12, <1>16 DEF TooLong

\* A repository is read as itself.
THEOREM RepositoryRead ==
  ASSUME NEW r \in Texts, IsRepository(r)
  PROVE  Normalize(r) = r
<1>1. IsName(r) /\ ~TooLong(r) /\ Len(r) \in Nat
  BY LenProperties DEF IsRepository, Texts
<1> DEFINE n == 0
<1>2. n \in Nat /\ n <= Len(r) /\ n \in 0 .. Len(r) /\ Len(r) \in 0 .. Len(r)
  BY <1>1
<1>3. n + Len(r) = Len(r) /\ n + 1 = 1 /\ Len(r) - n = Len(r)
  BY <1>1
<1> HIDE DEF n
<1>4. SubSeq(r, n + 1, n + Len(r)) = r
  <2>1. /\ SubSeq(r, 1, Len(r)) \in Texts /\ Len(SubSeq(r, 1, Len(r))) = Len(r)
        /\ \A i \in 1 .. Len(r) : SubSeq(r, 1, Len(r))[i] = r[i]
    BY <1>2, StartOf
  <2>2. SubSeq(r, 1, Len(r)) = r
    BY <2>1, SameText
  <2>3. QED
    BY <1>3, <2>2
<1>5. IsTail(Rest(r, n + Len(r)))
  <2>1. Len(Rest(r, Len(r))) = 0
    BY <1>1, <1>2, RestOf
  <2>2. QED
    BY <1>3, <2>1 DEF IsTail
<1>6. IsFront(SubSeq(r, 1, n))
  <2> DEFINE f == SubSeq(r, 1, n)
  <2>1. f \in Texts /\ Len(f) = n
    BY <1>2, StartOf
  <2> HIDE DEF f
  <2>2. Rest(f, n) \in Texts /\ Len(Rest(f, n)) = n - n /\ n \in 0 .. Len(f)
    <3>1. n \in 0 .. Len(f)
      BY <1>2, <2>1
    <3>2. QED
      BY <2>1, <3>1, RestOf
  <2>3. Folded(Rest(f, n)) \in Seq(Words) /\ Len(Folded(Rest(f, n))) = 0
    BY <1>2, <2>2, FoldedOf
  <2>4. Folded(Rest(f, n)) = <<>>
    BY <2>3, EmptySeq
  <2>5. SpacesAre(f, n)
    BY DEF SpacesAre, n
  <2>6. QED
    BY <2>2, <2>4, <2>5, LeadAlone DEF IsFront, f
<1>7. IsPageOf(r, r)
  <2>1. n \in 0 .. Len(r) - Len(r)
    BY <1>1 DEF n
  <2>2. QED
    BY <1>4, <1>5, <1>6, <2>1, Zenon DEF IsPageOf
<1>8. QED
  BY <1>1, <1>7, PageRead

\* Skipping leaves an end of what an end was left of.
LEMMA SkipEnds ==
  ASSUME NEW s \in Texts, NEW p \in Texts, NEW z, IsEnd(s, z), z \in Texts
  PROVE  IsEnd(SkipPrefix(s, p), z) /\ SkipPrefix(s, p) \in Texts
<1>1. IsEnd(SkipPrefix(s, p), s)
  BY Skipped DEF IsEnd
<1>2. IsEnd(SkipPrefix(s, p), z)
  BY <1>1, Ends
<1>3. QED
  BY <1>1, <1>2 DEF IsEnd

\* Whatever is skipped, an end of the text is left.
LEMMA OwnerIsEnd ==
  ASSUME NEW text \in Texts
  PROVE  IsEnd(FromOwner(text), text)
<1> DEFINE s == Rest(text, Span(text, IsSpace))
           s1 == SkipPrefix(s, Https)
           s2 == SkipPrefix(s1, Http)
           s3 == SkipPrefix(s2, Www)
           s4 == SkipPrefix(s3, Site)
           s5 == SkipPrefix(s4, Clone)
           g == Rest(s5, Len(Git))
           v == IF IsPrefix(Git, Folded(s5)) THEN SkipPrefix(g, Clone) ELSE s5
<1>1. Https \in Texts /\ Http \in Texts /\ Www \in Texts /\ Site \in Texts /\ Clone \in Texts
      /\ Git \in Texts
  BY Leads
<1>2. FromOwner(text) = Rest(v, Span(v, IsSlash))
  BY DEF FromOwner
<1>3. s \in Texts /\ IsEnd(s, text)
  BY SpanSpaces, RestOf DEF IsEnd
<1> HIDE DEF s
<1>4. s1 \in Texts /\ IsEnd(s1, text)
  BY <1>1, <1>3, SkipEnds
<1> HIDE DEF s1
<1>5. s2 \in Texts /\ IsEnd(s2, text)
  BY <1>1, <1>4, SkipEnds
<1> HIDE DEF s2
<1>6. s3 \in Texts /\ IsEnd(s3, text)
  BY <1>1, <1>5, SkipEnds
<1> HIDE DEF s3
<1>7. s4 \in Texts /\ IsEnd(s4, text)
  BY <1>1, <1>6, SkipEnds
<1> HIDE DEF s4
<1>8. s5 \in Texts /\ IsEnd(s5, text)
  BY <1>1, <1>7, SkipEnds
<1> HIDE DEF s5
<1>9. IsPrefix(Git, Folded(s5)) => g \in Texts /\ IsEnd(g, text)
  <2> SUFFICES ASSUME IsPrefix(Git, Folded(s5)) PROVE g \in Texts /\ IsEnd(g, text)
    OBVIOUS
  <2>1. Len(Git) \in 0 .. Len(s5)
    BY <1>1, <1>8, Skipped
  <2>2. g \in Texts /\ IsEnd(g, s5)
    BY <1>8, <2>1, RestOf DEF IsEnd
  <2>3. QED
    BY <1>8, <2>2, Ends
<1> HIDE DEF g
<1>10. v \in Texts /\ IsEnd(v, text)
  <2>1. CASE IsPrefix(Git, Folded(s5))
    BY <1>1, <1>9, <2>1, SkipEnds
  <2>2. CASE ~IsPrefix(Git, Folded(s5))
    BY <1>8, <2>2
  <2>3. QED
    BY <2>1, <2>2
<1> HIDE DEF v
<1>11. Rest(v, Span(v, IsSlash)) \in Texts /\ IsEnd(Rest(v, Span(v, IsSlash)), v)
  BY <1>10, SpanSlashes, RestOf DEF IsEnd
<1>12. QED
  BY <1>2, <1>10, <1>11, Ends

\* Where there is no name there is no repository.
LEMMA NoNameRefused ==
  ASSUME NEW text \in Texts, HasNoName(text)
  PROVE  Normalize(text) = NoRepo
<1> DEFINE s     == FromOwner(text)
           after == Rest(s, 2)
           sp    == Span(after, RepoToken)
           part  == SubSeq(after, 1, sp)
           repo  == WithoutGit(part)
           whole == SubSeq(s, 1, 2) \o repo
<1> SUFFICES ASSUME Len(s) > 1, s[1] \notin Signs, s[2] = "/", repo # <<>> PROVE FALSE
  BY DEF Normalize
<1>1. PICK n \in 0 .. Len(text) : s = Rest(text, n)
  BY OwnerIsEnd DEF IsEnd
<1> HIDE DEF s
<1>2. /\ s \in Texts /\ Len(s) = Len(text) - n /\ Len(text) \in Nat
      /\ \A i \in 1 .. Len(text) - n : s[i] = text[n + i]
  BY <1>1, RestOf
<1>3. /\ after \in Texts /\ Len(after) = Len(s) - 2 /\ Len(s) \in Nat
      /\ \A i \in 1 .. Len(s) - 2 : after[i] = s[2 + i]
  <2>1. 2 \in 0 .. Len(s)
    BY <1>1, <1>2
  <2>2. QED
    BY <1>2, <2>1, RestOf
<1> HIDE DEF after
<1>4. sp \in 0 .. Len(after) /\ \A i \in 1 .. sp : RepoToken(after[i])
  BY <1>3, SpanTokens
<1> HIDE DEF sp
<1>5. part \in Texts /\ Len(part) = sp
  BY <1>3, <1>4, StartOf
<1> HIDE DEF part
<1>6. sp # 0
  <2> SUFFICES ASSUME sp = 0 PROVE FALSE
    OBVIOUS
  <2>1. part = <<>>
    BY <1>5, EmptySeq DEF Texts
  <2>2. repo = part
    <3>1. ~(Len(part) > 2)
      BY <1>5
    <3>2. QED
      BY <3>1 DEF WithoutGit
  <2>3. QED
    BY <2>1, <2>2
<1> HIDE DEF repo
<1>7. 1 \in 1 .. sp /\ 1 \in 1 .. Len(s) - 2 /\ Len(s) > 2
  BY <1>3, <1>4, <1>6
<1>8. RepoToken(s[3])
  <2>1. RepoToken(after[1]) /\ after[1] = s[2 + 1]
    BY <1>3, <1>4, <1>7
  <2>2. QED
    BY <2>1
<1>9. PICK m \in 1 .. Len(text) - 2 : m = n + 1
  BY <1>1, <1>2, <1>7
<1>10. s[1] = text[m] /\ s[2] = text[m + 1] /\ s[3] = text[m + 2]
  <2>1. 1 \in 1 .. Len(text) - n /\ 2 \in 1 .. Len(text) - n /\ 3 \in 1 .. Len(text) - n
    BY <1>1, <1>2, <1>7
  <2>2. s[1] = text[n + 1] /\ s[2] = text[n + 2] /\ s[3] = text[n + 3]
    BY <1>2, <2>1
  <2>3. n + 2 = m + 1 /\ n + 3 = m + 2
    BY <1>1, <1>9
  <2>4. QED
    BY <1>9, <2>2, <2>3
<1>11. QED
  BY <1>8, <1>9, <1>10 DEF HasNoName

\* An address of another service is refused.
LEMMA ElsewhereRefused ==
  ASSUME NEW text \in Texts, IsElsewhere(text)
  PROVE  Normalize(text) = NoRepo
<1>1. PICK n \in 0 .. Len(text) - 2, k \in 0 .. Len(text) - 2 :
        /\ SpacesAre(text, k) /\ Folded(SubSeq(text, k + 1, n)) \in {<<>>, Https, Http} /\ k <= n
        /\ text[n + 1] \notin Signs /\ text[n + 2] \in {".", ":"}
        /\ Folded(text)[n + 1] \notin {"https", "http", "www", "github"}
  BY DEF IsElsewhere
<1> DEFINE t == Rest(text, n)
           f == SubSeq(text, 1, n)
<1>2. Len(text) \in Nat
  BY LenProperties DEF Texts
<1>3. n \in Nat /\ k \in Nat /\ n \in 0 .. Len(text) /\ n + 2 <= Len(text) /\ n < Len(text)
  BY <1>1, <1>2
<1>4. /\ t \in Texts /\ Len(t) = Len(text) - n
      /\ \A i \in 1 .. Len(text) - n : t[i] = text[n + i]
  BY <1>3, RestOf
<1>5. Len(t) > 1 /\ t[1] = text[n + 1] /\ t[2] = text[n + 2] /\ Folded(t)[1] = Folded(text)[n + 1]
  <2>1. 1 \in 1 .. Len(text) - n /\ 2 \in 1 .. Len(text) - n
    BY <1>2, <1>3
  <2>2. Folded(t)[1] = Folded(text)[n + 1]
    BY <1>3, <2>1, FoldedRest
  <2>3. QED
    BY <1>2, <1>3, <1>4, <2>1, <2>2
<1>6. IsFront(f)
  <2>1. f \in Texts /\ Len(f) = n /\ \A i \in 1 .. n : f[i] = text[i]
    BY <1>3, StartOf
  <2>2. k \in 0 .. Len(f)
    BY <1>1, <1>3, <2>1
  <2>3. SpacesAre(f, k)
    <3>1. \A i \in 1 .. k : i \in 1 .. n
      BY <1>1, <1>3
    <3>2. QED
      BY <1>1, <2>1, <3>1 DEF SpacesAre
  <2> HIDE DEF f
  <2>4. Rest(f, k) = SubSeq(text, k + 1, n)
    <3>1. /\ Rest(f, k) \in Texts /\ Len(Rest(f, k)) = n - k
          /\ \A i \in 1 .. n - k : Rest(f, k)[i] = f[k + i]
      BY <2>1, <2>2, RestOf
    <3>2. /\ SubSeq(text, k + 1, n) \in Texts /\ Len(SubSeq(text, k + 1, n)) = n - k
          /\ \A i \in 1 .. n - k : SubSeq(text, k + 1, n)[i] = text[k + i]
      BY <1>1, <1>3, PartOf
    <3>3. \A i \in 1 .. n - k : k + i \in 1 .. n
      BY <1>1, <1>3
    <3>4. \A i \in 1 .. n - k : Rest(f, k)[i] = SubSeq(text, k + 1, n)[i]
      BY <2>1, <3>1, <3>2, <3>3
    <3>5. QED
      BY <3>1, <3>2, <3>4, SameText
  <2>5. IsLead(Folded(Rest(f, k)))
    BY <1>1, <2>4, LeadAlone
  <2>6. QED
    BY <2>2, <2>3, <2>5 DEF IsFront
<1>7. FromOwner(text) = t
  <2>1. ~IsSpace(text[n + 1]) /\ ~IsSlash(text[n + 1])
    BY <1>1 DEF IsSpace, IsSlash, Signs
  <2>2. NoLead(Folded(t))
    BY <1>1, <1>4, <1>5, OtherNoLead
  <2>3. QED
    BY <1>3, <1>6, <2>1, <2>2, OwnerFound
<1>8. t[2] # "/"
  BY <1>1, <1>5
<1> HIDE DEF t
<1>9. QED
  BY <1>7, <1>8 DEF Normalize

\* Every text is read as what is meant by it.
LEMMA PagesRead ==
  ASSUME NEW page \in Pages
  PROVE  Normalize(page.text) = page.means
<1> DEFINE text == page.text
           r == page.means
<1>1. text \in Texts /\ r \in Texts
  BY PagesAssumption, TextsOfStrings
<1>2. \/ IsRepository(r) /\ IsPageOf(text, r)
      \/ /\ r = NoRepo
         /\ \/ HasNoName(text) \/ IsElsewhere(text)
            \/ \E i, j \in 1 .. Len(text) :
                 LET q == SubSeq(text, i, j)
                 IN IsName(q) /\ TooLong(q) /\ IsPageOf(text, q)
  BY PagesAssumption
<1> HIDE DEF text, r
<1>3. CASE IsRepository(r) /\ IsPageOf(text, r)
  BY <1>1, <1>3, PageRead DEF IsRepository, text, r
<1>4. CASE r = NoRepo /\ HasNoName(text)
  BY <1>1, <1>4, NoNameRefused DEF text, r
<1>5. CASE r = NoRepo /\ IsElsewhere(text)
  BY <1>1, <1>5, ElsewhereRefused DEF text, r
<1>6. CASE r = NoRepo /\ \E i, j \in 1 .. Len(text) :
                           LET q == SubSeq(text, i, j)
                           IN IsName(q) /\ TooLong(q) /\ IsPageOf(text, q)
  <2>1. PICK i \in 1 .. Len(text), j \in 1 .. Len(text) :
          LET q == SubSeq(text, i, j) IN IsName(q) /\ TooLong(q) /\ IsPageOf(text, q)
    BY <1>6
  <2> DEFINE q == SubSeq(text, i, j)
  <2>2. q \in Texts
    <3>1. Len(text) \in Nat
      BY <1>1, LenProperties DEF Texts
    <3>2. \A l \in i .. j : l \in 1 .. Len(text)
      BY <3>1
    <3>3. \A l \in i .. j : text[l] \in Tokens
      BY <1>1, <3>2, ElementOfSeq DEF Texts
    <3>4. i \in Int /\ j \in Int
      BY <3>1
    <3>5. QED
      BY <3>3, <3>4, SubSeqProperties DEF Texts
  <2> HIDE DEF q
  <2>3. IsName(q) /\ TooLong(q) /\ IsPageOf(text, q)
    BY <2>1 DEF q
  <2>4. Normalize(text) = NoRepo
    BY <1>1, <2>2, <2>3, PageRead
  <2>5. QED
    BY <1>6, <2>4 DEF text, r
<1>7. QED
  BY <1>2, <1>3, <1>4, <1>5, <1>6

-----------------------------------------------------------------------------
(* What is in the list was pasted, and stays what it is. *)

\* Names that are read as themselves: what an earlier session left, and the home

\* repository.
LEMMA SavedReadable == Readable(<<>>) /\ Readable(<<Home>>) /\ \A l \in Saved : Readable(l)
<1>1. ASSUME NEW r \in {Home} \cup UNION {ToSet(l) : l \in Saved}
      PROVE  Normalize(r) = r
  BY PagesAssumption, TextsOfStrings, RepositoryRead
<1>2. Normalize(Home) = Home
  BY <1>1
<1>3. Readable(<<>>) /\ Readable(<<Home>>)
  BY <1>2 DEF Readable
<1>4. ASSUME NEW l \in Saved PROVE Readable(l)
  <2>1. IsList(l) /\ Len(l) \in Nat
    BY BookmarksAssumption, ListLen
  <2>2. DOMAIN l = 1 .. Len(l)
    BY <2>1 DEF IsList
  <2>3. \A i \in 1 .. Len(l) : l[i] \in ToSet(l)
    BY <2>2 DEF ToSet
  <2>4. \A i \in 1 .. Len(l) : Normalize(l[i]) = l[i]
    BY <1>1, <2>3
  <2>5. QED
    BY <2>4 DEF Readable
<1>5. QED
  BY <1>3, <1>4

\* Breaking off adds nothing but a torn name.
LEMMA CutReadable ==
  ASSUME NEW l, IsList(l), Readable(l), NEW c \in CutOff(l)
  PROVE  Readable(c)
<1>1. CASE \E k \in 0 .. Len(l) : c = SubSeq(l, 1, k)
  <2>1. PICK k \in 0 .. Len(l) : c = SubSeq(l, 1, k)
    BY <1>1
  <2>2. Len(c) = k /\ \A i \in 1 .. k : c[i] = l[i]
    BY <2>1, Cropped
  <2>3. \A i \in 1 .. k : i \in 1 .. Len(l)
    BY ListLen
  <2>4. QED
    BY <2>2, <2>3 DEF Readable
<1>2. CASE \E k \in 1 .. Len(l) : c = Append(SubSeq(l, 1, k - 1), Torn)
  <2>1. PICK k \in 1 .. Len(l) : c = Append(SubSeq(l, 1, k - 1), Torn)
    BY <1>2
  <2> DEFINE p == SubSeq(l, 1, k - 1)
             S == {p[i] : i \in 1 .. Len(p)} \cup {Torn}
  <2>2. Len(l) \in Nat /\ k - 1 \in 0 .. Len(l)
    BY ListLen
  <2>3. IsList(p) /\ Len(p) = k - 1 /\ \A i \in 1 .. k - 1 : p[i] = l[i]
    BY <2>2, Cropped
  <2> HIDE DEF p
  <2>4. p \in Seq(S) /\ Torn \in S
    <3>1. \A i \in 1 .. Len(p) : p[i] \in S
      OBVIOUS
    <3>2. Torn \in S
      OBVIOUS
    <3> HIDE DEF S
    <3>3. p \in Seq(S)
      BY <2>3, <3>1, ListIsSeq
    <3>4. QED
      BY <3>2, <3>3
  <2> HIDE DEF S
  <2>5. /\ Len(Append(p, Torn)) = Len(p) + 1
        /\ \A i \in 1 .. Len(p) : Append(p, Torn)[i] = p[i]
        /\ Append(p, Torn)[Len(p) + 1] = Torn
    BY <2>4, AppendProperties
  <2>6. Len(c) = k /\ c[k] = Torn /\ \A i \in 1 .. k - 1 : c[i] = l[i]
    <3>1. c = Append(p, Torn)
      BY <2>1 DEF p
    <3>2. k - 1 + 1 = k
      BY <2>2
    <3>3. QED
      BY <2>3, <2>5, <3>1, <3>2
  <2>7. \A i \in 1 .. k : i = k \/ (i \in 1 .. k - 1 /\ i \in 1 .. Len(l))
    BY <2>2
  <2>8. QED
    BY <2>6, <2>7 DEF Readable
<1>3. QED
  BY <1>1, <1>2 DEF CutOff

\* What a write leaves can be read back.
LEMMA WrittenReadable ==
  ASSUME IsList(marks), Readable(marks), NEW old, Readable(old.list),
         NEW new, NEW ok, NEW fault, SaveTo(old, new, ok, fault)
  PROVE  Readable(new.list)
<1>1. CASE new = File(marks) \/ new = old
  BY <1>1, FileFields
<1>2. CASE new \in {File(l) : l \in CutOff(marks)}
  <2>1. PICK l \in CutOff(marks) : new = File(l)
    BY <1>2
  <2>2. QED
    BY <2>1, CutReadable, FileFields
<1>3. QED
  BY <1>1, <1>2 DEF SaveTo

\* At the start the list is empty.
LEMMA PasteInit == Init => PasteInv
<1> SUFFICES ASSUME Init PROVE PasteInv
  OBVIOUS
<1>1. marks = <<>> /\ pc = "off" /\ env = arc /\ arc \in {Absent} \cup {File(l) : l \in Saved}
  BY DEF Init
<1>2. Readable(arc.list)
  <2>1. CASE arc = Absent
    BY <2>1, FileFields, SavedReadable
  <2>2. CASE arc \in {File(l) : l \in Saved}
    BY <2>2, FileFields, SavedReadable
  <2>3. QED
    BY <1>1, <2>1, <2>2
<1>3. QED
  BY <1>1, <1>2, SavedReadable DEF PasteInv, SavesWhatWasPasted, ReadableFiles

\* What is added is what was meant.
LEMMA PasteAdd ==
  ASSUME BInv, PasteInv, ActionBookmarkAdd
  PROVE  PasteInv'
<1>1. PICK c \in CurrentRepos :
        ~GfBookmarksFind(c.repo) /\ Change(GfBookmarksAdd(c.repo), TRUE, c.means)
  BY DEF ActionBookmarkAdd
<1>2. PICK page \in Pages : c = [repo |-> Normalize(page.text), means |-> page.means]
  BY DEF CurrentRepos
<1>3. c.repo = c.means /\ c.means = page.means /\ c.repo # NoRepo
  BY <1>1, <1>2, PagesRead DEF CurrentRepos
<1>4. Normalize(c.repo) = c.repo
  <2>1. page.means \in Texts /\ IsRepository(page.means)
    BY <1>3, PagesAssumption, TextsOfStrings
  <2>2. QED
    BY <1>3, <2>1, RepositoryRead
<1> DEFINE rest == IF Len(marks) < MaxBookmarks THEN marks ELSE Front(marks)
           new  == <<c.repo>> \o rest
<1>5. marks' = new /\ meant' = c.means /\ UNCHANGED <<env, arc>>
  BY <1>1 DEF Change, GfBookmarksAdd
<1>6. IsList(marks) /\ Readable(marks) /\ ReadableFiles
  BY DEF BInv, TypeOK, PasteInv, SavesWhatWasPasted
<1>7. Len(new) \in 1 .. Len(marks) + 1 /\ new[1] = c.repo /\ \A j \in 2 .. Len(new) : new[j] = marks[j - 1]
  BY <1>6, Added
<1> HIDE DEF new
<1>8. Readable(new)
  <2>1. Len(marks) \in Nat
    BY <1>6, ListLen
  <2>2. \A i \in 1 .. Len(new) : i = 1 \/ (i \in 2 .. Len(new) /\ i - 1 \in 1 .. Len(marks))
    BY <1>7, <2>1
  <2>3. QED
    BY <1>4, <1>6, <1>7, <2>2 DEF Readable
<1>9. Readable(marks)' /\ ReadableFiles'
  BY <1>5, <1>6, <1>8 DEF Readable, ReadableFiles
<1>10. marks'[1] = meant'
  BY <1>3, <1>5, <1>7
<1>11. QED
  BY <1>9, <1>10 DEF PasteInv, SavesWhatWasPasted

\* Removing leaves the others as they are.
LEMMA PasteRemove ==
  ASSUME BInv, PasteInv, ActionBookmarkRemove
  PROVE  PasteInv'
<1>1. PICK i \in 1 .. Len(marks) : Change(RemoveAt(marks, i), FALSE, NoRepo)
  BY DEF ActionBookmarkRemove
<1>2. IsList(marks) /\ Readable(marks) /\ ReadableFiles
  BY DEF BInv, TypeOK, PasteInv, SavesWhatWasPasted
<1> DEFINE new == RemoveAt(marks, i)
<1>3. marks' = new /\ adding' = FALSE /\ UNCHANGED <<env, arc>>
  BY <1>1 DEF Change
<1>4. /\ Len(new) = Len(marks) - 1 /\ Len(marks) \in Nat
      /\ \A j \in 1 .. Len(marks) - 1 : new[j] = marks[IF j < i THEN j ELSE j + 1]
  BY <1>2, Removed, ListLen
<1> HIDE DEF new
<1>5. Readable(new)
  <2>1. \A j \in 1 .. Len(new) :
          /\ j \in 1 .. Len(marks) - 1
          /\ (IF j < i THEN j ELSE j + 1) \in 1 .. Len(marks)
    BY <1>4
  <2>2. QED
    BY <1>2, <1>4, <2>1 DEF Readable
<1>6. QED
  BY <1>2, <1>3, <1>5 DEF PasteInv, SavesWhatWasPasted, Readable, ReadableFiles

\* No step brings in a name that is not read as itself.
LEMMA PasteStep ==
  ASSUME BInv, PasteInv, [Next]_vars
  PROVE  PasteInv'
<1>1. IsList(marks) /\ Readable(marks) /\ Readable(env.list) /\ Readable(arc.list)
  BY DEF BInv, TypeOK, PasteInv, SavesWhatWasPasted, ReadableFiles
<1>2. CASE Start
  <2>1. Readable(GfBookmarksLoad)
    BY <1>1, SavedReadable DEF GfBookmarksLoad, OrHome, Loaded
  <2>2. marks' = GfBookmarksLoad /\ pc' = "idle" /\ UNCHANGED <<env, arc>>
    BY <1>2 DEF Start
  <2> HIDE DEF GfBookmarksLoad
  <2>3. QED
    BY <1>1, <2>1, <2>2 DEF PasteInv, SavesWhatWasPasted, Readable, ReadableFiles
<1>3. CASE SaveEnv
  <2>1. PICK new \in Outcomes(env), ok \in BOOLEAN, fault \in Fine .. Silent :
          SaveTo(env, new, ok, fault) /\ env' = new
    BY <1>3 DEF SaveEnv
  <2>2. Readable(env'.list)
    BY <1>1, <2>1, WrittenReadable
  <2>3. pc' = "arc" /\ UNCHANGED <<marks, arc>>
    BY <1>3 DEF SaveEnv
  <2>4. QED
    BY <1>1, <2>2, <2>3 DEF PasteInv, SavesWhatWasPasted, Readable, ReadableFiles
<1>4. CASE SaveArc
  <2>1. PICK new \in Outcomes(arc), ok \in BOOLEAN, fault \in Fine .. Silent :
          SaveTo(arc, new, ok, fault) /\ arc' = new
    BY <1>4 DEF SaveArc
  <2>2. Readable(arc'.list)
    BY <1>1, <2>1, WrittenReadable
  <2>3. pc' = "idle" /\ UNCHANGED <<marks, env>>
    BY <1>4 DEF SaveArc
  <2>4. QED
    BY <1>1, <2>2, <2>3 DEF PasteInv, SavesWhatWasPasted, Readable, ReadableFiles
<1>5. ASSUME Gone, Readable(env'.list), Readable(arc'.list) PROVE PasteInv'
  <2>1. marks' = <<>> /\ pc' = "off"
    BY <1>5 DEF Gone
  <2>2. QED
    BY <1>5, <2>1, SavedReadable DEF PasteInv, SavesWhatWasPasted, Readable, ReadableFiles
<1>6. CASE Quit
  BY <1>1, <1>5, <1>6 DEF Quit
<1>7. CASE Reboot
  BY <1>1, <1>5, <1>7 DEF Reboot
<1>8. CASE RebootInSave
  <2>1. PICK l \in CutOff(marks) : arc' = File(l)
    BY <1>8 DEF RebootInSave
  <2>2. Gone /\ env' = arc'
    BY <1>8 DEF RebootInSave
  <2>3. Readable(arc'.list)
    BY <1>1, <2>1, CutReadable, FileFields
  <2>4. QED
    BY <1>5, <2>2, <2>3
<1>9. CASE UNCHANGED vars
  BY <1>9 DEF vars, PasteInv, SavesWhatWasPasted, Readable, ReadableFiles
<1>10. QED
  BY <1>2, <1>3, <1>4, <1>6, <1>7, <1>8, <1>9, PasteAdd, PasteRemove DEF Next

\* What is saved is the repository of the page or clone address that was pasted,

\* and what is in the list is read as itself again: for every list and for every
\* text that is written as the guide says, whatever stands in front of the name.
THEOREM PastedIsSaved == Spec => []SavesWhatWasPasted
<1>1. Init => PasteInv
  BY PasteInit
<1>2. BInv /\ PasteInv /\ [Next]_vars => PasteInv'
  BY PasteStep
<1>3. PasteInv => SavesWhatWasPasted
  BY DEF PasteInv
<1>4. QED
  BY <1>1, <1>2, <1>3, Invariance, PTL DEF Spec
=============================================================================
